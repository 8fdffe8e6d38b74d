\* A session that does everything beside one that only lists; two addresses for active mode, one position to resume at.
CONSTANTS
    Session = {s1, s2}
    Plain = {s2}
    MaxFd = 4
    Endpoint = {e1, e2}
    LowPort = LowPort
    NoPort = NoPort
    MaxRest = 1
SPECIFICATION Spec
INVARIANTS
    NoSocketLeaks
    LastModeWins
    RestServesOnce
