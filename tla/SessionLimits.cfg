\* Three places for connections, two users, one virtual host, limits of one and two.
CONSTANTS
    Conn = {c1, c2, c3}
    User = {u1, u2}
    NoUser = NoUser
    Host = {h1}
    NoHost = NoHost
    MaxSessionsPerUser = 1
    MaxSessions = 2
SPECIFICATION Spec
SYMMETRY ConnSymmetry
INVARIANTS
    OvershootBound
    NeverUndercounts
    CountsAreExact
