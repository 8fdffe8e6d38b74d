\* Two clients, both admitted: every interleaving of their sessions, cleanup,
\* shutdown and destruction.
CONSTANTS
    Conn = {c1, c2}
    NoConn = NoConn
    Free = Free
    Main = Main
    Acceptor = Acceptor
    Cleaner = Cleaner
    Thread <- MCThread
    MaxLogins = 1
    MaxConnections = 2
SPECIFICATION Spec
SYMMETRY ClientSymmetry
INVARIANTS
    SingleStopper
    NothingOutlivesObject
    SessionGivenBack
    GoneMeansClean
PROPERTY ErasedAfterStop
