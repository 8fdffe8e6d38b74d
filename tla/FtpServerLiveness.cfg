\* Two clients and room for one: the limit, and progress when clients do not
\* stay for ever.
CONSTANTS
    Conn = {c1, c2}
    NoConn = NoConn
    Free = Free
    Main = Main
    Acceptor = Acceptor
    Cleaner = Cleaner
    Thread <- MCThread
    MaxLogins = 0
    MaxConnections = 1
SPECIFICATION FairSpec
INVARIANT LiveBound
PROPERTIES
    ShutdownCompletes
    EndedIsReclaimed
    WaiterIsAnswered
