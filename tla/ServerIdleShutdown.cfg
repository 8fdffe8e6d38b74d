\* One client that stays connected and silent when the server is told to stop.
CONSTANTS
    Conn = {c1}
    NoConn = NoConn
    Free = Free
    Main = Main
    Acceptor = Acceptor
    Cleaner = Cleaner
    Thread <- MCThread
    MaxLogins = 0
    MaxConnections = 1
SPECIFICATION IdleSpec
PROPERTY ShutdownCompletes
