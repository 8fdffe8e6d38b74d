SPECIFICATION Spec
CONSTANTS
  a1 = a1
  a2 = a2
  c1 = c1
  c2 = c2
  Nobody = Nobody
  Address <- OneAddress
  Conn <- OneConn
  Minute = 2
  RateLimit = 2
  MaxTime = 6
  MaxRequests = 5
  ServerCert = TRUE
  HostCert = {TRUE, FALSE}
  MaxConnections = 1
INVARIANTS
  TwoWindowsAtMost
  CommandsStayPrivate
  RepliesStayPrivate
PROPERTY
  RefusedOnlyIfBusy
