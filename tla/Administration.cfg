SPECIFICATION FairSpec
CONSTANTS
  p1 = p1
  p2 = p2
  p3 = p3
  h1 = h1
  h2 = h2
  s1 = s1
  s2 = s2
  NoHost = NoHost
  NoWish = NoWish
  Missing = Missing
  Broken = Broken
  Nobody = Nobody
  Blank = Blank
  Pid <- Pids3
  Hostname <- OneName
  Setting <- OneSetting
  FirstFile <- OneHost
  Barred <- OneOfThem
  MaxRuns = 3
PROPERTIES
  ProcessesEnd
INVARIANTS
  ServerIsNamed
  NothingLeftBehind
  OnlyServersAreSignalled
  RestartFindsPortFree
  HostsAreAsAsked
