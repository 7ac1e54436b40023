SPECIFICATION ServerSpec
CONSTANTS
  p1 = p1
  p2 = p2
  c1 = c1
  c2 = c2
  l1 = l1
  l2 = l2
  nofile = nofile
  staticfile = staticfile
  nopath = nopath
  Path <- MCPath
  Pattern <- MCPattern
  Handler <- MCHandler
  Glob <- MCGlob
  Result <- MCResult
  Pid <- MCPid
  Listener <- MCListener
  ListenFd <- MCListenFd
  NoFile <- nofile
  StaticFile <- staticfile
  NoPath <- nopath
  Funcs <- MCFuncs
  Rootish <- MCRootish
  Index = "/index.html"
  Directive <- MCDirective
  Line <- OneLine
  FileKind <- MCFileKind
  FdNum <- TightFdNum
  Conn <- TwoConns
  KeepAlive = TRUE
  MaxRequests = 1
  MaxAsk = 1
  Faults = {"oom", "fork", "sigint"}
  ListenOrder <- MCListenOrder
  Backlog = 1
INVARIANTS
  ServerTypeOK
  OneChild
  NoneWhileLooking
  AcceptFindsOne
  ChildHoldsOnlyItsOwn
PROPERTIES
  ImplementsSerial
SYMMETRY Children2
CHECK_DEADLOCK FALSE
