SPECIFICATION FairServerSpec
CONSTANTS
  p1 = p1
  p2 = p2
  c1 = c1
  c2 = c2
  l1 = l1
  l2 = l2
  nofile = nofile
  staticfile = staticfile
  nopath = nopath
  Path <- MCPath
  Pattern <- MCPattern
  Handler <- MCHandler
  Glob <- MCGlob
  Result <- MCResult
  Pid <- OnePid
  Listener <- MCListener
  ListenFd <- MCListenFd
  NoFile <- nofile
  StaticFile <- staticfile
  NoPath <- nopath
  Funcs <- MCFuncs
  Rootish <- MCRootish
  Index = "/index.html"
  Directive <- MCDirective
  Line <- FileLine
  FileKind <- MCFileKind
  FdNum <- MCFdNum
  Conn <- TwoConns
  KeepAlive = FALSE
  MaxRequests = 1
  MaxAsk = 1
  Faults = {}
  ListenOrder <- MCListenOrder
  Backlog = 2
INVARIANTS
  HoldsOnlyUnforked
PROPERTIES
  ImplementsFairSerial
  EveryClientServed
CHECK_DEADLOCK FALSE
