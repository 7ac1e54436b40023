SPECIFICATION FairWorkerSpec
CONSTANTS
  p1 = p1
  c1 = c1
  l1 = l1
  l2 = l2
  nofile = nofile
  staticfile = staticfile
  nopath = nopath
  Path <- MCPath
  Pattern <- MCPattern
  Handler <- MCHandler
  Glob <- MCGlob
  Result <- MCResult
  Pid <- MCPid
  Conn <- MCConn
  Listener <- MCListener
  ListenFd <- MCListenFd
  NoFile <- nofile
  StaticFile <- staticfile
  NoPath <- nopath
  Funcs <- MCFuncs
  Rootish <- MCRootish
  Index = "/index.html"
  Directive <- MCDirective
  Line <- MCLine
  FileKind <- NoIndexFileKind
  FdNum <- TightFdNum
  KeepAlive = FALSE
  MaxRequests = 2
  MaxAsk = 2
  Faults = {}
INVARIANTS
  RoomForDescriptors
  AnswersFirstRequest
  CleanExitAnswered
  DiesOnlyForCause
PROPERTIES
  NoEarlyAnswer
CHECK_DEADLOCK FALSE
