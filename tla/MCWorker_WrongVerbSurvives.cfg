SPECIFICATION WorkerSpec
CONSTANTS
  p1 = p1
  c1 = c1
  l1 = l1
  l2 = l2
  nofile = nofile
  staticfile = staticfile
  nopath = nopath
  Path <- MCPath
  Pattern <- MCPattern
  Handler <- MCHandler
  Glob <- MCGlob
  Result <- MCResult
  Pid <- MCPid
  Conn <- MCConn
  Listener <- MCListener
  ListenFd <- MCListenFd
  NoFile <- nofile
  StaticFile <- staticfile
  NoPath <- nopath
  Funcs <- MCFuncs
  Rootish <- MCRootish
  Index = "/index.html"
  Directive <- MCDirective
  Line <- FewLines
  FileKind <- MCFileKind
  FdNum <- MCFdNum
  KeepAlive = FALSE
  MaxRequests = 2
  MaxAsk = 1
  Faults = {}
INVARIANT
  WrongVerbSurvives
CHECK_DEADLOCK FALSE
