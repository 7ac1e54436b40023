SPECIFICATION ProcessSpec
CONSTANTS
  a = a
  b = b
  c = c
  readme = readme
  NULL = NULL
  Node <- Three
  Other <- MCOther
  Domain <- MCDomain
  Inet <- MCInet
  MaxSockets = 2
  MaxRoots = 2
  MaxFound = 6
  Faults = {"oom", "sigint"}
INVARIANTS
  ProcessTypeOK
  ListAsFound
  QuitsOnce
  ReadyForClients
  QuitCrashesOnlyForPlugin
  QuitsClean
SYMMETRY Files
CHECK_DEADLOCK FALSE
