SPECIFICATION RoutesSpec
CONSTANTS
  Path <- MCPath
  Pattern <- MCPattern
  Handler <- MCHandler
  Glob <- MCGlob
  Result <- MCResult
  Script <- MCScript
  Words <- MCWords
  Calls <- MCCalls
  Gives <- MCGives
  NoHandler = "nil"
  Upper <- MCUpper
  Defaults <- MCDefaults
  Broken <- MCBroken
INVARIANTS
  RoutesTypeOK
  ServesFirstRegistered
  TableOfRegistrations
  DefaultsHideNothing
CHECK_DEADLOCK FALSE
