SPECIFICATION MCSpec
CONSTANTS
  i1 = i1
  i2 = i2
  v1 = v1
  v2 = v2
  NoInode = NoInode
  Code <- MCCode
  HeadLen <- MCHeadLen
  NameLen <- MCNameLen
  PageLen <- MCPageLen
  Mime = {"html"}
  Html = "html"
  MimeLen <- MCMimeLen
  Inode = {i1, i2}
  Version = {v1, v2}
  FileSize = {0, 2, 5, 11}
  LuaSize = {0, 10}
  IntLimit = 11
  MaxChanges = 2
  PIPE_BUF = 6
  SizeLimit = 16
  Faults = {"short", "error", "open", "oom"}
INVARIANTS
  ResponseTypeOK
  AnnouncedLength
  FileAsItWas
  Contiguous
  NeverRepeats
PROPERTIES
  Returns
CHECK_DEADLOCK FALSE
