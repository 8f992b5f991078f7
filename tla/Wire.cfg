SPECIFICATION WireSpec
CONSTANTS
  Contents <- MCContents
  Paths <- MCPaths
  Base = 2
  PathMod = 4
  BlockSize = 4
  MaxPlain = 8
  MaxPayload = 14
  MinSize = 2
  MaxSize = 5
INVARIANTS
  Delivered
  CutsExplained
CHECK_DEADLOCK FALSE
