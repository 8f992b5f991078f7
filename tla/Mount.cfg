SPECIFICATION Spec
CONSTANTS
  Projects = {"A", "B"}
  Files <- MCFiles
  BuildFiles <- MCBuildFiles
  BuildNames <- MCBuildNames
  CacheTTL = 2
  MaxWrites = 2
  MaxRemounts = 1
INVARIANTS
  TypeOK
  SizeTrusted
  OnlyPendingCrosses
PROPERTIES
  FlushKeepsOthers
  EventuallyCoherent
CHECK_DEADLOCK FALSE
