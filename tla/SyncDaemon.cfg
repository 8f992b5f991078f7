SPECIFICATION Spec
CONSTANTS
  Paths <- OnePath
  Dirs <- MCDirs
  Root <- MCRoot
  DirOf <- OnePathDir
  Modes <- MCModes
  Tick = 2
  Start = 2
  MaxTime = 4
  MaxEdits = 2
  MaxFaults = 1
  MaxRestarts = 1
  None = None
INVARIANTS
  TypeOK
  QuietPathsAgree
  OnceMirrors
PROPERTIES
  Settles
  EventuallyInSync
CHECK_DEADLOCK FALSE
