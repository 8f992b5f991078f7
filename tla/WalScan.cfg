SPECIFICATION Spec
CONSTANTS
  MaxFrames = 4
  Sizes <- MCSizes
INVARIANTS
  TypeOK
  FoundInOrder
  MissingIsBehindOverrun
CHECK_DEADLOCK FALSE
