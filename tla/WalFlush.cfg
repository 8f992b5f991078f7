SPECIFICATION Spec
CONSTANTS
  Procs <- Mount
  Mounts <- Mount
  Cells <- MCCells
  PathOf <- MCPathOf
  MaxRecords = 3
  MaxCrashes = 1
  Faults = {"base", "write", "ack", "rewrite"}
INVARIANTS
  TypeOK
  NothingLost
PROPERTIES
  ImplementsWriteBack
  EventuallyFlushed
CHECK_DEADLOCK FALSE
