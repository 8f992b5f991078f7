SPECIFICATION Spec
CONSTANTS
  Procs <- TwoProcesses
  Mounts <- Mount
  Cells <- OneEach
  PathOf <- MCPathOf
  MaxRecords = 2
  MaxCrashes = 0
  Faults = {"ack", "late", "rewrite", "unlink", "read", "rotate"}
INVARIANTS
  OnlyStraysLost
