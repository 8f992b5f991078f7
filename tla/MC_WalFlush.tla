------------------------------ MODULE MC_WalFlush ------------------------------
(* Instances of WalFlush: two files, one of them with two places to write. *)
EXTENDS WalFlush

Mount == {"mount"}
TwoProcesses == {"mount", "mcp"}

OneEach == {"a1", "b1"}
MCCells == {"a1", "a2", "b1"}
MCPathOf == [a1 |-> "a", a2 |-> "a", b1 |-> "b"]
=============================================================================
