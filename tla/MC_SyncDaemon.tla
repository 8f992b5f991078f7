---------------------------- MODULE MC_SyncDaemon ----------------------------
(* One file, in a directory that may be made later.  What the engine does    *)
(* for a path looks at nothing of another's; only a pass that is abandoned   *)
(* for one path leaves out others, as if it had ended before them.           *)
EXTENDS SyncDaemon

OnePath == {"d/b"}
OnePathDir == [p \in OnePath |-> "d"]
MCDirs == {"/", "d"}
MCRoot == "/"

Daemon(others) == [once |-> FALSE, backup |-> FALSE, others |-> others]
Once(backup) == [once |-> TRUE, backup |-> backup, others |-> FALSE]
MCModes == {Daemon(TRUE), Once(TRUE)}

=============================================================================
