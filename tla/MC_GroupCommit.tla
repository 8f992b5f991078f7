--------------------------- MODULE MC_GroupCommit ---------------------------
(* Two writers, one group-commit worker and one flush worker, as the code   *)
(* starts them.                                                             *)
EXTENDS GroupCommit
CONSTANTS w1, w2, tick, flush
MCWriters  == {w1, w2}
MCTickers  == {tick}
MCFlushers == {flush}
=============================================================================
