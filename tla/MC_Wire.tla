-------------------------------- MODULE MC_Wire --------------------------------
(* All short files, and files of four blocks.  Of the paths one is too long for
   its length field. *)
EXTENDS Wire, TLC

MCContents ==
  UNION {[1 .. n -> {0, 1}] : n \in 0 .. 8}
    \cup {[i \in 1 .. 16 |-> IF i <= k THEN 0 ELSE 1] : k \in {0, 4, 5, 16}}
MCPaths == {<<1>>, <<1, 0, 1>>, <<1, 0, 0, 1, 0, 0>>}
===============================================================================
