---------------------------- MODULE MC_FileServer ----------------------------
(* Two concurrent sessions on one path.  c1 and c2 are files of two 64 KiB  *)
(* blocks that share the first one, and of one content-defined chunk each.  *)
(* The blocks of c1 lie in a prefix directory that is on disk, the others not. *)
EXTENDS FileServer, TLC
CONSTANTS s1, s2, p1, c0, c1, c2, x, y, z, u, v, d1, d2
MCSessions == {s1, s2}
MCPaths    == {p1}
MCContents == {c0, c1, c2}
MCBlocks   == {x, y, z, u, v}
MCPrefix   == [b \in MCBlocks |-> IF b \in {x, y, u} THEN d1 ELSE d2]
MCRooted   == {d1}
MCFixed    == (c0 :> <<>>) @@ (c1 :> <<x, y>>) @@ (c2 :> <<x, z>>)
MCCdc      == (c0 :> <<>>) @@ (c1 :> <<u>>) @@ (c2 :> <<v>>)

\* At first the path is free, or holds c1 in either chunking.
MCInit == Init /\ \A p \in Paths : Content(index[p]) \in {NoFile, c1}
MCSpec == MCInit /\ [][Next]_vars
=============================================================================
