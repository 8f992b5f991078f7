-------------------------------- MODULE MC_Mount --------------------------------
(* A source file at the top, and a build directory with one artifact. *)
EXTENDS Mount

MCFiles == {<<"f">>}
MCBuildFiles == {<<"target", "o">>}
MCBuildNames == {"target"}
=============================================================================
