------------------------------ MODULE MC_WalScan ------------------------------
(* An instance of WalScan: four frames of two or four cells. *)
EXTENDS WalScan

MCSizes == {2, 4}
=============================================================================
