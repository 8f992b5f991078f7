------------------------------ MODULE MC_Project ------------------------------
(* Two paths in one project, and one of them in another. *)
EXTENDS Project, TLC

CONSTANTS c1, c2, m1, m2

MCFiles == {<<"P", "a">>, <<"P", "b">>, <<"Q", "a">>}
\* Either writes that contend for the embeddings, or backups and restores with
\* someone who changes the files.
Budget(w, p, d, b, r) == [write |-> w, put |-> p, delete |-> d, backup |-> b, restore |-> r]
MCBudgets == {Budget(3, 1, 1, 0, 0), Budget(0, 1, 1, 2, 2), Budget(1, 0, 0, 1, 1)}

MCClients == {c1, c2}
MCAdmins == {m1, m2}
MCSymmetry == Permutations(MCClients) \cup Permutations(MCAdmins)
=============================================================================
