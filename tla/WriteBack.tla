------------------------------- MODULE WriteBack -------------------------------
(***************************************************************************)
(* What the write-ahead log promises its users: the local writes are kept  *)
(* in one log, and the server's copy of a file is always the file's share  *)
(* of a prefix of that log, which only grows.                              *)
(***************************************************************************)
EXTENDS Naturals, Sequences, FiniteSetsExt

CONSTANTS
  Cells,    \* places a write can go to: an offset range of some file
  PathOf    \* [Cells -> the file of the cell]

VARIABLES
  log,      \* sequence of the cells written, by append number
  server    \* [Cells -> number of the write whose data the server has there]

\* The write that a prefix of n records leaves on cell c.
LastUpTo(c, n) == Max({0} \cup {r \in 1..n : log[r] = c})

Init ==
  /\ log = <<>>
  /\ server = [c \in Cells |-> 0]

Write(c) ==
  /\ log' = Append(log, c)
  /\ UNCHANGED server

\* The server's copy of file p becomes what the first n writes make of it, and
\* loses nothing it had.
Advance(p, n) ==
  /\ server' = [c \in Cells |-> IF PathOf[c] = p THEN LastUpTo(c, n) ELSE server[c]]
  /\ \A c \in Cells : server'[c] >= server[c]
  /\ UNCHANGED log

Next ==
  \/ \E c \in Cells : Write(c)
  \/ \E p \in {PathOf[c] : c \in Cells}, n \in DOMAIN log : Advance(p, n)

Spec == Init /\ [][Next]_<<log, server>>
=============================================================================
