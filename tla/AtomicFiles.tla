----------------------------- MODULE AtomicFiles -----------------------------
(***************************************************************************)
(* What the server promises the users of its QUIC operations: a project is *)
(* a map from paths to contents, and every read, write and delete takes    *)
(* effect at one instant between its request and its reply, or fails.  A   *)
(* read that succeeds returns the whole content the file had at that       *)
(* instant, never a mixture of versions.                                   *)
(***************************************************************************)
CONSTANTS Sessions, Paths, Contents, NoFile

VARIABLES
  files,     \* [Paths -> the content of the file, or NoFile]
  call       \* [Sessions -> the session's request]

Ops == {"read", "write", "delete"}

Call == [phase : {"idle", "pending", "done", "ok", "failed"}, op : Ops,
         path : Paths, new : Contents, seen : Contents \cup {NoFile}]

vars == <<files, call>>

Init ==
  /\ files \in [Paths -> Contents \cup {NoFile}]
  /\ call \in [Sessions -> {c \in Call : c.phase = "idle"}]

\* A session sends its next request, or turns to something else.
Invoke(s) ==
  /\ call[s].phase \in {"idle", "ok", "failed"}
  /\ \E phase \in {"pending", "idle"}, op \in Ops, p \in Paths, c \in Contents :
       call' = [call EXCEPT ![s] = [phase |-> phase, op |-> op, path |-> p,
                                    new |-> c, seen |-> NoFile]]
  /\ UNCHANGED files

TakeEffect(s) ==
  /\ call[s].phase = "pending"
  /\ \/ /\ call[s].op = "read"
        /\ call' = [call EXCEPT ![s].phase = "done", ![s].seen = files[call[s].path]]
        /\ UNCHANGED files
     \/ /\ call[s].op = "write"
        /\ call' = [call EXCEPT ![s].phase = "done"]
        /\ files' = [files EXCEPT ![call[s].path] = call[s].new]
     \/ /\ call[s].op = "delete"
        /\ call' = [call EXCEPT ![s].phase = "done"]
        /\ files' = [files EXCEPT ![call[s].path] = NoFile]

Reply(s) ==
  /\ call[s].phase = "done"
  /\ call' = [call EXCEPT ![s].phase = "ok"]
  /\ UNCHANGED files

\* Rejected, aborted by an error, or answered to a client that is gone: a
\* failed request may have taken effect.
Fail(s) ==
  /\ call[s].phase \in {"pending", "done"}
  /\ call' = [call EXCEPT ![s].phase = "failed"]
  /\ UNCHANGED files

Next == \E s \in Sessions : Invoke(s) \/ TakeEffect(s) \/ Reply(s) \/ Fail(s)

Spec == Init /\ [][Next]_vars
=============================================================================
