--------------------------- MODULE SyncDaemon_proofs ---------------------------
(***************************************************************************)
(* Proofs about the sync daemon, for any files, directories and clocks and *)
(* any number of edits, failures and restarts: a path that the daemon is   *)
(* done with holds its last edit on both sides (or what a download that    *)
(* broke off left of it), and a one-shot pass leaves the same set of files *)
(* on both.  SyncInv is the inductive invariant.                           *)
(***************************************************************************)
EXTENDS SyncDaemon, TLAPS

-----------------------------------------------------------------------------
(* The threads.                                                             *)

ThreadRec == [pc : Pcs, path : Paths \cup {None}, data : File \cup {None},
              todo : SUBSET Paths]

Poller == thread["poller"]
Watcher == thread["watcher"]

\* A thread has a path exactly while it works on one, has struck it off its list
\* then, and has content to send or to write when it does that.
ThreadInv(t) ==
  LET r == thread[t] IN
  /\ r.pc \in Transfers \cup {"resolve"} <=> r.path # None
  /\ r.path \notin r.todo
  /\ r.pc \in {"put", "place", "write"} => r.data # None
  /\ r.pc \in {"idle", "walk", "watches", "done"} => r.todo = {}

ThreadsInv ==
  /\ \A t \in Threads : ThreadInv(t)
  /\ At("watcher", "off") <=> mode.once
  /\ Watcher.pc \notin {"resolve", "walk", "done"}
  /\ Poller.pc \notin {"watches", "off"}
  /\ Poller.pc \in {"done", "dead"} => mode.once

\* Whatever directory an event names is there, and a server's time is never 0,
\* which stands for a path that was not synchronised.
BaseInv ==
  /\ TypeOK
  /\ ThreadsInv
  /\ events \cap Dirs \subseteq dirs
  /\ \A p \in Paths : server[p] # None => server[p].mtime > 0

-----------------------------------------------------------------------------
(* The daemon.                                                              *)

\* The poller has times of p that it has not looked at yet.
Held(p) == p \in Poller.todo \/ (Poller.path = p /\ Poller.pc = "resolve")

\* Both sides have the last edit, or the file is on neither.
Agreed(p) ==
  /\ InSync(p)
  /\ local[p] # None => local[p].ver = last[p]

\* The directory has the last edit, and whoever compares times sees it.
LocalAhead(p) ==
  /\ local[p] # None /\ local[p].ver = last[p]
  /\ local[p].mtime > lastSync[p]
  /\ server[p] # None => server[p].mtime <= local[p].mtime
  /\ At("poller", "walk") \/ Held(p)
       => listed[p] = None \/ listed[p] <= local[p].mtime
  /\ Held(p) => walked[p] = local[p].mtime

\* The server has the last edit, whoever compares times sees it, and the watcher
\* has no reason to send the older file.
ServerAhead(p) ==
  /\ server[p] # None /\ server[p].ver = last[p]
  /\ server[p].mtime > lastSync[p]
  /\ local[p] # None => local[p].mtime < server[p].mtime
  /\ ~ Sending(p) /\ ~ Queued(p)
  /\ At("poller", "walk") \/ Held(p) => listed[p] = server[p].mtime
  /\ Held(p) => walked[p] = None \/ walked[p] < server[p].mtime

\* What a thread is about to copy is the last edit; it deletes nothing.
Copies(t, p) ==
  LET r == thread[t] IN
  r.path = p =>
    /\ r.pc \notin {"delete", "remove", "forget"}
    /\ r.pc = "read" /\ local[p] # None => local[p].ver = last[p]
    /\ r.pc = "put" => /\ local[p] # None /\ local[p].ver = last[p]
                       /\ r.data.ver = last[p]
    /\ r.pc = "stat" => Agreed(p) /\ local[p] # None
    /\ r.pc = "get" /\ server[p] # None => server[p].ver = last[p]
    /\ r.pc \in {"place", "write"} => /\ server[p] # None /\ server[p].ver = last[p]
                                      /\ r.data.ver = last[p]

DaemonInv(p) ==
  /\ Agreed(p) \/ LocalAhead(p) \/ ServerAhead(p)
  /\ local[p] = None => p \notin snapshot
  /\ \A t \in Threads : Copies(t, p)

-----------------------------------------------------------------------------
(* The one-shot pass.                                                       *)

Mirrored(p) == local[p] = None <=> server[p] = None

\* What the pass knows of p until it has dealt with it, and that it deals with it.
OnceInv(p) ==
  LET r == Poller IN
  /\ r.pc = "walk" => listed[p] = None <=> server[p] = None
  /\ Held(p) => /\ listed[p] = None <=> server[p] = None
                /\ walked[p] = None <=> local[p] = None
  /\ r.pc \notin {"idle", "walk", "dead"} /\ p \notin r.todo /\ r.path # p => Mirrored(p)
  /\ r.path = p =>
       /\ p \notin r.todo
       /\ r.pc \in {"read", "put"} => local[p] # None
       /\ r.pc \in {"get", "place", "write"} => server[p] # None
       /\ r.pc = "stat" => local[p] # None /\ server[p] # None
       /\ r.pc = "remove" => server[p] = None
       /\ r.pc = "delete" => local[p] = None
       /\ r.pc = "forget" => local[p] = None /\ server[p] = None

SyncInv ==
  /\ BaseInv
  /\ ~ mode.once /\ ~ mode.backup => \A p \in Paths \ raced : DaemonInv(p)
  /\ mode.once => \A p \in Paths \ raced : OnceInv(p)

-----------------------------------------------------------------------------
(* Types.                                                                   *)

LEMMA SecondType ==
  ASSUME NEW t \in Start..MaxTime
  PROVE  Second(t) \in Times /\ Second(t) > 0
<1>1. /\ t \in Nat /\ Tick \in Nat /\ Tick >= 1 /\ t >= Tick /\ t <= MaxTime /\ MaxTime \in Nat
  BY TimeAssumption
<1>2. t \div Tick \in Nat /\ t \div Tick >= 1 /\ (t \div Tick) * Tick <= t
  BY <1>1
<1>3. \A q \in Nat : q >= 1 => q * Tick \in Nat /\ q * Tick >= Tick
  BY <1>1
<1> QED
  BY <1>1, <1>2, <1>3 DEF Second, Times

\* None may be anything: what is known of a file is known by exclusion.
LEMMA FileType ==
  ASSUME TypeOK, NEW p \in Paths
  PROVE  /\ local[p] # None => /\ local[p] \in File /\ local[p].mtime \in Times
                               /\ local[p].mtime \in Nat /\ local[p].ver \in Versions
         /\ server[p] # None => /\ server[p] \in File /\ server[p].mtime \in Times
                                /\ server[p].mtime \in Nat /\ server[p].ver \in Versions
         /\ lastSync[p] \in Times /\ lastSync[p] \in Nat
         /\ listed[p] # None => listed[p] \in Times /\ listed[p] \in Nat
         /\ walked[p] # None => walked[p] \in Times /\ walked[p] \in Nat
         /\ last[p] \in Versions
         /\ now \in Times /\ now \in Nat
<1>1. Times \subseteq Nat /\ Start..MaxTime \subseteq Times
  BY TimeAssumption DEF Times
<1> QED
  BY <1>1 DEF TypeOK, File

LEMMA ThreadType ==
  ASSUME TypeOK, NEW t \in Threads
  PROVE  /\ thread \in [Threads -> ThreadRec]
         /\ thread[t] \in ThreadRec
         /\ thread[t].pc \in Pcs /\ thread[t].path \in Paths \cup {None}
         /\ thread[t].data \in File \cup {None} /\ thread[t].todo \subseteq Paths
  BY DEF TypeOK, ThreadRec

\* The ways in which a step changes a thread.
Became(t, pc, path, data, todo) ==
  /\ thread' \in [Threads -> ThreadRec]
  /\ thread'[t].pc = pc /\ thread'[t].path = path
  /\ thread'[t].data = data /\ thread'[t].todo = todo
  /\ \A u \in Threads : u # t => thread'[u] = thread[u]

LEMMA GotoFacts ==
  ASSUME TypeOK, NEW t \in Threads, NEW pc \in Pcs, Goto(t, pc)
  PROVE  Became(t, pc, thread[t].path, thread[t].data, thread[t].todo)
<1>1. thread \in [Threads -> ThreadRec] /\ thread[t] \in ThreadRec
  BY ThreadType
<1>2. thread'[t] = [thread[t] EXCEPT !.pc = pc]
  BY <1>1 DEF Goto
<1>3. thread'[t] \in ThreadRec
  BY <1>1, <1>2 DEF ThreadRec
<1> QED
  BY <1>1, <1>2, <1>3 DEF Became, Goto, ThreadRec

LEMMA LoadFacts ==
  ASSUME TypeOK, NEW t \in Threads, NEW pc \in Pcs, NEW f \in File,
         thread' = [thread EXCEPT ![t].pc = pc, ![t].data = f]
  PROVE  Became(t, pc, thread[t].path, f, thread[t].todo)
<1>1. thread \in [Threads -> ThreadRec] /\ thread[t] \in ThreadRec
  BY ThreadType
<1>2. thread'[t] = [thread[t] EXCEPT !.pc = pc, !.data = f]
  BY <1>1
<1>3. thread'[t] \in ThreadRec
  BY <1>1, <1>2 DEF ThreadRec
<1> QED
  BY <1>1, <1>2, <1>3 DEF Became, ThreadRec

LEMMA FinishFacts ==
  ASSUME TypeOK, NEW t \in Threads, Finish(t)
  PROVE  Became(t, "next", None, None, thread[t].todo)
<1>1. thread \in [Threads -> ThreadRec] /\ thread[t] \in ThreadRec
  BY ThreadType
<1>2. thread'[t] = [pc |-> "next", path |-> None, data |-> None, todo |-> thread[t].todo]
  BY <1>1 DEF Finish, Thread
<1>3. thread'[t] \in ThreadRec
  BY <1>1, <1>2 DEF ThreadRec, Pcs
<1> QED
  BY <1>1, <1>2, <1>3 DEF Became, Finish, ThreadRec

LEMMA AbandonFacts ==
  ASSUME TypeOK, NEW t \in Threads, NEW pc \in Pcs, thread' = [thread EXCEPT ![t] = Thread(pc)]
  PROVE  Became(t, pc, None, None, {})
<1>1. thread \in [Threads -> ThreadRec]
  BY ThreadType
<1>2. thread'[t] = [pc |-> pc, path |-> None, data |-> None, todo |-> {}]
  BY <1>1 DEF Thread
<1>3. thread'[t] \in ThreadRec
  BY <1>2 DEF ThreadRec
<1> QED
  BY <1>1, <1>2, <1>3 DEF Became, ThreadRec

LEMMA TakeFacts ==
  ASSUME TypeOK, NEW t \in Threads, NEW pc \in Pcs, NEW ps \in SUBSET Paths,
         thread' = [thread EXCEPT ![t].pc = pc, ![t].todo = ps]
  PROVE  Became(t, pc, thread[t].path, thread[t].data, ps)
<1>1. thread \in [Threads -> ThreadRec] /\ thread[t] \in ThreadRec
  BY ThreadType
<1>2. thread'[t] = [thread[t] EXCEPT !.pc = pc, !.todo = ps]
  BY <1>1
<1>3. thread'[t] \in ThreadRec
  BY <1>1, <1>2 DEF ThreadRec
<1> QED
  BY <1>1, <1>2, <1>3 DEF Became, ThreadRec

LEMMA PickFacts ==
  ASSUME TypeOK, NEW t \in Threads, NEW pc \in Pcs, NEW q \in Paths \cup {None}, NEW p \in Paths,
         \/ thread' = [thread EXCEPT ![t].todo = @ \ {p}, ![t].pc = pc, ![t].path = q]
         \/ thread' = [thread EXCEPT ![t].pc = pc, ![t].todo = @ \ {p}, ![t].path = q]
  PROVE  Became(t, pc, q, thread[t].data, thread[t].todo \ {p})
<1>1. thread \in [Threads -> ThreadRec] /\ thread[t] \in ThreadRec
  BY ThreadType
<1>2. thread'[t] = [thread[t] EXCEPT !.pc = pc, !.todo = thread[t].todo \ {p}, !.path = q]
  <2>1. CASE thread' = [thread EXCEPT ![t].todo = @ \ {p}, ![t].pc = pc, ![t].path = q]
    <3>1. thread'[t] = [thread[t] EXCEPT !.todo = @ \ {p}, !.pc = pc, !.path = q]
      BY <1>1, <2>1
    <3> QED
      BY <1>1, <3>1 DEF ThreadRec
  <2>2. CASE thread' = [thread EXCEPT ![t].pc = pc, ![t].todo = @ \ {p}, ![t].path = q]
    <3>1. thread'[t] = [thread[t] EXCEPT !.pc = pc, !.todo = @ \ {p}, !.path = q]
      BY <1>1, <2>2
    <3> QED
      BY <1>1, <3>1 DEF ThreadRec
  <2> QED
    BY <2>1, <2>2
<1>3. thread'[t] \in ThreadRec
  BY <1>1, <1>2 DEF ThreadRec
<1> QED
  BY <1>1, <1>2, <1>3 DEF Became, ThreadRec

LEMMA StartedFacts ==
  /\ Started(mode) \in [Threads -> ThreadRec]
  /\ \A t \in Threads : /\ Started(mode)[t].path = None /\ Started(mode)[t].todo = {}
                        /\ Started(mode)[t].data = None
                        /\ Started(mode)[t].pc = IF t = "watcher" /\ mode.once THEN "off"
                                                 ELSE "idle"
<1>1. \A pc \in Pcs : /\ Thread(pc) \in ThreadRec
                      /\ Thread(pc).pc = pc /\ Thread(pc).path = None
                      /\ Thread(pc).todo = {} /\ Thread(pc).data = None
  BY DEF Thread, ThreadRec
<1>2. "idle" \in Pcs /\ "off" \in Pcs
  BY DEF Pcs
<1> QED
  BY <1>1, <1>2 DEF Started

-----------------------------------------------------------------------------
(* Every step keeps the types and the order of the threads' steps.          *)

LEMMA ThreadStep ==
  ASSUME BaseInv, mode' = mode, NEW t \in Threads, NEW pc \in Pcs, NEW path, NEW data, NEW todo,
         Became(t, pc, path, data, todo),
         pc \in Transfers \cup {"resolve"} <=> path # None, path \notin todo,
         pc \in {"put", "place", "write"} => data # None,
         pc \in {"idle", "walk", "watches", "done"} => todo = {},
         t = "watcher" => /\ pc \notin {"resolve", "walk", "done"}
                          /\ pc = "off" <=> Watcher.pc = "off",
         t = "poller" => /\ pc \notin {"watches", "off"}
                         /\ pc \in {"done", "dead"} => mode.once
  PROVE  ThreadsInv' /\ thread' \in [Threads -> ThreadRec]
<1>1. ASSUME NEW u \in Threads PROVE ThreadInv(u)'
  <2>1. CASE u = t
    BY <2>1 DEF Became, ThreadInv
  <2>2. CASE u # t
    <3>1. ThreadInv(u) /\ thread'[u] = thread[u]
      BY <2>2 DEF BaseInv, ThreadsInv, Became
    <3> QED
      BY <3>1 DEF ThreadInv
  <2> QED
    BY <2>1, <2>2
<1>2. Threads = {"watcher", "poller"}
  BY DEF Threads
<1>3. t # "watcher" => Watcher' = Watcher
  BY <1>2 DEF Became, Watcher
<1>4. t # "poller" => Poller' = Poller
  BY <1>2 DEF Became, Poller
<1>5. t = "watcher" => Watcher'.pc = pc
  BY DEF Became, Watcher
<1>6. t = "poller" => Poller'.pc = pc
  BY DEF Became, Poller
<1>7. At("watcher", "off") <=> mode.once
  BY DEF BaseInv, ThreadsInv
<1>8. /\ Watcher.pc \notin {"resolve", "walk", "done"}
      /\ Poller.pc \notin {"watches", "off"}
      /\ Poller.pc \in {"done", "dead"} => mode.once
  BY DEF BaseInv, ThreadsInv
<1>9. At("watcher", "off")' <=> mode'.once
  BY <1>2, <1>3, <1>5, <1>7 DEF At, Watcher
<1>10. /\ Watcher'.pc \notin {"resolve", "walk", "done"}
       /\ Poller'.pc \notin {"watches", "off"}
       /\ Poller'.pc \in {"done", "dead"} => mode'.once
  BY <1>2, <1>3, <1>4, <1>5, <1>6, <1>8
<1> QED
  BY <1>1, <1>9, <1>10 DEF ThreadsInv, Became

\* A thread that works on a path may end that, or go on to another operation.
LEMMA WorkStep ==
  ASSUME BaseInv, mode' = mode, NEW t \in Threads, thread[t].pc \in Transfers \cup {"resolve"},
         \/ Finish(t)
         \/ \E pc \in Transfers \ {"put", "place"} :
              (pc = "write" => thread[t].data # None) /\ Goto(t, pc)
         \/ \E pc \in {"put", "place"}, f \in File :
              thread' = [thread EXCEPT ![t].pc = pc, ![t].data = f]
  PROVE  ThreadsInv' /\ thread' \in [Threads -> ThreadRec]
<1>1. /\ TypeOK /\ thread[t].path # None /\ thread[t].pc # "off"
      /\ thread[t].path \notin thread[t].todo /\ None \notin thread[t].todo
  <2>1. TypeOK /\ ThreadInv(t)
    BY DEF BaseInv, ThreadsInv
  <2> QED
    BY <2>1, ThreadType, SentinelAssumption DEF ThreadInv, Transfers
<1>2. Transfers \subseteq Pcs /\ "next" \in Pcs
  BY DEF Pcs
<1>3. CASE Finish(t)
  <2>1. Became(t, "next", None, None, thread[t].todo)
    BY <1>1, <1>3, FinishFacts
  <2> QED
    BY <1>1, <1>2, <2>1, ThreadStep DEF Transfers, Watcher
<1>4. ASSUME NEW pc \in Transfers \ {"put", "place"}, pc = "write" => thread[t].data # None,
             Goto(t, pc)
      PROVE  ThreadsInv' /\ thread' \in [Threads -> ThreadRec]
  <2>1. Became(t, pc, thread[t].path, thread[t].data, thread[t].todo)
    BY <1>1, <1>2, <1>4, GotoFacts
  <2> QED
    BY <1>1, <1>2, <1>4, <2>1, ThreadStep DEF Transfers, Watcher
<1>5. ASSUME NEW pc \in {"put", "place"}, NEW f \in File,
             thread' = [thread EXCEPT ![t].pc = pc, ![t].data = f]
      PROVE  ThreadsInv' /\ thread' \in [Threads -> ThreadRec]
  <2>1. pc \in Transfers
    BY DEF Transfers
  <2>2. Became(t, pc, thread[t].path, f, thread[t].todo)
    BY <1>1, <1>2, <1>5, <2>1, LoadFacts
  <2>3. f # None
    BY SentinelAssumption
  <2> QED
    BY <1>1, <1>2, <2>1, <2>2, <2>3, ThreadStep DEF Transfers, Watcher
<1> QED
  BY <1>3, <1>4, <1>5

\* What a failure changes.
LEMMA FailType ==
  ASSUME TypeOK, NEW ps \in SUBSET Paths, Fail(ps)
  PROVE  /\ edits' \in 0..MaxEdits /\ last' \in [Paths -> Versions] /\ raced' \subseteq Paths
         /\ faults' \in 0..MaxFaults /\ restarts' \in 0..MaxRestarts
  BY TimeAssumption DEF TypeOK, Fail

LEMMA SameCounts ==
  ASSUME TypeOK, UNCHANGED <<history, bounds>>
  PROVE  /\ edits' \in 0..MaxEdits /\ last' \in [Paths -> Versions] /\ raced' \subseteq Paths
         /\ faults' \in 0..MaxFaults /\ restarts' \in 0..MaxRestarts
  BY DEF TypeOK, history, bounds

LEMMA SeenType ==
  ASSUME NEW xs
  PROVE  Seen(xs) \subseteq xs
  BY DEF Seen

LEMMA WorkingPath ==
  ASSUME BaseInv, NEW t \in Threads, thread[t].pc \in Transfers \cup {"resolve"}
  PROVE  PathOf(t) \in Paths /\ PathOf(t) # None
         /\ (thread[t].pc \in {"put", "place", "write"} => thread[t].data \in File)
<1>1. ThreadInv(t) /\ thread[t].path \in Paths \cup {None} /\ thread[t].data \in File \cup {None}
  BY ThreadType DEF BaseInv, ThreadsInv
<1> QED
  BY <1>1 DEF ThreadInv, PathOf

LEMMA NewFile ==
  ASSUME BaseInv, NEW v \in Versions
  PROVE  /\ [ver |-> v, mtime |-> now] \in File
         /\ [ver |-> v, mtime |-> Second(now)] \in File
         /\ now \in Times /\ Second(now) \in Times /\ Second(now) > 0
<1>1. now \in Times /\ Second(now) \in Times /\ Second(now) > 0
  <2>1. now \in Start..MaxTime
    BY DEF BaseInv, TypeOK
  <2>2. now \in Times
    BY <2>1, TimeAssumption DEF Times
  <2> QED
    BY <2>1, <2>2, SecondType
<1> QED
  BY <1>1 DEF File

LEMMA TransferBase ==
  ASSUME BaseInv, NEW t \in Threads, Transfer(t)
  PROVE  BaseInv'
<1>1. TypeOK /\ mode' = mode /\ now' = now
  BY DEF BaseInv, Transfer, ReadLocal, Put, Stat, Get, Place, Write, DeleteRemote, RemoveLocal, Forget,
         AccessFails
<1>2. thread[t].pc \in Transfers
  BY DEF Transfer, ReadLocal, Put, Stat, Get, Place, Write, DeleteRemote, RemoveLocal, Forget,
         AccessFails, At, Transfers
<1>3. PICK p \in Paths : p = PathOf(t) /\ (thread[t].pc \in {"put", "place", "write"}
                                            => thread[t].data \in File)
  BY <1>2, WorkingPath
<1>4. /\ \A q \in Paths : server[q] # None => server[q].mtime > 0
      /\ events \cap Dirs \subseteq dirs
  BY DEF BaseInv
<1>5. Final({p}) \in SUBSET Paths
  BY DEF Final
<1>6. CASE ReadLocal(t)
  <2>1. ThreadsInv' /\ thread' \in [Threads -> ThreadRec]
    BY <1>1, <1>2, <1>3, <1>6, FileType, WorkStep DEF ReadLocal, Transfers
  <2> QED
    BY <1>1, <1>4, <1>6, <2>1, SameCounts
       DEF BaseInv, TypeOK, ThreadRec, ReadLocal, disk, engine, inotify, pass
<1>7. CASE Put(t)
  <2>1. ThreadsInv' /\ thread' \in [Threads -> ThreadRec]
    BY <1>1, <1>2, <1>7, WorkStep DEF Put, Transfers
  <2>2. /\ edits' \in 0..MaxEdits /\ last' \in [Paths -> Versions] /\ raced' \subseteq Paths
        /\ faults' \in 0..MaxFaults /\ restarts' \in 0..MaxRestarts
    BY <1>1, <1>3, <1>5, <1>7, SameCounts, FailType DEF Put
  <2>3. /\ [ver |-> thread[t].data.ver, mtime |-> Second(now)] \in File
        /\ [ver |-> thread[t].data.ver, mtime |-> Second(now)].mtime > 0
    BY <1>3, <1>7, NewFile DEF Put, At, File
  <2>4. /\ server' \in [Paths -> File \cup {None}]
        /\ \A q \in Paths : server'[q] # None => server'[q].mtime > 0
    <3>1. server \in [Paths -> File \cup {None}]
      BY <1>1 DEF TypeOK
    <3>2. \/ server' = server
          \/ server' = [server EXCEPT ![p] = [ver |-> thread[t].data.ver, mtime |-> Second(now)]]
      BY <1>3, <1>7 DEF Put, Stored
    <3> QED
      BY <1>4, <2>3, <3>1, <3>2
  <2> QED
    BY <1>1, <1>4, <1>7, <2>1, <2>2, <2>4
       DEF BaseInv, TypeOK, ThreadRec, Put, disk, engine, inotify, pass
<1>8. CASE Stat(t)
  <2>1. ThreadsInv' /\ thread' \in [Threads -> ThreadRec]
    BY <1>1, <1>2, <1>8, WorkStep DEF Stat
  <2>2. lastSync' \in [Paths -> Times] /\ snapshot' \subseteq Paths
    BY <1>1, <1>3, <1>8, FileType DEF Stat, TypeOK, engine
  <2> QED
    BY <1>1, <1>4, <1>8, <2>1, <2>2, SameCounts
       DEF BaseInv, TypeOK, ThreadRec, Stat, disk, engine, inotify, pass
<1>9. CASE Get(t)
  <2>1. ThreadsInv' /\ thread' \in [Threads -> ThreadRec]
    BY <1>1, <1>2, <1>3, <1>9, FileType, WorkStep DEF Get, Transfers
  <2>2. /\ edits' \in 0..MaxEdits /\ last' \in [Paths -> Versions] /\ raced' \subseteq Paths
        /\ faults' \in 0..MaxFaults /\ restarts' \in 0..MaxRestarts
    BY <1>1, <1>3, <1>5, <1>9, SameCounts, FailType DEF Get
  <2> QED
    BY <1>1, <1>4, <1>9, <2>1, <2>2
       DEF BaseInv, TypeOK, ThreadRec, Get, disk, engine, inotify, pass
<1>10. CASE Place(t)
  <2>1. ThreadsInv' /\ thread' \in [Threads -> ThreadRec]
    <3>1. thread[t].data # None
      BY <1>3, <1>10, SentinelAssumption DEF Place, At
    <3> QED
      BY <1>1, <1>2, <1>10, <3>1, WorkStep DEF Place, Transfers
  <2>2. PICK moved \in SUBSET {p} :
          /\ local' = [q \in Paths |-> IF q \in moved THEN None ELSE local[q]]
          /\ dirs' = dirs \cup {DirOf[p]}
          /\ events' = events \cup Seen(moved \cup ({DirOf[p]} \ dirs))
    BY <1>3, <1>10 DEF Place
  <2>3. local' \in [Paths -> File \cup {None}]
    BY <1>1, <2>2 DEF TypeOK
  <2>4. DirOf[p] \in Dirs
    BY ShapeAssumption
  <2>5. /\ dirs' \subseteq Dirs /\ dirs \subseteq dirs' /\ DirOf[p] \in dirs'
        /\ dirs \subseteq Dirs /\ Root \in dirs /\ watched \subseteq dirs
    BY <1>1, <2>2, <2>4 DEF TypeOK
  <2>6. events' \subseteq Paths \cup Dirs /\ events' \cap Dirs \subseteq dirs'
    <3>1. Seen(moved \cup ({DirOf[p]} \ dirs)) \subseteq moved \cup {DirOf[p]}
      BY SeenType
    <3>2. moved \subseteq Paths /\ events \subseteq Paths \cup Dirs
      BY <1>1, <2>2 DEF TypeOK
    <3>3. moved \cap Dirs = {}
      BY <3>2, ShapeAssumption
    <3> QED
      BY <1>4, <2>2, <2>4, <2>5, <3>1, <3>2, <3>3
  <2> QED
    BY <1>1, <1>4, <1>10, <2>1, <2>3, <2>5, <2>6, SameCounts
       DEF BaseInv, TypeOK, ThreadRec, Place, engine, pass
<1>11. CASE Write(t)
  <2>1. ThreadsInv' /\ thread' \in [Threads -> ThreadRec]
    BY <1>1, <1>2, <1>11, WorkStep DEF Write, Transfers
  <2>2. /\ edits' \in 0..MaxEdits /\ last' \in [Paths -> Versions] /\ raced' \subseteq Paths
        /\ faults' \in 0..MaxFaults /\ restarts' \in 0..MaxRestarts
    BY <1>1, <1>3, <1>5, <1>11, SameCounts, FailType DEF Write
  <2>3. [ver |-> thread[t].data.ver, mtime |-> now] \in File
    BY <1>3, <1>11, NewFile DEF Write, At, File
  <2>4. local' \in [Paths -> File \cup {None}]
    BY <1>1, <1>3, <1>11, <2>3 DEF Write, TypeOK
  <2>5. events' \subseteq Paths \cup Dirs /\ events' \cap Dirs \subseteq dirs
    <3>1. Seen({p}) \subseteq {p} /\ p \notin Dirs
      BY SeenType, ShapeAssumption
    <3>2. events' = events \/ events' = events \cup Seen({p})
      BY <1>3, <1>11 DEF Write
    <3> QED
      BY <1>1, <1>4, <3>1, <3>2 DEF TypeOK
  <2> QED
    BY <1>1, <1>4, <1>11, <2>1, <2>2, <2>4, <2>5
       DEF BaseInv, TypeOK, ThreadRec, Write, engine, pass
<1>12. CASE DeleteRemote(t)
  <2>1. ThreadsInv' /\ thread' \in [Threads -> ThreadRec]
    BY <1>1, <1>2, <1>12, WorkStep DEF DeleteRemote, Transfers
  <2>2. /\ edits' \in 0..MaxEdits /\ last' \in [Paths -> Versions] /\ raced' \subseteq Paths
        /\ faults' \in 0..MaxFaults /\ restarts' \in 0..MaxRestarts
    BY <1>1, <1>3, <1>5, <1>12, SameCounts, FailType DEF DeleteRemote
  <2>3. /\ server' \in [Paths -> File \cup {None}]
        /\ \A q \in Paths : server'[q] # None => server'[q].mtime > 0
    <3>1. server \in [Paths -> File \cup {None}]
      BY <1>1 DEF TypeOK
    <3>2. server' = server \/ server' = [server EXCEPT ![p] = None]
      BY <1>3, <1>12 DEF DeleteRemote
    <3> QED
      BY <1>4, <3>1, <3>2
  <2> QED
    BY <1>1, <1>4, <1>12, <2>1, <2>2, <2>3
       DEF BaseInv, TypeOK, ThreadRec, DeleteRemote, disk, engine, inotify, pass
<1>13. CASE RemoveLocal(t)
  <2>1. ThreadsInv' /\ thread' \in [Threads -> ThreadRec]
    BY <1>1, <1>2, <1>13, WorkStep DEF RemoveLocal, Transfers
  <2>2. local' \in [Paths -> File \cup {None}]
    BY <1>1, <1>3, <1>13 DEF RemoveLocal, TypeOK
  <2>3. events' \subseteq Paths \cup Dirs /\ events' \cap Dirs \subseteq dirs
    <3>1. Seen({p}) \subseteq {p} /\ p \notin Dirs
      BY SeenType, ShapeAssumption
    <3>2. events' = events \/ events' = events \cup Seen({p})
      BY <1>3, <1>13 DEF RemoveLocal
    <3> QED
      BY <1>1, <1>4, <3>1, <3>2 DEF TypeOK
  <2> QED
    BY <1>1, <1>4, <1>13, <2>1, <2>2, <2>3, SameCounts
       DEF BaseInv, TypeOK, ThreadRec, RemoveLocal, engine, pass
<1>14. CASE Forget(t)
  <2>1. ThreadsInv' /\ thread' \in [Threads -> ThreadRec]
    BY <1>1, <1>2, <1>14, WorkStep DEF Forget
  <2>2. lastSync' \in [Paths -> Times] /\ snapshot' \subseteq Paths
    BY <1>1, <1>3, <1>14, TimeAssumption DEF Forget, TypeOK, Times
  <2> QED
    BY <1>1, <1>4, <1>14, <2>1, <2>2, SameCounts
       DEF BaseInv, TypeOK, ThreadRec, Forget, disk, inotify, pass
<1>15. CASE AccessFails(t)
  <2>1. ThreadsInv' /\ thread' \in [Threads -> ThreadRec]
    BY <1>1, <1>2, <1>15, WorkStep DEF AccessFails
  <2>2. /\ edits' \in 0..MaxEdits /\ last' \in [Paths -> Versions] /\ raced' \subseteq Paths
        /\ faults' \in 0..MaxFaults /\ restarts' \in 0..MaxRestarts
    BY <1>1, <1>3, <1>5, <1>15, FailType DEF AccessFails
  <2> QED
    BY <1>1, <1>4, <1>15, <2>1, <2>2
       DEF BaseInv, TypeOK, ThreadRec, AccessFails, disk, engine, inotify, pass
<1> QED
  BY <1>6, <1>7, <1>8, <1>9, <1>10, <1>11, <1>12, <1>13, <1>14, <1>15 DEF Transfer

\* The two failures of a download that are more than an operation given up.
LEMMA BrokenBase ==
  ASSUME BaseInv, PlaceFails \/ WriteBreaksOff
  PROVE  BaseInv'
<1>1. TypeOK /\ mode' = mode /\ now' = now /\ "poller" \in Threads /\ "poller" # "watcher"
  BY DEF BaseInv, PlaceFails, WriteBreaksOff, Threads
<1>2. /\ \A q \in Paths : server[q] # None => server[q].mtime > 0
      /\ events \cap Dirs \subseteq dirs
  BY DEF BaseInv
<1>3. CASE PlaceFails
  <2>1. PICK pc \in {"idle", "dead"} :
          /\ thread' = [thread EXCEPT !["poller"] = Thread(pc)]
          /\ pc = "dead" => mode.once
    BY <1>3 DEF PlaceFails
  <2>2. pc \in Pcs
    BY DEF Pcs
  <2>3. Became("poller", pc, None, None, {})
    BY <1>1, <2>1, <2>2, AbandonFacts
  <2>4. ThreadsInv' /\ thread' \in [Threads -> ThreadRec]
    BY <1>1, <2>1, <2>2, <2>3, ThreadStep DEF Transfers
  <2>5. /\ edits' \in 0..MaxEdits /\ last' \in [Paths -> Versions] /\ raced' \subseteq Paths
        /\ faults' \in 0..MaxFaults /\ restarts' \in 0..MaxRestarts
    <3>1. {} \in SUBSET Paths /\ Fail({})
      BY <1>3 DEF PlaceFails
    <3> QED
      BY <1>1, <3>1, FailType
  <2>6. listed' \in [Paths -> Times \cup {None}] /\ walked' \in [Paths -> Times \cup {None}]
    BY <1>3 DEF PlaceFails, NoTimes
  <2> QED
    BY <1>1, <1>2, <1>3, <2>4, <2>5, <2>6
       DEF BaseInv, TypeOK, ThreadRec, PlaceFails, disk, engine, inotify
<1>4. CASE WriteBreaksOff
  <2>1. ThreadsInv' /\ thread' \in [Threads -> ThreadRec]
    BY <1>1, <1>4, WorkStep DEF WriteBreaksOff, At, Transfers
  <2>2. PICK p \in Paths : p = PathOf("poller")
    BY <1>1, <1>4, WorkingPath DEF WriteBreaksOff, At, Transfers
  <2>3. MaxEdits + faults + 1 \in Versions /\ faults' \in 0..MaxFaults
    BY <1>1, <1>4, TimeAssumption DEF WriteBreaksOff, TypeOK, Versions
  <2>4. [ver |-> MaxEdits + faults + 1, mtime |-> now] \in File
    BY <2>3, NewFile
  <2>5. /\ local' \in [Paths -> File \cup {None}] /\ last' \in [Paths -> Versions]
        /\ raced' \subseteq Paths
    BY <1>1, <1>4, <2>2, <2>3, <2>4 DEF WriteBreaksOff, TypeOK
  <2>6. events' \subseteq Paths \cup Dirs /\ events' \cap Dirs \subseteq dirs
    <3>1. Seen({p}) \subseteq {p} /\ p \notin Dirs
      BY SeenType, ShapeAssumption
    <3> QED
      BY <1>1, <1>2, <1>4, <2>2, <3>1 DEF WriteBreaksOff, TypeOK
  <2> QED
    BY <1>1, <1>2, <1>4, <2>1, <2>3, <2>5, <2>6
       DEF BaseInv, TypeOK, ThreadRec, WriteBreaksOff, engine, pass
<1> QED
  BY <1>3, <1>4

LEMMA MtimesType ==
  ASSUME NEW files \in [Paths -> File \cup {None}]
  PROVE  Mtimes(files) \in [Paths -> Times \cup {None}] /\ NoTimes \in [Paths -> Times \cup {None}]
  BY DEF Mtimes, NoTimes, File

LEMMA ThreadsSame ==
  ASSUME BaseInv, mode' = mode, thread' = thread
  PROVE  ThreadsInv' /\ thread' \in [Threads -> ThreadRec]
<1>1. ASSUME NEW t \in Threads PROVE ThreadInv(t)'
  <2>1. ThreadInv(t)
    BY DEF BaseInv, ThreadsInv
  <2> QED
    BY <2>1 DEF ThreadInv
<1> QED
  BY <1>1, ThreadType DEF BaseInv, ThreadsInv, At, Watcher, Poller, Threads

LEMMA EditType ==
  ASSUME TypeOK, NEW p \in Paths, NEW clear, Edited(p, clear)
  PROVE  /\ edits' \in 0..MaxEdits /\ last' \in [Paths -> Versions] /\ raced' \subseteq Paths
         /\ edits + 1 \in Versions /\ edits' = edits + 1
<1>1. edits + 1 \in 0..MaxEdits
  BY TimeAssumption DEF TypeOK, Edited
<1>2. edits + 1 \in Versions
  BY <1>1, TimeAssumption DEF Versions
<1> QED
  BY <1>1, <1>2 DEF TypeOK, Edited

LEMMA EditBase ==
  ASSUME BaseInv, Edit
  PROVE  BaseInv'
<1>1. TypeOK /\ mode' = mode /\ now' = now /\ thread' = thread
  BY DEF BaseInv, Edit, Saved, LocalWrite, LocalMoveIn, LocalDelete, MakeDir, ServerWrite,
         ServerDelete
<1>2. ThreadsInv' /\ thread' \in [Threads -> ThreadRec]
  BY <1>1, ThreadsSame
<1>3. /\ \A q \in Paths : server[q] # None => server[q].mtime > 0
      /\ events \cap Dirs \subseteq dirs
  BY DEF BaseInv
<1>4. ASSUME NEW p \in Paths, NEW m \in Times, Saved(p, m),
             events' = events \/ events' = events \cup Seen({p})
      PROVE  BaseInv'
  <2>1. /\ edits' \in 0..MaxEdits /\ last' \in [Paths -> Versions] /\ raced' \subseteq Paths
        /\ edits + 1 \in Versions
    BY <1>1, <1>4, EditType DEF Saved
  <2>2. [ver |-> edits + 1, mtime |-> m] \in File
    BY <2>1, <1>4 DEF File
  <2>3. local' \in [Paths -> File \cup {None}]
    BY <1>1, <1>4, <2>2 DEF Saved, TypeOK
  <2>4. events' \subseteq Paths \cup Dirs /\ events' \cap Dirs \subseteq dirs
    <3>1. Seen({p}) \subseteq {p} /\ p \notin Dirs
      BY SeenType, ShapeAssumption
    <3> QED
      BY <1>1, <1>3, <1>4, <3>1 DEF TypeOK
  <2> QED
    BY <1>1, <1>2, <1>3, <1>4, <2>1, <2>3, <2>4
       DEF BaseInv, TypeOK, ThreadRec, Saved, engine, pass, bounds
<1>5. ASSUME NEW p \in Paths, LocalWrite(p) PROVE BaseInv'
  <2>1. now \in Times
    BY <1>1, TimeAssumption DEF TypeOK, Times
  <2> QED
    BY <1>4, <1>5, <2>1 DEF LocalWrite
<1>6. ASSUME NEW p \in Paths, NEW m \in Times, LocalMoveIn(p, m) PROVE BaseInv'
  BY <1>4, <1>6 DEF LocalMoveIn
<1>7. ASSUME NEW p \in Paths, LocalDelete(p) PROVE BaseInv'
  <2>1. /\ edits' \in 0..MaxEdits /\ last' \in [Paths -> Versions] /\ raced' \subseteq Paths
    BY <1>1, <1>7, EditType DEF LocalDelete
  <2>2. local' \in [Paths -> File \cup {None}]
    BY <1>1, <1>7 DEF LocalDelete, TypeOK
  <2>3. events' \subseteq Paths \cup Dirs /\ events' \cap Dirs \subseteq dirs
    <3>1. Seen({p}) \subseteq {p} /\ p \notin Dirs
      BY SeenType, ShapeAssumption
    <3> QED
      BY <1>1, <1>3, <1>7, <3>1 DEF TypeOK, LocalDelete
  <2> QED
    BY <1>1, <1>2, <1>3, <1>7, <2>1, <2>2, <2>3
       DEF BaseInv, TypeOK, ThreadRec, LocalDelete, engine, pass, bounds
<1>8. ASSUME NEW d \in Dirs, MakeDir(d) PROVE BaseInv'
  <2>1. Seen({d}) \subseteq {d}
    BY SeenType
  <2>2. /\ events' \subseteq Paths \cup Dirs /\ events' \cap Dirs \subseteq dirs'
        /\ dirs' \subseteq Dirs /\ Root \in dirs' /\ watched \subseteq dirs'
    BY <1>1, <1>3, <1>8, <2>1 DEF TypeOK, MakeDir
  <2> QED
    BY <1>1, <1>2, <1>3, <1>8, <2>2, SameCounts
       DEF BaseInv, TypeOK, ThreadRec, MakeDir, engine, pass
<1>9. ASSUME NEW p \in Paths, ServerWrite(p) PROVE BaseInv'
  <2>1. /\ edits' \in 0..MaxEdits /\ last' \in [Paths -> Versions] /\ raced' \subseteq Paths
        /\ edits + 1 \in Versions
    BY <1>1, <1>9, EditType DEF ServerWrite
  <2>2. [ver |-> edits + 1, mtime |-> Second(now)] \in File /\ Second(now) > 0
    BY <2>1, NewFile
  <2>3. /\ server' \in [Paths -> File \cup {None}]
        /\ \A q \in Paths : server'[q] # None => server'[q].mtime > 0
    BY <1>1, <1>3, <1>9, <2>2 DEF ServerWrite, TypeOK
  <2> QED
    BY <1>1, <1>2, <1>3, <1>9, <2>1, <2>3
       DEF BaseInv, TypeOK, ThreadRec, ServerWrite, disk, engine, inotify, pass, bounds
<1>10. ASSUME NEW p \in Paths, ServerDelete(p) PROVE BaseInv'
  <2>1. /\ edits' \in 0..MaxEdits /\ last' \in [Paths -> Versions] /\ raced' \subseteq Paths
    BY <1>1, <1>10, EditType DEF ServerDelete
  <2>2. /\ server' \in [Paths -> File \cup {None}]
        /\ \A q \in Paths : server'[q] # None => server'[q].mtime > 0
    BY <1>1, <1>3, <1>10 DEF ServerDelete, TypeOK
  <2> QED
    BY <1>1, <1>2, <1>3, <1>10, <2>1, <2>2
       DEF BaseInv, TypeOK, ThreadRec, ServerDelete, disk, engine, inotify, pass, bounds
<1> QED
  BY <1>5, <1>6, <1>7, <1>8, <1>9, <1>10 DEF Edit

LEMMA DecisionType ==
  ASSUME NEW smb, NEW srv, NEW sync
  PROVE  Decision(smb, srv, sync) \in {"next", "read", "remove", "get", "delete"}
  BY DEF Decision

LEMMA PollBase ==
  ASSUME BaseInv, List \/ Walk \/ ResolveAndSync \/ EndPass \/ (\E p \in Paths : PickPath(p))
  PROVE  BaseInv'
<1>1. TypeOK /\ mode' = mode /\ now' = now
  BY DEF BaseInv, List, Walk, ResolveAndSync, EndPass, PickPath
<1>2. /\ \A q \in Paths : server[q] # None => server[q].mtime > 0
      /\ events \cap Dirs \subseteq dirs
  BY DEF BaseInv
<1>3. /\ "poller" \in Threads /\ "poller" # "watcher" /\ ThreadInv("poller")
      /\ {"walk", "idle", "next", "resolve", "done"} \subseteq Pcs
  BY DEF BaseInv, ThreadsInv, Threads, Pcs
<1>4. /\ thread["poller"].todo \subseteq Paths
  BY <1>1, <1>3, ThreadType
<1>5. /\ local \in [Paths -> File \cup {None}] /\ server \in [Paths -> File \cup {None}]
  BY <1>1 DEF TypeOK
<1>6. CASE List
  <2>1. PICK pc \in {"walk", "idle"} : Goto("poller", pc)
    BY <1>6 DEF List
  <2>2. Became("poller", pc, thread["poller"].path, thread["poller"].data, thread["poller"].todo)
    BY <1>1, <1>3, <2>1, GotoFacts
  <2>3. thread["poller"].path = None /\ thread["poller"].todo = {}
    BY <1>3, <1>6 DEF List, At, ThreadInv, Transfers
  <2>4. ThreadsInv' /\ thread' \in [Threads -> ThreadRec]
    BY <1>1, <1>3, <2>2, <2>3, ThreadStep DEF Transfers
  <2>5. listed' \in [Paths -> Times \cup {None}]
    BY <1>5, <1>6, MtimesType DEF List
  <2>6. /\ edits' \in 0..MaxEdits /\ last' \in [Paths -> Versions] /\ raced' \subseteq Paths
        /\ faults' \in 0..MaxFaults /\ restarts' \in 0..MaxRestarts
    <3>1. Final(Paths) \in SUBSET Paths
      BY DEF Final
    <3> QED
      BY <1>1, <1>6, <3>1, SameCounts, FailType DEF List
  <2> QED
    BY <1>1, <1>2, <1>6, <2>4, <2>5, <2>6
       DEF BaseInv, TypeOK, ThreadRec, List, disk, engine, inotify
<1>7. CASE Walk
  <2> DEFINE todo == {p \in Paths : listed[p] # None \/ walked'[p] # None}
  <2>1. Became("poller", "next", thread["poller"].path, thread["poller"].data, todo)
    <3>1. todo \in SUBSET Paths
      OBVIOUS
    <3>2. thread' = [thread EXCEPT !["poller"].pc = "next", !["poller"].todo = todo]
      BY <1>7 DEF Walk
    <3> HIDE DEF todo
    <3> QED
      BY <1>1, <1>3, <3>1, <3>2, TakeFacts
  <2>2. thread["poller"].path = None
    BY <1>3, <1>7 DEF Walk, At, ThreadInv, Transfers
  <2> HIDE DEF todo
  <2>3. ThreadsInv' /\ thread' \in [Threads -> ThreadRec]
    <3>1. None \notin todo
      BY SentinelAssumption DEF todo
    <3> QED
      BY <1>1, <1>3, <2>1, <2>2, <3>1, ThreadStep DEF Transfers
  <2>4. walked' \in [Paths -> Times \cup {None}]
    BY <1>5, <1>7, MtimesType DEF Walk
  <2> QED
    BY <1>1, <1>2, <1>7, <2>3, <2>4, SameCounts
       DEF BaseInv, TypeOK, ThreadRec, Walk, disk, engine, inotify
<1>8. CASE ResolveAndSync
  <2>1. thread["poller"].pc \in Transfers \cup {"resolve"}
    BY <1>8 DEF ResolveAndSync, At
  <2>2. PICK p \in Paths : p = PathOf("poller")
    BY <1>3, <2>1, WorkingPath
  <2> DEFINE d == Decision(walked[p], listed[p], lastSync[p])
  <2>3. d \in {"next", "read", "remove", "get", "delete"}
    BY DecisionType
  <2>4. /\ IF d = "next" THEN Finish("poller") ELSE Goto("poller", d)
        /\ raced' \subseteq Paths
    BY <1>1, <1>8, <2>2 DEF ResolveAndSync, TypeOK
  <2> HIDE DEF d
  <2>5. ThreadsInv' /\ thread' \in [Threads -> ThreadRec]
    <3>1. CASE d = "next"
      BY <1>1, <1>3, <2>1, <2>4, <3>1, WorkStep
    <3>2. CASE d # "next"
      <4>1. d \in Transfers \ {"put", "place"} /\ d # "write"
        BY <2>3, <3>2 DEF Transfers
      <4> QED
        BY <1>1, <1>3, <2>1, <2>4, <3>2, <4>1, WorkStep
    <3> QED
      BY <3>1, <3>2
  <2> QED
    BY <1>1, <1>2, <1>8, <2>4, <2>5
       DEF BaseInv, TypeOK, ThreadRec, ResolveAndSync, disk, engine, inotify, pass, bounds
<1>9. CASE EndPass
  <2>1. PICK pc \in {"done", "idle"} : Goto("poller", pc) /\ (pc = "done" => mode.once)
    BY <1>9 DEF EndPass
  <2>2. Became("poller", pc, thread["poller"].path, thread["poller"].data, thread["poller"].todo)
    BY <1>1, <1>3, <2>1, GotoFacts
  <2>3. thread["poller"].path = None /\ thread["poller"].todo = {}
    BY <1>3, <1>9 DEF EndPass, At, ThreadInv, Transfers
  <2>4. ThreadsInv' /\ thread' \in [Threads -> ThreadRec]
    BY <1>1, <1>3, <2>1, <2>2, <2>3, ThreadStep DEF Transfers
  <2>5. listed' \in [Paths -> Times \cup {None}] /\ walked' \in [Paths -> Times \cup {None}]
    BY <1>5, <1>9, MtimesType DEF EndPass
  <2>6. lastSync' \in [Paths -> Times] /\ snapshot' \subseteq Paths
    BY <1>1, <1>9, FileType, SMTT(60) DEF EndPass, TypeOK, engine, Existing
  <2> QED
    BY <1>1, <1>2, <1>9, <2>4, <2>5, <2>6, SameCounts
       DEF BaseInv, TypeOK, ThreadRec, EndPass, disk, inotify
<1>10. ASSUME NEW p \in Paths, PickPath(p) PROVE BaseInv'
  <2>1. PICK pc \in {"next", "resolve"}, q \in {None, p} :
          /\ pc = "next" <=> q = None
          /\ thread' = [thread EXCEPT !["poller"].todo = @ \ {p}, !["poller"].pc = pc,
                                      !["poller"].path = q]
    <3>1. p # None
      BY SentinelAssumption
    <3> QED
      BY <1>10, <3>1 DEF PickPath
  <2>2. Became("poller", pc, q, thread["poller"].data, thread["poller"].todo \ {p})
    <3>1. pc \in Pcs /\ q \in Paths \cup {None}
      BY <1>3
    <3> QED
      BY <1>1, <1>3, <2>1, <3>1, PickFacts
  <2>3. ThreadsInv' /\ thread' \in [Threads -> ThreadRec]
    <3>1. q \notin thread["poller"].todo \ {p}
      BY <1>1, <1>3, ThreadType, SentinelAssumption
    <3> QED
      BY <1>1, <1>3, <2>1, <2>2, <3>1, ThreadStep, SMTT(60) DEF Transfers
  <2> QED
    BY <1>1, <1>2, <1>10, <2>3, SameCounts
       DEF BaseInv, TypeOK, ThreadRec, PickPath, disk, engine, inotify, pass
<1> QED
  BY <1>6, <1>7, <1>8, <1>9, <1>10, SMTT(60)

LEMMA WatchBase ==
  ASSUME BaseInv,
         \/ \E ready \in SUBSET pending : TakeReady(ready)
         \/ \E p \in Paths : SyncChangedFile(p)
         \/ ReadEvents
         \/ UpdateWatches
  PROVE  BaseInv'
<1>1. TypeOK /\ mode' = mode /\ now' = now
  BY DEF BaseInv, TakeReady, SyncChangedFile, ReadEvents, UpdateWatches
<1>2. /\ \A q \in Paths : server[q] # None => server[q].mtime > 0
      /\ events \cap Dirs \subseteq dirs
  BY DEF BaseInv
<1>3. /\ "watcher" \in Threads /\ "poller" # "watcher" /\ ThreadInv("watcher")
      /\ {"next", "read", "delete", "watches", "idle", "dead"} \subseteq Pcs
  BY DEF BaseInv, ThreadsInv, Threads, Pcs, Transfers
<1>4. /\ thread["watcher"].todo \subseteq Paths /\ pending \subseteq Paths
  BY <1>1, <1>3, ThreadType DEF TypeOK
<1>5. ASSUME NEW ready \in SUBSET pending, TakeReady(ready) PROVE BaseInv'
  <2>1. Became("watcher", "next", thread["watcher"].path, thread["watcher"].data, ready)
    BY <1>1, <1>3, <1>4, <1>5, TakeFacts DEF TakeReady
  <2>2. thread["watcher"].path = None /\ Watcher.pc # "off"
    BY <1>3, <1>5 DEF TakeReady, At, ThreadInv, Transfers, Watcher
  <2>3. ThreadsInv' /\ thread' \in [Threads -> ThreadRec]
    <3>1. None \notin ready
      BY <1>4, SentinelAssumption
    <3> QED
      BY <1>1, <1>3, <2>1, <2>2, <3>1, ThreadStep, SMTT(60) DEF Transfers
  <2> QED
    BY <1>1, <1>2, <1>4, <1>5, <2>3, SameCounts
       DEF BaseInv, TypeOK, ThreadRec, TakeReady, disk, engine, pass
<1>6. ASSUME NEW p \in Paths, SyncChangedFile(p) PROVE BaseInv'
  <2>1. PICK pc \in {"next", "read", "delete"} :
          thread' = [thread EXCEPT !["watcher"].pc = pc, !["watcher"].todo = @ \ {p},
                                   !["watcher"].path = IF pc = "next" THEN None ELSE p]
    BY <1>6 DEF SyncChangedFile
  <2>2. PICK q \in {None, p} : q = IF pc = "next" THEN None ELSE p
    OBVIOUS
  <2>3. p # None
    BY SentinelAssumption
  <2>4. Became("watcher", pc, q, thread["watcher"].data, thread["watcher"].todo \ {p})
    <3>1. pc \in Pcs /\ q \in Paths \cup {None}
      BY <1>3
    <3>2. thread' = [thread EXCEPT !["watcher"].pc = pc, !["watcher"].todo = @ \ {p},
                                   !["watcher"].path = q]
      BY <2>1, <2>2
    <3> QED
      BY <1>1, <1>3, <3>1, <3>2, PickFacts
  <2>5. Watcher.pc # "off"
    BY <1>6 DEF SyncChangedFile, At, Watcher
  <2>6. ThreadsInv' /\ thread' \in [Threads -> ThreadRec]
    <3>1. q \notin thread["watcher"].todo \ {p}
      BY <1>4, SentinelAssumption
    <3> QED
      BY <1>1, <1>3, <2>2, <2>3, <2>4, <2>5, <3>1, ThreadStep DEF Transfers
  <2> QED
    BY <1>1, <1>2, <1>6, <2>6, SameCounts, ZenonT(60)
       DEF BaseInv, TypeOK, ThreadRec, SyncChangedFile, disk, engine, inotify, pass
<1>7. ASSUME NEW pc \in {"watches", "idle", "dead"}, Goto("watcher", pc),
             Watcher.pc \notin Transfers \cup {"off"}, thread["watcher"].todo = {}
      PROVE  ThreadsInv' /\ thread' \in [Threads -> ThreadRec]
  <2>1. Became("watcher", pc, thread["watcher"].path, thread["watcher"].data,
               thread["watcher"].todo)
    BY <1>1, <1>3, <1>7, GotoFacts
  <2>2. thread["watcher"].path = None
    BY <1>3, <1>7 DEF ThreadInv, Watcher, BaseInv, ThreadsInv
  <2> QED
    BY <1>1, <1>3, <1>7, <2>1, <2>2, ThreadStep DEF Transfers
<1>8. CASE ReadEvents
  <2>1. ThreadsInv' /\ thread' \in [Threads -> ThreadRec]
    BY <1>7, <1>8 DEF ReadEvents, At, Watcher, Transfers
  <2> QED
    BY <1>1, <1>2, <1>4, <1>8, <2>1, SameCounts
       DEF BaseInv, TypeOK, ThreadRec, ReadEvents, disk, engine, pass
<1>9. CASE UpdateWatches
  <2>1. ThreadsInv' /\ thread' \in [Threads -> ThreadRec]
    <3>1. thread["watcher"].todo = {}
      BY <1>3, <1>9 DEF UpdateWatches, At, ThreadInv
    <3> QED
      BY <1>7, <1>9, <3>1 DEF UpdateWatches, At, Watcher, Transfers
  <2> QED
    BY <1>1, <1>2, <1>9, <2>1, SameCounts
       DEF BaseInv, TypeOK, ThreadRec, UpdateWatches, disk, engine, pass
<1> QED
  BY <1>5, <1>6, <1>8, <1>9

LEMMA RestBase ==
  ASSUME BaseInv, Advance \/ Restart \/ UNCHANGED vars
  PROVE  BaseInv'
<1>1. TypeOK /\ mode' = mode
  BY DEF BaseInv, Advance, Restart, vars
<1>2. /\ \A q \in Paths : server[q] # None => server[q].mtime > 0
      /\ events \cap Dirs \subseteq dirs
  BY DEF BaseInv
<1>3. thread' = thread => ThreadsInv' /\ thread' \in [Threads -> ThreadRec]
  BY <1>1, ThreadsSame
<1>4. CASE Advance
  <2>1. now' \in Start..MaxTime
    BY <1>1, <1>4, TimeAssumption DEF TypeOK, Advance
  <2> QED
    BY <1>1, <1>2, <1>3, <1>4, <2>1, SameCounts
       DEF BaseInv, TypeOK, ThreadRec, Advance, disk, engine, inotify, pass
<1>5. CASE Restart
  <2>1. thread' = Started(mode)
    BY <1>5 DEF Restart
  <2>2. ThreadsInv' /\ thread' \in [Threads -> ThreadRec]
    <3>1. ASSUME NEW t \in Threads PROVE ThreadInv(t)'
      BY <2>1, StartedFacts DEF ThreadInv, Transfers
    <3>2. /\ thread'["watcher"].pc = IF mode.once THEN "off" ELSE "idle"
          /\ thread'["poller"].pc = "idle"
      BY <2>1, StartedFacts DEF Threads
    <3> QED
      BY <1>1, <2>1, <3>1, <3>2, StartedFacts DEF ThreadsInv, At, Watcher, Poller
  <2>3. lastSync' \in [Paths -> Times]
    BY <1>1, <1>5, FileType, TimeAssumption DEF Restart, Times
  <2>4. listed' \in [Paths -> Times \cup {None}] /\ walked' \in [Paths -> Times \cup {None}]
    BY <1>1, <1>5, MtimesType DEF Restart, TypeOK
  <2>5. snapshot' \subseteq Paths /\ raced' \subseteq Paths /\ watched' \subseteq dirs
    BY <1>1, <1>5 DEF Restart, TypeOK, Existing
  <2>6. restarts' \in 0..MaxRestarts
    BY <1>1, <1>5, TimeAssumption DEF Restart, TypeOK
  <2> QED
    BY <1>1, <1>2, <1>5, <2>2, <2>3, <2>4, <2>5, <2>6
       DEF BaseInv, TypeOK, ThreadRec, Restart, disk
<1>6. CASE UNCHANGED vars
  BY <1>1, <1>2, <1>3, <1>6, SameCounts
     DEF BaseInv, TypeOK, ThreadRec, vars, disk, engine, inotify, pass
<1> QED
  BY <1>4, <1>5, <1>6

LEMMA BaseStep == BaseInv /\ [Next]_vars => BaseInv'
  BY TransferBase, BrokenBase, EditBase, PollBase, WatchBase, RestBase
     DEF Next, WatcherStep, PollerStep, Threads

LEMMA BaseInit == Init => BaseInv
<1> SUFFICES ASSUME Init PROVE BaseInv
  OBVIOUS
<1>1. Start \in Start..MaxTime /\ Start \in Times /\ 0 \in Times
  BY TimeAssumption DEF Times
<1>2. 0 \in Versions /\ 0 \in 0..MaxEdits /\ 0 \in 0..MaxFaults /\ 0 \in 0..MaxRestarts
  BY TimeAssumption DEF Versions
<1>3. Second(Start) \in Times /\ Second(Start) > 0
  BY <1>1, SecondType
<1>4. /\ [ver |-> 0, mtime |-> Start] \in File
      /\ [ver |-> 0, mtime |-> Second(Start)] \in File
  BY <1>1, <1>2, <1>3 DEF File
<1>5. /\ local \in [Paths -> File \cup {None}] /\ server \in [Paths -> File \cup {None}]
      /\ \A q \in Paths : server[q] # None => server[q].mtime > 0
  BY <1>3, <1>4 DEF Init
<1>6. ThreadsInv /\ thread \in [Threads -> ThreadRec]
  <2>1. ASSUME NEW t \in Threads PROVE ThreadInv(t)
    BY StartedFacts DEF Init, ThreadInv, Transfers
  <2>2. /\ thread["watcher"].pc = IF mode.once THEN "off" ELSE "idle"
        /\ thread["poller"].pc = "idle"
    BY StartedFacts DEF Init, Threads
  <2>3. mode.once \in BOOLEAN
    BY ShapeAssumption DEF Init
  <2> QED
    BY <2>1, <2>2, <2>3, StartedFacts DEF Init, ThreadsInv, At, Watcher, Poller
<1>7. NoTimes \in [Paths -> Times \cup {None}]
  BY DEF NoTimes
<1>8. lastSync \in [Paths -> Times]
  BY <1>1 DEF Init
<1>9. dirs \subseteq Dirs /\ Root \in dirs
  BY ShapeAssumption DEF Init, Existing
<1> QED
  BY <1>1, <1>2, <1>5, <1>6, <1>7, <1>8, <1>9
     DEF Init, BaseInv, TypeOK, ThreadRec, Existing

-----------------------------------------------------------------------------
(* The daemon: what a step does to one path.                                *)

Same(p) ==
  /\ local'[p] = local[p] /\ server'[p] = server[p]
  /\ lastSync'[p] = lastSync[p] /\ last'[p] = last[p]

LEMMA CopiesSame ==
  ASSUME NEW p \in Paths, NEW t \in Threads, Copies(t, p), Same(p), thread'[t] = thread[t]
  PROVE  Copies(t, p)'
  BY DEF Copies, Same, Agreed, InSync

LEMMA CopiesElsewhere ==
  ASSUME NEW p \in Paths, NEW t \in Threads, thread'[t].path # p
  PROVE  Copies(t, p)'
  BY DEF Copies

\* A step that leaves p alone, though the poller may look at it.
LEMMA DaemonFrame ==
  ASSUME BaseInv, NEW p \in Paths, DaemonInv(p), Same(p),
         p \in snapshot' => p \in snapshot,
         At("poller", "walk")' \/ Held(p)'
           => \/ (At("poller", "walk") \/ Held(p)) /\ listed'[p] = listed[p]
              \/ listed'[p] = Mtimes(server)[p],
         Held(p)' => (Held(p) /\ walked'[p] = walked[p]) \/ walked'[p] = Mtimes(local)[p],
         Sending(p)' \/ Queued(p)' => Sending(p) \/ Queued(p),
         \A t \in Threads : Copies(t, p)'
  PROVE  DaemonInv(p)'
<1>1. /\ Mtimes(server)[p] = IF server[p] = None THEN None ELSE server[p].mtime
      /\ Mtimes(local)[p] = IF local[p] = None THEN None ELSE local[p].mtime
  BY DEF Mtimes
<1>2. Agreed(p) => Agreed(p)'
  BY DEF Agreed, InSync, Same
<1>3. LocalAhead(p) => LocalAhead(p)'
  BY <1>1 DEF LocalAhead, Same
<1>4. ServerAhead(p) => ServerAhead(p)'
  BY <1>1 DEF ServerAhead, Same
<1> QED
  BY <1>2, <1>3, <1>4 DEF DaemonInv, Same

\* A step after which both sides hold the last edit.
LEMMA Landed ==
  ASSUME NEW p \in Paths, DaemonInv(p), last'[p] = last[p],
         local'[p] # None, server'[p] # None,
         local'[p].ver = last[p], server'[p].ver = last[p],
         NEW t \in Threads, \A u \in Threads : u # t => thread'[u] = thread[u],
         thread'[t].path = p => thread'[t].pc = "stat"
  PROVE  DaemonInv(p)'
<1>1. Agreed(p)'
  BY DEF Agreed, InSync
<1>2. ASSUME NEW u \in Threads PROVE Copies(u, p)'
  <2>1. CASE u = t
    BY <1>1, <2>1 DEF Copies
  <2>2. CASE u # t
    <3>1. Copies(u, p) /\ thread'[u] = thread[u]
      BY <2>2 DEF DaemonInv
    <3> QED
      BY <1>1, <3>1 DEF Copies
  <2> QED
    BY <2>1, <2>2
<1> QED
  BY <1>1, <1>2 DEF DaemonInv

\* A thread goes on with its work on some path or ends it.
LEMMA WorkFrame ==
  ASSUME BaseInv, NEW p \in Paths, DaemonInv(p), Same(p), p \in snapshot' => p \in snapshot,
         NEW t \in Threads, NEW pc \in Pcs, NEW data,
         \/ Became(t, pc, thread[t].path, data, thread[t].todo)
         \/ Became(t, pc, None, data, thread[t].todo),
         thread[t].pc \notin {"dead", "off"}, pc \notin {"walk", "resolve"},
         p \in pending' \cup events' => p \in pending \cup events,
         listed'[p] = listed[p], walked'[p] = walked[p],
         Copies(t, p)'
  PROVE  DaemonInv(p)'
<1>1. ASSUME NEW u \in Threads PROVE Copies(u, p)'
  <2>1. CASE u = t
    BY <2>1
  <2>2. CASE u # t
    BY <2>2, CopiesSame DEF Became, DaemonInv
  <2> QED
    BY <2>1, <2>2
<1>2. /\ {"poller", "watcher"} = Threads /\ "poller" # "watcher"
      /\ p # None
  BY SentinelAssumption DEF Threads
<1>3. \A u \in Threads : /\ thread'[u].todo = thread[u].todo
                         /\ thread'[u].path = thread[u].path \/ thread'[u].path = None
  BY DEF Became
<1>4. At("poller", "walk")' => At("poller", "walk")
  BY <1>2 DEF Became, At
<1>5. Held(p)' => Held(p)
  BY <1>2, <1>3 DEF Became, Held, Poller
<1>6. Sending(p)' => Sending(p)
  BY <1>2, <1>3 DEF Sending
<1>7. Queued(p)' => Queued(p)
  <2>1. CASE t = "watcher"
    BY <2>1 DEF Queued, Alive, At
  <2>2. CASE t # "watcher"
    BY <1>2, <2>2 DEF Queued, Alive, At, Became
  <2> QED
    BY <2>1, <2>2
<1> QED
  BY <1>1, <1>4, <1>5, <1>6, <1>7, DaemonFrame

LEMMA TransferDaemon ==
  ASSUME BaseInv, ~ mode.once, ~ mode.backup, NEW p \in Paths, DaemonInv(p),
         NEW t \in Threads, Transfer(t)
  PROVE  DaemonInv(p)'
<1>1. TypeOK /\ Copies(t, p) /\ p # None
  BY SentinelAssumption DEF BaseInv, DaemonInv
<1>2. thread[t].pc \in Transfers
  BY DEF Transfer, ReadLocal, Put, Stat, Get, Place, Write, DeleteRemote, RemoveLocal, Forget,
         AccessFails, At, Transfers
<1>3. PICK q \in Paths : q = PathOf(t) /\ (thread[t].pc \in {"put", "place", "write"}
                                            => thread[t].data \in File)
  BY <1>2, WorkingPath
<1>4. thread[t].path = q /\ q # None /\ thread[t].pc \notin {"dead", "off"}
  BY <1>2, <1>3, SentinelAssumption DEF PathOf, Transfers
<1>5. /\ local \in [Paths -> File \cup {None}] /\ server \in [Paths -> File \cup {None}]
      /\ lastSync \in [Paths -> Times]
  BY <1>1 DEF TypeOK
<1>6. Transfers \subseteq Pcs /\ "next" \in Pcs
  BY DEF Pcs
<1>7. Finish(t) => Became(t, "next", None, None, thread[t].todo) /\ Copies(t, p)'
  BY <1>1, FinishFacts, CopiesElsewhere DEF Became
<1>8. \A pc \in Pcs : Goto(t, pc) => Became(t, pc, thread[t].path, thread[t].data, thread[t].todo)
  BY <1>1, GotoFacts
<1>9. ASSUME Same(p), p \in snapshot' => p \in snapshot,
             p \in pending' \cup events' => p \in pending \cup events,
             UNCHANGED pass, Finish(t)
      PROVE  DaemonInv(p)'
  <2>1. Became(t, "next", None, None, thread[t].todo) /\ Copies(t, p)'
    BY <1>7, <1>9
  <2> QED
    BY <1>4, <1>6, <1>9, <2>1, WorkFrame DEF pass
<1>10. ASSUME NEW ps, Fail(ps) PROVE last' = last
  BY <1>10 DEF Fail
<1>11. \A xs : p \notin xs => p \notin Seen(xs)
  BY SeenType
<1>12. p \notin Dirs
  BY ShapeAssumption
<1>13. CASE ReadLocal(t)
  <2>1. Same(p) /\ UNCHANGED <<snapshot, pending, events, pass>>
    BY <1>13 DEF ReadLocal, Same, disk, engine, inotify, history
  <2>2. CASE local[q] = None
    BY <1>3, <1>9, <1>13, <2>1, <2>2 DEF ReadLocal
  <2>3. CASE local[q] # None
    <3>1. Became(t, "put", thread[t].path, local[q], thread[t].todo)
      BY <1>1, <1>3, <1>5, <1>6, <1>13, <2>3, LoadFacts DEF ReadLocal, Transfers
    <3>2. Copies(t, p)'
      BY <1>1, <1>4, <1>13, <2>1, <2>3, <3>1 DEF ReadLocal, At, Copies, Became, Same
    <3> QED
      BY <1>4, <1>6, <2>1, <3>1, <3>2, WorkFrame DEF pass, Transfers
  <2> QED
    BY <2>2, <2>3
<1>14. CASE Put(t)
  <2>1. /\ UNCHANGED <<local, lastSync, snapshot, pending, events, pass>> /\ last' = last
        /\ Goto(t, "stat") \/ Finish(t)
        /\ Stored(t) \/ (UNCHANGED server /\ Finish(t))
    BY <1>10, <1>14 DEF Put, disk, engine, inotify, history
  <2>2. CASE UNCHANGED server /\ Finish(t)
    BY <1>9, <2>1, <2>2 DEF Same
  <2>3. CASE Stored(t) /\ q # p
    <3>1. Same(p)
      BY <1>3, <1>5, <2>1, <2>3 DEF Stored, Same
    <3>2. CASE Finish(t)
      BY <1>9, <2>1, <3>1, <3>2
    <3>3. CASE Goto(t, "stat")
      <4>1. Became(t, "stat", thread[t].path, thread[t].data, thread[t].todo) /\ "stat" \in Pcs
        BY <1>6, <1>8, <3>3 DEF Transfers
      <4>2. Copies(t, p)'
        BY <1>4, <2>3, <4>1, CopiesElsewhere DEF Became
      <4> QED
        BY <1>4, <2>1, <3>1, <4>1, <4>2, WorkFrame DEF pass
    <3> QED
      BY <2>1, <3>2, <3>3
  <2>4. CASE Stored(t) /\ q = p
    <3>1. local[p] # None /\ local[p].ver = last[p] /\ thread[t].data.ver = last[p]
      BY <1>1, <1>4, <1>14, <2>4 DEF Put, At, Copies
    <3>2. server'[p] = [ver |-> thread[t].data.ver, mtime |-> Second(now)]
      BY <1>3, <1>5, <2>4 DEF Stored
    <3>3. server'[p] # None
      <4>1. thread[t].data.ver \in Versions
        BY <1>3, <1>14 DEF Put, At, File
      <4> QED
        BY <3>2, <4>1, NewFile, SentinelAssumption
    <3>4. /\ \A u \in Threads : u # t => thread'[u] = thread[u]
          /\ thread'[t].path = p => thread'[t].pc = "stat"
      <4>1. "stat" \in Pcs
        BY <1>6 DEF Transfers
      <4> QED
        BY <1>1, <1>7, <1>8, <2>1, <4>1 DEF Became
    <3> QED
      BY <2>1, <3>1, <3>2, <3>3, <3>4, Landed
  <2> QED
    BY <2>1, <2>2, <2>3, <2>4
<1>15. CASE Stat(t)
  <2>1. UNCHANGED <<local, server, pending, events, pass, last>> /\ Finish(t)
    BY <1>15 DEF Stat, disk, inotify, history
  <2>2. CASE q # p
    <3>1. Same(p) /\ (p \in snapshot' => p \in snapshot)
      BY <1>3, <1>5, <1>15, <2>1, <2>2 DEF Stat, Same, engine
    <3> QED
      BY <1>9, <2>1, <3>1
  <2>3. CASE q = p
    <3>1. Agreed(p) /\ local[p] # None
      BY <1>1, <1>4, <1>15, <2>3 DEF Stat, At, Copies
    <3>2. server[p] # None /\ local[p].ver = last[p] /\ server[p].ver = last[p]
      BY <3>1 DEF Agreed, InSync
    <3>3. /\ \A u \in Threads : u # t => thread'[u] = thread[u]
          /\ thread'[t].path # p
      BY <1>1, <1>7, <2>1 DEF Became
    <3> QED
      BY <2>1, <3>1, <3>2, <3>3, Landed
  <2> QED
    BY <2>2, <2>3
<1>16. CASE Get(t)
  <2>1. Same(p) /\ UNCHANGED <<snapshot, pending, events, pass>>
    BY <1>10, <1>16 DEF Get, Same, disk, engine, inotify, history
  <2>2. CASE Finish(t)
    BY <1>9, <2>1, <2>2
  <2>3. CASE ~ Finish(t)
    <3>0. server[q] # None /\ thread' = [thread EXCEPT ![t].pc = "place", ![t].data = server[q]]
      BY <1>3, <1>16, <2>3 DEF Get
    <3>1. Became(t, "place", thread[t].path, server[q], thread[t].todo)
      BY <1>1, <1>5, <1>6, <3>0, LoadFacts DEF Transfers
    <3>2. Copies(t, p)'
      BY <1>1, <1>4, <1>16, <2>1, <3>0, <3>1 DEF Get, At, Copies, Became, Same
    <3> QED
      BY <1>4, <1>6, <2>1, <3>1, <3>2, WorkFrame DEF pass, Transfers
  <2> QED
    BY <2>2, <2>3
<1>17. CASE Place(t)
  <2>1. /\ local' = [x \in Paths |-> local[x]] /\ UNCHANGED <<server, engine, pending, pass, last>>
        /\ events' = events \cup Seen({DirOf[q]} \ dirs)
        /\ Goto(t, "write")
    <3>1. PICK moved \in SUBSET {} :
            /\ local' = [x \in Paths |-> IF x \in moved THEN None ELSE local[x]]
            /\ events' = events \cup Seen(moved \cup ({DirOf[q]} \ dirs))
      BY <1>3, <1>17 DEF Place
    <3>2. moved = {} /\ moved \cup ({DirOf[q]} \ dirs) = {DirOf[q]} \ dirs
      OBVIOUS
    <3> QED
      BY <1>17, <3>1, <3>2 DEF Place, history
  <2>2. Same(p) /\ UNCHANGED <<snapshot, pending>>
    BY <2>1 DEF Same, engine
  <2>3. p \in events' => p \in events
    <3>1. DirOf[q] \in Dirs
      BY ShapeAssumption
    <3> QED
      BY <1>11, <1>12, <2>1, <3>1
  <2>4. Became(t, "write", thread[t].path, thread[t].data, thread[t].todo) /\ "write" \in Pcs
    BY <1>6, <1>8, <2>1 DEF Transfers
  <2>5. Copies(t, p)'
    BY <1>1, <1>4, <1>17, <2>2, <2>4 DEF Place, At, Copies, Became, Same
  <2> QED
    BY <1>4, <2>1, <2>2, <2>3, <2>4, <2>5, WorkFrame DEF pass
<1>18. CASE Write(t)
  <2>1. UNCHANGED <<server, lastSync, snapshot, pending, pass>> /\ last' = last
    BY <1>10, <1>18 DEF Write, engine, history
  <2>2. CASE UNCHANGED <<local, events>> /\ Finish(t)
    BY <1>9, <2>1, <2>2 DEF Same
  <2>3. ASSUME local' = [local EXCEPT ![q] = [ver |-> thread[t].data.ver, mtime |-> now]],
               events' = events \cup Seen({q}), Goto(t, "stat")
        PROVE  DaemonInv(p)'
    <3>1. Became(t, "stat", thread[t].path, thread[t].data, thread[t].todo) /\ "stat" \in Pcs
      BY <1>6, <1>8, <2>3 DEF Transfers
    <3>2. CASE q # p
      <4>1. Same(p) /\ (p \in events' => p \in events)
        BY <1>5, <1>11, <2>1, <2>3, <3>2 DEF Same
      <4>2. Copies(t, p)'
        BY <1>4, <3>1, <3>2, CopiesElsewhere DEF Became
      <4> QED
        BY <1>4, <2>1, <3>1, <4>1, <4>2, WorkFrame DEF pass
    <3>3. CASE q = p
      <4>1. server[p] # None /\ server[p].ver = last[p] /\ thread[t].data.ver = last[p]
        BY <1>1, <1>4, <1>18, <3>3 DEF Write, At, Copies
      <4>2. local'[p] = [ver |-> thread[t].data.ver, mtime |-> now]
        BY <1>5, <2>3, <3>3
      <4>3. local'[p] # None
        <5>1. thread[t].data.ver \in Versions
          BY <1>3, <1>18 DEF Write, At, File
        <5> QED
          BY <4>2, <5>1, NewFile, SentinelAssumption
      <4>4. /\ \A u \in Threads : u # t => thread'[u] = thread[u]
            /\ thread'[t].pc = "stat"
        BY <3>1 DEF Became
      <4> QED
        BY <2>1, <4>1, <4>2, <4>3, <4>4, Landed
    <3> QED
      BY <3>2, <3>3
  <2> QED
    BY <1>3, <1>18, <2>2, <2>3 DEF Write
<1>19. CASE DeleteRemote(t) \/ RemoveLocal(t) \/ Forget(t)
  <2>1. q # p
    BY <1>1, <1>4, <1>19 DEF DeleteRemote, RemoveLocal, Forget, At, Copies
  <2>2. Same(p)
    <3>1. CASE DeleteRemote(t)
      BY <1>3, <1>5, <1>10, <2>1, <3>1 DEF DeleteRemote, Same, disk, engine, history
    <3>2. CASE RemoveLocal(t)
      BY <1>3, <1>5, <2>1, <3>2 DEF RemoveLocal, Same, engine, history
    <3>3. CASE Forget(t)
      BY <1>3, <1>5, <2>1, <3>3 DEF Forget, Same, disk, history
    <3> QED
      BY <1>19, <3>1, <3>2, <3>3
  <2>3. /\ p \in snapshot' => p \in snapshot
        /\ p \in pending' \cup events' => p \in pending \cup events
        /\ UNCHANGED pass
    BY <1>3, <1>11, <1>19, <2>1 DEF DeleteRemote, RemoveLocal, Forget, engine, inotify
  <2>4. Finish(t) \/ Goto(t, "forget")
    BY <1>19 DEF DeleteRemote, RemoveLocal, Forget
  <2>5. CASE Goto(t, "forget")
    <3>1. Became(t, "forget", thread[t].path, thread[t].data, thread[t].todo) /\ "forget" \in Pcs
      BY <1>6, <1>8, <2>5 DEF Transfers
    <3>2. Copies(t, p)'
      BY <1>4, <2>1, <3>1, CopiesElsewhere DEF Became
    <3> QED
      BY <1>4, <2>2, <2>3, <3>1, <3>2, WorkFrame DEF pass
  <2> QED
    BY <1>9, <2>2, <2>3, <2>4, <2>5
<1>20. CASE AccessFails(t)
  <2>1. Same(p) /\ UNCHANGED <<snapshot, pending, events, pass>>
    BY <1>10, <1>20 DEF AccessFails, Same, disk, engine, inotify
  <2> QED
    BY <1>9, <1>20, <2>1 DEF AccessFails
<1> QED
  BY <1>13, <1>14, <1>15, <1>16, <1>17, <1>18, <1>19, <1>20 DEF Transfer

\* A pass given up forgets its times; what is left of a file whose write broke
\* off is ahead of the server, like a save.
LEMMA BrokenDaemon ==
  ASSUME BaseInv, ~ mode.once, NEW p \in Paths, DaemonInv(p), PlaceFails \/ WriteBreaksOff,
         p \notin raced'
  PROVE  DaemonInv(p)'
<1>1. /\ TypeOK /\ p # None /\ "poller" \in Threads
      /\ {"poller", "watcher"} = Threads /\ "poller" # "watcher"
  BY SentinelAssumption DEF BaseInv, Threads
<1>2. /\ local \in [Paths -> File \cup {None}] /\ last \in [Paths -> Versions]
  BY <1>1 DEF TypeOK
<1>3. CASE PlaceFails
  <2>1. Became("poller", "idle", None, None, {})
    <3>1. "idle" \in Pcs /\ thread' = [thread EXCEPT !["poller"] = Thread("idle")]
      BY <1>3 DEF PlaceFails, Pcs
    <3> QED
      BY <1>1, <3>1, AbandonFacts
  <2>2. Same(p) /\ UNCHANGED <<snapshot, pending, events>>
    BY <1>3 DEF PlaceFails, Fail, Same, disk, engine, inotify
  <2>3. /\ ~ At("poller", "walk")' /\ ~ Held(p)'
        /\ thread'["watcher"] = thread["watcher"]
    BY <1>1, <2>1 DEF Became, At, Held, Poller
  <2>4. Sending(p)' \/ Queued(p)' => Sending(p) \/ Queued(p)
    BY <2>2, <2>3 DEF Sending, Queued, Alive, At
  <2>5. \A t \in Threads : Copies(t, p)'
    <3>1. Copies("poller", p)'
      BY <1>1, <2>1, CopiesElsewhere DEF Became
    <3>2. Copies("watcher", p)'
      BY <1>1, <2>2, <2>3, CopiesSame DEF DaemonInv
    <3> QED
      BY <1>1, <3>1, <3>2
  <2> QED
    BY <2>2, <2>3, <2>4, <2>5, DaemonFrame
<1>4. CASE WriteBreaksOff
  <2> DEFINE remains == MaxEdits + faults + 1
  <2>1. /\ Finish("poller") /\ thread["poller"].pc = "write"
        /\ UNCHANGED <<now, server, lastSync, snapshot, pending, listed, walked>>
    BY <1>4 DEF WriteBreaksOff, At, engine, pass
  <2>2. PICK q \in Paths : q = PathOf("poller")
    BY <1>1, <2>1, WorkingPath DEF Transfers
  <2>3. /\ local' = [local EXCEPT ![q] = [ver |-> remains, mtime |-> now]]
        /\ last' = [last EXCEPT ![q] = remains]
        /\ events' = events \cup Seen({q})
    BY <1>4, <2>2 DEF WriteBreaksOff
  <2>4. Became("poller", "next", None, None, thread["poller"].todo)
    BY <1>1, <2>1, FinishFacts
  <2>5. Copies("poller", p)'
    BY <1>1, <2>4, CopiesElsewhere DEF Became
  <2>6. CASE q # p
    <3>1. Same(p)
      BY <1>2, <2>1, <2>3, <2>6 DEF Same
    <3>2. p \in events' => p \in events
      BY <2>3, <2>6, SeenType
    <3> QED
      BY <1>1, <2>1, <2>4, <2>5, <3>1, <3>2, WorkFrame DEF Pcs
  <2>7. CASE q = p
    <3>1. ~ Sending(p) /\ now > lastSync[p] /\ (server[p] # None => server[p].mtime <= now)
      BY <1>4, <2>2, <2>7 DEF WriteBreaksOff, Timely
    <3>2. local'[p] = [ver |-> remains, mtime |-> now] /\ last'[p] = remains
      BY <1>2, <2>3, <2>7
    <3>3. local'[p] # None
      <4>1. remains \in Versions
        BY <1>1, <1>4, TimeAssumption DEF WriteBreaksOff, TypeOK, Versions
      <4> QED
        BY <3>2, <4>1, NewFile, SentinelAssumption
    <3>4. ~ At("poller", "walk")' /\ ~ Held(p)'
      <4>1. thread["poller"].path = p /\ p \notin thread["poller"].todo
        BY <1>1, <2>2, <2>7 DEF PathOf, BaseInv, ThreadsInv, ThreadInv
      <4> QED
        BY <1>1, <2>4, <4>1 DEF Became, At, Held, Poller
    <3>5. Copies("watcher", p)'
      BY <1>1, <2>4, <3>1 DEF Became, Copies, Sending
    <3>6. LocalAhead(p)'
      BY <2>1, <3>1, <3>2, <3>3, <3>4 DEF LocalAhead
    <3> QED
      BY <1>1, <2>5, <3>3, <3>5, <3>6 DEF DaemonInv
  <2> QED
    BY <2>6, <2>7
<1> QED
  BY <1>3, <1>4

LEMMA EditDaemon ==
  ASSUME BaseInv, NEW p \in Paths, DaemonInv(p), Edit, p \notin raced'
  PROVE  DaemonInv(p)'
<1>1. TypeOK /\ p # None /\ p \notin Dirs
  BY SentinelAssumption, ShapeAssumption DEF BaseInv
<1>2. UNCHANGED <<mode, now, lastSync, snapshot, watched, pending, thread, listed, walked>>
  BY DEF Edit, Saved, LocalWrite, LocalMoveIn, LocalDelete, MakeDir, ServerWrite, ServerDelete,
         disk, engine, inotify, pass
<1>3. \A xs : p \notin xs => p \notin Seen(xs)
  BY SeenType
<1>4. /\ local \in [Paths -> File \cup {None}] /\ server \in [Paths -> File \cup {None}]
      /\ last \in [Paths -> Versions]
  BY <1>1 DEF TypeOK
<1>5. ASSUME Same(p), p \in events' => p \in events PROVE DaemonInv(p)'
  <2>1. \A t \in Threads : Copies(t, p)'
    BY <1>2, <1>5, CopiesSame DEF DaemonInv
  <2>2. /\ At("poller", "walk")' \/ Held(p)' => (At("poller", "walk") \/ Held(p))
        /\ Held(p)' => Held(p)
        /\ Sending(p)' \/ Queued(p)' => Sending(p) \/ Queued(p)
    BY <1>2, <1>5 DEF At, Held, Poller, Sending, Queued, Alive
  <2> QED
    BY <1>2, <1>5, <2>1, <2>2, DaemonFrame
<1>6. ASSUME ~ Busy(p)
      PROVE  /\ \A t \in Threads : Copies(t, p)'
             /\ ~ At("poller", "walk")' /\ ~ Held(p)' /\ ~ Sending(p)'
  BY <1>2, <1>6 DEF Busy, Passing, Sending, Copies, Threads, At, Held, Poller
<1>7. ASSUME NEW q \in Paths, NEW m \in Times, Saved(q, m),
             events' = events \/ events' = events \cup Seen({q})
      PROVE  DaemonInv(p)'
  <2>1. server' = server /\ local' = [local EXCEPT ![q] = [ver |-> edits + 1, mtime |-> m]]
    BY <1>7 DEF Saved
  <2>2. last' = [last EXCEPT ![q] = edits + 1] /\ edits + 1 \in Versions
    BY <1>1, <1>7, EditType DEF Saved, Edited
  <2>3. CASE q # p
    BY <1>2, <1>3, <1>4, <1>5, <1>7, <2>1, <2>2, <2>3 DEF Same
  <2>4. CASE q = p
    <3>1. ~ Busy(p) /\ m > lastSync[p] /\ (server[p] # None => server[p].mtime <= m)
      BY <1>7, <2>4 DEF Saved, Edited, Timely
    <3>2. local'[p] = [ver |-> edits + 1, mtime |-> m] /\ last'[p] = edits + 1
      BY <1>4, <2>1, <2>2, <2>4
    <3>3. local'[p] # None
      BY <1>7, <2>2, <3>2, SentinelAssumption DEF File
    <3>4. LocalAhead(p)'
      BY <1>2, <1>6, <2>1, <3>1, <3>2, <3>3 DEF LocalAhead
    <3> QED
      BY <1>6, <3>1, <3>3, <3>4 DEF DaemonInv
  <2> QED
    BY <2>3, <2>4
<1>8. ASSUME NEW q \in Paths, LocalWrite(q) PROVE DaemonInv(p)'
  <2>1. now \in Times
    BY <1>1, TimeAssumption DEF TypeOK, Times
  <2> QED
    BY <1>7, <1>8, <2>1 DEF LocalWrite
<1>9. ASSUME NEW q \in Paths, NEW m \in Times, LocalMoveIn(q, m) PROVE DaemonInv(p)'
  BY <1>7, <1>9 DEF LocalMoveIn
<1>10. ASSUME NEW q \in Paths, LocalDelete(q) PROVE DaemonInv(p)'
  <2>1. q # p
    BY <1>10 DEF LocalDelete, Edited
  <2> QED
    BY <1>2, <1>3, <1>4, <1>5, <1>10, <2>1 DEF LocalDelete, Edited, Same
<1>11. ASSUME NEW d \in Dirs, MakeDir(d) PROVE DaemonInv(p)'
  BY <1>1, <1>2, <1>3, <1>5, <1>11 DEF MakeDir, Same, history
<1>12. ASSUME NEW q \in Paths, ServerWrite(q) PROVE DaemonInv(p)'
  <2>1. /\ server' = [server EXCEPT ![q] = [ver |-> edits + 1, mtime |-> Second(now)]]
        /\ local' = local /\ events' = events
    BY <1>12 DEF ServerWrite, disk, inotify
  <2>2. last' = [last EXCEPT ![q] = edits + 1] /\ edits + 1 \in Versions
    BY <1>1, <1>12, EditType DEF ServerWrite, Edited
  <2>3. CASE q # p
    BY <1>2, <1>4, <1>5, <2>1, <2>2, <2>3 DEF Same
  <2>4. CASE q = p
    <3>1. /\ ~ Busy(p) /\ ~ Queued(p) /\ Second(now) > lastSync[p]
          /\ local[p] # None => local[p].mtime < Second(now)
      BY <1>12, <2>4 DEF ServerWrite, Edited
    <3>2. server'[p] = [ver |-> edits + 1, mtime |-> Second(now)] /\ last'[p] = edits + 1
      BY <1>4, <2>1, <2>2, <2>4
    <3>3. server'[p] # None
      BY <2>2, <3>2, NewFile, SentinelAssumption
    <3>4. ~ Queued(p)'
      BY <1>2, <2>1, <3>1 DEF Queued, Alive, At
    <3>5. ServerAhead(p)'
      BY <1>2, <1>6, <2>1, <3>1, <3>2, <3>3, <3>4 DEF ServerAhead
    <3> QED
      BY <1>2, <1>6, <2>1, <3>1, <3>5 DEF DaemonInv
  <2> QED
    BY <2>3, <2>4
<1>13. ASSUME NEW q \in Paths, ServerDelete(q) PROVE DaemonInv(p)'
  <2>1. q # p
    BY <1>13 DEF ServerDelete, Edited
  <2> QED
    BY <1>2, <1>4, <1>5, <1>13, <2>1 DEF ServerDelete, Edited, Same, disk, inotify
<1> QED
  BY <1>8, <1>9, <1>10, <1>11, <1>12, <1>13 DEF Edit

\* A thread that has no path does not copy it, and one step changes one thread.
LEMMA OtherCopies ==
  ASSUME NEW p \in Paths, DaemonInv(p), Same(p), NEW t \in Threads,
         \A u \in Threads : u # t => thread'[u] = thread[u],
         Copies(t, p)'
  PROVE  \A u \in Threads : Copies(u, p)'
  BY CopiesSame DEF DaemonInv

\* The decision of the poller about p.
LEMMA DecisionCopies ==
  ASSUME BaseInv, NEW p \in Paths, DaemonInv(p), Held(p), NEW d,
         d = Decision(walked[p], listed[p], lastSync[p])
  PROVE  /\ d = "read" /\ local[p] # None => local[p].ver = last[p]
         /\ d = "get" /\ server[p] # None => server[p].ver = last[p]
<1>1. TypeOK
  BY DEF BaseInv
<1>2. CASE Agreed(p)
  BY <1>2 DEF Agreed, InSync
<1>3. CASE LocalAhead(p)
  <2>1. /\ local[p].ver = last[p] /\ local[p] # None /\ walked[p] = local[p].mtime
        /\ walked[p] > lastSync[p]
        /\ listed[p] = None \/ listed[p] <= walked[p]
    BY <1>3 DEF LocalAhead
  <2>2. walked[p] \in Nat /\ lastSync[p] \in Nat /\ (listed[p] # None => listed[p] \in Nat)
    BY <1>1, <2>1, FileType
  <2>3. walked[p] # None
    BY <1>1, <2>1, FileType, SentinelAssumption
  <2>4. d # "get"
    BY <2>1, <2>2, <2>3 DEF Decision
  <2> QED
    BY <2>1, <2>4
<1>4. CASE ServerAhead(p)
  <2>1. /\ server[p].ver = last[p] /\ server[p] # None /\ listed[p] = server[p].mtime
        /\ listed[p] > lastSync[p]
        /\ walked[p] = None \/ walked[p] < listed[p]
    BY <1>4 DEF ServerAhead
  <2>2. listed[p] \in Nat /\ lastSync[p] \in Nat /\ (walked[p] # None => walked[p] \in Nat)
    BY <1>1, <2>1, FileType
  <2>3. listed[p] # None
    BY <1>1, <2>1, FileType, SentinelAssumption
  <2>4. d # "read"
    BY <2>1, <2>2, <2>3 DEF Decision
  <2> QED
    BY <2>1, <2>4
<1> QED
  BY <1>2, <1>3, <1>4 DEF DaemonInv

LEMMA PollDaemon ==
  ASSUME BaseInv, ~ mode.once, NEW p \in Paths, DaemonInv(p), p \notin raced',
         List \/ Walk \/ ResolveAndSync \/ EndPass \/ (\E q \in Paths : PickPath(q))
  PROVE  DaemonInv(p)'
<1>1. TypeOK /\ p # None
  BY SentinelAssumption DEF BaseInv
<1>2. /\ "poller" \in Threads /\ "poller" # "watcher" /\ "watcher" \in Threads
      /\ ThreadInv("poller")
      /\ {"walk", "idle", "next", "resolve", "done"} \subseteq Pcs
  BY DEF BaseInv, ThreadsInv, Threads, Pcs
<1>3. Same(p) /\ UNCHANGED <<snapshot, pending, events>>
  <2>1. UNCHANGED <<local, server, lastSync, snapshot, pending, events, last>>
    BY DEF List, Walk, ResolveAndSync, EndPass, PickPath, Fail, disk, engine, inotify, history
  <2> QED
    BY <2>1, SMTT(60) DEF Same
<1>4. ASSUME NEW pc, NEW path, NEW data, NEW todo, Became("poller", pc, path, data, todo)
      PROVE  /\ Poller'.pc = pc /\ Poller'.path = path /\ Poller'.todo = todo
             /\ thread'["poller"].pc = pc /\ thread'["poller"].path = path
             /\ \A u \in Threads : u # "poller" => thread'[u] = thread[u]
             /\ Sending(p)' \/ Queued(p)' => Sending(p) \/ Queued(p)
  BY <1>2, <1>3, <1>4 DEF Became, Poller, Sending, Queued, Alive, At
<1>5. CASE List
  <2>1. PICK pc \in {"walk", "idle"} :
          /\ Goto("poller", pc)
          /\ pc = "walk" => listed' = Mtimes(server)
    BY <1>5 DEF List
  <2>2. Became("poller", pc, thread["poller"].path, thread["poller"].data, thread["poller"].todo)
    BY <1>1, <1>2, <2>1, GotoFacts
  <2>3. thread["poller"].path = None /\ thread["poller"].todo = {}
    BY <1>2, <1>5 DEF List, At, ThreadInv, Transfers
  <2>4. ~ Held(p)' /\ (At("poller", "walk")' => listed' = Mtimes(server))
    BY <1>1, <1>4, <2>1, <2>2, <2>3 DEF Held, At
  <2>5. \A u \in Threads : Copies(u, p)'
    BY <1>1, <1>2, <1>3, <1>4, <2>2, <2>3, CopiesElsewhere, OtherCopies
  <2> QED
    BY <1>3, <1>4, <2>2, <2>4, <2>5, DaemonFrame
<1>6. CASE Walk
  <2> DEFINE todo == {q \in Paths : listed[q] # None \/ walked'[q] # None}
  <2>1. Became("poller", "next", thread["poller"].path, thread["poller"].data, todo)
    <3>1. todo \in SUBSET Paths
      OBVIOUS
    <3>2. thread' = [thread EXCEPT !["poller"].pc = "next", !["poller"].todo = todo]
      BY <1>6 DEF Walk
    <3> HIDE DEF todo
    <3> QED
      BY <1>1, <1>2, <3>1, <3>2, TakeFacts
  <2> HIDE DEF todo
  <2>2. thread["poller"].path = None /\ At("poller", "walk")
    BY <1>2, <1>6 DEF Walk, At, ThreadInv, Transfers
  <2>3. ~ At("poller", "walk")'
    BY <1>4, <2>1 DEF At
  <2>4. \A u \in Threads : Copies(u, p)'
    BY <1>1, <1>2, <1>3, <1>4, <2>1, <2>2, CopiesElsewhere, OtherCopies
  <2>5. walked' = Mtimes(local) /\ listed' = listed
    BY <1>6 DEF Walk
  <2> QED
    BY <1>3, <1>4, <2>1, <2>2, <2>3, <2>4, <2>5, DaemonFrame
<1>7. CASE ResolveAndSync
  <2>1. thread["poller"].pc = "resolve" /\ UNCHANGED <<listed, walked>>
    BY <1>7 DEF ResolveAndSync, At, pass
  <2>2. PICK q \in Paths : q = PathOf("poller")
    BY <1>2, <2>1, WorkingPath
  <2>3. PICK d \in {"next", "read", "remove", "get", "delete"} :
          d = Decision(walked[q], listed[q], lastSync[q])
    BY DecisionType
  <2>4. /\ IF d = "next" THEN Finish("poller") ELSE Goto("poller", d)
        /\ d \in {"remove", "delete"} => q \in raced'
    BY <1>7, <2>2, <2>3 DEF ResolveAndSync
  <2>5. PICK path \in {thread["poller"].path, None} :
          /\ Became("poller", d, path, thread'["poller"].data, thread["poller"].todo)
          /\ path = None <=> d = "next"
    <3>1. CASE d = "next"
      <4>1. Became("poller", "next", None, None, thread["poller"].todo)
        BY <1>1, <1>2, <2>4, <3>1, FinishFacts
      <4> QED
        BY <3>1, <4>1 DEF Became
    <3>2. CASE d # "next"
      <4>1. d \in Pcs
        BY DEF Pcs, Transfers
      <4>2. Became("poller", d, thread["poller"].path, thread["poller"].data,
                   thread["poller"].todo)
        BY <1>1, <1>2, <2>4, <3>2, <4>1, GotoFacts
      <4>3. thread["poller"].path # None
        BY <2>2, SentinelAssumption DEF PathOf
      <4> QED
        BY <3>2, <4>2, <4>3 DEF Became
    <3> QED
      BY <3>1, <3>2
  <2>6. Copies("poller", p)'
    <3>1. CASE path # p
      BY <1>2, <1>4, <2>5, <3>1, CopiesElsewhere
    <3>2. CASE path = p
      <4>1. q = p /\ Held(p)
        BY <1>1, <2>1, <2>2, <2>5, <3>2 DEF PathOf, Held, Poller
      <4>2. d \in {"read", "get"}
        BY <1>1, <2>4, <2>5, <3>2, <4>1
      <4>3. /\ d = "read" /\ local[p] # None => local[p].ver = last[p]
            /\ d = "get" /\ server[p] # None => server[p].ver = last[p]
        BY <2>3, <4>1, DecisionCopies
      <4>4. thread'["poller"].pc = d
        BY <1>4, <2>5
      <4> QED
        BY <1>3, <4>2, <4>3, <4>4 DEF Copies, Same
    <3> QED
      BY <3>1, <3>2
  <2>7. /\ \A u \in Threads : Copies(u, p)'
        /\ Sending(p)' \/ Queued(p)' => Sending(p) \/ Queued(p)
    BY <1>2, <1>3, <1>4, <2>5, <2>6, OtherCopies
  <2>8. Poller'.todo = Poller.todo /\ Poller'.pc = d
    BY <1>4, <2>5 DEF Poller
  <2>9. (Held(p)' => Held(p)) /\ ~ At("poller", "walk")'
    BY <2>8 DEF Held, At, Poller
  <2> QED
    BY <1>3, <2>1, <2>7, <2>9, DaemonFrame
<1>8. CASE EndPass
  <2>1. Goto("poller", "idle")
    BY <1>8 DEF EndPass
  <2>2. Became("poller", "idle", thread["poller"].path, thread["poller"].data,
               thread["poller"].todo)
    BY <1>1, <1>2, <2>1, GotoFacts
  <2>3. thread["poller"].path = None /\ thread["poller"].todo = {}
    BY <1>2, <1>8 DEF EndPass, At, ThreadInv, Transfers
  <2>4. ~ Held(p)' /\ ~ At("poller", "walk")'
    BY <1>1, <1>4, <2>2, <2>3 DEF Held, At
  <2>5. \A u \in Threads : Copies(u, p)'
    BY <1>1, <1>2, <1>3, <1>4, <2>2, <2>3, CopiesElsewhere, OtherCopies
  <2> QED
    BY <1>3, <1>4, <2>2, <2>4, <2>5, DaemonFrame
<1>9. ASSUME NEW q \in Paths, PickPath(q) PROVE DaemonInv(p)'
  <2>1. PICK pc \in {"next", "resolve"}, x \in {None, q} :
          /\ thread' = [thread EXCEPT !["poller"].todo = @ \ {q}, !["poller"].pc = pc,
                                      !["poller"].path = x]
    BY <1>9 DEF PickPath
  <2>2. Became("poller", pc, x, thread["poller"].data, thread["poller"].todo \ {q})
    <3>1. pc \in Pcs /\ x \in Paths \cup {None}
      BY <1>2
    <3> QED
      BY <1>1, <1>2, <2>1, <3>1, PickFacts
  <2>3. q \in thread["poller"].todo /\ UNCHANGED <<listed, walked>>
    BY <1>9 DEF PickPath, pass
  <2>4. (Held(p)' => Held(p)) /\ ~ At("poller", "walk")'
    <3>1. Poller'.todo \subseteq Poller.todo /\ Poller'.path \in {None, q} /\ Poller'.pc = pc
      BY <1>4, <2>2 DEF Poller
    <3> QED
      BY <1>1, <2>3, <3>1 DEF Held, At, Poller
  <2>5. Copies("poller", p)'
    <3>1. thread'["poller"].pc = pc
      BY <1>4, <2>2
    <3> QED
      BY <3>1 DEF Copies
  <2>6. /\ \A u \in Threads : Copies(u, p)'
        /\ Sending(p)' \/ Queued(p)' => Sending(p) \/ Queued(p)
    BY <1>2, <1>3, <1>4, <2>2, <2>5, OtherCopies
  <2> QED
    BY <1>3, <2>3, <2>4, <2>6, DaemonFrame
<1> QED
  BY <1>5, <1>6, <1>7, <1>8, <1>9

LEMMA WatchDaemon ==
  ASSUME BaseInv, NEW p \in Paths, DaemonInv(p),
         \/ \E ready \in SUBSET pending : TakeReady(ready)
         \/ \E q \in Paths : SyncChangedFile(q)
         \/ ReadEvents
         \/ UpdateWatches
  PROVE  DaemonInv(p)'
<1>1. TypeOK /\ p # None
  BY SentinelAssumption DEF BaseInv
<1>2. /\ "watcher" \in Threads /\ "poller" # "watcher" /\ "poller" \in Threads
      /\ ThreadInv("watcher")
      /\ {"next", "read", "delete", "watches", "idle", "dead"} \subseteq Pcs
  BY DEF BaseInv, ThreadsInv, Threads, Pcs, Transfers
<1>3. Same(p) /\ UNCHANGED <<snapshot, listed, walked>>
  <2>1. UNCHANGED <<local, server, lastSync, snapshot, last, listed, walked>>
    BY DEF TakeReady, SyncChangedFile, ReadEvents, UpdateWatches, disk, engine, history, pass
  <2> QED
    BY <2>1, SMTT(60) DEF Same
<1>4. /\ thread["watcher"].todo \subseteq Paths /\ pending \subseteq Paths
  BY <1>1, <1>2, ThreadType DEF TypeOK
<1>5. ASSUME NEW pc, NEW path, NEW data, NEW todo, Became("watcher", pc, path, data, todo),
             Copies("watcher", p)', Sending(p)' \/ Queued(p)' => Sending(p) \/ Queued(p)
      PROVE  DaemonInv(p)'
  <2>1. /\ thread'["poller"] = thread["poller"]
        /\ \A u \in Threads : u # "watcher" => thread'[u] = thread[u]
    BY <1>2, <1>5 DEF Became
  <2>2. \A u \in Threads : Copies(u, p)'
    BY <1>2, <1>3, <1>5, <2>1, OtherCopies
  <2>3. /\ At("poller", "walk")' \/ Held(p)' => At("poller", "walk") \/ Held(p)
        /\ Held(p)' => Held(p)
    BY <2>1 DEF At, Held, Poller
  <2> QED
    BY <1>3, <1>5, <2>2, <2>3, DaemonFrame
<1>6. ASSUME NEW ready \in SUBSET pending, TakeReady(ready) PROVE DaemonInv(p)'
  <2>1. Became("watcher", "next", thread["watcher"].path, thread["watcher"].data, ready)
    BY <1>1, <1>2, <1>4, <1>6, TakeFacts DEF TakeReady
  <2>2. thread["watcher"].path = None /\ Alive
    BY <1>2, <1>6 DEF TakeReady, At, ThreadInv, Transfers, Alive
  <2>3. Copies("watcher", p)'
    BY <1>1, <1>2, <2>1, <2>2, CopiesElsewhere DEF Became
  <2>4. Sending(p)' \/ Queued(p)' => Sending(p) \/ Queued(p)
    <3>1. Sending(p)' => p \in ready
      BY <1>1, <2>1, <2>2 DEF Became, Sending
    <3>2. p \in pending' \cup events' => p \in pending \cup events
      BY <1>6 DEF TakeReady
    <3> QED
      BY <2>2, <3>1, <3>2 DEF Queued
  <2> QED
    BY <1>5, <2>1, <2>3, <2>4
<1>7. ASSUME NEW q \in Paths, SyncChangedFile(q) PROVE DaemonInv(p)'
  <2>1. PICK pc \in {"next", "read", "delete"} :
          /\ thread' = [thread EXCEPT !["watcher"].pc = pc, !["watcher"].todo = @ \ {q},
                                      !["watcher"].path = IF pc = "next" THEN None ELSE q]
          /\ pc = "delete" => local[q] = None /\ q \in snapshot
    BY <1>7 DEF SyncChangedFile
  <2>2. PICK x \in {None, q} : x = IF pc = "next" THEN None ELSE q
    OBVIOUS
  <2>3. Became("watcher", pc, x, thread["watcher"].data, thread["watcher"].todo \ {q})
    <3>1. pc \in Pcs /\ x \in Paths \cup {None}
      BY <1>2
    <3>2. thread' = [thread EXCEPT !["watcher"].pc = pc, !["watcher"].todo = @ \ {q},
                                   !["watcher"].path = x]
      BY <2>1, <2>2
    <3> QED
      BY <1>1, <1>2, <3>1, <3>2, PickFacts
  <2>4. q \in thread["watcher"].todo /\ ThreadInv("watcher") /\ At("watcher", "next")
        /\ UNCHANGED <<pending, events>>
    BY <1>2, <1>7 DEF SyncChangedFile, inotify
  <2>5. Sending(p)' \/ Queued(p)' => Sending(p) \/ Queued(p)
    <3>1. Sending(p)' => Sending(p)
      BY <1>1, <2>2, <2>3, <2>4 DEF Became, Sending
    <3>2. Alive
      BY <2>4 DEF Alive, At
    <3> QED
      BY <2>4, <3>1, <3>2 DEF Queued
  <2>6. Copies("watcher", p)'
    <3>1. CASE x # p
      BY <1>2, <2>3, <3>1, CopiesElsewhere DEF Became
    <3>2. CASE x = p
      <4>1. q = p /\ thread'["watcher"].pc = pc /\ pc \in {"read", "delete"}
        BY <1>1, <2>2, <2>3, <3>2 DEF Became
      <4>2. pc # "delete"
        BY <2>1, <4>1 DEF DaemonInv
      <4>3. Sending(p)
        BY <2>4, <4>1 DEF Sending
      <4>4. local[p] # None => local[p].ver = last[p]
        BY <4>3 DEF DaemonInv, Agreed, LocalAhead, ServerAhead
      <4> QED
        BY <1>3, <4>1, <4>2, <4>4 DEF Copies, Same
    <3> QED
      BY <3>1, <3>2
  <2> QED
    BY <1>5, <2>3, <2>5, <2>6
<1>8. ASSUME NEW pc \in {"watches", "idle", "dead"}, Goto("watcher", pc),
             thread["watcher"].pc \notin Transfers \cup {"dead", "off"},
             p \in pending' \cup events' => p \in pending \cup events
      PROVE  DaemonInv(p)'
  <2>1. Became("watcher", pc, thread["watcher"].path, thread["watcher"].data,
               thread["watcher"].todo)
    BY <1>1, <1>2, <1>8, GotoFacts
  <2>2. thread["watcher"].path = None
    BY <1>2, <1>8 DEF ThreadInv, BaseInv, ThreadsInv, Watcher
  <2>3. Copies("watcher", p)'
    BY <1>1, <1>2, <2>1, <2>2, CopiesElsewhere DEF Became
  <2>4. Sending(p)' \/ Queued(p)' => Sending(p) \/ Queued(p)
    <3>1. Sending(p)' => Sending(p)
      BY <2>1 DEF Became, Sending
    <3>2. Alive
      BY <1>8 DEF Alive, At
    <3> QED
      BY <1>8, <3>1, <3>2 DEF Queued
  <2> QED
    BY <1>5, <2>1, <2>3, <2>4
<1>9. CASE ReadEvents
  BY <1>8, <1>9 DEF ReadEvents, At, Transfers
<1>10. CASE UpdateWatches
  BY <1>8, <1>10 DEF UpdateWatches, At, Transfers
<1> QED
  BY <1>6, <1>7, <1>9, <1>10

LEMMA RestDaemon ==
  ASSUME BaseInv, NEW p \in Paths, DaemonInv(p), p \notin raced',
         Advance \/ Restart \/ UNCHANGED vars
  PROVE  DaemonInv(p)'
<1>1. TypeOK /\ p # None
  BY SentinelAssumption DEF BaseInv
<1>2. CASE Advance \/ UNCHANGED vars
  <2>1. Same(p) /\ UNCHANGED <<snapshot, thread, listed, walked, pending, events>>
    BY <1>2 DEF Advance, vars, Same, disk, engine, inotify, pass, history
  <2>2. \A t \in Threads : Copies(t, p)'
    BY <2>1, CopiesSame DEF DaemonInv
  <2>3. /\ At("poller", "walk")' \/ Held(p)' => At("poller", "walk") \/ Held(p)
        /\ Held(p)' => Held(p)
        /\ Sending(p)' \/ Queued(p)' => Sending(p) \/ Queued(p)
    BY <2>1 DEF At, Held, Poller, Sending, Queued, Alive
  <2> QED
    BY <2>1, <2>2, <2>3, DaemonFrame
<1>3. CASE Restart
  <2>1. /\ UNCHANGED <<local, server, last>>
        /\ thread' = Started(mode) /\ pending' = {} /\ events' = {}
        /\ snapshot' = Existing(local)
        /\ lastSync' = [q \in Paths |-> IF local[q] # None THEN now ELSE 0]
        /\ raced' = raced \cup {q \in Existing(local) : ~ InSync(q)}
    BY <1>3 DEF Restart, disk
  <2>2. \A t \in Threads : /\ thread'[t].path = None /\ thread'[t].todo = {}
                           /\ thread'[t].pc \in {"idle", "off"}
    BY <2>1, StartedFacts
  <2>3. /\ \A t \in Threads : Copies(t, p)'
        /\ ~ At("poller", "walk")' /\ ~ Held(p)' /\ ~ Sending(p)' /\ ~ Queued(p)'
    BY <1>1, <2>1, <2>2, CopiesElsewhere DEF At, Held, Poller, Sending, Queued, Threads
  <2>4. p \in snapshot' <=> local[p] # None
    BY <2>1 DEF Existing
  <2>5. CASE local[p] # None
    <3>1. InSync(p)
      BY <2>1, <2>5 DEF Existing
    <3>2. local[p].ver = last[p]
      BY <2>5, <3>1 DEF DaemonInv, Agreed, LocalAhead, ServerAhead, InSync
    <3>3. Agreed(p)'
      BY <2>1, <3>1, <3>2 DEF Agreed, InSync
    <3> QED
      BY <2>1, <2>3, <2>5, <3>3 DEF DaemonInv
  <2>6. CASE local[p] = None
    <3>1. CASE server[p] = None
      <4>1. Agreed(p)'
        BY <2>1, <2>6, <3>1 DEF Agreed, InSync
      <4> QED
        BY <2>3, <2>4, <2>6, <4>1 DEF DaemonInv
    <3>2. CASE server[p] # None
      <4>1. server[p].ver = last[p]
        BY <2>6, <3>2 DEF DaemonInv, Agreed, LocalAhead, ServerAhead, InSync
      <4>2. server[p].mtime > 0 /\ lastSync'[p] = 0
        BY <2>1, <2>6, <3>2 DEF BaseInv
      <4>3. ServerAhead(p)'
        BY <2>1, <2>3, <2>6, <3>2, <4>1, <4>2 DEF ServerAhead
      <4> QED
        BY <2>3, <2>4, <2>6, <4>3 DEF DaemonInv
    <3> QED
      BY <3>1, <3>2
  <2> QED
    BY <2>5, <2>6
<1> QED
  BY <1>2, <1>3

LEMMA DaemonInit ==
  ASSUME Init, BaseInv, ~ mode.once, NEW p \in Paths, p \notin raced
  PROVE  DaemonInv(p)
<1>1. p # None
  BY SentinelAssumption
<1>2. \A t \in Threads : /\ thread[t].path = None /\ thread[t].todo = {}
                         /\ thread[t].pc \in {"idle", "off"}
  BY StartedFacts DEF Init
<1>3. /\ \A t \in Threads : Copies(t, p)
      /\ ~ At("poller", "walk") /\ ~ Held(p) /\ ~ Sending(p) /\ ~ Queued(p)
  BY <1>1, <1>2 DEF Init, Copies, At, Held, Poller, Sending, Queued, Threads
<1>4. /\ local[p] \in {[ver |-> 0, mtime |-> Start], None}
      /\ server[p] \in {[ver |-> 0, mtime |-> Second(Start)], None}
      /\ last[p] = 0
      /\ p \in snapshot <=> local[p] # None
      /\ lastSync[p] = IF local[p] # None THEN now ELSE 0
      /\ ~ (local[p] # None /\ server[p] = None)
  BY DEF Init, Existing
<1>5. CASE local[p] # None \/ server[p] = None
  <2>1. Agreed(p)
    BY <1>4, <1>5 DEF Agreed, InSync
  <2> QED
    BY <1>3, <1>4, <2>1 DEF DaemonInv
<1>6. CASE local[p] = None /\ server[p] # None
  <2>1. server[p].mtime > 0
    BY <1>6 DEF BaseInv
  <2>2. ServerAhead(p)
    BY <1>3, <1>4, <1>6, <2>1 DEF ServerAhead
  <2> QED
    BY <1>3, <1>4, <2>2 DEF DaemonInv
<1> QED
  BY <1>5, <1>6

-----------------------------------------------------------------------------
(* The one-shot pass: what a step does to one path.                         *)

\* The files of p and what the pass knows of them stay as they are.
Kept(p) ==
  /\ local'[p] = None <=> local[p] = None
  /\ server'[p] = None <=> server[p] = None
  /\ listed'[p] = listed[p] /\ walked'[p] = walked[p]

LEMMA OnceSame ==
  ASSUME NEW p \in Paths, OnceInv(p), Kept(p), Poller' = Poller
  PROVE  OnceInv(p)'
  BY DEF OnceInv, Kept, Held, Mirrored

\* The poller takes a step with some other path.
LEMMA OnceElsewhere ==
  ASSUME NEW p \in Paths, OnceInv(p), Kept(p),
         Poller.pc \notin {"idle", "walk", "dead"}, Poller'.pc \notin {"idle", "walk"},
         Poller.path # p, Poller'.path # p,
         p \in Poller'.todo <=> p \in Poller.todo
  PROVE  OnceInv(p)'
  BY DEF OnceInv, Kept, Held, Mirrored

LEMMA TransferOnce ==
  ASSUME BaseInv, mode.once, NEW p \in Paths, OnceInv(p), p \notin raced', Transfer("poller")
  PROVE  OnceInv(p)'
<1>1. TypeOK /\ p # None /\ "poller" \in Threads
  BY SentinelAssumption DEF BaseInv, Threads
<1>2. thread["poller"].pc \in Transfers
  BY DEF Transfer, ReadLocal, Put, Stat, Get, Place, Write, DeleteRemote, RemoveLocal, Forget,
         AccessFails, At, Transfers
<1>3. PICK q \in Paths : q = PathOf("poller") /\ q # None
  BY <1>1, <1>2, WorkingPath
<1>4. /\ local \in [Paths -> File \cup {None}] /\ server \in [Paths -> File \cup {None}]
  BY <1>1 DEF TypeOK
<1>5. Poller.path = q /\ Poller.pc \in Transfers /\ Poller.pc \notin {"idle", "walk", "resolve"}
  BY <1>2, <1>3 DEF PathOf, Poller, Transfers
<1>6. Final({q}) = {q}
  BY DEF Final
<1>7. UNCHANGED <<listed, walked>>
  BY DEF Transfer, ReadLocal, Put, Stat, Get, Place, Write, DeleteRemote, RemoveLocal, Forget, AccessFails,
         pass
<1>8. PICK pc \in (Transfers \ {"delete", "remove", "get", "read"}) \cup {"next"}, path \in {q, None} :
        /\ path = None <=> pc = "next"
        /\ Poller'.pc = pc /\ Poller'.path = path /\ Poller'.todo = Poller.todo
        /\ pc = "next" => Finish("poller")
        /\ pc \in {"put", "place"} => \E f \in File :
             thread' = [thread EXCEPT !["poller"].pc = pc, !["poller"].data = f]
        /\ pc \notin {"next", "put", "place"} => Goto("poller", pc)
  <2>1. CASE Finish("poller")
    <3>1. Became("poller", "next", None, None, thread["poller"].todo)
      BY <1>1, <2>1, FinishFacts
    <3> QED
      BY <2>1, <3>1 DEF Became, Poller
  <2>2. ASSUME NEW pc \in {"stat", "write", "forget"}, Goto("poller", pc)
        PROVE  /\ pc \in Transfers \ {"delete", "remove", "get", "read"}
               /\ Poller'.pc = pc /\ Poller'.path = q /\ Poller'.todo = Poller.todo
    <3>1. pc \in Pcs /\ pc \in Transfers \ {"delete", "remove", "get", "read"}
      BY DEF Pcs, Transfers
    <3>2. Became("poller", pc, thread["poller"].path, thread["poller"].data, thread["poller"].todo)
      BY <1>1, <2>2, <3>1, GotoFacts
    <3> QED
      BY <1>5, <3>1, <3>2 DEF Became, Poller
  <2>3. ASSUME NEW pc \in {"put", "place"}, NEW f \in File,
               thread' = [thread EXCEPT !["poller"].pc = pc, !["poller"].data = f]
        PROVE  /\ pc \in Transfers \ {"delete", "remove", "get", "read"}
               /\ Poller'.pc = pc /\ Poller'.path = q /\ Poller'.todo = Poller.todo
    <3>1. pc \in Pcs /\ pc \in Transfers \ {"delete", "remove", "get", "read"}
      BY DEF Pcs, Transfers
    <3>2. Became("poller", pc, thread["poller"].path, f, thread["poller"].todo)
      BY <1>1, <2>3, <3>1, LoadFacts
    <3> QED
      BY <1>5, <3>1, <3>2 DEF Became, Poller
  <2>4. \/ Finish("poller")
        \/ \E pc \in {"stat", "write", "forget"} : Goto("poller", pc)
        \/ \E pc \in {"put", "place"}, f \in File :
             thread' = [thread EXCEPT !["poller"].pc = pc, !["poller"].data = f]
    BY <1>3, <1>4 DEF Transfer, ReadLocal, Put, Stat, Get, Place, Write, DeleteRemote,
                      RemoveLocal, Forget, AccessFails
  <2>5. CASE \E pc \in {"stat", "write", "forget"} : Goto("poller", pc)
    BY <1>3, <2>2, <2>5
  <2>6. CASE \E pc \in {"put", "place"}, f \in File :
               thread' = [thread EXCEPT !["poller"].pc = pc, !["poller"].data = f]
    BY <1>3, <2>3, <2>6
  <2> QED
    BY <2>1, <2>4, <2>5, <2>6
<1>9. pc \notin {"idle", "walk", "resolve"}
  BY <1>8 DEF Transfers
<1>10. CASE q # p
  <2>1. Kept(p)
    <3>1. local'[p] = local[p]
      BY <1>3, <1>4, <1>10 DEF Transfer, ReadLocal, Put, Stat, Get, Place, Write, DeleteRemote,
                               RemoveLocal, Forget, AccessFails, disk
    <3>2. server'[p] = server[p]
      BY <1>3, <1>4, <1>10 DEF Transfer, ReadLocal, Put, Stored, Stat, Get, Place, Write,
                               DeleteRemote, RemoveLocal, Forget, AccessFails, disk
    <3> QED
      BY <1>7, <3>1, <3>2 DEF Kept
  <2> QED
    <3>1. pc # "dead" /\ Poller.pc # "dead"
      BY <1>5, <1>8 DEF Transfers
    <3> QED
      BY <1>1, <1>5, <1>8, <1>9, <1>10, <2>1, <3>1, OnceElsewhere
<1>11. CASE q = p
  <2>1. p \notin Poller'.todo /\ ~ Held(p)'
    BY <1>5, <1>8, <1>9, <1>11 DEF OnceInv, Held
  <2>2. ASSUME Finish("poller"), Mirrored(p)' PROVE OnceInv(p)'
    <3>1. Became("poller", "next", None, None, thread["poller"].todo)
      BY <1>1, <2>2, FinishFacts
    <3>2. Poller'.pc = "next" /\ Poller'.path # p
      BY <1>1, <3>1 DEF Became, Poller
    <3> QED
      BY <2>1, <2>2, <3>2 DEF OnceInv
  <2>3. ASSUME NEW to \in {"put", "stat", "place", "write", "forget"}, Poller'.pc = to,
               /\ to = "put" => local'[p] # None
               /\ to \in {"place", "write"} => server'[p] # None
               /\ to = "stat" => local'[p] # None /\ server'[p] # None
               /\ to = "forget" => local'[p] = None /\ server'[p] = None
        PROVE  OnceInv(p)'
    <3>1. Poller'.path = p
      BY <1>8, <1>11, <2>3
    <3> QED
      BY <2>1, <2>3, <3>1 DEF OnceInv
  <2>4. ASSUME NEW to \in {"put", "stat", "place", "write", "forget"},
               \/ Goto("poller", to)
               \/ \E f \in File : thread' = [thread EXCEPT !["poller"].pc = to, !["poller"].data = f]
        PROVE  Poller'.pc = to
    BY <1>1, <2>4, ThreadType DEF Goto, Poller, ThreadRec
  <2>5. CASE ReadLocal("poller")
    <3>1. local[p] # None /\ local' = local
      BY <1>5, <1>11, <2>5 DEF OnceInv, ReadLocal, At, Poller, disk
    <3>2. thread' = [thread EXCEPT !["poller"].pc = "put", !["poller"].data = local[p]]
          /\ local[p] \in File
      BY <1>3, <1>4, <1>11, <2>5, <3>1 DEF ReadLocal
    <3> QED
      BY <2>3, <2>4, <3>1, <3>2
  <2>6. CASE Put("poller")
    <3>1. local[p] # None /\ local' = local
      BY <1>5, <1>11, <2>6 DEF OnceInv, Put, At, Poller, disk
    <3>2. Stored("poller") /\ Goto("poller", "stat")
      BY <1>3, <1>6, <1>11, <2>6 DEF Put, Fail
    <3>3. server'[p] = [ver |-> thread["poller"].data.ver, mtime |-> Second(now)]
      BY <1>3, <1>4, <1>11, <3>2 DEF Stored
    <3>4. server'[p] # None
      <4>1. thread["poller"].data \in File
        BY <1>1, <1>2, <2>6, WorkingPath DEF Put, At
      <4>2. thread["poller"].data.ver \in Versions
        BY <4>1 DEF File
      <4> QED
        BY <3>3, <4>2, NewFile, SentinelAssumption
    <3> QED
      BY <2>3, <2>4, <3>1, <3>2, <3>4
  <2>7. CASE Stat("poller")
    <3>1. local[p] # None /\ server[p] # None /\ local' = local /\ server' = server
      BY <1>5, <1>11, <2>7 DEF OnceInv, Stat, At, Poller, disk
    <3> QED
      BY <2>2, <2>7, <3>1 DEF Stat, Mirrored
  <2>8. CASE Get("poller")
    <3>1. server[p] # None /\ server' = server
      BY <1>5, <1>11, <2>8 DEF OnceInv, Get, At, Poller
    <3>2. thread' = [thread EXCEPT !["poller"].pc = "place", !["poller"].data = server[p]]
          /\ server[p] \in File
      BY <1>3, <1>4, <1>6, <1>11, <2>8, <3>1 DEF Get, Fail
    <3> QED
      BY <2>3, <2>4, <3>1, <3>2
  <2>9. CASE Place("poller")
    <3>1. server[p] # None /\ server' = server /\ Goto("poller", "write")
      BY <1>5, <1>11, <2>9 DEF OnceInv, Place, At, Poller
    <3> QED
      BY <2>3, <2>4, <3>1
  <2>10. CASE Write("poller")
    <3>1. server[p] # None /\ server' = server
      BY <1>5, <1>11, <2>10 DEF OnceInv, Write, At, Poller
    <3>2. /\ local' = [local EXCEPT ![p] = [ver |-> thread["poller"].data.ver, mtime |-> now]]
          /\ Goto("poller", "stat")
      BY <1>3, <1>6, <1>11, <2>10 DEF Write, Fail
    <3>3. local'[p] # None
      <4>1. thread["poller"].data \in File
        BY <1>1, <1>2, <2>10, WorkingPath DEF Write, At
      <4>2. thread["poller"].data.ver \in Versions
        BY <4>1 DEF File
      <4> QED
        BY <1>4, <3>2, <4>2, NewFile, SentinelAssumption
    <3> QED
      BY <2>3, <2>4, <3>1, <3>2, <3>3
  <2>11. CASE DeleteRemote("poller")
    <3>1. local[p] = None /\ local' = local
      BY <1>5, <1>11, <2>11 DEF OnceInv, DeleteRemote, At, Poller, disk
    <3>2. server' = [server EXCEPT ![p] = None] /\ Goto("poller", "forget")
      BY <1>3, <1>6, <1>11, <2>11 DEF DeleteRemote, Fail
    <3>3. server'[p] = None
      BY <1>4, <3>2
    <3> QED
      BY <2>3, <2>4, <3>1, <3>2, <3>3
  <2>12. CASE RemoveLocal("poller")
    <3>1. server[p] = None /\ server' = server
      BY <1>5, <1>11, <2>12 DEF OnceInv, RemoveLocal, At, Poller
    <3>2. CASE local[p] = None
      BY <1>3, <1>11, <2>2, <2>12, <3>1, <3>2 DEF RemoveLocal, Mirrored
    <3>3. CASE local[p] # None
      <4>1. local'[p] = None /\ Goto("poller", "forget")
        BY <1>3, <1>4, <1>11, <2>12, <3>3 DEF RemoveLocal
      <4> QED
        BY <2>3, <2>4, <3>1, <4>1
    <3> QED
      BY <3>2, <3>3
  <2>13. CASE Forget("poller")
    <3>1. local[p] = None /\ server[p] = None /\ local' = local /\ server' = server
      BY <1>5, <1>11, <2>13 DEF OnceInv, Forget, At, Poller, disk
    <3> QED
      BY <2>2, <2>13, <3>1 DEF Forget, Mirrored
  <2>14. CASE AccessFails("poller")
    BY <1>3, <1>6, <1>11, <2>14 DEF AccessFails, Fail
  <2> QED
    BY <2>5, <2>6, <2>7, <2>8, <2>9, <2>10, <2>11, <2>12, <2>13, <2>14 DEF Transfer
<1> QED
  BY <1>10, <1>11

\* A pass that is given up mirrors nothing, and a write that breaks off is excepted.
LEMMA BrokenOnce ==
  ASSUME BaseInv, mode.once, NEW p \in Paths, OnceInv(p), p \notin raced',
         PlaceFails \/ WriteBreaksOff
  PROVE  OnceInv(p)'
<1>1. TypeOK /\ p # None /\ "poller" \in Threads
  BY SentinelAssumption DEF BaseInv, Threads
<1>2. CASE PlaceFails
  <2>1. Became("poller", "dead", None, None, {})
    <3>1. "dead" \in Pcs /\ thread' = [thread EXCEPT !["poller"] = Thread("dead")]
      BY <1>2 DEF PlaceFails, Pcs
    <3> QED
      BY <1>1, <3>1, AbandonFacts
  <2> QED
    BY <1>1, <2>1 DEF OnceInv, Held, Became, Poller
<1>3. CASE WriteBreaksOff
  <2>1. PICK q \in Paths : q = PathOf("poller")
    BY <1>1, <1>3, WorkingPath DEF WriteBreaksOff, At, Transfers
  <2>2. q # p
    BY <1>3, <2>1 DEF WriteBreaksOff
  <2>3. local'[p] = local[p] /\ server' = server /\ UNCHANGED <<listed, walked>>
    BY <1>1, <1>3, <2>1, <2>2 DEF WriteBreaksOff, TypeOK, pass
  <2>4. Became("poller", "next", None, None, thread["poller"].todo)
    BY <1>1, <1>3, FinishFacts DEF WriteBreaksOff
  <2>5. /\ Poller.pc = "write" /\ Poller.path = q
        /\ Poller'.pc = "next" /\ Poller'.path = None /\ Poller'.todo = Poller.todo
    BY <1>3, <2>1, <2>4 DEF WriteBreaksOff, At, PathOf, Poller, Became
  <2> QED
    BY <1>1, <2>2, <2>3, <2>5, OnceElsewhere DEF Kept
<1> QED
  BY <1>2, <1>3

LEMMA PollOnce ==
  ASSUME BaseInv, mode.once, NEW p \in Paths, OnceInv(p), p \notin raced',
         List \/ Walk \/ ResolveAndSync \/ EndPass \/ (\E q \in Paths : PickPath(q))
  PROVE  OnceInv(p)'
<1>1. TypeOK /\ p # None
  BY SentinelAssumption DEF BaseInv
<1>2. /\ "poller" \in Threads
      /\ ThreadInv("poller")
      /\ {"walk", "idle", "next", "resolve", "done"} \subseteq Pcs
  BY SMTT(60) DEF BaseInv, ThreadsInv, Threads, Pcs
<1>3. UNCHANGED <<local, server>>
  BY DEF List, Walk, ResolveAndSync, EndPass, PickPath, disk
<1>4. ASSUME NEW pc, NEW path, NEW data, NEW todo, Became("poller", pc, path, data, todo)
      PROVE  Poller'.pc = pc /\ Poller'.path = path /\ Poller'.todo = todo
  BY <1>4 DEF Became, Poller
<1>5. CASE List
  <2>1. listed' = Mtimes(server) /\ (Goto("poller", "walk") \/ Goto("poller", "idle"))
    <3>1. Final(Paths) = Paths
      BY DEF Final
    <3> QED
      BY <1>5, <3>1 DEF List, Fail
  <2>2. PICK pc \in {"walk", "idle"} : Goto("poller", pc)
    BY <2>1
  <2>3. Became("poller", pc, thread["poller"].path, thread["poller"].data, thread["poller"].todo)
    BY <1>1, <1>2, <2>2, GotoFacts
  <2>4. thread["poller"].path = None /\ thread["poller"].todo = {}
    BY <1>2, <1>5 DEF List, At, ThreadInv, Transfers
  <2>5. Poller'.pc = pc /\ Poller'.path = None /\ Poller'.todo = {}
    BY <1>4, <2>3, <2>4
  <2>6. listed'[p] = None <=> server'[p] = None
    BY <1>1, <1>3, <2>1, FileType, SentinelAssumption DEF Mtimes
  <2> QED
    BY <1>1, <2>5, <2>6 DEF OnceInv, Held
<1>6. CASE Walk
  <2> DEFINE todo == {q \in Paths : listed[q] # None \/ walked'[q] # None}
  <2>1. Became("poller", "next", thread["poller"].path, thread["poller"].data, todo)
    <3>1. todo \in SUBSET Paths
      OBVIOUS
    <3>2. thread' = [thread EXCEPT !["poller"].pc = "next", !["poller"].todo = todo]
      BY <1>6 DEF Walk
    <3> HIDE DEF todo
    <3> QED
      BY <1>1, <1>2, <3>1, <3>2, TakeFacts
  <2>2. p \in todo <=> listed[p] # None \/ walked'[p] # None
    OBVIOUS
  <2> HIDE DEF todo
  <2>3. thread["poller"].path = None /\ Poller.pc = "walk"
    BY <1>2, <1>6 DEF Walk, At, ThreadInv, Transfers, Poller
  <2>4. Poller'.pc = "next" /\ Poller'.path = None /\ Poller'.todo = todo
    BY <1>4, <2>1, <2>3
  <2>5. /\ walked'[p] = None <=> local[p] = None
        /\ listed' = listed
    BY <1>1, <1>6, FileType, SentinelAssumption DEF Walk, Mtimes
  <2>6. listed[p] = None <=> server[p] = None
    BY <2>3 DEF OnceInv
  <2> QED
    BY <1>1, <1>3, <2>2, <2>4, <2>5, <2>6 DEF OnceInv, Held, Mirrored
<1>7. CASE ResolveAndSync
  <2>1. Poller.pc = "resolve" /\ UNCHANGED <<listed, walked>>
    BY <1>7 DEF ResolveAndSync, At, pass, Poller
  <2>2. PICK q \in Paths : q = PathOf("poller")
    BY <1>2, <2>1, WorkingPath DEF Poller
  <2>3. PICK d \in {"next", "read", "remove", "get", "delete"} :
          d = Decision(walked[q], listed[q], lastSync[q])
    BY DecisionType
  <2>4. IF d = "next" THEN Finish("poller") ELSE Goto("poller", d)
    BY <1>7, <2>2, <2>3 DEF ResolveAndSync
  <2>5. /\ Poller'.pc = d /\ Poller'.todo = Poller.todo
        /\ Poller'.path = IF d = "next" THEN None ELSE q
    <3>1. CASE d = "next"
      <4>1. Became("poller", "next", None, None, thread["poller"].todo)
        BY <1>1, <1>2, <2>4, <3>1, FinishFacts
      <4> QED
        BY <1>4, <3>1, <4>1 DEF Poller
    <3>2. CASE d # "next"
      <4>1. d \in Pcs
        BY DEF Pcs, Transfers
      <4>2. Became("poller", d, thread["poller"].path, thread["poller"].data,
                   thread["poller"].todo)
        BY <1>1, <1>2, <2>4, <3>2, <4>1, GotoFacts
      <4> QED
        BY <1>4, <2>2, <3>2, <4>2 DEF Poller, PathOf
    <3> QED
      BY <3>1, <3>2
  <2>6. CASE q # p
    <3>1. Kept(p) /\ Poller.path # p /\ Poller'.path # p
      BY <1>1, <1>3, <2>1, <2>2, <2>5, <2>6 DEF Kept, PathOf, Poller
    <3> QED
      BY <2>1, <2>5, <3>1, OnceElsewhere
  <2>7. CASE q = p
    <3>1. /\ Poller.path = p /\ Held(p) /\ p \notin Poller.todo
          /\ listed[p] = None <=> server[p] = None
          /\ walked[p] = None <=> local[p] = None
      BY <2>1, <2>2, <2>7 DEF PathOf, Held, Poller, OnceInv
    <3>2. /\ d = "next" => (walked[p] = None <=> listed[p] = None)
          /\ d = "read" => walked[p] # None
          /\ d = "remove" => listed[p] = None
          /\ d = "get" => listed[p] # None
          /\ d = "delete" => walked[p] = None
      BY <2>3, <2>7 DEF Decision
    <3> QED
      BY <1>1, <1>3, <2>5, <3>1, <3>2, <2>7 DEF OnceInv, Held, Mirrored
  <2> QED
    BY <2>6, <2>7
<1>8. CASE EndPass
  <2>1. Goto("poller", "done") /\ Poller.pc = "next"
    BY <1>8 DEF EndPass, At, Poller
  <2>2. Became("poller", "done", thread["poller"].path, thread["poller"].data,
               thread["poller"].todo)
    BY <1>1, <1>2, <2>1, GotoFacts
  <2>3. thread["poller"].path = None /\ thread["poller"].todo = {}
    BY <1>2, <1>8 DEF EndPass, At, ThreadInv, Transfers
  <2>4. Mirrored(p)
    BY <1>1, <2>1, <2>3 DEF OnceInv, Poller
  <2>5. Poller'.pc = "done" /\ Poller'.path = None /\ Poller'.todo = {}
    BY <1>4, <2>2, <2>3
  <2> QED
    BY <1>1, <1>3, <2>4, <2>5 DEF OnceInv, Held, Mirrored
<1>9. ASSUME NEW q \in Paths, PickPath(q) PROVE OnceInv(p)'
  <2>1. /\ thread' = [thread EXCEPT !["poller"].todo = @ \ {q}, !["poller"].pc = "resolve",
                                    !["poller"].path = q]
        /\ UNCHANGED <<listed, walked>> /\ q \in Poller.todo /\ Poller.pc = "next"
    BY <1>9 DEF PickPath, pass, At, Poller
  <2>2. Became("poller", "resolve", q, thread["poller"].data, thread["poller"].todo \ {q})
    BY <1>1, <1>2, <2>1, PickFacts
  <2>3. Poller'.pc = "resolve" /\ Poller'.path = q /\ Poller'.todo = Poller.todo \ {q}
    BY <1>4, <2>2 DEF Poller
  <2>4. Poller.path = None
    BY <1>2, <2>1 DEF ThreadInv, Poller, Transfers
  <2>5. CASE q # p
    BY <1>1, <1>3, <2>1, <2>3, <2>4, <2>5, OnceElsewhere DEF Kept
  <2>6. CASE q = p
    <3>1. Held(p) /\ p \notin Poller'.todo
      BY <2>1, <2>3, <2>6 DEF Held
    <3> QED
      BY <1>3, <2>1, <2>3, <2>6, <3>1 DEF OnceInv
  <2> QED
    BY <2>5, <2>6
<1> QED
  BY <1>5, <1>6, <1>7, <1>8, <1>9

LEMMA EditOnce ==
  ASSUME BaseInv, mode.once, NEW p \in Paths, OnceInv(p), p \notin raced', Edit
  PROVE  OnceInv(p)'
<1>1. TypeOK /\ p # None /\ ThreadInv("poller")
  BY SentinelAssumption DEF BaseInv, ThreadsInv, Threads
<1>2. UNCHANGED <<thread, listed, walked>>
  BY DEF Edit, Saved, LocalWrite, LocalMoveIn, LocalDelete, MakeDir, ServerWrite, ServerDelete,
         pass
<1>3. /\ local \in [Paths -> File \cup {None}] /\ server \in [Paths -> File \cup {None}]
  BY <1>1 DEF TypeOK
<1>4. CASE At("poller", "idle")
  <2>1. Poller'.pc = "idle" /\ Poller'.todo = {} /\ Poller'.path = None
    BY <1>1, <1>2, <1>4 DEF At, Poller, ThreadInv, Transfers
  <2> QED
    BY <1>1, <2>1 DEF OnceInv, Held
<1>5. CASE ~ At("poller", "idle")
  <2>1. local'[p] = local[p]
    BY <1>3, <1>5 DEF Edit, Saved, LocalWrite, LocalMoveIn, LocalDelete, MakeDir, ServerWrite,
                      ServerDelete, Edited, disk
  <2>2. server'[p] = server[p]
    BY <1>3, <1>5 DEF Edit, Saved, LocalWrite, LocalMoveIn, LocalDelete, MakeDir, ServerWrite,
                      ServerDelete, Edited
  <2> QED
    BY <1>2, <2>1, <2>2, OnceSame DEF Kept, Poller
<1> QED
  BY <1>4, <1>5

LEMMA OnceInit ==
  ASSUME Init, NEW p \in Paths
  PROVE  OnceInv(p)
<1>1. p # None /\ "poller" \in Threads /\ "poller" # "watcher"
  BY SentinelAssumption DEF Threads
<1>2. Poller.pc = "idle" /\ Poller.path = None /\ Poller.todo = {}
  BY <1>1, StartedFacts DEF Init, Poller
<1> QED
  BY <1>1, <1>2 DEF OnceInv, Held

-----------------------------------------------------------------------------
(* The theorems.                                                            *)

LEMMA SyncInit == Init => SyncInv
  BY BaseInit, DaemonInit, OnceInit DEF SyncInv

LEMMA SyncStep == SyncInv /\ [Next]_vars => SyncInv'
<1> SUFFICES ASSUME SyncInv, [Next]_vars PROVE SyncInv'
  OBVIOUS
<1>1. BaseInv /\ BaseInv'
  BY BaseStep, SMTT(60) DEF SyncInv
<1>2. mode' = mode
  BY ZenonT(60) DEF Next, WatcherStep, PollerStep, Edit, Transfer, ReadLocal, Put, Stat, Get, Place, Write,
         DeleteRemote, RemoveLocal, Forget, AccessFails, PlaceFails, WriteBreaksOff, List, Walk, ResolveAndSync, EndPass, PickPath,
         TakeReady, SyncChangedFile, ReadEvents, UpdateWatches, Saved, LocalWrite, LocalMoveIn,
         LocalDelete, MakeDir, ServerWrite, ServerDelete, Advance, Restart, vars
<1>3. ASSUME NEW p \in Paths, p \notin raced' PROVE p \notin raced
  BY <1>3 DEF Next, WatcherStep, PollerStep, Edit, Transfer, ReadLocal, Put, Stat, Get, Place,
         Write, DeleteRemote, RemoveLocal, Forget, AccessFails, PlaceFails, WriteBreaksOff, List, Walk, ResolveAndSync, EndPass, PickPath,
         TakeReady, SyncChangedFile, ReadEvents, UpdateWatches, Saved, LocalWrite, LocalMoveIn,
         LocalDelete, MakeDir, ServerWrite, ServerDelete, Advance, Restart, vars, Fail, Edited,
         history
<1>4. "watcher" \in Threads /\ "poller" \in Threads
  BY DEF Threads
<1>5. ASSUME ~ mode.once, ~ mode.backup, NEW p \in Paths, p \notin raced' PROVE DaemonInv(p)'
  <2>1. DaemonInv(p)
    BY <1>3, <1>5 DEF SyncInv
  <2> QED
    BY <1>1, <1>4, <1>5, <2>1, TransferDaemon, BrokenDaemon, EditDaemon, PollDaemon, WatchDaemon, RestDaemon
       DEF Next, WatcherStep, PollerStep
<1>6. ASSUME mode.once, NEW p \in Paths, p \notin raced' PROVE OnceInv(p)'
  <2>1. OnceInv(p)
    BY <1>3, <1>6 DEF SyncInv
  <2>2. At("watcher", "off")
    BY <1>1, <1>6 DEF BaseInv, ThreadsInv
  <2>3. ~ WatcherStep /\ ~ Restart
    BY <1>6, <2>2 DEF WatcherStep, Transfer, ReadLocal, Put, Stat, Get, Place, Write,
         DeleteRemote, RemoveLocal, Forget, AccessFails, TakeReady, SyncChangedFile, ReadEvents,
         UpdateWatches, At, Restart
  <2>4. CASE Advance \/ UNCHANGED vars
    <3>1. UNCHANGED <<local, server, listed, walked, thread>>
      BY <2>4 DEF Advance, vars, disk, pass
    <3> QED
      BY <2>1, <3>1, OnceSame DEF Kept, Poller
  <2> QED
    BY <1>1, <1>6, <2>1, <2>3, <2>4, TransferOnce, BrokenOnce, PollOnce, EditOnce DEF Next, PollerStep
<1> QED
  BY <1>1, <1>2, <1>5, <1>6 DEF SyncInv

\* The invariant holds in every behaviour of the daemon and of the one-shot pass
\* (code: SyncEngine, InotifyWatcher and main).
THEOREM SyncInvariance == Spec => []SyncInv
  BY SyncInit, SyncStep, PTL DEF Spec

\* Every variable keeps its type: nothing but what is known of a file, or None,
\* is ever compared (code: the dictionaries of SyncEngine, the threads of main).
THEOREM TypeCorrect == Spec => []TypeOK
<1>1. SyncInv => TypeOK
  BY DEF SyncInv, BaseInv
<1> QED
  BY <1>1, SyncInvariance, PTL

\* When the daemon is done with a path, both sides hold its last edit, whichever
\* side made it, or what a download that broke off later left of the file, whatever
\* else failed and however often the daemon was restarted (code: resolve_and_sync,
\* sync_file_to_server, sync_file_from_server).
THEOREM QuietAgree == Spec => []QuietPathsAgree
<1>1. SyncInv => QuietPathsAgree
  <2> SUFFICES ASSUME SyncInv, ~ mode.once, ~ mode.backup, NEW p \in Paths, Quiet(p), p \notin raced
               PROVE  InSync(p) /\ (local[p] # None => local[p].ver = last[p])
    BY DEF QuietPathsAgree
  <2>1. TypeOK /\ DaemonInv(p)
    BY DEF SyncInv, BaseInv
  <2>2. ~ LocalAhead(p) /\ ~ ServerAhead(p)
    BY <2>1, FileType DEF Quiet, LocalAhead, ServerAhead
  <2> QED
    BY <2>1, <2>2 DEF DaemonInv, Agreed
<1> QED
  BY <1>1, SyncInvariance, PTL

\* A one-shot pass that no edit met and in which nothing failed leaves the same
\* set of files on both sides, with and without --conflict-backup (code:
\* run_one_pass, resolve_and_sync).
THEOREM PassMirrors == Spec => []OnceMirrors
<1>1. SyncInv => OnceMirrors
  <2> SUFFICES ASSUME SyncInv, At("poller", "done"), NEW p \in Paths \ raced
               PROVE  local[p] = None <=> server[p] = None
    BY DEF OnceMirrors
  <2>1. ThreadInv("poller") /\ Watcher.pc # "done" /\ p # None
    BY SentinelAssumption DEF SyncInv, BaseInv, ThreadsInv, Threads
  <2>2. Poller.pc = "done" /\ Poller.path # p /\ p \notin Poller.todo
    BY <2>1 DEF At, Poller, ThreadInv, Transfers
  <2>3. mode.once
    BY <2>2 DEF SyncInv, BaseInv, ThreadsInv
  <2> QED
    BY <2>2, <2>3 DEF SyncInv, OnceInv, Mirrored
<1> QED
  BY <1>1, SyncInvariance, PTL
===============================================================================
