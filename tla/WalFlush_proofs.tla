---------------------------- MODULE WalFlush_proofs ----------------------------
(***************************************************************************)
(* Proofs about the flush worker, for any processes, files, faults and     *)
(* numbers of records: with several processes on one directory only stray  *)
(* records are lost; one process by itself loses none; and as long as it   *)
(* never leaves a finished stage behind, it implements WriteBack.          *)
(* LossInv, AloneInv and OrderInv are the inductive invariants.            *)
(***************************************************************************)
EXTENDS WalFlush, SequenceTheorems, WellFoundedInduction, TLAPS

-----------------------------------------------------------------------------
(* Least and greatest members.                                              *)

LEMMA Least ==
  ASSUME NEW S \in SUBSET Nat, S # {}
  PROVE  \E x \in S : \A y \in S : x <= y
<1> DEFINE R == {p \in Nat \X Nat : p[1] < p[2]}
<1>1. IsWellFoundedOn(R, Nat)
  BY NatLessThanWellFounded DEF OpToRel
<1>2. PICK x \in S : \A y \in S : ~(<<y, x>> \in R)
  <2> HIDE DEF R
  <2> QED
    BY <1>1, WFMin
<1>3. ASSUME NEW y \in S PROVE x <= y
  <2>1. <<y, x>> \in Nat \X Nat /\ <<y, x>> \notin R
    BY <1>2
  <2> QED
    BY <2>1
<1> QED
  BY <1>3

LEMMA MinOf ==
  ASSUME NEW S \in SUBSET Nat, S # {}
  PROVE  Min(S) \in S /\ \A y \in S : Min(S) <= y
BY Least DEF Min

LEMMA MaxOf ==
  ASSUME NEW k \in Nat, NEW S \in SUBSET (0..k), S # {}
  PROVE  Max(S) \in S /\ \A y \in S : y <= Max(S)
<1> DEFINE D == {d \in 0..k : k - d \in S}
<1>1. PICK y \in S : TRUE
  OBVIOUS
<1>2. D \in SUBSET Nat /\ k - y \in D
  OBVIOUS
<1>3. PICK d \in D : \A e \in D : d <= e
  <2> HIDE DEF D
  <2> QED
    BY <1>2, Least
<1>4. k - d \in S /\ d \in 0..k
  OBVIOUS
<1>5. ASSUME NEW z \in S PROVE z <= k - d
  <2>1. k - z \in D /\ z \in 0..k
    OBVIOUS
  <2>2. d <= k - z
    BY <2>1, <1>3
  <2> QED
    BY <2>1, <2>2, <1>4
<1> HIDE DEF D
<1>6. \E x \in S : \A z \in S : x >= z
  BY <1>4, <1>5
<1> QED
  BY <1>6 DEF Max

LEMMA MaxUnique ==
  ASSUME NEW S \in SUBSET Nat, NEW x \in S, \A y \in S : y <= x
  PROVE  Max(S) = x
<1>1. x \in S /\ \A y \in S : x >= y
  OBVIOUS
<1>2. Max(S) \in S /\ \A y \in S : Max(S) >= y
  BY <1>1, Zenon DEF Max
<1>3. Max(S) >= x /\ x >= Max(S) /\ Max(S) \in Nat
  BY <1>1, <1>2
<1> QED
  BY <1>3

-----------------------------------------------------------------------------
(* The invariant of any number of processes.                                *)

InHand(q) == wk[q].pc \in {"paths", "write"} \/ Rewriting(q)
OnHand(q) == Min(wk[q].plan)     \* the stage whose records those are
HasPlan(q) == InHand(q) \/ wk[q].pc = "stages"

\* Records that no file needs any more, or that are lost already.
Safe == applied \cup astray

\* Every name in use is of a rename, and every rename took a record that no
\* earlier one had: none is ever put on a file that is still there.
NamesUsed ==
  /\ \A n \in Names : stage[n] # {} => n <= renames
  /\ \A q \in Procs : /\ fd[q] \in Names => fd[q] <= renames
                      /\ \A n \in wk[q].plan : n <= renames
  /\ renames + (IF current = {} THEN 0 ELSE 1) <= Len(log)

\* What workers and late requests hold is of the log.
HeldLogged ==
  /\ \A q \in Procs :
       /\ HasPlan(q) => wk[q].plan # {}
       /\ wk[q].recs \subseteq DOMAIN log
       /\ wk[q].keep \subseteq wk[q].recs
       /\ \A c \in DOMAIN wk[q].base : wk[q].base[c] <= Len(log)
  /\ \A content \in late : \A c \in DOMAIN content : content[c] <= Len(log)

\* A worker and its stage hold the same records, but for those that are safe and
\* for strays, whatever other workers did to the stage since it was read.
HandMatchesStage ==
  \A q \in Procs : InHand(q) =>
    /\ stage[OnHand(q)] \subseteq wk[q].recs \cup Safe
    /\ wk[q].recs \subseteq stage[OnHand(q)] \cup Safe

\* What a worker does not keep for the next tick is applied or still to be done.
NothingSkipped ==
  \A q \in Procs : InHand(q) =>
    \A r \in wk[q].recs : r \in applied \cup wk[q].keep \/ PathOf[log[r]] \in wk[q].todo

\* A temp file holds nothing that is not to be kept, and what its process keeps
\* when it comes to the rename; whoever does not have it for itself, and whoever
\* shares the stage with another rewrite, keeps only strays.
RewriteSound ==
  \A q \in Procs : Rewriting(q) =>
    /\ wk[q].todo = {}
    /\ temp[OnHand(q)] = Absent \/ temp[OnHand(q)] \subseteq wk[q].keep \cup Safe
    /\ out[q] \in {"temp", "mixed"} => temp[OnHand(q)] # Absent
    /\ out[q] = "temp" /\ wk[q].pc = "rename" => temp[OnHand(q)] = wk[q].keep
    /\ out[q] = "temp" => Holders(OnHand(q)) = {q}
    /\ out[q] # "temp" => wk[q].keep \subseteq Safe
    /\ out[q] = "stage" => stage[OnHand(q)] \subseteq Safe
    /\ Rewriters(OnHand(q)) # {q} => wk[q].keep \subseteq Safe

LossInv == /\ TypeOK /\ NamesUsed /\ HeldLogged
           /\ HandMatchesStage /\ NothingSkipped /\ RewriteSound /\ OnlyStraysLost

-----------------------------------------------------------------------------
(* Types.                                                                   *)

LEMMA SnapshotType ==
  ASSUME NEW p \in Paths, NEW f \in [Cells -> 0..MaxRecords]
  PROVE  [c \in {d \in Cells : PathOf[d] = p} |-> f[c]] \in Snapshots
BY DEF Snapshots

LEMMA SnapshotValues ==
  ASSUME NEW content \in Snapshots
  PROVE  \A c \in DOMAIN content : content[c] \in Nat
<1>1. PICK p \in Paths : content \in [{d \in Cells : PathOf[d] = p} -> 0..MaxRecords]
  BY DEF Snapshots
<1> QED
  BY <1>1

LEMMA IdleType == Idle \in Worker /\ Idle.path \in Paths
<1>1. (CHOOSE p \in Paths : TRUE) \in Paths
  BY CellsAssumption DEF Paths
<1>2. ASSUME NEW p \in Paths
      PROVE  [c \in {d \in Cells : PathOf[d] = p} |-> 0] \in Snapshots
  BY BoundsAssumption DEF Snapshots
<1> QED
  BY <1>1, <1>2 DEF Idle, Worker

LEMMA IdleFields ==
  /\ Idle.pc = "idle" /\ Idle.plan = {} /\ Idle.recs = {} /\ Idle.todo = {}
  /\ Idle.keep = {}
  /\ \A c \in DOMAIN Idle.base : Idle.base[c] = 0
BY DEF Idle

LEMMA LogType ==
  ASSUME TypeOK
  PROVE  Len(log) \in Nat /\ Len(log) <= MaxRecords /\ DOMAIN log = 1..Len(log)
<1>1. log \in Seq(Cells) /\ Len(log) <= MaxRecords
  BY DEF TypeOK
<1> QED
  BY <1>1

\* The records that lie over a cell, and the newest of them.
LEMMA NewestOver ==
  ASSUME TypeOK, NEW q \in Procs, wk[q].recs \subseteq DOMAIN log,
         NEW c, \E r \in wk[q].recs : log[r] = c
  PROVE  LET over == {r \in wk[q].recs : log[r] = c}
         IN  /\ Max(over) \in over /\ Max(over) \in 1..Len(log)
             /\ \A r \in over : r <= Max(over)
<1> DEFINE over == {r \in wk[q].recs : log[r] = c}
<1>1. Len(log) \in Nat /\ DOMAIN log = 1..Len(log)
  BY LogType
<1>2. over \in SUBSET (0..Len(log)) /\ over # {} /\ over \subseteq 1..Len(log)
  BY <1>1
<1> HIDE DEF over
<1> QED
  BY <1>1, <1>2, MaxOf DEF over

LEMMA PatchedType ==
  ASSUME TypeOK, HeldLogged, NEW q \in Procs
  PROVE  /\ Patched(q) \in Snapshots
         /\ DOMAIN Patched(q) = DOMAIN wk[q].base
         /\ \A c \in DOMAIN Patched(q) : Patched(q)[c] \in 0..Len(log)
<1>1. /\ wk[q] \in Worker /\ Len(log) \in Nat /\ Len(log) <= MaxRecords
      /\ wk[q].recs \subseteq DOMAIN log
  BY DEF TypeOK, HeldLogged
<1>2. PICK p \in Paths : wk[q].base \in [{d \in Cells : PathOf[d] = p} -> 0..MaxRecords]
  BY <1>1 DEF Worker, Snapshots
<1>3. DOMAIN Patched(q) = DOMAIN wk[q].base
  BY DEF Patched
<1>4. ASSUME NEW c \in DOMAIN wk[q].base
      PROVE  Patched(q)[c] \in 0..Len(log)
  <2> DEFINE over == {r \in wk[q].recs : log[r] = c}
  <2>1. Patched(q)[c] = IF over = {} THEN wk[q].base[c] ELSE Max(over)
    BY DEF Patched
  <2>2. CASE over = {}
    BY <2>1, <2>2, <1>1, <1>2 DEF HeldLogged
  <2>3. CASE over # {}
    <3>1. Max(over) \in 1..Len(log)
      BY <2>3, <1>1, NewestOver
    <3> QED
      BY <2>1, <2>3, <3>1, <1>1
  <2> QED
    BY <2>2, <2>3
<1>5. Patched(q) \in [{d \in Cells : PathOf[d] = p} -> 0..MaxRecords]
  <2>1. DOMAIN Patched(q) = {d \in Cells : PathOf[d] = p}
    BY <1>2, <1>3
  <2>2. \A c \in DOMAIN Patched(q) : Patched(q)[c] \in 0..MaxRecords
    BY <1>1, <1>3, <1>4, BoundsAssumption
  <2>3. Patched(q) = [c \in DOMAIN Patched(q) |-> Patched(q)[c]]
    BY DEF Patched
  <2> QED
    BY <2>1, <2>2, <2>3
<1> QED
  BY <1>3, <1>4, <1>5 DEF Snapshots

LEMMA ApplyType ==
  ASSUME TypeOK, NEW content, Apply(content),
         \A c \in DOMAIN content : content[c] \in 0..Len(log)
  PROVE  server' \in [Cells -> 0..Len(log)]
BY DEF Apply, TypeOK

\* The stage a worker has in hand, or is about to take.
LEMMA OnHandType ==
  ASSUME TypeOK, HeldLogged, NEW q \in Procs, HasPlan(q)
  PROVE  /\ OnHand(q) \in wk[q].plan /\ OnHand(q) \in Names
         /\ \A n \in wk[q].plan : OnHand(q) <= n
<1>1. wk[q].plan \subseteq Names /\ wk[q].plan # {}
  BY DEF TypeOK, Worker, HeldLogged
<1> QED
  BY <1>1, MinOf DEF OnHand, Names

\* What a step does to the workers.
LEMMA BecomeFields ==
  ASSUME TypeOK, NEW q \in Procs, NEW w, Become(q, w)
  PROVE  /\ wk'[q] = w
         /\ \A p \in Procs : p # q => wk'[p] = wk[p]
         /\ w \in Worker => wk' \in [Procs -> Worker]
BY DEF Become, TypeOK

LEMMA ContinueFields ==
  ASSUME TypeOK, NEW q \in Procs, NEW n, Continue(q, n)
  PROVE  /\ wk'[q].plan = wk[q].plan \ {n}
         /\ wk'[q].pc \in {"idle", "stages"}
         /\ wk'[q].pc = "stages" <=> wk'[q].plan # {}
         /\ wk'[q].recs = {} /\ wk'[q].keep = {} /\ wk'[q].todo = {}
         /\ \A c \in DOMAIN wk'[q].base : wk'[q].base[c] = 0
         /\ \A p \in Procs : p # q => wk'[p] = wk[p]
         /\ wk' \in [Procs -> Worker]
<1> DEFINE rest == wk[q].plan \ {n}
           w == [Idle EXCEPT !.plan = rest,
                             !.pc = IF rest = {} THEN "idle" ELSE "stages"]
<1>1. Become(q, w)
  BY DEF Continue
<1>2. wk[q].plan \subseteq Names
  BY SMTT(60) DEF TypeOK, Worker
<1>3. w \in Worker
  BY <1>2, IdleType DEF Worker
<1>4. /\ w.plan = rest /\ w.pc = (IF rest = {} THEN "idle" ELSE "stages")
      /\ w.recs = Idle.recs /\ w.keep = Idle.keep /\ w.todo = Idle.todo
      /\ w.base = Idle.base
  BY IdleType DEF Worker
<1> HIDE DEF w
<1> QED
  BY <1>1, <1>3, <1>4, BecomeFields, IdleFields

LEMMA ThroughFields ==
  ASSUME TypeOK, NEW q \in Procs, NEW p \in Paths, NEW kept \in SUBSET wk[q].recs,
         Through(q, p, kept)
  PROVE  /\ wk'[q].plan = wk[q].plan /\ wk'[q].recs = wk[q].recs
         /\ wk'[q].pc = "paths"
         /\ wk'[q].todo = wk[q].todo \ {p}
         /\ \A c \in DOMAIN wk'[q].base : wk'[q].base[c] = 0
         /\ wk'[q].keep = wk[q].keep \cup kept
         /\ \A o \in Procs : o # q => wk'[o] = wk[o]
         /\ wk' \in [Procs -> Worker]
<1> DEFINE w == [wk[q] EXCEPT !.pc = "paths", !.todo = @ \ {p}, !.keep = @ \cup kept,
                              !.path = Idle.path, !.base = Idle.base]
<1>1. Become(q, w)
  BY DEF Through
<1>2. wk[q] \in Worker /\ Idle.path \in Paths /\ Idle.base \in Snapshots
  BY IdleType DEF TypeOK, Worker
<1>3. /\ w \in Worker /\ w.plan = wk[q].plan /\ w.recs = wk[q].recs /\ w.pc = "paths"
      /\ w.todo = wk[q].todo \ {p} /\ w.base = Idle.base
      /\ w.keep = wk[q].keep \cup kept
  BY <1>2 DEF Worker
<1> HIDE DEF w
<1> QED
  BY <1>1, <1>3, BecomeFields, IdleFields

LEMMA DeferredFields ==
  ASSUME TypeOK, NEW q \in Procs, NEW p \in Paths, Deferred(q, p)
  PROVE  /\ wk'[q].plan = wk[q].plan /\ wk'[q].recs = wk[q].recs
         /\ wk'[q].pc = "paths"
         /\ wk'[q].todo = wk[q].todo \ {p}
         /\ \A c \in DOMAIN wk'[q].base : wk'[q].base[c] = 0
         /\ wk'[q].keep = wk[q].keep \cup {r \in wk[q].recs : PathOf[log[r]] = p}
         /\ \A o \in Procs : o # q => wk'[o] = wk[o]
         /\ wk' \in [Procs -> Worker]
<1> DEFINE kept == {r \in wk[q].recs : PathOf[log[r]] = p}
<1>1. Through(q, p, kept) /\ kept \in SUBSET wk[q].recs
  BY DEF Deferred, Patches
<1> HIDE DEF kept
<1>2. /\ wk'[q].plan = wk[q].plan /\ wk'[q].recs = wk[q].recs
      /\ wk'[q].pc = "paths"
      /\ wk'[q].todo = wk[q].todo \ {p}
      /\ \A c \in DOMAIN wk'[q].base : wk'[q].base[c] = 0
      /\ wk'[q].keep = wk[q].keep \cup kept
      /\ \A o \in Procs : o # q => wk'[o] = wk[o]
      /\ wk' \in [Procs -> Worker]
  BY <1>1, ThroughFields
<1> QED
  BY <1>2 DEF kept

LEMMA FlushedFields ==
  ASSUME TypeOK, NEW q \in Procs, Flushed(q)
  PROVE  /\ wk'[q].plan = wk[q].plan /\ wk'[q].recs = wk[q].recs
         /\ wk'[q].pc = "paths"
         /\ wk'[q].todo = wk[q].todo \ {wk[q].path}
         /\ \A c \in DOMAIN wk'[q].base : wk'[q].base[c] = 0
         /\ wk'[q].keep = wk[q].keep
         /\ \A o \in Procs : o # q => wk'[o] = wk[o]
         /\ wk' \in [Procs -> Worker]
<1>1. Through(q, wk[q].path, {}) /\ wk[q].path \in Paths /\ {} \in SUBSET wk[q].recs
  BY DEF Flushed, TypeOK, Worker
<1>2. /\ wk'[q].plan = wk[q].plan /\ wk'[q].recs = wk[q].recs
      /\ wk'[q].pc = "paths"
      /\ wk'[q].todo = wk[q].todo \ {wk[q].path}
      /\ \A c \in DOMAIN wk'[q].base : wk'[q].base[c] = 0
      /\ wk'[q].keep = wk[q].keep \cup {}
      /\ \A o \in Procs : o # q => wk'[o] = wk[o]
      /\ wk' \in [Procs -> Worker]
  BY <1>1, ThroughFields
<1> QED
  BY <1>2

LEMMA ReadStageFields ==
  ASSUME TypeOK, HeldLogged, NEW q \in Procs, ReadStage(q)
  PROVE  /\ wk'[q].plan = wk[q].plan /\ wk'[q].pc = "paths"
         /\ wk'[q].recs = stage[OnHand(q)] /\ wk'[q].keep = {}
         /\ wk'[q].todo = {PathOf[log[r]] : r \in stage[OnHand(q)]}
         /\ wk'[q].base = wk[q].base
         /\ \A p \in Procs : p # q => wk'[p] = wk[p]
         /\ wk' \in [Procs -> Worker]
<1> DEFINE w == [wk[q] EXCEPT !.pc = "paths", !.recs = stage[OnHand(q)], !.keep = {},
                              !.todo = {PathOf[log[r]] : r \in stage[OnHand(q)]}]
<1>1. Become(q, w)
  BY DEF ReadStage, OnHand
<1>2. wk[q] \in Worker
  BY DEF TypeOK
<1>3. OnHand(q) \in Names
  BY OnHandType DEF ReadStage, At, HasPlan
<1>4. stage[OnHand(q)] \subseteq DOMAIN log /\ DOMAIN log \subseteq Records
  BY <1>3, LogType, BoundsAssumption DEF TypeOK, Records
<1>5. {PathOf[log[r]] : r \in stage[OnHand(q)]} \subseteq Paths
  BY <1>4, SMTT(60) DEF TypeOK, Paths
<1>6. /\ w \in Worker /\ w.plan = wk[q].plan /\ w.pc = "paths"
      /\ w.recs = stage[OnHand(q)] /\ w.keep = {}
      /\ w.todo = {PathOf[log[r]] : r \in stage[OnHand(q)]}
      /\ w.base = wk[q].base
  <2> HIDE <1>1
  <2> QED
    BY <1>2, <1>4, <1>5 DEF Worker
<1> HIDE DEF w
<1> QED
  BY <1>1, <1>6, BecomeFields

LEMMA ReadBaseFields ==
  ASSUME TypeOK, NEW q \in Procs, NEW p \in Paths, ReadBase(q, p)
  PROVE  /\ wk'[q].plan = wk[q].plan /\ wk'[q].recs = wk[q].recs
         /\ wk'[q].pc = "write" /\ wk'[q].path = p /\ wk'[q].base = Snapshot(p)
         /\ wk'[q].todo = wk[q].todo /\ wk'[q].keep = wk[q].keep
         /\ \A o \in Procs : o # q => wk'[o] = wk[o]
         /\ wk' \in [Procs -> Worker]
<1> DEFINE w == [wk[q] EXCEPT !.pc = "write", !.path = p, !.base = Snapshot(p)]
<1>1. Become(q, w)
  BY DEF ReadBase
<1>2. wk[q] \in Worker
  BY DEF TypeOK
<1>3. Snapshot(p) \in Snapshots
  <2>1. server \in [Cells -> 0..MaxRecords]
    BY LogType, BoundsAssumption DEF TypeOK
  <2> QED
    BY <2>1, SnapshotType DEF Snapshot
<1>4. /\ w \in Worker /\ w.plan = wk[q].plan /\ w.recs = wk[q].recs /\ w.pc = "write"
      /\ w.path = p /\ w.base = Snapshot(p)
      /\ w.todo = wk[q].todo /\ w.keep = wk[q].keep
  BY <1>2, <1>3 DEF Worker
<1> HIDE DEF w
<1> QED
  BY <1>1, <1>4, BecomeFields

LEMMA MoveFields ==
  ASSUME TypeOK, NEW q \in Procs, NEW to \in {"idle", "renamed", "list", "fill", "rename"},
         Become(q, [wk[q] EXCEPT !.pc = to])
  PROVE  /\ wk'[q].plan = wk[q].plan /\ wk'[q].recs = wk[q].recs
         /\ wk'[q].pc = to /\ wk'[q].todo = wk[q].todo /\ wk'[q].base = wk[q].base
         /\ wk'[q].keep = wk[q].keep
         /\ \A o \in Procs : o # q => wk'[o] = wk[o]
         /\ wk' \in [Procs -> Worker]
<1> DEFINE w == [wk[q] EXCEPT !.pc = to]
<1>1. wk[q] \in Worker
  BY DEF TypeOK
<1>2. /\ w \in Worker /\ w.plan = wk[q].plan /\ w.recs = wk[q].recs /\ w.pc = to
      /\ w.todo = wk[q].todo /\ w.base = wk[q].base /\ w.keep = wk[q].keep
  BY <1>1 DEF Worker
<1> HIDE DEF w
<1>3. Become(q, w)
  BY DEF w
<1> QED
  BY <1>3, <1>2, BecomeFields

LEMMA ListFields ==
  ASSUME TypeOK, NEW q \in Procs, ListStages(q)
  PROVE  /\ wk'[q].plan = {n \in Names : stage[n] # {}}
         /\ wk'[q].pc \in {"idle", "stages"}
         /\ wk'[q].pc = "stages" <=> wk'[q].plan # {}
         /\ wk'[q].recs = {} /\ wk'[q].keep = {} /\ wk'[q].todo = {}
         /\ \A c \in DOMAIN wk'[q].base : wk'[q].base[c] = 0
         /\ \A p \in Procs : p # q => wk'[p] = wk[p]
         /\ wk' \in [Procs -> Worker]
<1> DEFINE plan == {n \in Names : stage[n] # {}}
           w == [Idle EXCEPT !.plan = plan,
                             !.pc = IF plan = {} THEN "idle" ELSE "stages"]
<1>1. Become(q, w)
  BY SMTT(60) DEF ListStages
<1>2. w \in Worker
  BY IdleType DEF Worker
<1>3. /\ w.plan = plan /\ w.pc = (IF plan = {} THEN "idle" ELSE "stages")
      /\ w.recs = Idle.recs /\ w.keep = Idle.keep /\ w.todo = Idle.todo
      /\ w.base = Idle.base
  BY IdleType DEF Worker
<1> HIDE DEF w
<1> QED
  BY <1>1, <1>2, <1>3, BecomeFields, IdleFields

-----------------------------------------------------------------------------
(* Every step preserves LossInv.                                            *)

\* A rewrite does not mind that others leave theirs, that their descriptors lose
\* their file, or that strays come into a stage.
LEMMA KeepsSound ==
  ASSUME RewriteSound, Safe \subseteq Safe',
         \A p \in Procs : Rewriting(p)' =>
           /\ Rewriting(p) /\ wk'[p] = wk[p]
           /\ out'[p] = out[p] \/ (out[p] = "stage" /\ out'[p] = "none")
           /\ temp'[OnHand(p)] = temp[OnHand(p)]
           /\ stage'[OnHand(p)] \subseteq stage[OnHand(p)] \cup Safe'
  PROVE  RewriteSound'
<1> SUFFICES ASSUME NEW p \in Procs, Rewriting(p)'
             PROVE  /\ wk'[p].todo = {}
                    /\ \/ temp'[OnHand(p)'] = Absent
                       \/ temp'[OnHand(p)'] \subseteq wk'[p].keep \cup Safe'
                    /\ out'[p] \in {"temp", "mixed"} => temp'[OnHand(p)'] # Absent
                    /\ out'[p] = "temp" /\ wk'[p].pc = "rename" =>
                         temp'[OnHand(p)'] = wk'[p].keep
                    /\ out'[p] = "temp" => Holders(OnHand(p))' = {p}
                    /\ out'[p] # "temp" => wk'[p].keep \subseteq Safe'
                    /\ out'[p] = "stage" => stage'[OnHand(p)'] \subseteq Safe'
                    /\ Rewriters(OnHand(p))' # {p} => wk'[p].keep \subseteq Safe'
  BY DEF RewriteSound, Absent
<1>1. PICK n : n = OnHand(p)
  OBVIOUS
<1>2. /\ Rewriting(p) /\ wk'[p] = wk[p] /\ OnHand(p)' = n
      /\ out'[p] = out[p] \/ (out[p] = "stage" /\ out'[p] = "none")
      /\ temp'[n] = temp[n] /\ stage'[n] \subseteq stage[n] \cup Safe'
  BY <1>1 DEF OnHand
<1>3. /\ wk[p].todo = {}
      /\ temp[n] = Absent \/ temp[n] \subseteq wk[p].keep \cup Safe
      /\ out[p] \in {"temp", "mixed"} => temp[n] # Absent
      /\ out[p] = "temp" /\ wk[p].pc = "rename" => temp[n] = wk[p].keep
      /\ out[p] = "temp" => Holders(n) = {p}
      /\ out[p] # "temp" => wk[p].keep \subseteq Safe
      /\ out[p] = "stage" => stage[n] \subseteq Safe
      /\ Rewriters(n) # {p} => wk[p].keep \subseteq Safe
  BY <1>1, <1>2 DEF RewriteSound
<1>4. /\ Rewriters(OnHand(p))' \subseteq Rewriters(n) /\ p \in Rewriters(OnHand(p))'
      /\ Rewriters(n) \subseteq Procs
  BY <1>2 DEF Rewriters, OnHand
<1>5. out'[p] = "temp" => Holders(OnHand(p))' = {p}
  <2>1. Holders(OnHand(p))' \subseteq Holders(n)
    BY <1>4 DEF Holders, Rewriters
  <2>2. out'[p] = "temp" => p \in Holders(OnHand(p))'
    BY <1>4 DEF Holders
  <2> QED
    BY <2>1, <2>2, <1>2, <1>3
<1>6. Rewriters(OnHand(p))' # {p} => wk[p].keep \subseteq Safe'
  BY <1>3, <1>4
<1>7. /\ \/ temp'[n] = Absent
         \/ temp'[n] \subseteq wk[p].keep \cup Safe'
      /\ out'[p] \in {"temp", "mixed"} => temp'[n] # Absent
      /\ out'[p] = "temp" /\ wk[p].pc = "rename" => temp'[n] = wk[p].keep
      /\ out'[p] # "temp" => wk[p].keep \subseteq Safe'
      /\ out'[p] = "stage" => stage'[n] \subseteq Safe'
  BY <1>2, <1>3
<1> QED
  BY <1>2, <1>3, <1>5, <1>6, <1>7

LEMMA LossInit == Init => LossInv
<1> SUFFICES ASSUME Init PROVE LossInv
  OBVIOUS
<1>1. TypeOK
  <2>1. <<>> \in Seq(Cells) /\ Len(<<>>) = 0 /\ DOMAIN <<>> = {}
    OBVIOUS
  <2>2. [q \in Procs |-> Idle] \in [Procs -> Worker]
    BY IdleType
  <2>3. [q \in Procs |-> Current] \in [Procs -> {Removed, Current} \cup Names]
    OBVIOUS
  <2>4. [c \in Cells |-> 0] \in [Cells -> 0..0]
    OBVIOUS
  <2>5. /\ [n \in Names |-> Absent] \in [Names -> (SUBSET {}) \cup {Absent}]
        /\ [q \in Procs |-> "none"] \in [Procs -> {"none", "temp", "mixed", "stage"}]
    OBVIOUS
  <2> QED
    BY <2>1, <2>2, <2>3, <2>4, <2>5, BoundsAssumption DEF Init, TypeOK
<1>2. \A q \in Procs : wk[q] = Idle
  BY DEF Init
<1>3. \A q \in Procs : /\ wk[q].pc = "idle" /\ wk[q].plan = {} /\ wk[q].recs = {}
                       /\ wk[q].keep = {}
                       /\ \A c \in DOMAIN wk[q].base : wk[q].base[c] = 0
  BY <1>2, IdleFields
<1>4. log = <<>> /\ Len(log) = 0 /\ DOMAIN log = {}
  BY DEF Init
<1>5. NamesUsed
  BY <1>3, <1>4, BoundsAssumption DEF Init, NamesUsed, Current, Names
<1>6. HeldLogged
  BY <1>3, <1>4 DEF Init, HeldLogged, HasPlan, InHand, Rewriting
<1>7. HandMatchesStage /\ NothingSkipped /\ RewriteSound
  BY <1>3 DEF HandMatchesStage, NothingSkipped, RewriteSound, InHand, Rewriting
<1>8. OnlyStraysLost
  BY <1>4 DEF OnlyStraysLost
<1> QED
  BY <1>1, <1>5, <1>6, <1>7, <1>8 DEF LossInv

\* append_entry: the record goes to the journal, or is a stray.
LEMMA AppendLoss ==
  ASSUME LossInv, NEW q \in Procs, NEW c \in Cells, AppendEntry(q, c)
  PROVE  LossInv'
<1> DEFINE r == Len(log) + 1
<1>1. /\ TypeOK /\ NamesUsed /\ HeldLogged /\ HandMatchesStage /\ NothingSkipped
      /\ RewriteSound /\ OnlyStraysLost
  BY DEF LossInv
<1>2. /\ r <= MaxRecords /\ log' = Append(log, c)
      /\ current' = (IF fd[q] = Current THEN current \cup {r} ELSE current)
      /\ stage' = (IF fd[q] \in Names THEN [stage EXCEPT ![fd[q]] = @ \cup {r}] ELSE stage)
      /\ astray' = (IF fd[q] = Current THEN astray ELSE astray \cup {r})
      /\ UNCHANGED <<renames, fd, temp, out, wk, server, late, applied, crashes>>
  BY DEF AppendEntry, remote, rewrite
<1>3. /\ Len(log) \in Nat /\ DOMAIN log = 1..Len(log)
      /\ log' \in Seq(Cells) /\ Len(log') = r /\ DOMAIN log' = DOMAIN log \cup {r}
      /\ \A s \in DOMAIN log : log'[s] = log[s]
  <2>1. log \in Seq(Cells)
    BY <1>1 DEF TypeOK
  <2>2. log' \in Seq(Cells) /\ Len(log') = r /\ \A s \in 1..Len(log) : log'[s] = log[s]
    BY <2>1, <1>2, AppendProperties
  <2> QED
    BY <2>1, <2>2
<1>4. stage' \in [Names -> SUBSET DOMAIN log']
  BY <1>1, <1>2, <1>3 DEF TypeOK
<1>5. \A n \in Names : /\ stage[n] \subseteq stage'[n]
                       /\ stage'[n] \subseteq stage[n] \cup astray'
                       /\ stage'[n] # {} => stage[n] # {} \/ fd[q] = n
  <2>1. fd[q] \in Names => fd[q] # Current
    BY BoundsAssumption DEF Names, Current
  <2> QED
    BY <1>1, <1>2, <2>1 DEF TypeOK
<1>6. TypeOK'
  <2>1. 0..Len(log) \subseteq 0..Len(log')
    BY <1>3
  <2>2. server' \in [Cells -> 0..Len(log')]
    BY <1>1, <1>2, <2>1 DEF TypeOK
  <2>3. current' \subseteq DOMAIN log' /\ applied' \subseteq DOMAIN log' /\ astray' \subseteq DOMAIN log'
    BY <1>1, <1>2, <1>3 DEF TypeOK
  <2>4. /\ temp' \in [Names -> (SUBSET DOMAIN log') \cup {Absent}]
        /\ renames' \in 0..Len(log')
    BY <1>1, <1>2, <1>3, <2>1 DEF TypeOK
  <2> QED
    BY <1>1, <1>2, <1>3, <1>4, <2>2, <2>3, <2>4 DEF TypeOK
<1>7. NamesUsed'
  <2>1. \A n \in Names : stage'[n] # {} => n <= renames
    BY <1>1, <1>5 DEF NamesUsed
  <2>2. renames \in Nat /\ renames <= Len(log)
    BY <1>1, <1>3, BoundsAssumption DEF NamesUsed, TypeOK
  <2>3. renames' + (IF current' = {} THEN 0 ELSE 1) <= Len(log')
    <3>1. CASE fd[q] = Current
      BY <3>1, <1>2, <1>3, <2>2
    <3>2. CASE fd[q] # Current
      BY <3>2, <1>1, <1>2, <1>3, <2>2 DEF NamesUsed
    <3> QED
      BY <3>1, <3>2
  <2> QED
    BY <1>1, <1>2, <2>1, <2>3 DEF NamesUsed
<1>8. HeldLogged'
  <2>1. ASSUME NEW p \in Procs
        PROVE  /\ HasPlan(p)' => wk'[p].plan # {}
               /\ wk'[p].recs \subseteq DOMAIN log'
               /\ wk'[p].keep \subseteq wk'[p].recs
               /\ \A d \in DOMAIN wk'[p].base : wk'[p].base[d] <= Len(log')
    <3>1. wk[p] \in Worker /\ wk'[p] = wk[p]
      BY <1>1, <1>2 DEF TypeOK
    <3>2. \A d \in DOMAIN wk[p].base : wk[p].base[d] \in Nat
      BY <3>1, SnapshotValues DEF Worker
    <3> QED
      BY <3>1, <3>2, <1>1, <1>3 DEF HeldLogged, HasPlan, InHand, Rewriting
  <2>2. ASSUME NEW content \in late, NEW d \in DOMAIN content
        PROVE  content[d] <= Len(log')
    <3>1. content \in Snapshots
      BY <1>1 DEF TypeOK
    <3>2. content[d] \in Nat
      BY <3>1, SnapshotValues
    <3> QED
      BY <3>2, <1>1, <1>3 DEF HeldLogged
  <2> QED
    BY <2>1, <2>2, <1>2 DEF HeldLogged
<1>9. ASSUME NEW p \in Procs, InHand(p)
      PROVE  /\ OnHand(p) \in Names /\ InHand(p)' /\ OnHand(p)' = OnHand(p)
             /\ \A s \in wk[p].recs : s \in DOMAIN log
  <2>1. OnHand(p) \in Names
    BY <1>1, <1>9, OnHandType DEF HasPlan
  <2> QED
    BY <2>1, <1>1, <1>2, <1>9 DEF InHand, Rewriting, OnHand, HeldLogged
<1>10. Safe \subseteq Safe'
  BY <1>2 DEF Safe
<1>11. HandMatchesStage'
  <2>1. \A p \in Procs : InHand(p)' => InHand(p)
    BY <1>2 DEF InHand, Rewriting
  <2> SUFFICES ASSUME NEW p \in Procs, InHand(p)
               PROVE  /\ stage'[OnHand(p)] \subseteq wk[p].recs \cup Safe'
                      /\ wk[p].recs \subseteq stage'[OnHand(p)] \cup Safe'
    BY <1>2, <1>9, <2>1 DEF HandMatchesStage
  <2>2. stage'[OnHand(p)] \subseteq stage[OnHand(p)] \cup Safe'
    BY <1>5, <1>9 DEF Safe
  <2> QED
    BY <1>1, <1>5, <1>9, <1>10, <2>2 DEF HandMatchesStage
<1>12. NothingSkipped'
  <2>1. \A p \in Procs : InHand(p)' => InHand(p)
    BY <1>2 DEF InHand, Rewriting
  <2> QED
    BY <1>1, <1>2, <1>3, <1>9, <2>1 DEF NothingSkipped
<1>13. OnlyStraysLost'
  <2>1. OnFile \subseteq OnFile'
    BY <1>2, <1>5 DEF OnFile
  <2>2. r \in OnFile' \cup astray'
    BY <1>2 DEF OnFile
  <2> QED
    BY <2>1, <2>2, <1>1, <1>2, <1>3 DEF OnlyStraysLost
<1>14. RewriteSound'
  <2>1. ASSUME NEW p \in Procs, Rewriting(p)'
        PROVE  /\ Rewriting(p) /\ wk'[p] = wk[p] /\ out'[p] = out[p]
               /\ temp'[OnHand(p)] = temp[OnHand(p)]
               /\ stage'[OnHand(p)] \subseteq stage[OnHand(p)] \cup Safe'
    <3>1. Rewriting(p) /\ InHand(p)
      BY <2>1, <1>2 DEF Rewriting, InHand
    <3>2. OnHand(p) \in Names
      BY <3>1, <1>9
    <3>3. stage'[OnHand(p)] \subseteq stage[OnHand(p)] \cup Safe'
      BY <3>2, <1>5 DEF Safe
    <3> QED
      BY <3>1, <3>3, <1>2
  <2> QED
    BY <2>1, <1>1, <1>10, KeepsSound
<1> QED
  BY <1>6, <1>7, <1>8, <1>11, <1>12, <1>13, <1>14 DEF LossInv

\* A step of worker q that leaves log, journal and stages alone, and after which
\* it is rewriting none.
LocalStep(q) ==
  /\ UNCHANGED <<log, current, stage, renames, astray>>
  /\ temp' \in [Names -> (SUBSET DOMAIN log) \cup {Absent}]
  /\ out' \in [Procs -> {"none", "temp", "mixed", "stage"}]
  /\ \A p \in Procs : p # q => out'[p] = out[p]
  /\ \A n \in Names : Rewriters(n) \subseteq {q} \/ temp'[n] = temp[n]
  /\ wk'[q].pc \notin {"fill", "rename"}
  /\ fd' \in [Procs -> {Removed, Current} \cup Names]
  /\ \A p \in Procs : fd'[p] = fd[p] \/ fd'[p] = Current
  /\ server' \in [Cells -> 0..Len(log)]
  /\ late' \subseteq Snapshots
  /\ \A content \in late' : \A c \in DOMAIN content : content[c] <= Len(log)
  /\ applied \subseteq applied' /\ applied' \subseteq DOMAIN log
  /\ crashes' \in 0..MaxCrashes
  /\ wk' \in [Procs -> Worker]
  /\ \A p \in Procs : p # q => wk'[p] = wk[p]

\* What is left to show of such a step: worker q itself satisfies the invariant.
WorkerHolds(q) ==
  /\ \A m \in wk[q].plan : m <= renames
  /\ HasPlan(q) => wk[q].plan # {}
  /\ wk[q].recs \subseteq DOMAIN log
  /\ wk[q].keep \subseteq wk[q].recs
  /\ \A c \in DOMAIN wk[q].base : wk[q].base[c] <= Len(log)
  /\ InHand(q) =>
       /\ stage[OnHand(q)] \subseteq wk[q].recs \cup Safe
       /\ wk[q].recs \subseteq stage[OnHand(q)] \cup Safe
       /\ \A r \in wk[q].recs :
            r \in applied \cup wk[q].keep \/ PathOf[log[r]] \in wk[q].todo

LEMMA HoldsNow ==
  ASSUME LossInv, NEW q \in Procs
  PROVE  WorkerHolds(q)
BY DEF LossInv, NamesUsed, HeldLogged, HandMatchesStage, NothingSkipped, WorkerHolds

LEMMA LocalLoss ==
  ASSUME LossInv, NEW q \in Procs, LocalStep(q), WorkerHolds(q)'
  PROVE  LossInv'
<1>1. /\ UNCHANGED <<log, current, stage, renames, astray>>
      /\ applied \subseteq applied' /\ applied' \subseteq DOMAIN log
      /\ \A p \in Procs : p # q => wk'[p] = wk[p]
  BY DEF LocalStep
<1>2. TypeOK'
  BY <1>1 DEF LossInv, TypeOK, LocalStep
<1>3. ASSUME NEW p \in Procs PROVE WorkerHolds(p)'
  <2>1. CASE p = q
    BY <2>1
  <2>2. CASE p # q
    <3>1. WorkerHolds(p) /\ wk'[p] = wk[p]
      BY <2>2, <1>1, HoldsNow
    <3> QED
      BY <3>1, <1>1 DEF WorkerHolds, HasPlan, InHand, Rewriting, OnHand, Safe
  <2> QED
    BY <2>1, <2>2
<1>4. NamesUsed'
  <2>1. \A p \in Procs : fd'[p] \in Names => fd'[p] <= renames
    BY BoundsAssumption DEF LossInv, NamesUsed, LocalStep, Names, Current
  <2> QED
    BY <1>1, <1>3, <2>1 DEF LossInv, NamesUsed, WorkerHolds
<1>5. HeldLogged'
  BY <1>1, <1>3 DEF LocalStep, HeldLogged, WorkerHolds
<1>6. HandMatchesStage' /\ NothingSkipped'
  BY <1>3 DEF HandMatchesStage, NothingSkipped, WorkerHolds
<1>7. OnlyStraysLost'
  BY <1>1 DEF LossInv, OnlyStraysLost, OnFile
<1>8. RewriteSound'
  <2>1. ASSUME NEW p \in Procs, Rewriting(p)'
        PROVE  /\ Rewriting(p) /\ wk'[p] = wk[p] /\ out'[p] = out[p]
               /\ temp'[OnHand(p)] = temp[OnHand(p)]
               /\ stage'[OnHand(p)] = stage[OnHand(p)]
    <3>1. p # q
      BY <2>1 DEF LocalStep, Rewriting
    <3>2. wk'[p] = wk[p] /\ Rewriting(p) /\ out'[p] = out[p]
      BY <3>1, <2>1, <1>1 DEF LocalStep, Rewriting
    <3>3. OnHand(p) \in Names
      BY <3>2, OnHandType DEF LossInv, HasPlan, InHand
    <3>4. p \in Rewriters(OnHand(p))
      BY <3>2 DEF Rewriters, OnHand
    <3>5. temp'[OnHand(p)] = temp[OnHand(p)]
      BY <3>1, <3>3, <3>4 DEF LocalStep
    <3> QED
      BY <3>2, <3>5, <1>1
  <2>2. Safe \subseteq Safe' /\ RewriteSound
    BY <1>1 DEF Safe, LossInv
  <2> QED
    BY <2>1, <2>2, KeepsSound
<1> QED
  BY <1>2, <1>4, <1>5, <1>6, <1>7, <1>8 DEF LossInv

\* Most of these steps are the worker's alone.
OnlyWorker(q) ==
  /\ UNCHANGED <<log, files, remote, astray, crashes>>
  /\ wk' \in [Procs -> Worker]
  /\ \A p \in Procs : p # q => wk'[p] = wk[p]
  /\ wk'[q].pc \notin {"fill", "rename"}

LEMMA OnlyWorkerIsLocal ==
  ASSUME LossInv, NEW q \in Procs, OnlyWorker(q)
  PROVE  LocalStep(q)
BY DEF LossInv, TypeOK, HeldLogged, OnlyWorker, LocalStep, files, remote, rewrite

\* A worker that starts afresh holds nothing.
LEMMA FreshHolds ==
  ASSUME TypeOK, UNCHANGED log, NEW q \in Procs, wk'[q].pc \in {"idle", "stages"},
         wk'[q].pc = "stages" => wk'[q].plan # {},
         \A m \in wk'[q].plan : m <= renames',
         wk'[q].recs = {}, wk'[q].keep = {},
         \A c \in DOMAIN wk'[q].base : wk'[q].base[c] = 0
  PROVE  WorkerHolds(q)'
<1>1. Len(log) >= 0
  BY LogType
<1> QED
  BY <1>1 DEF WorkerHolds, HasPlan, InHand, Rewriting

\* A worker that gives up, or is killed, leaves its rewrite where it is.
LEMMA LeavesHolds ==
  ASSUME LossInv, NEW q \in Procs, LeaveRewrite(q), Become(q, Idle),
         UNCHANGED <<log, current, stage, renames, server, applied, astray>>,
         fd' = fd \/ fd' = [fd EXCEPT ![q] = Current],
         late' \subseteq late \cup {Patched(q)}, crashes' \in 0..MaxCrashes
  PROVE  LocalStep(q) /\ WorkerHolds(q)'
<1>1. TypeOK /\ HeldLogged
  BY DEF LossInv
<1>2. /\ wk'[q] = Idle /\ (\A o \in Procs : o # q => wk'[o] = wk[o])
      /\ wk' \in [Procs -> Worker]
  BY <1>1, BecomeFields, IdleType
<1>3. /\ late' \subseteq Snapshots
      /\ \A content \in late' : \A c \in DOMAIN content : content[c] <= Len(log)
  <2>1. Patched(q) \in Snapshots /\ late \subseteq Snapshots
    BY <1>1, PatchedType DEF TypeOK
  <2>2. \A c \in DOMAIN Patched(q) : Patched(q)[c] <= Len(log)
    BY <1>1, PatchedType, LogType
  <2> QED
    BY <2>1, <2>2, <1>1 DEF HeldLogged
<1>4. WorkerHolds(q)'
  BY <1>1, <1>2, FreshHolds, IdleFields
<1>5. /\ temp' \in [Names -> (SUBSET DOMAIN log) \cup {Absent}]
      /\ out' \in [Procs -> {"none", "temp", "mixed", "stage"}]
      /\ \A p \in Procs : p # q => out'[p] = out[p]
      /\ \A n \in Names : Rewriters(n) \subseteq {q} \/ temp'[n] = temp[n]
  BY <1>1 DEF LeaveRewrite, TypeOK
<1>6. /\ fd' \in [Procs -> {Removed, Current} \cup Names]
      /\ \A p \in Procs : fd'[p] = fd[p] \/ fd'[p] = Current
      /\ server \in [Cells -> 0..Len(log)] /\ applied \subseteq DOMAIN log
  BY <1>1 DEF TypeOK
<1>7. LocalStep(q)
  BY <1>2, <1>3, <1>5, <1>6, IdleFields DEF LocalStep
<1> QED
  BY <1>4, <1>7

LEMMA WorkerStepLoss ==
  ASSUME LossInv, NEW q \in Procs,
         \/ RotateNothing(q) \/ RotateReopen(q) \/ ListStages(q) \/ ReadStage(q)
         \/ \E p \in Paths : ReadBase(q, p) \/ ReadBaseFails(q, p)
         \/ RemoveStageFails(q) \/ RewriteFails(q)
  PROVE  LossInv'
<1>1. TypeOK /\ HeldLogged /\ NamesUsed /\ WorkerHolds(q)
  BY HoldsNow DEF LossInv
<1>2. CASE RotateNothing(q)
  <2>1. wk[q].pc = "idle" /\ UNCHANGED <<log, files, remote, astray, crashes>>
    BY <1>2 DEF RotateNothing, At
  <2>2. /\ wk'[q].plan = wk[q].plan /\ wk'[q].recs = wk[q].recs
        /\ wk'[q].pc = "list" /\ wk'[q].base = wk[q].base
        /\ wk'[q].keep = wk[q].keep
        /\ \A o \in Procs : o # q => wk'[o] = wk[o]
        /\ wk' \in [Procs -> Worker]
    BY <1>1, <1>2, MoveFields DEF RotateNothing
  <2>3. WorkerHolds(q)'
    BY <1>1, <2>1, <2>2 DEF WorkerHolds, HasPlan, InHand, Rewriting, files
  <2> QED
    BY <2>1, <2>2, <2>3, OnlyWorkerIsLocal, LocalLoss DEF OnlyWorker
<1>3. CASE RotateReopen(q)
  <2>1. /\ UNCHANGED <<log, current, stage, renames, rewrite, remote, astray, crashes>>
        /\ fd' = [fd EXCEPT ![q] = Current] \/ UNCHANGED fd
    BY <1>3 DEF RotateReopen, At
  <2>2. /\ wk'[q].plan = wk[q].plan /\ wk'[q].recs = wk[q].recs
        /\ wk'[q].pc = "list" /\ wk'[q].base = wk[q].base
        /\ wk'[q].keep = wk[q].keep
        /\ \A o \in Procs : o # q => wk'[o] = wk[o]
        /\ wk' \in [Procs -> Worker]
    BY <1>1, <1>3, MoveFields DEF RotateReopen
  <2>3. WorkerHolds(q)'
    BY <1>1, <2>1, <2>2 DEF WorkerHolds, HasPlan, InHand, Rewriting
  <2>4. LocalStep(q)
    BY <1>1, <2>1, <2>2 DEF TypeOK, HeldLogged, LocalStep, remote, rewrite
  <2> QED
    BY <2>3, <2>4, LocalLoss
<1>4. CASE ListStages(q)
  <2>1. UNCHANGED <<log, files, remote, astray, crashes>>
    BY <1>4 DEF ListStages
  <2>2. /\ wk'[q].plan = {n \in Names : stage[n] # {}}
        /\ wk'[q].pc \in {"idle", "stages"}
        /\ wk'[q].pc = "stages" <=> wk'[q].plan # {}
        /\ wk'[q].recs = {} /\ wk'[q].keep = {}
        /\ \A c \in DOMAIN wk'[q].base : wk'[q].base[c] = 0
        /\ \A p \in Procs : p # q => wk'[p] = wk[p]
        /\ wk' \in [Procs -> Worker]
    BY <1>1, <1>4, ListFields
  <2>3. WorkerHolds(q)'
    BY <1>1, <2>1, <2>2, FreshHolds DEF NamesUsed, files
  <2> QED
    BY <2>1, <2>2, <2>3, OnlyWorkerIsLocal, LocalLoss DEF OnlyWorker
<1>5. CASE ReadStage(q)
  <2>1. UNCHANGED <<log, files, remote, astray, crashes>> /\ wk[q].pc = "stages"
    BY <1>5 DEF ReadStage, At
  <2>2. /\ wk'[q].plan = wk[q].plan /\ wk'[q].pc = "paths"
        /\ wk'[q].recs = stage[OnHand(q)] /\ wk'[q].keep = {}
        /\ wk'[q].todo = {PathOf[log[r]] : r \in stage[OnHand(q)]}
        /\ wk'[q].base = wk[q].base
        /\ \A p \in Procs : p # q => wk'[p] = wk[p]
        /\ wk' \in [Procs -> Worker]
    BY <1>1, <1>5, ReadStageFields
  <2>3. /\ OnHand(q) \in Names /\ stage[OnHand(q)] \subseteq DOMAIN log
        /\ OnHand(q)' = OnHand(q)
    BY <1>1, <2>1, <2>2, OnHandType DEF TypeOK, HasPlan, OnHand
  <2>4. WorkerHolds(q)'
    BY <1>1, <2>1, <2>2, <2>3 DEF WorkerHolds, HasPlan, InHand, files
  <2> QED
    BY <2>1, <2>2, <2>4, OnlyWorkerIsLocal, LocalLoss DEF OnlyWorker
<1>6. ASSUME NEW p \in Paths, ReadBase(q, p) PROVE LossInv'
  <2>1. UNCHANGED <<log, files, remote, astray, crashes>> /\ wk[q].pc = "paths"
    BY <1>6 DEF ReadBase, At
  <2>2. /\ wk'[q].plan = wk[q].plan /\ wk'[q].recs = wk[q].recs
        /\ wk'[q].pc = "write" /\ wk'[q].base = Snapshot(p)
        /\ wk'[q].todo = wk[q].todo /\ wk'[q].keep = wk[q].keep
        /\ \A o \in Procs : o # q => wk'[o] = wk[o]
        /\ wk' \in [Procs -> Worker]
    BY <1>1, <1>6, ReadBaseFields
  <2>3. \A c \in DOMAIN Snapshot(p) : Snapshot(p)[c] <= Len(log)
    BY <1>1, LogType DEF Snapshot, TypeOK
  <2>4. WorkerHolds(q)'
    BY <1>1, <2>1, <2>2, <2>3 DEF WorkerHolds, HasPlan, InHand, OnHand, Safe, files, remote
  <2> QED
    BY <2>1, <2>2, <2>4, OnlyWorkerIsLocal, LocalLoss DEF OnlyWorker
<1>7. ASSUME NEW p \in Paths, ReadBaseFails(q, p) PROVE LossInv'
  <2>1. UNCHANGED <<log, files, remote, astray, crashes>> /\ wk[q].pc = "paths"
    BY <1>7 DEF ReadBaseFails, At
  <2>2. /\ wk'[q].plan = wk[q].plan /\ wk'[q].recs = wk[q].recs
        /\ wk'[q].pc = "paths"
        /\ wk'[q].todo = wk[q].todo \ {p}
        /\ \A c \in DOMAIN wk'[q].base : wk'[q].base[c] = 0
        /\ wk'[q].keep = wk[q].keep \cup {r \in wk[q].recs : PathOf[log[r]] = p}
        /\ \A o \in Procs : o # q => wk'[o] = wk[o]
        /\ wk' \in [Procs -> Worker]
    BY <1>1, <1>7, DeferredFields DEF ReadBaseFails
  <2>3. Len(log) >= 0
    BY <1>1, LogType
  <2>4. WorkerHolds(q)'
    BY <1>1, <2>1, <2>2, <2>3 DEF WorkerHolds, HasPlan, InHand, OnHand, Safe, files, remote
  <2> QED
    BY <2>1, <2>2, <2>4, OnlyWorkerIsLocal, LocalLoss DEF OnlyWorker
<1>8. CASE RemoveStageFails(q)
  <2>1. /\ UNCHANGED <<log, files, remote, astray, crashes>>
        /\ Continue(q, Min(wk[q].plan))
    BY <1>8 DEF RemoveStageFails
  <2>2. /\ wk'[q].plan = wk[q].plan \ {Min(wk[q].plan)}
        /\ wk'[q].pc \in {"idle", "stages"}
        /\ wk'[q].pc = "stages" <=> wk'[q].plan # {}
        /\ wk'[q].recs = {} /\ wk'[q].keep = {}
        /\ \A c \in DOMAIN wk'[q].base : wk'[q].base[c] = 0
        /\ \A p \in Procs : p # q => wk'[p] = wk[p]
        /\ wk' \in [Procs -> Worker]
    BY <1>1, <2>1, ContinueFields
  <2>3. WorkerHolds(q)'
    BY <1>1, <2>1, <2>2, FreshHolds DEF NamesUsed, files
  <2> QED
    BY <2>1, <2>2, <2>3, OnlyWorkerIsLocal, LocalLoss DEF OnlyWorker
<1>9. CASE RewriteFails(q)
  <2>1. /\ UNCHANGED <<log, current, stage, renames, fd, remote, astray, crashes>>
        /\ LeaveRewrite(q) /\ Become(q, Idle)
    BY <1>9 DEF RewriteFails
  <2>2. LocalStep(q) /\ WorkerHolds(q)'
    BY <2>1, <1>1, LeavesHolds DEF remote, TypeOK
  <2> QED
    BY <2>2, LocalLoss
<1> QED
  BY <1>2, <1>3, <1>4, <1>5, <1>6, <1>7, <1>8, <1>9

LEMMA WriteLoss ==
  ASSUME LossInv, NEW q \in Procs, NEW p \in Paths, WriteSparse(q, p)
  PROVE  LossInv'
<1>1. TypeOK /\ HeldLogged /\ WorkerHolds(q)
  BY HoldsNow DEF LossInv
<1>2. /\ UNCHANGED <<log, files, late, astray, crashes>> /\ wk[q].pc = "write"
      /\ p = wk[q].path
      /\ applied' = applied \cup {r \in wk[q].recs : PathOf[log[r]] = p}
      /\ Apply(Patched(q)) /\ Flushed(q)
  BY DEF WriteSparse, At, Patches
<1>3. /\ wk'[q].plan = wk[q].plan /\ wk'[q].recs = wk[q].recs
      /\ wk'[q].pc = "paths"
      /\ wk'[q].todo = wk[q].todo \ {p}
      /\ \A c \in DOMAIN wk'[q].base : wk'[q].base[c] = 0
      /\ wk'[q].keep = wk[q].keep
      /\ \A o \in Procs : o # q => wk'[o] = wk[o]
      /\ wk' \in [Procs -> Worker]
  BY <1>1, <1>2, FlushedFields
<1>4. server' \in [Cells -> 0..Len(log)]
  BY <1>1, <1>2, PatchedType, ApplyType
<1>5. WorkerHolds(q)'
  <2>1. Len(log) >= 0
    BY <1>1, LogType
  <2> QED
    BY <2>1, <1>1, <1>2, <1>3 DEF WorkerHolds, HasPlan, InHand, OnHand, Safe, files
<1>6. LocalStep(q)
  BY <1>1, <1>2, <1>3, <1>4 DEF TypeOK, HeldLogged, LocalStep, WorkerHolds, files, rewrite
<1> QED
  BY <1>5, <1>6, LocalLoss

LEMMA WriteFailsLoss ==
  ASSUME LossInv, NEW q \in Procs, WriteSparseFails(q)
  PROVE  LossInv'
<1> DEFINE p == wk[q].path
<1>1. TypeOK /\ HeldLogged /\ WorkerHolds(q) /\ p \in Paths
  BY HoldsNow DEF LossInv, TypeOK, Worker
<1>2. /\ UNCHANGED <<log, files, astray, crashes>> /\ wk[q].pc = "write"
      /\ Deferred(q, p)
  BY DEF WriteSparseFails, At
<1>3. /\ wk'[q].plan = wk[q].plan /\ wk'[q].recs = wk[q].recs
      /\ wk'[q].pc = "paths"
      /\ wk'[q].todo = wk[q].todo \ {p}
      /\ \A c \in DOMAIN wk'[q].base : wk'[q].base[c] = 0
      /\ wk'[q].keep = wk[q].keep \cup {r \in wk[q].recs : PathOf[log[r]] = p}
      /\ \A o \in Procs : o # q => wk'[o] = wk[o]
      /\ wk' \in [Procs -> Worker]
  BY <1>1, <1>2, DeferredFields
<1>4. /\ server' \in [Cells -> 0..Len(log)]
      /\ applied \subseteq applied' /\ applied' \subseteq DOMAIN log
      /\ late' \subseteq Snapshots
      /\ \A content \in late' : \A c \in DOMAIN content : content[c] <= Len(log)
  <2> USE PatchedType, LogType
  <2>1. CASE UNCHANGED remote
    BY <2>1, <1>1 DEF TypeOK, HeldLogged, remote
  <2>2. CASE /\ Apply(Patched(q)) /\ UNCHANGED late
             /\ applied' = applied \cup Patches(q, p)
    BY <2>2, <1>1, ApplyType DEF TypeOK, HeldLogged, WorkerHolds, Patches
  <2>3. CASE late' = late \cup {Patched(q)} /\ UNCHANGED <<server, applied>>
    BY <2>3, <1>1, SMTT(60) DEF TypeOK, HeldLogged
  <2> QED
    BY <2>1, <2>2, <2>3 DEF WriteSparseFails
<1>5. WorkerHolds(q)'
  <2>1. Len(log) >= 0
    BY <1>1, LogType
  <2> QED
    BY <2>1, <1>1, <1>2, <1>3, <1>4 DEF WorkerHolds, HasPlan, InHand, OnHand, Safe, files
<1>6. LocalStep(q)
  BY <1>1, <1>2, <1>3, <1>4 DEF TypeOK, LocalStep, files, rewrite
<1> QED
  BY <1>5, <1>6, LocalLoss

\* A kill forgets what the worker held, which its stage still has.
LEMMA RestartLoss ==
  ASSUME LossInv, NEW q \in Procs, Restart(q)
  PROVE  LossInv'
<1>1. crashes' \in 0..MaxCrashes
  BY BoundsAssumption DEF LossInv, TypeOK, Restart
<1>2. LocalStep(q) /\ WorkerHolds(q)'
  BY <1>1, LeavesHolds DEF Restart
<1> QED
  BY <1>2, LocalLoss

LEMMA ApplyLateLoss ==
  ASSUME LossInv, NEW content \in late, ApplyLate(content)
  PROVE  LossInv'
<1>1. TypeOK /\ HeldLogged
  BY DEF LossInv
<1>2. /\ UNCHANGED <<log, files, wk, applied, astray, crashes>>
      /\ Apply(content) /\ late' \subseteq late
  BY DEF ApplyLate
<1>3. \A c \in DOMAIN content : content[c] \in 0..Len(log)
  <2>1. content \in Snapshots
    BY <1>1 DEF TypeOK
  <2> QED
    BY <2>1, <1>1, SnapshotValues, LogType DEF HeldLogged
<1>4. server' \in [Cells -> 0..Len(log)]
  BY <1>1, <1>2, <1>3, ApplyType
<1>5. TypeOK' /\ HeldLogged'
  BY <1>1, <1>2, <1>4 DEF TypeOK, HeldLogged, HasPlan, InHand, Rewriting, files, rewrite
<1>6. RewriteSound'
  <2>1. RewriteSound /\ Safe \subseteq Safe'
    BY <1>2 DEF LossInv, Safe
  <2> QED
    BY <2>1, <1>2, KeepsSound DEF files, rewrite, Rewriting
<1> QED
  BY <1>2, <1>5, <1>6 DEF LossInv, NamesUsed, HandMatchesStage, NothingSkipped,
    OnlyStraysLost, OnFile, InHand, Rewriting, OnHand, Safe, files

\* The rename takes a name that nobody has in hand.
LEMMA RenameLoss ==
  ASSUME LossInv, NEW q \in Procs, RotateRename(q)
  PROVE  LossInv'
<1> DEFINE new == renames + 1
<1>1. /\ TypeOK /\ NamesUsed /\ HeldLogged /\ HandMatchesStage /\ NothingSkipped
      /\ RewriteSound /\ OnlyStraysLost
  BY DEF LossInv
<1>2. /\ current # {} /\ current' = {} /\ renames' = new
      /\ stage' = [stage EXCEPT ![new] = current]
      /\ fd' = [p \in Procs |-> IF fd[p] = Current THEN new ELSE fd[p]]
      /\ UNCHANGED <<log, temp, out, server, late, applied, astray, crashes>>
      /\ wk[q].pc = "idle"
  BY DEF RotateRename, At, remote, rewrite
<1>3. renames \in Nat /\ new \in Names /\ new <= Len(log)
  BY <1>1, <1>2, LogType, BoundsAssumption DEF TypeOK, NamesUsed, Names
<1>4. /\ wk'[q].plan = wk[q].plan /\ wk'[q].recs = wk[q].recs
      /\ wk'[q].pc = "renamed" /\ wk'[q].base = wk[q].base
      /\ wk'[q].keep = wk[q].keep
      /\ \A o \in Procs : o # q => wk'[o] = wk[o]
      /\ wk' \in [Procs -> Worker]
  BY <1>1, MoveFields DEF RotateRename
<1>5. /\ stage[new] = {} /\ stage'[new] = current
      /\ \A n \in Names : n # new => stage'[n] = stage[n]
      /\ stage' \in [Names -> SUBSET DOMAIN log]
  BY <1>1, <1>2, <1>3, SMTT(60) DEF TypeOK, NamesUsed
<1>6. fd' \in [Procs -> {Removed, Current} \cup Names]
  BY <1>1, <1>2, <1>3 DEF TypeOK
<1>7. TypeOK'
  <2>1. renames' \in 0..Len(log)
    BY <1>1, <1>2, <1>3, LogType DEF Names
  <2> QED
    BY <1>1, <1>2, <1>4, <1>5, <1>6, <2>1 DEF TypeOK
<1>8. NamesUsed'
  <2>1. \A n \in Names : stage'[n] # {} => n <= new
    <3>1. \A n \in Names : stage[n] # {} => n <= renames
      BY <1>1 DEF NamesUsed
    <3> QED
      BY <3>1, <1>3, <1>5 DEF Names
  <2>2. ASSUME NEW p \in Procs
        PROVE  /\ fd'[p] \in Names => fd'[p] <= new
               /\ \A n \in wk'[p].plan : n <= new
    <3>1. wk[p].plan \subseteq Names
      BY <1>1 DEF TypeOK, Worker
    <3>2. wk'[p].plan = wk[p].plan
      BY <1>4
    <3>3. \A n \in wk[p].plan : n <= renames
      BY <1>1 DEF NamesUsed
    <3>4. fd[p] \in Names => fd[p] <= renames
      BY <1>1 DEF NamesUsed
    <3> QED
      BY <3>1, <3>2, <3>3, <3>4, <1>2, <1>3 DEF Names
  <2> QED
    BY <2>1, <2>2, <1>2, <1>3 DEF NamesUsed
<1>9. HeldLogged'
  <2>1. \A p \in Procs : /\ wk'[p].plan = wk[p].plan /\ wk'[p].recs = wk[p].recs
                         /\ wk'[p].keep = wk[p].keep /\ wk'[p].base = wk[p].base
                         /\ HasPlan(p)' => HasPlan(p)
    BY <1>4 DEF HasPlan, InHand, Rewriting
  <2> QED
    BY <2>1, <1>1, <1>2 DEF HeldLogged
<1>10. ASSUME NEW p \in Procs, InHand(p)'
       PROVE  /\ InHand(p) /\ wk'[p] = wk[p] /\ OnHand(p)' = OnHand(p)
              /\ stage'[OnHand(p)] = stage[OnHand(p)]
  <2>1. InHand(p) /\ wk'[p] = wk[p]
    BY <1>4, <1>10 DEF InHand, Rewriting
  <2>2. OnHand(p) \in wk[p].plan /\ OnHand(p) \in Names
    BY <2>1, <1>1, OnHandType DEF HasPlan
  <2>3. OnHand(p) <= renames
    BY <2>2, <1>1 DEF NamesUsed
  <2>4. OnHand(p) # new
    BY <2>2, <2>3, <1>3 DEF Names
  <2> QED
    BY <2>1, <2>2, <2>4, <1>5 DEF OnHand
<1>11. HandMatchesStage' /\ NothingSkipped'
  BY <1>1, <1>2, <1>10 DEF HandMatchesStage, NothingSkipped, Safe
<1>12. OnlyStraysLost'
  <2>1. OnFile \subseteq OnFile'
    BY <1>2, <1>3, <1>5 DEF OnFile
  <2> QED
    BY <2>1, <1>1, <1>2 DEF OnlyStraysLost
<1>13. RewriteSound'
  <2>1. Safe \subseteq Safe'
    BY <1>2 DEF Safe
  <2>2. \A p \in Procs : Rewriting(p)' => InHand(p)' /\ wk'[p].pc \in {"fill", "rename"}
    BY DEF InHand, Rewriting
  <2>3. \A p \in Procs : Rewriting(p)' => Rewriting(p)
    BY <1>10, <2>2 DEF Rewriting
  <2> QED
    BY <2>1, <2>2, <2>3, <1>1, <1>2, <1>10, KeepsSound
<1> QED
  BY <1>7, <1>8, <1>9, <1>11, <1>12, <1>13 DEF LossInv

\* A stage is replaced by what is kept of it: every record that goes is applied
\* or a stray.
Replace(q, n, kept) ==
  /\ UNCHANGED <<log, current, renames, remote, crashes>>
  /\ stage' = [stage EXCEPT ![n] = kept]
  /\ temp' \in [Names -> (SUBSET DOMAIN log) \cup {Absent}]
  /\ out' \in [Procs -> {"none", "temp", "mixed", "stage"}]
  /\ Orphan(n)
  /\ astray \subseteq astray' /\ astray' \subseteq DOMAIN log
  /\ wk' \in [Procs -> Worker]
  /\ \A p \in Procs : p # q => wk'[p] = wk[p]
  /\ wk'[q].pc \in {"idle", "stages"}
  /\ wk'[q].pc = "stages" => wk'[q].plan # {}
  /\ wk'[q].plan \subseteq wk[q].plan /\ wk'[q].recs = {} /\ wk'[q].keep = {}
  /\ \A c \in DOMAIN wk'[q].base : wk'[q].base[c] = 0

LEMMA ReplaceLoss ==
  ASSUME LossInv, NEW q \in Procs, NEW n \in Names, NEW kept \in SUBSET (DOMAIN log),
         n <= renames, Replace(q, n, kept), RewriteSound',
         stage[n] \subseteq kept \cup applied \cup astray',
         kept \subseteq stage[n] \cup Safe
  PROVE  LossInv'
<1>1. TypeOK /\ NamesUsed /\ HeldLogged /\ HandMatchesStage /\ NothingSkipped /\ OnlyStraysLost
  BY DEF LossInv
<1>2. /\ UNCHANGED <<log, current, renames, applied, late, server, crashes>>
      /\ stage' = [stage EXCEPT ![n] = kept]
      /\ fd' = [p \in Procs |-> IF fd[p] = n THEN Removed ELSE fd[p]]
      /\ astray \subseteq astray' /\ astray' \subseteq DOMAIN log
      /\ Safe \subseteq Safe' /\ stage[n] \subseteq kept \cup Safe'
      /\ wk' \in [Procs -> Worker]
      /\ \A p \in Procs : p # q => wk'[p] = wk[p]
  BY DEF Replace, Orphan, remote, Safe
<1>3. /\ wk'[q].pc \in {"idle", "stages"}
      /\ wk'[q].pc = "stages" => wk'[q].plan # {}
      /\ wk'[q].plan \subseteq wk[q].plan /\ wk'[q].recs = {} /\ wk'[q].keep = {}
      /\ \A c \in DOMAIN wk'[q].base : wk'[q].base[c] = 0
  BY DEF Replace
<1>4. /\ stage' \in [Names -> SUBSET DOMAIN log] /\ stage'[n] = kept
      /\ \A m \in Names : m # n => stage'[m] = stage[m]
  BY <1>1, <1>2 DEF TypeOK
<1>5. fd' \in [Procs -> {Removed, Current} \cup Names]
  BY <1>1, <1>2 DEF TypeOK
<1>6. TypeOK'
  BY <1>1, <1>2, <1>4, <1>5 DEF TypeOK, Replace
<1>7. NamesUsed'
  <2>1. \A m \in Names : stage'[m] # {} => m <= renames
    BY <1>1, <1>4 DEF NamesUsed
  <2>2. \A p \in Procs : fd'[p] \in Names => fd'[p] <= renames
    BY <1>1, <1>2 DEF NamesUsed, Removed, Names
  <2>3. \A p \in Procs : \A m \in wk'[p].plan : m <= renames
    BY <1>1, <1>2, <1>3 DEF NamesUsed
  <2> QED
    BY <2>1, <2>2, <2>3, <1>1, <1>2 DEF NamesUsed
<1>8. HeldLogged'
  <2>1. Len(log) >= 0
    BY <1>1, LogType
  <2> QED
    BY <2>1, <1>1, <1>2, <1>3 DEF HeldLogged, HasPlan, InHand, Rewriting
<1>9. ASSUME NEW p \in Procs, InHand(p)'
      PROVE  InHand(p) /\ wk'[p] = wk[p] /\ OnHand(p)' = OnHand(p) /\ OnHand(p) \in Names
  <2>1. p # q
    BY <1>3, <1>9 DEF InHand, Rewriting
  <2>2. wk'[p] = wk[p] /\ InHand(p)
    BY <2>1, <1>2, <1>9 DEF InHand, Rewriting
  <2> QED
    BY <2>2, <1>1, OnHandType DEF HasPlan, OnHand
<1>10. HandMatchesStage'
  <2> SUFFICES ASSUME NEW p \in Procs, InHand(p)'
               PROVE  /\ stage'[OnHand(p)] \subseteq wk[p].recs \cup Safe'
                      /\ wk[p].recs \subseteq stage'[OnHand(p)] \cup Safe'
    BY <1>2, <1>9 DEF HandMatchesStage
  <2>1. /\ stage[OnHand(p)] \subseteq wk[p].recs \cup Safe
        /\ wk[p].recs \subseteq stage[OnHand(p)] \cup Safe
        /\ OnHand(p) \in Names
    BY <1>1, <1>9 DEF HandMatchesStage
  <2>2. CASE OnHand(p) = n
    BY <2>1, <2>2, <1>2, <1>4
  <2>3. CASE OnHand(p) # n
    BY <2>1, <2>3, <1>2, <1>4
  <2> QED
    BY <2>2, <2>3
<1>11. NothingSkipped'
  BY <1>1, <1>2, <1>9 DEF NothingSkipped
<1>12. OnlyStraysLost'
  <2>1. OnFile \subseteq OnFile' \cup applied \cup astray'
    BY <1>2, <1>4 DEF OnFile
  <2> QED
    BY <2>1, <1>1, <1>2 DEF OnlyStraysLost
<1> QED
  BY <1>6, <1>7, <1>8, <1>10, <1>11, <1>12 DEF LossInv

\* So it is when the file goes: nobody's rewrite is disturbed.
RemoveFileOf(q) ==
  /\ RemoveFile(OnHand(q)) /\ Continue(q, OnHand(q))
  /\ wk[q].pc \in {"stages", "paths"}
  /\ UNCHANGED <<log, current, renames, remote, crashes>>
  /\ astray \subseteq astray' /\ astray' \subseteq DOMAIN log

LEMMA RemoveFileLoss ==
  ASSUME LossInv, NEW q \in Procs, RemoveFileOf(q),
         stage[OnHand(q)] \subseteq applied \cup astray'
  PROVE  LossInv'
<1> DEFINE n == OnHand(q)
<1>1. TypeOK /\ HeldLogged /\ NamesUsed /\ RewriteSound
  BY DEF LossInv
<1>2. /\ UNCHANGED <<log, current, renames, remote, crashes, temp>>
      /\ stage' = [stage EXCEPT ![n] = {}]
      /\ out' = [p \in Procs |-> IF p \in Rewriters(n) /\ out[p] = "stage"
                                   THEN "none" ELSE out[p]]
      /\ Orphan(n) /\ Continue(q, n) /\ wk[q].pc \in {"stages", "paths"}
      /\ astray \subseteq astray' /\ astray' \subseteq DOMAIN log
  BY DEF RemoveFileOf, RemoveFile
<1>3. n \in wk[q].plan /\ n \in Names
  BY <1>1, <1>2, OnHandType DEF HasPlan, InHand
<1>4. n <= renames
  BY <1>1, <1>3 DEF NamesUsed
<1> HIDE DEF n
<1>5. /\ wk'[q].plan = wk[q].plan \ {n}
      /\ wk'[q].pc \in {"idle", "stages"}
      /\ wk'[q].pc = "stages" <=> wk'[q].plan # {}
      /\ wk'[q].recs = {} /\ wk'[q].keep = {}
      /\ \A c \in DOMAIN wk'[q].base : wk'[q].base[c] = 0
      /\ \A p \in Procs : p # q => wk'[p] = wk[p]
      /\ wk' \in [Procs -> Worker]
  BY <1>1, <1>2, ContinueFields
<1>6. Replace(q, n, {})
  <2>1. temp' \in [Names -> (SUBSET DOMAIN log) \cup {Absent}]
    BY <1>1, <1>2 DEF TypeOK
  <2>2. out' \in [Procs -> {"none", "temp", "mixed", "stage"}]
    BY <1>1, <1>2 DEF TypeOK
  <2> QED
    BY <2>1, <2>2, <1>2, <1>5 DEF Replace
<1>7. RewriteSound'
  <2>1. ASSUME NEW p \in Procs, Rewriting(p)'
        PROVE  /\ Rewriting(p) /\ wk'[p] = wk[p]
               /\ out'[p] = out[p] \/ (out[p] = "stage" /\ out'[p] = "none")
               /\ temp'[OnHand(p)] = temp[OnHand(p)]
               /\ stage'[OnHand(p)] \subseteq stage[OnHand(p)] \cup Safe'
    <3>1. wk'[p] = wk[p] /\ Rewriting(p)
      BY <2>1, <1>5 DEF Rewriting
    <3>2. OnHand(p) \in Names
      BY <3>1, <1>1, OnHandType DEF HasPlan, InHand
    <3>3. stage'[OnHand(p)] \subseteq stage[OnHand(p)]
      BY <3>2, <1>1, <1>2 DEF TypeOK
    <3> QED
      BY <3>1, <3>3, <1>2
  <2>2. Safe \subseteq Safe'
    BY <1>2 DEF Safe, remote
  <2> QED
    BY <2>1, <2>2, <1>1, KeepsSound
<1>8. stage[n] \subseteq {} \cup applied \cup astray'
  BY DEF n
<1>9. {} \in SUBSET (DOMAIN log) /\ {} \subseteq stage[n] \cup Safe
  OBVIOUS
<1> QED
  BY <1>3, <1>4, <1>6, <1>7, <1>8, <1>9, ReplaceLoss

LEMMA DropLoss ==
  ASSUME LossInv, NEW q \in Procs, DropStage(q)
  PROVE  LossInv'
<1>1. TypeOK /\ HeldLogged /\ HasPlan(q)
  BY DEF LossInv, DropStage, At, HasPlan
<1>2. /\ RemoveFile(OnHand(q)) /\ Continue(q, OnHand(q)) /\ wk[q].pc = "stages"
      /\ astray' = astray \cup stage[OnHand(q)]
      /\ UNCHANGED <<log, current, renames, remote, crashes>>
  BY DEF DropStage, OnHand, At
<1>3. astray' \subseteq DOMAIN log
  BY <1>1, <1>2, OnHandType DEF TypeOK
<1> QED
  BY <1>2, <1>3, RemoveFileLoss DEF RemoveFileOf

LEMMA RemoveLoss ==
  ASSUME LossInv, NEW q \in Procs, RemoveStage(q)
  PROVE  LossInv'
<1>1. TypeOK /\ WorkerHolds(q)
  BY HoldsNow DEF LossInv
<1>2. /\ RemoveFile(OnHand(q)) /\ Continue(q, OnHand(q))
      /\ wk[q].pc = "paths" /\ wk[q].todo = {} /\ wk[q].keep = {}
      /\ UNCHANGED <<log, current, renames, remote, astray, crashes>>
  BY DEF RemoveStage, OnHand, At
<1>3. stage[OnHand(q)] \subseteq applied \cup astray
  BY <1>1, <1>2 DEF WorkerHolds, InHand, Safe
<1> QED
  BY <1>1, <1>2, <1>3, RemoveFileLoss DEF RemoveFileOf, TypeOK

\* What the temp file holds at the rename is what is to be kept, give or take
\* strays; every other rewrite of the stage keeps only strays.
LEMMA RenameTempLoss ==
  ASSUME LossInv, NEW q \in Procs, RenameTemp(q)
  PROVE  LossInv'
<1> DEFINE n == OnHand(q)
           kept == temp[n]
<1>1. /\ TypeOK /\ HeldLogged /\ NamesUsed /\ RewriteSound /\ WorkerHolds(q)
      /\ HasPlan(q) /\ InHand(q) /\ Rewriting(q)
  BY HoldsNow DEF LossInv, RenameTemp, At, HasPlan, InHand, Rewriting
<1>2. /\ UNCHANGED <<log, current, renames, remote, astray, crashes>>
      /\ wk[q].pc = "rename" /\ kept # Absent
      /\ stage' = [stage EXCEPT ![n] = kept]
      /\ temp' = [temp EXCEPT ![n] = Absent]
      /\ out' = OutAfterRename(q, n) /\ Orphan(n) /\ Become(q, Idle)
  BY DEF RenameTemp, OnHand, At
<1>3. n \in wk[q].plan /\ n \in Names /\ q \in Rewriters(n)
  BY <1>1, OnHandType DEF Rewriters, OnHand
<1>4. n <= renames
  BY <1>1, <1>3 DEF NamesUsed
<1>5. /\ stage[n] \subseteq wk[q].recs \cup Safe
      /\ wk[q].recs \subseteq stage[n] \cup Safe
      /\ wk[q].recs \subseteq applied \cup wk[q].keep
      /\ wk[q].keep \subseteq wk[q].recs
      /\ kept \subseteq wk[q].keep \cup Safe
      /\ wk[q].keep \subseteq kept \cup Safe
      /\ kept \in SUBSET DOMAIN log
  <2>1. wk[q].todo = {} /\ kept \subseteq wk[q].keep \cup Safe
    BY <1>1, <1>2 DEF RewriteSound
  <2>2. wk[q].keep \subseteq kept \cup Safe
    BY <1>1, <1>2 DEF RewriteSound
  <2>3. kept \in SUBSET DOMAIN log
    BY <1>1, <1>2, <1>3 DEF TypeOK
  <2> QED
    BY <2>1, <2>2, <2>3, <1>1 DEF WorkerHolds
<1> HIDE DEF n, kept
<1>6. /\ wk'[q] = Idle /\ (\A p \in Procs : p # q => wk'[p] = wk[p])
      /\ wk' \in [Procs -> Worker]
  BY <1>1, <1>2, BecomeFields, IdleType
<1>7. /\ temp' \in [Names -> (SUBSET DOMAIN log) \cup {Absent}]
      /\ out' \in [Procs -> {"none", "temp", "mixed", "stage"}]
  <2>1. temp' \in [Names -> (SUBSET DOMAIN log) \cup {Absent}]
    BY <1>1, <1>2 DEF TypeOK
  <2>2. out' \in [Procs -> {"none", "temp", "mixed", "stage"}]
    BY <1>1, <1>2 DEF TypeOK, OutAfterRename
  <2> QED
    BY <2>1, <2>2
<1>8. Replace(q, n, kept)
  BY <1>1, <1>2, <1>6, <1>7, IdleFields DEF Replace, TypeOK
<1>9. Safe' = Safe
  BY <1>2 DEF Safe, remote
<1>10. ASSUME NEW p \in Procs, Rewriting(p)'
       PROVE  /\ p # q /\ Rewriting(p) /\ wk'[p] = wk[p] /\ OnHand(p)' = OnHand(p)
              /\ OnHand(p) \in Names /\ p \in Rewriters(OnHand(p))
  <2>1. p # q
    BY <1>6, <1>10, IdleFields DEF Rewriting
  <2>2. wk'[p] = wk[p] /\ Rewriting(p)
    BY <2>1, <1>6, <1>10 DEF Rewriting
  <2> QED
    BY <2>1, <2>2, <1>1, OnHandType DEF HasPlan, InHand, OnHand, Rewriters
<1>11. ASSUME NEW p \in Procs, Rewriting(p)', OnHand(p) = n
       PROVE  /\ wk[p].todo = {} /\ wk[p].keep \subseteq Safe
              /\ out'[p] \in {"none", "stage"}
              /\ stage'[n] \subseteq Safe /\ temp'[n] = Absent
  <2>1. /\ p # q /\ Rewriting(p) /\ p \in Rewriters(n) /\ q \in Rewriters(n)
    BY <1>3, <1>10, <1>11
  <2>2. wk[p].keep \subseteq Safe /\ wk[p].todo = {}
    BY <2>1, <1>1, <1>11 DEF RewriteSound
  <2>3. wk[q].keep \subseteq Safe
    BY <2>1, <1>1 DEF RewriteSound, n
  <2>4. stage'[n] = kept /\ temp'[n] = Absent
    BY <1>1, <1>2, <1>3 DEF TypeOK
  <2>5. out'[p] \in {"none", "stage"}
    BY <2>1, <1>2 DEF OutAfterRename
  <2> QED
    BY <2>2, <2>3, <2>4, <2>5, <1>5
<1>12. ASSUME NEW p \in Procs, Rewriting(p)', OnHand(p) # n
       PROVE  /\ stage'[OnHand(p)] = stage[OnHand(p)]
              /\ temp'[OnHand(p)] = temp[OnHand(p)] /\ out'[p] = out[p]
              /\ Rewriters(OnHand(p))' = Rewriters(OnHand(p))
              /\ Holders(OnHand(p))' = Holders(OnHand(p))
  <2> DEFINE m == OnHand(p)
  <2>1. /\ p # q /\ m \in Names /\ m' = m /\ p \in Rewriters(m) /\ p \notin Rewriters(n)
    BY <1>10, <1>12 DEF Rewriters, OnHand
  <2>2. stage'[m] = stage[m] /\ temp'[m] = temp[m]
    BY <2>1, <1>1, <1>2, <1>12 DEF TypeOK
  <2>3. out'[p] = out[p]
    BY <2>1, <1>2 DEF OutAfterRename
  <2> HIDE DEF m
  <2>4. q \notin Rewriters(m)
    BY <1>12 DEF Rewriters, OnHand, n, m
  <2>5. Rewriters(m)' = Rewriters(m)
    <3>1. ~Rewriting(q)'
      BY <1>6, IdleFields DEF Rewriting
    <3>2. \A o \in Procs : o # q => (Rewriting(o)' <=> Rewriting(o)) /\ wk'[o] = wk[o]
      BY <1>6 DEF Rewriting
    <3> QED
      BY <2>1, <2>4, <3>1, <3>2 DEF Rewriters
  <2>6. \A o \in Rewriters(m) : out'[o] = out[o]
    BY <2>4, <1>2, <1>12 DEF OutAfterRename, Rewriters, m
  <2>7. Holders(m)' = Holders(m)
    BY <2>5, <2>6 DEF Holders
  <2> QED
    BY <2>1, <2>2, <2>3, <2>5, <2>7 DEF m
<1>13. RewriteSound'
  <2> SUFFICES ASSUME NEW p \in Procs, Rewriting(p)'
               PROVE  /\ wk'[p].todo = {}
                      /\ \/ temp'[OnHand(p)'] = Absent
                         \/ temp'[OnHand(p)'] \subseteq wk'[p].keep \cup Safe'
                      /\ out'[p] \in {"temp", "mixed"} => temp'[OnHand(p)'] # Absent
                      /\ out'[p] = "temp" /\ wk'[p].pc = "rename" =>
                           temp'[OnHand(p)'] = wk'[p].keep
                      /\ out'[p] = "temp" => Holders(OnHand(p))' = {p}
                      /\ out'[p] # "temp" => wk'[p].keep \subseteq Safe'
                      /\ out'[p] = "stage" => stage'[OnHand(p)'] \subseteq Safe'
                      /\ Rewriters(OnHand(p))' # {p} => wk'[p].keep \subseteq Safe'
    BY DEF RewriteSound, Absent
  <2>1. CASE OnHand(p) = n
    BY <2>1, <1>9, <1>10, <1>11
  <2>2. CASE OnHand(p) # n
    BY <2>2, <1>1, <1>9, <1>10, <1>12 DEF RewriteSound
  <2> QED
    BY <2>1, <2>2
<1>14. /\ stage[n] \subseteq kept \cup applied \cup astray'
       /\ kept \subseteq stage[n] \cup Safe
  BY <1>2, <1>5 DEF Safe
<1> QED
  BY <1>3, <1>4, <1>5, <1>8, <1>13, <1>14, ReplaceLoss

\* A step inside a rewrite: the worker keeps what it holds, and the stages keep
\* their records but for strays.
SameStage(m) ==
  /\ stage'[m] \subseteq stage[m] \cup applied' \cup astray'
  /\ stage[m] \subseteq stage'[m] \cup applied' \cup astray'
  /\ stage'[m] # {} => m <= renames

RewriteStep(q) ==
  /\ InHand(q) /\ wk'[q].pc \in {"fill", "rename"}
  /\ wk'[q].plan = wk[q].plan /\ wk'[q].recs = wk[q].recs /\ wk'[q].todo = wk[q].todo
  /\ wk'[q].base = wk[q].base /\ wk'[q].keep = wk[q].keep
  /\ \A p \in Procs : p # q => wk'[p] = wk[p]
  /\ wk' \in [Procs -> Worker]
  /\ UNCHANGED <<log, current, renames, fd, remote, crashes>>
  /\ astray \subseteq astray' /\ astray' \subseteq DOMAIN log
  /\ temp' \in [Names -> (SUBSET DOMAIN log) \cup {Absent}]
  /\ out' \in [Procs -> {"none", "temp", "mixed", "stage"}]
  /\ stage' \in [Names -> SUBSET DOMAIN log]
  /\ \A m \in Names : SameStage(m)

LEMMA RewriteStepLoss ==
  ASSUME LossInv, NEW q \in Procs, RewriteStep(q), RewriteSound'
  PROVE  LossInv'
<1>1. /\ TypeOK /\ NamesUsed /\ HeldLogged /\ HandMatchesStage /\ NothingSkipped
      /\ OnlyStraysLost
  BY DEF LossInv
<1>2. /\ UNCHANGED <<log, current, renames, fd, server, late, applied, crashes>>
      /\ astray \subseteq astray' /\ Safe \subseteq Safe'
  BY DEF RewriteStep, remote, Safe
<1>3. ASSUME NEW p \in Procs
      PROVE  /\ InHand(p)' <=> InHand(p)
             /\ HasPlan(p)' <=> HasPlan(p)
             /\ OnHand(p)' = OnHand(p)
             /\ wk'[p].plan = wk[p].plan /\ wk'[p].recs = wk[p].recs
             /\ wk'[p].todo = wk[p].todo /\ wk'[p].base = wk[p].base
             /\ wk'[p].keep = wk[p].keep
  <2>1. CASE p = q
    BY <2>1 DEF RewriteStep, HasPlan, InHand, Rewriting, OnHand
  <2>2. CASE p # q
    BY <2>2 DEF RewriteStep, HasPlan, InHand, Rewriting, OnHand
  <2> QED
    BY <2>1, <2>2
<1>4. TypeOK'
  BY <1>1, <1>2 DEF TypeOK, RewriteStep
<1>5. \A m \in Names : /\ stage'[m] \subseteq stage[m] \cup Safe'
                       /\ stage[m] \subseteq stage'[m] \cup Safe'
                       /\ stage'[m] # {} => m <= renames
  BY DEF RewriteStep, SameStage, Safe
<1>10. NamesUsed'
  <2>1. \A p \in Procs : \A m \in wk'[p].plan : m <= renames
    BY <1>1, <1>3 DEF NamesUsed
  <2> QED
    BY <2>1, <1>1, <1>2, <1>5 DEF NamesUsed
<1>11. HeldLogged'
  <2>1. \A p \in Procs : /\ HasPlan(p)' => wk'[p].plan # {}
                         /\ wk'[p].recs \subseteq DOMAIN log
                         /\ wk'[p].keep \subseteq wk'[p].recs
                         /\ \A c \in DOMAIN wk'[p].base : wk'[p].base[c] <= Len(log)
    BY <1>1, <1>3 DEF HeldLogged
  <2> QED
    BY <2>1, <1>1, <1>2 DEF HeldLogged
<1>6. ASSUME NEW p \in Procs, InHand(p)
      PROVE  /\ stage'[OnHand(p)] \subseteq wk[p].recs \cup Safe'
             /\ wk[p].recs \subseteq stage'[OnHand(p)] \cup Safe'
  <2>1. OnHand(p) \in Names
    BY <1>1, <1>6, OnHandType DEF HasPlan
  <2>2. /\ stage[OnHand(p)] \subseteq wk[p].recs \cup Safe
        /\ wk[p].recs \subseteq stage[OnHand(p)] \cup Safe
    BY <1>1, <1>6 DEF HandMatchesStage
  <2>3. /\ stage'[OnHand(p)] \subseteq stage[OnHand(p)] \cup Safe'
        /\ stage[OnHand(p)] \subseteq stage'[OnHand(p)] \cup Safe'
    BY <2>1, <1>5
  <2> QED
    BY <2>2, <2>3, <1>2
<1>7. HandMatchesStage'
  BY <1>3, <1>6 DEF HandMatchesStage
<1>8. NothingSkipped'
  BY <1>1, <1>2, <1>3 DEF NothingSkipped
<1>9. OnlyStraysLost'
  <2>1. OnFile \subseteq OnFile' \cup Safe'
    BY <1>2, <1>5 DEF OnFile
  <2>2. DOMAIN log \subseteq Safe \cup OnFile
    BY <1>1 DEF OnlyStraysLost, Safe
  <2>3. DOMAIN log' \subseteq Safe' \cup OnFile'
    BY <2>1, <2>2, <1>2
  <2> QED
    BY <2>3 DEF OnlyStraysLost, Safe
<1> QED
  BY <1>4, <1>7, <1>8, <1>9, <1>10, <1>11 DEF LossInv

\* The descriptors and temp files of two rewrites that overlap are nobody's, and
\* what their processes keep is counted among the strays.
LEMMA CreateLoss ==
  ASSUME LossInv, NEW q \in Procs, CreateTemp(q)
  PROVE  LossInv'
<1>1. /\ TypeOK /\ HeldLogged /\ NamesUsed /\ RewriteSound
      /\ HasPlan(q) /\ InHand(q) /\ ~Rewriting(q)
  BY DEF LossInv, CreateTemp, At, HasPlan, InHand, Rewriting
<1>4. PICK n \in Names : n = OnHand(q) /\ n \in wk[q].plan
  BY <1>1, OnHandType
<1> DEFINE state == IF Holders(n) = {} THEN "temp" ELSE "mixed"
<1>2. /\ UNCHANGED <<log, current, stage, renames, fd, remote, crashes>>
      /\ wk[q].todo = {}
      /\ temp' = [temp EXCEPT ![n] = {}]
      /\ out' = [p \in Procs |-> IF p = q \/ p \in Holders(n) THEN state ELSE out[p]]
      /\ astray' = IF Rewriters(n) = {} THEN astray
                   ELSE astray \cup UNION {wk[p].keep : p \in Rewriters(n) \cup {q}}
      /\ Become(q, [wk[q] EXCEPT !.pc = "fill"])
  BY <1>4 DEF CreateTemp, OnHand
<1>3. /\ wk'[q].plan = wk[q].plan /\ wk'[q].recs = wk[q].recs
      /\ wk'[q].pc = "fill" /\ wk'[q].todo = wk[q].todo /\ wk'[q].base = wk[q].base
      /\ wk'[q].keep = wk[q].keep
      /\ \A o \in Procs : o # q => wk'[o] = wk[o]
      /\ wk' \in [Procs -> Worker]
  BY <1>1, <1>2, MoveFields
<1>5. /\ OnHand(q)' = n /\ q \notin Rewriters(n)
      /\ \A p \in Procs : p # q => OnHand(p)' = OnHand(p) /\ (Rewriting(p)' <=> Rewriting(p))
      /\ Rewriting(q)'
  BY <1>1, <1>3, <1>4 DEF OnHand, Rewriters, Rewriting
<1> HIDE DEF state
<1>6. \A m \in Names : Rewriters(m)' = IF m = n THEN Rewriters(m) \cup {q} ELSE Rewriters(m)
  BY <1>1, <1>4, <1>5 DEF Rewriters, OnHand
<1>7. /\ astray \subseteq astray' /\ astray' \subseteq DOMAIN log
      /\ Rewriters(n) # {} => \A p \in Rewriters(n) \cup {q} : wk[p].keep \subseteq astray'
  <2>1. Rewriters(n) \cup {q} \subseteq Procs
    BY DEF Rewriters
  <2>2. \A p \in Procs : wk[p].keep \subseteq DOMAIN log
    BY <1>1 DEF HeldLogged
  <2>3. astray \subseteq DOMAIN log
    BY <1>1 DEF TypeOK
  <2> QED
    BY <2>1, <2>2, <2>3, <1>2
<1>8. /\ temp' \in [Names -> (SUBSET DOMAIN log) \cup {Absent}]
      /\ temp'[n] = {} /\ \A m \in Names : m # n => temp'[m] = temp[m]
  BY <1>1, <1>2, <1>4 DEF TypeOK
<1>9. out' \in [Procs -> {"none", "temp", "mixed", "stage"}]
  <2>1. state \in {"temp", "mixed"}
    BY DEF state
  <2> QED
    BY <2>1, <1>1, <1>2 DEF TypeOK
<1>10. RewriteStep(q)
  <2>1. \A m \in Names : stage[m] # {} => m <= renames
    BY <1>1 DEF NamesUsed
  <2>2. stage \in [Names -> SUBSET DOMAIN log]
    BY <1>1 DEF TypeOK
  <2> QED
    BY <2>1, <2>2, <1>1, <1>2, <1>3, <1>7, <1>8, <1>9 DEF RewriteStep, SameStage
<1>11. Safe \subseteq Safe' /\ astray' \subseteq Safe'
  BY <1>2, <1>7 DEF Safe, remote
<1>12. RewriteSound'
  <2> SUFFICES ASSUME NEW p \in Procs, Rewriting(p)'
               PROVE  /\ wk'[p].todo = {}
                      /\ \/ temp'[OnHand(p)'] = Absent
                         \/ temp'[OnHand(p)'] \subseteq wk'[p].keep \cup Safe'
                      /\ out'[p] \in {"temp", "mixed"} => temp'[OnHand(p)'] # Absent
                      /\ out'[p] = "temp" /\ wk'[p].pc = "rename" =>
                           temp'[OnHand(p)'] = wk'[p].keep
                      /\ out'[p] = "temp" => Holders(OnHand(p))' = {p}
                      /\ out'[p] # "temp" => wk'[p].keep \subseteq Safe'
                      /\ out'[p] = "stage" => stage'[OnHand(p)'] \subseteq Safe'
                      /\ Rewriters(OnHand(p))' # {p} => wk'[p].keep \subseteq Safe'
    BY DEF RewriteSound, Absent
  <2>1. CASE p = q
    <3>1. out'[q] = state /\ state \in {"temp", "mixed"}
      BY <1>2 DEF state
    <3>2. {} # Absent
      BY DEF Absent
    <3>3. state = "temp" => Holders(OnHand(q))' = {q}
      <4>1. ASSUME state = "temp" PROVE \A o \in Rewriters(n) : out'[o] \notin {"temp", "mixed"}
        <5>1. Holders(n) = {}
          BY <4>1 DEF state
        <5> QED
          BY <5>1, <1>2, <1>5 DEF Holders, Rewriters
      <4>2. Rewriters(n)' = Rewriters(n) \cup {q}
        BY <1>4, <1>6
      <4>3. Holders(OnHand(q))' = {o \in Rewriters(n) \cup {q} : out'[o] \in {"temp", "mixed"}}
        BY <4>2, <1>5 DEF Holders, Rewriters
      <4> QED
        BY <4>1, <4>3, <3>1
    <3>4. Rewriters(OnHand(q))' = Rewriters(n) \cup {q}
      BY <1>4, <1>5, <1>6 DEF Rewriters
    <3>5. Rewriters(n) # {} => wk'[q].keep \subseteq Safe'
      BY <1>3, <1>7, <1>11
    <3>6. state # "temp" => Rewriters(n) # {}
      BY DEF state, Holders
    <3> QED
      BY <2>1, <3>1, <3>2, <3>3, <3>4, <3>5, <3>6, <1>2, <1>3, <1>5, <1>8
  <2>2. CASE p # q
    <3>1. PICK m \in Names : m = OnHand(p) /\ Rewriting(p)
      BY <2>2, <1>1, <1>5, OnHandType DEF HasPlan, InHand
    <3>5. /\ wk'[p] = wk[p] /\ OnHand(p)' = m /\ p \in Rewriters(m)
      BY <2>2, <3>1, <1>3, <1>5 DEF Rewriters, OnHand
    <3>2. /\ wk[p].todo = {}
          /\ temp[m] = Absent \/ temp[m] \subseteq wk[p].keep \cup Safe
          /\ out[p] \in {"temp", "mixed"} => temp[m] # Absent
          /\ out[p] = "temp" /\ wk[p].pc = "rename" => temp[m] = wk[p].keep
          /\ out[p] = "temp" => Holders(m) = {p}
          /\ out[p] # "temp" => wk[p].keep \subseteq Safe
          /\ out[p] = "stage" => stage[m] \subseteq Safe
          /\ Rewriters(m) # {p} => wk[p].keep \subseteq Safe
      BY <3>1, <1>1 DEF RewriteSound
    <3>3. CASE m = n
      <4>1. wk[p].keep \subseteq Safe'
        BY <3>5, <3>3, <1>7, <1>11
      <4>2. out'[p] # "temp" /\ (out'[p] = "stage" => out[p] = "stage")
        <5>1. CASE p \in Holders(n)
          BY <5>1, <1>2 DEF state
        <5>2. CASE p \notin Holders(n)
          BY <5>2, <3>5, <3>3, <2>2, <1>2 DEF Holders
        <5> QED
          BY <5>1, <5>2
      <4>3. {} # Absent
        BY DEF Absent
      <4> QED
        BY <3>5, <3>2, <3>3, <4>1, <4>2, <4>3, <1>2, <1>8, <1>11
    <3>4. CASE m # n
      <4>1. temp'[m] = temp[m]
        BY <3>4, <1>8
      <4>2. \A o \in Rewriters(m) : out'[o] = out[o]
        BY <3>4, <1>1, <1>2, <1>4 DEF Holders, Rewriters, OnHand
      <4>3. Rewriters(m)' = Rewriters(m)
        BY <3>4, <1>6
      <4>4. Holders(m)' = Holders(m)
        BY <4>2, <4>3 DEF Holders
      <4>5. Rewriters(OnHand(p))' = Rewriters(m) /\ Holders(OnHand(p))' = Holders(m)
        BY <3>5, <4>3, <4>4 DEF Holders, Rewriters
      <4> QED
        BY <3>5, <3>2, <4>1, <4>2, <4>5, <1>2, <1>11
    <3> QED
      BY <3>3, <3>4
  <2> QED
    BY <2>1, <2>2
<1> QED
  BY <1>10, <1>12, RewriteStepLoss

\* Who has the temp file for itself fills it with what it keeps; what comes of a
\* shared one, or of a stage that was one, is of strays.
LEMMA FillLoss ==
  ASSUME LossInv, NEW q \in Procs, FillTemp(q)
  PROVE  LossInv'
<1> DEFINE n == OnHand(q)
<1>1. /\ TypeOK /\ HeldLogged /\ NamesUsed /\ RewriteSound
      /\ HasPlan(q) /\ InHand(q) /\ Rewriting(q)
  BY DEF LossInv, FillTemp, At, HasPlan, InHand, Rewriting
<1>2. /\ UNCHANGED <<log, current, renames, fd, out, remote, astray, crashes>>
      /\ \/ /\ out[q] \in {"temp", "mixed"}
            /\ \E content \in Filled(q, temp[n]) : temp' = [temp EXCEPT ![n] = content]
            /\ UNCHANGED stage
         \/ /\ out[q] = "stage"
            /\ \E content \in Filled(q, stage[n]) : stage' = [stage EXCEPT ![n] = content]
            /\ UNCHANGED temp
         \/ out[q] = "none" /\ UNCHANGED <<temp, stage>>
      /\ \E pc \in {"fill", "rename"} : Become(q, [wk[q] EXCEPT !.pc = pc])
  BY DEF FillTemp, OnHand
<1>3. /\ wk'[q].plan = wk[q].plan /\ wk'[q].recs = wk[q].recs
      /\ wk'[q].pc \in {"fill", "rename"} /\ wk'[q].todo = wk[q].todo
      /\ wk'[q].base = wk[q].base /\ wk'[q].keep = wk[q].keep
      /\ \A o \in Procs : o # q => wk'[o] = wk[o]
      /\ wk' \in [Procs -> Worker]
  BY <1>1, <1>2, MoveFields
<1>4. n \in Names /\ n \in wk[q].plan /\ n <= renames
  BY <1>1, OnHandType DEF NamesUsed
<1>5. \A p \in Procs : /\ OnHand(p)' = OnHand(p) /\ (Rewriting(p)' <=> Rewriting(p))
                       /\ wk'[p].todo = wk[p].todo /\ wk'[p].keep = wk[p].keep
  <2>1. ASSUME NEW p \in Procs
        PROVE  /\ OnHand(p)' = OnHand(p) /\ (Rewriting(p)' <=> Rewriting(p))
               /\ wk'[p].todo = wk[p].todo /\ wk'[p].keep = wk[p].keep
    <3>1. CASE p = q
      BY <3>1, <1>1, <1>3 DEF OnHand, Rewriting
    <3>2. CASE p # q
      BY <3>2, <1>3 DEF OnHand, Rewriting
    <3> QED
      BY <3>1, <3>2
  <2> QED
    BY <2>1
<1>6. /\ \A m : Rewriters(m)' = Rewriters(m) /\ Holders(m)' = Holders(m)
      /\ q \in Rewriters(n) /\ Safe' = Safe
  BY <1>1, <1>2, <1>5 DEF Rewriters, Holders, OnHand, Safe, remote
<1>7. /\ temp[n] = Absent \/ temp[n] \subseteq wk[q].keep \cup Safe
      /\ out[q] \in {"temp", "mixed"} => temp[n] # Absent
      /\ out[q] = "temp" => Holders(n) = {q}
      /\ out[q] # "temp" => wk[q].keep \subseteq Safe
      /\ out[q] = "stage" => stage[n] \subseteq Safe
      /\ Rewriters(n) # {q} => wk[q].keep \subseteq Safe
      /\ wk[q].keep \subseteq DOMAIN log
      /\ temp[n] = Absent \/ temp[n] \subseteq DOMAIN log
      /\ stage[n] \subseteq DOMAIN log
  BY <1>1, <1>4 DEF RewriteSound, HeldLogged, TypeOK
<1> HIDE DEF n
\* The temp file, unless it is unchanged.
<1>8. \/ UNCHANGED temp
      \/ /\ out[q] \in {"temp", "mixed"} /\ UNCHANGED stage
         /\ \E content \in SUBSET DOMAIN log :
              /\ temp' = [temp EXCEPT ![n] = content]
              /\ content \subseteq wk[q].keep \cup Safe
              /\ out[q] = "temp" => content = wk[q].keep
  <2>1. ASSUME out[q] \in {"temp", "mixed"}, NEW content \in Filled(q, temp[n])
        PROVE  /\ content \in SUBSET DOMAIN log
               /\ content \subseteq wk[q].keep \cup Safe
               /\ out[q] = "temp" => content = wk[q].keep
    BY <2>1, <1>7 DEF Filled
  <2> QED
    BY <2>1, <1>2
<1>9. \/ UNCHANGED stage
      \/ /\ out[q] = "stage" /\ UNCHANGED temp
         /\ \E content \in SUBSET DOMAIN log : /\ stage' = [stage EXCEPT ![n] = content]
                                              /\ content \subseteq Safe
  <2>1. ASSUME out[q] = "stage", NEW content \in Filled(q, stage[n])
        PROVE  content \in SUBSET DOMAIN log /\ content \subseteq Safe
    BY <2>1, <1>7 DEF Filled
  <2> QED
    BY <2>1, <1>2, ZenonT(60)
<1>10. RewriteStep(q)
  <2>1. temp' \in [Names -> (SUBSET DOMAIN log) \cup {Absent}]
    BY <1>1, <1>8 DEF TypeOK
  <2>2. stage' \in [Names -> SUBSET DOMAIN log]
    BY <1>1, <1>9 DEF TypeOK
  <2>3. ASSUME NEW m \in Names
        PROVE  SameStage(m)
    <3>1. stage'[m] = stage[m] \/ (m = n /\ stage[m] \subseteq Safe /\ stage'[m] \subseteq Safe)
      BY <1>1, <1>7, <1>9 DEF TypeOK
    <3>2. stage[m] # {} => m <= renames
      BY <1>1 DEF NamesUsed
    <3> QED
      BY <3>1, <3>2, <1>4, <1>6 DEF SameStage, Safe
  <2>4. astray \subseteq DOMAIN log /\ out \in [Procs -> {"none", "temp", "mixed", "stage"}]
    BY <1>1 DEF TypeOK
  <2> QED
    BY <2>1, <2>2, <2>3, <2>4, <1>1, <1>2, <1>3 DEF RewriteStep
<1>11. RewriteSound'
  <2> SUFFICES ASSUME NEW p \in Procs, Rewriting(p)'
               PROVE  /\ wk'[p].todo = {}
                      /\ \/ temp'[OnHand(p)'] = Absent
                         \/ temp'[OnHand(p)'] \subseteq wk'[p].keep \cup Safe'
                      /\ out'[p] \in {"temp", "mixed"} => temp'[OnHand(p)'] # Absent
                      /\ out'[p] = "temp" /\ wk'[p].pc = "rename" =>
                           temp'[OnHand(p)'] = wk'[p].keep
                      /\ out'[p] = "temp" => Holders(OnHand(p))' = {p}
                      /\ out'[p] # "temp" => wk'[p].keep \subseteq Safe'
                      /\ out'[p] = "stage" => stage'[OnHand(p)'] \subseteq Safe'
                      /\ Rewriters(OnHand(p))' # {p} => wk'[p].keep \subseteq Safe'
    BY DEF RewriteSound, Absent
  <2> DEFINE m == OnHand(p)
  <2>1. /\ Rewriting(p) /\ OnHand(p)' = m /\ p \in Rewriters(m) /\ m \in Names
        /\ Rewriters(OnHand(p))' = Rewriters(m) /\ Holders(OnHand(p))' = Holders(m)
    <3>1. Rewriting(p) /\ OnHand(p)' = m
      BY <1>5
    <3>2. m \in Names
      BY <3>1, <1>1, OnHandType DEF HasPlan, InHand
    <3>3. Rewriters(OnHand(p))' = Rewriters(m)' /\ Holders(OnHand(p))' = Holders(m)'
      BY <3>1 DEF Holders, Rewriters
    <3> QED
      BY <3>1, <3>2, <3>3, <1>6 DEF Rewriters, OnHand
  <2>2. /\ wk[p].todo = {}
        /\ temp[m] = Absent \/ temp[m] \subseteq wk[p].keep \cup Safe
        /\ out[p] \in {"temp", "mixed"} => temp[m] # Absent
        /\ out[p] = "temp" /\ wk[p].pc = "rename" => temp[m] = wk[p].keep
        /\ out[p] = "temp" => Holders(m) = {p}
        /\ out[p] # "temp" => wk[p].keep \subseteq Safe
        /\ out[p] = "stage" => stage[m] \subseteq Safe
        /\ Rewriters(m) # {p} => wk[p].keep \subseteq Safe
    BY <2>1, <1>1 DEF RewriteSound
  <2> HIDE DEF m
  <2>3. out[p] = "stage" => stage'[m] \subseteq Safe
    BY <2>1, <2>2, <1>1, <1>9 DEF TypeOK
  <2>4. /\ temp'[m] = Absent \/ temp'[m] \subseteq wk[p].keep \cup Safe
        /\ out[p] \in {"temp", "mixed"} => temp'[m] # Absent
        /\ out[p] = "temp" /\ wk'[p].pc = "rename" => temp'[m] = wk[p].keep
    <3>1. CASE UNCHANGED temp /\ ~(p = q /\ out[q] = "temp")
      <4>1. out[p] = "temp" => wk'[p] = wk[p]
        BY <3>1, <1>3
      <4> QED
        BY <3>1, <4>1, <2>2
    <3>2. CASE m # n
      <4>1. temp'[m] = temp[m] /\ p # q
        BY <3>2, <2>1, <1>1, <1>8 DEF TypeOK, m, n
      <4> QED
        BY <4>1, <2>2, <1>3
    <3>3. CASE m = n /\ out[q] \in {"temp", "mixed"}
      <4>1. PICK content \in SUBSET DOMAIN log :
              /\ temp' = [temp EXCEPT ![n] = content]
              /\ content \subseteq wk[q].keep \cup Safe
              /\ out[q] = "temp" => content = wk[q].keep
        <5>1. ASSUME NEW content \in Filled(q, temp[n])
              PROVE  /\ content \in SUBSET DOMAIN log
                     /\ content \subseteq wk[q].keep \cup Safe
                     /\ out[q] = "temp" => content = wk[q].keep
          BY <3>3, <1>7 DEF Filled
        <5> QED
          BY <5>1, <3>3, <1>2
      <4>2. temp'[m] = content /\ content # Absent
        <5>1. 0 \notin DOMAIN log
          BY <1>1, LogType
        <5> QED
          BY <5>1, <4>1, <3>3, <1>1, <1>4 DEF TypeOK, Absent
      <4>3. CASE p = q
        BY <4>1, <4>2, <4>3
      <4>4. CASE p # q
        <5>1. wk[q].keep \subseteq Safe
          BY <4>4, <3>3, <2>1, <1>6, <1>7
        <5>2. q \in Holders(m)
          BY <3>3, <1>6 DEF Holders
        <5>3. out[p] # "temp"
          BY <5>2, <4>4, <2>2
        <5> QED
          BY <4>1, <4>2, <5>1, <5>3
      <4> QED
        BY <4>3, <4>4
    <3> QED
      BY <3>1, <3>2, <3>3, <1>8
  <2> QED
    BY <2>1, <2>2, <2>3, <2>4, <1>2, <1>5, <1>6
<1> QED
  BY <1>10, <1>11, RewriteStepLoss

LEMMA WorkerLoss ==
  ASSUME LossInv, NEW q \in Procs, WorkerStep(q)
  PROVE  LossInv'
<1>1. CASE \/ RotateNothing(q) \/ RotateReopen(q) \/ ListStages(q) \/ ReadStage(q)
           \/ \E p \in Paths : ReadBase(q, p) \/ ReadBaseFails(q, p)
           \/ RemoveStageFails(q) \/ RewriteFails(q)
  BY <1>1, WorkerStepLoss
<1>2. CASE RotateRename(q)
  BY <1>2, RenameLoss
<1>3. CASE DropStage(q) \/ RemoveStage(q)
  BY <1>3, DropLoss, RemoveLoss
<1>4. ASSUME NEW p \in Paths, WriteSparse(q, p) PROVE LossInv'
  BY <1>4, WriteLoss
<1>5. CASE WriteSparseFails(q)
  BY <1>5, WriteFailsLoss
<1>6. CASE CreateTemp(q) \/ FillTemp(q) \/ RenameTemp(q)
  BY <1>6, CreateLoss, FillLoss, RenameTempLoss
<1> QED
  BY <1>1, <1>2, <1>3, <1>4, <1>5, <1>6 DEF WorkerStep

LEMMA StutterLoss ==
  ASSUME LossInv, UNCHANGED vars
  PROVE  LossInv'
<1>1. UNCHANGED <<log, current, stage, renames, fd, temp, out, wk, server, late, applied,
                  astray, crashes>>
  BY DEF vars, files, remote, rewrite
<1>2. /\ TypeOK' /\ NamesUsed' /\ HeldLogged' /\ HandMatchesStage' /\ NothingSkipped'
      /\ OnlyStraysLost'
  BY <1>1, SMTT(60) DEF LossInv, TypeOK, NamesUsed, HeldLogged, HandMatchesStage,
    NothingSkipped, OnlyStraysLost, OnFile, HasPlan, InHand, Rewriting, OnHand, Safe
<1>3. RewriteSound'
  <2>1. Safe \subseteq Safe' /\ RewriteSound
    BY <1>1 DEF Safe, LossInv
  <2> QED
    BY <1>1, <2>1, KeepsSound DEF Rewriting
<1> QED
  BY <1>2, <1>3 DEF LossInv

LEMMA NextLoss == LossInv /\ [Next]_vars => LossInv'
<1> SUFFICES ASSUME LossInv, [Next]_vars PROVE LossInv'
  OBVIOUS
<1>1. ASSUME NEW q \in Mounts, NEW c \in Cells, AppendEntry(q, c) PROVE LossInv'
  BY <1>1, AppendLoss, MountsAssumption
<1>2. ASSUME NEW q \in Procs, WorkerStep(q) \/ Restart(q) PROVE LossInv'
  BY <1>2, WorkerLoss, RestartLoss
<1>3. ASSUME NEW content \in late, ApplyLate(content) PROVE LossInv'
  BY <1>3, ApplyLateLoss
<1>4. CASE UNCHANGED vars
  BY <1>4, StutterLoss
<1> QED
  BY <1>1, <1>2, <1>3, <1>4 DEF Next

\* The inductive invariant of any number of processes on one directory.
THEOREM LossInvariance == Spec => []LossInv
BY LossInit, NextLoss, PTL DEF Spec

\* The flush worker's variables, the stages and what is on the server have their
\* types: no stage is renamed over another, no content is of an unwritten record.
THEOREM TypeCorrect == Spec => []TypeOK
<1>1. LossInv => TypeOK
  BY DEF LossInv
<1> QED
  BY <1>1, LossInvariance, PTL

\* However many processes rotate, replay and remove the same stages and whatever
\* fails, only records appended to a renamed file, in a stage that could not be
\* read, or kept by rewrites of one stage that overlapped on their temp file are
\* lost (start_wal_flush_worker, write_staged_records).
THEOREM StraysOnly == Spec => []OnlyStraysLost
<1>1. LossInv => OnlyStraysLost
  BY DEF LossInv
<1> QED
  BY <1>1, LossInvariance, PTL

-----------------------------------------------------------------------------
(* One process by itself.                                                   *)

\* One client process, no stage that cannot be read, and no failure between the
\* rename and the opening of the new journal.
Alone ==
  /\ \A p, q \in Procs : p = q
  /\ Faults \cap {"read", "rotate"} = {}

\* The descriptor is on the journal whenever it is written through.
WritesJournal == \A q \in Procs : fd[q] = Current \/ wk[q].pc = "renamed"
NoStrays == astray = {}

\* A rewrite has its temp file for itself.
LoneRewrite == \A q \in Procs : Rewriting(q) => out[q] = "temp"

AloneInv == LossInv /\ WritesJournal /\ NoStrays /\ LoneRewrite

LEMMA AloneInit == Init => AloneInv
<1> SUFFICES ASSUME Init PROVE AloneInv
  OBVIOUS
<1> QED
  BY LossInit, IdleFields DEF Init, AloneInv, WritesJournal, NoStrays, LoneRewrite, Rewriting

LEMMA AloneWorker ==
  ASSUME Alone, AloneInv, NEW q \in Procs, WorkerStep(q)
  PROVE  AloneInv'
<1>1. /\ LossInv' /\ TypeOK /\ HeldLogged /\ astray = {}
      /\ \A p \in Procs : p = q
      /\ fd[q] = Current \/ wk[q].pc = "renamed"
      /\ Rewriting(q) => out[q] = "temp"
  BY WorkerLoss DEF AloneInv, LossInv, Alone, WritesJournal, NoStrays, LoneRewrite
<1> DEFINE Goal == /\ fd'[q] = Current \/ wk'[q].pc = "renamed"
                   /\ astray' = {}
                   /\ wk'[q].pc \in {"fill", "rename"} => out'[q] = "temp"
<1>2. SUFFICES Goal
  BY <1>1, <1>2 DEF AloneInv, WritesJournal, NoStrays, LoneRewrite, Rewriting
<1>3. Current \notin Names /\ fd \in [Procs -> {Removed, Current} \cup Names]
  BY <1>1, BoundsAssumption DEF TypeOK, Current, Names
<1>4. CASE /\ wk[q].pc # "renamed" /\ UNCHANGED <<fd, astray>>
           /\ wk'[q].pc \notin {"fill", "rename"}
  BY <1>1, <1>4
<1>5. CASE RotateRename(q)
  BY <1>1, <1>5, MoveFields DEF RotateRename
<1>6. CASE RotateReopen(q)
  <2>1. wk'[q].pc = "list"
    BY <1>1, <1>6, MoveFields DEF RotateReopen
  <2> QED
    BY <2>1, <1>1, <1>3, <1>6 DEF RotateReopen, Alone
<1>7. CASE DropStage(q) \/ RemoveStage(q)
  <2>1. /\ wk[q].pc \in {"stages", "paths"} /\ Orphan(OnHand(q))
        /\ Continue(q, OnHand(q))
        /\ astray' = astray
    <3>1. CASE DropStage(q)
      BY <3>1 DEF DropStage, At, RemoveFile, OnHand, Alone
    <3>2. CASE RemoveStage(q)
      BY <3>2 DEF RemoveStage, At, RemoveFile, OnHand
    <3> QED
      BY <1>7, <3>1, <3>2
  <2>2. OnHand(q) \in Names
    BY <2>1, <1>1, OnHandType DEF HasPlan, InHand
  <2>3. fd'[q] = Current
    BY <2>1, <2>2, <1>1, <1>3 DEF Orphan
  <2>4. wk'[q].pc \in {"idle", "stages"}
    BY <2>1, <1>1, ContinueFields
  <2> QED
    BY <2>1, <2>3, <2>4, <1>1
<1>8. CASE RenameTemp(q)
  <2>1. /\ wk[q].pc = "rename" /\ Orphan(OnHand(q)) /\ astray' = astray
        /\ Become(q, Idle)
    BY <1>8 DEF RenameTemp, At, OnHand
  <2>2. OnHand(q) \in Names
    BY <2>1, <1>1, OnHandType DEF HasPlan, InHand, Rewriting
  <2>3. fd'[q] = Current
    BY <2>1, <2>2, <1>1, <1>3 DEF Orphan
  <2>4. wk'[q].pc = "idle"
    BY <2>1, <1>1, BecomeFields, IdleFields
  <2> QED
    BY <2>1, <2>3, <2>4, <1>1
<1>9. CASE CreateTemp(q)
  <2>1. ~Rewriting(q) /\ fd' = fd
    BY <1>9 DEF CreateTemp, At, Rewriting
  <2>2. \A n : Rewriters(n) = {} /\ Holders(n) = {}
    BY <2>1, <1>1 DEF Rewriters, Holders
  <2>3. astray' = astray /\ out'[q] = "temp" /\ wk[q].pc = "paths"
    BY <2>2, <1>9 DEF CreateTemp, At
  <2> QED
    BY <2>1, <2>3, <1>1
<1>10. CASE FillTemp(q)
  <2>1. Rewriting(q) /\ wk[q].pc = "fill" /\ UNCHANGED <<fd, out, astray>>
    BY <1>10 DEF FillTemp, At, Rewriting
  <2> QED
    BY <2>1, <1>1
<1>11. CASE RewriteFails(q)
  <2>1. wk[q].pc # "renamed" /\ UNCHANGED <<fd, astray>> /\ Become(q, Idle)
    BY <1>11 DEF RewriteFails, At, Rewriting
  <2> QED
    BY <2>1, <1>1, <1>4, BecomeFields, IdleFields
<1>12. CASE RotateNothing(q) \/ ListStages(q) \/ ReadStage(q) \/ RemoveStageFails(q)
  <2>1. wk[q].pc # "renamed" /\ UNCHANGED <<fd, astray>>
    BY <1>12 DEF RotateNothing, ListStages, ReadStage, RemoveStageFails, At, files
  <2>2. wk'[q].pc \notin {"fill", "rename"}
    BY <1>12, <1>1, MoveFields, ListFields, ReadStageFields, ContinueFields
      DEF RotateNothing, RemoveStageFails
  <2> QED
    BY <2>1, <2>2, <1>4
<1>13. ASSUME NEW p \in Paths, ReadBase(q, p) \/ ReadBaseFails(q, p) \/ WriteSparse(q, p)
       PROVE  Goal
  <2>1. wk[q].pc # "renamed" /\ UNCHANGED <<fd, astray>>
    BY <1>13 DEF ReadBase, ReadBaseFails, WriteSparse, At, files
  <2>2. wk'[q].pc \notin {"fill", "rename"}
    BY <1>13, <1>1, ReadBaseFields, DeferredFields, FlushedFields
      DEF ReadBaseFails, WriteSparse
  <2> QED
    BY <2>1, <2>2, <1>4
<1>14. CASE WriteSparseFails(q)
  <2>1. /\ wk[q].pc # "renamed" /\ UNCHANGED <<fd, astray>> /\ wk[q].path \in Paths
        /\ Deferred(q, wk[q].path)
    BY <1>14, <1>1 DEF WriteSparseFails, At, files, TypeOK, Worker
  <2>2. wk'[q].pc \notin {"fill", "rename"}
    BY <2>1, <1>1, DeferredFields
  <2> QED
    BY <2>1, <2>2, <1>4
<1> QED
  BY <1>5, <1>6, <1>7, <1>8, <1>9, <1>10, <1>11, <1>12, <1>13, <1>14 DEF WorkerStep

LEMMA AloneNext ==
  ASSUME Alone, AloneInv, [Next]_vars
  PROVE  AloneInv'
<1>1. LossInv' /\ TypeOK /\ astray = {} /\ WritesJournal /\ LoneRewrite
  BY NextLoss DEF AloneInv, LossInv, NoStrays
<1>2. ASSUME NEW q \in Mounts, NEW c \in Cells, AppendEntry(q, c) PROVE AloneInv'
  <2>1. fd[q] = Current
    BY <1>1, <1>2, MountsAssumption DEF AppendEntry, At, WritesJournal
  <2> QED
    BY <2>1, <1>1, <1>2 DEF AppendEntry, rewrite, AloneInv, WritesJournal, NoStrays,
      LoneRewrite, Rewriting
<1>3. ASSUME NEW q \in Procs, WorkerStep(q) PROVE AloneInv'
  BY <1>3, AloneWorker
<1>4. ASSUME NEW q \in Procs, Restart(q) PROVE AloneInv'
  <2>1. /\ fd' = [fd EXCEPT ![q] = Current] /\ astray' = astray /\ \A p \in Procs : p = q
        /\ Become(q, Idle)
    BY <1>4 DEF Restart, Alone
  <2>2. fd'[q] = Current
    BY <2>1, <1>1 DEF TypeOK
  <2>3. wk'[q].pc = "idle"
    BY <2>1, <1>1, BecomeFields, IdleFields
  <2> QED
    BY <2>1, <2>2, <2>3, <1>1 DEF AloneInv, WritesJournal, NoStrays, LoneRewrite, Rewriting
<1>5. ASSUME NEW content \in late, ApplyLate(content) PROVE AloneInv'
  BY <1>1, <1>5 DEF ApplyLate, files, rewrite, AloneInv, WritesJournal, NoStrays,
    LoneRewrite, Rewriting
<1>6. CASE UNCHANGED vars
  BY <1>1, <1>6 DEF vars, files, rewrite, AloneInv, WritesJournal, NoStrays,
    LoneRewrite, Rewriting
<1> QED
  BY <1>2, <1>3, <1>4, <1>5, <1>6 DEF Next

LEMMA AloneKeeps == AloneInv => NothingLost
BY DEF AloneInv, LossInv, OnlyStraysLost, NothingLost, NoStrays

\* "Writes hit the WAL first": a process that has its WAL directory for itself,
\* and can read its stages, loses no record before the server has applied it,
\* through failed flushes, rewrites and kills.
THEOREM AloneLosesNothing ==
  ASSUME Alone
  PROVE  Spec => []NothingLost
<1>1. AloneInv /\ [Next]_vars => AloneInv'
  BY AloneNext
<1> QED
  BY <1>1, AloneInit, AloneKeeps, PTL DEF Spec

-----------------------------------------------------------------------------
(* Refinement of WriteBack.                                                 *)

\* One process that besides never leaves a finished stage behind, and whose
\* writes the server does not apply after it has given them up.
Orderly == Alone /\ Faults \cap {"late", "unlink"} = {}

Path(r) == PathOf[log[r]]

\* Stages are in the order of the appends, and the journal behind them.
InOrder ==
  /\ \A m, n \in Names : m < n => \A r \in stage[m], s \in stage[n] : r < s
  /\ \A n \in Names : \A r \in stage[n], s \in current : r < s

\* A worker has listed all stages, and holds the oldest as it is on file.
PlanIsStages ==
  \A q \in Procs : HasPlan(q) =>
    wk[q].plan = {n \in Names : stage[n] # {}}

HandIsStage ==
  \A q \in Procs : InHand(q) =>
    /\ wk[q].recs = stage[OnHand(q)]
    /\ wk[q].todo \subseteq {Path(r) : r \in wk[q].recs}
    /\ \A r \in wk[q].keep, s \in wk[q].recs : Path(r) = Path(s) => s \in wk[q].keep

\* The base of a write is what the server has.
BaseFresh ==
  \A q \in Procs : wk[q].pc = "write" =>
    /\ wk[q].path \in wk[q].todo
    /\ wk[q].base = Snapshot(wk[q].path)

\* What is applied of a file is a prefix of the log's records of it, and when a
\* record on file is applied, the later ones that are too are in its stage.
AppliedPrefix ==
  \A r \in applied, s \in DOMAIN log : s < r /\ Path(s) = Path(r) => s \in applied

AppliedNewest ==
  /\ \A n \in Names : \A s \in stage[n], r \in applied :
       s < r /\ Path(s) = Path(r) => r \in stage[n]
  /\ \A s \in current, r \in applied : Path(s) = Path(r) => r < s

ServerIsApplied ==
  \A c \in Cells : server[c] = Max({0} \cup {r \in applied : log[r] = c})

OrderInv == /\ AloneInv /\ late = {} /\ InOrder /\ PlanIsStages /\ HandIsStage
            /\ BaseFresh /\ AppliedPrefix /\ AppliedNewest /\ ServerIsApplied

LEMMA OrderInit == Init => OrderInv
<1> SUFFICES ASSUME Init PROVE OrderInv
  OBVIOUS
<1>1. AloneInv /\ (\A q \in Procs : wk[q] = Idle)
  BY AloneInit DEF Init
<1>2. \A n \in Names : stage[n] = {}
  BY DEF Init
<1>3. Max({0}) = 0
  BY MaxUnique
<1>4. ServerIsApplied
  <2>1. \A c \in Cells : {0} \cup {r \in applied : log[r] = c} = {0}
    BY DEF Init
  <2> QED
    BY <2>1, <1>3 DEF Init, ServerIsApplied
<1>5. InOrder /\ AppliedNewest /\ AppliedPrefix /\ late = {}
  BY <1>2 DEF Init, InOrder, AppliedNewest, AppliedPrefix
<1>6. PlanIsStages /\ HandIsStage /\ BaseFresh
  BY <1>1, IdleFields DEF PlanIsStages, HandIsStage, BaseFresh, HasPlan, InHand, Rewriting
<1> QED
  BY <1>1, <1>4, <1>5, <1>6 DEF OrderInv

\* The records of a path in the stage in hand: all that are missing on the server
\* up to the newest of them, and none that is older than what the server has.
LEMMA PatchesInOrder ==
  ASSUME OrderInv, NEW q \in Procs, InHand(q), NEW p \in wk[q].todo
  PROVE  LET P == Patches(q, p)
         IN  /\ P \subseteq DOMAIN log /\ P # {} /\ Max(P) \in P
             /\ \A r \in P : Path(r) = p /\ r <= Max(P)
             /\ \A r \in P, s \in DOMAIN log : s < r /\ Path(s) = p => s \in applied \cup P
             /\ \A s \in P, r \in applied : s < r /\ Path(r) = p => r \in P
             /\ \A r \in applied : Path(r) = p => r <= Max(P)
<1> DEFINE P == Patches(q, p)
           n == OnHand(q)
<1>1. TypeOK /\ HeldLogged /\ OnlyStraysLost /\ astray = {}
  BY DEF OrderInv, AloneInv, LossInv, NoStrays
<1>2. /\ n \in wk[q].plan /\ n \in Names /\ \A m \in wk[q].plan : n <= m
      /\ wk[q].plan = {m \in Names : stage[m] # {}}
  BY <1>1, OnHandType DEF OrderInv, HasPlan, PlanIsStages
<1>3. P = {r \in stage[n] : Path(r) = p} /\ p \in {Path(r) : r \in stage[n]}
  BY DEF OrderInv, HandIsStage, Patches, Path
<1>4. Len(log) \in Nat /\ DOMAIN log = 1..Len(log) /\ stage[n] \subseteq DOMAIN log
  BY <1>1, <1>2, LogType DEF TypeOK
<1> HIDE DEF P, n
<1>5. P \subseteq DOMAIN log /\ P # {} /\ \A r \in P : Path(r) = p
  BY <1>3, <1>4
<1>6. Max(P) \in P /\ \A r \in P : r <= Max(P)
  <2>1. P \in SUBSET (0..Len(log))
    BY <1>4, <1>5
  <2> QED
    BY <2>1, <1>4, <1>5, MaxOf
<1>7. ASSUME NEW r \in P, NEW s \in DOMAIN log, s < r, Path(s) = p
      PROVE  s \in applied \cup P
  <2>1. s \in applied \cup OnFile
    BY <1>1 DEF OnlyStraysLost
  <2>2. CASE s \in current
    <3>1. r < s
      BY <2>2, <1>2, <1>3 DEF OrderInv, InOrder
    <3> QED
      BY <3>1, <1>7, <1>4, <1>5
  <2>3. ASSUME NEW m \in Names, s \in stage[m] PROVE s \in P
    <3>1. m \in wk[q].plan /\ n <= m /\ n \in Nat /\ m \in Nat
      BY <2>3, <1>2 DEF Names
    <3>2. CASE m = n
      BY <3>2, <2>3, <1>3, <1>7
    <3>3. CASE n < m
      <4>1. r < s
        BY <3>3, <2>3, <1>2, <1>3 DEF OrderInv, InOrder
      <4> QED
        BY <4>1, <1>7, <1>4, <1>5
    <3> QED
      BY <3>1, <3>2, <3>3
  <2> QED
    BY <2>1, <2>2, <2>3 DEF OnFile
<1>8. ASSUME NEW s \in P, NEW r \in applied, s < r, Path(r) = p
      PROVE  r \in P
  BY <1>2, <1>3, <1>5, <1>8 DEF OrderInv, AppliedNewest
<1>9. ASSUME NEW r \in applied, Path(r) = p
      PROVE  r <= Max(P)
  <2>1. r \in Nat /\ Max(P) \in Nat
    BY <1>1, <1>4, <1>5, <1>6 DEF TypeOK
  <2>2. CASE Max(P) < r
    BY <2>2, <1>6, <1>8, <1>9
  <2> QED
    BY <2>1, <2>2
<1> QED
  BY <1>5, <1>6, <1>7, <1>8, <1>9 DEF P

\* The write of worker q, as WriteSparse and a lost acknowledgement have it.
Written(q) ==
  /\ At(q, "write")
  /\ Apply(Patched(q))
  /\ applied' = applied \cup Patches(q, wk[q].path)
  /\ UNCHANGED <<log, current, stage>>

\* It leaves on every cell the newest record applied to it.
LEMMA WrittenServer ==
  ASSUME OrderInv, NEW q \in Procs, Written(q), NEW c \in Cells
  PROVE  LET new == {0} \cup {r \in applied' : log[r] = c}
         IN  server'[c] \in new /\ new \subseteq Nat /\ \A r \in new : r <= server'[c]
<1> DEFINE p == wk[q].path
           P == Patches(q, p)
           old == {0} \cup {r \in applied : log[r] = c}
           over == {r \in wk[q].recs : log[r] = c}
           new == {0} \cup {r \in applied' : log[r] = c}
<1>1. /\ TypeOK /\ HeldLogged /\ InHand(q) /\ p \in wk[q].todo
      /\ wk[q].base = Snapshot(p)
  BY DEF OrderInv, AloneInv, LossInv, Written, At, InHand, BaseFresh
<1>2. /\ \A r \in P : Path(r) = p
      /\ \A s \in P, r \in applied : s < r /\ Path(r) = p => r \in P
  BY <1>1, PatchesInOrder
<1>3. P = {r \in wk[q].recs : Path(r) = p}
  BY DEF Patches, Path
<1>4. /\ Len(log) \in Nat /\ DOMAIN log = 1..Len(log) /\ applied \subseteq DOMAIN log
      /\ wk[q].recs \subseteq DOMAIN log
  BY <1>1, LogType DEF TypeOK, HeldLogged
<1>5. /\ server[c] = Max(old)
      /\ old \in SUBSET (0..Len(log)) /\ old # {} /\ old \subseteq Nat
      /\ new = old \cup {r \in P : log[r] = c}
  <2>1. server[c] = Max(old)
    BY DEF OrderInv, ServerIsApplied
  <2>2. applied' = applied \cup P
    BY DEF Written
  <2>3. old \in SUBSET (0..Len(log)) /\ old # {} /\ old \subseteq Nat
    BY <1>4
  <2> HIDE DEF P
  <2>4. new = old \cup {r \in P : log[r] = c}
    BY <2>2
  <2> QED
    BY <2>1, <2>3, <2>4
<1>6. server[c] \in old /\ \A r \in old : r <= server[c]
  <2> HIDE DEF old
  <2> QED
    BY <1>4, <1>5, MaxOf
<1>7. server' = [d \in Cells |-> IF d \in DOMAIN Patched(q) THEN Patched(q)[d] ELSE server[d]]
  BY DEF Written, Apply
<1>8. DOMAIN Patched(q) = {d \in Cells : PathOf[d] = p} /\ DOMAIN wk[q].base = DOMAIN Patched(q)
  BY <1>1 DEF Patched, Snapshot
<1>9. new \subseteq Nat
  BY <1>3, <1>4, <1>5
<1>10. CASE PathOf[c] # p
  <2>1. new = old
    BY <1>2, <1>5, <1>10 DEF Path
  <2>2. server'[c] = server[c]
    BY <1>7, <1>8, <1>10
  <2> QED
    BY <2>1, <2>2, <1>6, <1>9
<1>11. CASE PathOf[c] = p
  <2>1. server'[c] = (IF over = {} THEN server[c] ELSE Max(over))
    BY <1>1, <1>7, <1>8, <1>11 DEF Patched, Snapshot
  <2>2. {r \in P : log[r] = c} = over
    BY <1>3, <1>11 DEF Path
  <2>3. CASE over = {}
    BY <2>1, <2>2, <2>3, <1>5, <1>6, <1>9
  <2>4. CASE over # {}
    <3> DEFINE top == Max(over)
    <3>1. top \in over /\ top \in 1..Len(log) /\ \A r \in over : r <= top
      BY <2>4, <1>1, <1>4, NewestOver
    <3>2. server'[c] = top
      BY <2>1, <2>4
    <3> HIDE DEF top
    <3>3. ASSUME NEW r \in new PROVE r <= top
      <4>1. CASE r \in over
        BY <4>1, <3>1
      <4>2. CASE r = 0
        BY <4>2, <3>1
      <4>3. CASE r \in applied /\ log[r] = c
        <5>1. Path(r) = p /\ top \in P /\ r \in Nat
          BY <4>3, <3>1, <2>2, <1>4, <1>11 DEF Path
        <5>2. CASE top < r
          <6>1. r \in P
            BY <5>1, <5>2, <4>3, <1>2
          <6> QED
            BY <6>1, <4>3, <2>2, <3>1
        <5> QED
          BY <5>1, <5>2, <3>1
      <4> QED
        BY <4>1, <4>2, <4>3, <2>2, <1>5
    <3>4. top \in new
      BY <3>1, <2>2, <1>5
    <3> QED
      BY <3>2, <3>3, <3>4, <1>9
  <2> QED
    BY <2>3, <2>4
<1> QED
  BY <1>10, <1>11

LEMMA WrittenOrder ==
  ASSUME OrderInv, NEW q \in Procs, Written(q)
  PROVE  AppliedPrefix' /\ AppliedNewest' /\ ServerIsApplied'
<1> DEFINE p == wk[q].path
           P == Patches(q, p)
<1>1. /\ TypeOK /\ InHand(q) /\ p \in wk[q].todo /\ applied' = applied \cup P
      /\ UNCHANGED <<log, current, stage>>
  BY DEF OrderInv, AloneInv, LossInv, Written, At, InHand, BaseFresh
<1>2. /\ P \subseteq DOMAIN log /\ \A r \in P : Path(r) = p
      /\ \A r \in P, s \in DOMAIN log : s < r /\ Path(s) = p => s \in applied \cup P
      /\ \A s \in P, r \in applied : s < r /\ Path(r) = p => r \in P
  BY <1>1, PatchesInOrder
<1>3. /\ P \subseteq stage[OnHand(q)] /\ OnHand(q) \in Names /\ OnHand(q) \in wk[q].plan
      /\ \A m \in wk[q].plan : OnHand(q) <= m
      /\ \A r \in stage[OnHand(q)] : Path(r) = p => r \in P
  BY <1>1, OnHandType DEF OrderInv, AloneInv, LossInv, HandIsStage, HasPlan, Patches, Path
<1> HIDE DEF P
<1>4. AppliedPrefix'
  <2> SUFFICES ASSUME NEW r \in applied \cup P, NEW s \in DOMAIN log, s < r, Path(s) = Path(r)
               PROVE  s \in applied \cup P
    BY <1>1 DEF AppliedPrefix, Path
  <2> QED
    BY <1>2 DEF OrderInv, AppliedPrefix
<1>5. AppliedNewest'
  <2>1. ASSUME NEW m \in Names, NEW s \in stage[m], NEW r \in applied \cup P,
               s < r, Path(s) = Path(r)
        PROVE  r \in stage[m]
    <3>1. CASE r \in applied
      BY <2>1, <3>1 DEF OrderInv, AppliedNewest
    <3>2. CASE r \in P
      <4> DEFINE n == OnHand(q)
      <4>1. m \in wk[q].plan /\ n <= m /\ m \in Nat /\ n \in Nat /\ r \in stage[n]
        BY <1>1, <1>3, <3>2 DEF OrderInv, PlanIsStages, HasPlan, Names
      <4> HIDE DEF n
      <4>2. CASE n = m
        BY <4>1, <4>2
      <4>3. CASE n < m
        <5>1. r < s
          BY <4>1, <4>3, <1>3 DEF OrderInv, InOrder, n
        <5>2. r \in Nat /\ s \in Nat
          BY <1>1, <1>2, <3>2, LogType DEF TypeOK
        <5> QED
          BY <5>1, <5>2, <2>1
      <4> QED
        BY <4>1, <4>2, <4>3
    <3> QED
      BY <3>1, <3>2
  <2>2. ASSUME NEW s \in current, NEW r \in applied \cup P, Path(s) = Path(r)
        PROVE  r < s
    BY <2>2, <1>3 DEF OrderInv, AppliedNewest, InOrder
  <2> QED
    BY <2>1, <2>2, <1>1 DEF AppliedNewest, Path
<1>6. ServerIsApplied'
  <2> SUFFICES ASSUME NEW c \in Cells
               PROVE  server'[c] = Max({0} \cup {r \in applied' : log[r] = c})
    BY <1>1 DEF ServerIsApplied
  <2> QED
    BY WrittenServer, MaxUnique
<1> QED
  BY <1>4, <1>5, <1>6

\* It advances the file to what the log's records up to the newest one make of it.
LEMMA WrittenAdvances ==
  ASSUME OrderInv, NEW q \in Procs, Written(q)
  PROVE  WB!Next
<1> DEFINE p == wk[q].path
           P == Patches(q, p)
           N == Max(P)
<1>1. /\ TypeOK /\ InHand(q) /\ p \in wk[q].todo /\ applied' = applied \cup P
      /\ log' = log /\ p \in Paths
  BY DEF OrderInv, AloneInv, LossInv, Written, At, InHand, BaseFresh, TypeOK, Worker
<1>2. /\ P \subseteq DOMAIN log /\ N \in P
      /\ \A r \in P : Path(r) = p /\ r <= N
      /\ \A r \in P, s \in DOMAIN log : s < r /\ Path(s) = p => s \in applied \cup P
      /\ \A r \in applied : Path(r) = p => r <= N
  BY <1>1, PatchesInOrder
<1>3. Len(log) \in Nat /\ DOMAIN log = 1..Len(log) /\ applied \subseteq DOMAIN log
  BY <1>1, LogType DEF TypeOK
<1>4. server' = [d \in Cells |-> IF d \in DOMAIN Patched(q) THEN Patched(q)[d] ELSE server[d]]
  BY DEF Written, Apply
<1>5. DOMAIN Patched(q) = {d \in Cells : PathOf[d] = p}
  BY DEF Patched, Snapshot, OrderInv, BaseFresh, Written, At
<1> HIDE DEF P, N
<1>6. ASSUME NEW c \in Cells, PathOf[c] = p
      PROVE  server'[c] = WB!LastUpTo(c, N)
  <2> DEFINE new == {0} \cup {r \in applied' : log[r] = c}
  <2>1. server'[c] \in new /\ new \subseteq Nat /\ \A r \in new : r <= server'[c]
    BY WrittenServer
  <2>2. new = {0} \cup {r \in 1..N : log[r] = c}
    <3>1. ASSUME NEW r \in applied', log[r] = c PROVE r \in 1..N
      BY <3>1, <1>1, <1>2, <1>3, <1>6 DEF Path
    <3>2. ASSUME NEW r \in 1..N, log[r] = c PROVE r \in applied'
      <4>1. r \in DOMAIN log /\ Path(r) = p
        BY <3>2, <1>2, <1>3, <1>6 DEF Path
      <4>2. r = N \/ r < N
        BY <1>2, <1>3
      <4> QED
        BY <4>1, <4>2, <1>1, <1>2
    <3> QED
      BY <3>1, <3>2
  <2> HIDE DEF new
  <2>3. Max(new) = server'[c]
    BY <2>1, MaxUnique
  <2> QED
    BY <2>2, <2>3 DEF WB!LastUpTo, WB!Max, Max
<1>7. ASSUME NEW c \in Cells
      PROVE  server'[c] >= server[c]
  <2> DEFINE old == {0} \cup {r \in applied : log[r] = c}
  <2>1. server[c] = Max(old)
    BY DEF OrderInv, ServerIsApplied
  <2>2. server[c] \in old /\ server[c] \in Nat
    <3>1. old \in SUBSET (0..Len(log)) /\ old # {} /\ old \subseteq Nat
      BY <1>3
    <3> HIDE DEF old
    <3>2. server[c] \in old
      BY <2>1, <3>1, <1>3, MaxOf
    <3> QED
      BY <3>1, <3>2
  <2>3. server[c] <= server'[c] /\ server'[c] \in Nat
    BY <2>2, <1>1, WrittenServer
  <2> QED
    BY <2>2, <2>3
<1>8. server' = [c \in Cells |-> IF PathOf[c] = p THEN WB!LastUpTo(c, N) ELSE server[c]]
  <2>1. ASSUME NEW c \in Cells
        PROVE  server'[c] = IF PathOf[c] = p THEN WB!LastUpTo(c, N) ELSE server[c]
    BY <1>4, <1>5, <1>6
  <2> QED
    BY <2>1, <1>4
<1>9. WB!Advance(p, N)
  BY <1>1, <1>7, <1>8 DEF WB!Advance
<1> QED
  BY <1>1, <1>2, <1>9 DEF WB!Next, Paths

\* An append comes behind everything that is on file or applied.
LEMMA AppendOrder ==
  ASSUME Orderly, OrderInv, NEW q \in Procs, NEW c \in Cells, AppendEntry(q, c), AloneInv'
  PROVE  OrderInv'
<1> DEFINE new == Len(log) + 1
<1>1. TypeOK /\ HeldLogged /\ astray = {} /\ astray' = {}
  BY DEF OrderInv, AloneInv, LossInv, NoStrays
<1>2. fd[q] = Current
  BY <1>1 DEF AppendEntry
<1>3. /\ log' = Append(log, c) /\ current' = current \cup {new}
      /\ UNCHANGED <<stage, fd, wk, server, late, applied>>
  BY <1>2, BoundsAssumption DEF AppendEntry, remote, Current, Names
<1>4. /\ Len(log) \in Nat /\ DOMAIN log = 1..Len(log) /\ new \in Nat
      /\ DOMAIN log' = DOMAIN log \cup {new}
      /\ \A s \in DOMAIN log : log'[s] = log[s] /\ s < new
  <2>1. log \in Seq(Cells)
    BY <1>1 DEF TypeOK
  <2>2. log' \in Seq(Cells) /\ Len(log') = new /\ \A s \in 1..Len(log) : log'[s] = log[s]
    BY <2>1, <1>3, AppendProperties
  <2> QED
    BY <2>1, <2>2
<1>5. /\ \A n \in Names : stage[n] \subseteq DOMAIN log
      /\ applied \subseteq DOMAIN log /\ current \subseteq DOMAIN log
      /\ \A p \in Procs : wk[p].recs \subseteq DOMAIN log /\ wk[p].keep \subseteq DOMAIN log
  BY <1>1 DEF TypeOK, HeldLogged
<1>6. \A s \in DOMAIN log : Path(s)' = Path(s)
  BY <1>4 DEF Path
<1> HIDE DEF new
<1>7. InOrder'
  BY <1>3, <1>4, <1>5 DEF OrderInv, InOrder
<1>8. PlanIsStages' /\ BaseFresh' /\ late' = {}
  BY <1>3 DEF OrderInv, PlanIsStages, HasPlan, InHand, Rewriting, BaseFresh, Snapshot
<1>9. HandIsStage'
  <2> SUFFICES ASSUME NEW p \in Procs, InHand(p)
               PROVE  /\ wk[p].recs = stage[OnHand(p)]
                      /\ wk[p].todo \subseteq {Path(r)' : r \in wk[p].recs}
                      /\ \A r \in wk[p].keep, s \in wk[p].recs :
                           Path(r)' = Path(s)' => s \in wk[p].keep
    BY <1>3 DEF HandIsStage, InHand, Rewriting, OnHand, Path
  <2>1. /\ wk[p].recs = stage[OnHand(p)]
        /\ wk[p].todo \subseteq {Path(r) : r \in wk[p].recs}
        /\ \A r \in wk[p].keep, s \in wk[p].recs : Path(r) = Path(s) => s \in wk[p].keep
    BY DEF OrderInv, HandIsStage
  <2>2. {Path(r)' : r \in wk[p].recs} = {Path(r) : r \in wk[p].recs}
    BY <1>5, <1>6
  <2> QED
    BY <2>1, <2>2, <1>5, <1>6
<1>10. AppliedPrefix'
  <2> SUFFICES ASSUME NEW r \in applied, NEW s \in DOMAIN log', s < r, Path(s)' = Path(r)'
               PROVE  s \in applied
    BY <1>3 DEF AppliedPrefix
  <2>1. s \in DOMAIN log
    BY <1>4, <1>5
  <2> QED
    BY <2>1, <1>5, <1>6 DEF OrderInv, AppliedPrefix
<1>11. AppliedNewest'
  <2>1. ASSUME NEW n \in Names, NEW s \in stage[n], NEW r \in applied, s < r, Path(s)' = Path(r)'
        PROVE  r \in stage[n]
    BY <2>1, <1>5, <1>6 DEF OrderInv, AppliedNewest
  <2>2. ASSUME NEW s \in current', NEW r \in applied, Path(s)' = Path(r)'
        PROVE  r < s
    <3>1. CASE s \in current
      BY <3>1, <2>2, <1>5, <1>6 DEF OrderInv, AppliedNewest
    <3>2. CASE s = new
      BY <3>2, <1>4, <1>5
    <3> QED
      BY <3>1, <3>2, <1>3
  <2> QED
    BY <2>1, <2>2, <1>3 DEF AppliedNewest
<1>12. ServerIsApplied'
  <2>1. \A d \in Cells : {r \in applied' : log'[r] = d} = {r \in applied : log[r] = d}
    BY <1>3, <1>4, <1>5
  <2> QED
    BY <2>1, <1>3 DEF OrderInv, ServerIsApplied
<1> QED
  BY <1>7, <1>8, <1>9, <1>10, <1>11, <1>12 DEF OrderInv

\* A step of the worker that touches neither log nor files nor the server.
LEMMA LocalOrder ==
  ASSUME Orderly, OrderInv, AloneInv', NEW q \in Procs,
         UNCHANGED <<log, current, stage, server, late, applied>>,
         HasPlan(q)' => wk'[q].plan = {n \in Names : stage[n] # {}},
         InHand(q)' => /\ wk'[q].recs = stage[OnHand(q)']
                       /\ wk'[q].todo \subseteq {Path(r) : r \in wk'[q].recs}
                       /\ \A r \in wk'[q].keep, s \in wk'[q].recs :
                            Path(r) = Path(s) => s \in wk'[q].keep,
         wk'[q].pc = "write" => wk'[q].path \in wk'[q].todo /\ wk'[q].base = Snapshot(wk'[q].path)
  PROVE  OrderInv'
<1>1. \A p \in Procs : p = q
  BY DEF Orderly, Alone
<1>2. PlanIsStages'
  BY <1>1 DEF PlanIsStages
<1>3. HandIsStage'
  <2>1. \A r : Path(r)' = Path(r)
    BY DEF Path
  <2> QED
    BY <1>1, <2>1 DEF HandIsStage
<1>4. BaseFresh'
  BY <1>1 DEF BaseFresh, Snapshot
<1>5. InOrder' /\ AppliedPrefix' /\ AppliedNewest' /\ ServerIsApplied' /\ late' = {}
  BY DEF OrderInv, InOrder, AppliedPrefix, AppliedNewest, ServerIsApplied, Path
<1> QED
  BY <1>2, <1>3, <1>4, <1>5 DEF OrderInv

LEMMA WorkerOrder ==
  ASSUME Orderly, OrderInv, AloneInv', NEW q \in Procs,
         \/ RotateNothing(q) \/ RotateReopen(q) \/ ListStages(q) \/ ReadStage(q)
         \/ \E p \in Paths : ReadBase(q, p) \/ ReadBaseFails(q, p)
         \/ CreateTemp(q) \/ FillTemp(q) \/ RewriteFails(q)
  PROVE  OrderInv' /\ UNCHANGED <<log, server>>
<1>1. /\ TypeOK /\ HeldLogged /\ PlanIsStages /\ HandIsStage
  BY DEF OrderInv, AloneInv, LossInv
<1>2. CASE RotateNothing(q) \/ RotateReopen(q)
  <2>1. UNCHANGED <<log, current, stage, server, late, applied>>
    BY <1>2 DEF RotateNothing, RotateReopen, files, remote
  <2>2. wk'[q].pc = "list"
    BY <1>1, <1>2, MoveFields DEF RotateNothing, RotateReopen
  <2>3. OrderInv'
    BY <2>1, <2>2, LocalOrder DEF HasPlan, InHand, Rewriting
  <2> QED
    BY <2>1, <2>3
<1>3. CASE ListStages(q)
  <2>1. UNCHANGED <<log, current, stage, server, late, applied>>
    BY <1>3 DEF ListStages, files, remote
  <2>2. /\ wk'[q].plan = {n \in Names : stage[n] # {}}
        /\ wk'[q].pc \in {"idle", "stages"}
    BY <1>1, <1>3, ListFields
  <2>3. OrderInv'
    BY <2>1, <2>2, LocalOrder DEF HasPlan, InHand, Rewriting
  <2> QED
    BY <2>1, <2>3
<1>4. CASE ReadStage(q)
  <2>1. UNCHANGED <<log, current, stage, server, late, applied>> /\ wk[q].pc = "stages"
    BY <1>4 DEF ReadStage, files, remote, At
  <2>2. /\ wk'[q].plan = wk[q].plan /\ wk'[q].pc = "paths"
        /\ wk'[q].recs = stage[OnHand(q)] /\ wk'[q].keep = {}
        /\ wk'[q].todo = {PathOf[log[r]] : r \in stage[OnHand(q)]}
    BY <1>1, <1>4, ReadStageFields
  <2>3. wk'[q].plan = {n \in Names : stage[n] # {}} /\ OnHand(q)' = OnHand(q)
    BY <1>1, <2>1, <2>2 DEF PlanIsStages, HasPlan, InHand, OnHand
  <2>4. OrderInv'
    BY <2>1, <2>2, <2>3, LocalOrder DEF Path
  <2> QED
    BY <2>1, <2>4
<1>5. ASSUME NEW p \in Paths, ReadBase(q, p) PROVE OrderInv' /\ UNCHANGED <<log, server>>
  <2>1. /\ UNCHANGED <<log, current, stage, server, late, applied>>
        /\ wk[q].pc = "paths" /\ p \in wk[q].todo
    BY <1>5 DEF ReadBase, files, remote, At
  <2>2. /\ wk'[q].plan = wk[q].plan /\ wk'[q].recs = wk[q].recs
        /\ wk'[q].pc = "write" /\ wk'[q].path = p /\ wk'[q].base = Snapshot(p)
        /\ wk'[q].todo = wk[q].todo /\ wk'[q].keep = wk[q].keep
    BY <1>1, <1>5, ReadBaseFields
  <2>3. wk'[q].plan = {n \in Names : stage[n] # {}} /\ OnHand(q)' = OnHand(q)
    BY <1>1, <2>1, <2>2 DEF PlanIsStages, HasPlan, InHand, OnHand
  <2>4. /\ wk[q].recs = stage[OnHand(q)]
        /\ wk[q].todo \subseteq {Path(r) : r \in wk[q].recs}
        /\ \A r \in wk[q].keep, s \in wk[q].recs : Path(r) = Path(s) => s \in wk[q].keep
    BY <1>1, <2>1 DEF HandIsStage, InHand
  <2>5. OrderInv'
    BY <2>1, <2>2, <2>3, <2>4, LocalOrder
  <2> QED
    BY <2>1, <2>5
<1>6. ASSUME NEW p \in Paths, ReadBaseFails(q, p) PROVE OrderInv' /\ UNCHANGED <<log, server>>
  <2>1. /\ UNCHANGED <<log, current, stage, server, late, applied>>
        /\ wk[q].pc = "paths" /\ Deferred(q, p)
    BY <1>6 DEF ReadBaseFails, files, remote, At
  <2>2. /\ wk'[q].plan = wk[q].plan /\ wk'[q].recs = wk[q].recs
        /\ wk'[q].pc = "paths" /\ wk'[q].todo = wk[q].todo \ {p}
        /\ wk'[q].keep = wk[q].keep \cup {r \in wk[q].recs : PathOf[log[r]] = p}
    BY <1>1, <2>1, DeferredFields
  <2>3. wk'[q].plan = {n \in Names : stage[n] # {}} /\ OnHand(q)' = OnHand(q)
    BY <1>1, <2>1, <2>2 DEF PlanIsStages, HasPlan, InHand, OnHand
  <2>4. /\ wk[q].recs = stage[OnHand(q)]
        /\ wk[q].todo \subseteq {Path(r) : r \in wk[q].recs}
        /\ \A r \in wk[q].keep, s \in wk[q].recs : Path(r) = Path(s) => s \in wk[q].keep
    BY <1>1, <2>1 DEF HandIsStage, InHand
  <2>5. \A r \in wk'[q].keep, s \in wk'[q].recs : Path(r) = Path(s) => s \in wk'[q].keep
    BY <2>2, <2>4 DEF Path
  <2>6. OrderInv'
    BY <2>1, <2>2, <2>3, <2>4, <2>5, LocalOrder
  <2> QED
    BY <2>1, <2>6
<1>7. CASE CreateTemp(q) \/ FillTemp(q)
  <2>1. UNCHANGED <<log, current, stage, server, late, applied>>
    <3>1. CASE CreateTemp(q)
      BY <3>1 DEF CreateTemp, remote
    <3>2. CASE FillTemp(q)
      <4>1. out[q] = "temp"
        BY <3>2 DEF FillTemp, At, Rewriting, OrderInv, AloneInv, LoneRewrite
      <4> QED
        BY <3>2, <4>1 DEF FillTemp, remote
    <3> QED
      BY <1>7, <3>1, <3>2
  <2>2. /\ InHand(q)
        /\ \E pc \in {"fill", "rename"} : Become(q, [wk[q] EXCEPT !.pc = pc])
    BY <1>7 DEF CreateTemp, FillTemp, At, InHand, Rewriting
  <2>3. /\ wk'[q].plan = wk[q].plan /\ wk'[q].recs = wk[q].recs
        /\ wk'[q].pc \in {"fill", "rename"}
        /\ wk'[q].todo = wk[q].todo /\ wk'[q].keep = wk[q].keep
    BY <1>1, <2>2, MoveFields
  <2>4. wk'[q].plan = {n \in Names : stage[n] # {}} /\ OnHand(q)' = OnHand(q)
    BY <1>1, <2>2, <2>3 DEF PlanIsStages, HasPlan, OnHand
  <2>5. /\ wk[q].recs = stage[OnHand(q)]
        /\ wk[q].todo \subseteq {Path(r) : r \in wk[q].recs}
        /\ \A r \in wk[q].keep, s \in wk[q].recs : Path(r) = Path(s) => s \in wk[q].keep
    BY <1>1, <2>2 DEF HandIsStage
  <2>6. OrderInv'
    BY <2>1, <2>3, <2>4, <2>5, LocalOrder
  <2> QED
    BY <2>1, <2>6
<1>8. CASE RewriteFails(q)
  <2>1. /\ UNCHANGED <<log, current, stage, server, late, applied>> /\ Become(q, Idle)
    BY <1>8 DEF RewriteFails, remote
  <2>2. wk'[q].pc = "idle"
    BY <1>1, <2>1, BecomeFields, IdleFields
  <2>3. OrderInv'
    BY <2>1, <2>2, LocalOrder DEF HasPlan, InHand, Rewriting
  <2> QED
    BY <2>1, <2>3
<1> QED
  BY <1>2, <1>3, <1>4, <1>5, <1>6, <1>7, <1>8

\* A write: the file advances, and what is not kept is applied.
LEMMA WriteOrder ==
  ASSUME Orderly, OrderInv, AloneInv', NEW q \in Procs,
         \/ \E p \in Paths : WriteSparse(q, p)
         \/ WriteSparseFails(q)
  PROVE  OrderInv' /\ [WB!Next]_<<log, server>>
<1> DEFINE p == wk[q].path
<1>1. /\ TypeOK /\ HeldLogged /\ PlanIsStages /\ HandIsStage /\ p \in Paths
      /\ \A o \in Procs : o = q
  BY DEF OrderInv, AloneInv, LossInv, TypeOK, Worker, Orderly, Alone
<1>2. /\ At(q, "write") /\ late' = late /\ UNCHANGED <<log, current, stage>>
      /\ Flushed(q) \/ Deferred(q, p)
      /\ Written(q) \/ UNCHANGED <<server, applied>>
  <2>1. CASE \E o \in Paths : WriteSparse(q, o)
    BY <2>1 DEF WriteSparse, Written, files
  <2>2. CASE WriteSparseFails(q)
    BY <2>2 DEF WriteSparseFails, Written, files, remote, Orderly
  <2> QED
    BY <2>1, <2>2
<1>3. /\ wk'[q].plan = wk[q].plan /\ wk'[q].recs = wk[q].recs
      /\ wk'[q].pc = "paths" /\ wk'[q].todo = wk[q].todo \ {p}
      /\ \/ wk'[q].keep = wk[q].keep
         \/ wk'[q].keep = wk[q].keep \cup {r \in wk[q].recs : PathOf[log[r]] = p}
  BY <1>1, <1>2, FlushedFields, DeferredFields
<1>4. OnHand(q)' = OnHand(q) /\ InHand(q)
  BY <1>2, <1>3 DEF OnHand, InHand, At
<1>5. PlanIsStages'
  BY <1>1, <1>2, <1>3 DEF PlanIsStages, HasPlan, InHand, At
<1>6. /\ wk[q].recs = stage[OnHand(q)]
      /\ wk[q].todo \subseteq {Path(r) : r \in wk[q].recs}
      /\ \A r \in wk[q].keep, s \in wk[q].recs : Path(r) = Path(s) => s \in wk[q].keep
  BY <1>1, <1>4 DEF HandIsStage
<1>7. HandIsStage'
  <2>1. \A r : Path(r)' = Path(r)
    BY <1>2 DEF Path
  <2>2. \A r \in wk'[q].keep, s \in wk'[q].recs : Path(r) = Path(s) => s \in wk'[q].keep
    BY <1>3, <1>6 DEF Path
  <2> QED
    BY <2>1, <2>2, <1>1, <1>2, <1>3, <1>4, <1>6 DEF HandIsStage
<1>8. BaseFresh'
  BY <1>1, <1>3 DEF BaseFresh
<1>9. AppliedPrefix' /\ AppliedNewest' /\ ServerIsApplied'
  <2>1. CASE Written(q)
    BY <2>1, WrittenOrder
  <2>2. CASE UNCHANGED <<server, applied>>
    BY <2>2, <1>2 DEF OrderInv, AppliedPrefix, AppliedNewest, ServerIsApplied, Path
  <2> QED
    BY <1>2, <2>1, <2>2
<1>10. InOrder' /\ late' = {}
  BY <1>2 DEF OrderInv, InOrder
<1>11. [WB!Next]_<<log, server>>
  BY <1>2, WrittenAdvances
<1> QED
  BY <1>5, <1>7, <1>8, <1>9, <1>10, <1>11 DEF OrderInv

\* The renamed journal is the newest stage.
LEMMA RenameOrder ==
  ASSUME Orderly, OrderInv, AloneInv', NEW q \in Procs, RotateRename(q)
  PROVE  OrderInv'
<1> DEFINE new == renames + 1
<1>1. /\ TypeOK /\ NamesUsed /\ \A o \in Procs : o = q
  BY DEF OrderInv, AloneInv, LossInv, Orderly, Alone
<1>2. /\ current' = {} /\ stage' = [stage EXCEPT ![new] = current]
      /\ UNCHANGED <<log, server, late, applied>>
  BY DEF RotateRename, remote
<1>3. wk'[q].pc = "renamed"
  BY <1>1, MoveFields DEF RotateRename
<1>4. /\ renames \in Nat
      /\ \A n \in Names : stage[n] # {} => n < new
      /\ \A n \in Names : stage'[n] = IF n = new THEN current ELSE stage[n]
      /\ new \notin Names \/ stage[new] = {}
  BY <1>1, <1>2, BoundsAssumption DEF TypeOK, NamesUsed, Names
<1>5. InOrder'
  <2> HIDE DEF new
  <2>1. ASSUME NEW m \in Names, NEW n \in Names, m < n,
               NEW r \in stage'[m], NEW s \in stage'[n]
        PROVE  r < s
    <3>1. CASE n = new
      BY <3>1, <2>1, <1>4 DEF OrderInv, InOrder, Names
    <3>2. CASE n # new
      <4>1. n < new /\ s \in stage[n]
        BY <3>2, <2>1, <1>4
      <4>2. m # new
        BY <4>1, <2>1 DEF Names
      <4> QED
        BY <4>1, <4>2, <2>1, <1>4 DEF OrderInv, InOrder
    <3> QED
      BY <3>1, <3>2
  <2> QED
    BY <2>1, <1>2 DEF InOrder
<1> HIDE DEF new
<1>6. PlanIsStages' /\ HandIsStage' /\ BaseFresh'
  BY <1>1, <1>3 DEF PlanIsStages, HandIsStage, BaseFresh, HasPlan, InHand, Rewriting
<1>7. AppliedPrefix' /\ ServerIsApplied' /\ late' = {}
  BY <1>2 DEF OrderInv, AppliedPrefix, ServerIsApplied, Path
<1>8. AppliedNewest'
  <2>1. ASSUME NEW n \in Names, NEW s \in stage'[n], NEW r \in applied, s < r, Path(s) = Path(r)
        PROVE  r \in stage'[n]
    <3>1. CASE n = new
      <4>1. s \in current
        BY <3>1, <2>1, <1>4
      <4>2. r < s /\ r \in Nat /\ s \in Nat
        BY <4>1, <2>1, <1>1, LogType DEF OrderInv, AppliedNewest, TypeOK
      <4> QED
        BY <4>2, <2>1
    <3>2. CASE n # new
      BY <3>2, <2>1, <1>4 DEF OrderInv, AppliedNewest
    <3> QED
      BY <3>1, <3>2
  <2> QED
    BY <2>1, <1>2 DEF AppliedNewest, Path
<1> QED
  BY <1>5, <1>6, <1>7, <1>8 DEF OrderInv

LEMMA FinishOrder ==
  ASSUME Orderly, OrderInv, AloneInv', NEW q \in Procs, RemoveStage(q) \/ RenameTemp(q)
  PROVE  OrderInv' /\ UNCHANGED <<log, server>>
<1> DEFINE n == OnHand(q)
           keep == wk[q].keep
<1>1. /\ TypeOK /\ HeldLogged /\ \A o \in Procs : o = q
  BY DEF OrderInv, AloneInv, LossInv, Orderly, Alone
<1>2. /\ UNCHANGED <<log, current, server, late, applied>>
      /\ stage' = [stage EXCEPT ![n] = keep]
      /\ InHand(q) /\ HasPlan(q)
      /\ (keep = {} /\ Continue(q, n)) \/ Become(q, Idle)
  <2>1. CASE RemoveStage(q)
    BY <2>1 DEF RemoveStage, RemoveFile, OnHand, At, InHand, HasPlan, remote
  <2>2. CASE RenameTemp(q)
    <3>1. Rewriting(q) /\ wk[q].pc = "rename" /\ InHand(q) /\ HasPlan(q)
      BY <2>2 DEF RenameTemp, At, Rewriting, InHand, HasPlan
    <3>2. temp[n] = keep
      BY <3>1 DEF OrderInv, AloneInv, LoneRewrite, LossInv, RewriteSound
    <3> QED
      BY <2>2, <3>1, <3>2 DEF RenameTemp, OnHand, remote
  <2> QED
    BY <2>1, <2>2
<1>3. n \in Names /\ wk[q].plan = {m \in Names : stage[m] # {}}
  BY <1>1, <1>2, OnHandType DEF OrderInv, PlanIsStages
<1>4. /\ keep \subseteq stage[n]
      /\ \A r \in keep, s \in stage[n] : Path(r) = Path(s) => s \in keep
  BY <1>1, <1>2 DEF OrderInv, HandIsStage, HeldLogged
<1> HIDE DEF n, keep
<1>5. \A m \in Names : stage'[m] = IF m = n THEN keep ELSE stage[m]
  BY <1>1, <1>2 DEF TypeOK
<1>6. PlanIsStages' /\ wk'[q].pc \in {"idle", "stages"}
  <2>1. CASE keep = {} /\ Continue(q, n)
    <3>1. /\ wk'[q].plan = wk[q].plan \ {n} /\ wk'[q].pc \in {"idle", "stages"}
      BY <2>1, <1>1, ContinueFields
    <3>2. wk'[q].plan = {m \in Names : stage'[m] # {}}
      BY <2>1, <3>1, <1>3, <1>5
    <3> QED
      BY <3>1, <3>2, <1>1 DEF PlanIsStages
  <2>2. CASE Become(q, Idle)
    BY <2>2, <1>1, BecomeFields, IdleFields DEF PlanIsStages, HasPlan, InHand, Rewriting
  <2> QED
    BY <1>2, <2>1, <2>2
<1>7. HandIsStage' /\ BaseFresh'
  BY <1>1, <1>6 DEF HandIsStage, BaseFresh, InHand, Rewriting
<1>8. InOrder'
  BY <1>2, <1>4, <1>5 DEF OrderInv, InOrder
<1>9. AppliedPrefix' /\ ServerIsApplied' /\ late' = {}
  BY <1>2 DEF OrderInv, AppliedPrefix, ServerIsApplied, Path
<1>10. AppliedNewest'
  <2>1. ASSUME NEW m \in Names, NEW s \in stage'[m], NEW r \in applied, s < r, Path(s) = Path(r)
        PROVE  r \in stage'[m]
    BY <2>1, <1>3, <1>4, <1>5 DEF OrderInv, AppliedNewest
  <2> QED
    BY <2>1, <1>2 DEF OrderInv, AppliedNewest, Path
<1> QED
  BY <1>2, <1>6, <1>7, <1>8, <1>9, <1>10 DEF OrderInv

LEMMA RestartOrder ==
  ASSUME Orderly, OrderInv, AloneInv', NEW q \in Procs, Restart(q)
  PROVE  OrderInv' /\ UNCHANGED <<log, server>>
<1>1. UNCHANGED <<log, current, stage, server, late, applied>> /\ Become(q, Idle)
  BY DEF Restart, Orderly
<1>2. wk'[q].pc = "idle"
  BY <1>1, BecomeFields, IdleFields DEF OrderInv, AloneInv, LossInv
<1>3. OrderInv'
  BY <1>1, <1>2, LocalOrder DEF HasPlan, InHand, Rewriting
<1> QED
  BY <1>1, <1>3

\* Every step preserves the order, and is a step of WriteBack.
LEMMA NextOrder ==
  ASSUME Orderly, OrderInv, [Next]_vars
  PROVE  OrderInv' /\ [WB!Next]_<<log, server>>
<1>1. AloneInv' /\ TypeOK
  BY AloneNext DEF OrderInv, AloneInv, LossInv, Orderly
<1>2. ASSUME NEW q \in Mounts, NEW c \in Cells, AppendEntry(q, c)
      PROVE  OrderInv' /\ [WB!Next]_<<log, server>>
  <2>1. log' = Append(log, c) /\ server' = server
    BY <1>2 DEF AppendEntry, remote
  <2>2. WB!Next
    BY <2>1 DEF WB!Next, WB!Write
  <2> QED
    BY <2>2, <1>1, <1>2, AppendOrder, MountsAssumption
<1>3. ASSUME NEW q \in Procs, WorkerStep(q)
      PROVE  OrderInv' /\ [WB!Next]_<<log, server>>
  <2>1. CASE RotateRename(q)
    <3>1. UNCHANGED <<log, server>>
      BY <2>1 DEF RotateRename, remote
    <3> QED
      BY <3>1, <2>1, <1>1, RenameOrder
  <2>2. CASE DropStage(q)
    <3>1. OnHand(q) \in wk[q].plan /\ wk[q].plan = {n \in Names : stage[n] # {}}
      BY <2>2, OnHandType DEF DropStage, At, HasPlan, OrderInv, AloneInv, LossInv, PlanIsStages
    <3>2. stage[OnHand(q)] = {}
      BY <2>2 DEF DropStage, OnHand, Orderly, Alone
    <3> QED
      BY <3>1, <3>2
  <2>3. CASE RemoveStage(q) \/ RenameTemp(q)
    BY <2>3, <1>1, FinishOrder
  <2>4. CASE (\E p \in Paths : WriteSparse(q, p)) \/ WriteSparseFails(q)
    BY <2>4, <1>1, WriteOrder
  <2>5. CASE \/ RotateNothing(q) \/ RotateReopen(q) \/ ListStages(q) \/ ReadStage(q)
             \/ \E p \in Paths : ReadBase(q, p) \/ ReadBaseFails(q, p)
             \/ CreateTemp(q) \/ FillTemp(q) \/ RewriteFails(q)
    BY <2>5, <1>1, WorkerOrder
  <2>6. CASE RemoveStageFails(q)
    BY <2>6 DEF RemoveStageFails, Orderly
  <2> QED
    BY <1>3, <2>1, <2>2, <2>3, <2>4, <2>5, <2>6 DEF WorkerStep
<1>4. ASSUME NEW q \in Procs, Restart(q)
      PROVE  OrderInv' /\ [WB!Next]_<<log, server>>
  BY <1>1, <1>4, RestartOrder
<1>5. ASSUME NEW content \in late, ApplyLate(content)
      PROVE  OrderInv' /\ [WB!Next]_<<log, server>>
  BY DEF OrderInv
<1>6. CASE UNCHANGED vars
  <2>1. UNCHANGED <<log, current, stage, wk, server, late, applied>>
    BY <1>6 DEF vars, files, remote
  <2> QED
    BY <2>1, <1>1 DEF OrderInv, InOrder, PlanIsStages, HandIsStage, BaseFresh, Snapshot,
      AppliedPrefix, AppliedNewest, ServerIsApplied, HasPlan, InHand, Rewriting, OnHand, Path
<1> QED
  BY <1>2, <1>3, <1>4, <1>5, <1>6 DEF Next

\* The server's copy of each file is a prefix of the log's writes to it and never
\* goes back, whatever fails and whenever the process is killed: the rotation,
\* the flush of stages in order and their replay implement WriteBack.
THEOREM OrderlyWritesBack ==
  ASSUME Orderly
  PROVE  Spec => ImplementsWriteBack
<1>1. Init => WB!Init
  BY DEF Init, WB!Init
<1>2. OrderInv /\ [Next]_vars => OrderInv' /\ [WB!Next]_<<log, server>>
  BY NextOrder
<1> QED
  BY <1>1, <1>2, OrderInit, PTL DEF Spec, ImplementsWriteBack, WB!Spec

===============================================================================
