--------------------------- MODULE ClientWrite_proofs ---------------------------
(***************************************************************************)
(* What a client's write goes through: the log that makes it durable and   *)
(* the wire that takes it to the server.                                   *)
(*                                                                         *)
(* Proofs, for any number of writers, group-commit workers, flush workers  *)
(* and appends, that GroupCommit is type correct and that its three safety *)
(* invariants hold (IInv is the inductive invariant); and, for any files,  *)
(* paths and sizes, that Wire delivers what was sent and that the chunker  *)
(* cuts where it may (WireInv is the inductive invariant).                 *)
(*                                                                         *)
(* What Wire computes, it computes by recursion over data: hashes, joined  *)
(* pieces, decoded blocks, chunks.  Facts about such functions are proved  *)
(* by induction in the form of a set: one that holds 0, and with each      *)
(* number the next, holds all numbers (Induction).                         *)
(***************************************************************************)
EXTENDS GroupCommit, Wire, SequenceTheorems, WellFoundedInduction, TLAPS

-----------------------------------------------------------------------------
(* GroupCommit.                                                             *)

\* The initial state satisfies the inductive invariant.
LEMMA InitIInv == Init => IInv
<1> SUFFICES ASSUME Init PROVE IInv
  OBVIOUS
<1> USE MaxAppendsAssumption DEF Init
<1>1. TypeOK
  <2>1. 0 \in 0..MaxAppends
    OBVIOUS
  <2>2. rec \in [Writers -> 0..MaxAppends]
    BY <2>1
  <2>3. cpc \in [Workers -> {"idle", "sync", "drain", "rotate", "rotated"}]
    OBVIOUS
  <2>4. wpc \in [Writers -> {"idle", "appended", "waiting", "ok", "err"}]
    OBVIOUS
  <2>5. result \in [Workers -> {"ok", "err"}]
    OBVIOUS
  <2> QED
    BY <2>1, <2>2, <2>3, <2>4, <2>5 DEF TypeOK
<1>2. UnsyncedIsCovered /\ StagedIsDurable /\ LockedIsSynced
  BY DEF UnsyncedIsCovered, StagedIsDurable, LockedIsSynced
<1>3. RotatorHoldsLock /\ UnansweredIsHeld
  BY DEF RotatorHoldsLock, UnansweredIsHeld
<1> QED
  BY <1>1, <1>2, <1>3 DEF IInv

\* What an answer to the waiters does to them: none is left, and nobody is
\* made to wait.  Only records are acknowledged, as who waits has appended one.
LEMMA AnswerEffect ==
  ASSUME IInv, NEW r \in {"ok", "err"}, Answer(r)
  PROVE  /\ wpc' \in [Writers -> {"idle", "appended", "waiting", "ok", "err"}]
         /\ acked' \subseteq Records
         /\ waiters' = {}
         /\ \A w \in Writers :
              wpc'[w] \in {"appended", "waiting"} => wpc'[w] = wpc[w]
<1> USE DEF Answer
<1>1. wpc \in [Writers -> {"idle", "appended", "waiting", "ok", "err"}]
  BY DEF IInv, TypeOK
<1>2. wpc' = [w \in Writers |-> IF w \in waiters THEN r ELSE wpc[w]]
  OBVIOUS
<1>3. ASSUME NEW w \in Writers
      PROVE  /\ wpc'[w] \in {"idle", "appended", "waiting", "ok", "err"}
             /\ wpc'[w] \in {"appended", "waiting"} => wpc'[w] = wpc[w]
  BY <1>1, <1>2
<1>4. wpc' \in [Writers -> {"idle", "appended", "waiting", "ok", "err"}]
  BY <1>2, <1>3
<1>5. acked' \subseteq Records
  <2>1. ASSUME NEW w \in waiters PROVE rec[w] \in Records
    BY DEF IInv, TypeOK, UnansweredIsHeld
  <2>2. acked \subseteq Records
    BY DEF IInv, TypeOK
  <2> QED
    BY <2>1, <2>2
<1> QED
  BY <1>3, <1>4, <1>5

\* Every step of every task, and a power failure, preserves it.
LEMMA NextIInv == IInv /\ [Next]_vars => IInv'
<1> SUFFICES ASSUME IInv, [Next]_vars PROVE IInv'
  OBVIOUS
<1> USE MaxAppendsAssumption, FreeAssumption
    DEF IInv, TypeOK, Records, Workers, writerVars, fileVars, historyVars
<1>1. ASSUME NEW w \in Writers, AppendEntry(w) PROVE IInv'
  <2> USE DEF AppendEntry
  <2>1. TypeOK'
    BY <1>1
  <2>2. UnsyncedIsCovered'
    BY <1>1 DEF UnsyncedIsCovered
  <2>3. StagedIsDurable'
    BY <1>1 DEF StagedIsDurable
  <2>4. RotatorHoldsLock'
    BY <1>1 DEF RotatorHoldsLock
  <2>5. LockedIsSynced'
    BY <1>1 DEF LockedIsSynced
  <2>6. UnansweredIsHeld'
    BY <1>1 DEF UnansweredIsHeld
  <2> QED
    BY <2>1, <2>2, <2>3, <2>4, <2>5, <2>6
<1>2. ASSUME NEW w \in Writers, WaitGroupCommit(w) PROVE IInv'
  <2> USE DEF WaitGroupCommit
  <2>1. TypeOK'
    BY <1>2
  <2>2. UnsyncedIsCovered'
    BY <1>2 DEF UnsyncedIsCovered
  <2>3. StagedIsDurable'
    BY <1>2 DEF StagedIsDurable
  <2>4. RotatorHoldsLock'
    BY <1>2 DEF RotatorHoldsLock
  <2>5. LockedIsSynced'
    BY <1>2 DEF LockedIsSynced
  <2>6. UnansweredIsHeld'
    BY <1>2 DEF UnansweredIsHeld
  <2> QED
    BY <2>1, <2>2, <2>3, <2>4, <2>5, <2>6
<1>3. ASSUME NEW c \in Workers, SwapFlags(c) PROVE IInv'
  <2> USE DEF SwapFlags
  <2>1. TypeOK'
    BY <1>3
  <2>2. UnsyncedIsCovered'
    BY <1>3 DEF UnsyncedIsCovered
  <2>3. StagedIsDurable'
    BY <1>3 DEF StagedIsDurable
  <2>4. RotatorHoldsLock'
    BY <1>3 DEF RotatorHoldsLock
  <2>5. LockedIsSynced'
    BY <1>3 DEF LockedIsSynced
  <2>6. UnansweredIsHeld'
    BY <1>3 DEF UnansweredIsHeld
  <2> QED
    BY <2>1, <2>2, <2>3, <2>4, <2>5, <2>6
<1>4. ASSUME NEW c \in Workers, SyncJournal(c) PROVE IInv'
  <2> USE DEF SyncJournal, SyncSucceeds, SyncFails
  <2>1. TypeOK'
    BY <1>4
  <2>2. UnsyncedIsCovered'
    BY <1>4 DEF UnsyncedIsCovered
  <2>3. StagedIsDurable'
    BY <1>4 DEF StagedIsDurable
  <2>4. RotatorHoldsLock'
    BY <1>4 DEF RotatorHoldsLock
  <2>5. LockedIsSynced'
    BY <1>4 DEF LockedIsSynced
  <2>6. UnansweredIsHeld'
    BY <1>4 DEF UnansweredIsHeld
  <2> QED
    BY <2>1, <2>2, <2>3, <2>4, <2>5, <2>6
<1>5. ASSUME NEW c \in Workers, DrainWaiters(c) PROVE IInv'
  <2> DEFINE r == result[c]
  <2>1. Answer(r) /\ r \in {"ok", "err"}
    BY <1>5 DEF DrainWaiters
  <2>2. /\ wpc' \in [Writers -> {"idle", "appended", "waiting", "ok", "err"}]
        /\ acked' \subseteq Records
        /\ waiters' = {}
        /\ \A w \in Writers :
             wpc'[w] \in {"appended", "waiting"} => wpc'[w] = wpc[w]
    BY <2>1, AnswerEffect
  <2> HIDE DEF r
  <2> USE DEF DrainWaiters
  <2>3. TypeOK'
    BY <1>5, <2>2
  <2>4. UnsyncedIsCovered'
    BY <1>5, <2>2 DEF UnsyncedIsCovered
  <2>5. StagedIsDurable'
    BY <1>5, <2>2 DEF StagedIsDurable
  <2>6. RotatorHoldsLock'
    BY <1>5, <2>2 DEF RotatorHoldsLock
  <2>7. LockedIsSynced'
    BY <1>5, <2>2 DEF LockedIsSynced
  <2>8. UnansweredIsHeld'
    BY <1>5, <2>2 DEF UnansweredIsHeld
  <2> QED
    BY <2>3, <2>4, <2>5, <2>6, <2>7, <2>8
<1>6. ASSUME NEW c \in Workers, RotateNothing(c) PROVE IInv'
  <2> USE DEF RotateNothing
  <2>1. TypeOK'
    BY <1>6
  <2>2. UnsyncedIsCovered'
    BY <1>6 DEF UnsyncedIsCovered
  <2>3. StagedIsDurable'
    BY <1>6 DEF StagedIsDurable
  <2>4. RotatorHoldsLock'
    BY <1>6 DEF RotatorHoldsLock
  <2>5. LockedIsSynced'
    BY <1>6 DEF LockedIsSynced
  <2>6. UnansweredIsHeld'
    BY <1>6 DEF UnansweredIsHeld
  <2> QED
    BY <2>1, <2>2, <2>3, <2>4, <2>5, <2>6
<1>7. ASSUME NEW c \in Workers, RotateRename(c) PROVE IInv'
  <2> USE DEF RotateRename, SyncSucceeds
  <2>1. TypeOK'
    BY <1>7 DEF RotatorHoldsLock
  <2>2. UnsyncedIsCovered'
    BY <1>7 DEF UnsyncedIsCovered
  <2>3. StagedIsDurable'
    BY <1>7 DEF StagedIsDurable
  <2>4. RotatorHoldsLock'
    BY <1>7 DEF RotatorHoldsLock
  <2>5. LockedIsSynced'
    BY <1>7 DEF LockedIsSynced
  <2>6. UnansweredIsHeld'
    BY <1>7 DEF UnansweredIsHeld
  <2> QED
    BY <2>1, <2>2, <2>3, <2>4, <2>5, <2>6
<1>8. ASSUME NEW c \in Workers, RotateFailsEarly(c) PROVE IInv'
  <2> USE DEF RotateFailsEarly, SyncSucceeds, SyncFails
  <2>1. TypeOK'
    BY <1>8
  <2>2. UnsyncedIsCovered'
    BY <1>8 DEF UnsyncedIsCovered
  <2>3. StagedIsDurable'
    BY <1>8 DEF StagedIsDurable
  <2>4. RotatorHoldsLock'
    BY <1>8 DEF RotatorHoldsLock
  <2>5. LockedIsSynced'
    BY <1>8 DEF LockedIsSynced
  <2>6. UnansweredIsHeld'
    BY <1>8 DEF UnansweredIsHeld
  <2> QED
    BY <2>1, <2>2, <2>3, <2>4, <2>5, <2>6
<1>9. ASSUME NEW c \in Workers, RotateFinish(c) PROVE IInv'
  <2> DEFINE r == "ok"
  <2>1. Answer(r) /\ r \in {"ok", "err"}
    BY <1>9 DEF RotateFinish
  <2>2. /\ wpc' \in [Writers -> {"idle", "appended", "waiting", "ok", "err"}]
        /\ acked' \subseteq Records
        /\ waiters' = {}
        /\ \A w \in Writers :
             wpc'[w] \in {"appended", "waiting"} => wpc'[w] = wpc[w]
    BY <2>1, AnswerEffect
  <2> HIDE DEF r
  <2> USE DEF RotateFinish
  <2>3. TypeOK'
    BY <1>9, <2>2 DEF RotatorHoldsLock, LockedIsSynced
  <2>4. UnsyncedIsCovered'
    BY <1>9, <2>2, ZenonT(60) DEF UnsyncedIsCovered, RotatorHoldsLock, LockedIsSynced
  <2>5. StagedIsDurable'
    BY <1>9, <2>2, ZenonT(60) DEF StagedIsDurable, RotatorHoldsLock, LockedIsSynced
  <2>6. RotatorHoldsLock'
    BY <1>9, <2>2 DEF RotatorHoldsLock
  <2>7. LockedIsSynced'
    BY <1>9, <2>2 DEF LockedIsSynced
  <2>8. UnansweredIsHeld'
    BY <1>9, <2>2 DEF UnansweredIsHeld, RotatorHoldsLock, LockedIsSynced
  <2> QED
    BY <2>3, <2>4, <2>5, <2>6, <2>7, <2>8
<1>10. ASSUME NEW c \in Workers, RotateFailsLate(c) PROVE IInv'
  <2> USE DEF RotateFailsLate
  <2>1. TypeOK'
    BY <1>10
  <2>2. UnsyncedIsCovered'
    BY <1>10 DEF UnsyncedIsCovered
  <2>3. StagedIsDurable'
    BY <1>10 DEF StagedIsDurable
  <2>4. RotatorHoldsLock'
    BY <1>10 DEF RotatorHoldsLock
  <2>5. LockedIsSynced'
    BY <1>10 DEF LockedIsSynced
  <2>6. UnansweredIsHeld'
    BY <1>10 DEF UnansweredIsHeld
  <2> QED
    BY <2>1, <2>2, <2>3, <2>4, <2>5, <2>6
<1>11. ASSUME PowerFailure PROVE IInv'
  <2> USE DEF PowerFailure
  <2>1. TypeOK'
    BY <1>11
  <2>2. UnsyncedIsCovered'
    BY <1>11 DEF UnsyncedIsCovered
  <2>3. StagedIsDurable'
    BY <1>11 DEF StagedIsDurable
  <2>4. RotatorHoldsLock'
    BY <1>11 DEF RotatorHoldsLock
  <2>5. LockedIsSynced'
    BY <1>11 DEF LockedIsSynced
  <2>6. UnansweredIsHeld'
    BY <1>11 DEF UnansweredIsHeld
  <2> QED
    BY <2>1, <2>2, <2>3, <2>4, <2>5, <2>6
<1>12. CASE UNCHANGED vars
  BY <1>12 DEF vars, UnsyncedIsCovered, StagedIsDurable, RotatorHoldsLock,
               LockedIsSynced, UnansweredIsHeld
<1> QED
  BY <1>1, <1>2, <1>3, <1>4, <1>5, <1>6, <1>7, <1>8, <1>9, <1>10, <1>11, <1>12
  DEF Next, WriterStep, WorkerStep

\* The inductive invariant holds in every reachable state.
THEOREM Invariance == Spec => []IInv
  BY InitIInv, NextIInv, PTL DEF Spec

\* Type correctness of the write-ahead log's in-memory and on-disk state.
THEOREM TypeCorrect == Spec => []TypeOK
<1>1. IInv => TypeOK
  BY DEF IInv
<1> QED
  BY <1>1, Invariance, PTL

\* However many callbacks and workers interleave, an appended record that is
\* not on disk has an fsync coming (wal/mod.rs append_entry, group_commit).
THEOREM UnsyncedCovered == Spec => []UnsyncedIsCovered
<1>1. IInv => UnsyncedIsCovered
  BY DEF IInv
<1> QED
  BY <1>1, Invariance, PTL

\* Stage files hold only fsynced records (wal/mod.rs rotate_for_flush).
THEOREM StagedDurable == Spec => []StagedIsDurable
<1>1. IInv => StagedIsDurable
  BY DEF IInv
<1> QED
  BY <1>1, Invariance, PTL

\* Every waiter rotate_for_flush answers Ok has its record on disk.
THEOREM RotateTruthful == Spec => []RotateAnswersTruthfully
<1>1. IInv => RotateAnswersTruthfully
  BY DEF IInv, TypeOK, RotateAnswersTruthfully, LockedIsSynced, UnansweredIsHeld
<1> QED
  BY <1>1, Invariance, PTL

-----------------------------------------------------------------------------
(* Induction.                                                               *)

\* What holds of 0, and of n + 1 when of n, holds of every natural number: a least
\* counterexample would have a predecessor.
LEMMA Induction ==
  ASSUME NEW S, 0 \in S, \A n \in Nat : n \in S => n + 1 \in S
  PROVE  Nat \subseteq S
<1> DEFINE T == Nat \ S
           R == {p \in Nat \X Nat : p[1] < p[2]}
<1>1. IsWellFoundedOn(R, Nat)
  BY NatLessThanWellFounded DEF OpToRel
<1> SUFFICES ASSUME T # {} PROVE FALSE
  OBVIOUS
<1>2. PICK x \in T : \A y \in T : ~(<<y, x>> \in R)
  <2>1. T \subseteq Nat
    OBVIOUS
  <2> HIDE DEF T, R
  <2> QED
    BY <1>1, <2>1, WFMin
<1>3. x # 0 /\ x - 1 \in Nat
  OBVIOUS
<1>4. x - 1 \notin T
  <2>1. <<x - 1, x>> \in R
    BY <1>3
  <2> QED
    BY <1>2, <2>1
<1> QED
  BY <1>3, <1>4

\* The least member of a set of naturals.
LEMMA MinOf ==
  ASSUME NEW S \in SUBSET Nat, S # {}
  PROVE  Min(S) \in S /\ \A y \in S : Min(S) <= y
<1> DEFINE R == {p \in Nat \X Nat : p[1] < p[2]}
<1>1. IsWellFoundedOn(R, Nat)
  BY NatLessThanWellFounded DEF OpToRel
<1>2. PICK x \in S : \A y \in S : ~(<<y, x>> \in R)
  <2> HIDE DEF R
  <2> QED
    BY <1>1, WFMin
<1>3. ASSUME NEW y \in S PROVE x =< y
  <2>1. y < x => <<y, x>> \in R
    OBVIOUS
  <2>2. ~(y < x)
    BY <1>2, <2>1
  <2> QED
    BY <2>2
<1> HIDE DEF R
<1> QED
  BY <1>3 DEF Min

-----------------------------------------------------------------------------
(* FlattenSeq.                                                              *)

\* The pieces of s up to the n-th, joined.
FlattenBody(f, s, n) == f = [i \in 1 .. n |-> IF i = 1 THEN s[i] ELSE f[i - 1] \o s[i]]

\* Each value of the joining function adds one piece.
LEMMA FlattenStep ==
  ASSUME NEW f, NEW s, NEW n \in Nat, FlattenBody(f, s, n), NEW i \in Nat,
         i # 0, i + 1 \in 1 .. n
  PROVE  f[i + 1] = f[i] \o s[i + 1]
<1>1. f[i + 1] = IF i + 1 = 1 THEN s[i + 1] ELSE f[(i + 1) - 1] \o s[i + 1]
  BY Zenon DEF FlattenBody
<1>2. i + 1 # 1 /\ (i + 1) - 1 = i
  OBVIOUS
<1> QED
  BY <1>1, <1>2

\* There is such a function, for any number of pieces.
LEMMA FlattenExists ==
  ASSUME NEW s, NEW n \in Nat
  PROVE  \E f : FlattenBody(f, s, n)
<1> DEFINE S == {k \in Nat : \E f : FlattenBody(f, s, k)}
<1>1. 0 \in S
  <2>1. FlattenBody([i \in 1 .. 0 |-> 0], s, 0)
    BY DEF FlattenBody
  <2> QED
    BY <2>1
<1>2. ASSUME NEW k \in Nat, k \in S PROVE k + 1 \in S
  <2>1. PICK f : FlattenBody(f, s, k)
    BY <1>2
  <2> DEFINE g == [i \in 1 .. k + 1 |->
                     IF i <= k THEN f[i] ELSE IF i = 1 THEN s[i] ELSE f[k] \o s[i]]
  <2>2. \A i \in 1 .. k + 1 : g[i] = IF i = 1 THEN s[i] ELSE g[i - 1] \o s[i]
    <3> TAKE i \in 1 .. k + 1
    <3>1. CASE i <= k
      <4>1. i \in 1 .. k /\ (i # 1 => i - 1 \in 1 .. k)
        BY <3>1
      <4>2. f[i] = IF i = 1 THEN s[i] ELSE f[i - 1] \o s[i]
        BY <4>1, <2>1 DEF FlattenBody
      <4> QED
        BY <4>1, <4>2
    <3>2. CASE i = k + 1
      BY <3>2
    <3> QED
      BY <3>1, <3>2
  <2>3. FlattenBody(g, s, k + 1)
    BY <2>2, Zenon DEF FlattenBody
  <2> QED
    BY <2>3
<1> HIDE DEF S
<1>3. n \in S
  BY <1>1, <1>2, Induction
<1> QED
  BY <1>3 DEF S

\* What holds of the empty sequence, and of a longer one when of the shorter,
\* holds of all.
LEMMA SeqInduction ==
  ASSUME NEW S, NEW P, <<>> \in P,
         \A s \in Seq(S) : s \in P => \A e \in S : Append(s, e) \in P
  PROVE  Seq(S) \subseteq P
<1> DEFINE N == {k \in Nat : \A s \in Seq(S) : Len(s) = k => s \in P}
<1>1. 0 \in N
  <2>1. ASSUME NEW s \in Seq(S), Len(s) = 0 PROVE s \in P
    BY <2>1, EmptySeq
  <2> QED
    BY <2>1
<1>2. ASSUME NEW k \in Nat, k \in N PROVE k + 1 \in N
  <2>1. ASSUME NEW s \in Seq(S), Len(s) = k + 1 PROVE s \in P
    <3>1. s # <<>>
      BY <2>1, EmptySeq
    <3>2. PICK t \in Seq(S), e \in S : s = Append(t, e)
      BY <3>1, SequenceEmptyOrAppend
    <3>3. Len(t) = k
      BY <2>1, <3>2, AppendProperties, LenProperties
    <3>4. t \in P
      BY <1>2, <3>3
    <3> QED
      BY <3>2, <3>4
  <2> QED
    BY <2>1
<1> HIDE DEF N
<1>3. Nat \subseteq N
  BY <1>1, <1>2, Induction
<1>4. ASSUME NEW s \in Seq(S) PROVE s \in P
  <2>1. Len(s) \in Nat
    BY LenProperties
  <2> QED
    BY <1>3, <2>1 DEF N
<1> QED
  BY <1>4

\* The function that FlattenSeq chooses.
FlattenFunction(s) ==
  CHOOSE f : f = [i \in 1 .. Len(s) |-> IF i = 1 THEN s[i] ELSE f[i - 1] \o s[i]]

\* FlattenSeq is the last value of the function that it chooses.
LEMMA FlattenByFunction ==
  ASSUME NEW S, NEW s \in Seq(S), s # <<>>
  PROVE  /\ FlattenBody(FlattenFunction(s), s, Len(s))
         /\ FlattenSeq(s) = FlattenFunction(s)[Len(s)]
<1>1. Len(s) \in Nat /\ Len(s) # 0
  BY EmptySeq, LenProperties
<1>2. \E f : FlattenBody(f, s, Len(s))
  BY <1>1, FlattenExists
<1>3. FlattenBody(FlattenFunction(s), s, Len(s))
  BY <1>2, Zenon DEF FlattenBody, FlattenFunction
<1>4. FlattenSeq(s) = FlattenFunction(s)[Len(s)]
  BY <1>1 DEF FlattenSeq, FlattenFunction
<1> QED
  BY <1>3, <1>4

\* Nothing joined is nothing.
LEMMA FlattenEmpty == FlattenSeq(<<>>) = <<>>
  BY EmptySeq DEF FlattenSeq

\* A piece more at the end.
LEMMA FlattenAppend ==
  ASSUME NEW S, NEW s \in Seq(Seq(S)), NEW x \in Seq(S)
  PROVE  FlattenSeq(Append(s, x)) = FlattenSeq(s) \o x
<1> DEFINE t == Append(s, x)
           n == Len(s)
           F == FlattenFunction(t)
           G == FlattenFunction(s)
<1>1. /\ t \in Seq(Seq(S)) /\ t # <<>> /\ n \in Nat /\ Len(t) = n + 1
      /\ \A i \in 1 .. n : t[i] = s[i]
      /\ t[n + 1] = x
  BY AppendProperties, LenProperties
<1>2. FlattenBody(F, t, n + 1) /\ FlattenSeq(t) = F[n + 1]
  BY <1>1, FlattenByFunction
<1>3. CASE n = 0
  <2>1. s = <<>> /\ FlattenSeq(s) = <<>>
    BY <1>3, EmptySeq, FlattenEmpty
  <2>2. F[1] = x
    BY <1>1, <1>2, <1>3 DEF FlattenBody
  <2>3. <<>> \o x = x
    BY ConcatEmptySeq
  <2> QED
    BY <1>2, <1>3, <2>1, <2>2, <2>3, SMTT(60)
<1>4. CASE n # 0
  <2>1. s # <<>>
    BY <1>4, EmptySeq
  <2>2. FlattenBody(G, s, n) /\ FlattenSeq(s) = G[n]
    BY <2>1, FlattenByFunction
  <2> DEFINE N == {k \in Nat : k + 1 \in 1 .. n => F[k + 1] = G[k + 1]}
  <2> HIDE DEF t, F, G, n
  <2>3. 0 \in N
    <3>1. 1 \in 1 .. n => F[1] = G[1]
      BY <1>1, <1>2, <2>2 DEF FlattenBody
    <3> QED
      BY <3>1
  <2>4. ASSUME NEW k \in Nat, k \in N PROVE k + 1 \in N
    <3>1. ASSUME k + 1 + 1 \in 1 .. n PROVE F[k + 1 + 1] = G[k + 1 + 1]
      <4>1. F[k + 1] = G[k + 1]
        BY <2>4, <3>1, <1>1
      <4>2. k + 1 + 1 \in 1 .. n + 1 /\ k + 1 \in Nat /\ k + 1 # 0 /\ n + 1 \in Nat
        BY <3>1, <1>1
      <4>3. F[k + 1 + 1] = F[k + 1] \o t[k + 1 + 1]
        BY <4>2, <1>2, FlattenStep, ZenonT(60)
      <4>4. G[k + 1 + 1] = G[k + 1] \o s[k + 1 + 1]
        BY <4>2, <3>1, <2>2, <1>1, FlattenStep, ZenonT(60)
      <4> QED
        BY <4>1, <4>3, <4>4, <1>1, <3>1
    <3> QED
      BY <3>1
  <2>5. n - 1 \in N
    <3>1. n - 1 \in Nat
      BY <1>1, <1>4
    <3> HIDE DEF N
    <3>2. Nat \subseteq N
      BY <2>3, <2>4, Induction
    <3> QED
      BY <3>1, <3>2
  <2>6. F[n] = G[n]
    BY <2>5, <1>1, <1>4
  <2>7. F[n + 1] = F[n] \o t[n + 1]
    <3>1. n + 1 \in 1 .. n + 1 /\ n # 0 /\ n \in Nat /\ n + 1 \in Nat
      BY <1>1, <1>4
    <3> QED
      BY <1>2, <3>1, FlattenStep, ZenonT(60)
  <2> QED
    BY <1>1, <1>2, <2>2, <2>6, <2>7 DEF t
<1> QED
  BY <1>3, <1>4

\* Pieces with elements of S make a sequence over S.
LEMMA FlattenType ==
  ASSUME NEW S, NEW s \in Seq(Seq(S))
  PROVE  FlattenSeq(s) \in Seq(S)
<1> DEFINE P == {t \in Seq(Seq(S)) : FlattenSeq(t) \in Seq(S)}
<1>1. <<>> \in P
  BY FlattenEmpty, EmptySeq
<1>2. ASSUME NEW t \in Seq(Seq(S)), t \in P, NEW x \in Seq(S) PROVE Append(t, x) \in P
  <2>1. FlattenSeq(Append(t, x)) = FlattenSeq(t) \o x /\ Append(t, x) \in Seq(Seq(S))
    BY FlattenAppend, AppendProperties
  <2>2. FlattenSeq(t) \o x \in Seq(S)
    BY <1>2, ConcatProperties
  <2> QED
    BY <2>1, <2>2
<1> HIDE DEF P
<1>3. Seq(Seq(S)) \subseteq P
  BY <1>1, <1>2, SeqInduction
<1> QED
  BY <1>3 DEF P

\* Joining distributes over concatenation.
LEMMA FlattenConcat ==
  ASSUME NEW S, NEW s \in Seq(Seq(S)), NEW t \in Seq(Seq(S))
  PROVE  FlattenSeq(s \o t) = FlattenSeq(s) \o FlattenSeq(t)
<1> DEFINE P == {u \in Seq(Seq(S)) : FlattenSeq(s \o u) = FlattenSeq(s) \o FlattenSeq(u)}
<1>0. FlattenSeq(s) \in Seq(S)
  BY FlattenType
<1>1. <<>> \in P
  <2>1. s \o <<>> = s /\ FlattenSeq(s) \o <<>> = FlattenSeq(s) /\ <<>> \in Seq(Seq(S))
    BY <1>0, ConcatEmptySeq, EmptySeq
  <2> QED
    BY <2>1, FlattenEmpty
<1>2. ASSUME NEW u \in Seq(Seq(S)), u \in P, NEW x \in Seq(S) PROVE Append(u, x) \in P
  <2>1. s \o u \in Seq(Seq(S)) /\ Append(u, x) \in Seq(Seq(S)) /\ FlattenSeq(u) \in Seq(S)
    BY ConcatProperties, AppendProperties, FlattenType
  <2>2. s \o Append(u, x) = Append(s \o u, x)
    <3>1. <<x>> \in Seq(Seq(S))
      OBVIOUS
    <3>2. Append(u, x) = u \o <<x>> /\ Append(s \o u, x) = (s \o u) \o <<x>>
      BY <2>1, AppendIsConcat
    <3> QED
      BY <3>1, <3>2, ConcatAssociative, SMTT(60)
  <2>3. FlattenSeq(s \o Append(u, x)) = (FlattenSeq(s) \o FlattenSeq(u)) \o x
    BY <1>2, <2>1, <2>2, FlattenAppend, ZenonT(60)
  <2>4. (FlattenSeq(s) \o FlattenSeq(u)) \o x = FlattenSeq(s) \o (FlattenSeq(u) \o x)
    BY <1>0, <2>1, ConcatAssociative, SMTT(60)
  <2>5. FlattenSeq(Append(u, x)) = FlattenSeq(u) \o x
    BY FlattenAppend
  <2> QED
    BY <2>1, <2>3, <2>4, <2>5
<1> HIDE DEF P
<1>3. Seq(Seq(S)) \subseteq P
  BY <1>1, <1>2, SeqInduction
<1> QED
  BY <1>3 DEF P

\* One piece joined is that piece.
LEMMA FlattenOne ==
  ASSUME NEW S, NEW x \in Seq(S)
  PROVE  <<x>> \in Seq(Seq(S)) /\ FlattenSeq(<<x>>) = x
<1>1. <<>> \in Seq(Seq(S)) /\ <<x>> \in Seq(Seq(S)) /\ Append(<<>>, x) = <<x>>
  <2>1. <<>> \in Seq(Seq(S)) /\ <<x>> \in Seq(Seq(S))
    BY EmptySeq
  <2>2. Append(<<>>, x) = <<>> \o <<x>> /\ <<>> \o <<x>> = <<x>>
    BY <2>1, AppendIsConcat, ConcatEmptySeq
  <2> QED
    BY <2>1, <2>2
<1>2. FlattenSeq(<<x>>) = <<>> \o x
  BY <1>1, FlattenAppend, FlattenEmpty
<1> QED
  BY <1>1, <1>2, ConcatEmptySeq

-----------------------------------------------------------------------------
(* Recursion over 0 .. n, each value from the one before.                   *)

\* f starts with base, and its i-th value is the step G[i] of the one before.
Recurs(f, n, base, G) == f[0] = base /\ \A i \in 1 .. n : f[i] = G[i][f[i - 1]]

\* A function that recurs exists.
LEMMA Recursion ==
  ASSUME NEW n \in Nat, NEW X, NEW base \in X, NEW G \in [1 .. n -> [X -> X]]
  PROVE  \E f \in [0 .. n -> X] : Recurs(f, n, base, G)
<1> DEFINE Upto(k, f) == f[0] = base /\ \A i \in 1 .. k : f[i] = G[i][f[i - 1]]
           N == {k \in Nat : k <= n => \E f \in [0 .. k -> X] : Upto(k, f)}
<1>1. 0 \in N
  <2>1. [i \in 0 .. 0 |-> base] \in [0 .. 0 -> X] /\ Upto(0, [i \in 0 .. 0 |-> base])
    OBVIOUS
  <2> QED
    BY <2>1
<1>2. ASSUME NEW k \in Nat, k \in N PROVE k + 1 \in N
  <2>1. SUFFICES ASSUME k + 1 <= n PROVE \E g \in [0 .. k + 1 -> X] : Upto(k + 1, g)
    OBVIOUS
  <2>2. PICK f \in [0 .. k -> X] : Upto(k, f)
    BY <1>2, <2>1
  <2> DEFINE g == [i \in 0 .. k + 1 |-> IF i <= k THEN f[i] ELSE G[k + 1][f[k]]]
  <2>3. f[k] \in X /\ k + 1 \in 1 .. n
    BY <2>1, <2>2
  <2>4. G[k + 1][f[k]] \in X
    BY <2>3
  <2>5. g \in [0 .. k + 1 -> X]
    BY <2>2, <2>4
  <2>6. g[0] = base /\ g[k + 1] = G[k + 1][f[k]] /\ \A i \in 0 .. k : g[i] = f[i]
    BY <2>2
  <2>7. ASSUME NEW i \in 1 .. k + 1 PROVE g[i] = G[i][g[i - 1]]
    <3> HIDE DEF g
    <3>1. CASE i <= k
      <4>1. i \in 1 .. k /\ i \in 0 .. k /\ i - 1 \in 0 .. k
        BY <3>1
      <4>2. f[i] = G[i][f[i - 1]]
        BY <2>2, <4>1
      <4> QED
        BY <2>6, <4>1, <4>2
    <3>2. CASE i = k + 1
      <4>1. k \in 0 .. k /\ i - 1 = k
        BY <3>2
      <4> QED
        BY <2>6, <3>2, <4>1
    <3> QED
      BY <3>1, <3>2
  <2> QED
    BY <2>5, <2>6, <2>7
<1> HIDE DEF N
<1>3. n \in N
  BY <1>1, <1>2, Induction
<1> QED
  BY <1>3 DEF N, Recurs

-----------------------------------------------------------------------------
(* Hashes.                                                                  *)

Bytes == 0 .. Base - 1

HashStep(h, b) == (Base + 1) * h + b + 1

\* The function behind Hash, by its values.
LEMMA HashByFunction ==
  ASSUME NEW d \in Seq(Bytes)
  PROVE  \E h \in [0 .. Len(d) -> Nat] :
           /\ h[0] = 0
           /\ \A i \in 1 .. Len(d) : h[i] = HashStep(h[i - 1], d[i])
           /\ Hash(d) = h[Len(d)]
<1> DEFINE n == Len(d)
           Body(h) == h = [i \in 0 .. n |-> IF i = 0 THEN 0
                                            ELSE (Base + 1) * h[i - 1] + d[i] + 1]
           Good(h) == h[0] = 0 /\ \A i \in 1 .. n : h[i] = HashStep(h[i - 1], d[i])
           G == [i \in 1 .. n |-> [h \in Nat |-> HashStep(h, d[i])]]
<1>1. n \in Nat /\ (\A i \in 1 .. n : d[i] \in Nat) /\ Base \in Nat
  BY LenProperties, ElementOfSeq, SizesAssumption, SMTT(60) DEF Bytes
<1>2. \A h \in Nat, b \in Nat : HashStep(h, b) \in Nat
  BY <1>1 DEF HashStep
<1>3. G \in [1 .. n -> [Nat -> Nat]]
  BY <1>1, <1>2
<1>4. PICK f \in [0 .. n -> Nat] : Recurs(f, n, 0, G)
  <2>1. n \in Nat /\ 0 \in Nat
    BY <1>1
  <2> HIDE DEF G, n
  <2> QED
    BY <1>3, <2>1, Recursion
<1>5. f[0] = 0 /\ \A i \in 1 .. n : f[i] = G[i][f[i - 1]]
  BY <1>4 DEF Recurs
<1>6. Good(f)
  <2>1. ASSUME NEW i \in 1 .. n PROVE f[i] = HashStep(f[i - 1], d[i])
    <3>1. f[i - 1] \in Nat
      BY <1>1, SMTT(60)
    <3> QED
      BY <1>5, <3>1
  <2> QED
    BY <1>5, <2>1
<1>7. Body(f)
  <2> HIDE DEF n
  <2>1. \A i \in 0 .. n : f[i] = IF i = 0 THEN 0 ELSE (Base + 1) * f[i - 1] + d[i] + 1
    <3> TAKE i \in 0 .. n
    <3>1. CASE i = 0
      BY <1>6, <3>1
    <3>2. CASE i # 0
      <4>1. i \in 1 .. n
        BY <3>2, <1>1
      <4> QED
        BY <1>6, <3>2, <4>1 DEF HashStep
    <3> QED
      BY <3>1, <3>2
  <2> QED
    BY <2>1
<1> DEFINE H == CHOOSE h : Body(h)
<1>8. Body(H) /\ Hash(d) = H[n]
  <2>1. \E h : Body(h)
    BY <1>7
  <2>2. Body(H)
    BY <2>1, Zenon
  <2>3. Hash(d) = H[n]
    BY DEF Hash
  <2> QED
    BY <2>2, <2>3
\* H and f are the same function: by their values, one after the other.
<1> DEFINE N == {k \in Nat : k <= n => H[k] = f[k]}
<1> HIDE DEF n, H
<1>9. \A k \in 0 .. n : H[k] = IF k = 0 THEN 0 ELSE (Base + 1) * H[k - 1] + d[k] + 1
  BY <1>8, Zenon
<1>10. 0 \in N
  BY <1>9, <1>5, <1>1
<1>11. ASSUME NEW k \in Nat, k \in N PROVE k + 1 \in N
  <2>1. ASSUME k + 1 <= n PROVE H[k + 1] = f[k + 1]
    <3>1. H[k] = f[k] /\ k + 1 \in 0 .. n /\ k + 1 \in 1 .. n /\ k + 1 # 0
          /\ (k + 1) - 1 = k
      BY <1>11, <2>1, <1>1
    <3>2. H[k + 1] = (Base + 1) * H[k] + d[k + 1] + 1
      BY <1>9, <3>1
    <3>3. f[k + 1] = (Base + 1) * f[k] + d[k + 1] + 1
      BY <1>6, <3>1 DEF HashStep
    <3> QED
      BY <3>1, <3>2, <3>3
  <2> QED
    BY <2>1
<1>12. H[n] = f[n]
  <2> HIDE DEF N
  <2>1. Nat \subseteq N
    BY <1>10, <1>11, Induction
  <2>2. n \in N
    BY <2>1, <1>1
  <2> QED
    BY <2>2, <1>1 DEF N
<1> QED
  BY <1>5, <1>6, <1>8, <1>12 DEF n

\* The hash of nothing.
LEMMA HashEmpty == Hash(<<>>) = 0
<1>1. <<>> \in Seq(Bytes) /\ Len(<<>>) = 0
  BY EmptySeq
<1> QED
  BY <1>1, HashByFunction

\* A hash is a natural number.
LEMMA HashType ==
  ASSUME NEW d \in Seq(Bytes)
  PROVE  Hash(d) \in Nat
<1>1. Len(d) \in 0 .. Len(d)
  BY LenProperties
<1> QED
  BY <1>1, HashByFunction

\* The hash of a content with one byte more.
LEMMA HashAppend ==
  ASSUME NEW d \in Seq(Bytes), NEW b \in Bytes
  PROVE  Hash(Append(d, b)) = HashStep(Hash(d), b)
<1> DEFINE e == Append(d, b)
           n == Len(d)
<1>1. /\ e \in Seq(Bytes) /\ n \in Nat /\ Len(e) = n + 1
      /\ \A i \in 1 .. n : e[i] = d[i]
      /\ e[n + 1] = b
  BY AppendProperties, LenProperties
<1>2. PICK f \in [0 .. n -> Nat] :
        /\ f[0] = 0
        /\ \A i \in 1 .. n : f[i] = HashStep(f[i - 1], d[i])
        /\ Hash(d) = f[n]
  BY HashByFunction
<1>3. PICK g \in [0 .. n + 1 -> Nat] :
        /\ g[0] = 0
        /\ \A i \in 1 .. n + 1 : g[i] = HashStep(g[i - 1], e[i])
        /\ Hash(e) = g[n + 1]
  BY <1>1, HashByFunction
<1> DEFINE N == {k \in Nat : k <= n => g[k] = f[k]}
<1> HIDE DEF e, n
<1>4. 0 \in N
  BY <1>2, <1>3
<1>5. ASSUME NEW k \in Nat, k \in N PROVE k + 1 \in N
  <2>1. ASSUME k + 1 <= n PROVE g[k + 1] = f[k + 1]
    <3>1. /\ g[k] = f[k] /\ k + 1 \in 1 .. n /\ k + 1 \in 1 .. n + 1
          /\ (k + 1) - 1 = k
      BY <1>5, <2>1, <1>1
    <3>2. f[k + 1] = HashStep(f[k], d[k + 1])
      BY <1>2, <3>1
    <3>3. g[k + 1] = HashStep(g[k], e[k + 1])
      BY <1>3, <3>1
    <3> QED
      BY <1>1, <3>1, <3>2, <3>3
  <2> QED
    BY <2>1
<1>6. g[n] = f[n]
  <2> HIDE DEF N
  <2>1. Nat \subseteq N
    BY <1>4, <1>5, Induction
  <2>2. n \in N
    BY <2>1, <1>1
  <2> QED
    BY <2>2, <1>1 DEF N
<1>7. g[n + 1] = HashStep(g[n], e[n + 1])
  <2>1. n + 1 \in 1 .. n + 1 /\ (n + 1) - 1 = n
    BY <1>1
  <2> QED
    BY <1>3, <2>1
<1> QED
  BY <1>1, <1>2, <1>3, <1>6, <1>7 DEF e

\* One step of the hash loses nothing.
LEMMA HashStepInjective ==
  ASSUME NEW g \in Nat, NEW h \in Nat, NEW b \in Bytes, NEW c \in Bytes,
         HashStep(g, b) = HashStep(h, c)
  PROVE  g = h /\ b = c
<1>1. Base \in Nat /\ b \in Nat /\ c \in Nat /\ b < Base /\ c < Base
  BY SizesAssumption DEF Bytes
<1>2. (Base + 1) * (g - h) = c - b
  BY <1>1 DEF HashStep
<1>3. g - h \in Int /\ (g - h >= 1 => (Base + 1) * (g - h) >= Base + 1)
      /\ (g - h <= -1 => (Base + 1) * (g - h) <= -(Base + 1))
  BY <1>1
<1>4. ~(g - h >= 1) /\ ~(g - h <= -1)
  BY <1>1, <1>2, <1>3
<1>5. g = h
  BY <1>3, <1>4
<1> QED
  BY <1>1, <1>2, <1>5

\* What the hash is modelled as: no two contents have the same.
LEMMA HashInjective ==
  ASSUME NEW d \in Seq(Bytes), NEW e \in Seq(Bytes), Hash(d) = Hash(e)
  PROVE  d = e
<1> DEFINE P == {s \in Seq(Bytes) : \A t \in Seq(Bytes) : Hash(s) = Hash(t) => s = t}
<1>0. Base \in Nat
  BY SizesAssumption
<1>1. ASSUME NEW s \in Seq(Bytes), NEW b \in Bytes
      PROVE  Hash(Append(s, b)) # 0 /\ Append(s, b) \in Seq(Bytes)
  <2>1. HashStep(Hash(s), b) > 0
    <3>1. Hash(s) \in Nat /\ b \in Nat
      BY <1>0, HashType DEF Bytes
    <3>2. (Base + 1) * Hash(s) >= 0
      BY <1>0, <3>1
    <3> QED
      BY <1>0, <3>1, <3>2, SMTT(60) DEF HashStep
  <2> QED
    BY <2>1, HashAppend, AppendProperties
<1>2. <<>> \in P
  <2>1. ASSUME NEW t \in Seq(Bytes), Hash(t) = 0 PROVE t = <<>>
    <3>1. ASSUME t # <<>> PROVE FALSE
      <4>1. PICK s \in Seq(Bytes), b \in Bytes : t = Append(s, b)
        BY <3>1, SequenceEmptyOrAppend
      <4> QED
        BY <1>1, <2>1, <4>1
    <3> QED
      BY <3>1
  <2> QED
    BY <2>1, HashEmpty, EmptySeq
<1>3. ASSUME NEW s \in Seq(Bytes), s \in P, NEW b \in Bytes PROVE Append(s, b) \in P
  <2>1. ASSUME NEW t \in Seq(Bytes), Hash(Append(s, b)) = Hash(t)
        PROVE  Append(s, b) = t
    <3>1. t # <<>>
      BY <1>1, <2>1, HashEmpty
    <3>2. PICK u \in Seq(Bytes), c \in Bytes : t = Append(u, c)
      BY <3>1, SequenceEmptyOrAppend
    <3>3. HashStep(Hash(s), b) = HashStep(Hash(u), c)
      BY <2>1, <3>2, HashAppend
    <3>4. Hash(s) = Hash(u) /\ b = c
      BY <3>3, HashType, HashStepInjective
    <3>5. s = u
      BY <1>3, <3>4
    <3> QED
      BY <3>2, <3>4, <3>5
  <2> QED
    BY <1>1, <2>1
<1> HIDE DEF P
<1>4. Seq(Bytes) \subseteq P
  BY <1>2, <1>3, SeqInduction
<1> QED
  BY <1>4 DEF P

\* Where the elements of a concatenation come from.
LEMMA ConcatAt ==
  ASSUME NEW S, NEW s \in Seq(S), NEW t \in Seq(S)
  PROVE  /\ s \o t \in Seq(S) /\ Len(s \o t) = Len(s) + Len(t)
         /\ Len(s) \in Nat /\ Len(t) \in Nat
         /\ \A i \in 1 .. Len(s) : (s \o t)[i] = s[i]
         /\ \A i \in 1 .. Len(t) : (s \o t)[Len(s) + i] = t[i]
<1>1. /\ s \o t \in Seq(S) /\ Len(s \o t) = Len(s) + Len(t)
      /\ \A i \in 1 .. Len(s) + Len(t) :
           (s \o t)[i] = IF i <= Len(s) THEN s[i] ELSE t[i - Len(s)]
  BY ConcatProperties
<1>2. Len(s) \in Nat /\ Len(t) \in Nat
  BY LenProperties
<1>3. ASSUME NEW i \in 1 .. Len(s) PROVE (s \o t)[i] = s[i]
  <2>1. i \in 1 .. Len(s) + Len(t) /\ i <= Len(s)
    BY <1>2
  <2> QED
    BY <1>1, <2>1
<1>4. ASSUME NEW i \in 1 .. Len(t) PROVE (s \o t)[Len(s) + i] = t[i]
  <2>1. /\ Len(s) + i \in 1 .. Len(s) + Len(t) /\ ~(Len(s) + i <= Len(s))
        /\ (Len(s) + i) - Len(s) = i
    BY <1>2
  <2> QED
    BY <1>1, <2>1
<1> QED
  BY <1>1, <1>2, <1>3, <1>4

-----------------------------------------------------------------------------
(* Codecs.                                                                  *)

\* Contents that the other side can decompress, and the blocks made of them.
Plains == {d \in Seq(Bytes) : Len(d) <= MaxPlain}
Blocks == [hash : Nat, data : Plains]

\* Contents are sequences of integers, and none is the mark of an error.
LEMMA BytesAreInts ==
  /\ Bytes \subseteq Nat /\ Bytes \subseteq Int /\ Base \in Nat
  /\ \A d \in Seq(Bytes) : d \in Seq(Int) /\ d # Error
<1>1. Base \in Nat /\ Bytes \subseteq Nat /\ Bytes \subseteq Int
  BY SizesAssumption DEF Bytes
<1>2. ASSUME NEW d \in Seq(Bytes) PROVE d \in Seq(Int) /\ d # Error
  <2>1. d \in Seq(Int)
    BY <1>1, SeqMonotonic
  <2>2. Len(Error) = 1 /\ Error[1] = -1
    BY DEF Error
  <2>3. ASSUME Len(d) = 1 PROVE d[1] \in Nat
    <3>1. 1 \in 1 .. Len(d)
      BY <2>3
    <3>2. d[1] \in Bytes
      BY <3>1, ElementOfSeq
    <3> QED
      BY <1>1, <3>2
  <2> QED
    BY <2>1, <2>2, <2>3
<1> QED
  BY <1>1, <1>2

\* zstd undoes what it did.
LEMMA CompressInverse ==
  ASSUME NEW d \in Plains, d # <<>>
  PROVE  /\ Compress(d) \in Seq(Int) /\ Compress(d) # <<>>
         /\ Decompress(Compress(d)) = d
<1> DEFINE c == Compress(d)
           n == Len(d)
<1>1. /\ d \in Seq(Bytes) /\ d \in Seq(Int) /\ d # Error
      /\ n \in Nat /\ n # 0 /\ n <= MaxPlain /\ MaxPlain \in Nat
      /\ DOMAIN d = 1 .. n /\ d = [i \in 1 .. n |-> d[i]]
      /\ \A i \in 1 .. n : d[i] \in Int
  <2>1. d \in Seq(Bytes) /\ n <= MaxPlain /\ MaxPlain \in Nat
    BY SizesAssumption DEF Plains
  <2>2. d \in Seq(Int) /\ d # Error
    BY <2>1, BytesAreInts
  <2>3. n \in Nat /\ n # 0 /\ DOMAIN d = 1 .. n /\ d \in [1 .. n -> Int]
    BY <2>2, LenProperties, EmptySeq
  <2> QED
    BY <2>1, <2>2, <2>3
<1>2. CASE n > 3 /\ \A i \in DOMAIN d : d[i] = d[1]
  <2>1. c = <<0, d[1], n>>
    BY <1>2 DEF Compress
  <2>2. c \in Seq(Int) /\ c # <<>> /\ c[1] = 0 /\ c[2] = d[1] /\ c[3] = n
    BY <1>1, <2>1, <1>2
  <2>3. [i \in 1 .. c[3] |-> c[2]] = d
    <3>1. [i \in 1 .. n |-> d[1]] = [i \in 1 .. n |-> d[i]]
      BY <1>1, <1>2
    <3> QED
      BY <1>1, <2>2, <3>1
  <2>4. ~(Len([i \in 1 .. c[3] |-> c[2]]) > MaxPlain)
    <3> DEFINE run == [i \in 1 .. c[3] |-> c[2]]
    <3>1. Len(run) = n
      BY <2>3
    <3> HIDE DEF run
    <3>2. ~(Len(run) > MaxPlain)
      BY <1>1, <3>1
    <3> QED
      BY <3>2 DEF run
  <2>5. Decompress(c) = d
    BY <2>2, <2>3, <2>4 DEF Decompress
  <2> QED
    BY <2>2, <2>5
<1>3. CASE ~(n > 3 /\ \A i \in DOMAIN d : d[i] = d[1])
  <2>1. c = <<1>> \o d
    BY <1>3 DEF Compress
  <2>2. <<1>> \in Seq(Int) /\ Len(<<1>>) = 1
    OBVIOUS
  <2>3. c \in Seq(Int) /\ Len(c) = n + 1 /\ c[1] = 1 /\ c # <<>>
        /\ \A i \in 1 .. n : c[i + 1] = d[i]
    <3>1. c \in Seq(Int) /\ Len(c) = 1 + n
          /\ (\A i \in 1 .. 1 : c[i] = <<1>>[i]) /\ \A i \in 1 .. n : c[1 + i] = d[i]
      BY <2>1, <2>2, <1>1, ConcatAt, SMTT(60)
    <3>2. c[1] = 1
      BY <3>1
    <3>3. c # <<>>
      BY <3>1, <1>1, EmptySeq
    <3> HIDE DEF c, n
    <3>4. 1 + n = n + 1 /\ \A i \in 1 .. n : 1 + i = i + 1
      BY <1>1
    <3> QED
      BY <3>1, <3>2, <3>3, <3>4
  <2>4. Tail(c) = d
    <3>1. /\ Tail(c) \in Seq(Int) /\ Len(Tail(c)) = n
          /\ \A i \in 1 .. n : Tail(c)[i] = c[i + 1]
      <4> HIDE DEF c, n
      <4> QED
        BY <2>3, <1>1, HeadTailProperties, SMTT(60)
    <3>2. \A i \in 1 .. n : Tail(c)[i] = d[i]
      BY <2>3, <3>1
    <3> QED
      BY <1>1, <3>1, <3>2, SeqEqual
  <2>5. Decompress(c) = d
    <3>1. ~(Len(d) > MaxPlain)
      BY <1>1
    <3> HIDE DEF c, n
    <3> QED
      BY <2>3, <2>4, <3>1 DEF Decompress
  <2> QED
    BY <2>3, <2>5
<1> QED
  BY <1>2, <1>3

\* What a block of the payload is read as.
Unpacked(z, raw) == IF z /\ raw /= <<>> THEN Decompress(raw) ELSE raw

\* A block is read as it was packed, and an unpacked one as it is.
LEMMA PackedInverse ==
  ASSUME NEW d \in Plains
  PROVE  /\ Packed(d) \in Seq(Int)
         /\ Unpacked(TRUE, Packed(d)) = d /\ Unpacked(FALSE, d) = d
<1>1. CASE d = <<>>
  BY <1>1, EmptySeq DEF Packed, Unpacked
<1>2. CASE d # <<>>
  BY <1>2, CompressInverse DEF Packed, Unpacked
<1> QED
  BY <1>1, <1>2

\* Payloads and cursors, closed for the provers.
Joined(s, t) == s \o t
Piece(h, raw) == <<h, Len(raw)>> \o raw
Cursor(a, bs) == [at |-> Len(a) + 1, blocks |-> bs]

\* One block, wherever it lies in the payload.
LEMMA BlockDecoded ==
  ASSUME NEW z, NEW a \in Seq(Int), NEW t \in Seq(Int),
         NEW raw \in Seq(Int), NEW bs, NEW b \in Blocks, Unpacked(z, raw) = b.data
  PROVE  DecodeBlock(Joined(Joined(a, Piece(b.hash, raw)), t), z, Cursor(a, bs))
           = Cursor(Joined(a, Piece(b.hash, raw)), Append(bs, b))
<1> DEFINE n == Len(raw)
           m == Len(a)
           hd == <<b.hash, n>>
           pc1 == hd \o raw
           ap == a \o pc1
           w == ap \o t
           so == [at |-> m + 1, blocks |-> bs]
<1>1. n \in Nat /\ m \in Nat /\ Len(t) \in Nat /\ b.hash \in Int
  BY LenProperties DEF Blocks
<1>2. hd \in Seq(Int) /\ Len(hd) = 2 /\ hd[1] = b.hash /\ hd[2] = n
  BY <1>1
<1>3. /\ pc1 \in Seq(Int) /\ Len(pc1) = n + 2 /\ pc1[1] = b.hash /\ pc1[2] = n
      /\ \A i \in 1 .. n : pc1[i + 2] = raw[i]
  <2>1. /\ pc1 \in Seq(Int) /\ Len(pc1) = 2 + n
        /\ (\A i \in 1 .. 2 : pc1[i] = hd[i]) /\ \A i \in 1 .. n : pc1[2 + i] = raw[i]
    BY <1>1, <1>2, ConcatAt, SMTT(60)
  <2> HIDE DEF pc1, hd, n
  <2>2. 2 + n = n + 2 /\ \A i \in 1 .. n : 2 + i = i + 2
    BY <1>1
  <2> QED
    BY <1>2, <2>1, <2>2
<1>4. /\ ap \in Seq(Int) /\ Len(ap) = m + n + 2
      /\ \A i \in 1 .. n + 2 : ap[m + i] = pc1[i]
  <2> HIDE DEF pc1
  <2>1. /\ ap \in Seq(Int) /\ Len(ap) = m + Len(pc1)
        /\ \A i \in 1 .. Len(pc1) : ap[m + i] = pc1[i]
    <3>1. pc1 \in Seq(Int)
      BY <1>3
    <3> QED
      BY <3>1, ConcatAt
  <2> HIDE DEF ap, m, n
  <2> QED
    BY <1>1, <1>3, <2>1
<1>5. /\ w \in Seq(Int) /\ Len(w) >= m + n + 2
      /\ \A i \in 1 .. n + 2 : w[m + i] = pc1[i]
  <2> HIDE DEF pc1, ap
  <2>1. /\ w \in Seq(Int) /\ Len(w) = Len(ap) + Len(t)
        /\ \A i \in 1 .. Len(ap) : w[i] = ap[i]
    BY <1>4, ConcatAt, ZenonT(60)
  <2> HIDE DEF w, m, n
  <2>2. ASSUME NEW i \in 1 .. n + 2 PROVE w[m + i] = pc1[i]
    <3>1. m + i \in 1 .. Len(ap)
      BY <1>1, <1>4
    <3> QED
      BY <1>4, <2>1, <3>1
  <2> QED
    BY <1>1, <1>4, <2>1, <2>2
<1>6. w[m + 1] = b.hash /\ w[(m + 1) + 1] = n
  <2> HIDE DEF pc1, ap, w, m, n
  <2>1. 1 \in 1 .. n + 2 /\ 2 \in 1 .. n + 2 /\ (m + 1) + 1 = m + 2
    BY <1>1
  <2> QED
    BY <1>3, <1>5, <2>1
<1>7. SubSeq(w, (m + 1) + 2, (m + 1) + 1 + n) = raw
  <2> HIDE DEF pc1, ap, w, m
  <2> DEFINE lo == (m + 1) + 2
             hi == (m + 1) + 1 + n
  <2>1. lo \in Int /\ hi \in Int /\ hi - lo + 1 = n /\ (lo <= hi <=> n # 0)
    BY <1>1
  <2>2. ASSUME NEW i \in lo .. hi PROVE w[i] \in Int
    <3>1. i \in 1 .. Len(w)
      BY <1>1, <1>5, LenProperties, SMTT(60)
    <3> QED
      BY <1>5, <3>1, ElementOfSeq
  <2>3. /\ SubSeq(w, lo, hi) \in Seq(Int)
        /\ Len(SubSeq(w, lo, hi)) = IF lo <= hi THEN hi - lo + 1 ELSE 0
        /\ \A i \in 1 .. hi - lo + 1 : SubSeq(w, lo, hi)[i] = w[lo + i - 1]
    <3> HIDE DEF lo, hi
    <3> QED
      BY <2>1, <2>2, SubSeqProperties
  <2>4. ASSUME NEW i \in 1 .. n PROVE SubSeq(w, lo, hi)[i] = raw[i]
    <3>1. lo + i - 1 = m + (i + 2) /\ i + 2 \in 1 .. n + 2 /\ i \in 1 .. hi - lo + 1
      BY <1>1
    <3>2. SubSeq(w, lo, hi)[i] = w[m + (i + 2)]
      BY <2>3, <3>1
    <3> QED
      BY <1>3, <1>5, <3>1, <3>2
  <2>5. Len(SubSeq(w, lo, hi)) = n
    BY <2>1, <2>3, <1>1
  <2> QED
    BY <2>3, <2>4, <2>5, SeqEqual
<1>8. b.data # Error /\ b = [hash |-> b.hash, data |-> b.data]
  BY BytesAreInts DEF Blocks, Plains
<1>9. /\ so.at = m + 1 /\ so.blocks = bs
      /\ ~(so.at = 0 \/ so.at + 1 > Len(w))
      /\ ~(so.at + 1 + w[so.at + 1] > Len(w))
  <2>1. so.at = m + 1 /\ so.blocks = bs
    OBVIOUS
  <2> HIDE DEF so, pc1, ap, w, m, n
  <2>2. Len(w) \in Nat
    BY <1>5, LenProperties
  <2> QED
    BY <1>1, <1>5, <1>6, <2>1, <2>2, SMTT(60)
<1>10. DecodeBlock(w, z, so)
         = [at |-> so.at + 1 + w[so.at + 1] + 1,
            blocks |-> Append(so.blocks, [hash |-> w[so.at], data |-> b.data])]
  <2>1. SubSeq(w, so.at + 2, so.at + 1 + w[so.at + 1]) = raw
    <3> HIDE DEF so, pc1, ap, w, m, n
    <3> QED
      BY <1>6, <1>7, <1>9
  <2>2. (IF z /\ raw /= <<>> THEN Decompress(raw) ELSE raw) = b.data
    BY DEF Unpacked
  <2> HIDE DEF so, pc1, ap, w, m, n
  <2> QED
    BY <1>8, <1>9, <2>1, <2>2 DEF DecodeBlock
<1>11. so.at + 1 + w[so.at + 1] + 1 = Len(ap) + 1
  <2> HIDE DEF so, pc1, ap, w, m, n
  <2>1. so.at + 1 + w[so.at + 1] + 1 = m + 1 + 1 + n + 1
    BY <1>6, <1>9
  <2>2. Len(ap) = m + n + 2
    BY <1>4
  <2> QED
    BY <1>1, <2>1, <2>2
<1>12. DecodeBlock(w, z, so) = [at |-> Len(ap) + 1, blocks |-> Append(bs, b)]
  <2> HIDE DEF so, pc1, ap, w, m, n
  <2> QED
    BY <1>6, <1>8, <1>9, <1>10, <1>11
<1> HIDE DEF so, n, m
<1>13. w = Joined(Joined(a, Piece(b.hash, raw)), t) /\ ap = Joined(a, Piece(b.hash, raw))
  BY DEF Joined, Piece, n
<1>14. so = Cursor(a, bs)
  BY DEF so, Cursor, m
<1> HIDE DEF ap, w
<1>15. [at |-> Len(ap) + 1, blocks |-> Append(bs, b)] = Cursor(ap, Append(bs, b))
  BY DEF Cursor
<1> QED
  BY <1>12, <1>13, <1>14, <1>15

\* A sequence up to its k-th element, and from there on.
LEMMA PrefixEnds ==
  ASSUME NEW S, NEW s \in Seq(S)
  PROVE  SubSeq(s, 1, 0) = <<>> /\ SubSeq(s, 1, Len(s)) = s
BY SubSeqEmpty, SubSeqFull

\* The two parts of a sequence cut after its k-th element.
LEMMA PrefixType ==
  ASSUME NEW S, NEW s \in Seq(S), NEW k \in 0 .. Len(s)
  PROVE  /\ SubSeq(s, 1, k) \in Seq(S) /\ Len(SubSeq(s, 1, k)) = k
         /\ SubSeq(s, k + 1, Len(s)) \in Seq(S)
         /\ Len(SubSeq(s, k + 1, Len(s))) = Len(s) - k
         /\ s = SubSeq(s, 1, k) \o SubSeq(s, k + 1, Len(s))
<1> DEFINE n == Len(s)
<1>1. n \in Nat /\ \A i \in 1 .. n : s[i] \in S
  BY LenProperties, ElementOfSeq
<1>2. SubSeq(s, 1, n) = s
  BY PrefixEnds
<1> HIDE DEF n
<1>3. k \in 0 .. n
  BY DEF n
<1>4. k \in Int /\ n \in Int /\ k + 1 \in Int /\ 1 \in Int
      /\ (\A i \in 1 .. k : s[i] \in S) /\ (\A i \in k + 1 .. n : s[i] \in S)
  BY <1>1, <1>3
<1>5. SubSeq(s, 1, k) \in Seq(S) /\ Len(SubSeq(s, 1, k)) = IF 1 <= k THEN k - 1 + 1 ELSE 0
  BY <1>4, SubSeqProperties
<1>6. /\ SubSeq(s, k + 1, n) \in Seq(S)
      /\ Len(SubSeq(s, k + 1, n)) = IF k + 1 <= n THEN n - (k + 1) + 1 ELSE 0
  BY <1>4, SubSeqProperties
<1>7. 1 \in 1 .. n + 1 /\ k \in 1 - 1 .. n /\ n \in k .. n
  BY <1>1, <1>3
<1>8. SubSeq(s, 1, k) \o SubSeq(s, k + 1, n) = SubSeq(s, 1, n)
  BY <1>7, ConcatAdjacentSubSeq DEF n
<1>9. Len(SubSeq(s, 1, k)) = k /\ Len(SubSeq(s, k + 1, n)) = n - k
  BY <1>1, <1>3, <1>5, <1>6
<1> QED
  BY <1>2, <1>5, <1>6, <1>8, <1>9 DEF n

\* A prefix longer by one.
LEMMA PrefixStep ==
  ASSUME NEW S, NEW s \in Seq(S), NEW k \in 1 .. Len(s)
  PROVE  SubSeq(s, 1, k) = Append(SubSeq(s, 1, k - 1), s[k])
<1>1. Len(s) \in Nat /\ s[k] \in S
  BY LenProperties, ElementOfSeq
<1>2. 1 \in 1 .. Len(s) /\ k \in 1 .. Len(s) /\ k - 1 \in 0 .. Len(s)
  BY <1>1
<1>3. SubSeq(s, 1, k) = SubSeq(s, 1, k - 1) \o <<s[k]>>
  BY <1>2, SubSeqRecursiveSecond
<1>4. SubSeq(s, 1, k - 1) \in Seq(S)
  BY <1>2, PrefixType
<1> QED
  BY <1>1, <1>3, <1>4, AppendIsConcat

\* The pieces before the k-th, the k-th, and those after it.
LEMMA FlattenPrefix ==
  ASSUME NEW S, NEW s \in Seq(Seq(S)), NEW k \in 1 .. Len(s)
  PROVE  /\ FlattenSeq(SubSeq(s, 1, k - 1)) \in Seq(S)
         /\ FlattenSeq(SubSeq(s, k + 1, Len(s))) \in Seq(S)
         /\ s[k] \in Seq(S)
         /\ FlattenSeq(SubSeq(s, 1, k)) = FlattenSeq(SubSeq(s, 1, k - 1)) \o s[k]
         /\ FlattenSeq(s) = FlattenSeq(SubSeq(s, 1, k))
                              \o FlattenSeq(SubSeq(s, k + 1, Len(s)))
<1> DEFINE p == SubSeq(s, 1, k - 1)
           q == SubSeq(s, 1, k)
           r == SubSeq(s, k + 1, Len(s))
<1>1. Len(s) \in Nat
  BY LenProperties
<1>2. k - 1 \in 0 .. Len(s) /\ k \in 0 .. Len(s)
  BY <1>1
<1>3. p \in Seq(Seq(S))
  BY <1>2, PrefixType
<1>4. q \in Seq(Seq(S)) /\ r \in Seq(Seq(S)) /\ s = q \o r
  BY <1>2, PrefixType
<1>5. q = Append(p, s[k]) /\ s[k] \in Seq(S)
  BY PrefixStep, ElementOfSeq
<1> HIDE DEF p, q, r
<1>6. FlattenSeq(p) \in Seq(S) /\ FlattenSeq(r) \in Seq(S)
  BY <1>3, <1>4, FlattenType
<1>7. FlattenSeq(q) = FlattenSeq(p) \o s[k]
  BY <1>3, <1>5, FlattenAppend
<1>8. FlattenSeq(s) = FlattenSeq(q) \o FlattenSeq(r)
  BY <1>4, FlattenConcat
<1> QED
  BY <1>5, <1>6, <1>7, <1>8 DEF p, q, r

\* Payloads can be joined in any order.
LEMMA IntAssociative ==
  ASSUME NEW s \in Seq(Int), NEW t \in Seq(Int), NEW u \in Seq(Int)
  PROVE  s \o (t \o u) = (s \o t) \o u
BY ConcatAssociative, SMTT(60)

\* A function on 1 .. n is a sequence of length n.
LEMMA MadeSeq ==
  ASSUME NEW S, NEW n \in Nat, NEW f \in [1 .. n -> S]
  PROVE  f \in Seq(S) /\ Len(f) = n
<1>1. f \in Seq(S)
  BY SeqDef
<1> QED
  BY <1>1, LenProperties

\* The blocks as they stand in the payload.
Pieces(blocks, data) == [i \in DOMAIN blocks |-> Piece(blocks[i].hash, data[i])]

\* The blocks of a payload are payloads themselves.
LEMMA PiecesType ==
  ASSUME NEW bs \in Seq(Blocks), NEW data \in Seq(Seq(Int)), Len(data) = Len(bs)
  PROVE  /\ Pieces(bs, data) \in Seq(Seq(Int)) /\ Len(Pieces(bs, data)) = Len(bs)
         /\ \A k \in 1 .. Len(bs) : Pieces(bs, data)[k] = Piece(bs[k].hash, data[k])
<1> DEFINE n == Len(bs)
<1>1. n \in Nat /\ DOMAIN bs = 1 .. n
  BY LenProperties
<1>2. ASSUME NEW k \in 1 .. n PROVE Piece(bs[k].hash, data[k]) \in Seq(Int)
  <2>1. bs[k] \in Blocks /\ data[k] \in Seq(Int)
    BY ElementOfSeq
  <2>2. bs[k].hash \in Int /\ Len(data[k]) \in Int
    BY <2>1, LenProperties DEF Blocks
  <2>3. <<bs[k].hash, Len(data[k])>> \in Seq(Int)
    BY <2>2
  <2> QED
    BY <2>1, <2>3, ConcatAt DEF Piece
<1>3. Pieces(bs, data) \in [1 .. n -> Seq(Int)]
  BY <1>1, <1>2 DEF Pieces
<1>4. Pieces(bs, data) \in Seq(Seq(Int)) /\ Len(Pieces(bs, data)) = n
  BY <1>1, <1>3, MadeSeq
<1> QED
  BY <1>1, <1>4 DEF Pieces

\* Behind any head H, the blocks are read as they were written, to the end of the
\* payload: the state of DecodeBlocks after k blocks is the head and the first k.
LEMMA BlocksDecoded ==
  ASSUME NEW z, NEW H \in Seq(Int), NEW bs \in Seq(Blocks),
         NEW data \in Seq(Seq(Int)), Len(data) = Len(bs),
         \A k \in 1 .. Len(bs) : Unpacked(z, data[k]) = bs[k].data
  PROVE  /\ Joined(H, FlattenSeq(Pieces(bs, data))) \in Seq(Int)
         /\ DecodeBlocks(Joined(H, FlattenSeq(Pieces(bs, data))), z, Len(H) + 1, Len(bs))
              = Cursor(Joined(H, FlattenSeq(Pieces(bs, data))), bs)
<1> DEFINE n == Len(bs)
           P == Pieces(bs, data)
           w == Joined(H, FlattenSeq(P))
           Upto(k) == Joined(H, FlattenSeq(SubSeq(P, 1, k)))
           Value(k) == Cursor(Upto(k), SubSeq(bs, 1, k))
           Body(f) == f = [k \in 0 .. n |->
                             IF k = 0 THEN [at |-> Len(H) + 1, blocks |-> <<>>]
                             ELSE DecodeBlock(w, z, f[k - 1])]
           V == [k \in 0 .. n |-> Value(k)]
           F == CHOOSE f : Body(f)
<1>1. /\ n \in Nat /\ P \in Seq(Seq(Int)) /\ Len(P) = n
      /\ \A k \in 1 .. n : P[k] = Piece(bs[k].hash, data[k])
  BY PiecesType, LenProperties
<1>2. w \in Seq(Int)
  <2>1. FlattenSeq(P) \in Seq(Int)
    BY <1>1, FlattenType
  <2> QED
    BY <2>1, ConcatAt DEF Joined
<1>4. Value(0) = Cursor(H, <<>>) /\ Value(n) = Cursor(w, bs)
  <2>1. SubSeq(bs, 1, 0) = <<>> /\ SubSeq(bs, 1, n) = bs
    BY PrefixEnds
  <2>2. SubSeq(P, 1, 0) = <<>> /\ SubSeq(P, 1, n) = P
    <3> HIDE DEF P
    <3>1. SubSeq(P, 1, 0) = <<>> /\ SubSeq(P, 1, Len(P)) = P
      BY <1>1, PrefixEnds
    <3> QED
      BY <1>1, <3>1
  <2>3. Joined(H, <<>>) = H
    BY ConcatEmptySeq DEF Joined
  <2> QED
    BY <2>1, <2>2, <2>3, FlattenEmpty
<1>5. ASSUME NEW k \in 1 .. n PROVE Value(k) = DecodeBlock(w, z, Value(k - 1))
  <2> DEFINE f == FlattenSeq(SubSeq(P, 1, k - 1))
             g == FlattenSeq(SubSeq(P, 1, k))
             a == Joined(H, f)
             t == FlattenSeq(SubSeq(P, k + 1, n))
             p == Piece(bs[k].hash, data[k])
  <2>1. k \in 1 .. Len(P) /\ k \in 1 .. Len(bs) /\ k \in 1 .. Len(data)
    BY <1>1
  <2>2. /\ bs[k] \in Blocks /\ data[k] \in Seq(Int) /\ P[k] = p
        /\ Unpacked(z, data[k]) = bs[k].data
    BY <1>1, <2>1, ElementOfSeq
  <2>3. SubSeq(bs, 1, k) = Append(SubSeq(bs, 1, k - 1), bs[k])
    BY <2>1, PrefixStep
  <2>4. f \in Seq(Int) /\ t \in Seq(Int) /\ p \in Seq(Int) /\ g = f \o p
        /\ FlattenSeq(P) = g \o t
    <3> HIDE DEF P, p, n
    <3>1. /\ FlattenSeq(SubSeq(P, 1, k - 1)) \in Seq(Int)
          /\ FlattenSeq(SubSeq(P, k + 1, Len(P))) \in Seq(Int)
          /\ P[k] \in Seq(Int)
          /\ FlattenSeq(SubSeq(P, 1, k)) = FlattenSeq(SubSeq(P, 1, k - 1)) \o P[k]
          /\ FlattenSeq(P) = FlattenSeq(SubSeq(P, 1, k)) \o FlattenSeq(SubSeq(P, k + 1, Len(P)))
      BY <1>1, <2>1, FlattenPrefix
    <3> QED
      BY <1>1, <2>2, <3>1
  <2>5. Upto(k) = Joined(a, p) /\ Upto(k - 1) = a /\ w = Joined(Joined(a, p), t)
    <3> HIDE DEF f, g, t, p, P
    <3>1. a = H \o f /\ a \in Seq(Int) /\ g \in Seq(Int)
      BY <2>4, ConcatAt DEF Joined
    <3>2. H \o g = a \o p
      <4>1. H \o (f \o p) = (H \o f) \o p
        BY <2>4, IntAssociative
      <4> QED
        BY <2>4, <3>1, <4>1
    <3>3. H \o (g \o t) = (H \o g) \o t
      BY <2>4, <3>1, IntAssociative, ZenonT(60)
    <3>4. Upto(k) = H \o g /\ Upto(k - 1) = a /\ w = H \o (g \o t)
      BY <2>4 DEF f, g, Joined
    <3> HIDE DEF a, w, Upto
    <3> QED
      BY <3>2, <3>3, <3>4 DEF Joined
  <2> HIDE DEF f, g, t
  <2>6. a \in Seq(Int)
    BY <2>4, ConcatAt DEF Joined
  <2> HIDE DEF a
  <2>7. DecodeBlock(Joined(Joined(a, p), t), z, Cursor(a, SubSeq(bs, 1, k - 1)))
          = Cursor(Joined(a, p), Append(SubSeq(bs, 1, k - 1), bs[k]))
    BY <2>2, <2>4, <2>6, BlockDecoded, SMTT(60)
  <2> HIDE DEF w, Upto, p
  <2> QED
    BY <2>3, <2>5, <2>7
<1>6. Body(V)
  <2> HIDE DEF w, Value
  <2>0. Value(0) = [at |-> Len(H) + 1, blocks |-> <<>>]
    BY <1>4 DEF Cursor
  <2>1. ASSUME NEW k \in 0 .. n
        PROVE  V[k] = IF k = 0 THEN [at |-> Len(H) + 1, blocks |-> <<>>]
                      ELSE DecodeBlock(w, z, V[k - 1])
    <3>1. CASE k = 0
      BY <2>0, <3>1
    <3>2. CASE k # 0
      <4>1. k \in 1 .. n /\ k - 1 \in 0 .. n
        BY <3>2, <1>1
      <4> QED
        BY <1>5, <3>2, <4>1
    <3> QED
      BY <3>1, <3>2
  <2>2. V = [k \in 0 .. n |-> V[k]]
    OBVIOUS
  <2> HIDE DEF V, n
  <2> QED
    BY <2>1, <2>2
<1>7. Body(F)
  <2>1. \E f : Body(f)
    BY <1>6
  <2> QED
    BY <2>1, Zenon
<1>8. DecodeBlocks(w, z, Len(H) + 1, n) = F[n]
  BY DEF DecodeBlocks
<1>9. F[n] = Value(n)
  <2> DEFINE N == {k \in Nat : k <= n => F[k] = Value(k)}
  <2> HIDE DEF F, Value, w, n
  <2>1. \A k \in 0 .. n : F[k] = IF k = 0 THEN [at |-> Len(H) + 1, blocks |-> <<>>]
                                 ELSE DecodeBlock(w, z, F[k - 1])
    BY <1>7, Zenon
  <2>2. 0 \in N
    BY <1>1, <1>4, <2>1 DEF Cursor
  <2>3. ASSUME NEW k \in Nat, k \in N PROVE k + 1 \in N
    <3>1. ASSUME k + 1 <= n PROVE F[k + 1] = Value(k + 1)
      <4>1. F[k] = Value(k) /\ k + 1 \in 0 .. n /\ k + 1 \in 1 .. n /\ k + 1 # 0
            /\ (k + 1) - 1 = k
        BY <1>1, <2>3, <3>1
      <4>2. F[k + 1] = DecodeBlock(w, z, F[(k + 1) - 1])
        BY <2>1, <4>1
      <4>3. Value(k + 1) = DecodeBlock(w, z, Value((k + 1) - 1))
        BY <1>5, <4>1
      <4> QED
        BY <4>1, <4>2, <4>3
    <3> QED
      BY <3>1
  <2> HIDE DEF N
  <2>4. Nat \subseteq N
    BY <2>2, <2>3, Induction
  <2>5. n \in N
    BY <1>1, <2>4
  <2> QED
    BY <1>1, <2>5 DEF N
<1> QED
  BY <1>2, <1>4, <1>8, <1>9

\* Where the cells of a joined payload come from.
LEMMA JoinedAt ==
  ASSUME NEW s \in Seq(Int), NEW t \in Seq(Int)
  PROVE  /\ Joined(s, t) \in Seq(Int) /\ Len(Joined(s, t)) = Len(s) + Len(t)
         /\ Len(s) \in Nat /\ Len(t) \in Nat
         /\ \A i \in 1 .. Len(s) : Joined(s, t)[i] = s[i]
         /\ \A i \in 1 .. Len(t) : Joined(s, t)[Len(s) + i] = t[i]
BY ConcatAt DEF Joined

\* One more cell at the end.
LEMMA CellAppended ==
  ASSUME NEW s \in Seq(Int), NEW x \in Int
  PROVE  /\ Joined(s, <<x>>) \in Seq(Int) /\ Len(Joined(s, <<x>>)) = Len(s) + 1
         /\ Len(s) \in Nat
         /\ \A i \in 1 .. Len(s) : Joined(s, <<x>>)[i] = s[i]
         /\ Joined(s, <<x>>)[Len(s) + 1] = x
<1>1. <<x>> \in Seq(Int) /\ Len(<<x>>) = 1 /\ <<x>>[1] = x /\ 1 \in 1 .. 1
  OBVIOUS
<1> DEFINE t == <<x>>
<1>2. t \in Seq(Int) /\ Len(t) = 1 /\ t[1] = x /\ 1 \in 1 .. Len(t)
  BY <1>1
<1> HIDE DEF t
<1>3. /\ Joined(s, t) \in Seq(Int) /\ Len(Joined(s, t)) = Len(s) + Len(t)
      /\ Len(s) \in Nat
      /\ \A i \in 1 .. Len(s) : Joined(s, t)[i] = s[i]
      /\ \A i \in 1 .. Len(t) : Joined(s, t)[Len(s) + i] = t[i]
  BY <1>2, JoinedAt
<1>4. Joined(s, t)[Len(s) + 1] = x
  BY <1>2, <1>3
<1> QED
  BY <1>2, <1>3, <1>4 DEF t

\* A payload that starts with a path.
LEMMA PathDecoded ==
  ASSUME NEW p \in Seq(Bytes), Len(p) < PathMod
  PROVE  /\ EncodePath(p) \in Seq(Int) /\ Len(EncodePath(p)) = Len(p) + 1
         /\ \A w : /\ w \in Seq(Int) /\ Len(w) >= Len(p) + 1
                   /\ \A i \in 1 .. Len(p) + 1 : w[i] = EncodePath(p)[i]
                   => w[1] = Len(p) /\ SubSeq(w, 2, 1 + Len(p)) = p
<1> DEFINE n == Len(p)
           h == EncodePath(p)
<1>1. p \in Seq(Int) /\ n \in Nat /\ PathMod \in Nat /\ n % PathMod = n
  <2>1. p \in Seq(Int) /\ n \in Nat /\ PathMod \in Nat \ {0}
    BY BytesAreInts, LenProperties, SizesAssumption
  <2> QED
    BY <2>1
<1>2. <<n>> \in Seq(Int) /\ Len(<<n>>) = 1 /\ <<n>>[1] = n /\ h = Joined(<<n>>, p)
  BY <1>1, SMTT(60) DEF EncodePath, Joined
<1>3. /\ h \in Seq(Int) /\ Len(h) = 1 + n /\ h[1] = n
      /\ \A i \in 1 .. n : h[1 + i] = p[i]
  <2> DEFINE c == <<n>>
  <2>1. c \in Seq(Int) /\ Len(c) = 1 /\ c[1] = n /\ h = Joined(c, p)
    BY <1>2
  <2> HIDE DEF c, h, n
  <2>2. /\ Joined(c, p) \in Seq(Int) /\ Len(Joined(c, p)) = Len(c) + Len(p)
        /\ \A i \in 1 .. Len(c) : Joined(c, p)[i] = c[i]
        /\ \A i \in 1 .. Len(p) : Joined(c, p)[Len(c) + i] = p[i]
    BY <1>1, <2>1, JoinedAt
  <2> QED
    BY <1>1, <2>1, <2>2 DEF n
<1>4. h[1] = n
  BY <1>3
<1>5. ASSUME NEW w, w \in Seq(Int), Len(w) >= n + 1, \A i \in 1 .. n + 1 : w[i] = h[i]
      PROVE  w[1] = n /\ SubSeq(w, 2, 1 + n) = p
  <2> HIDE DEF h, n
  <2>0. Len(w) \in Nat
    BY <1>5, LenProperties
  <2>1. w[1] = n
    BY <1>1, <1>4, <1>5
  <2>2. ASSUME NEW i \in 2 .. 1 + n PROVE w[i] \in Int
    <3>1. i \in 1 .. Len(w)
      BY <1>1, <1>5, <2>0
    <3> QED
      BY <1>5, <3>1, ElementOfSeq
  <2>3. 2 \in Int /\ 1 + n \in Int
    BY <1>1
  <2>4. /\ SubSeq(w, 2, 1 + n) \in Seq(Int)
        /\ Len(SubSeq(w, 2, 1 + n)) = IF 2 <= 1 + n THEN (1 + n) - 2 + 1 ELSE 0
        /\ \A i \in 1 .. (1 + n) - 2 + 1 : SubSeq(w, 2, 1 + n)[i] = w[2 + i - 1]
    BY <2>2, <2>3, SubSeqProperties
  <2>5. Len(SubSeq(w, 2, 1 + n)) = n
    BY <1>1, <2>4
  <2>6. ASSUME NEW i \in 1 .. n PROVE SubSeq(w, 2, 1 + n)[i] = p[i]
    <3>1. i \in 1 .. (1 + n) - 2 + 1 /\ 2 + i - 1 = 1 + i /\ 1 + i \in 1 .. n + 1
      BY <1>1
    <3>2. SubSeq(w, 2, 1 + n)[i] = w[1 + i]
      BY <2>4, <3>1
    <3> QED
      BY <1>3, <1>5, <3>1, <3>2
  <2>7. SubSeq(w, 2, 1 + n) = p
    BY <1>1, <2>4, <2>5, <2>6, SeqEqual DEF n
  <2> QED
    BY <2>1, <2>7
<1>6. Len(h) = n + 1
  BY <1>1, <1>3
<1> QED
  BY <1>3, <1>5, <1>6

\* The head of a sparse write, up to the number of blocks.
SparseHead(p, flags, e, n) ==
  Joined(IF e = None THEN Joined(EncodePath(p), <<flags>>)
         ELSE Joined(Joined(EncodePath(p), <<flags>>), <<e>>), <<n>>)

\* How w starts when it starts with that head.
Heads(p, flags, e, n, w) ==
  /\ SparseHead(p, flags, e, n) \in Seq(Int) /\ w \in Seq(Int)
  /\ Len(SparseHead(p, flags, e, n)) = (IF e = None THEN 3 ELSE 4) + Len(p)
  /\ Len(w) \in Nat /\ Len(w) >= Len(SparseHead(p, flags, e, n))
  /\ w[1] = Len(p) /\ SubSeq(w, 2, 1 + Len(p)) = p
  /\ w[2 + Len(p)] = flags
  /\ e # None => w[3 + Len(p)] = e
  /\ w[Len(SparseHead(p, flags, e, n))] = n

\* Every field of the head is where its predecessors say.
LEMMA HeadDecoded ==
  ASSUME NEW p \in Seq(Bytes), Len(p) < PathMod, NEW flags \in Int, NEW e \in {None, 0},
         NEW n \in Int, NEW t \in Seq(Int), NEW w, w = Joined(SparseHead(p, flags, e, n), t)
  PROVE  Heads(p, flags, e, n, w)
<1> DEFINE m == Len(p)
           a == EncodePath(p)
           b == Joined(a, <<flags>>)
           c == Joined(b, <<e>>)
           d == IF e = None THEN b ELSE c
           h == Joined(d, <<n>>)
<1>1. m \in Nat /\ a \in Seq(Int) /\ Len(a) = m + 1 /\ e \in Int
  BY PathDecoded, LenProperties DEF None
<1> HIDE DEF a, m
<1>2. /\ b \in Seq(Int) /\ Len(b) = m + 2 /\ b[m + 2] = flags
      /\ \A i \in 1 .. m + 1 : b[i] = a[i]
  <2>1. /\ b \in Seq(Int) /\ Len(b) = Len(a) + 1 /\ b[Len(a) + 1] = flags
        /\ \A i \in 1 .. Len(a) : b[i] = a[i]
    BY <1>1, CellAppended
  <2> HIDE DEF b
  <2> QED
    BY <1>1, <2>1
<1> HIDE DEF b
<1>3. /\ c \in Seq(Int) /\ Len(c) = m + 3 /\ c[m + 3] = e
      /\ \A i \in 1 .. m + 2 : c[i] = b[i]
  <2>1. /\ c \in Seq(Int) /\ Len(c) = Len(b) + 1 /\ c[Len(b) + 1] = e
        /\ \A i \in 1 .. Len(b) : c[i] = b[i]
    BY <1>1, <1>2, CellAppended
  <2> HIDE DEF c
  <2> QED
    BY <1>1, <1>2, <2>1
<1> HIDE DEF c
<1>4. /\ d \in Seq(Int) /\ Len(d) = (IF e = None THEN 2 ELSE 3) + m
      /\ \A i \in 1 .. m + 2 : d[i] = b[i]
      /\ e # None => d[m + 3] = e
  BY <1>1, <1>2, <1>3
<1> HIDE DEF d
<1>5. /\ h \in Seq(Int) /\ Len(h) = Len(d) + 1 /\ h[Len(h)] = n
      /\ \A i \in 1 .. Len(d) : h[i] = d[i]
  <2>1. /\ h \in Seq(Int) /\ Len(h) = Len(d) + 1 /\ h[Len(d) + 1] = n
        /\ \A i \in 1 .. Len(d) : h[i] = d[i]
    BY <1>4, CellAppended
  <2> HIDE DEF h
  <2> QED
    BY <2>1
<1> HIDE DEF h
<1>6. SparseHead(p, flags, e, n) = h
  BY DEF SparseHead, h, d, c, b, a
<1>7. w = Joined(h, t)
  BY <1>6
<1>8. /\ w \in Seq(Int) /\ Len(w) = Len(h) + Len(t) /\ Len(t) \in Nat
      /\ \A i \in 1 .. Len(h) : w[i] = h[i]
  <2>1. h \in Seq(Int)
    BY <1>5
  <2>2. /\ Joined(h, t) \in Seq(Int) /\ Len(Joined(h, t)) = Len(h) + Len(t)
        /\ Len(t) \in Nat
        /\ \A i \in 1 .. Len(h) : Joined(h, t)[i] = h[i]
    BY <2>1, JoinedAt
  <2> QED
    BY <1>7, <2>2, Zenon
<1>9. Len(h) = (IF e = None THEN 3 ELSE 4) + m /\ Len(h) \in Nat /\ Len(h) >= m + 3
  BY <1>1, <1>4, <1>5
<1>10. Len(w) \in Nat /\ Len(w) >= Len(h)
  BY <1>8, <1>9
<1>11. ASSUME NEW i \in 1 .. m + 2 PROVE w[i] = b[i]
  <2>1. i \in 1 .. Len(h) /\ i \in 1 .. Len(d)
    BY <1>1, <1>4, <1>9
  <2> QED
    BY <1>4, <1>5, <1>8, <2>1
<1>12. w[2 + m] = flags
  <2>1. m + 2 \in 1 .. m + 2 /\ 2 + m = m + 2
    BY <1>1
  <2> QED
    BY <1>2, <1>11, <2>1
<1>13. w[1] = m /\ SubSeq(w, 2, 1 + m) = p
  <2>1. \A i \in 1 .. m + 1 : w[i] = a[i]
    BY <1>1, <1>2, <1>11
  <2>2. Len(w) >= m + 1
    BY <1>1, <1>9, <1>10
  <2> QED
    BY <1>8, <2>1, <2>2, PathDecoded DEF m, a
<1>14. e # None => w[3 + m] = e
  <2>1. ASSUME e # None PROVE w[3 + m] = e
    <3>1. 3 + m \in 1 .. Len(h) /\ 3 + m \in 1 .. Len(d) /\ 3 + m = m + 3
      BY <1>1, <1>4, <1>9, <2>1
    <3> QED
      BY <1>4, <1>5, <1>8, <2>1, <3>1
  <2> QED
    BY <2>1
<1>15. w[Len(h)] = n
  <2>1. Len(h) \in 1 .. Len(h)
    BY <1>1, <1>9
  <2> QED
    BY <1>5, <1>8, <2>1
<1> QED
  BY <1>5, <1>6, <1>8, <1>9, <1>10, <1>12, <1>13, <1>14, <1>15 DEF m, Heads

\* A sparse write is read as it was written: path, expected hash, and the blocks,
\* with or without data, compressed or not.
LEMMA SparseDecoded ==
  ASSUME NEW p \in Seq(Bytes), Len(p) < PathMod, NEW e \in {None, 0},
         NEW bs \in Seq(Blocks), NEW z
  PROVE  /\ DecodeSparse(EncodeSparse(p, bs, e, z))
              = [path |-> p, expected |-> e, chunks |-> bs]
         /\ [path |-> p, expected |-> e, chunks |-> bs] # NoFile
         /\ EncodeSparse(p, bs, e, z) \in Seq(Int)
<1> DEFINE n == Len(bs)
           plain == Map(LAMBDA x : x.data, bs)
           packed == Map(Packed, plain)
           use == z /\ Sum(Map(Len, packed)) < Sum(Map(Len, plain))
           data == IF use THEN packed ELSE plain
           flags == (IF e = None THEN 0 ELSE 1) + (IF use THEN 2 ELSE 0)
           pieces == FlattenSeq(Pieces(bs, data))
           H == SparseHead(p, flags, e, n)
           w == Joined(H, pieces)
           zz == flags \div 2 % 2 = 1
           given == e # None
<1>1. /\ n \in Nat /\ DOMAIN bs = 1 .. n
      /\ \A k \in 1 .. n : bs[k] \in Blocks /\ bs[k].data \in Plains /\ bs[k].data \in Seq(Int)
  <2>1. n \in Nat /\ DOMAIN bs = 1 .. n
    BY LenProperties
  <2>2. ASSUME NEW k \in 1 .. n
        PROVE  bs[k] \in Blocks /\ bs[k].data \in Plains /\ bs[k].data \in Seq(Int)
    <3>1. bs[k] \in Blocks
      BY ElementOfSeq
    <3>2. bs[k].data \in Plains
      BY <3>1 DEF Blocks
    <3> QED
      BY <3>1, <3>2, BytesAreInts DEF Plains
  <2> QED
    BY <2>1, <2>2
<1>2. plain = [k \in 1 .. n |-> bs[k].data]
      /\ packed = [k \in 1 .. n |-> Packed(bs[k].data)]
  BY <1>1 DEF Map
<1>3. /\ plain \in Seq(Seq(Int)) /\ Len(plain) = n
      /\ \A k \in 1 .. n : Unpacked(FALSE, plain[k]) = bs[k].data
  <2>1. plain \in [1 .. n -> Seq(Int)] /\ \A k \in 1 .. n : plain[k] = bs[k].data
    BY <1>1, <1>2
  <2> HIDE DEF plain
  <2>2. plain \in Seq(Seq(Int)) /\ Len(plain) = n
    BY <1>1, <2>1, MadeSeq
  <2>3. \A k \in 1 .. n : Unpacked(FALSE, bs[k].data) = bs[k].data
    BY <1>1, PackedInverse
  <2> QED
    BY <2>1, <2>2, <2>3
<1>4. /\ packed \in Seq(Seq(Int)) /\ Len(packed) = n
      /\ \A k \in 1 .. n : Unpacked(TRUE, packed[k]) = bs[k].data
  <2>1. \A k \in 1 .. n : /\ Packed(bs[k].data) \in Seq(Int)
                          /\ Unpacked(TRUE, Packed(bs[k].data)) = bs[k].data
    BY <1>1, PackedInverse
  <2>2. packed \in [1 .. n -> Seq(Int)] /\ \A k \in 1 .. n : packed[k] = Packed(bs[k].data)
    BY <1>2, <2>1
  <2> HIDE DEF packed
  <2>3. packed \in Seq(Seq(Int)) /\ Len(packed) = n
    BY <1>1, <2>2, MadeSeq
  <2> QED
    BY <2>1, <2>2, <2>3
<1> HIDE DEF plain, packed, use
<1>5. flags \in Int /\ (given <=> flags % 2 = 1) /\ (zz <=> use)
  OBVIOUS
<1>6. /\ data \in Seq(Seq(Int)) /\ Len(data) = n
      /\ \A k \in 1 .. n : Unpacked(zz, data[k]) = bs[k].data
  <2>1. CASE use
    BY <1>4, <1>5, <2>1 DEF Unpacked
  <2>2. CASE ~use
    BY <1>3, <1>5, <2>2 DEF Unpacked
  <2> QED
    BY <2>1, <2>2
<1> HIDE DEF data, flags
<1>7. pieces \in Seq(Int)
  <2>1. Pieces(bs, data) \in Seq(Seq(Int))
    BY <1>6, PiecesType
  <2> QED
    BY <2>1, FlattenType
<1>8. EncodeSparse(p, bs, e, z) = w
  <2>1. [i \in DOMAIN bs |-> <<bs[i].hash, Len(data[i])>> \o data[i]] = Pieces(bs, data)
    BY DEF Pieces, Piece
  <2>2. EncodeSparse(p, bs, e, z)
          = EncodePath(p) \o <<flags>> \o (IF e = None THEN <<>> ELSE <<e>>) \o <<n>>
              \o FlattenSeq([i \in DOMAIN bs |-> <<bs[i].hash, Len(data[i])>> \o data[i]])
    BY DEF EncodeSparse, flags, data, use, packed, plain
  <2>3. EncodePath(p) \o <<flags>> \o (IF e = None THEN <<>> ELSE <<e>>) \o <<n>> = H
    <3>1. EncodePath(p) \in Seq(Int) /\ <<flags>> \in Seq(Int)
      BY <1>5, PathDecoded
    <3>2. EncodePath(p) \o <<flags>> \in Seq(Int)
      BY <3>1, ConcatAt
    <3>3. EncodePath(p) \o <<flags>> \o <<>> = EncodePath(p) \o <<flags>>
      BY <3>2, ConcatEmptySeq
    <3>4. CASE e = None
      BY <3>3, <3>4 DEF SparseHead, Joined
    <3>5. CASE e # None
      BY <3>5 DEF SparseHead, Joined
    <3> QED
      BY <3>4, <3>5
  <2>4. EncodeSparse(p, bs, e, z) = H \o pieces
    BY <2>1, <2>2, <2>3, Zenon
  <2> QED
    BY <2>4 DEF Joined
<1> HIDE DEF pieces
<1>9. /\ H \in Seq(Int) /\ w \in Seq(Int)
      /\ Len(H) = (IF e = None THEN 3 ELSE 4) + Len(p)
      /\ Len(w) \in Nat /\ Len(w) >= Len(H)
      /\ w[1] = Len(p) /\ SubSeq(w, 2, 1 + Len(p)) = p
      /\ w[2 + Len(p)] = flags
      /\ e # None => w[3 + Len(p)] = e
      /\ w[Len(H)] = n
  <2>1. n \in Int /\ flags \in Int
    BY <1>1, <1>5
  <2>2. w = Joined(SparseHead(p, flags, e, n), pieces)
    OBVIOUS
  <2>3. Heads(p, flags, e, n, w)
    <3> HIDE DEF n, w
    <3> QED
      BY <1>7, <2>1, <2>2, HeadDecoded
  <2> HIDE DEF n, w
  <2> QED
    BY <2>3 DEF Heads
<1> HIDE DEF zz, H
<1>10. DecodeBlocks(w, zz, Len(H) + 1, n) = Cursor(w, bs)
  <2>1. DecodeBlocks(Joined(H, FlattenSeq(Pieces(bs, data))), zz, Len(H) + 1, Len(bs))
          = Cursor(Joined(H, FlattenSeq(Pieces(bs, data))), bs)
    BY <1>6, <1>9, BlocksDecoded
  <2> QED
    BY <2>1 DEF pieces
<1> HIDE DEF w
<1> DEFINE flg == w[2 + w[1]]
           gv == flg % 2 = 1
           ct == IF gv THEN 4 + w[1] ELSE 3 + w[1]
           all == DecodeBlocks(w, flg \div 2 % 2 = 1, ct + 1, w[ct])
<1>11. DecodeSparse(w)
         = IF Len(w) < 3 + w[1] \/ Len(w) < ct \/ all.at = 0 THEN NoFile
           ELSE [path |-> SubSeq(w, 2, 1 + w[1]),
                 expected |-> IF gv THEN w[3 + w[1]] ELSE None, chunks |-> all.blocks]
  BY DEF DecodeSparse
<1>12. /\ w[1] = Len(p) /\ flg = flags /\ ct = Len(H) /\ (gv <=> e # None)
       /\ Len(p) \in Nat /\ Len(w) >= 3 + Len(p)
  <2>1. Len(p) \in Nat /\ w[1] = Len(p) /\ flg = flags
    BY <1>9, LenProperties
  <2> HIDE DEF flg
  <2> QED
    BY <1>5, <1>9, <2>1
<1>15. all = Cursor(w, bs)
  <2>1. DecodeBlocks(w, flags \div 2 % 2 = 1, Len(H) + 1, n) = Cursor(w, bs)
    BY <1>10 DEF zz
  <2>2. ct = Len(H) /\ flg = flags /\ w[Len(H)] = n
    BY <1>9, <1>12
  <2> HIDE DEF flg, ct, n
  <2> QED
    BY <2>1, <2>2, Zenon
<1> HIDE DEF flg, gv, ct, all
<1>16. all.at # 0 /\ all.blocks = bs
  BY <1>9, <1>15 DEF Cursor
<1>17. (IF gv THEN w[3 + w[1]] ELSE None) = e
  BY <1>9, <1>12
<1>18. SubSeq(w, 2, 1 + w[1]) = p
  BY <1>9, <1>12
<1>19. ~(Len(w) < 3 + w[1] \/ Len(w) < ct \/ all.at = 0)
  BY <1>9, <1>12, <1>16
<1>13. [path |-> p, expected |-> e, chunks |-> bs] # NoFile
  <2>1. p # Error
    BY BytesAreInts
  <2> QED
    BY <2>1 DEF NoFile
<1>14. DecodeSparse(w) = [path |-> p, expected |-> e, chunks |-> bs]
  BY <1>11, <1>16, <1>17, <1>18, <1>19, Zenon
<1> QED
  BY <1>8, <1>9, <1>13, <1>14

\* What stands behind s in a payload.
LEMMA SuffixDecoded ==
  ASSUME NEW s \in Seq(Int), NEW t \in Seq(Int), NEW w, w = Joined(s, t)
  PROVE  SubSeq(w, Len(s) + 1, Len(s) + Len(t)) = t
<1> DEFINE m == Len(s)
           n == Len(t)
<1>1. /\ w \in Seq(Int) /\ Len(w) = m + n /\ m \in Nat /\ n \in Nat
      /\ \A i \in 1 .. n : w[m + i] = t[i]
  <2>1. /\ Joined(s, t) \in Seq(Int) /\ Len(Joined(s, t)) = m + n /\ m \in Nat /\ n \in Nat
        /\ \A i \in 1 .. n : Joined(s, t)[m + i] = t[i]
    BY JoinedAt
  <2> HIDE DEF m, n
  <2> QED
    BY <2>1, Zenon
<1> HIDE DEF m, n
<1>2. ASSUME NEW i \in m + 1 .. m + n PROVE w[i] \in Int
  <2>1. i \in 1 .. Len(w)
    BY <1>1
  <2> QED
    BY <1>1, <2>1, ElementOfSeq
<1> DEFINE lo == m + 1
           hi == m + n
<1>3. lo \in Int /\ hi \in Int /\ \A i \in lo .. hi : w[i] \in Int
  BY <1>1, <1>2
<1> HIDE DEF lo, hi
<1>7. /\ SubSeq(w, lo, hi) \in Seq(Int)
      /\ Len(SubSeq(w, lo, hi)) = IF lo <= hi THEN hi - lo + 1 ELSE 0
      /\ \A i \in 1 .. hi - lo + 1 : SubSeq(w, lo, hi)[i] = w[lo + i - 1]
  BY <1>3, SubSeqProperties
<1>4. lo = m + 1 /\ hi = m + n /\ hi - lo + 1 = n
  BY <1>1 DEF lo, hi
<1>5. Len(SubSeq(w, lo, hi)) = n
  BY <1>1, <1>4, <1>7
<1>6. ASSUME NEW i \in 1 .. n PROVE SubSeq(w, lo, hi)[i] = t[i]
  <2>1. i \in 1 .. hi - lo + 1 /\ lo + i - 1 = m + i
    BY <1>1, <1>4
  <2>2. SubSeq(w, lo, hi)[i] = w[m + i]
    BY <1>7, <2>1
  <2> QED
    BY <1>1, <2>2
<1>8. SubSeq(w, lo, hi) = t
  BY <1>5, <1>6, <1>7, SeqEqual DEF n
<1> QED
  BY <1>4, <1>8, Zenon DEF m, n

\* A plain write is read as it was written.
LEMMA WriteDecoded ==
  ASSUME NEW p \in Seq(Bytes), Len(p) < PathMod, NEW d \in Seq(Bytes)

        PROVE   /\ DecodeWrite(EncodeWrite(p, d)) = [path |-> p, expected |-> None, chunks |-> <<d>>]
         /\ [path |-> p, expected |-> None, chunks |-> <<d>>] # NoFile
         /\ EncodeWrite(p, d) \in Seq(Int)
<1> DEFINE n == Len(p)
           h == EncodePath(p)
           w == EncodeWrite(p, d)
<1>1. h \in Seq(Int) /\ Len(h) = n + 1 /\ d \in Seq(Int) /\ n \in Nat
  BY PathDecoded, BytesAreInts, LenProperties
<1>2. w = Joined(h, d)
  BY DEF EncodeWrite, Joined
<1> HIDE DEF h, w
<1>3. /\ w \in Seq(Int) /\ Len(w) = Len(h) + Len(d) /\ Len(d) \in Nat
      /\ \A i \in 1 .. Len(h) : w[i] = h[i]
  <2>1. /\ Joined(h, d) \in Seq(Int) /\ Len(Joined(h, d)) = Len(h) + Len(d) /\ Len(d) \in Nat
        /\ \A i \in 1 .. Len(h) : Joined(h, d)[i] = h[i]
    BY <1>1, JoinedAt
  <2> QED
    BY <1>2, <2>1, Zenon
<1>4. w[1] = n /\ SubSeq(w, 2, 1 + n) = p
  <2>1. Len(w) >= n + 1 /\ \A i \in 1 .. n + 1 : w[i] = h[i]
    <3> HIDE DEF n
    <3> QED
      BY <1>1, <1>3
  <2> QED
    BY <1>3, <2>1, PathDecoded DEF h
<1>5. SubSeq(w, 2 + n, Len(w)) = d
  <2>1. SubSeq(w, Len(h) + 1, Len(h) + Len(d)) = d
    BY <1>1, <1>2, SuffixDecoded
  <2>2. Len(h) + 1 = 2 + n /\ Len(h) + Len(d) = Len(w)
    <3> HIDE DEF n
    <3> QED
      BY <1>1, <1>3
  <2> QED
    BY <2>1, <2>2, Zenon
<1>6. ~(Len(w) < 1 + w[1])
  <2> HIDE DEF n
  <2> QED
    BY <1>1, <1>3, <1>4
<1>7. DecodeWrite(w) = [path |-> SubSeq(w, 2, 1 + w[1]), expected |-> None,
                        chunks |-> <<SubSeq(w, 2 + w[1], Len(w))>>]
  BY <1>6, Zenon DEF DecodeWrite
<1>8. DecodeWrite(w) = [path |-> p, expected |-> None, chunks |-> <<d>>]
  <2>1. w[1] = n
    BY <1>4
  <2> HIDE DEF n
  <2> QED
    BY <1>4, <1>5, <1>7, <2>1, Zenon
<1>9. [path |-> p, expected |-> None, chunks |-> <<d>>] # NoFile
  <2>1. p # Error
    BY BytesAreInts
  <2> QED
    BY <2>1 DEF NoFile
<1> QED
  BY <1>3, <1>8, <1>9 DEF w

\* Hashes are read as they were sent.
LEMMA HashesDecoded ==
  ASSUME NEW hs \in Seq(Int)
  PROVE  DecodeHashes(EncodeHashes(hs)) = hs
<1> DEFINE n == Len(hs)
           c == <<n>>
           w == EncodeHashes(hs)
<1>1. n \in Nat
  BY LenProperties
<1>2. c \in Seq(Int) /\ Len(c) = 1 /\ c[1] = n /\ w = Joined(c, hs)
  BY <1>1 DEF EncodeHashes, Joined
<1> HIDE DEF c, w
<1>3. Len(w) = 1 + n /\ w[1] = n
  <2>1. /\ Len(Joined(c, hs)) = Len(c) + n
        /\ \A i \in 1 .. Len(c) : Joined(c, hs)[i] = c[i]
    BY <1>2, JoinedAt
  <2>2. Len(w) = Len(c) + n /\ \A i \in 1 .. Len(c) : w[i] = c[i]
    BY <1>2, <2>1, Zenon
  <2> QED
    BY <1>2, <2>2
<1>4. SubSeq(w, Len(c) + 1, Len(c) + n) = hs
  BY <1>2, SuffixDecoded
<1>5. Len(c) + 1 = 2 /\ Len(c) + n = 1 + n
  BY <1>2
<1>6. SubSeq(w, 2, 1 + n) = hs
  BY <1>4, <1>5, Zenon
<1>7. DecodeHashes(w) = hs
  <2>1. ~(Len(w) < 1 + w[1]) /\ w[1] = n
    <3> HIDE DEF n
    <3> QED
      BY <1>1, <1>3
  <2> HIDE DEF n
  <2> QED
    BY <1>6, <2>1, Zenon DEF DecodeHashes
<1> QED
  BY <1>7 DEF w

\* Pieces that follow each other in d make up d.
LEMMA CutsJoined ==
  ASSUME NEW S, NEW d \in Seq(S), NEW s \in Seq(Seq(S)),
         NEW E \in [0 .. Len(s) -> 0 .. Len(d)], E[0] = 0, E[Len(s)] = Len(d),
         \A i \in 1 .. Len(s) : E[i - 1] <= E[i] /\ s[i] = SubSeq(d, E[i - 1] + 1, E[i])
  PROVE  FlattenSeq(s) = d
<1> DEFINE m == Len(s)
           N == {k \in Nat : k <= m => FlattenSeq(SubSeq(s, 1, k)) = SubSeq(d, 1, E[k])}
<1>0. m \in Nat /\ Len(d) \in Nat
  BY LenProperties
<1>1. 0 \in N
  <2>1. SubSeq(s, 1, 0) = <<>> /\ SubSeq(d, 1, 0) = <<>>
    BY PrefixEnds
  <2> QED
    BY <2>1, FlattenEmpty
<1>2. ASSUME NEW k \in Nat, k \in N PROVE k + 1 \in N
  <2>1. ASSUME k + 1 <= m
        PROVE  FlattenSeq(SubSeq(s, 1, k + 1)) = SubSeq(d, 1, E[k + 1])
    <3>1. k + 1 \in 1 .. Len(s) /\ (k + 1) - 1 = k /\ k <= m /\ k \in 0 .. Len(s)
          /\ k + 1 \in 0 .. Len(s)
      BY <1>0, <2>1
    <3>2. FlattenSeq(SubSeq(s, 1, k + 1)) = FlattenSeq(SubSeq(s, 1, (k + 1) - 1)) \o s[k + 1]
      BY <3>1, FlattenPrefix
    <3>3. FlattenSeq(SubSeq(s, 1, k)) = SubSeq(d, 1, E[k])
      BY <1>2, <3>1
    <3>4. E[k] <= E[k + 1] /\ s[k + 1] = SubSeq(d, E[k] + 1, E[k + 1])
      BY <3>1
    <3>5. E[k] \in 0 .. Len(d) /\ E[k + 1] \in 0 .. Len(d)
      BY <3>1
    <3>6. 1 \in 1 .. Len(d) + 1 /\ E[k] \in 1 - 1 .. Len(d) /\ E[k + 1] \in E[k] .. Len(d)
      BY <1>0, <3>4, <3>5
    <3>7. SubSeq(d, 1, E[k]) \o SubSeq(d, E[k] + 1, E[k + 1]) = SubSeq(d, 1, E[k + 1])
      BY <3>6, ConcatAdjacentSubSeq
    <3> QED
      BY <3>1, <3>2, <3>3, <3>4, <3>7, Zenon
  <2> QED
    BY <2>1
<1> HIDE DEF N
<1>3. m \in N
  <2>1. Nat \subseteq N
    BY <1>1, <1>2, Induction
  <2> QED
    BY <1>0, <2>1
<1>4. SubSeq(s, 1, m) = s /\ SubSeq(d, 1, Len(d)) = d
  BY PrefixEnds
<1>5. FlattenSeq(SubSeq(s, 1, m)) = SubSeq(d, 1, E[m])
  BY <1>0, <1>3 DEF N
<1> QED
  BY <1>4, <1>5, Zenon

-----------------------------------------------------------------------------
(* The client's blocks.                                                     *)

\* What the quotient of naturals is.
LEMMA DivBounds ==
  ASSUME NEW n \in Nat, NEW b \in Nat \ {0}
  PROVE  /\ n \div b \in Nat
         /\ b * (n \div b) <= n
         /\ n < b * (n \div b) + b
OBVIOUS

\* The smaller of two.
LEMMA MinOfTwo ==
  ASSUME NEW a \in Nat, NEW b \in Nat
  PROVE  Min({a, b}) = IF a <= b THEN a ELSE b
<1>1. Min({a, b}) \in {a, b} /\ \A y \in {a, b} : Min({a, b}) <= y
  <2>1. {a, b} \in SUBSET Nat /\ {a, b} # {}
    OBVIOUS
  <2> QED
    BY <2>1, MinOf
<1> QED
  BY <1>1

\* The blocks of a content: none is empty, none is too large, each has its hash,
\* and together they are the content.
LEMMA SplitBlocks ==
  ASSUME NEW d \in Seq(Bytes)
  PROVE  /\ Split(d) \in Seq(Blocks) /\ Len(Split(d)) \in Nat
         /\ \A i \in 1 .. Len(Split(d)) :
              /\ Split(d)[i].data # <<>> /\ Split(d)[i].data \in Seq(Bytes)
              /\ Split(d)[i] = Block(Split(d)[i].data)
         /\ FlattenSeq([i \in 1 .. Len(Split(d)) |-> Split(d)[i].data]) = d
<1> DEFINE b == BlockSize
           n == Len(d)
           m == (n + b - 1) \div b
           E == [i \in 0 .. m |-> IF i * b <= n THEN i * b ELSE n]
           part(i) == SubSeq(d, (i - 1) * b + 1, Min({i * b, n}))
<1>1. n \in Nat /\ b \in Nat \ {0} /\ MaxPlain \in Nat /\ MaxPlain >= b
  BY LenProperties, SizesAssumption
<1>2. m \in Nat /\ b * m <= n + b - 1 /\ n + b - 1 < b * m + b
  <2>1. n + b - 1 \in Nat
    BY <1>1
  <2> DEFINE t == n + b - 1
  <2> HIDE DEF t, b, n
  <2>2. t \div b \in Nat /\ b * (t \div b) <= t /\ t < b * (t \div b) + b
    BY <1>1, <2>1, DivBounds DEF t
  <2> QED
    BY <2>2 DEF t
<1> HIDE DEF m, b, n
<1>3. E \in [0 .. m -> 0 .. n] /\ E[0] = 0 /\ E[m] = n
  <2>1. \A i \in Nat : i * b \in Nat
    BY <1>1
  <2>2. m * b >= n
    BY <1>1, <1>2
  <2> QED
    BY <1>1, <1>2, <2>1, <2>2
<1>4. ASSUME NEW i \in 1 .. m
      PROVE  /\ E[i - 1] = (i - 1) * b /\ E[i] = Min({i * b, n})
             /\ E[i - 1] < E[i] /\ E[i] <= n /\ E[i] - E[i - 1] <= b
             /\ E[i - 1] \in Nat /\ E[i] \in Nat
  <2>1. i \in Nat /\ i - 1 \in Nat /\ i * b \in Nat /\ (i - 1) * b \in Nat
    BY <1>1, <1>2
  <2>2. i * b = (i - 1) * b + b
    BY <1>1, <2>1
  <2>3. i * b <= m * b
    BY <1>1, <1>2
  <2>4. (i - 1) * b < n
    BY <1>1, <1>2, <2>1, <2>2, <2>3
  <2>5. i \in 0 .. m /\ i - 1 \in 0 .. m
    BY <1>2
  <2>6. E[i - 1] = (i - 1) * b /\ E[i] = IF i * b <= n THEN i * b ELSE n
    BY <2>4, <2>5, <1>1, <2>1
  <2>7. E[i] = Min({i * b, n})
    BY <1>1, <2>1, <2>6, MinOfTwo
  <2> HIDE DEF E
  <2> QED
    BY <1>1, <2>1, <2>2, <2>4, <2>6, <2>7
<1> HIDE DEF E
<1>5. ASSUME NEW i \in 1 .. m
      PROVE  /\ part(i) = SubSeq(d, E[i - 1] + 1, E[i])
             /\ part(i) \in Seq(Bytes) /\ part(i) # <<>> /\ part(i) \in Plains
  <2>1. part(i) = SubSeq(d, E[i - 1] + 1, E[i])
    BY <1>4, Zenon
  <2> DEFINE lo == E[i - 1] + 1
             hi == E[i]
  <2>2. lo \in Int /\ hi \in Int /\ lo <= hi /\ lo >= 1 /\ hi <= n /\ hi - lo + 1 <= b
    <3> DEFINE x == E[i - 1]
               y == E[i]
    <3>1. x < y /\ y <= n /\ y - x <= b /\ x \in Nat /\ y \in Nat
      BY <1>4
    <3>2. lo = x + 1 /\ hi = y
      OBVIOUS
    <3> HIDE DEF x, y, lo, hi
    <3> QED
      BY <1>1, <3>1, <3>2
  <2> HIDE DEF lo, hi
  <2>3. \A j \in lo .. hi : d[j] \in Bytes
    <3> TAKE j \in lo .. hi
    <3>1. j \in 1 .. Len(d)
      BY <1>1, <2>2 DEF n
    <3> QED
      BY <3>1, ElementOfSeq
  <2>4. /\ SubSeq(d, lo, hi) \in Seq(Bytes)
        /\ Len(SubSeq(d, lo, hi)) = IF lo <= hi THEN hi - lo + 1 ELSE 0
    BY <2>2, <2>3, SubSeqProperties
  <2>5. part(i) = SubSeq(d, lo, hi)
    BY <2>1 DEF lo, hi
  <2> HIDE DEF part
  <2>6. part(i) \in Seq(Bytes) /\ Len(part(i)) = hi - lo + 1
    BY <2>2, <2>4, <2>5
  <2>7. Len(part(i)) # 0 /\ Len(part(i)) <= MaxPlain
    BY <1>1, <2>2, <2>6
  <2>8. part(i) # <<>>
    BY <2>7, EmptySeq
  <2> QED
    BY <2>1, <2>6, <2>7, <2>8 DEF Plains
<1>6. Split(d) = [i \in 1 .. m |-> Block(part(i))]
  BY DEF Split, m, n, b
<1> HIDE DEF part
<1>7. \A i \in 1 .. m : Block(part(i)) \in Blocks
  BY <1>5, HashType DEF Block, Blocks
<1>8. Split(d) \in [1 .. m -> Blocks]
  BY <1>6, <1>7
<1>9. Split(d) \in Seq(Blocks) /\ Len(Split(d)) = m
  BY <1>2, <1>8, MadeSeq
<1>10. \A i \in 1 .. m : Split(d)[i] = Block(part(i)) /\ Split(d)[i].data = part(i)
  BY <1>6 DEF Block
<1> DEFINE s == [i \in 1 .. m |-> Split(d)[i].data]
<1>11. \A i \in 1 .. m : s[i] = part(i)
  BY <1>10
<1>12. s \in [1 .. m -> Seq(Bytes)]
  BY <1>5, <1>10
<1> HIDE DEF s
<1>13. s \in Seq(Seq(Bytes)) /\ Len(s) = m
  BY <1>2, <1>12, MadeSeq
<1>14. FlattenSeq(s) = d
  <2>1. \A i \in 1 .. m : E[i - 1] <= E[i] /\ s[i] = SubSeq(d, E[i - 1] + 1, E[i])
    <3> TAKE i \in 1 .. m
    <3>1. E[i - 1] < E[i] /\ E[i - 1] \in Nat /\ E[i] \in Nat
      BY <1>4
    <3>2. E[i - 1] <= E[i]
      BY <3>1
    <3>3. s[i] = SubSeq(d, E[i - 1] + 1, E[i])
      BY <1>5, <1>11, Zenon
    <3> QED
      BY <3>2, <3>3
  <2> QED
    BY <1>3, <1>13, <2>1, CutsJoined DEF n
<1> QED
  BY <1>2, <1>5, <1>9, <1>10, <1>14 DEF s

-----------------------------------------------------------------------------
(* The chunker.                                                             *)

\* The i-th of the chunks r is cut where it may be.
CutWell(r, i) ==
  /\ 0 < Len(r[i]) /\ Len(r[i]) <= MaxSize
  /\ i # Len(r) => \/ Len(r[i]) = MaxSize
                   \/ Len(r[i]) > MinSize /\ r[i + 1][1] = 0
  /\ (\E j \in MinSize + 1 .. Len(r[i]) : r[i][j] = 0) => r[i][MinSize + 1] = 0

\* r are the chunks of d from offset off on.
Chunked(d, off, r) ==
  /\ r \in Seq(Seq(Int))
  /\ FlattenSeq(r) = SubSeq(d, off + 1, Len(d))
  /\ off < Len(d) => r # <<>> /\ r[1][1] = d[off + 1]
  /\ off = Len(d) => r = <<>>
  /\ \A i \in 1 .. Len(r) : CutWell(r, i)

Chunk(d, off) == SubSeq(d, off + 1, off + ChunkLen(d, off))

\* Where a chunk ends.
LEMMA ChunkLength ==
  ASSUME NEW d \in Seq(Int), NEW off \in 0 .. Len(d) - 1
  PROVE  /\ ChunkLen(d, off) \in 1 .. Len(d) - off /\ ChunkLen(d, off) <= MaxSize
         /\ off + ChunkLen(d, off) # Len(d) =>
              \/ ChunkLen(d, off) = MaxSize
              \/ ChunkLen(d, off) > MinSize /\ d[off + ChunkLen(d, off) + 1] = 0
         /\ (\E j \in MinSize + 1 .. ChunkLen(d, off) : d[off + j] = 0)
              => d[off + MinSize + 1] = 0
<1> DEFINE remaining == Len(d) - off
           limit == Min({remaining, MaxSize})
           hits == {i \in MinSize .. limit - 1 : d[off + i + 1] = 0}
           cut == Scan(d, off, limit)
           n == ChunkLen(d, off)
<1>1. /\ Len(d) \in Nat /\ off \in Nat /\ remaining \in Nat \ {0}
      /\ MinSize \in Nat \ {0} /\ MaxSize \in Nat /\ MaxSize > MinSize
  BY LenProperties, SizesAssumption
<1>2. limit = IF remaining <= MaxSize THEN remaining ELSE MaxSize
  <2>1. remaining \in Nat /\ MaxSize \in Nat
    BY <1>1
  <2> HIDE DEF remaining
  <2> QED
    BY <2>1, MinOfTwo
<1>3. n = IF remaining <= MinSize THEN remaining ELSE IF cut = MinSize THEN limit ELSE cut
  BY DEF ChunkLen
<1>4. cut = IF hits = {} THEN MinSize ELSE Min(hits)
  BY DEF Scan
<1>5. n \in Int => (off + n # Len(d) <=> n # remaining)
  <2> HIDE DEF n
  <2> QED
    BY <1>1
<1> HIDE DEF n, cut, limit
<1>6. CASE remaining <= MinSize
  <2>1. n = remaining
    BY <1>3, <1>6
  <2>2. n \in 1 .. remaining /\ n <= MaxSize /\ MinSize + 1 .. n = {}
    BY <1>1, <1>6, <2>1
  <2> QED
    BY <1>5, <2>1, <2>2 DEF n
<1>7. CASE remaining > MinSize /\ hits = {}
  <2>1. n = limit
    BY <1>1, <1>3, <1>4, <1>7
  <2>2. n \in 1 .. remaining /\ n <= MaxSize /\ (n # remaining => n = MaxSize)
    BY <1>1, <1>2, <2>1
  <2>3. ASSUME NEW j \in MinSize + 1 .. n, d[off + j] = 0 PROVE FALSE
    <3>1. j - 1 \in MinSize .. limit - 1 /\ off + (j - 1) + 1 = off + j
      BY <1>1, <2>1, <2>2
    <3>2. j - 1 \in hits
      BY <2>3, <3>1
    <3> QED
      BY <1>7, <3>2
  <2> QED
    BY <1>5, <2>2, <2>3 DEF n
<1>8. CASE remaining > MinSize /\ hits # {}
  <2>1. hits \in SUBSET Nat
    BY <1>1
  <2>2. Min(hits) \in hits /\ \A i \in hits : Min(hits) <= i
    <3> HIDE DEF hits
    <3> QED
      BY <1>8, <2>1, MinOf
  <2>3. cut \in hits /\ \A i \in hits : cut <= i
    BY <1>4, <1>8, <2>2
  <2>4. /\ cut \in MinSize .. limit - 1 /\ d[off + cut + 1] = 0 /\ limit \in Nat
        /\ limit <= remaining /\ limit <= MaxSize
    BY <1>1, <1>2, <2>3
  <2>5. CASE cut = MinSize
    <3>1. n = limit
      BY <1>1, <1>3, <1>8, <2>5
    <3>2. n \in 1 .. remaining /\ n <= MaxSize /\ (n # remaining => n = MaxSize)
      BY <1>1, <1>2, <3>1
    <3>3. d[off + MinSize + 1] = 0
      BY <2>4, <2>5
    <3> QED
      BY <1>5, <3>2, <3>3 DEF n
  <2>6. CASE cut # MinSize
    <3>1. n = cut
      BY <1>1, <1>3, <1>8, <2>6
    <3>2. n \in 1 .. remaining /\ n <= MaxSize /\ n > MinSize /\ d[off + n + 1] = 0
      BY <1>1, <2>4, <2>6, <3>1
    <3>3. ASSUME NEW j \in MinSize + 1 .. n, d[off + j] = 0 PROVE FALSE
      <4>1. /\ j - 1 \in MinSize .. limit - 1 /\ off + (j - 1) + 1 = off + j
            /\ j - 1 < cut /\ cut \in Int /\ j - 1 \in Int
        BY <1>1, <2>4, <3>1, <3>2
      <4>2. j - 1 \in hits
        BY <3>3, <4>1
      <4>3. cut <= j - 1
        BY <2>3, <4>2
      <4> QED
        BY <4>1, <4>3
    <3> QED
      BY <1>5, <3>2, <3>3 DEF n
  <2> QED
    BY <2>5, <2>6
<1> QED
  BY <1>1, <1>6, <1>7, <1>8

\* Where the chunks of a joined sequence come from, and what they make.
LEMMA ChunksJoined ==
  ASSUME NEW s \in Seq(Seq(Int)), NEW t \in Seq(Seq(Int))
  PROVE  /\ Joined(s, t) \in Seq(Seq(Int)) /\ Len(Joined(s, t)) = Len(s) + Len(t)
         /\ Len(s) \in Nat /\ Len(t) \in Nat
         /\ \A i \in 1 .. Len(s) : Joined(s, t)[i] = s[i]
         /\ \A i \in 1 .. Len(t) : Joined(s, t)[Len(s) + i] = t[i]
         /\ FlattenSeq(Joined(s, t)) = FlattenSeq(s) \o FlattenSeq(t)
BY ConcatAt, FlattenConcat DEF Joined

\* One chunk more.
LEMMA ChunkedStep ==
  ASSUME NEW d \in Seq(Int), NEW off \in 0 .. Len(d) - 1, NEW r,
         Chunked(d, off + ChunkLen(d, off), r)
  PROVE  Chunked(d, off, Joined(<<Chunk(d, off)>>, r))
<1> DEFINE n == ChunkLen(d, off)
           c == Chunk(d, off)
           q == Joined(<<c>>, r)
           N == Len(d)
<1>1. /\ n \in 1 .. N - off /\ n <= MaxSize
      /\ off + n # N => \/ n = MaxSize
                        \/ n > MinSize /\ d[off + n + 1] = 0
      /\ (\E j \in MinSize + 1 .. n : d[off + j] = 0) => d[off + MinSize + 1] = 0
  <2>1. off \in 0 .. Len(d) - 1
    OBVIOUS
  <2> QED
    BY <2>1, ChunkLength
<1>2. /\ r \in Seq(Seq(Int)) /\ FlattenSeq(r) = SubSeq(d, off + n + 1, N)
      /\ off + n < N => r # <<>> /\ r[1][1] = d[off + n + 1]
      /\ off + n = N => r = <<>>
      /\ \A i \in 1 .. Len(r) : CutWell(r, i)
  BY DEF Chunked
<1>3. N \in Nat /\ off \in Nat /\ MinSize \in Nat \ {0} /\ MaxSize \in Nat
  BY LenProperties, SizesAssumption
<1> HIDE DEF n, N
<1>4. n \in Nat \ {0} /\ off + n <= N /\ off < N /\ off + n \in Nat
  BY <1>1, <1>3
<1>5. /\ c \in Seq(Int) /\ Len(c) = n /\ \A j \in 1 .. n : c[j] = d[off + j]
  <2> DEFINE lo == off + 1
             hi == off + n
  <2>1. lo \in Int /\ hi \in Int /\ lo <= hi /\ hi - lo + 1 = n
        /\ \A j \in 1 .. n : lo + j - 1 = off + j
    BY <1>3, <1>4
  <2>2. \A j \in lo .. hi : d[j] \in Int
    <3> TAKE j \in lo .. hi
    <3>1. j \in 1 .. Len(d)
      BY <1>3, <1>4 DEF N
    <3> QED
      BY <3>1, ElementOfSeq
  <2>3. c = SubSeq(d, lo, hi)
    BY DEF Chunk, n
  <2> HIDE DEF lo, hi, c
  <2>4. /\ SubSeq(d, lo, hi) \in Seq(Int)
        /\ Len(SubSeq(d, lo, hi)) = IF lo <= hi THEN hi - lo + 1 ELSE 0
        /\ \A j \in 1 .. hi - lo + 1 : SubSeq(d, lo, hi)[j] = d[lo + j - 1]
    BY <2>1, <2>2, SubSeqProperties
  <2>5. /\ c \in Seq(Int) /\ Len(c) = IF lo <= hi THEN hi - lo + 1 ELSE 0
        /\ \A j \in 1 .. hi - lo + 1 : c[j] = d[lo + j - 1]
    BY <2>3, <2>4, Zenon
  <2>6. \A j \in 1 .. n : c[j] = d[off + j]
    BY <2>1, <2>5
  <2> QED
    BY <2>1, <2>5, <2>6
<1> HIDE DEF c
<1>6. <<c>> \in Seq(Seq(Int)) /\ FlattenSeq(<<c>>) = c
  BY <1>5, FlattenOne
<1>7. /\ q \in Seq(Seq(Int)) /\ Len(q) = Len(r) + 1 /\ Len(r) \in Nat
      /\ q[1] = c /\ \A i \in 1 .. Len(r) : q[i + 1] = r[i]
  <2> DEFINE h == <<c>>
  <2>1. h \in Seq(Seq(Int)) /\ Len(h) = 1 /\ h[1] = c /\ 1 \in 1 .. 1
    BY <1>6
  <2> HIDE DEF h
  <2>2. /\ Joined(h, r) \in Seq(Seq(Int)) /\ Len(Joined(h, r)) = Len(h) + Len(r)
        /\ Len(r) \in Nat
        /\ \A i \in 1 .. Len(h) : Joined(h, r)[i] = h[i]
        /\ \A i \in 1 .. Len(r) : Joined(h, r)[Len(h) + i] = r[i]
    BY <1>2, <2>1, ChunksJoined
  <2>3. q = Joined(h, r)
    BY DEF h
  <2> HIDE DEF q
  <2>4. /\ q \in Seq(Seq(Int)) /\ Len(q) = Len(h) + Len(r) /\ Len(r) \in Nat
        /\ \A i \in 1 .. Len(h) : q[i] = h[i]
        /\ \A i \in 1 .. Len(r) : q[Len(h) + i] = r[i]
    BY <2>2, <2>3, Zenon
  <2>5. ASSUME NEW i \in 1 .. Len(r) PROVE q[i + 1] = r[i]
    <3>1. q[Len(h) + i] = r[i]
      BY <2>4
    <3>2. Len(h) + i = i + 1
      BY <2>1
    <3> QED
      BY <3>1, <3>2, Zenon
  <2> QED
    BY <2>1, <2>4, <2>5
<1>8. FlattenSeq(q) = SubSeq(d, off + 1, N)
  <2>1. FlattenSeq(q) = c \o SubSeq(d, off + n + 1, N)
    <3>1. FlattenSeq(q) = FlattenSeq(<<c>>) \o FlattenSeq(r)
      BY <1>2, <1>6, ChunksJoined
    <3> QED
      BY <1>2, <1>6, <3>1
  <2>2. off + 1 \in 1 .. N + 1 /\ off + n \in (off + 1) - 1 .. N /\ N \in off + n .. N
    BY <1>3, <1>4
  <2>3. SubSeq(d, off + 1, off + n) \o SubSeq(d, off + n + 1, N) = SubSeq(d, off + 1, N)
    BY <2>2, ConcatAdjacentSubSeq DEF N
  <2> QED
    BY <2>1, <2>3 DEF c, Chunk, n
<1> HIDE DEF q
<1>9. off < N => q # <<>> /\ q[1][1] = d[off + 1]
  <2>1. q # <<>>
    BY <1>7, EmptySeq
  <2>2. 1 \in 1 .. n
    BY <1>4
  <2> QED
    BY <1>5, <1>7, <2>1, <2>2
<1>10. ASSUME NEW i \in 1 .. Len(q) PROVE CutWell(q, i)
  <2>1. CASE i = 1
    <3>1. Len(q[i]) = n /\ \A j \in 1 .. n : q[i][j] = d[off + j]
      BY <1>5, <1>7, <2>1
    <3>2. 0 < Len(q[i]) /\ Len(q[i]) <= MaxSize
      BY <1>1, <1>4, <3>1
    <3>3. ASSUME i # Len(q)
          PROVE  Len(q[i]) = MaxSize \/ (Len(q[i]) > MinSize /\ q[i + 1][1] = 0)
      <4>1. Len(r) # 0 /\ 1 \in 1 .. Len(r) /\ r # <<>>
        BY <1>7, <2>1, <3>3, EmptySeq
      <4>2. off + n # N
        BY <1>2, <4>1
      <4>3. q[i + 1] = r[1]
        BY <1>7, <2>1, <4>1
      <4>4. r[1][1] = d[off + n + 1]
        BY <1>2, <1>3, <1>4, <4>2
      <4> QED
        BY <1>1, <3>1, <4>2, <4>3, <4>4
    <3>4. ASSUME NEW j \in MinSize + 1 .. Len(q[i]), q[i][j] = 0
          PROVE  q[i][MinSize + 1] = 0
      <4>0. j \in MinSize + 1 .. n
        BY <3>1, <3>4
      <4>1. j \in 1 .. n /\ j \in MinSize + 1 .. n /\ MinSize + 1 \in 1 .. n
            /\ off + (MinSize + 1) = off + MinSize + 1
        BY <1>3, <1>4, <4>0
      <4>2. d[off + j] = 0
        BY <3>1, <3>4, <4>1
      <4>3. d[off + MinSize + 1] = 0
        BY <1>1, <4>1, <4>2
      <4> QED
        BY <3>1, <4>1, <4>3
    <3> QED
      BY <3>2, <3>3, <3>4 DEF CutWell
  <2>2. CASE i # 1
    <3> DEFINE k == i - 1
    <3>1. /\ k \in 1 .. Len(r) /\ i = k + 1 /\ q[i] = r[k]
          /\ (i # Len(q) => k # Len(r) /\ k + 1 \in 1 .. Len(r) /\ q[i + 1] = r[k + 1])
      <4>1. k \in 1 .. Len(r) /\ i = k + 1 /\ (i # Len(q) => k # Len(r) /\ i \in 1 .. Len(r))
        BY <1>7, <2>2
      <4> HIDE DEF k
      <4>2. q[i] = r[k] /\ (i # Len(q) => q[i + 1] = r[i])
        BY <1>7, <4>1
      <4> QED
        BY <4>1, <4>2
    <3> HIDE DEF k
    <3>2. CutWell(r, k)
      BY <1>2, <3>1
    <3> QED
      BY <3>1, <3>2 DEF CutWell
  <2> QED
    BY <2>1, <2>2
<1>11. off # N
  BY <1>3, <1>4
<1>12. Chunked(d, off, q)
  BY <1>7, <1>8, <1>9, <1>10, <1>11 DEF Chunked, N
<1> QED
  BY <1>12 DEF q, c

\* The chunks from each of the last k offsets on.
ChunksBody(d, from, k) ==
  from = [off \in Len(d) - k .. Len(d) |->
            IF off = Len(d) THEN <<>>
            ELSE LET n == ChunkLen(d, off)
                 IN <<SubSeq(d, off + 1, off + n)>> \o from[off + n]]

\* Each value of that function adds one chunk.
LEMMA ChunksValue ==
  ASSUME NEW d \in Seq(Int), NEW k \in 0 .. Len(d), NEW from, ChunksBody(d, from, k)
  PROVE  /\ from[Len(d)] = <<>>
         /\ \A off \in Len(d) - k .. Len(d) - 1 :
              from[off] = Joined(<<Chunk(d, off)>>, from[off + ChunkLen(d, off)])
<1>1. Len(d) \in Nat
  BY LenProperties
<1>2. ASSUME NEW off \in Len(d) - k .. Len(d)
      PROVE  from[off] = IF off = Len(d) THEN <<>>
                         ELSE <<SubSeq(d, off + 1, off + ChunkLen(d, off))>>
                                \o from[off + ChunkLen(d, off)]
  BY Zenon DEF ChunksBody
<1>3. from[Len(d)] = <<>>
  <2>1. Len(d) \in Len(d) - k .. Len(d)
    BY <1>1
  <2> QED
    BY <1>2, <2>1
<1>4. ASSUME NEW off \in Len(d) - k .. Len(d) - 1
      PROVE  from[off] = Joined(<<Chunk(d, off)>>, from[off + ChunkLen(d, off)])
  <2>1. off \in Len(d) - k .. Len(d) /\ off # Len(d)
    BY <1>1
  <2> QED
    BY <1>2, <2>1, Zenon DEF Joined, Chunk
<1> QED
  BY <1>3, <1>4

\* There is such a function: offset by offset, from the end of the buffer.
LEMMA ChunksExist ==
  ASSUME NEW d \in Seq(Int)
  PROVE  \E from : ChunksBody(d, from, Len(d))
<1> DEFINE N == Len(d)
           S == {k \in Nat : k <= N => \E from : ChunksBody(d, from, k)}
<1>1. N \in Nat
  BY LenProperties
<1>2. 0 \in S
  <2> DEFINE f == [off \in N .. N |-> <<>>]
  <2>1. f = [off \in N - 0 .. N |->
               IF off = N THEN <<>>
               ELSE LET n == ChunkLen(d, off)
                    IN <<SubSeq(d, off + 1, off + n)>> \o f[off + n]]
    <3>1. N - 0 .. N = N .. N /\ \A off \in N .. N : off = N
      BY <1>1
    <3> HIDE DEF N
    <3> QED
      BY <3>1
  <2>2. ChunksBody(d, f, 0)
    BY <2>1, Zenon DEF ChunksBody
  <2> QED
    BY <2>2
<1>3. ASSUME NEW k \in Nat, k \in S PROVE k + 1 \in S
  <2>1. SUFFICES ASSUME k + 1 <= N PROVE \E from : ChunksBody(d, from, k + 1)
    OBVIOUS
  <2>2. k \in 0 .. N
    BY <1>1, <2>1
  <2>3. PICK f : ChunksBody(d, f, k)
    BY <1>3, <2>2
  <2> DEFINE Step(g, off) == IF off = N THEN <<>>
                             ELSE Joined(<<Chunk(d, off)>>, g[off + ChunkLen(d, off)])
             g == [off \in N - (k + 1) .. N |->
                     IF off = N - (k + 1) THEN Step(f, off) ELSE f[off]]
  <2>4. ASSUME NEW off \in N - (k + 1) .. N PROVE g[off] = Step(g, off)
    <3>1. /\ off \in Nat /\ off <= N
          /\ (off # N => off \in 0 .. Len(d) - 1)
      BY <1>1, <2>1
    <3>2. off # N => ChunkLen(d, off) \in 1 .. N - off
      BY <3>1, ChunkLength
    <3> HIDE DEF N
    <3>3. off # N => /\ off + ChunkLen(d, off) \in N - (k + 1) .. N
                     /\ off + ChunkLen(d, off) # N - (k + 1)
      <4> DEFINE n == ChunkLen(d, off)
      <4>1. off # N => n \in 1 .. N - off
        BY <3>2
      <4> HIDE DEF n
      <4>2. off # N => off + n \in N - (k + 1) .. N /\ off + n # N - (k + 1)
        BY <1>1, <3>1, <4>1
      <4> QED
        BY <4>2 DEF n
    <3>4. off # N => g[off + ChunkLen(d, off)] = f[off + ChunkLen(d, off)]
      BY <3>3
    <3>5. Step(g, off) = Step(f, off)
      <4> HIDE DEF g
      <4>1. CASE off = N
        BY <4>1
      <4>2. CASE off # N
        BY <3>4, <4>2
      <4> QED
        BY <4>1, <4>2
    <3>6. CASE off = N - (k + 1)
      BY <3>5, <3>6
    <3>7. CASE off # N - (k + 1)
      <4>1. off \in N - k .. N /\ (off # N => off \in N - k .. N - 1)
        BY <1>1, <2>2, <3>1, <3>7
      <4>2. f[off] = Step(f, off)
        <5>1. CASE off = N
          BY <2>2, <2>3, <5>1, ChunksValue DEF N
        <5>2. CASE off # N
          BY <2>2, <2>3, <4>1, <5>2, ChunksValue DEF N
        <5> QED
          BY <5>1, <5>2
      <4>3. g[off] = f[off]
        BY <3>7
      <4> QED
        BY <3>5, <4>2, <4>3
    <3> QED
      BY <3>6, <3>7
  <2>5. g = [off \in N - (k + 1) .. N |->
               IF off = N THEN <<>>
               ELSE LET n == ChunkLen(d, off)
                    IN <<SubSeq(d, off + 1, off + n)>> \o g[off + n]]
    <3>1. g = [off \in N - (k + 1) .. N |-> g[off]]
      OBVIOUS
    <3>2. \A off \in N - (k + 1) .. N :
             g[off] = IF off = N THEN <<>>
               ELSE LET n == ChunkLen(d, off)
                    IN <<SubSeq(d, off + 1, off + n)>> \o g[off + n]
      BY <2>4, Zenon DEF Joined, Chunk
    <3> HIDE DEF g, N
    <3> QED
      BY <3>1, <3>2, Zenon
  <2> HIDE DEF g
  <2>6. ChunksBody(d, g, k + 1)
    BY <2>5, Zenon DEF ChunksBody
  <2> QED
    BY <2>6
<1> HIDE DEF S
<1>4. N \in S
  <2>1. Nat \subseteq S
    BY <1>2, <1>3, Induction
  <2> QED
    BY <1>1, <2>1
<1> QED
  BY <1>1, <1>4 DEF S

\* The chunks of a buffer: joined they are the buffer, and each is cut well.
LEMMA ChunksOfBuffer ==
  ASSUME NEW d \in Seq(Int)
  PROVE  /\ ProcessBuffer(d) \in Seq(Seq(Int))
         /\ FlattenSeq(ProcessBuffer(d)) = d
         /\ \A i \in 1 .. Len(ProcessBuffer(d)) : CutWell(ProcessBuffer(d), i)
<1> DEFINE N == Len(d)
           from == CHOOSE f : f = [off \in 0 .. Len(d) |->
                     IF off = Len(d) THEN <<>>
                     ELSE LET n == ChunkLen(d, off)
                          IN <<SubSeq(d, off + 1, off + n)>> \o f[off + n]]
           S == {k \in Nat : \A off \in 0 .. N : N - off <= k => Chunked(d, off, from[off])}
<1>1. N \in Nat
  BY LenProperties
<1>2. ProcessBuffer(d) = from[0]
  BY DEF ProcessBuffer
<1>3. ChunksBody(d, from, N)
  <2>1. Len(d) - Len(d) = 0
    BY <1>1
  <2>2. \E f : f = [off \in 0 .. Len(d) |->
                     IF off = Len(d) THEN <<>>
                     ELSE LET n == ChunkLen(d, off)
                          IN <<SubSeq(d, off + 1, off + n)>> \o f[off + n]]
    <3>1. PICK f : ChunksBody(d, f, Len(d))
      BY ChunksExist
    <3> QED
      BY <2>1, <3>1, Zenon DEF ChunksBody
  <2>3. from = [off \in 0 .. Len(d) |->
                     IF off = Len(d) THEN <<>>
                     ELSE LET n == ChunkLen(d, off)
                          IN <<SubSeq(d, off + 1, off + n)>> \o from[off + n]]
    BY <2>2, Zenon
  <2> HIDE DEF from
  <2> QED
    BY <2>1, <2>3, Zenon DEF ChunksBody
<1> HIDE DEF from
<1>4. /\ from[N] = <<>>
      /\ \A off \in 0 .. N - 1 :
           from[off] = Joined(<<Chunk(d, off)>>, from[off + ChunkLen(d, off)])
  <2>1. N \in 0 .. Len(d) /\ N - N = 0
    BY <1>1
  <2>2. /\ from[Len(d)] = <<>>
        /\ \A off \in Len(d) - N .. Len(d) - 1 :
             from[off] = Joined(<<Chunk(d, off)>>, from[off + ChunkLen(d, off)])
    <3> HIDE DEF N
    <3> QED
      BY <1>3, <2>1, ChunksValue
  <2> QED
    BY <2>1, <2>2, Zenon
<1>5. Chunked(d, N, <<>>)
  <2>1. SubSeq(d, N + 1, N) = <<>>
    <3>1. N \in 0 .. Len(d)
      BY <1>1
    <3>2. Len(SubSeq(d, N + 1, Len(d))) = 0 /\ SubSeq(d, N + 1, Len(d)) \in Seq(Int)
      <4>1. Len(SubSeq(d, N + 1, Len(d))) = Len(d) - N
            /\ SubSeq(d, N + 1, Len(d)) \in Seq(Int)
        BY <3>1, PrefixType
      <4> QED
        BY <1>1, <4>1
    <3> QED
      BY <3>2, EmptySeq
  <2>2. <<>> \in Seq(Seq(Int)) /\ Len(<<>>) = 0
    BY EmptySeq
  <2>3. ~(N < Len(d)) /\ 1 .. 0 = {}
    BY <1>1
  <2> QED
    BY <2>1, <2>2, <2>3, FlattenEmpty DEF Chunked
<1>6. 0 \in S
  <2>1. ASSUME NEW off \in 0 .. N, N - off <= 0 PROVE off = N
    BY <1>1, <2>1
  <2> HIDE DEF N
  <2> QED
    BY <1>4, <1>5, <2>1
<1>7. ASSUME NEW k \in Nat, k \in S PROVE k + 1 \in S
  <2>1. ASSUME NEW off \in 0 .. N, N - off <= k + 1 PROVE Chunked(d, off, from[off])
    <3>1. CASE off = N
      BY <1>4, <1>5, <3>1
    <3>2. CASE off # N
      <4>1. off \in 0 .. Len(d) - 1
        BY <1>1, <3>2
      <4>2. ChunkLen(d, off) \in 1 .. Len(d) - off
        BY <4>1, ChunkLength
      <4>3. off + ChunkLen(d, off) \in 0 .. N /\ N - (off + ChunkLen(d, off)) <= k
        <5> DEFINE n == ChunkLen(d, off)
        <5>1. n \in 1 .. N - off
          BY <4>2
        <5> HIDE DEF n, N
        <5>2. off + n \in 0 .. N /\ N - (off + n) <= k
          BY <1>1, <2>1, <5>1
        <5> QED
          BY <5>2 DEF n
      <4>4. Chunked(d, off + ChunkLen(d, off), from[off + ChunkLen(d, off)])
        BY <1>7, <4>3
      <4>5. Chunked(d, off, Joined(<<Chunk(d, off)>>, from[off + ChunkLen(d, off)]))
        BY <4>1, <4>4, ChunkedStep
      <4>6. from[off] = Joined(<<Chunk(d, off)>>, from[off + ChunkLen(d, off)])
        BY <1>4, <4>1
      <4> QED
        BY <4>5, <4>6, Zenon
    <3> QED
      BY <3>1, <3>2
  <2> QED
    BY <2>1
<1> HIDE DEF S
<1>8. N \in S
  <2>1. Nat \subseteq S
    BY <1>6, <1>7, Induction
  <2> QED
    BY <1>1, <2>1
<1>9. Chunked(d, 0, from[0])
  <2>1. 0 \in 0 .. N /\ N - 0 <= N
    BY <1>1
  <2> HIDE DEF N
  <2> QED
    BY <1>8, <2>1 DEF S
<1>10. SubSeq(d, 0 + 1, Len(d)) = d
  BY PrefixEnds
<1> QED
  BY <1>2, <1>9, <1>10 DEF Chunked

-----------------------------------------------------------------------------
(* The write and the read after it.                                         *)

\* The blocks as the client sends them.
LEMMA SparseBlocks ==
  ASSUME FileSent
  PROVE  /\ Sparse \in Seq(Blocks) /\ Len(Sparse) = Len(Split(file.content))
         /\ \A i \in 1 .. Len(Sparse) :
              /\ Sparse[i].hash = Split(file.content)[i].hash
              /\ Sparse[i].data = IF Split(file.content)[i].hash \in known THEN <<>>
                                  ELSE Split(file.content)[i].data
<1> DEFINE s == Split(file.content)
           m == Len(s)
<1>1. s \in Seq(Blocks) /\ m \in Nat
  BY SplitBlocks DEF FileSent, Bytes
<1>2. DOMAIN s = 1 .. m
  BY <1>1, LenProperties
<1>3. Sparse = [i \in 1 .. m |-> IF s[i].hash \in known THEN [s[i] EXCEPT !.data = <<>>] ELSE s[i]]
  BY <1>2 DEF Sparse, Map
<1> HIDE DEF s
<1>4. ASSUME NEW i \in 1 .. m
      PROVE  /\ Sparse[i] \in Blocks
             /\ Sparse[i].hash = s[i].hash
             /\ Sparse[i].data = IF s[i].hash \in known THEN <<>> ELSE s[i].data
  <2>1. s[i] \in Blocks
    BY <1>1, ElementOfSeq
  <2>2. <<>> \in Plains
    BY EmptySeq, SizesAssumption DEF Plains
  <2>3. Sparse[i] = IF s[i].hash \in known THEN [s[i] EXCEPT !.data = <<>>] ELSE s[i]
    BY <1>3
  <2> QED
    BY <2>1, <2>2, <2>3 DEF Blocks
<1>5. Sparse \in [1 .. m -> Blocks]
  BY <1>3, <1>4
<1>6. Sparse \in Seq(Blocks) /\ Len(Sparse) = m
  BY <1>1, <1>5, MadeSeq
<1> QED
  BY <1>4, <1>6 DEF s

\* The handshake names only hashes that the server has.
LEMMA HandshakeHeld ==
  ASSUME FileSent
  PROVE  \A h \in HasBlocks : Held(h)
<1> DEFINE hs == Map(HashOf, Split(file.content))
           query == EncodeHashes(hs)
           T == {h \in Int : Held(h)}
           each == Map(LAMBDA h : IF Held(h) THEN <<h>> ELSE <<>>, DecodeHashes(query))
           held == FlattenSeq(each)
           answer == EncodeHashes(held)
<1>1. HasBlocks = IF Received(query) /\ Received(answer) THEN ToSet(DecodeHashes(answer)) ELSE {}
  BY DEF HasBlocks
<1>2. hs \in Seq(Int)
  <2>1. /\ Split(file.content) \in Seq(Blocks) /\ Len(Split(file.content)) \in Nat
        /\ DOMAIN Split(file.content) = 1 .. Len(Split(file.content))
    BY SplitBlocks, LenProperties DEF FileSent, Bytes
  <2>2. \A i \in 1 .. Len(Split(file.content)) : Split(file.content)[i].hash \in Int
    <3> TAKE i \in 1 .. Len(Split(file.content))
    <3>1. Split(file.content)[i] \in Blocks
      BY <2>1, ElementOfSeq
    <3> QED
      BY <3>1 DEF Blocks
  <2>3. hs \in [1 .. Len(Split(file.content)) -> Int]
    BY <2>1, <2>2 DEF Map, HashOf
  <2> QED
    BY <2>1, <2>3, MadeSeq
<1> HIDE DEF hs
<1>3. DecodeHashes(query) = hs
  BY <1>2, HashesDecoded
<1>4. each \in Seq(Seq(T))
  <2>1. Len(hs) \in Nat /\ DOMAIN hs = 1 .. Len(hs) /\ \A i \in 1 .. Len(hs) : hs[i] \in Int
    BY <1>2, LenProperties, ElementOfSeq
  <2>2. each = [i \in 1 .. Len(hs) |-> IF Held(hs[i]) THEN <<hs[i]>> ELSE <<>>]
    BY <1>3, <2>1 DEF Map
  <2>3. ASSUME NEW i \in 1 .. Len(hs)
        PROVE  (IF Held(hs[i]) THEN <<hs[i]>> ELSE <<>>) \in Seq(T)
    <3>1. CASE Held(hs[i])
      <4>1. hs[i] \in T
        BY <2>1, <3>1
      <4> HIDE DEF T
      <4>2. <<hs[i]>> \in Seq(T)
        BY <4>1
      <4> QED
        BY <3>1, <4>2
    <3>2. CASE ~Held(hs[i])
      BY <3>2, EmptySeq
    <3> QED
      BY <3>1, <3>2
  <2>4. each \in [1 .. Len(hs) -> Seq(T)]
    <3> HIDE DEF T, each
    <3> QED
      BY <2>2, <2>3
  <2> HIDE DEF T, each
  <2> QED
    BY <2>1, <2>4, MadeSeq
<1> HIDE DEF each
<1>5. held \in Seq(T) /\ held \in Seq(Int)
  <2>1. T \subseteq Int
    OBVIOUS
  <2> HIDE DEF T
  <2>2. held \in Seq(T)
    BY <1>4, FlattenType
  <2> HIDE DEF held
  <2> QED
    BY <2>1, <2>2, SeqMonotonic
<1> HIDE DEF held
<1>6. DecodeHashes(answer) = held
  BY <1>5, HashesDecoded
<1>7. ASSUME NEW h \in ToSet(held) PROVE Held(h)
  <2> HIDE DEF T
  <2>1. PICK i \in DOMAIN held : h = held[i]
    BY DEF ToSet
  <2>2. i \in 1 .. Len(held)
    BY <1>5, LenProperties
  <2>3. h \in T
    BY <1>5, <2>1, <2>2, ElementOfSeq
  <2> QED
    BY <2>3 DEF T
<1> QED
  BY <1>1, <1>6, <1>7

\* The hash of a block is that of its data.
LEMMA BlockHash ==
  ASSUME NEW b, NEW d, b = Block(d)
  PROVE  b.hash = Hash(d)
BY DEF Block

\* What the server makes of a sparse write: every block is found, and it is the
\* client's.
LEMMA SparseWritten ==
  ASSUME FileSent, StoreHashed, KnownHeld, Fits, pc = "arrived", op = "sparse",
         payload = Request,
         NEW f, f = DecodeSparse(payload),
         NEW blocks, blocks = store \cup {b \in Brought(f) : ~Held(b.hash)}
  PROVE  /\ f # NoFile /\ payload \in Seq(Int)
         /\ \A b \in ToSet(f.chunks) : \E o \in blocks : o.hash = b.hash
         /\ Resolved(f, blocks).path = file.path
         /\ Resolved(f, blocks).expected = file.expected
         /\ FlattenSeq(Resolved(f, blocks).chunks) = file.content
<1> DEFINE s == Split(file.content)
           m == Len(s)
           r == Sparse
<1>1. /\ s \in Seq(Blocks) /\ m \in Nat
      /\ \A i \in 1 .. m : /\ s[i].data # <<>> /\ s[i].data \in Seq(Bytes)
                           /\ s[i] = Block(s[i].data)
      /\ FlattenSeq([i \in 1 .. m |-> s[i].data]) = file.content
  BY SplitBlocks DEF FileSent, Bytes
<1>2. /\ r \in Seq(Blocks) /\ Len(r) = m
      /\ \A i \in 1 .. m : /\ r[i].hash = s[i].hash
                           /\ r[i].data = IF s[i].hash \in known THEN <<>> ELSE s[i].data
  BY SparseBlocks
<1> HIDE DEF s, r
<1>3. DOMAIN r = 1 .. m
  BY <1>1, <1>2, LenProperties
<1>4. /\ f = [path |-> file.path, expected |-> file.expected, chunks |-> r]
      /\ f # NoFile /\ payload \in Seq(Int)
  <2>1. payload = EncodeSparse(file.path, r, file.expected, zstd)
    BY DEF Request, r
  <2>2. /\ file.path \in Seq(Bytes) /\ Len(file.path) < PathMod
        /\ file.expected \in {None, 0}
    BY DEF FileSent, Fits, Bytes
  <2>3. /\ DecodeSparse(EncodeSparse(file.path, r, file.expected, zstd))
             = [path |-> file.path, expected |-> file.expected, chunks |-> r]
        /\ [path |-> file.path, expected |-> file.expected, chunks |-> r] # NoFile
        /\ EncodeSparse(file.path, r, file.expected, zstd) \in Seq(Int)
    BY <1>2, <2>2, SparseDecoded
  <2> QED
    BY <2>1, <2>3, Zenon
<1>5. f.path = file.path /\ f.expected = file.expected /\ f.chunks = r
  BY <1>4
<1>6. ASSUME NEW i \in 1 .. m PROVE r[i].data # <<>> => r[i] = s[i]
  <2>1. r[i] \in Blocks /\ s[i] \in Blocks
    BY <1>1, <1>2, ElementOfSeq
  <2> QED
    BY <1>2, <2>1 DEF Blocks
\* Every block of the union is made of its data.
<1>7. ASSUME NEW o \in blocks PROVE o.data \in Seq(Bytes) /\ o.hash = Hash(o.data)
  <2>1. CASE o \in store
    <3>1. o.data \in Seq(Bytes) /\ o = Block(o.data)
      BY <2>1 DEF StoreHashed, Bytes
    <3> QED
      BY <3>1 DEF Block
  <2>2. CASE o \notin store
    <3>1. o \in Brought(f)
      BY <2>2
    <3>2. o \in ToSet(r) /\ o.data # <<>>
      BY <1>5, <3>1 DEF Brought
    <3>3. PICK i \in 1 .. m : o = r[i]
      BY <1>3, <3>2 DEF ToSet
    <3>4. o = s[i]
      BY <1>6, <3>2, <3>3
    <3>5. s[i].data \in Seq(Bytes) /\ s[i] = Block(s[i].data)
      BY <1>1
    <3>6. s[i].hash = Hash(s[i].data)
      BY <3>5, BlockHash, Zenon
    <3> QED
      BY <3>4, <3>5, <3>6, Zenon
  <2> QED
    BY <2>1, <2>2
<1>8. ASSUME NEW i \in 1 .. m PROVE \E o \in blocks : o.hash = r[i].hash
  <2>1. CASE s[i].hash \in known
    <3>1. Held(r[i].hash)
      BY <1>2, <2>1 DEF KnownHeld
    <3> QED
      BY <3>1 DEF Held
  <2>2. CASE s[i].hash \notin known
    <3>1. r[i].data # <<>>
      BY <1>1, <1>2, <2>2
    <3>2. r[i] \in Brought(f)
      BY <1>3, <1>5, <3>1 DEF Brought, ToSet
    <3> QED
      BY <3>2 DEF Held
  <2> QED
    BY <2>1, <2>2
<1>9. \A b \in ToSet(f.chunks) : \E o \in blocks : o.hash = b.hash
  BY <1>3, <1>5, <1>8 DEF ToSet
\* What is fetched under the hash of a block is that block's data.
<1>10. ASSUME NEW i \in 1 .. m PROVE Fetch(r[i].hash, blocks).data = s[i].data
  <2> DEFINE o == Fetch(r[i].hash, blocks)
  <2>1. o \in blocks /\ o.hash = r[i].hash
    BY <1>8 DEF Fetch
  <2> HIDE DEF o
  <2>2. o.data \in Seq(Bytes) /\ o.hash = Hash(o.data)
    BY <1>7, <2>1
  <2>3. s[i].data \in Seq(Bytes) /\ s[i].hash = Hash(s[i].data)
    <3>1. s[i].data \in Seq(Bytes) /\ s[i] = Block(s[i].data)
      BY <1>1
    <3> QED
      BY <3>1, BlockHash, Zenon
  <2>4. Hash(o.data) = Hash(s[i].data)
    BY <1>2, <2>1, <2>2, <2>3
  <2>5. o.data = s[i].data
    BY <2>2, <2>3, <2>4, HashInjective
  <2> QED
    BY <2>5 DEF o
<1> DEFINE back(b) == IF b.data /= <<>> THEN b.data ELSE Fetch(b.hash, blocks).data
<1>11. Resolved(f, blocks) = [f EXCEPT !.chunks = Map(back, f.chunks)]
  BY DEF Resolved
<1>12. Map(back, f.chunks) = [i \in 1 .. m |-> s[i].data]
  <2>1. ASSUME NEW i \in 1 .. m PROVE back(r[i]) = s[i].data
    BY <1>6, <1>10
  <2> HIDE DEF back
  <2>2. Map(back, r) = [i \in 1 .. m |-> back(r[i])]
    BY <1>3 DEF Map
  <2>3. Map(back, r) = [i \in 1 .. m |-> s[i].data]
    BY <2>1, <2>2
  <2> QED
    BY <1>5, <2>3
<1> HIDE DEF back
<1>13. /\ Resolved(f, blocks).path = f.path
       /\ Resolved(f, blocks).expected = f.expected
       /\ Resolved(f, blocks).chunks = Map(back, f.chunks)
  BY <1>4, <1>11
<1> QED
  BY <1>1, <1>4, <1>5, <1>9, <1>12, <1>13

\* A plain write, whether or not its path's length fits the field.
LEMMA WriteType ==
  ASSUME NEW p \in Seq(Bytes), NEW d \in Seq(Bytes), NEW f, f = DecodeWrite(EncodeWrite(p, d)),
         f # NoFile
  PROVE  EncodeWrite(p, d) \in Seq(Int) /\ f.chunks[1] \in Seq(Int)
<1> DEFINE w == EncodeWrite(p, d)
           c == <<Len(p) % PathMod>>
           h == EncodePath(p)
<1>1. /\ p \in Seq(Int) /\ d \in Seq(Int) /\ Len(p) \in Nat /\ PathMod \in Nat \ {0}
  BY BytesAreInts, LenProperties, SizesAssumption
<1>2. c \in Seq(Int) /\ Len(c) = 1 /\ c[1] \in Nat
  <2>1. Len(p) % PathMod \in Nat
    BY <1>1
  <2> QED
    BY <2>1
<1>3. h = Joined(c, p) /\ w = Joined(h, d)
  BY DEF EncodePath, EncodeWrite, Joined
<1> HIDE DEF c, h, w
<1>4. h \in Seq(Int) /\ Len(h) >= 1 /\ h[1] \in Nat /\ Len(h) \in Nat
  <2>1. /\ Joined(c, p) \in Seq(Int) /\ Len(Joined(c, p)) = Len(c) + Len(p)
        /\ \A i \in 1 .. Len(c) : Joined(c, p)[i] = c[i]
    BY <1>1, <1>2, JoinedAt
  <2>2. h \in Seq(Int) /\ Len(h) = Len(c) + Len(p) /\ \A i \in 1 .. Len(c) : h[i] = c[i]
    BY <1>3, <2>1, Zenon
  <2> QED
    BY <1>1, <1>2, <2>2
<1>5. w \in Seq(Int) /\ Len(w) \in Nat /\ w[1] \in Nat
  <2>1. /\ Joined(h, d) \in Seq(Int) /\ Len(Joined(h, d)) = Len(h) + Len(d) /\ Len(d) \in Nat
        /\ \A i \in 1 .. Len(h) : Joined(h, d)[i] = h[i]
    BY <1>1, <1>4, JoinedAt
  <2>2. w \in Seq(Int) /\ Len(w) = Len(h) + Len(d) /\ \A i \in 1 .. Len(h) : w[i] = h[i]
    BY <1>3, <2>1, Zenon
  <2> QED
    BY <1>4, <2>1, <2>2
<1> DEFINE lo == 2 + w[1]
           hi == Len(w)
<1>6. lo \in Int /\ hi \in Int /\ \A i \in lo .. hi : w[i] \in Int
  <2>1. \A i \in lo .. hi : i \in 1 .. Len(w)
    BY <1>5
  <2> QED
    BY <1>5, <2>1, ElementOfSeq
<1>7. f.chunks[1] = SubSeq(w, lo, hi)
  <2>1. f = [path |-> SubSeq(w, 2, 1 + w[1]), expected |-> None,
             chunks |-> <<SubSeq(w, 2 + w[1], Len(w))>>]
    BY Zenon DEF DecodeWrite, w
  <2> DEFINE x == SubSeq(w, 2 + w[1], Len(w))
  <2>2. f.chunks = <<x>>
    BY <2>1
  <2>3. <<x>>[1] = x
    OBVIOUS
  <2> HIDE DEF x
  <2>4. f.chunks[1] = x
    BY <2>2, <2>3, Zenon
  <2> QED
    BY <2>4 DEF x
<1> HIDE DEF lo, hi
<1>8. SubSeq(w, lo, hi) \in Seq(Int)
  BY <1>6, SubSeqProperties
<1> QED
  BY <1>5, <1>7, <1>8 DEF w

\* The initial state satisfies the inductive invariant.
LEMMA InitWireInv == WireInit => WireInv
<1> SUFFICES ASSUME WireInit PROVE WireInv
  OBVIOUS
<1>1. FileSent
  <2>1. file.path \in Paths /\ file.content \in Contents /\ file.expected \in {None, 0}
    BY DEF WireInit
  <2> QED
    BY <2>1, BytesAssumption DEF WireInit, FileSent
<1>2. StoreHashed
  <2> DEFINE s == Split(file.content)
  <2>1. s \in Seq(Blocks) /\ \A i \in 1 .. Len(s) : s[i].data \in Seq(Bytes)
        /\ s[i] = Block(s[i].data)
    BY <1>1, SplitBlocks DEF FileSent, Bytes
  <2>2. DOMAIN s = 1 .. Len(s)
    BY <2>1, LenProperties
  <2>3. store \subseteq ToSet(s)
    BY DEF WireInit
  <2> HIDE DEF s
  <2>4. ASSUME NEW b \in store PROVE b.data \in Seq(Bytes) /\ b = Block(b.data)
    <3>1. PICK i \in 1 .. Len(s) : b = s[i]
      BY <2>2, <2>3 DEF ToSet
    <3> QED
      BY <2>1, <3>1, Zenon
  <2> QED
    BY <2>4 DEF StoreHashed, Bytes
<1>3. pc \in {"ask", "send"} /\ known = {}
  BY DEF WireInit
<1> QED
  BY <1>1, <1>2, <1>3 DEF WireInv, KnownHeld, Delivered, CutsExplained

\* Every step of the client and the server preserves it.
LEMMA NextWireInv == WireInv /\ [WireNext]_wireVars => WireInv'
<1> SUFFICES ASSUME WireInv, [WireNext]_wireVars PROVE WireInv'
  OBVIOUS
<1>0. /\ FileSent /\ StoreHashed /\ KnownHeld /\ Delivered /\ CutsExplained
      /\ pc = "arrived" => payload = Request
  BY DEF WireInv
<1>1. CASE Ask
  <2>1. \A h \in known' : Held(h)
    BY <1>0, <1>1, HandshakeHeld DEF Ask
  <2>2. KnownHeld'
    BY <1>1, <2>1 DEF Ask, KnownHeld, Held
  <2>3. FileSent' /\ StoreHashed' /\ pc' = "send"
    BY <1>0, <1>1 DEF Ask, FileSent, StoreHashed
  <2> QED
    BY <2>2, <2>3 DEF WireInv, Delivered, CutsExplained
<1>2. CASE Send
  <2>1. FileSent' /\ StoreHashed' /\ KnownHeld' /\ pc' = "arrived"
    BY <1>0, <1>2 DEF Send, FileSent, StoreHashed, KnownHeld, Held
  <2>2. payload' = Request'
    <3>1. Sparse' = Sparse
      BY <1>2 DEF Send, Sparse, Map
    <3> QED
      BY <1>2, <3>1 DEF Send, Request
  <2> QED
    BY <2>1, <2>2 DEF WireInv, Delivered, CutsExplained
<1>3. CASE WriteBlocksSparse
  <2> DEFINE f == DecodeSparse(payload)
             blocks == store \cup {b \in Brought(f) : ~Held(b.hash)}
  <2>1. /\ pc = "arrived" /\ op = "sparse" /\ payload = Request
        /\ UNCHANGED <<op, file>> /\ pc' \in {"stored", "refused"}
        /\ \/ got' = Resolved(f, blocks) /\ pc' = "stored"
           \/ /\ ~(\A b \in ToSet(f.chunks) : \E o \in blocks : o.hash = b.hash)
              /\ pc' = "refused"
    BY <1>0, <1>3 DEF WriteBlocksSparse
  <2>2. Fits => /\ \A b \in ToSet(f.chunks) : \E o \in blocks : o.hash = b.hash
                /\ Resolved(f, blocks).path = file.path
                /\ Resolved(f, blocks).expected = file.expected
                /\ FlattenSeq(Resolved(f, blocks).chunks) = file.content
    BY <1>0, <2>1, SparseWritten
  <2> HIDE DEF f, blocks
  <2>3. Delivered'
    BY <2>1, <2>2 DEF Delivered, Fits
  <2>4. FileSent' /\ StoreHashed' /\ KnownHeld'
    BY <1>0, <2>1 DEF FileSent, StoreHashed, KnownHeld
  <2>5. CutsExplained'
    BY <2>1 DEF CutsExplained
  <2> QED
    BY <2>1, <2>3, <2>4, <2>5 DEF WireInv
<1>4. CASE WriteBlocks
  <2> DEFINE f == DecodeWrite(payload)
             r == ProcessBuffer(f.chunks[1])
  <2>1. /\ pc = "arrived" /\ op = "plain" /\ payload = EncodeWrite(file.path, file.content)
        /\ f # NoFile /\ got' = [f EXCEPT !.chunks = r]
        /\ UNCHANGED <<op, file>> /\ pc' = "stored"
    BY <1>0, <1>4 DEF WriteBlocks, Request
  <2>2. /\ file.path \in Seq(Bytes) /\ file.content \in Seq(Bytes)
        /\ file.expected = None
    BY <1>0, <2>1 DEF FileSent, Bytes
  <2>3. f.chunks[1] \in Seq(Int)
    BY <2>1, <2>2, WriteType
  <2>4. /\ r \in Seq(Seq(Int)) /\ FlattenSeq(r) = f.chunks[1]
        /\ \A i \in 1 .. Len(r) : CutWell(r, i)
    BY <2>3, ChunksOfBuffer
  <2>5. f \in [path : {f.path}, expected : {f.expected}, chunks : {f.chunks}]
    <3>1. f = [path |-> SubSeq(payload, 2, 1 + payload[1]), expected |-> None,
               chunks |-> <<SubSeq(payload, 2 + payload[1], Len(payload))>>]
      BY <2>1, Zenon DEF DecodeWrite
    <3> DEFINE x == SubSeq(payload, 2, 1 + payload[1])
               y == <<SubSeq(payload, 2 + payload[1], Len(payload))>>
    <3>2. f = [path |-> x, expected |-> None, chunks |-> y]
      BY <3>1
    <3> HIDE DEF x, y, f
    <3> QED
      BY <3>2
  <2>6. Fits => f = [path |-> file.path, expected |-> None, chunks |-> <<file.content>>]
    BY <2>1, <2>2, WriteDecoded DEF Fits
  <2> HIDE DEF f, r
  <2>7. got'.path = f.path /\ got'.expected = f.expected /\ got'.chunks = r
    BY <2>1, <2>5
  <2>8. Delivered'
    <3>1. Fits => f.path = file.path /\ f.expected = file.expected /\ f.chunks[1] = file.content
      BY <2>2, <2>6, SMTT(60)
    <3> QED
      BY <2>1, <2>4, <2>7, <3>1 DEF Delivered, Fits
  <2>9. CutsExplained'
    <3>1. DOMAIN r = 1 .. Len(r)
      BY <2>4, LenProperties
    <3> QED
      BY <2>4, <2>7, <3>1 DEF CutsExplained, CutWell
  <2>10. FileSent' /\ StoreHashed' /\ KnownHeld'
    BY <1>0, <2>1 DEF FileSent, StoreHashed, KnownHeld
  <2> QED
    BY <2>1, <2>8, <2>9, <2>10 DEF WireInv
<1>5. CASE Refuse
  <2>1. /\ pc = "arrived" /\ payload = Request /\ UNCHANGED <<op, file, payload>>
        /\ pc' = "refused"
        /\ \/ ~Received(payload)
           \/ op = "sparse" /\ DecodeSparse(payload) = NoFile
           \/ op = "plain" /\ DecodeWrite(payload) = NoFile
    BY <1>0, <1>5 DEF Refuse
  <2>2. ASSUME Fits PROVE Len(payload) > MaxPayload
    <3>1. op = "sparse" => payload \in Seq(Int) /\ DecodeSparse(payload) # NoFile
      BY <1>0, <2>1, <2>2, SparseWritten
    <3>2. op = "plain" => payload \in Seq(Int) /\ DecodeWrite(payload) # NoFile
      <4>1. /\ file.path \in Seq(Bytes) /\ file.content \in Seq(Bytes)
            /\ Len(file.path) < PathMod
        BY <1>0, <2>2 DEF FileSent, Bytes, Fits
      <4>2. op = "plain" => payload = EncodeWrite(file.path, file.content)
        BY <2>1 DEF Request
      <4> QED
        BY <4>1, <4>2, WriteDecoded
    <3>3. op \in {"sparse", "plain"}
      BY <1>0 DEF FileSent
    <3>4. Len(payload) \in Nat /\ MaxPayload \in Nat
      BY <3>1, <3>2, <3>3, LenProperties, SizesAssumption
    <3>5. ~Received(payload)
      BY <2>1, <3>1, <3>2
    <3> QED
      BY <3>4, <3>5 DEF Received
  <2>3. Delivered'
    BY <2>1, <2>2 DEF Delivered, Fits
  <2>4. FileSent' /\ StoreHashed' /\ KnownHeld' /\ CutsExplained'
    BY <1>0, <2>1 DEF FileSent, StoreHashed, KnownHeld, CutsExplained
  <2> QED
    BY <2>1, <2>3, <2>4 DEF WireInv
<1>6. CASE ReadFile
  <2>1. /\ pc = "stored" /\ UNCHANGED <<op, file>> /\ pc' = "read"
        /\ readback' = IF Received(FlattenSeq(got.chunks)) THEN FlattenSeq(got.chunks) ELSE Error
    BY <1>6 DEF ReadFile
  <2>2. Fits => FlattenSeq(got.chunks) = file.content
    BY <1>0, <2>1 DEF Delivered
  <2>3. Len(file.content) \in Nat /\ MaxPayload \in Nat
    <3>1. file.content \in Seq(Bytes)
      BY <1>0 DEF FileSent, Bytes
    <3> QED
      BY <3>1, LenProperties, SizesAssumption
  <2>4. Delivered'
    BY <2>1, <2>2, <2>3 DEF Delivered, Fits, Received
  <2>5. FileSent' /\ StoreHashed' /\ KnownHeld' /\ CutsExplained'
    BY <1>0, <2>1 DEF FileSent, StoreHashed, KnownHeld, CutsExplained
  <2> QED
    BY <2>1, <2>4, <2>5 DEF WireInv
<1>7. CASE UNCHANGED wireVars
  <2>1. FileSent' /\ StoreHashed' /\ KnownHeld' /\ Delivered' /\ CutsExplained'
    BY <1>0, <1>7 DEF wireVars, FileSent, StoreHashed, KnownHeld, Held, Delivered,
                      CutsExplained, Fits
  <2>2. Request' = Request
    <3>1. Sparse' = Sparse
      BY <1>7 DEF wireVars, Sparse, Map
    <3> QED
      BY <1>7, <3>1 DEF wireVars, Request
  <2> QED
    BY <1>0, <1>7, <2>1, <2>2 DEF WireInv, wireVars
<1> QED
  BY <1>1, <1>2, <1>3, <1>4, <1>5, <1>6, <1>7 DEF WireNext

\* Nothing the client or the server does, in any order the code allows, leaves the
\* inductive invariant.
THEOREM WireInvariance == WireSpec => []WireInv
BY InitWireInv, NextWireInv, PTL DEF WireSpec

\* A write whose path fits its length field arrives as it was sent, or is refused for
\* its size alone, and is read back as it was written unless it is too large for a
\* frame: whatever blocks the server had, whatever the handshake said, compressed or
\* not (protocol.rs, handle_write_blocks_sparse, handle_write_blocks).
THEOREM WrittenArrives == WireSpec => []Delivered
<1>1. WireInv => Delivered
  BY DEF WireInv
<1> QED
  BY <1>1, WireInvariance, PTL

\* Every chunk ends before a boundary, or has the largest size, or ends the file, and
\* goes on over a boundary only when there is one at the least size
\* (CdcChunker::process_buffer).
THEOREM CutsHaveReasons == WireSpec => []CutsExplained
<1>1. WireInv => CutsExplained
  BY DEF WireInv
<1> QED
  BY <1>1, WireInvariance, PTL
==============================================================================
