----------------------------- MODULE GroupCommit -----------------------------
(***************************************************************************)
(* The client's write-ahead log while it runs: FUSE write callbacks append *)
(* records and wait for a group commit, the group-commit worker fsyncs the *)
(* journal every tick, and the flush worker commits and then rotates the   *)
(* journal to a stage file (crates/proxygit-client/src/wal/mod.rs).        *)
(*                                                                         *)
(* A record is its append number.  The bytes of a record are written under *)
(* the journal lock, so an append is one step; the flag swaps, the fsync   *)
(* and the drain of the waiters are separate steps because the code takes  *)
(* no lock across them.                                                    *)
(***************************************************************************)
EXTENDS Naturals

CONSTANTS
  Writers,      \* tasks inside append_entry_durable
  Tickers,      \* group-commit workers (the code starts one)
  Flushers,     \* flush workers (the code starts one)
  MaxAppends    \* bound of the model: records ever appended

Workers == Tickers \cup Flushers
Records == 1..MaxAppends

\* The mutex around active_journal is free.
Free == "free"

ASSUME MaxAppendsAssumption == MaxAppends \in Nat
ASSUME FreeAssumption == Free \notin Flushers

VARIABLES
  wpc,          \* [Writers -> where append_entry_durable stands]
  rec,          \* [Writers -> the record of the writer's last append]
  journal,      \* records in the file the active_journal descriptor is open on
  fd,           \* name of that file: "current" or, after a rename, "stage"
  staged,       \* records in the stage files the descriptor is not open on
  disk,         \* records whose bytes have been fsynced
  pending,      \* needs_commit \/ dirty_bytes > 0
  waiters,      \* writers in commit_waiters
  lock,         \* Free or the flush worker inside rotate_for_flush
  cpc,          \* [Workers -> where group_commit / rotate_for_flush stands]
  result,       \* [Workers -> result of the fsync of this commit]
  appended,     \* history: number of appends
  acked,        \* history: records whose writer was answered Ok
  syncFailed    \* history: the last fsync of the journal failed

writerVars == <<wpc, rec>>
fileVars   == <<journal, fd, staged>>
historyVars == <<appended, acked>>
vars == <<wpc, rec, journal, fd, staged, disk, pending, waiters, lock, cpc,
          result, appended, acked, syncFailed>>

TypeOK ==
  /\ wpc \in [Writers -> {"idle", "appended", "waiting", "ok", "err"}]
  /\ rec \in [Writers -> 0..MaxAppends]
  /\ journal \subseteq Records
  /\ fd \in {"current", "stage"}
  /\ staged \subseteq Records
  /\ disk \subseteq Records
  /\ pending \in BOOLEAN
  /\ waiters \subseteq Writers
  /\ lock \in Flushers \cup {Free}
  /\ cpc \in [Workers -> {"idle", "sync", "drain", "rotate", "rotated"}]
  /\ result \in [Workers -> {"ok", "err"}]
  /\ appended \in 0..MaxAppends
  /\ acked \subseteq Records
  /\ syncFailed \in BOOLEAN

\* LocalWal::new on an empty directory, and both workers just spawned.
Init ==
  /\ wpc = [w \in Writers |-> "idle"]
  /\ rec = [w \in Writers |-> 0]
  /\ journal = {} /\ fd = "current" /\ staged = {} /\ disk = {}
  /\ pending = FALSE /\ waiters = {} /\ lock = Free
  /\ cpc = [c \in Workers |-> "idle"]
  /\ result = [c \in Workers |-> "ok"]
  /\ appended = 0 /\ acked = {} /\ syncFailed = FALSE

-----------------------------------------------------------------------------
(* Writers: append_entry_durable = append_entry, then wait_group_commit.    *)

\* Faulty variants of append_entry, for the runs that show what a property
\* detects: an append that does not mark the journal dirty, and one that does
\* not take the journal lock.
AppendEntryClean(w) ==
  /\ wpc[w] \in {"idle", "ok", "err"} /\ lock = Free /\ appended < MaxAppends
  /\ appended' = appended + 1
  /\ journal' = journal \cup {appended'}
  /\ rec' = [rec EXCEPT ![w] = appended']
  /\ wpc' = [wpc EXCEPT ![w] = "appended"]
  /\ UNCHANGED <<fd, staged, disk, pending, waiters, lock, cpc, result, acked, syncFailed>>

AppendEntryUnlocked(w) ==
  /\ wpc[w] \in {"idle", "ok", "err"} /\ appended < MaxAppends
  /\ appended' = appended + 1
  /\ journal' = journal \cup {appended'}
  /\ rec' = [rec EXCEPT ![w] = appended']
  /\ pending' = TRUE
  /\ wpc' = [wpc EXCEPT ![w] = "appended"]
  /\ UNCHANGED <<fd, staged, disk, waiters, lock, cpc, result, acked, syncFailed>>

\* append_entry writes the whole record and marks the journal dirty under the
\* journal lock.  The writer of a FUSE callback starts over once answered.
AppendEntry(w) ==
  /\ wpc[w] \in {"idle", "ok", "err"}
  /\ lock = Free
  /\ appended < MaxAppends
  /\ appended' = appended + 1
  /\ journal' = journal \cup {appended'}
  /\ rec' = [rec EXCEPT ![w] = appended']
  /\ pending' = TRUE
  /\ wpc' = [wpc EXCEPT ![w] = "appended"]
  /\ UNCHANGED <<fd, staged, disk, waiters, lock, cpc, result, acked, syncFailed>>

\* Faulty: append_entry_durable goes on to wait although append_entry failed, so
\* that a writer is answered for a record that was never written.
WaitGroupCommitRegardless(w) ==
  /\ wpc[w] \in {"idle", "appended"}
  /\ wpc' = [wpc EXCEPT ![w] = "waiting"]
  /\ waiters' = waiters \cup {w}
  /\ pending' = TRUE
  /\ UNCHANGED <<rec, fileVars, disk, lock, cpc, result, historyVars, syncFailed>>

\* wait_group_commit pushes the waiter; storing needs_commit after the push
\* can only cause one more commit, so the two are one step.
WaitGroupCommit(w) ==
  /\ wpc[w] = "appended"
  /\ wpc' = [wpc EXCEPT ![w] = "waiting"]
  /\ waiters' = waiters \cup {w}
  /\ pending' = TRUE
  /\ UNCHANGED <<rec, fileVars, disk, lock, cpc, result, historyVars, syncFailed>>

\* Every waiter taken from commit_waiters receives r through its channel.
Answer(r) ==
  /\ wpc' = [w \in Writers |-> IF w \in waiters THEN r ELSE wpc[w]]
  /\ acked' = IF r = "ok" THEN acked \cup {rec[w] : w \in waiters} ELSE acked
  /\ waiters' = {}

-----------------------------------------------------------------------------
(* group_commit, called by the ticker on every tick or notify and by the    *)
(* flush worker before it rotates.                                          *)

\* Faulty: a commit that only fsyncs when somebody waits.
SwapFlagsForWaiters(c) ==
  /\ cpc[c] = "idle"
  /\ pending' = FALSE
  /\ cpc' = [cpc EXCEPT ![c] = IF pending /\ waiters # {} THEN "sync" ELSE "drain"]
  /\ result' = [result EXCEPT ![c] = "ok"]
  /\ UNCHANGED <<writerVars, fileVars, disk, waiters, lock, historyVars, syncFailed>>

\* Both flags are swapped to clean before the journal is locked.  With nothing
\* dirty the fsync is skipped and the waiters are drained with Ok.
SwapFlags(c) ==
  /\ cpc[c] = "idle"
  /\ pending' = FALSE
  /\ cpc' = [cpc EXCEPT ![c] = IF pending THEN "sync" ELSE "drain"]
  /\ result' = [result EXCEPT ![c] = "ok"]
  /\ UNCHANGED <<writerVars, fileVars, disk, waiters, lock, historyVars, syncFailed>>

SyncSucceeds ==
  /\ disk' = disk \cup journal
  /\ syncFailed' = FALSE

SyncFails ==
  /\ syncFailed' = TRUE
  /\ UNCHANGED disk

\* sync_data under the journal lock.
SyncJournal(c) ==
  /\ cpc[c] = "sync"
  /\ lock = Free
  /\ \/ SyncSucceeds /\ UNCHANGED result
     \/ SyncFails /\ result' = [result EXCEPT ![c] = "err"]
  /\ cpc' = [cpc EXCEPT ![c] = "drain"]
  /\ UNCHANGED <<writerVars, fileVars, pending, waiters, lock, historyVars>>

\* Faulty: an error of group_commit ends the worker's loop instead of being
\* logged, so that nobody takes the waiters that register later.
DrainWaitersAndEnd(c) ==
  /\ cpc[c] = "drain"
  /\ Answer(result[c])
  /\ cpc' = [cpc EXCEPT ![c] = IF result[c] = "err" THEN "ended"
                                ELSE IF c \in Flushers THEN "rotate" ELSE "idle"]
  /\ UNCHANGED <<rec, fileVars, disk, pending, lock, result, appended, syncFailed>>

\* mem::take of all waiters, whenever they registered.  The flush worker goes
\* on to rotate, unless the commit failed.
DrainWaiters(c) ==
  /\ cpc[c] = "drain"
  /\ Answer(result[c])
  /\ cpc' = [cpc EXCEPT ![c] = IF c \in Flushers /\ result[c] = "ok"
                                THEN "rotate" ELSE "idle"]
  /\ UNCHANGED <<rec, fileVars, disk, pending, lock, result, appended, syncFailed>>

-----------------------------------------------------------------------------
(* rotate_for_flush, under the journal lock from its first line to its last *)

\* No current_journal.wal, or an empty one: nothing to rotate.
RotateNothing(c) ==
  /\ cpc[c] = "rotate"
  /\ lock = Free
  /\ fd = "stage" \/ journal = {}
  /\ cpc' = [cpc EXCEPT ![c] = "idle"]
  /\ UNCHANGED <<writerVars, fileVars, disk, pending, waiters, lock, result,
                 historyVars, syncFailed>>

\* Faulty: renamed without the fsync.
RotateRenameUnsynced(c) ==
  /\ cpc[c] = "rotate" /\ lock = Free /\ fd = "current" /\ journal # {}
  /\ lock' = c
  /\ fd' = "stage"
  /\ cpc' = [cpc EXCEPT ![c] = "rotated"]
  /\ UNCHANGED <<writerVars, journal, staged, disk, pending, waiters, result,
                 historyVars, syncFailed>>

\* The journal is fsynced, then renamed: the descriptor now is on a stage file.
RotateRename(c) ==
  /\ cpc[c] = "rotate"
  /\ lock = Free
  /\ fd = "current" /\ journal # {}
  /\ SyncSucceeds
  /\ lock' = c
  /\ fd' = "stage"
  /\ cpc' = [cpc EXCEPT ![c] = "rotated"]
  /\ UNCHANGED <<writerVars, journal, staged, pending, waiters, result, historyVars>>

\* sync_data (or the rename) fails; the flush worker ignores the error.
RotateFailsEarly(c) ==
  /\ cpc[c] = "rotate"
  /\ lock = Free
  /\ fd = "current" /\ journal # {}
  /\ SyncSucceeds \/ SyncFails
  /\ cpc' = [cpc EXCEPT ![c] = "idle"]
  /\ UNCHANGED <<writerVars, fileVars, pending, waiters, lock, result, historyVars>>

\* The stage file and its directory are fsynced, the flags cleared, every
\* waiter answered Ok, and a new journal opened; if that open fails the
\* descriptor stays on the stage file.
RotateFinish(c) ==
  /\ cpc[c] = "rotated"
  /\ pending' = FALSE
  /\ Answer("ok")
  /\ \/ /\ fd' = "current"
        /\ staged' = staged \cup journal
        /\ journal' = {}
     \/ UNCHANGED fileVars
  /\ lock' = Free
  /\ cpc' = [cpc EXCEPT ![c] = "idle"]
  /\ UNCHANGED <<rec, disk, result, appended, syncFailed>>

\* An error between the rename and the drain leaves the waiters registered
\* and the descriptor on the stage file.
RotateFailsLate(c) ==
  /\ cpc[c] = "rotated"
  /\ lock' = Free
  /\ cpc' = [cpc EXCEPT ![c] = "idle"]
  /\ UNCHANGED <<writerVars, fileVars, disk, pending, waiters, result,
                 historyVars, syncFailed>>

-----------------------------------------------------------------------------
(* Power failure and restart: LocalWal::new opens current_journal.wal with  *)
(* append, creating it when it is not there, and all flags start clean.     *)

\* Fsynced records survive; of the others any number of leading ones may.  A
\* rename whose directory was not fsynced may or may not have happened.
PowerFailure ==
  /\ \E last \in 0..MaxAppends, name \in {fd, "current"} :
       LET kept == {r \in journal : r \in disk \/ r <= last}
       IN  /\ disk' = disk \cup kept
           /\ journal' = IF name = "current" THEN kept ELSE {}
           /\ staged' = IF name = "current" THEN staged ELSE staged \cup kept
  /\ fd' = "current"
  /\ wpc' = [w \in Writers |-> "idle"]
  /\ cpc' = [c \in Workers |-> "idle"]
  /\ pending' = FALSE /\ waiters' = {} /\ lock' = Free /\ syncFailed' = FALSE
  /\ UNCHANGED <<rec, result, historyVars>>

-----------------------------------------------------------------------------

WriterStep(w) == AppendEntry(w) \/ WaitGroupCommit(w)

WorkerStep(c) ==
  \/ SwapFlags(c) \/ SyncJournal(c) \/ DrainWaiters(c)
  \/ RotateNothing(c) \/ RotateRename(c) \/ RotateFailsEarly(c)
  \/ RotateFinish(c) \/ RotateFailsLate(c)

Next ==
  \/ \E w \in Writers : WriterStep(w)
  \/ \E c \in Workers : WorkerStep(c)
  \/ PowerFailure

\* Both workers are tokio tasks that loop on a timer, and a writer that has
\* appended goes on to register.  The journal lock is tokio's FIFO mutex, so a
\* worker waiting for it is not overtaken for ever (strong fairness).
Fairness ==
  /\ \A w \in Writers : WF_vars(WaitGroupCommit(w))
  /\ \A c \in Workers : SF_vars(WorkerStep(c))

Spec == Init /\ [][Next]_vars /\ Fairness

-----------------------------------------------------------------------------
(* Properties.                                                              *)

\* A record that is in the journal but not on disk always has an fsync coming:
\* a commit is pending or a worker has swapped the flags and not yet fsynced.
\* The one exception is an fsync that failed: group_commit does not restore
\* the flags it cleared.  It bounds the window in which an acknowledged write
\* can be lost to one commit interval.
UnsyncedIsCovered ==
  \/ journal \subseteq disk
  \/ pending
  \/ \E c \in Workers : cpc[c] = "sync"
  \/ syncFailed

\* What the flush worker finds in a stage file is on disk: rotation fsyncs
\* before it renames, no append slips between the two, and a restart only
\* stages what survived.
StagedIsDurable == staged \subseteq disk

\* While rotate_for_flush holds the journal, nothing in it is unsynced, so the
\* Ok it sends to every registered waiter is true.
RotateAnswersTruthfully ==
  lock # Free => \A w \in waiters : rec[w] \in disk

\* The strengthening of the three invariants above that steps preserve: only a
\* flush worker rotates, and it holds the lock from the rename to the end; while
\* the lock is held the journal is on disk; a writer that has appended and is
\* not yet answered has its record in the journal or on disk.
RotatorHoldsLock ==
  \A c \in Workers :
    /\ cpc[c] \in {"rotate", "rotated"} => c \in Flushers
    /\ cpc[c] = "rotated" => lock = c

LockedIsSynced == lock # Free => journal \subseteq disk

UnansweredIsHeld ==
  /\ \A w \in waiters : wpc[w] = "waiting"
  /\ \A w \in Writers :
       wpc[w] \in {"appended", "waiting"} => rec[w] \in journal \cup disk

IInv ==
  /\ TypeOK
  /\ UnsyncedIsCovered
  /\ StagedIsDurable
  /\ RotatorHoldsLock
  /\ LockedIsSynced
  /\ UnansweredIsHeld

\* A write callback waiting for its commit is answered, Ok or error, through
\* failing fsyncs, rotations that fail half-way and power failures: it waits for
\* its channel without a timeout, so the workers' loops must outlive any error.
EveryWaiterAnswered ==
  \A w \in Writers : wpc[w] = "waiting" ~> wpc[w] # "waiting"

\* An acknowledged record that is not on disk gets there, unless a power
\* failure takes it or an fsync fails first.
AckedBecomesDurable ==
  \A r \in Records :
    (r \in acked \ disk) ~> (r \in disk \/ r \notin journal \/ syncFailed)

\* "Append then wait until the next successful group-commit fsync": a record
\* whose writer was answered Ok is on disk.
AckedIsDurable == acked \subseteq disk
=============================================================================
