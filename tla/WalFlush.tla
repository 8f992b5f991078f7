------------------------------- MODULE WalFlush -------------------------------
(***************************************************************************)
(* The life of a record of the client's write-ahead log between its append *)
(* and the server: the flush worker renames current_journal.wal to a stage *)
(* file, and applies the stages, oldest first, file by file: read the base *)
(* from the server, lay the records over it, send a sparse write, and keep *)
(* the records of the files that failed for the next tick, in a new file   *)
(* renamed over the stage (start_wal_flush_worker and write_staged_records, *)
(* crates/proxygit-client/src/wal/mod.rs).                                 *)
(*                                                                         *)
(* A process is one client with its own descriptor, worker and connection; *)
(* `proxygit mount` and `proxygit mcp` both start one, by default over the *)
(* same directory.  A record is its append number; a file of records is    *)
(* the set of its records, for only the order within a path matters and    *)
(* grouping keeps it.  Stage names are timestamps, so they sort by the     *)
(* order of the renames.  Processes are killed here, not machines: what    *)
(* was written stays written (GroupCommit is about power failures, WalScan *)
(* about damaged records).                                                 *)
(***************************************************************************)
EXTENDS Naturals, Sequences, FiniteSetsExt

CONSTANTS
  Procs,        \* client processes that share one WAL directory
  Mounts,       \* those with a FUSE mount: only they append
  Cells,        \* places a write can go to: an offset range of some file
  PathOf,       \* [Cells -> the file of the cell]
  MaxRecords,   \* bound of the model: records ever appended
  MaxCrashes,   \* bound of the model: kills of a process
  Faults        \* which steps may fail: a subset of AllFaults

AllFaults == {"base",     \* the base cannot be read: the file is deferred
              "write",    \* the sparse write fails before the server applied it
              "ack",      \* ... or after
              "late",     \* ... or the server applies it after the client gave up
              "rewrite",  \* creating, filling, syncing or renaming the temp file
              "unlink",   \* the finished stage cannot be removed
              "read",     \* the stage cannot be read
              "rotate"}   \* rotate_for_flush fails, before or after the rename

ASSUME CellsAssumption == Cells # {}
ASSUME MountsAssumption == Mounts \subseteq Procs
ASSUME FaultsAssumption == Faults \subseteq AllFaults
ASSUME BoundsAssumption == MaxRecords \in Nat /\ MaxCrashes \in Nat

Paths == {PathOf[c] : c \in Cells}
Records == 1..MaxRecords

\* Each rename takes at least one record, so there are no more stages than that.
Names == 1..MaxRecords

\* Where a descriptor is: a stage name, or one of these.
Removed == 0
Current == MaxRecords + 1

\* A temp file that does not exist: no record has this number.  One left behind
\* that nobody is rewriting counts as such, for the next to open it empties it.
Absent == {0}

VARIABLES
  log,       \* history: sequence of the cells written, by append number
  current,   \* records in current_journal.wal ({} too when there is no such file)
  stage,     \* [Names -> records in the stage file of that name; {}: no file]
  temp,      \* [Names -> records in the temp file of that stage, or Absent]
  renames,   \* number of stage names ever used
  fd,        \* [Procs -> the file the journal descriptor is open on]
  out,       \* [Procs -> the file a rewrite of the worker writes to: the temp
             \* file, the temp file of several at once ("mixed"), the stage since
             \* another has renamed that file, or none that has a name]
  wk,        \* [Procs -> the flush worker's local variables]
  server,    \* [Cells -> number of the write whose data the server has there]
  late,      \* sparse writes given up by the client that the server still runs
  applied,   \* history: records in some sparse write the server applied
  astray,    \* history: records appended to a file that was no longer
             \* current_journal.wal, dropped with a stage that was unreadable, or
             \* kept by two processes that rewrote one stage at the same time
  crashes    \* history: number of kills

rewrite == <<temp, out>>
files == <<current, stage, renames, fd, rewrite>>
remote == <<server, late, applied>>
vars == <<log, files, wk, remote, astray, crashes>>

\* The cells of file p, by the write each holds.
Snapshot(p) == [c \in {d \in Cells : PathOf[d] = p} |-> server[c]]
Snapshots == UNION {[{d \in Cells : PathOf[d] = p} -> 0..MaxRecords] : p \in Paths}

Worker ==
  [pc   : {"idle", "renamed", "list", "stages", "paths", "write", "fill", "rename"},
   plan : SUBSET Names,         \* pending_stages not yet processed
   recs : SUBSET Records,       \* records of the stage in hand
   todo : SUBSET Paths,         \* keys of path_map not yet processed
   path : Paths,                \* the file in hand
   base : Snapshots,            \* the content read for it
   keep : SUBSET Records]       \* remaining_records

TypeOK ==
  /\ log \in Seq(Cells) /\ Len(log) <= MaxRecords
  /\ current \subseteq DOMAIN log
  /\ stage \in [Names -> SUBSET DOMAIN log]
  /\ temp \in [Names -> (SUBSET DOMAIN log) \cup {Absent}]
  /\ renames \in 0..Len(log)
  /\ out \in [Procs -> {"none", "temp", "mixed", "stage"}]
  /\ fd \in [Procs -> {Removed, Current} \cup Names]
  /\ wk \in [Procs -> Worker]
  /\ server \in [Cells -> 0..Len(log)]
  /\ late \subseteq Snapshots
  /\ applied \subseteq DOMAIN log
  /\ astray \subseteq DOMAIN log
  /\ crashes \in 0..MaxCrashes

Idle == LET p == CHOOSE p \in Paths : TRUE
        IN  [pc |-> "idle", plan |-> {}, recs |-> {}, todo |-> {}, path |-> p,
             base |-> [c \in {d \in Cells : PathOf[d] = p} |-> 0], keep |-> {}]

Init ==
  /\ log = <<>>
  /\ current = {} /\ stage = [n \in Names |-> {}] /\ renames = 0
  /\ temp = [n \in Names |-> Absent] /\ out = [q \in Procs |-> "none"]
  /\ fd = [q \in Procs |-> Current]
  /\ wk = [q \in Procs |-> Idle]
  /\ server = [c \in Cells |-> 0] /\ late = {} /\ applied = {}
  /\ astray = {} /\ crashes = 0

At(q, pc) == wk[q].pc = pc
Become(q, w) == wk' = [wk EXCEPT ![q] = w]

\* Journal descriptors on stage n are left on a file without a name.
Orphan(n) == fd' = [q \in Procs |-> IF fd[q] = n THEN Removed ELSE fd[q]]

\* The processes that are rewriting stage n.
Rewriting(q) == wk[q].pc \in {"fill", "rename"}
Rewriters(n) == {q \in Procs : Rewriting(q) /\ Min(wk[q].plan) = n}

\* The worker's rewrite, if it is in one, ends with the temp file as it is.
LeaveRewrite(q) ==
  /\ out' = [out EXCEPT ![q] = "none"]
  /\ temp' = [n \in Names |-> IF Rewriters(n) = {q} THEN Absent ELSE temp[n]]

\* Stage n is removed: so are the descriptors of rewrites that ended up on it.
RemoveFile(n) ==
  /\ stage' = [stage EXCEPT ![n] = {}]
  /\ out' = [q \in Procs |-> IF q \in Rewriters(n) /\ out[q] = "stage"
                              THEN "none" ELSE out[q]]
  /\ Orphan(n)
  /\ UNCHANGED temp

-----------------------------------------------------------------------------
(* append_entry, from a FUSE write callback.  rotate_for_flush holds the    *)
(* process's journal lock until it has opened the new journal.              *)

AppendEntry(q, c) ==
  LET r == Len(log) + 1
  IN  /\ ~At(q, "renamed")
      /\ r <= MaxRecords
      /\ log' = Append(log, c)
      /\ current' = IF fd[q] = Current THEN current \cup {r} ELSE current
      /\ stage' = IF fd[q] \in Names THEN [stage EXCEPT ![fd[q]] = @ \cup {r}]
                                     ELSE stage
      /\ astray' = IF fd[q] = Current THEN astray ELSE astray \cup {r}
      /\ UNCHANGED <<renames, fd, rewrite, wk, remote, crashes>>

-----------------------------------------------------------------------------
(* The flush worker: rotate_for_flush, whose result it ignores.             *)

\* Faulty: a worker that only looks at the stages when it has rotated.
RotateNothingAndRest(q) ==
  /\ At(q, "idle")
  /\ current = {}
  /\ UNCHANGED vars

\* No journal, an empty one, or an error before the rename: on to the stages.
RotateNothing(q) ==
  /\ At(q, "idle")
  /\ current = {} \/ "rotate" \in Faults
  /\ Become(q, [wk[q] EXCEPT !.pc = "list"])
  /\ UNCHANGED <<log, files, remote, astray, crashes>>

\* Faulty: an empty journal is rotated like any other.
RotateRenameEmpty(q) ==
  /\ At(q, "idle")
  /\ renames' = renames + 1
  /\ stage' = [stage EXCEPT ![renames'] = current]
  /\ current' = {}
  /\ fd' = [p \in Procs |-> IF fd[p] = Current THEN renames' ELSE fd[p]]
  /\ Become(q, [wk[q] EXCEPT !.pc = "renamed"])
  /\ UNCHANGED <<log, rewrite, remote, astray, crashes>>

\* The rename takes the file from under every descriptor that is open on it.
RotateRename(q) ==
  /\ At(q, "idle")
  /\ current # {}
  /\ renames' = renames + 1
  /\ stage' = [stage EXCEPT ![renames'] = current]
  /\ current' = {}
  /\ fd' = [p \in Procs |-> IF fd[p] = Current THEN renames' ELSE fd[p]]
  /\ Become(q, [wk[q] EXCEPT !.pc = "renamed"])
  /\ UNCHANGED <<log, rewrite, remote, astray, crashes>>

\* The new journal is opened; an error after the rename skips that.
RotateReopen(q) ==
  /\ At(q, "renamed")
  /\ \/ fd' = [fd EXCEPT ![q] = Current]
     \/ "rotate" \in Faults /\ UNCHANGED fd
  /\ Become(q, [wk[q] EXCEPT !.pc = "list"])
  /\ UNCHANGED <<log, current, stage, renames, rewrite, remote, astray, crashes>>

-----------------------------------------------------------------------------
(* The flush worker: the stages of one tick.                                *)

\* get_pending_stages.
ListStages(q) ==
  LET plan == {n \in Names : stage[n] # {}}
  IN  /\ At(q, "list")
      /\ Become(q, [Idle EXCEPT !.plan = plan,
                                !.pc = IF plan = {} THEN "idle" ELSE "stages"])
      /\ UNCHANGED <<log, files, remote, astray, crashes>>

\* The worker after stage n: on to the next of the plan, or done for this tick.
Continue(q, n) ==
  LET rest == wk[q].plan \ {n}
  IN  Become(q, [Idle EXCEPT !.plan = rest,
                             !.pc = IF rest = {} THEN "idle" ELSE "stages"])

\* read_staged_records and the grouping by path.
ReadStage(q) ==
  LET n == Min(wk[q].plan)
  IN  /\ At(q, "stages")
      /\ stage[n] # {}
      /\ Become(q, [wk[q] EXCEPT !.pc = "paths", !.recs = stage[n], !.keep = {},
                                 !.todo = {PathOf[log[r]] : r \in stage[n]}])
      /\ UNCHANGED <<log, files, remote, astray, crashes>>

\* A stage that is gone, or that cannot be read, counts as one without records:
\* it is removed.
DropStage(q) ==
  LET n == Min(wk[q].plan)
  IN  /\ At(q, "stages")
      /\ stage[n] = {} \/ "read" \in Faults
      /\ RemoveFile(n)
      /\ astray' = astray \cup stage[n]
      /\ Continue(q, n)
      /\ UNCHANGED <<log, current, renames, remote, crashes>>

\* The records of the stage in hand for file p, and the file they make of the
\* base: a later record overwrites an earlier one.
Patches(q, p) == {r \in wk[q].recs : PathOf[log[r]] = p}

Patched(q) ==
  [c \in DOMAIN wk[q].base |->
     LET over == {r \in wk[q].recs : log[r] = c}
     IN  IF over = {} THEN wk[q].base[c] ELSE Max(over)]

\* The file in hand is through, for this tick: flushed, or kept for a retry.
Through(q, p, kept) ==
  Become(q, [wk[q] EXCEPT !.pc = "paths", !.todo = @ \ {p}, !.keep = @ \cup kept,
                          !.path = Idle.path, !.base = Idle.base])

Flushed(q) == Through(q, wk[q].path, {})
Deferred(q, p) == Through(q, p, Patches(q, p))

\* mcp_read_raw_bytes of the next file; "not found" is an empty base.
ReadBase(q, p) ==
  /\ At(q, "paths") /\ p \in wk[q].todo
  /\ Become(q, [wk[q] EXCEPT !.pc = "write", !.path = p, !.base = Snapshot(p)])
  /\ UNCHANGED <<log, files, remote, astray, crashes>>

ReadBaseFails(q, p) ==
  /\ "base" \in Faults
  /\ At(q, "paths") /\ p \in wk[q].todo
  /\ Deferred(q, p)
  /\ UNCHANGED <<log, files, remote, astray, crashes>>

\* The server makes a whole file of the sparse write.
Apply(content) == server' = [c \in Cells |-> IF c \in DOMAIN content THEN content[c]
                                                                    ELSE server[c]]

WriteSparse(q, p) ==
  /\ At(q, "write") /\ p = wk[q].path
  /\ Apply(Patched(q))
  /\ applied' = applied \cup Patches(q, p)
  /\ Flushed(q)
  /\ UNCHANGED <<log, files, late, astray, crashes>>

\* An error answer or a lost connection: applied, never applied, or still to be.
WriteSparseFails(q) ==
  /\ At(q, "write")
  /\ \/ "write" \in Faults /\ UNCHANGED remote
     \/ /\ "ack" \in Faults
        /\ Apply(Patched(q))
        /\ applied' = applied \cup Patches(q, wk[q].path)
        /\ UNCHANGED late
     \/ /\ "late" \in Faults
        /\ late' = late \cup {Patched(q)}
        /\ UNCHANGED <<server, applied>>
  /\ Deferred(q, wk[q].path)
  /\ UNCHANGED <<log, files, astray, crashes>>

-----------------------------------------------------------------------------
(* The flush worker: the end of a stage.  With nothing left the stage is    *)
(* removed and the next one taken; else write_staged_records puts what is   *)
(* left in a temp file, renames that over the stage, and the tick is over.  *)
(* The temp file is named after the stage, so that all processes share it.  *)

\* Faulty: the stage goes whatever failed.
RemoveStageAlways(q) ==
  LET n == Min(wk[q].plan)
  IN  /\ At(q, "paths") /\ wk[q].todo = {}
      /\ RemoveFile(n)
      /\ Continue(q, n)
      /\ UNCHANGED <<log, current, renames, remote, astray, crashes>>

RemoveStage(q) ==
  LET n == Min(wk[q].plan)
  IN  /\ At(q, "paths") /\ wk[q].todo = {} /\ wk[q].keep = {}
      /\ RemoveFile(n)
      /\ Continue(q, n)
      /\ UNCHANGED <<log, current, renames, remote, astray, crashes>>

RemoveStageFails(q) ==
  /\ "unlink" \in Faults
  /\ At(q, "paths") /\ wk[q].todo = {} /\ wk[q].keep = {}
  /\ Continue(q, Min(wk[q].plan))
  /\ UNCHANGED <<log, files, remote, astray, crashes>>

\* Faulty: the stage is rewritten in place.
CreateTempInPlace(q) ==
  LET n == Min(wk[q].plan)
  IN  /\ At(q, "paths") /\ wk[q].todo = {} /\ wk[q].keep # {}
      /\ stage' = [stage EXCEPT ![n] = {}]
      /\ out' = [out EXCEPT ![q] = "stage"]
      /\ Become(q, [wk[q] EXCEPT !.pc = "fill"])
      /\ UNCHANGED <<log, current, temp, renames, fd, remote, astray, crashes>>

\* The rewrites that have the temp file of stage n open.
Holders(n) == {p \in Rewriters(n) : out[p] \in {"temp", "mixed"}}

\* File::create: a new file, or the one there is, emptied under the hands of
\* whoever else is rewriting the stage.
CreateTemp(q) ==
  LET n == Min(wk[q].plan)
      state == IF Holders(n) = {} THEN "temp" ELSE "mixed"
  IN  /\ At(q, "paths") /\ wk[q].todo = {} /\ wk[q].keep # {}
      /\ temp' = [temp EXCEPT ![n] = {}]
      /\ out' = [p \in Procs |-> IF p = q \/ p \in Holders(n) THEN state ELSE out[p]]
      /\ astray' = IF Rewriters(n) = {} THEN astray
                   ELSE astray \cup UNION {wk[p].keep : p \in Rewriters(n) \cup {q}}
      /\ Become(q, [wk[q] EXCEPT !.pc = "fill"])
      /\ UNCHANGED <<log, current, stage, renames, fd, remote, crashes>>

\* What writing the records of q's keep makes of a file that had the given ones.
\* Who shares it writes at offsets of its own, over frames of the others and into
\* holes: whole frames survive, or not.
Filled(q, old) ==
  IF out[q] = "temp" THEN {wk[q].keep} ELSE SUBSET (old \cup wk[q].keep)

\* The calls of write_all, to where the descriptor is; other processes may come
\* between two of them.
FillTemp(q) ==
  LET n == Min(wk[q].plan)
  IN  /\ At(q, "fill")
      /\ \/ /\ out[q] \in {"temp", "mixed"}
            /\ \E content \in Filled(q, temp[n]) : temp' = [temp EXCEPT ![n] = content]
            /\ UNCHANGED stage
         \/ /\ out[q] = "stage"
            /\ \E content \in Filled(q, stage[n]) : stage' = [stage EXCEPT ![n] = content]
            /\ UNCHANGED temp
         \/ out[q] = "none" /\ UNCHANGED <<temp, stage>>
      /\ \E pc \in IF out[q] = "temp" THEN {"rename"} ELSE {"fill", "rename"} :
           Become(q, [wk[q] EXCEPT !.pc = pc])
      /\ UNCHANGED <<log, current, renames, fd, out, remote, astray, crashes>>

\* Where the rename of q over stage n leaves the descriptors of all rewrites.
OutAfterRename(q, n) ==
  [p \in Procs |-> IF p = q THEN "none"
                   ELSE IF p \notin Rewriters(n) THEN out[p]
                   ELSE IF p \in Holders(n) THEN "stage" ELSE "none"]

\* Faulty: the worker goes on to newer stages although this one has records left.
RenameTempAndGoOn(q) ==
  LET n == Min(wk[q].plan)
  IN  /\ At(q, "rename") /\ temp[n] # Absent
      /\ stage' = [stage EXCEPT ![n] = temp[n]]
      /\ temp' = [temp EXCEPT ![n] = Absent]
      /\ out' = OutAfterRename(q, n)
      /\ Orphan(n)
      /\ Continue(q, n)
      /\ UNCHANGED <<log, current, renames, remote, astray, crashes>>

\* The temp file, whatever is in it, becomes the stage.
RenameTemp(q) ==
  LET n == Min(wk[q].plan)
  IN  /\ At(q, "rename") /\ temp[n] # Absent
      /\ stage' = [stage EXCEPT ![n] = temp[n]]
      /\ temp' = [temp EXCEPT ![n] = Absent]
      /\ out' = OutAfterRename(q, n)
      /\ Orphan(n)
      /\ Become(q, Idle)
      /\ UNCHANGED <<log, current, renames, remote, astray, crashes>>

\* An error of any of these calls; a temp file that another process has renamed
\* is one.  The stage stays as it is.
RewriteFails(q) ==
  /\ \/ At(q, "paths") /\ wk[q].todo = {} /\ wk[q].keep # {} /\ "rewrite" \in Faults
     \/ Rewriting(q) /\ "rewrite" \in Faults
     \/ At(q, "rename") /\ temp[Min(wk[q].plan)] = Absent
  /\ LeaveRewrite(q)
  /\ Become(q, Idle)
  /\ UNCHANGED <<log, current, stage, renames, fd, remote, astray, crashes>>

-----------------------------------------------------------------------------

\* The process is killed and started again: LocalWal::new opens or creates
\* current_journal.wal.  A sparse write on its way may be applied later.
Restart(q) ==
  /\ crashes < MaxCrashes
  /\ crashes' = crashes + 1
  /\ late' = IF "late" \in Faults /\ At(q, "write")
             THEN late \cup {Patched(q)} ELSE late
  /\ fd' = [fd EXCEPT ![q] = Current]
  /\ LeaveRewrite(q)
  /\ Become(q, Idle)
  /\ UNCHANGED <<log, current, stage, renames, server, applied, astray>>

\* The server runs a sparse write whose client is gone to its end.
ApplyLate(content) ==
  /\ content \in late
  /\ Apply(content)
  /\ late' = late \ {content}
  /\ UNCHANGED <<log, files, wk, applied, astray, crashes>>

WorkerStep(q) ==
  \/ RotateNothing(q) \/ RotateRename(q) \/ RotateReopen(q)
  \/ ListStages(q) \/ ReadStage(q) \/ DropStage(q)
  \/ \E p \in Paths : ReadBase(q, p) \/ ReadBaseFails(q, p) \/ WriteSparse(q, p)
  \/ WriteSparseFails(q)
  \/ RemoveStage(q) \/ RemoveStageFails(q)
  \/ CreateTemp(q) \/ FillTemp(q) \/ RenameTemp(q) \/ RewriteFails(q)

Next ==
  \/ \E q \in Mounts, c \in Cells : AppendEntry(q, c)
  \/ \E q \in Procs : WorkerStep(q) \/ Restart(q)
  \/ \E content \in late : ApplyLate(content)

\* The worker is a loop over a timer and never waits for another task.  What is
\* tried on every tick is assumed to succeed at last: the server is not down
\* for ever for any file, nor the local disk full for ever.
Fairness ==
  \A q \in Procs :
    /\ WF_vars(WorkerStep(q))
    /\ SF_vars(CreateTemp(q) /\ wk[q].keep # wk[q].recs)
    /\ SF_vars(FillTemp(q) /\ wk[q].keep # wk[q].recs)
    /\ SF_vars(RenameTemp(q) /\ wk[q].keep # wk[q].recs)
    /\ \A p \in Paths : SF_vars(ReadBase(q, p)) /\ SF_vars(WriteSparse(q, p))

Spec == Init /\ [][Next]_vars /\ Fairness

-----------------------------------------------------------------------------
(* Properties.                                                              *)

OnFile == current \cup UNION {stage[n] : n \in Names}

\* "Writes hit the WAL first": a record is never gone from the log before the
\* server has applied a write with it, through failed flushes and kills.
NothingLost == DOMAIN log \subseteq applied \cup OnFile

\* Processes that share a directory can lose a record in three ways only: it was
\* appended to a file that had been renamed under the writer's descriptor, its
\* stage could not be read, or two processes rewrote its stage at the same time,
\* through the temp file they share.  Rotation, retries, late acknowledgements,
\* and a rewrite next to a process that reads, replays or removes the same stage
\* lose none.
OnlyStraysLost == DOMAIN log \subseteq applied \cup OnFile \cup astray

\* Stages are applied in order and replayed only while nothing newer of their
\* file has been: the server's copy of each file is a prefix of the log's
\* writes to it, and never goes back.
WB == INSTANCE WriteBack
ImplementsWriteBack == WB!Spec

\* Every record reaches the server, whatever failed on the way.
EventuallyFlushed == \A r \in Records : (r \in DOMAIN log) ~> (r \in applied)
=============================================================================
