-------------------------------- MODULE WalScan --------------------------------
(***************************************************************************)
(* What the reader of a WAL file makes of the damage that crashes and full *)
(* disks leave in it (read_staged_records in                               *)
(* crates/proxygit-client/src/wal/mod.rs).                                 *)
(*                                                                         *)
(* append_entry writes a record as a frame, field by field; a failing      *)
(* write leaves the first fields, a power failure a prefix of the file,    *)
(* and the next appends follow the damage.  The file is a sequence of      *)
(* cells: the first cell of a frame is its magic number and header, which  *)
(* declares the frame's length; the last one is its checksum and end mark. *)
(* No payload is taken to hold bytes that pass for a frame.                *)
(***************************************************************************)
EXTENDS Naturals, Sequences

CONSTANTS
  MaxFrames,   \* bound of the model: frames ever begun
  Sizes        \* lengths a frame can have, in cells

ASSUME SizesAssumption == Sizes \subseteq Nat \ {0, 1}
ASSUME BoundAssumption == MaxFrames \in Nat

Frames == 1..MaxFrames

\* A header that the damage cut through declares what the bytes after it say.
Garbled == 0

VARIABLES
  file,     \* sequence of cells [frame, at]: cell number `at` of a frame
  size,     \* sequence of the lengths the frames declare, by frame number
  synced,   \* number of cells that have been fsynced
  pc,       \* "write" while the file is the journal, then "scan", then "done"
  pos,      \* where the reader stands
  records   \* frames the reader has returned so far

vars == <<file, size, synced, pc, pos, records>>

Cell == [frame : Frames, at : Nat \ {0}]

\* The reader never stands behind the end of the file, where a slice of it would
\* be out of range: the type of pos.
TypeOK ==
  /\ file \in Seq(Cell)
  /\ size \in Seq(Sizes \cup {Garbled}) /\ Len(size) <= MaxFrames
  /\ synced \in 0..Len(file)
  /\ pc \in {"write", "scan", "done"}
  /\ pos \in 1..Len(file) + 1
  /\ records \in Seq(Frames)

Init ==
  /\ file = <<>> /\ size = <<>> /\ synced = 0
  /\ pc = "write" /\ pos = 1 /\ records = <<>>

-----------------------------------------------------------------------------
(* The journal.                                                             *)

\* The first n cells of frame f.
Part(f, n) == [k \in 1..n |-> [frame |-> f, at |-> k]]

AppendEntry(n) ==
  /\ pc = "write" /\ Len(size) < MaxFrames
  /\ size' = Append(size, n)
  /\ file' = file \o Part(Len(size'), n)
  /\ UNCHANGED <<synced, pc, pos, records>>

\* One of the write_all calls fails (a full disk, or the process is killed):
\* the frame's first k cells are there, of the header perhaps only a part.
AppendEntryFails(n) ==
  /\ pc = "write" /\ Len(size) < MaxFrames
  /\ \E k \in 1..n - 1, declared \in {n, Garbled} :
       /\ declared = Garbled => k = 1
       /\ size' = Append(size, declared)
       /\ file' = file \o Part(Len(size'), k)
  /\ UNCHANGED <<synced, pc, pos, records>>

\* group_commit.
SyncJournal ==
  /\ pc = "write" /\ synced < Len(file)
  /\ synced' = Len(file)
  /\ UNCHANGED <<file, size, pc, pos, records>>

\* What was not fsynced survives in part; the cut may go through a header.
PowerFailure ==
  /\ pc = "write"
  /\ \E k \in synced..Len(file) - 1 :
       /\ file' = SubSeq(file, 1, k)
       /\ \/ UNCHANGED size
          \/ /\ k > synced /\ file[k].at = 1
             /\ size' = [size EXCEPT ![file[k].frame] = Garbled]
  /\ UNCHANGED <<synced, pc, pos, records>>

\* The file has been rotated and the flush worker reads it.
ReadStagedRecords ==
  /\ pc = "write"
  /\ pc' = "scan"
  /\ UNCHANGED <<file, size, synced, pos, records>>

-----------------------------------------------------------------------------
(* The loop of read_staged_records.                                         *)

Here == file[pos]
AtHeader == pos <= Len(file) /\ Here.at = 1

\* The whole frame starts at pos: a header, n - 2 cells, and its end.
WholeAt(n) ==
  /\ pos + n - 1 <= Len(file)
  /\ n = size[Here.frame]
  /\ file[pos + n - 1] = [frame |-> Here.frame, at |-> n]

\* The lengths the header at pos can declare: a garbled one, any.
Declared == IF size[Here.frame] = Garbled THEN 2..Len(file) + 1
                                          ELSE {size[Here.frame]}

\* No start mark here: on by one.
SkipByte ==
  /\ pc = "scan" /\ pos <= Len(file) /\ ~AtHeader
  /\ pos' = pos + 1
  /\ UNCHANGED <<file, size, synced, pc, records>>

\* The end of the file, or a declared length that reaches past it.
StopScan ==
  /\ pc = "scan"
  /\ \/ pos > Len(file)
     \/ AtHeader /\ \E n \in Declared : pos + n - 1 > Len(file)
  /\ pc' = "done"
  /\ UNCHANGED <<file, size, synced, pos, records>>

\* Faulty: the end mark and the checksum are not looked at.
TakeRecordUnchecked ==
  /\ pc = "scan" /\ AtHeader
  /\ \E n \in Declared :
       /\ pos + n - 1 <= Len(file)
       /\ records' = Append(records, Here.frame)
       /\ pos' = pos + n
  /\ UNCHANGED <<file, size, synced, pc>>

\* End mark and checksum are right.
TakeRecord ==
  /\ pc = "scan" /\ AtHeader
  /\ \E n \in Declared :
       /\ WholeAt(n)
       /\ records' = Append(records, Here.frame)
       /\ pos' = pos + n
  /\ UNCHANGED <<file, size, synced, pc>>

\* Faulty: past the damaged frame by its declared length.
ResyncAfter ==
  /\ pc = "scan" /\ AtHeader
  /\ \E n \in Declared :
       pos + n - 1 <= Len(file) /\ ~WholeAt(n) /\ pos' = pos + n
  /\ UNCHANGED <<file, size, synced, pc, records>>

\* Faulty: the declared length is not compared with what is left of the file.
ResyncUnbounded ==
  /\ pc = "scan" /\ AtHeader
  /\ \E n \in Declared : ~WholeAt(n) /\ pos' = pos + n
  /\ UNCHANGED <<file, size, synced, pc, records>>

\* A length beyond the limits, a wrong end mark or checksum: the scan resumes
\* one byte after the frame's start.
Resync ==
  /\ pc = "scan" /\ AtHeader
  /\ \/ size[Here.frame] = Garbled
     \/ \E n \in Declared : pos + n - 1 <= Len(file) /\ ~WholeAt(n)
  /\ pos' = pos + 1
  /\ UNCHANGED <<file, size, synced, pc, records>>

ScanStep == SkipByte \/ StopScan \/ TakeRecord \/ Resync

Next ==
  \/ \E n \in Sizes : AppendEntry(n) \/ AppendEntryFails(n)
  \/ SyncJournal \/ PowerFailure \/ ReadStagedRecords
  \/ ScanStep

Spec == Init /\ [][Next]_vars

-----------------------------------------------------------------------------
(* Properties.                                                              *)

Start(f) == CHOOSE i \in DOMAIN file : file[i] = [frame |-> f, at |-> 1]
Begun == {file[i].frame : i \in DOMAIN file}

\* All cells of frame f are in the file.
Whole(f) == size[f] # Garbled /\ [frame |-> f, at |-> size[f]] \in {file[i] : i \in DOMAIN file}

\* The reader returns records that were written in full, each once and in the
\* order they were written, whatever damage lies between them.
FoundInOrder ==
  /\ \A i \in DOMAIN records : Whole(records[i])
  /\ \A i, j \in DOMAIN records : i < j => records[i] < records[j]

\* A damaged frame can end the scan: its header is cut, or it declares a length
\* that reaches past the end of the file.
EndsScan(f) ==
  /\ ~Whole(f)
  /\ size[f] = Garbled \/ Start(f) + size[f] - 1 > Len(file)

\* A record that was written in full and is not returned lies behind such a
\* frame: other damage costs no record but its own.
MissingIsBehindOverrun ==
  pc = "done" =>
    \A f \in Begun :
      Whole(f) => \/ \E i \in DOMAIN records : records[i] = f
                  \/ \E d \in Begun : d < f /\ EndsScan(d)
=============================================================================
