----------------------------- MODULE WalScan_proofs -----------------------------
(***************************************************************************)
(* Proofs, for any number of frames and any frame lengths, that the reader *)
(* of a WAL file returns whole records in order, and misses none but those *)
(* behind a damaged frame that ends the scan.  ScanInv is the inductive    *)
(* invariant: what appends, failed appends and power failures make of the  *)
(* file, and where the reader stands in it.                                *)
(***************************************************************************)
EXTENDS WalScan, SequenceTheorems, TLAPS

\* Frames follow each other in the order they were begun.
Ordered ==
  \A i, j \in DOMAIN file : i < j => file[i].frame <= file[j].frame

\* The cells of a frame lie side by side, from its header on.
Contiguous ==
  /\ \A i, j \in DOMAIN file :
       file[i].frame = file[j].frame => j - i = file[j].at - file[i].at
  /\ \A i \in DOMAIN file :
       LET start == i - file[i].at + 1
       IN  start >= 1 /\ file[start] = [frame |-> file[i].frame, at |-> 1]

\* No frame is longer than it declares, and of one with a garbled header there
\* is nothing else.
WithinSize ==
  \A i \in DOMAIN file :
    /\ file[i].frame <= Len(size)
    /\ size[file[i].frame] = Garbled => file[i].at = 1
    /\ size[file[i].frame] # Garbled => file[i].at <= size[file[i].frame]

Unread == pc = "write" => pos = 1 /\ records = <<>>

\* The reader stands behind all it has returned, and has passed no whole frame
\* without returning it.
ReturnedBehind ==
  \A i \in DOMAIN records, j \in DOMAIN file : j >= pos => records[i] < file[j].frame

NonePassed ==
  \A j \in DOMAIN file :
    j < pos /\ file[j].at = 1 /\ Whole(file[j].frame)
      => \E i \in DOMAIN records : records[i] = file[j].frame

Layout == Ordered /\ Contiguous /\ WithinSize

ScanInv == /\ TypeOK /\ Layout /\ Unread /\ ReturnedBehind /\ NonePassed
           /\ FoundInOrder /\ MissingIsBehindOverrun

-----------------------------------------------------------------------------
(* Types.                                                                   *)

LEMMA FileType ==
  ASSUME TypeOK
  PROVE  /\ Len(file) \in Nat /\ DOMAIN file = 1..Len(file)
         /\ Len(size) \in Nat /\ DOMAIN size = 1..Len(size)
         /\ \A i \in DOMAIN file : file[i] \in Cell /\ file[i].frame \in Nat
                                   /\ file[i].at \in Nat /\ file[i].at >= 1
         /\ \A f \in DOMAIN size : size[f] \in Nat
<1>1. file \in Seq(Cell) /\ size \in Seq(Sizes \cup {Garbled}) /\ Sizes \cup {Garbled} \subseteq Nat
  BY SizesAssumption DEF TypeOK, Garbled
<1>2. /\ Len(file) \in Nat /\ DOMAIN file = 1..Len(file)
      /\ Len(size) \in Nat /\ DOMAIN size = 1..Len(size)
  BY <1>1, LenProperties
<1>3. \A i \in DOMAIN file : file[i] \in Cell
  BY <1>1, <1>2, ElementOfSeq
<1>4. \A f \in DOMAIN size : size[f] \in Nat
  BY <1>1, <1>2, ElementOfSeq
<1>5. ASSUME NEW i \in DOMAIN file
      PROVE  file[i].frame \in Nat /\ file[i].at \in Nat /\ file[i].at >= 1
  BY <1>3 DEF Cell, Frames
<1> QED
  BY <1>2, <1>3, <1>4, <1>5

LEMMA PartType ==
  ASSUME NEW f \in Frames, NEW n \in Nat
  PROVE  /\ Part(f, n) \in Seq(Cell) /\ Len(Part(f, n)) = n
         /\ \A k \in 1..n : Part(f, n)[k] = [frame |-> f, at |-> k]
<1>1. Part(f, n) \in [1..n -> Cell]
  BY DEF Part, Cell
<1>2. Part(f, n) \in Seq(Cell)
  BY <1>1, SeqDef
<1>3. DOMAIN Part(f, n) = 1..n
  BY <1>1
<1> QED
  BY <1>2, <1>3 DEF Part

\* The cell of a frame's header, and what lies between two of its cells.
LEMMA Between ==
  ASSUME TypeOK, Layout, NEW i \in DOMAIN file, NEW j \in DOMAIN file,
         file[i].frame = file[j].frame, NEW k \in i..j
  PROVE  /\ k \in DOMAIN file /\ file[k].frame = file[i].frame
         /\ file[k].at = file[i].at + (k - i)
<1>1. k \in DOMAIN file
  BY FileType
<1>2. file[i].frame <= file[k].frame /\ file[k].frame <= file[j].frame
  BY <1>1, FileType, SMTT(60) DEF Layout, Ordered
<1>3. file[k].frame = file[i].frame
  BY <1>1, <1>2, FileType
<1>4. k - i = file[k].at - file[i].at
  BY <1>1, <1>3 DEF Layout, Contiguous
<1> QED
  BY <1>1, <1>3, <1>4, FileType, SMTT(60)

-----------------------------------------------------------------------------
(* The journal.                                                             *)

\* A frame, or the first cells of one, behind what is there.
LEMMA GrowLayout ==
  ASSUME TypeOK, Layout, Len(size) < MaxFrames,
         NEW declared \in Sizes \cup {Garbled}, NEW k \in Nat, k >= 1,
         declared = Garbled => k = 1,
         declared # Garbled => k <= declared,
         size' = Append(size, declared),
         file' = file \o Part(Len(size'), k),
         UNCHANGED <<synced, pc, pos, records>>
  PROVE  TypeOK' /\ Layout'
<1> DEFINE f == Len(size) + 1
           L == Len(file)
<1>1. size \in Seq(Sizes \cup {Garbled}) /\ file \in Seq(Cell)
  BY DEF TypeOK
<1>2. /\ size' \in Seq(Sizes \cup {Garbled}) /\ Len(size') = f /\ size'[f] = declared
      /\ \A g \in 1..Len(size) : size'[g] = size[g]
  BY <1>1, AppendProperties
<1>3. /\ f \in Frames /\ f \in Nat /\ L \in Nat /\ DOMAIN file = 1..L
      /\ f <= MaxFrames
      /\ \A i \in DOMAIN file : file[i].frame \in Nat /\ file[i].at \in Nat /\ file[i].at >= 1
  BY FileType, BoundAssumption DEF Frames
<1>4. /\ Part(f, k) \in Seq(Cell) /\ Len(Part(f, k)) = k
      /\ \A m \in 1..k : Part(f, k)[m] = [frame |-> f, at |-> m]
  BY <1>3, PartType
<1>5. file' = file \o Part(f, k)
  BY <1>2
<1> HIDE DEF f, L
<1>6. /\ file' \in Seq(Cell) /\ Len(file') = L + k
      /\ \A i \in 1..L + k : file'[i] = IF i <= L THEN file[i] ELSE Part(f, k)[i - L]
  <2> DEFINE P == Part(f, k)
  <2>1. P \in Seq(Cell) /\ Len(P) = k /\ file' = file \o P
    BY <1>4, <1>5
  <2> HIDE DEF P
  <2>2. /\ file \o P \in Seq(Cell) /\ Len(file \o P) = Len(file) + Len(P)
        /\ \A i \in 1..Len(file) + Len(P) :
             (file \o P)[i] = IF i <= Len(file) THEN file[i] ELSE P[i - Len(file)]
    BY <1>1, <2>1, ConcatProperties, ZenonT(60)
  <2> QED
    BY <2>1, <2>2 DEF L, P
<1>7. DOMAIN file' = 1..L + k
  BY <1>6, LenProperties
<1>8. \A i \in 1..L : i \in DOMAIN file' /\ file'[i] = file[i]
  BY <1>3, <1>6, <1>7
<1>9. ASSUME NEW i \in DOMAIN file', i \notin 1..L
      PROVE  /\ i \in Nat /\ i > L /\ i - L \in 1..k
             /\ file'[i].frame = f /\ file'[i].at = i - L
  <2>1. i - L \in 1..k /\ i > L /\ i \in 1..L + k
    BY <1>3, <1>7, <1>9
  <2>2. file'[i] = Part(f, k)[i - L]
    BY <2>1, <1>3, <1>6, SMTT(60)
  <2>3. file'[i] = [frame |-> f, at |-> i - L]
    BY <2>1, <2>2, <1>4
  <2> QED
    BY <2>1, <2>3
<1>10. \A i \in 1..L : file[i].frame < f /\ file[i].frame \in 1..Len(size)
  <2>1. \A i \in DOMAIN file : file[i].frame >= 1 /\ file[i].frame <= Len(size)
                               /\ file[i].frame \in Nat /\ Len(size) \in Nat
    BY FileType DEF Layout, WithinSize, Cell, Frames
  <2>2. DOMAIN file = 1..L /\ f = Len(size) + 1
    BY <1>3 DEF f
  <2> QED
    BY <2>1, <2>2
<1>11. TypeOK'
  <2>1. Len(size') <= MaxFrames
    BY <1>2, <1>3
  <2>2. synced' \in 0..Len(file') /\ pos' \in 1..Len(file') + 1
    BY <1>3, <1>6, SMTT(60) DEF TypeOK, L
  <2> QED
    BY <1>2, <1>6, <2>1, <2>2 DEF TypeOK
<1>12. Ordered'
  <2> SUFFICES ASSUME NEW i \in DOMAIN file', NEW j \in DOMAIN file', i < j
               PROVE  file'[i].frame <= file'[j].frame
    BY DEF Ordered
  <2>1. CASE i \in 1..L /\ j \in 1..L
    BY <2>1, <1>3, <1>8 DEF Layout, Ordered
  <2>2. CASE i \in 1..L /\ j \notin 1..L
    BY <2>2, <1>3, <1>8, <1>9, <1>10, SMTT(60)
  <2>3. CASE i \notin 1..L
    <3>1. j \notin 1..L
      BY <2>3, <1>3, <1>9
    <3> QED
      BY <3>1, <2>3, <1>3, <1>9, SMTT(60)
  <2> QED
    BY <2>1, <2>2, <2>3
<1>13. Contiguous'
  <2>1. ASSUME NEW i \in DOMAIN file', NEW j \in DOMAIN file', file'[i].frame = file'[j].frame
        PROVE  j - i = file'[j].at - file'[i].at
    <3>1. CASE i \in 1..L /\ j \in 1..L
      BY <3>1, <2>1, <1>3, <1>8, ZenonT(60) DEF Layout, Contiguous
    <3>2. CASE i \notin 1..L /\ j \notin 1..L
      BY <3>2, <2>1, <1>3, <1>9, SMTT(60)
    <3>3. CASE i \in 1..L /\ j \notin 1..L
      BY <3>3, <2>1, <1>3, <1>8, <1>9, <1>10, SMTT(60)
    <3>4. CASE i \notin 1..L /\ j \in 1..L
      BY <3>4, <2>1, <1>3, <1>8, <1>9, <1>10, SMTT(60)
    <3> QED
      BY <3>1, <3>2, <3>3, <3>4
  <2>2. ASSUME NEW i \in DOMAIN file'
        PROVE  LET start == i - file'[i].at + 1
               IN  start >= 1 /\ file'[start] = [frame |-> file'[i].frame, at |-> 1]
    <3>1. CASE i \in 1..L
      <4>1. LET start == i - file[i].at + 1
            IN  /\ start >= 1 /\ start \in 1..L
                /\ file[start] = [frame |-> file[i].frame, at |-> 1]
        BY <3>1, <1>3, SMTT(60) DEF Layout, Contiguous
      <4> QED
        BY <4>1, <3>1, <1>8
    <3>2. CASE i \notin 1..L
      <4>1. i - file'[i].at + 1 = L + 1 /\ file'[i].frame = f
        BY <3>2, <1>3, <1>9, SMTT(60)
      <4>2. L + 1 \in 1..L + k /\ ~(L + 1 <= L) /\ (L + 1) - L = 1 /\ 1 \in 1..k
        BY <1>3
      <4>3. file'[L + 1] = Part(f, k)[1]
        BY <4>2, <1>6
      <4>4. file'[L + 1] = [frame |-> f, at |-> 1]
        BY <4>2, <4>3, <1>4
      <4>5. L + 1 >= 1
        BY <1>3
      <4> QED
        BY <4>1, <4>4, <4>5
    <3> QED
      BY <3>1, <3>2
  <2> QED
    BY <2>1, <2>2 DEF Contiguous
<1>14. WithinSize'
  <2> SUFFICES ASSUME NEW i \in DOMAIN file'
               PROVE  /\ file'[i].frame <= Len(size')
                      /\ size'[file'[i].frame] = Garbled => file'[i].at = 1
                      /\ size'[file'[i].frame] # Garbled => file'[i].at <= size'[file'[i].frame]
    BY DEF WithinSize
  <2>1. CASE i \in 1..L
    BY <2>1, <1>2, <1>3, <1>8, <1>10 DEF Layout, WithinSize
  <2>2. CASE i \notin 1..L
    <3>1. declared \in Nat
      BY SizesAssumption DEF Garbled
    <3> QED
      BY <3>1, <2>2, <1>2, <1>3, <1>9, SMTT(60)
  <2> QED
    BY <2>1, <2>2
<1> QED
  BY <1>11, <1>12, <1>13, <1>14 DEF Layout

\* What survives a power failure: a prefix of the file, whose last cell may be a
\* garbled header.
LEMMA PowerLayout ==
  ASSUME TypeOK, Layout, Unread, PowerFailure
  PROVE  TypeOK' /\ Layout'
<1>1. PICK k \in synced..Len(file) - 1 :
        /\ file' = SubSeq(file, 1, k)
        /\ \/ UNCHANGED size
           \/ k > synced /\ file[k].at = 1 /\ size' = [size EXCEPT ![file[k].frame] = Garbled]
  BY DEF PowerFailure
<1>2. /\ file \in Seq(Cell) /\ Len(file) \in Nat /\ DOMAIN file = 1..Len(file)
      /\ \A i \in DOMAIN file : file[i] \in Cell /\ file[i].at \in Nat /\ file[i].at >= 1
                                /\ file[i].frame \in 1..Len(size)
      /\ synced \in Nat /\ k \in Nat /\ k < Len(file) /\ synced <= k
      /\ UNCHANGED <<synced, pc, pos, records>> /\ pc = "write"
  <2>1. \A i \in DOMAIN file : file[i].frame >= 1 /\ file[i].frame <= Len(size)
                               /\ file[i].frame \in Nat /\ Len(size) \in Nat
    BY FileType DEF Layout, WithinSize, Cell, Frames
  <2>2. synced \in Nat /\ k \in Nat /\ k < Len(file) /\ synced <= k
    BY FileType DEF TypeOK
  <2> QED
    BY <2>1, <2>2, FileType, SMTT(60) DEF TypeOK, PowerFailure
<1>3. /\ file' \in Seq(Cell) /\ Len(file') = k
      /\ \A i \in 1..k : file'[i] = file[i]
  <2>1. \A i \in 1..k : file[i] \in Cell
    BY <1>2
  <2>2. /\ SubSeq(file, 1, k) \in Seq(Cell)
        /\ Len(SubSeq(file, 1, k)) = IF 1 <= k THEN k - 1 + 1 ELSE 0
        /\ \A i \in 1..k - 1 + 1 : SubSeq(file, 1, k)[i] = file[1 + i - 1]
    BY <2>1, <1>2, SubSeqProperties
  <2> QED
    BY <2>2, <1>1, <1>2
<1>4. DOMAIN file' = 1..k /\ DOMAIN file' \subseteq DOMAIN file
  BY <1>2, <1>3, LenProperties
<1>5. /\ size' \in Seq(Sizes \cup {Garbled}) /\ Len(size') = Len(size)
      /\ \A f \in 1..Len(size) :
           \/ size'[f] = size[f]
           \/ k \in 1..k /\ f = file[k].frame /\ file[k].at = 1 /\ size'[f] = Garbled
  <2>1. CASE UNCHANGED size
    BY <2>1 DEF TypeOK
  <2>2. CASE k > synced /\ file[k].at = 1 /\ size' = [size EXCEPT ![file[k].frame] = Garbled]
    <3>1. k \in 1..k /\ k \in DOMAIN file
      BY <2>2, <1>2
    <3>2. size \in Seq(Sizes \cup {Garbled}) /\ file[k].frame \in 1..Len(size)
      BY <3>1, <1>2 DEF TypeOK
    <3>3. /\ size' \in Seq(Sizes \cup {Garbled}) /\ Len(size') = Len(size)
          /\ \A f \in 1..Len(size) : size'[f] = IF f = file[k].frame THEN Garbled ELSE size[f]
      BY <3>2, <2>2, ExceptSeq
    <3> QED
      BY <3>1, <3>3, <2>2
  <2> QED
    BY <1>1, <2>1, <2>2
<1>6. TypeOK'
  <2>1. Len(size') <= MaxFrames /\ synced' \in 0..k
    BY <1>2, <1>5 DEF TypeOK
  <2>2. pos' \in 1..k + 1
    BY <1>2 DEF Unread
  <2> QED
    BY <1>2, <1>3, <1>5, <2>1, <2>2 DEF TypeOK
<1>7. Ordered'
  BY <1>3, <1>4 DEF Layout, Ordered
<1>8. Contiguous'
  <2>1. ASSUME NEW i \in 1..k
        PROVE  LET start == i - file[i].at + 1
               IN  start >= 1 /\ file'[start] = [frame |-> file[i].frame, at |-> 1]
    <3>1. LET start == i - file[i].at + 1
          IN  start >= 1 /\ file[start] = [frame |-> file[i].frame, at |-> 1]
      BY <2>1, <1>4 DEF Layout, Contiguous
    <3>2. i - file[i].at + 1 >= 1 /\ i - file[i].at + 1 <= k
      BY <3>1, <1>2, <1>4
    <3>3. i - file[i].at + 1 \in 1..k
      BY <3>2, <1>2, <1>4
    <3> QED
      BY <3>1, <3>3, <1>3
  <2> QED
    BY <2>1, <1>3, <1>4 DEF Layout, Contiguous
<1>9. WithinSize'
  <2> SUFFICES ASSUME NEW i \in 1..k
               PROVE  /\ file[i].frame <= Len(size)
                      /\ size'[file[i].frame] = Garbled => file[i].at = 1
                      /\ size'[file[i].frame] # Garbled => file[i].at <= size'[file[i].frame]
    BY <1>3, <1>4, <1>5 DEF WithinSize
  <2> DEFINE f == file[i].frame
  <2>1. /\ f \in 1..Len(size) /\ i \in DOMAIN file
        /\ f <= Len(size) /\ size[f] = Garbled => file[i].at = 1
        /\ size[f] # Garbled => file[i].at <= size[f]
    BY <1>2, <1>4 DEF Layout, WithinSize
  <2>2. CASE size'[f] = size[f]
    BY <2>1, <2>2
  <2>3. CASE k \in 1..k /\ f = file[k].frame /\ file[k].at = 1 /\ size'[f] = Garbled
    <3>1. k \in DOMAIN file /\ k - i = file[k].at - file[i].at
      BY <2>1, <2>3, <1>4 DEF Layout, Contiguous
    <3>2. file[i].at = 1
      BY <3>1, <2>1, <2>3, <1>2, SMTT(60)
    <3> QED
      BY <3>2, <2>1, <2>3
  <2> QED
    BY <2>1, <2>2, <2>3, <1>5
<1> QED
  BY <1>6, <1>7, <1>8, <1>9 DEF Layout

\* While the file is written nothing has been read.
LEMMA WriteStep ==
  ASSUME ScanInv, pc = "write", pc' = "write", UNCHANGED <<pos, records>>, TypeOK', Layout'
  PROVE  ScanInv'
<1>1. pos' = 1 /\ records' = <<>> /\ DOMAIN records' = {}
  BY DEF ScanInv, Unread
<1>2. file' \in Seq(Cell)
  BY DEF TypeOK
<1>3. DOMAIN file' = 1..Len(file') /\ Len(file') \in Nat
  BY <1>2, LenProperties
<1>4. \A i \in DOMAIN file' : ~(i < pos')
  BY <1>1, <1>3
<1> QED
  BY <1>1, <1>4 DEF ScanInv, Unread, ReturnedBehind, NonePassed, FoundInOrder,
                    MissingIsBehindOverrun

LEMMA WriterInv ==
  ASSUME ScanInv,
         \/ \E n \in Sizes : AppendEntry(n) \/ AppendEntryFails(n)
         \/ SyncJournal \/ PowerFailure
  PROVE  ScanInv'
<1>1. TypeOK /\ Layout /\ Unread
  BY DEF ScanInv
<1>2. \A n \in Sizes : n \in Nat /\ n >= 2 /\ n # Garbled
  BY SizesAssumption DEF Garbled
<1>3. ASSUME NEW n \in Sizes, AppendEntry(n) PROVE ScanInv'
  <2>1. n \in Nat /\ n >= 1 /\ n # Garbled /\ n \in Sizes \cup {Garbled} /\ n <= n
    BY <1>2
  <2>2. /\ Len(size) < MaxFrames /\ size' = Append(size, n)
        /\ file' = file \o Part(Len(size'), n) /\ UNCHANGED <<synced, pc, pos, records>>
        /\ pc = "write"
    BY <1>3 DEF AppendEntry
  <2>3. TypeOK' /\ Layout'
    BY <1>1, <2>1, <2>2, GrowLayout
  <2> QED
    BY <2>2, <2>3, WriteStep
<1>4. ASSUME NEW n \in Sizes, AppendEntryFails(n) PROVE ScanInv'
  <2>1. PICK k \in 1..n - 1, declared \in {n, Garbled} :
          /\ declared = Garbled => k = 1
          /\ size' = Append(size, declared)
          /\ file' = file \o Part(Len(size'), k)
    BY <1>4 DEF AppendEntryFails
  <2>2. k \in Nat /\ k >= 1 /\ (declared # Garbled => k <= declared)
        /\ declared \in Sizes \cup {Garbled}
    BY <1>2, <2>1
  <2>3. TypeOK' /\ Layout'
    BY <1>1, <1>4, <2>1, <2>2, GrowLayout DEF AppendEntryFails
  <2> QED
    BY <2>3, <1>4, WriteStep DEF AppendEntryFails
<1>5. CASE SyncJournal
  <2>1. Len(file) \in 0..Len(file)
    BY <1>1, FileType
  <2>2. TypeOK' /\ Layout'
    BY <1>1, <1>5, <2>1 DEF SyncJournal, TypeOK, Layout, Ordered, Contiguous, WithinSize
  <2> QED
    BY <2>2, <1>5, WriteStep DEF SyncJournal
<1>6. CASE PowerFailure
  <2>1. TypeOK' /\ Layout'
    BY <1>1, <1>6, PowerLayout
  <2> QED
    BY <2>1, <1>6, WriteStep DEF PowerFailure
<1> QED
  BY <1>3, <1>4, <1>5, <1>6

-----------------------------------------------------------------------------
(* The reader.                                                              *)

\* A step of the reader leaves the file as it is.
ReaderFrame ==
  /\ UNCHANGED <<file, size, synced>>
  /\ pc = "scan" /\ pc' \in {"scan", "done"}

LEMMA ReaderKeeps ==
  ASSUME ScanInv, ReaderFrame, pos' \in 1..Len(file) + 1, records' \in Seq(Frames)
  PROVE  TypeOK' /\ Layout' /\ Unread' /\ \A f : Whole(f)' = Whole(f)
BY DEF ScanInv, ReaderFrame, TypeOK, Layout, Ordered, Contiguous, WithinSize, Unread, Whole

\* The header of a whole frame, its last cell, and the next frame.
LEMMA WholeFrame ==
  ASSUME TypeOK, Layout, NEW i \in DOMAIN file, file[i].at = 1, Whole(file[i].frame)
  PROVE  LET f == file[i].frame
             n == size[f]
         IN  /\ n \in Nat /\ n >= 1 /\ i + n - 1 <= Len(file)
             /\ file[i + n - 1] = [frame |-> f, at |-> n]
<1> DEFINE f == file[i].frame
           n == size[f]
<1>1. n # Garbled /\ \E j \in DOMAIN file : file[j] = [frame |-> f, at |-> n]
  BY DEF Whole
<1>2. PICK j \in DOMAIN file : file[j] = [frame |-> f, at |-> n]
  BY <1>1
<1>3. file[j].frame = f /\ file[j].at = n
  BY <1>2
<1>4. j - i = n - 1
  BY <1>3 DEF Layout, Contiguous
<1>5. n \in Nat /\ n >= 1 /\ i \in Nat /\ j \in Nat /\ j <= Len(file)
  BY <1>3, FileType
<1>6. j = i + n - 1
  BY <1>4, <1>5
<1> QED
  BY <1>2, <1>5, <1>6

\* On by one cell, when no whole frame starts here.
LEMMA OnByOne ==
  ASSUME ScanInv, ReaderFrame, pc' = "scan", pos <= Len(file), pos' = pos + 1,
         UNCHANGED records, ~(AtHeader /\ Whole(Here.frame))
  PROVE  ScanInv'
<1>1. /\ TypeOK /\ pos \in Nat /\ pos >= 1 /\ Len(file) \in Nat /\ DOMAIN file = 1..Len(file)
      /\ UNCHANGED <<file, size>>
  BY FileType DEF ScanInv, TypeOK, ReaderFrame
<1>2. TypeOK' /\ Layout' /\ Unread' /\ \A f : Whole(f)' = Whole(f)
  BY <1>1, ReaderKeeps DEF TypeOK
<1>3. ReturnedBehind'
  BY <1>1 DEF ScanInv, ReturnedBehind
<1>4. NonePassed'
  <2> SUFFICES ASSUME NEW j \in DOMAIN file, j < pos + 1, file[j].at = 1, Whole(file[j].frame)
               PROVE  \E i \in DOMAIN records : records[i] = file[j].frame
    BY <1>1, <1>2 DEF NonePassed
  <2>1. j < pos \/ j = pos
    BY <1>1
  <2>2. j # pos
    BY DEF AtHeader, Here
  <2> QED
    BY <2>1, <2>2 DEF ScanInv, NonePassed
<1>5. FoundInOrder' /\ MissingIsBehindOverrun'
  BY <1>2 DEF ScanInv, FoundInOrder, MissingIsBehindOverrun
<1> QED
  BY <1>2, <1>3, <1>4, <1>5 DEF ScanInv

LEMMA SkipInv ==
  ASSUME ScanInv, SkipByte \/ Resync
  PROVE  ScanInv'
<1>1. CASE SkipByte
  BY <1>1, OnByOne DEF SkipByte, ReaderFrame
<1>2. CASE Resync
  <2>1. /\ ReaderFrame /\ pc' = "scan" /\ pos <= Len(file) /\ pos' = pos + 1
        /\ UNCHANGED records /\ AtHeader
    BY <1>2 DEF Resync, ReaderFrame, AtHeader
  <2>2. ~Whole(Here.frame)
    <3>1. CASE size[Here.frame] = Garbled
      BY <3>1 DEF Whole
    <3>2. CASE size[Here.frame] # Garbled
      <4> DEFINE n == size[Here.frame]
      <4>1. pos + n - 1 <= Len(file) /\ ~WholeAt(n)
        BY <1>2, <3>2 DEF Resync, Declared
      <4>2. file[pos + n - 1] # [frame |-> Here.frame, at |-> n]
        BY <4>1 DEF WholeAt
      <4>3. pos \in DOMAIN file /\ file[pos].at = 1
        BY <2>1, FileType DEF ScanInv, TypeOK, AtHeader, Here
      <4> QED
        BY <4>2, <4>3, WholeFrame DEF ScanInv, Here
    <3> QED
      BY <3>1, <3>2
  <2> QED
    BY <2>1, <2>2, OnByOne
<1> QED
  BY <1>1, <1>2

\* The frame that is taken is whole, and the reader goes on right behind it.
LEMMA TakeInv ==
  ASSUME ScanInv, TakeRecord
  PROVE  ScanInv'
<1> DEFINE f == Here.frame
           n == size[f]
<1>1. /\ ReaderFrame /\ pc' = "scan" /\ pos <= Len(file) /\ Here.at = 1
      /\ UNCHANGED <<file, size>>
  BY DEF TakeRecord, ReaderFrame, AtHeader
<1>2. /\ TypeOK /\ Layout /\ pos \in Nat /\ pos >= 1 /\ Len(file) \in Nat
      /\ DOMAIN file = 1..Len(file) /\ pos \in DOMAIN file /\ f \in Frames /\ f \in Nat
      /\ f <= Len(size) /\ f \in DOMAIN size /\ n \in Nat
  <2>1. /\ TypeOK /\ Layout /\ pos \in Nat /\ pos >= 1 /\ Len(file) \in Nat
        /\ DOMAIN file = 1..Len(file) /\ pos \in DOMAIN file
    BY <1>1, FileType DEF ScanInv, TypeOK
  <2>2. f \in Frames /\ f \in Nat /\ f <= Len(size) /\ f >= 1
    BY <2>1, FileType DEF Here, Cell, Frames, Layout, WithinSize
  <2> QED
    BY <2>1, <2>2, FileType
<1>3. /\ pos + n - 1 <= Len(file) /\ file[pos + n - 1] = [frame |-> f, at |-> n]
      /\ records' = Append(records, f) /\ pos' = pos + n /\ n # Garbled
  <2>1. PICK m \in Declared : WholeAt(m) /\ records' = Append(records, f) /\ pos' = pos + m
    BY DEF TakeRecord
  <2>2. m = n /\ pos + m - 1 <= Len(file) /\ file[pos + m - 1] = [frame |-> f, at |-> m]
    BY <2>1 DEF WholeAt
  <2>3. n # Garbled
    BY <2>1, <2>2, <1>2 DEF Declared, Garbled
  <2> QED
    BY <2>1, <2>2, <2>3
<1>4. n >= 1 /\ pos + n - 1 \in DOMAIN file
  <2>1. n >= 1
    BY <1>1, <1>2, <1>3 DEF Layout, WithinSize, Here
  <2> QED
    BY <2>1, <1>2, <1>3, SMTT(60)
<1>5. Whole(f)
  BY <1>3, <1>4 DEF Whole
<1>6. /\ records \in Seq(Frames) /\ records' \in Seq(Frames) /\ Len(records) \in Nat
      /\ DOMAIN records = 1..Len(records) /\ DOMAIN records' = 1..Len(records) + 1
      /\ \A i \in DOMAIN records : records'[i] = records[i] /\ records[i] \in Nat
      /\ records'[Len(records) + 1] = f
  <2>1. records \in Seq(Frames) /\ records' = Append(records, f)
    BY <1>2, <1>3 DEF TypeOK
  <2>2. Len(records) \in Nat /\ DOMAIN records = 1..Len(records)
    BY <2>1, LenProperties
  <2>3. /\ records' \in Seq(Frames) /\ Len(records') = Len(records) + 1
        /\ \A i \in 1..Len(records) : records'[i] = records[i]
        /\ records'[Len(records) + 1] = f
    BY <2>1, <1>2, AppendProperties
  <2>4. DOMAIN records' = 1..Len(records) + 1
    BY <2>3, LenProperties
  <2>5. ASSUME NEW i \in 1..Len(records) PROVE records[i] \in Nat
    <3>1. records[i] \in Frames
      BY <2>1, <2>2, ElementOfSeq
    <3> QED
      BY <3>1, BoundAssumption DEF Frames
  <2> QED
    BY <2>1, <2>2, <2>3, <2>4, <2>5
<1> HIDE DEF n
<1>7. TypeOK' /\ Layout' /\ Unread' /\ \A g : Whole(g)' = Whole(g)
  <2>1. pos' \in 1..Len(file) + 1
    BY <1>2, <1>3, <1>4, SMTT(60)
  <2> QED
    BY <2>1, <1>1, <1>6, ReaderKeeps
<1>8. ASSUME NEW j \in DOMAIN file, j >= pos + n
      PROVE  f < file[j].frame
  <2>1. pos < j /\ j \in Nat /\ file[j].frame \in Nat /\ file[j].at \in Nat
    BY <1>2, <1>4, <1>8, FileType
  <2>2. f <= file[j].frame
    BY <2>1, <1>2 DEF Layout, Ordered, Here
  <2>3. CASE file[j].frame = f
    <3>1. j - pos = file[j].at - 1
      BY <2>3, <1>1, <1>2 DEF Layout, Contiguous, Here
    <3>2. size[file[j].frame] = n /\ n # Garbled
      BY <2>3, <1>3 DEF n
    <3>3. file[j].at <= n
      BY <3>2, <1>2 DEF Layout, WithinSize
    <3> QED
      BY <3>1, <3>3, <2>1, <1>2, <1>8
  <2> QED
    BY <2>1, <2>2, <2>3, <1>2
<1>9. \A i \in DOMAIN records : records[i] < f
  BY <1>2 DEF ScanInv, ReturnedBehind, Here
<1>10. ReturnedBehind'
  <2> SUFFICES ASSUME NEW i \in DOMAIN records', NEW j \in DOMAIN file, j >= pos + n
               PROVE  records'[i] < file[j].frame
    BY <1>1, <1>3 DEF ReturnedBehind
  <2>1. CASE i \in DOMAIN records
    <3>1. j >= pos
      BY <1>2, <1>4
    <3> QED
      BY <3>1, <2>1, <1>6 DEF ScanInv, ReturnedBehind
  <2>2. CASE i = Len(records) + 1
    BY <2>2, <1>6, <1>8
  <2> QED
    BY <2>1, <2>2, <1>6
<1>11. NonePassed'
  <2> SUFFICES ASSUME NEW j \in DOMAIN file, j < pos + n, file[j].at = 1, Whole(file[j].frame)
               PROVE  \E i \in DOMAIN records' : records'[i] = file[j].frame
    BY <1>1, <1>3, <1>7 DEF NonePassed
  <2>1. CASE j < pos
    <3>1. PICK i \in DOMAIN records : records[i] = file[j].frame
      BY <2>1 DEF ScanInv, NonePassed
    <3> QED
      BY <3>1, <1>6
  <2>2. CASE j = pos
    <3>1. Len(records) + 1 \in DOMAIN records'
      BY <1>6
    <3> QED
      BY <3>1, <2>2, <1>6 DEF Here
  <2>3. CASE j > pos
    <3> DEFINE e == pos + n - 1
    <3>1. e \in DOMAIN file /\ file[e].frame = f /\ j \in pos..e
      BY <2>3, <1>2, <1>3, <1>4, SMTT(60)
    <3> HIDE DEF e
    <3>2. file[pos].frame = file[e].frame
      BY <3>1 DEF Here
    <3>3. file[j].at = file[pos].at + (j - pos)
      BY <3>1, <3>2, <1>2, Between
    <3> QED
      BY <3>3, <2>3, <1>1, <1>2 DEF Here
  <2> QED
    BY <2>1, <2>2, <2>3, <1>2
<1>12. FoundInOrder'
  <2>1. ASSUME NEW i \in DOMAIN records' PROVE Whole(records'[i])
    BY <1>5, <1>6 DEF ScanInv, FoundInOrder
  <2>2. ASSUME NEW i \in DOMAIN records', NEW j \in DOMAIN records', i < j
        PROVE  records'[i] < records'[j]
    <3>1. CASE j \in DOMAIN records
      <4>1. i \in DOMAIN records
        BY <3>1, <2>2, <1>6
      <4> QED
        BY <4>1, <3>1, <2>2, <1>6 DEF ScanInv, FoundInOrder
    <3>2. CASE j = Len(records) + 1
      <4>1. i \in DOMAIN records
        BY <3>2, <2>2, <1>6
      <4> QED
        BY <4>1, <3>2, <1>6, <1>9
    <3> QED
      BY <3>1, <3>2, <1>6
  <2> QED
    BY <2>1, <2>2, <1>7 DEF FoundInOrder
<1>13. MissingIsBehindOverrun'
  BY <1>1 DEF MissingIsBehindOverrun
<1> QED
  BY <1>7, <1>10, <1>11, <1>12, <1>13 DEF ScanInv

LEMMA StartOf ==
  ASSUME TypeOK, Layout, NEW i \in DOMAIN file, file[i].at = 1
  PROVE  Start(file[i].frame) = i
<1> DEFINE f == file[i].frame
<1>1. file[i] = [frame |-> f, at |-> 1]
  BY FileType DEF Cell
<1>2. ASSUME NEW j \in DOMAIN file, file[j] = [frame |-> f, at |-> 1]
      PROVE  j = i
  <2>1. j - i = 1 - 1 /\ i \in Nat /\ j \in Nat
    BY <1>2, FileType, SMTT(60) DEF Layout, Contiguous
  <2> QED
    BY <2>1
<1> QED
  BY <1>1, <1>2 DEF Start

\* The scan ends behind the last cell, or at a header that ends it.
LEMMA StopInv ==
  ASSUME ScanInv, StopScan
  PROVE  ScanInv'
<1>1. ReaderFrame /\ UNCHANGED <<file, size, pos, records>>
  BY DEF StopScan, ReaderFrame
<1>2. /\ TypeOK /\ Layout /\ pos \in Nat /\ pos >= 1 /\ Len(file) \in Nat
      /\ DOMAIN file = 1..Len(file)
  BY FileType DEF ScanInv, TypeOK
<1>3. TypeOK' /\ Layout' /\ Unread' /\ \A g : Whole(g)' = Whole(g)
  BY <1>1, ReaderKeeps DEF ScanInv, TypeOK
<1>4. ReturnedBehind' /\ NonePassed' /\ FoundInOrder'
  BY <1>1, <1>3 DEF ScanInv, ReturnedBehind, NonePassed, FoundInOrder
<1>5. ASSUME NEW f \in Begun, Whole(f), ~(\E i \in DOMAIN records : records[i] = f)
      PROVE  \E d \in Begun : d < f /\ EndsScan(d)
  <2>1. PICK c \in DOMAIN file : file[c].frame = f
    BY DEF Begun
  <2> DEFINE s == c - file[c].at + 1
  <2>2. s \in DOMAIN file /\ file[s].frame = f /\ file[s].at = 1
    <3>1. s >= 1 /\ file[s] = [frame |-> f, at |-> 1]
      BY <2>1, <1>2 DEF Layout, Contiguous
    <3>2. s \in DOMAIN file
      BY <3>1, <1>2, FileType
    <3> QED
      BY <3>1, <3>2
  <2> HIDE DEF s
  <2>3. s >= pos /\ s \in Nat /\ s <= Len(file)
    BY <2>2, <1>2, <1>5 DEF ScanInv, NonePassed
  <2>4. AtHeader /\ \E m \in Declared : pos + m - 1 > Len(file)
    BY <2>3, <1>2 DEF StopScan
  <2> DEFINE d == Here.frame
  <2>5. pos \in DOMAIN file /\ file[pos].frame = d /\ file[pos].at = 1 /\ d \in Begun
    BY <2>4, <1>2 DEF AtHeader, Here, Begun
  <2>6. size[d] = Garbled \/ pos + size[d] - 1 > Len(file)
    BY <2>4 DEF Declared
  <2>7. ~Whole(d)
    <3>1. CASE size[d] = Garbled
      BY <3>1 DEF Whole
    <3>2. CASE pos + size[d] - 1 > Len(file)
      <4> SUFFICES ASSUME Whole(d) PROVE FALSE
        OBVIOUS
      <4>1. size[d] \in Nat /\ pos + size[d] - 1 <= Len(file)
        BY <2>5, <1>2, WholeFrame
      <4> QED
        BY <4>1, <3>2, <1>2
    <3> QED
      BY <2>6, <3>1, <3>2
  <2>8. EndsScan(d)
    BY <2>5, <2>6, <2>7, <1>2, StartOf DEF EndsScan
  <2>9. d < f
    <3>1. d # f
      BY <2>7, <1>5
    <3>2. d \in Nat /\ f \in Nat
      BY <2>2, <2>5, <1>2, FileType
    <3>3. d <= f
      <4>1. pos < s \/ pos = s
        BY <2>3, <1>2
      <4> QED
        BY <4>1, <2>2, <2>5, <3>2, <1>2 DEF Layout, Ordered
    <3> QED
      BY <3>1, <3>2, <3>3
  <2> QED
    BY <2>5, <2>8, <2>9
<1>6. MissingIsBehindOverrun'
  <2>1. Begun' = Begun /\ \A g : EndsScan(g)' = EndsScan(g)
    BY <1>1, <1>3 DEF Begun, EndsScan, Start
  <2> QED
    BY <2>1, <1>1, <1>3, <1>5 DEF MissingIsBehindOverrun
<1> QED
  BY <1>3, <1>4, <1>6 DEF ScanInv

-----------------------------------------------------------------------------

LEMMA InitScan == Init => ScanInv
<1> SUFFICES ASSUME Init PROVE ScanInv
  OBVIOUS
<1>1. file = <<>> /\ size = <<>> /\ records = <<>> /\ Len(<<>>) = 0 /\ DOMAIN <<>> = {}
  BY DEF Init
<1>2. TypeOK
  <2>1. <<>> \in Seq(Cell) /\ <<>> \in Seq(Sizes \cup {Garbled}) /\ <<>> \in Seq(Frames)
    BY EmptySeq
  <2> QED
    BY <1>1, <2>1, BoundAssumption DEF Init, TypeOK
<1> QED
  BY <1>1, <1>2 DEF Init, ScanInv, Layout, Ordered, Contiguous, WithinSize, Unread,
                    ReturnedBehind, NonePassed, FoundInOrder, MissingIsBehindOverrun

LEMMA NextScan == ScanInv /\ [Next]_vars => ScanInv'
<1> SUFFICES ASSUME ScanInv, [Next]_vars PROVE ScanInv'
  OBVIOUS
<1>1. CASE \/ \E n \in Sizes : AppendEntry(n) \/ AppendEntryFails(n)
           \/ SyncJournal \/ PowerFailure
  BY <1>1, WriterInv
<1>2. CASE ReadStagedRecords
  <2>1. UNCHANGED <<file, size, synced, pos, records>> /\ pc' = "scan"
    BY <1>2 DEF ReadStagedRecords
  <2> QED
    BY <2>1 DEF ScanInv, TypeOK, Layout, Ordered, Contiguous, WithinSize, Unread,
                ReturnedBehind, NonePassed, FoundInOrder, MissingIsBehindOverrun, Whole
<1>3. CASE ScanStep
  BY <1>3, SkipInv, StopInv, TakeInv DEF ScanStep
<1>4. CASE UNCHANGED vars
  <2>1. UNCHANGED <<file, size, synced, pc, pos, records>>
    BY <1>4 DEF vars
  <2>2. TypeOK' /\ Layout' /\ Unread' /\ ReturnedBehind'
    BY <2>1 DEF ScanInv, TypeOK, Layout, Ordered, Contiguous, WithinSize, Unread,
                ReturnedBehind
  <2>3. /\ \A g : Whole(g)' = Whole(g) /\ Start(g)' = Start(g)
        /\ Begun' = Begun
    BY <2>1 DEF Whole, Start, Begun
  <2>4. NonePassed' /\ FoundInOrder'
    BY <2>1, <2>3 DEF ScanInv, NonePassed, FoundInOrder
  <2>5. \A g : EndsScan(g)' = EndsScan(g)
    BY <2>1, <2>3 DEF EndsScan
  <2>6. MissingIsBehindOverrun'
    BY <2>1, <2>3, <2>5 DEF ScanInv, MissingIsBehindOverrun
  <2> QED
    BY <2>2, <2>4, <2>6 DEF ScanInv
<1> QED
  BY <1>1, <1>2, <1>3, <1>4 DEF Next

\* The inductive invariant of the file and its reader.
THEOREM ScanInvariance == Spec => []ScanInv
BY InitScan, NextScan, PTL DEF Spec

\* The file, the declared lengths and the reader have their types: the reader
\* never stands beyond the end of the file.
THEOREM TypeCorrect == Spec => []TypeOK
<1>1. ScanInv => TypeOK
  BY DEF ScanInv
<1> QED
  BY <1>1, ScanInvariance, PTL

\* read_staged_records returns records that were written in full, each once and
\* in order, whatever failed appends and power failures left between them.
THEOREM WholeInOrder == Spec => []FoundInOrder
<1>1. ScanInv => FoundInOrder
  BY DEF ScanInv
<1> QED
  BY <1>1, ScanInvariance, PTL

\* A record that was written in full and is not returned lies behind a frame whose
\* header is cut or declares a length beyond the end of the file.
THEOREM OnlyOverrunsHide == Spec => []MissingIsBehindOverrun
<1>1. ScanInv => MissingIsBehindOverrun
  BY DEF ScanInv
<1> QED
  BY <1>1, ScanInvariance, PTL

===============================================================================
