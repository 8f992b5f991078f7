------------------------------ MODULE Mount_proofs ------------------------------
(***************************************************************************)
(* Proofs, for any projects, files and build artifacts and any number of   *)
(* writes and remounts, of the safety properties of the mount: which sizes *)
(* the kernel may trust, what a flush overwrites, and what gets from one   *)
(* project into another.  MountInv is the inductive invariant of the       *)
(* first two; DueInv adds where the bytes come from.                       *)
(***************************************************************************)
EXTENDS Mount, SequenceTheorems, WellFoundedInduction, TLAPS

\* No content, size or place is beyond what the writes so far can have made.
Sizes ==
  /\ \A pr \in Projects, p \in Files : Len(server[pr][p]) <= writes + 1
  /\ \A p \in Paths : attr[p].kind = "file" => attr[p].size <= writes + 1
  /\ \A p \in Files : \A k \in DOMAIN wal[p] : wal[p][k].off <= writes

\* The worker's base is the file's content unless another client changed it
\* since, and its records are in the log.
InHand ==
  flush # None =>
    /\ flush.take \in 1 .. Len(wal[flush.path])
    /\ Len(flush.base) <= writes + 1
    /\ ~flush.overtaken => flush.base = Stored(flush.path)

\* The kernel has no size it may trust of a file that another client changed
\* under the worker.
SureOfBase ==
  flush # None /\ attr[flush.path].kind = "file" /\ attr[flush.path].sure
    => ~flush.overtaken

\* Of build paths, the kernel knows as files only those that are.
BuildKnown == \A p \in Build : attr[p].kind = "file" => local[p] = "file"

Entries == {None} \cup [data : Contents \ {<<>>}, age : 0 .. CacheTTL]
Flushes == [path : Files, take : Nat, base : Contents, overtaken : BOOLEAN]

Types ==
  /\ server \in [Projects -> [Files -> Contents \cup {Absent}]]
  /\ writes \in 0 .. MaxWrites
  /\ project \in Projects
  /\ attr \in [Paths -> Attrs]
  /\ call = None \/ call \in [path : Files, data : Contents]
  /\ cache \in [Keys -> Entries]
  /\ local \in Trees
  /\ wal \in [Files -> Seq(Records)]
  /\ flush = None \/ flush \in Flushes
  /\ remounts \in 0 .. MaxRemounts

MountInv == Types /\ Sizes /\ InHand /\ SureOfBase /\ BuildKnown /\ SizeTrusted

-----------------------------------------------------------------------------
(* Greatest members.                                                        *)

\* A bounded set of numbers has a greatest one.
LEMMA MaxOf ==
  ASSUME NEW k \in Nat, NEW S \in SUBSET (0 .. k), S # {}
  PROVE  Max(S) \in S /\ \A y \in S : y <= Max(S)
<1> DEFINE D == {d \in 0 .. k : k - d \in S}
           R == {p \in Nat \X Nat : p[1] < p[2]}
<1>1. IsWellFoundedOn(R, Nat)
  BY NatLessThanWellFounded DEF OpToRel
<1>2. D \in SUBSET Nat /\ D # {}
  <2>1. PICK y \in S : TRUE
    OBVIOUS
  <2>2. k - y \in 0 .. k /\ k - (k - y) = y
    BY <2>1
  <2>3. k - y \in D
    BY <2>2
  <2>4. D \in SUBSET Nat
    OBVIOUS
  <2> QED
    BY <2>3, <2>4
<1>3. PICK d \in D : \A e \in D : ~(<<e, d>> \in R)
  <2> HIDE DEF D, R
  <2> QED
    BY <1>1, <1>2, WFMin
<1>4. k - d \in S /\ d \in 0 .. k
  OBVIOUS
<1>5. ASSUME NEW z \in S PROVE z <= k - d
  <2>1. k - z \in D /\ z \in 0 .. k
    OBVIOUS
  <2>2. ~(k - z < d)
    BY <2>1, <1>2, <1>3
  <2> QED
    BY <2>1, <2>2, <1>4
<1> HIDE DEF D
<1>6. \E x \in S : \A z \in S : x >= z
  BY <1>4, <1>5
<1> QED
  BY <1>6 DEF Max

LEMMA MaxUnique ==
  ASSUME NEW S \in SUBSET Nat, NEW x \in S, \A y \in S : y <= x
  PROVE  Max(S) = x
<1>1. x \in S /\ \A y \in S : x >= y
  OBVIOUS
<1>2. Max(S) \in S /\ \A y \in S : Max(S) >= y
  BY <1>1, Zenon DEF Max
<1>3. Max(S) >= x /\ x >= Max(S) /\ Max(S) \in Nat
  BY <1>1, <1>2
<1> QED
  BY <1>3

-----------------------------------------------------------------------------
(* Contents, and records laid over them.                                    *)

Byte == {Hole} \cup Writes

LEMMA ContentSeq ==
  ASSUME NEW c
  PROVE  c \in Contents <=> c \in Seq(Byte) /\ Len(c) <= MaxWrites + 1
<1>1. ASSUME c \in Contents PROVE c \in Seq(Byte) /\ Len(c) <= MaxWrites + 1
  <2>1. PICK n \in 0 .. MaxWrites + 1 : c \in [1 .. n -> Byte]
    BY <1>1 DEF Contents, Byte
  <2>2. c \in Seq(Byte)
    BY <2>1, SeqDef
  <2>3. Len(c) = n
    BY <2>1, <2>2, LenProperties
  <2> QED
    BY <2>1, <2>2, <2>3
<1>2. ASSUME c \in Seq(Byte), Len(c) <= MaxWrites + 1 PROVE c \in Contents
  <2>1. Len(c) \in Nat /\ c \in [1 .. Len(c) -> Byte]
    BY <1>2, LenProperties
  <2> QED
    <3>1. Len(c) \in 0 .. MaxWrites + 1
      BY <1>2, <2>1, BoundsAssumption
    <3>2. \A n \in 0 .. MaxWrites + 1 : [1 .. n -> Byte] \subseteq Contents
      BY DEF Contents, Byte
    <3> QED
      BY <2>1, <3>1, <3>2
<1> QED
  BY <1>1, <1>2

LEMMA ContentFacts ==
  /\ <<>> \in Contents /\ <<Hole>> \in Contents /\ Absent \notin Contents
  /\ \A c \in Contents : Len(c) \in Nat /\ DOMAIN c = 1 .. Len(c)
  /\ Len(<<>>) = 0 /\ Len(<<Hole>>) = 1 /\ Len(Absent) = 1
<1>1. <<>> \in Seq(Byte) /\ <<Hole>> \in Seq(Byte) /\ Len(<<>>) = 0 /\ Len(<<Hole>>) = 1
  BY EmptySeq DEF Byte
<1>2. <<>> \in Contents /\ <<Hole>> \in Contents
  <2>1. 0 <= MaxWrites + 1 /\ 1 <= MaxWrites + 1
    BY BoundsAssumption
  <2>2. Len(<<>>) <= MaxWrites + 1 /\ Len(<<Hole>>) <= MaxWrites + 1
    BY <1>1, <2>1
  <2> QED
    BY <1>1, <2>2, ContentSeq
<1>3. Absent \notin Contents
  <2> SUFFICES ASSUME Absent \in Seq(Byte) PROVE FALSE
    BY ContentSeq
  <2>1. Absent[1] \in Byte /\ Absent[1] = MaxWrites + 1
    BY ElementOfSeq DEF Absent
  <2> QED
    BY <2>1, BoundsAssumption DEF Byte, Hole, Writes
<1>4. ASSUME NEW c \in Contents PROVE Len(c) \in Nat /\ DOMAIN c = 1 .. Len(c)
  BY ContentSeq, LenProperties
<1> QED
  BY <1>1, <1>2, <1>3, <1>4 DEF Absent

\* Where a content ends and where the records end.
Ends(base, recs) == {Len(base)} \cup {recs[k].off + 1 : k \in DOMAIN recs}

LEMMA EndsMax ==
  ASSUME NEW base \in Contents, NEW recs \in Seq(Records)
  PROVE  /\ Ends(base, recs) \in SUBSET (0 .. MaxWrites + 1)
         /\ Max(Ends(base, recs)) \in Ends(base, recs)
         /\ \A e \in Ends(base, recs) : e <= Max(Ends(base, recs))
<1>1. Len(base) \in 0 .. MaxWrites + 1
  BY ContentSeq, ContentFacts, BoundsAssumption
<1>2. \A k \in DOMAIN recs : recs[k] \in Records
  BY LenProperties, ElementOfSeq
<1>3. \A k \in DOMAIN recs : recs[k].off + 1 \in 0 .. MaxWrites + 1
  BY <1>2, BoundsAssumption DEF Records
<1>4. Ends(base, recs) \in SUBSET (0 .. MaxWrites + 1) /\ Ends(base, recs) # {}
  BY <1>1, <1>3 DEF Ends
<1>5. MaxWrites + 1 \in Nat
  BY BoundsAssumption
<1> QED
  BY <1>4, <1>5, MaxOf

\* What Lay makes: a content, as long as the longest, that keeps each byte of the
\* base that no record is for.
LEMMA LayFacts ==
  ASSUME NEW base \in Contents, NEW recs \in Seq(Records)
  PROVE  /\ Lay(base, recs) \in Contents
         /\ Len(Lay(base, recs)) = Max(Ends(base, recs))
         /\ \A i \in 1 .. Len(base) :
              \/ Lay(base, recs)[i] = base[i]
              \/ \E k \in DOMAIN recs : recs[k].off + 1 = i
<1> DEFINE end == Max(Ends(base, recs))
           Over(i) == {k \in DOMAIN recs : recs[k].off + 1 = i}
           At(i) == IF Over(i) # {} THEN recs[Max(Over(i))].id
                    ELSE IF i <= Len(base) THEN base[i] ELSE Hole
<1>1. Lay(base, recs) = [i \in 1 .. end |-> At(i)]
  BY DEF Lay, Ends
<1>2. end \in 0 .. MaxWrites + 1 /\ Len(base) <= end /\ Len(base) \in Nat
  BY EndsMax, ContentFacts DEF Ends
<1>3. ASSUME NEW i \in 1 .. end PROVE At(i) \in Byte
  <2>1. CASE Over(i) # {}
    <3>1. Len(recs) \in Nat /\ DOMAIN recs = 1 .. Len(recs)
      BY LenProperties
    <3>2. Over(i) \in SUBSET (0 .. Len(recs))
      BY <3>1
    <3>3. Max(Over(i)) \in Over(i)
      <4> HIDE DEF Over
      <4> QED
        BY <2>1, <3>1, <3>2, MaxOf
    <3>4. recs[Max(Over(i))] \in Records
      BY <3>1, <3>3, ElementOfSeq
    <3> QED
      BY <2>1, <3>4 DEF Records, Byte
  <2>2. CASE Over(i) = {} /\ i <= Len(base)
    <3>1. base \in Seq(Byte)
      BY ContentSeq
    <3>2. base[i] \in Byte
      BY <2>2, <3>1, <1>2, ElementOfSeq
    <3> QED
      BY <2>2, <3>2
  <2>3. CASE Over(i) = {} /\ ~(i <= Len(base))
    BY <2>3 DEF Byte
  <2> QED
    BY <2>1, <2>2, <2>3
<1>4. \A i \in 1 .. Len(base) : At(i) = base[i] \/ \E k \in DOMAIN recs : recs[k].off + 1 = i
  OBVIOUS
<1> HIDE DEF end, At
<1>5. Lay(base, recs) \in [1 .. end -> Byte]
  BY <1>1, <1>3
<1>6. Lay(base, recs) \in Contents
  BY <1>2, <1>5, BoundsAssumption DEF Contents, Byte
<1>7. Len(Lay(base, recs)) = end
  <2>1. Lay(base, recs) \in Seq(Byte)
    BY <1>2, <1>5, SeqDef
  <2> QED
    BY <2>1, <1>2, <1>5, LenProperties
<1>8. \A i \in 1 .. Len(base) : Lay(base, recs)[i] = At(i)
  BY <1>1, <1>2
<1> QED
  BY <1>4, <1>6, <1>7, <1>8 DEF end

LEMMA RecsFacts ==
  ASSUME NEW recs \in Seq(Records)
  PROVE  /\ Len(recs) \in Nat /\ DOMAIN recs = 1 .. Len(recs)
         /\ \A k \in DOMAIN recs : recs[k] \in Records /\ recs[k].off \in Nat
                                   /\ recs[k].off <= MaxWrites
<1>1. Len(recs) \in Nat /\ DOMAIN recs = 1 .. Len(recs)
  BY LenProperties
<1>2. \A k \in DOMAIN recs : recs[k] \in Records
  BY <1>1, ElementOfSeq
<1> QED
  BY <1>1, <1>2, BoundsAssumption DEF Records

\* The length of what Lay makes is the one that bounds all ends and is one.
LEMMA LayLength ==
  ASSUME NEW base \in Contents, NEW recs \in Seq(Records), NEW n \in Ends(base, recs),
         \A e \in Ends(base, recs) : e <= n
  PROVE  Len(Lay(base, recs)) = n
<1>1. Ends(base, recs) \in SUBSET Nat
  BY EndsMax
<1>2. Max(Ends(base, recs)) = n
  BY <1>1, MaxUnique
<1> QED
  BY <1>2, LayFacts

LEMMA LayNothing ==
  ASSUME NEW base \in Contents
  PROVE  Len(Lay(base, <<>>)) = Len(base)
<1>1. <<>> \in Seq(Records) /\ DOMAIN <<>> = {}
  BY EmptySeq
<1>2. Ends(base, <<>>) = {Len(base)} /\ Len(base) \in Nat
  BY <1>1, ContentFacts DEF Ends
<1>3. Len(base) \in Ends(base, <<>>) /\ \A e \in Ends(base, <<>>) : e <= Len(base)
  BY <1>2
<1> QED
  BY <1>1, <1>3, LayLength

LEMMA LayOneMore ==
  ASSUME NEW base \in Contents, NEW recs \in Seq(Records), NEW r \in Records
  PROVE  Len(Lay(base, Append(recs, r))) = Max({Len(Lay(base, recs)), r.off + 1})
<1> DEFINE more == Append(recs, r)
           n == Len(Lay(base, recs))
<1>1. /\ more \in Seq(Records) /\ DOMAIN more = 1 .. Len(recs) + 1
      /\ \A k \in DOMAIN recs : more[k] = recs[k]
      /\ more[Len(recs) + 1] = r
      /\ Len(recs) \in Nat /\ DOMAIN recs = 1 .. Len(recs) /\ Len(more) = Len(recs) + 1
  <2>1. /\ more \in Seq(Records) /\ Len(more) = Len(recs) + 1
        /\ \A i \in 1 .. Len(recs) : more[i] = recs[i] /\ more[Len(recs) + 1] = r
        /\ more[Len(recs) + 1] = r
    BY AppendProperties
  <2> QED
    BY <2>1, RecsFacts
<1>2. n \in Ends(base, recs) /\ n \in Nat /\ \A e \in Ends(base, recs) : e <= n
  BY EndsMax, LayFacts
<1>3. Ends(base, more) = Ends(base, recs) \cup {r.off + 1}
  <2> HIDE DEF more
  <2>1. ASSUME NEW k \in DOMAIN more PROVE more[k].off + 1 \in Ends(base, recs) \cup {r.off + 1}
    <3>1. CASE k \in DOMAIN recs
      BY <1>1, <3>1 DEF Ends
    <3>2. CASE k = Len(recs) + 1
      BY <1>1, <3>2
    <3> QED
      BY <1>1, <3>1, <3>2
  <2>2. ASSUME NEW k \in DOMAIN recs PROVE k \in DOMAIN more /\ more[k] = recs[k]
    BY <1>1
  <2>3. Len(recs) + 1 \in DOMAIN more
    BY <1>1
  <2> QED
    BY <1>1, <2>1, <2>2, <2>3 DEF Ends
<1>4. r.off + 1 \in Nat
  BY BoundsAssumption DEF Records
<1> HIDE DEF n, more
<1>5. CASE n >= r.off + 1
  <2>1. Max({n, r.off + 1}) = n
    BY <1>2, <1>4, <1>5, MaxUnique
  <2>2. n \in Ends(base, more) /\ \A e \in Ends(base, more) : e <= n
    BY <1>2, <1>3, <1>5
  <2>3. Len(Lay(base, more)) = n
    BY <1>1, <2>2, LayLength
  <2> QED
    BY <2>1, <2>3 DEF n, more
<1>6. CASE r.off + 1 >= n
  <2>1. Max({n, r.off + 1}) = r.off + 1
    BY <1>2, <1>4, <1>6, MaxUnique
  <2>2. \A e \in Ends(base, recs) : e \in Nat
    BY EndsMax
  <2>3. r.off + 1 \in Ends(base, more) /\ \A e \in Ends(base, more) : e <= r.off + 1
    BY <1>2, <1>3, <1>4, <1>6, <2>2
  <2>4. Len(Lay(base, more)) = r.off + 1
    BY <1>1, <2>3, LayLength
  <2> QED
    BY <2>1, <2>4 DEF n, more
<1> QED
  BY <1>2, <1>4, <1>5, <1>6

\* The first records of a log, and the others.
LEMMA Parts ==
  ASSUME NEW recs \in Seq(Records), NEW n \in 1 .. Len(recs)
  PROVE  LET first == SubSeq(recs, 1, n)
             rest  == SubSeq(recs, n + 1, Len(recs))
         IN  /\ first \in Seq(Records) /\ rest \in Seq(Records)
             /\ \A k \in DOMAIN first : k \in DOMAIN recs /\ first[k] = recs[k]
             /\ \A k \in DOMAIN rest : k + n \in DOMAIN recs /\ rest[k] = recs[k + n]
             /\ \A k \in DOMAIN recs : \/ k \in DOMAIN first
                                       \/ k - n \in DOMAIN rest
<1> DEFINE first == SubSeq(recs, 1, n)
           rest  == SubSeq(recs, n + 1, Len(recs))
<1>1. Len(recs) \in Nat /\ DOMAIN recs = 1 .. Len(recs) /\ n \in Nat /\ 1 <= n /\ n <= Len(recs)
  BY RecsFacts
<1>2. \A i \in 1 .. Len(recs) : recs[i] \in Records
  BY <1>1, RecsFacts
<1>3. /\ first \in Seq(Records) /\ Len(first) = n
      /\ \A i \in 1 .. n : first[i] = recs[i]
  <2>1. \A i \in 1 .. n : recs[i] \in Records
    BY <1>1, <1>2
  <2>2. /\ first \in Seq(Records) /\ Len(first) = IF 1 <= n THEN n - 1 + 1 ELSE 0
        /\ \A i \in 1 .. n - 1 + 1 : first[i] = recs[1 + i - 1]
    BY <1>1, <2>1, SubSeqProperties, SMTT(60)
  <2> QED
    BY <1>1, <2>2
<1>4. /\ rest \in Seq(Records) /\ Len(rest) = Len(recs) - n
      /\ \A i \in 1 .. Len(recs) - n : rest[i] = recs[i + n]
  <2>1. \A i \in n + 1 .. Len(recs) : recs[i] \in Records
    BY <1>1, <1>2
  <2>2. /\ rest \in Seq(Records)
        /\ Len(rest) = IF n + 1 <= Len(recs) THEN Len(recs) - (n + 1) + 1 ELSE 0
        /\ \A i \in 1 .. Len(recs) - (n + 1) + 1 : rest[i] = recs[(n + 1) + i - 1]
    BY <1>1, <2>1, SubSeqProperties
  <2>3. Len(recs) - (n + 1) + 1 = Len(recs) - n
    BY <1>1
  <2>4. \A i \in Nat : (n + 1) + i - 1 = i + n
    BY <1>1
  <2>5. n + 1 <= Len(recs) \/ n = Len(recs)
    <3>1. \A m, l \in Nat : m <= l => m + 1 <= l \/ m = l
      OBVIOUS
    <3> QED
      BY <1>1, <3>1, Zenon
  <2> HIDE DEF rest
  <2>6. Len(rest) = Len(recs) - n
    <3>1. CASE n + 1 <= Len(recs)
      BY <2>2, <2>3, <3>1
    <3>2. CASE n = Len(recs)
      <4>1. ~(n + 1 <= Len(recs)) /\ Len(recs) - n = 0
        BY <1>1, <3>2
      <4> QED
        BY <2>2, <4>1
    <3> QED
      BY <2>5, <3>1, <3>2
  <2>7. ASSUME NEW i \in 1 .. Len(recs) - n PROVE rest[i] = recs[i + n]
    <3>1. i \in Nat /\ i \in 1 .. Len(recs) - (n + 1) + 1
      BY <1>1, <2>3
    <3> QED
      BY <3>1, <2>2, <2>4
  <2> QED
    BY <2>2, <2>6, <2>7
<1>5. DOMAIN first = 1 .. n /\ DOMAIN rest = 1 .. Len(recs) - n
  BY <1>3, <1>4, RecsFacts
<1> HIDE DEF first, rest
<1>6. \A k \in DOMAIN rest : k + n \in DOMAIN recs /\ rest[k] = recs[k + n]
  BY <1>1, <1>4, <1>5
<1>7. \A k \in DOMAIN recs : k \in DOMAIN first \/ k - n \in DOMAIN rest
  BY <1>1, <1>5
<1>8. \A k \in DOMAIN first : k \in DOMAIN recs /\ first[k] = recs[k]
  BY <1>1, <1>3, <1>5
<1> QED
  BY <1>3, <1>4, <1>6, <1>7, <1>8 DEF first, rest

\* A flush does not change how long the file is under its log, whether its records
\* are removed or stay.
LEMMA LayAgain ==
  ASSUME NEW base \in Contents, NEW recs \in Seq(Records), NEW n \in 1 .. Len(recs)
  PROVE  LET first == SubSeq(recs, 1, n)
             rest  == SubSeq(recs, n + 1, Len(recs))
         IN  /\ Len(Lay(Lay(base, first), rest)) = Len(Lay(base, recs))
             /\ Len(Lay(Lay(base, first), recs)) = Len(Lay(base, recs))
<1> DEFINE first == SubSeq(recs, 1, n)
           rest  == SubSeq(recs, n + 1, Len(recs))
           mid == Lay(base, first)
           m == Len(mid)
           len == Len(Lay(base, recs))
<1>1. /\ first \in Seq(Records) /\ rest \in Seq(Records)
      /\ \A k \in DOMAIN first : k \in DOMAIN recs /\ first[k] = recs[k]
      /\ \A k \in DOMAIN rest : k + n \in DOMAIN recs /\ rest[k] = recs[k + n]
      /\ \A k \in DOMAIN recs : k \in DOMAIN first \/ k - n \in DOMAIN rest
  BY Parts
<1>2. Len(recs) \in Nat /\ DOMAIN recs = 1 .. Len(recs) /\ n \in Nat
  BY RecsFacts
<1>3. \A k \in DOMAIN recs : k \in DOMAIN first \/ (k - n \in DOMAIN rest /\ rest[k - n] = recs[k])
  <2>1. ASSUME NEW k \in DOMAIN recs, k - n \in DOMAIN rest PROVE rest[k - n] = recs[k]
    <3>1. rest[k - n] = recs[(k - n) + n] /\ (k - n) + n = k
      BY <1>1, <1>2, <2>1
    <3> QED
      BY <3>1
  <2> QED
    BY <1>1, <2>1
<1> HIDE DEF first, rest
<1>4. mid \in Contents /\ m \in Ends(base, first) /\ \A e \in Ends(base, first) : e <= m
  BY <1>1, LayFacts, EndsMax
<1>5. len \in Ends(base, recs) /\ \A e \in Ends(base, recs) : e <= len
  BY LayFacts, EndsMax
<1>6. m \in Nat /\ len \in Nat /\ Ends(base, recs) \in SUBSET Nat
  BY <1>4, <1>5, EndsMax, ContentFacts
<1>7. Ends(base, first) \subseteq Ends(base, recs)
  BY <1>1 DEF Ends
<1>8. Len(base) <= m /\ Len(base) \in Nat /\ \A k \in DOMAIN first : recs[k].off + 1 <= m
  BY <1>1, <1>4, ContentFacts DEF Ends
<1> HIDE DEF mid, len
<1>9. m \in Ends(mid, rest) /\ m \in Ends(mid, recs)
  BY DEF Ends
<1>10. \A e \in Ends(mid, rest) : e <= len
  <2>1. m <= len
    BY <1>4, <1>5, <1>7
  <2>2. ASSUME NEW k \in DOMAIN rest PROVE rest[k].off + 1 <= len
    BY <1>1, <1>5 DEF Ends
  <2> QED
    BY <2>1, <2>2 DEF Ends
<1>11. \A e \in Ends(mid, recs) : e <= len
  <2>1. m <= len
    BY <1>4, <1>5, <1>7
  <2>2. ASSUME NEW k \in DOMAIN recs PROVE recs[k].off + 1 <= len
    BY <1>5 DEF Ends
  <2> QED
    BY <2>1, <2>2 DEF Ends
<1>12. len \in Ends(mid, rest) /\ len \in Ends(mid, recs)
  <2>1. CASE len = m
    BY <1>9, <2>1
  <2>2. CASE len # m
    <3>1. m < len
      BY <1>4, <1>5, <1>6, <1>7, <2>2
    <3>2. PICK k \in DOMAIN recs : recs[k].off + 1 = len
      BY <1>5, <1>8, <1>6, <3>1 DEF Ends
    <3>3. k \notin DOMAIN first
      BY <1>6, <1>8, <3>1, <3>2
    <3>4. k - n \in DOMAIN rest /\ rest[k - n].off + 1 = len
      BY <1>3, <3>2, <3>3
    <3> QED
      BY <3>2, <3>4 DEF Ends
  <2> QED
    BY <2>1, <2>2
<1>13. Len(Lay(mid, rest)) = len /\ Len(Lay(mid, recs)) = len
  BY <1>1, <1>4, <1>10, <1>11, <1>12, LayLength
<1> QED
  BY <1>13 DEF mid, len, first, rest

-----------------------------------------------------------------------------
(* Paths: what lies above an artifact is a directory.                       *)

\* A beginning of a beginning of p is a beginning of p.
LEMMA Beginnings ==
  ASSUME NEW p \in Seq(STRING), NEW m \in 0 .. Len(p), NEW n \in 0 .. m
  PROVE  /\ SubSeq(p, 1, m) \in Seq(STRING) /\ Len(SubSeq(p, 1, m)) = m
         /\ \A i \in 1 .. m : SubSeq(p, 1, m)[i] = p[i]
         /\ SubSeq(SubSeq(p, 1, m), 1, n) = SubSeq(p, 1, n)
<1>1. Len(p) \in Nat /\ m \in Nat /\ n \in Nat /\ m <= Len(p) /\ n <= m
  BY LenProperties
<1>2. ASSUME NEW S, NEW s \in Seq(S), NEW k \in Nat, k <= Len(s)
      PROVE  /\ SubSeq(s, 1, k) \in Seq(S) /\ Len(SubSeq(s, 1, k)) = k
             /\ \A i \in 1 .. k : SubSeq(s, 1, k)[i] = s[i]
  <2>1. \A i \in 1 .. k : s[i] \in S
    BY <1>2, LenProperties, ElementOfSeq
  <2>2. /\ SubSeq(s, 1, k) \in Seq(S)
        /\ Len(SubSeq(s, 1, k)) = IF 1 <= k THEN k - 1 + 1 ELSE 0
        /\ \A i \in 1 .. k - 1 + 1 : SubSeq(s, 1, k)[i] = s[1 + i - 1]
    BY <2>1, SubSeqProperties, SMTT(60)
  <2>3. k - 1 + 1 = k /\ (k = 0 \/ 1 <= k) /\ \A i \in Nat : 1 + i - 1 = i
    BY <1>2
  <2> QED
    BY <2>2, <2>3
<1> DEFINE s == SubSeq(p, 1, m)
           t == SubSeq(p, 1, n)
           u == SubSeq(s, 1, n)
<1>3. s \in Seq(STRING) /\ Len(s) = m /\ \A i \in 1 .. m : s[i] = p[i]
  BY <1>1, <1>2
<1>4. t \in Seq(STRING) /\ Len(t) = n /\ \A i \in 1 .. n : t[i] = p[i]
  <2>1. n <= Len(p)
    BY <1>1
  <2> QED
    BY <1>1, <1>2, <2>1
<1> HIDE DEF s, t
<1>5. u \in Seq(STRING) /\ Len(u) = n /\ \A i \in 1 .. n : u[i] = s[i]
  BY <1>1, <1>2, <1>3
<1> HIDE DEF u
<1>6. u \in [1 .. n -> STRING] /\ t \in [1 .. n -> STRING]
  BY <1>4, <1>5, LenProperties
<1>7. \A i \in 1 .. n : u[i] = t[i]
  BY <1>1, <1>3, <1>4, <1>5
<1>8. u = t
  BY <1>6, <1>7
<1> QED
  BY <1>3, <1>8 DEF s, t, u

LEMMA PathSeq ==
  ASSUME NEW q \in Paths
  PROVE  q \in Seq(STRING)
<1>1. PICK p \in Files \cup BuildFiles : q \in {SubSeq(p, 1, n) : n \in 0 .. Len(p)}
  BY DEF Paths
<1>2. PICK n \in 0 .. Len(p) : q = SubSeq(p, 1, n)
  BY <1>1
<1>3. p \in Seq(STRING)
  BY PathsAssumption
<1>4. n \in 0 .. n
  BY <1>2, <1>3, LenProperties
<1> QED
  BY <1>2, <1>3, <1>4, Beginnings

LEMMA WholeSeq ==
  ASSUME NEW s \in Seq(STRING)
  PROVE  SubSeq(s, 1, Len(s)) = s
<1>1. Len(s) \in Nat /\ s \in [1 .. Len(s) -> STRING]
  BY LenProperties
<1>2. Len(s) \in 0 .. Len(s)
  BY <1>1
<1> DEFINE t == SubSeq(s, 1, Len(s))
<1>3. t \in Seq(STRING) /\ Len(t) = Len(s) /\ \A i \in 1 .. Len(s) : t[i] = s[i]
  BY <1>2, Beginnings
<1> HIDE DEF t
<1>4. t \in [1 .. Len(s) -> STRING]
  BY <1>3, LenProperties
<1>5. t = s
  BY <1>1, <1>3, <1>4
<1> QED
  BY <1>5 DEF t

LEMMA FilePath ==
  ASSUME NEW p \in Files \cup BuildFiles
  PROVE  p \in Seq(STRING) /\ p \in Paths /\ p # Root
<1>1. p \in Seq(STRING) /\ p # <<>> /\ Len(p) \in 0 .. Len(p)
  BY PathsAssumption, LenProperties
<1>2. p = SubSeq(p, 1, Len(p))
  BY <1>1, WholeSeq, SMTT(60)
<1>3. p \in {SubSeq(p, 1, n) : n \in 0 .. Len(p)}
  BY <1>1, <1>2
<1>4. {SubSeq(p, 1, n) : n \in 0 .. Len(p)} \subseteq Paths
  BY DEF Paths
<1> QED
  BY <1>1, <1>3, <1>4 DEF Root

\* The first n names of p.
Up(p, n) == SubSeq(p, 1, n)

LEMMA AboveArtifact ==
  ASSUME local \in Trees, NEW p \in BuildFiles, local[p] = "file", NEW q \in Build, Below(p, q)
  PROVE  local[q] = "dir"
<1> DEFINE m == Len(p)
           B == {n \in 0 .. m - 1 : Up(p, n) \in Build /\ local[Up(p, n)] # "dir"}
<1>1. p \in Seq(STRING) /\ m \in Nat /\ Up(p, m) = p
  BY FilePath, LenProperties, WholeSeq DEF Up
<1>2. \A n \in 0 .. m : Up(p, n) \in Paths
  BY DEF Paths, Up
<1>3. ASSUME NEW n \in 0 .. m
      PROVE  Up(p, n) \in Seq(STRING) /\ Len(Up(p, n)) = n /\ \A i \in 1 .. n : Up(p, n)[i] = p[i]
  <2>1. n \in 0 .. n
    BY <1>1
  <2> QED
    BY <1>1, <2>1, Beginnings DEF Up
<1>4. ASSUME NEW n \in 0 .. m - 1, Up(p, n) \in Build
      PROVE  Up(p, n + 1) \in Build /\ Parent(Up(p, n + 1)) = Up(p, n)
  <2>1. n \in Nat /\ n + 1 \in 0 .. m /\ n \in 0 .. m /\ n \in 0 .. n + 1
    BY <1>1
  <2>2. /\ Len(Up(p, n + 1)) = n + 1 /\ \A i \in 1 .. n + 1 : Up(p, n + 1)[i] = p[i]
        /\ Len(Up(p, n)) = n /\ \A i \in 1 .. n : Up(p, n)[i] = p[i]
    BY <1>3, <2>1
  <2>3. SubSeq(Up(p, n + 1), 1, n) = Up(p, n)
    BY <1>1, <2>1, Beginnings DEF Up
  <2>4. Parent(Up(p, n + 1)) = Up(p, n)
    <3>1. Len(Up(p, n + 1)) - 1 = n
      BY <2>1, <2>2
    <3> QED
      BY <2>3, <3>1 DEF Parent, Up
    <2>5. IsBuildPath(Up(p, n))
    BY <1>4 DEF Build
  <2>6. IsBuildPath(Up(p, n + 1))
    <3>1. \A i \in 1 .. n : i \in 1 .. Len(Up(p, n + 1)) - 1 /\ Up(p, n + 1)[i] = Up(p, n)[i]
      BY <2>1, <2>2
    <3>2. \E i \in 1 .. n : Up(p, n)[i] \in BuildNames
      <4>1. CASE \E i \in 1 .. Len(Up(p, n)) - 1 : Up(p, n)[i] \in BuildNames
        BY <2>1, <2>2, <4>1
      <4>2. CASE Len(Up(p, n)) = 1 /\ Up(p, n)[1] \in BuildNames
        BY <2>1, <2>2, <4>2
      <4> QED
        BY <2>5, <4>1, <4>2 DEF IsBuildPath
    <3> QED
      BY <3>1, <3>2 DEF IsBuildPath
  <2> QED
    BY <1>2, <2>1, <2>4, <2>6 DEF Build
<1>5. B = {}
  <2> SUFFICES ASSUME B # {} PROVE FALSE
    OBVIOUS
  <2>1. PICK n \in B : \A k \in B : k <= n
    <3>1. B \in SUBSET (0 .. m)
      BY <1>1
    <3> HIDE DEF B
    <3> QED
      BY <1>1, <3>1, MaxOf
  <2>2. n \in 0 .. m - 1 /\ Up(p, n) \in Build /\ local[Up(p, n)] # "dir"
    OBVIOUS
  <2>3. local[Up(p, n + 1)] # "none"
    <3>1. CASE n + 1 = m
      BY <1>1, <3>1
    <3>2. CASE n + 1 # m
      <4>1. n + 1 \in 0 .. m - 1 /\ n + 1 \notin B
        BY <1>1, <2>1, <2>2, <3>2
      <4> QED
        BY <1>4, <2>2, <4>1
    <3> QED
      BY <3>1, <3>2
  <2>4. Up(p, n + 1) \in Build /\ Parent(Up(p, n + 1)) = Up(p, n)
    BY <1>4, <2>2
    <2> QED
    BY <2>2, <2>3, <2>4 DEF Trees
<1>6. \E n \in 0 .. m - 1 : q = Up(p, n)
  <2>1. q \in Seq(STRING) /\ Len(q) \in Nat
    BY PathSeq, LenProperties DEF Build
  <2>2. Len(q) <= m /\ SubSeq(q, 1, Len(q)) = SubSeq(p, 1, Len(q)) /\ q # p
    BY DEF Below, IsStrictPrefix, IsPrefix
  <2>3. q = Up(p, Len(q))
    BY <2>1, <2>2, WholeSeq DEF Up
  <2>4. Len(q) # m
    BY <1>1, <2>2, <2>3
  <2> QED
    BY <1>1, <2>1, <2>2, <2>3, <2>4
<1> QED
  BY <1>5, <1>6

-----------------------------------------------------------------------------
(* What the invariant says, in the form the steps need it.                  *)

FileAttrs == [kind : {"file"}, size : 0 .. MaxWrites + 1, sure : BOOLEAN]

LEMMA KindFacts ==
  /\ None \in Attrs /\ None.kind = "none"
  /\ [kind |-> "dir"] \in Attrs /\ [kind |-> "dir"].kind = "dir"
  /\ \A a \in Attrs : a.kind = "file" => a \in FileAttrs
  /\ FileAttrs \subseteq Attrs
  /\ \A a \in FileAttrs : a.kind = "file" /\ a.size \in Nat /\ a.sure \in BOOLEAN
<1>1. None.kind = "none" /\ [kind |-> "dir"].kind = "dir"
  BY DEF None
<1>2. \A a \in FileAttrs : a.kind = "file" /\ a.size \in Nat /\ a.sure \in BOOLEAN
  BY BoundsAssumption DEF FileAttrs
<1> QED
  BY <1>1, <1>2 DEF Attrs, FileAttrs

LEMMA AttrChanged ==
  ASSUME NEW a \in FileAttrs
  PROVE  /\ \A n \in 0 .. MaxWrites + 1 :
              LET b == [a EXCEPT !.size = n]
              IN  b \in FileAttrs /\ b.size = n /\ b.sure = a.sure
         /\ LET b == [a EXCEPT !.sure = FALSE]
            IN  b \in FileAttrs /\ b.size = a.size /\ ~b.sure
  BY DEF FileAttrs

LEMMA StoredFacts ==
  ASSUME Types, Sizes, NEW p \in Files
  PROVE  /\ Stored(p) \in Contents /\ Len(Stored(p)) \in Nat
         /\ Len(Stored(p)) <= writes + 1 /\ writes \in Nat /\ writes <= MaxWrites
         /\ wal[p] \in Seq(Records)
         /\ Stored(p) # server[project][p] => server[project][p] = Absent /\ Stored(p) = <<>>
<1>1. server[project][p] \in Contents \cup {Absent} /\ writes \in Nat /\ writes <= MaxWrites
  BY BoundsAssumption DEF Types
<1>2. Len(server[project][p]) <= writes + 1
  BY DEF Types, Sizes
<1>3. wal[p] \in Seq(Records)
  BY DEF Types
<1>4. CASE server[project][p] = Absent
  <2>1. Stored(p) = <<>> /\ Len(<<>>) = 0 /\ <<>> \in Contents
    BY <1>4, ContentFacts DEF Stored
  <2> QED
    BY <1>1, <1>3, <1>4, <2>1
<1>5. CASE server[project][p] # Absent
  <2>1. Stored(p) = server[project][p] /\ Stored(p) \in Contents
    BY <1>1, <1>5 DEF Stored
  <2> QED
    BY <1>1, <1>2, <1>3, <2>1, ContentFacts
<1> QED
  BY <1>4, <1>5

\* The stage in hand.
LEMMA StageFacts ==
  ASSUME MountInv, flush # None
  PROVE  /\ flush.path \in Files /\ flush.base \in Contents /\ flush.overtaken \in BOOLEAN
         /\ wal[flush.path] \in Seq(Records)
         /\ flush.take \in 1 .. Len(wal[flush.path])
         /\ wal[flush.path] # <<>>
         /\ Taken \in Seq(Records)
         /\ \A k \in DOMAIN Taken : /\ k \in DOMAIN wal[flush.path]
                                    /\ Taken[k] = wal[flush.path][k]
<1>1. flush \in Flushes /\ InHand
  BY DEF MountInv, Types
<1>2. flush.path \in Files /\ flush.base \in Contents /\ flush.overtaken \in BOOLEAN
  BY <1>1 DEF Flushes
<1>3. wal[flush.path] \in Seq(Records)
  BY <1>2 DEF MountInv, Types
<1>4. flush.take \in 1 .. Len(wal[flush.path])
  BY <1>1 DEF InHand
<1>5. wal[flush.path] # <<>>
  BY <1>4, ContentFacts
<1> QED
  BY <1>2, <1>3, <1>4, <1>5, Parts DEF Taken

\* What the kernel may know of p.
Known(p, a) ==
  /\ a \in Attrs
  /\ a.kind = "file" => a.size <= writes + 1
  /\ p \in Build /\ a.kind = "file" => local[p] = "file"
  /\ p \in Files /\ a.kind = "file" /\ a.sure
       => /\ a.size = Len(Lay(Stored(p), wal[p]))
          /\ flush # None /\ flush.path = p => ~flush.overtaken

\* A step in which the kernel learns or forgets one path.
LEMMA LearnStep ==
  ASSUME MountInv, NEW p \in Paths, NEW a, Known(p, a), attr' = [attr EXCEPT ![p] = a],
         UNCHANGED <<server, writes, project, call, cache, local, wal, flush, remounts>>
  PROVE  MountInv'
<1>1. attr \in [Paths -> Attrs] /\ a \in Attrs
  BY DEF MountInv, Types, Known
<1>2. attr'[p] = a /\ \A q \in Paths : q # p => attr'[q] = attr[q]
  BY <1>1
<1>3. Types'
  BY <1>1 DEF MountInv, Types
<1>4. Sizes'
  <2>1. ASSUME NEW q \in Paths, attr'[q].kind = "file" PROVE attr'[q].size <= writes + 1
    BY <1>2, <2>1 DEF MountInv, Sizes, Known
  <2> QED
    BY <2>1 DEF MountInv, Sizes
<1>5. InHand'
  BY DEF MountInv, InHand, Stored
<1>6. SureOfBase'
  <2> SUFFICES ASSUME flush # None, attr'[flush.path].kind = "file", attr'[flush.path].sure
               PROVE  ~flush.overtaken
    BY DEF SureOfBase
  <2>1. flush.path \in Files /\ flush.path \in Paths
    BY StageFacts, FilePath
  <2> QED
    BY <1>2, <2>1 DEF MountInv, SureOfBase, Known
<1>7. BuildKnown'
  <2> SUFFICES ASSUME NEW q \in Build, attr'[q].kind = "file" PROVE local[q] = "file"
    BY DEF BuildKnown
  <2>1. q \in Paths
    BY DEF Build
  <2> QED
    BY <1>2, <2>1 DEF MountInv, BuildKnown, Known
<1>8. SizeTrusted'
  <2> SUFFICES ASSUME NEW q \in Files, attr'[q].kind = "file", attr'[q].sure
               PROVE  attr'[q].size = Len(Lay(Stored(q), wal[q]))
    BY DEF SizeTrusted, Stored
  <2>1. q \in Paths
    BY FilePath
  <2> QED
    BY <1>2, <2>1 DEF MountInv, SizeTrusted, Known
<1> QED
  BY <1>3, <1>4, <1>5, <1>6, <1>7, <1>8 DEF MountInv

\* What the kernel knows of another path, it may know.
LEMMA AlreadyKnown ==
  ASSUME MountInv, NEW p \in Paths
  PROVE  Known(p, attr[p])
  BY DEF MountInv, Types, Sizes, SureOfBase, BuildKnown, SizeTrusted, Known

\* A step that changes only the read cache or the read in flight.
LEMMA ReadStep ==
  ASSUME MountInv, UNCHANGED <<server, writes, project, attr, local, wal, flush, remounts>>,
         call' = None \/ call' \in [path : Files, data : Contents],
         cache' \in [Keys -> Entries]
  PROVE  MountInv'
<1>1. Types'
  BY DEF MountInv, Types
<1>2. \A p : Stored(p)' = Stored(p)
  BY DEF Stored
<1>3. Sizes' /\ InHand' /\ SureOfBase' /\ BuildKnown'
  BY <1>2 DEF MountInv, Sizes, InHand, SureOfBase, BuildKnown
<1>4. SizeTrusted'
  BY <1>2 DEF MountInv, SizeTrusted
<1> QED
  BY <1>1, <1>3, <1>4 DEF MountInv

-----------------------------------------------------------------------------
(* The calls of the kernel.                                                 *)

LEMMA NotBoth ==
  ASSUME NEW p \in Files
  PROVE  p \notin Build
  BY PathsAssumption DEF Build

\* A listing, answered for a path that is not a build path.
LEMMA ListedKnown ==
  ASSUME MountInv, NEW p \in Paths, ~IsBuildPath(p), NEW list \in Listings
  PROVE  Known(p, ListedAttr(list, p))
<1>1. list \subseteq Files /\ \A q \in list : server[project][q] # Absent
  BY DEF Listings
<1>2. p \notin Build
  BY DEF Build
<1>3. CASE p \in list
  <2> DEFINE a == [kind |-> "file", size |-> Len(Stored(p)), sure |-> wal[p] = <<>>]
  <2>1. ListedAttr(list, p) = a
    BY <1>3 DEF ListedAttr
  <2>2. p \in Files
    BY <1>1, <1>3
  <2>3. /\ Stored(p) \in Contents /\ Len(Stored(p)) \in Nat /\ Len(Stored(p)) <= writes + 1
        /\ writes \in Nat /\ writes <= MaxWrites
    BY <2>2, StoredFacts DEF MountInv
  <2>4. Len(Stored(p)) \in 0 .. MaxWrites + 1
    BY <2>3, BoundsAssumption
  <2>5. a \in FileAttrs
    BY <2>4 DEF FileAttrs
  <2>6. a.size = Len(Stored(p)) /\ a.sure = (wal[p] = <<>>)
    OBVIOUS
  <2>7. wal[p] = <<>> => Len(Stored(p)) = Len(Lay(Stored(p), wal[p]))
    BY <2>3, LayNothing
  <2>8. flush # None /\ flush.path = p => wal[p] # <<>>
    BY StageFacts
  <2> HIDE DEF a
  <2> QED
    BY <1>2, <2>1, <2>3, <2>5, <2>6, <2>7, <2>8, KindFacts DEF Known
<1>4. CASE p \notin list
  <2>1. ListedAttr(list, p) = None \/ ListedAttr(list, p) = [kind |-> "dir"]
    BY <1>4 DEF ListedAttr
  <2> QED
    BY <2>1, KindFacts DEF Known
<1> QED
  BY <1>3, <1>4

\* A file of no bytes whose size is trusted, where the build cache has a file.
LEMMA ArtifactKnown ==
  ASSUME MountInv, NEW p \in Build, local[p] = "file"
  PROVE  Known(p, [kind |-> "file", size |-> 0, sure |-> TRUE])
<1> DEFINE a == [kind |-> "file", size |-> 0, sure |-> TRUE]
<1>1. a \in FileAttrs /\ a.size = 0
  BY BoundsAssumption DEF FileAttrs
<1>2. 0 <= writes + 1
  BY BoundsAssumption DEF MountInv, Types
<1> HIDE DEF a
<1>3. Known(p, a)
  BY <1>1, <1>2, NotBoth, KindFacts DEF Known
<1> QED
  BY <1>3 DEF a

LEMMA PlainKnown ==
  ASSUME NEW p
  PROVE  Known(p, None) /\ Known(p, [kind |-> "dir"])
  BY KindFacts DEF Known

LEMMA LookupStep ==
  ASSUME MountInv, NEW p \in Paths, Lookup(p)
  PROVE  MountInv'
<1>1. PICK list \in Listings : attr' = [attr EXCEPT ![p] = LookupAttr(list, p)]
  BY DEF Lookup
<1>2. Known(p, LookupAttr(list, p))
  <2>1. CASE ~IsBuildPath(p)
    BY <2>1, ListedKnown DEF LookupAttr
  <2>2. CASE IsBuildPath(p)
    <3>1. p \in Build /\ LookupAttr(list, p) = BuildAttr(p)
      BY <2>2 DEF Build, LookupAttr
    <3> QED
      BY <3>1, ArtifactKnown, PlainKnown DEF BuildAttr
  <2> QED
    BY <2>1, <2>2
<1> QED
  BY <1>1, <1>2, LearnStep DEF Lookup

LEMMA CreateStep ==
  ASSUME MountInv, NEW p \in Paths, Create(p)
  PROVE  MountInv'
<1>1. PICK list \in Listings :
        /\ LookupAttr(list, p) = None
        /\ attr' = [attr EXCEPT ![p] = [kind |-> "file", size |-> 0,
                                        sure |-> (p \in Files => wal[p] = <<>>)
                                                 /\ ~Failed(list)]]
  BY DEF Create
<1> DEFINE Settled == p \in Files => wal[p] = <<>>
<1> DEFINE a == [kind |-> "file", size |-> 0, sure |-> Settled /\ ~Failed(list)]
<1>2. a \in FileAttrs /\ a.size = 0 /\ a.sure = (Settled /\ ~Failed(list))
  BY BoundsAssumption DEF FileAttrs
<1>3. 0 <= writes + 1
  BY BoundsAssumption DEF MountInv, Types
<1>4. p \notin Build /\ ListedAttr(list, p) = None
  <2>1. BuildAttr(p).kind # "none"
    BY KindFacts DEF BuildAttr
  <2>2. ~IsBuildPath(p)
    BY <1>1, <2>1, KindFacts DEF LookupAttr
  <2> QED
    BY <1>1, <2>2 DEF LookupAttr, Build
<1>5. ASSUME p \in Files, wal[p] = <<>>, ~Failed(list)
      PROVE  0 = Len(Lay(Stored(p), wal[p])) /\ ~(flush # None /\ flush.path = p)
  <2>1. p \notin list
    <3>1. p \in list => ListedAttr(list, p).kind = "file"
      BY DEF ListedAttr
    <3> QED
      BY <1>4, <3>1, KindFacts
  <2>2. server[project][p] = Absent
    BY <1>5, <2>1 DEF Listings, Failed
  <2>3. Stored(p) = <<>> /\ <<>> \in Contents /\ Len(<<>>) = 0
    BY <2>2, ContentFacts DEF Stored
  <2>4. Len(Lay(<<>>, <<>>)) = 0
    BY <2>3, LayNothing
  <2> QED
    BY <1>5, <2>3, <2>4, StageFacts
<1>6. attr' = [attr EXCEPT ![p] = a]
  BY <1>1
<1> HIDE DEF a
<1>7. Known(p, a)
  BY <1>2, <1>3, <1>4, <1>5, KindFacts DEF Known
<1> QED
  BY <1>6, <1>7, LearnStep DEF Create

LEMMA GetAttrStep ==
  ASSUME MountInv, NEW p \in Paths, GetAttr(p)
  PROVE  MountInv'
<1> DEFINE Answer(list) ==
             CASE ~IsBuildPath(p) -> ListedAttr(list, p)
               [] IsBuildPath(p) /\ local[p] = "dir" -> [kind |-> "dir"]
               [] OTHER -> [kind |-> "file", size |-> 0, sure |-> TRUE]
           Kept(a) == CASE a = None -> attr[p]
                        [] a # None /\ a.kind = attr[p].kind -> a
                        [] OTHER -> None
<1>1. PICK list \in Listings : attr' = [attr EXCEPT ![p] = Kept(Answer(list))]
  <2>1. attr \in [Paths -> Attrs]
    BY DEF MountInv, Types
  <2> QED
    BY <2>1 DEF GetAttr
<1>2. Known(p, Kept(Answer(list)))
  <2>1. CASE ~IsBuildPath(p)
    <3>1. Known(p, Answer(list))
      BY <2>1, ListedKnown
    <3> HIDE DEF Answer
    <3> QED
      BY <3>1, AlreadyKnown, PlainKnown
  <2>2. CASE IsBuildPath(p) /\ local[p] = "dir"
    <3>1. Answer(list) = [kind |-> "dir"]
      BY <2>2
    <3> HIDE DEF Answer
    <3> QED
      BY <3>1, AlreadyKnown, PlainKnown
  <2>3. CASE IsBuildPath(p) /\ local[p] # "dir"
    <3> DEFINE a == [kind |-> "file", size |-> 0, sure |-> TRUE]
    <3>1. Answer(list) = a
      BY <2>3
    <3>2. p \in Build /\ a.kind = "file"
      BY <2>3 DEF Build
    <3>3. attr[p].kind = "file" => local[p] = "file"
      BY <3>2 DEF MountInv, BuildKnown
    <3>4. attr[p].kind = "file" => Known(p, a)
      BY <3>2, <3>3, ArtifactKnown
    <3> HIDE DEF Answer, a
    <3> QED
      BY <3>1, <3>2, <3>4, AlreadyKnown, PlainKnown
  <2> QED
    BY <2>1, <2>2, <2>3
<1> HIDE DEF Kept, Answer
<1> QED
  BY <1>1, <1>2, LearnStep DEF GetAttr

\* A write to the build cache goes to a file that is there.
LEMMA WriteBuildSame ==
  ASSUME MountInv, NEW p \in BuildFiles, WriteBuild(p)
  PROVE  local' = local
<1>1. p \in Build
  BY FilePath, PathsAssumption DEF Build
<1>2. local[p] = "file"
  BY <1>1 DEF MountInv, BuildKnown, WriteBuild
<1>3. local \in Trees
  BY DEF MountInv, Types
<1>4. local \in [Build -> {"none", "dir", "file"}]
  BY <1>3 DEF Trees
<1>5. \A q \in Build : Below(p, q) => local[q] = "dir"
  BY <1>2, <1>3, AboveArtifact
<1>6. \A q \in Build : local'[q] = local[q]
  BY <1>2, <1>5 DEF WriteBuild
<1>7. local' \in [Build -> {"none", "dir", "file"}]
  <2>1. local' = [q \in Build |-> local'[q]]
    BY DEF WriteBuild
  <2> QED
    BY <1>4, <1>6, <2>1
<1> QED
  BY <1>4, <1>6, <1>7

LEMMA WriteBuildStep ==
  ASSUME MountInv, NEW p \in BuildFiles, WriteBuild(p)
  PROVE  MountInv'
<1>1. local' = local
  BY WriteBuildSame
<1>2. cache' \in [Keys -> Entries] /\ (call' = None \/ call' \in [path : Files, data : Contents])
  BY DEF WriteBuild, MountInv, Types
<1> QED
  BY <1>1, <1>2, ReadStep DEF WriteBuild

LEMMA ReadSteps ==
  ASSUME MountInv, (\E p \in Files : ReadHit(p) \/ ReadFetch(p)) \/ ReadStore \/ Tick
  PROVE  MountInv'
<1>1. cache \in [Keys -> Entries] /\ (call = None \/ call \in [path : Files, data : Contents])
  BY DEF MountInv, Types
<1>2. ASSUME NEW p \in Files, ReadHit(p) PROVE MountInv'
  BY <1>1, <1>2, ReadStep DEF ReadHit, vars
<1>3. ASSUME NEW p \in Files, ReadFetch(p) PROVE MountInv'
  <2>1. PICK data \in {Stored(p), <<>>} : call' = [path |-> p, data |-> data]
    BY <1>3 DEF ReadFetch
  <2>2. data \in Contents
    BY StoredFacts, ContentFacts DEF MountInv
  <2>3. call' \in [path : Files, data : Contents]
    BY <2>1, <2>2
  <2> QED
    BY <1>1, <1>3, <2>3, ReadStep DEF ReadFetch
<1>4. ASSUME ReadStore PROVE MountInv'
  <2>1. call \in [path : Files, data : Contents]
    BY <1>1, <1>4 DEF ReadStore, Idle
  <2>2. call.data # <<>> => [data |-> call.data, age |-> 0] \in Entries
    BY <2>1, BoundsAssumption DEF Entries
  <2>3. cache' \in [Keys -> Entries]
    BY <1>1, <1>4, <2>2 DEF ReadStore
  <2> QED
    BY <1>4, <2>3, ReadStep DEF ReadStore
<1>5. ASSUME Tick PROVE MountInv'
  <2>1. ASSUME NEW k \in Keys, Usable(k) PROVE [cache[k] EXCEPT !.age = @ + 1] \in Entries
    <3>1. cache[k] \in [data : Contents \ {<<>>}, age : 0 .. CacheTTL] /\ cache[k].age < CacheTTL
      BY <1>1, <2>1 DEF Usable, Entries
    <3>2. cache[k].age + 1 \in 0 .. CacheTTL
      BY <3>1, BoundsAssumption
    <3> QED
      BY <3>1, <3>2 DEF Entries
  <2>2. \A k \in Keys : cache[k] \in Entries
    BY <1>1
  <2>3. cache' \in [Keys -> Entries]
    BY <1>5, <2>1, <2>2 DEF Tick
  <2> QED
    BY <1>1, <1>5, <2>3, ReadStep DEF Tick
<1> QED
  BY <1>2, <1>3, <1>4, <1>5

-----------------------------------------------------------------------------
(* Writes.                                                                  *)

\* A record more in the log of p; a size the kernel goes on trusting is the greater
\* of the one it had and the record's end.
LEMMA LogStep ==
  ASSUME MountInv, NEW p \in Files, NEW off \in 0 .. MaxWrites,
         attr[p].kind = "file", off <= attr[p].size, Log(p, off),
         NEW a \in FileAttrs, attr' = [attr EXCEPT ![p] = a],
         a.size <= writes + 2,
         a.sure => attr[p].sure /\ a.size = Max({attr[p].size, off + 1}),
         UNCHANGED <<server, project, call, local, flush, remounts>>
  PROVE  MountInv'
<1> DEFINE r == [off |-> off, id |-> writes']
<1>1. /\ writes \in Nat /\ writes < MaxWrites /\ writes' = writes + 1
      /\ writes' \in 0 .. MaxWrites /\ writes' \in Nat
  BY BoundsAssumption DEF MountInv, Types, Log, Made
<1>2. p \in Paths /\ p \notin Build
  BY FilePath, NotBoth
<1>3. attr \in [Paths -> Attrs] /\ wal \in [Files -> Seq(Records)] /\ cache \in [Keys -> Entries]
  BY DEF MountInv, Types
<1>4. attr'[p] = a /\ \A q \in Paths : q # p => attr'[q] = attr[q]
  BY <1>2, <1>3
<1>5. attr[p] \in FileAttrs /\ attr[p].size \in Nat /\ attr[p].size <= writes + 1
  BY <1>2, <1>3, KindFacts DEF MountInv, Sizes
<1>6. off \in Nat /\ off <= writes'
  BY <1>1, <1>5, BoundsAssumption
<1>7. r \in Records /\ r.off = off
  BY <1>1 DEF Records, Writes
<1> HIDE DEF r
<1>8. /\ wal' = [wal EXCEPT ![p] = Append(wal[p], r)]
      /\ cache' = [cache EXCEPT ![CacheKey(p)] = None]
  BY <1>3 DEF Log, Made, r
<1>9. Append(wal[p], r) \in Seq(Records) /\ wal[p] \in Seq(Records)
  BY <1>3, <1>7, AppendProperties
<1>10. wal'[p] = Append(wal[p], r) /\ \A q \in Files : q # p => wal'[q] = wal[q]
  BY <1>3, <1>8
<1>11. Len(wal'[p]) = Len(wal[p]) + 1 /\ Len(wal[p]) \in Nat
  BY <1>9, <1>10, <1>7, AppendProperties, LenProperties
<1>12. \A q : Stored(q)' = Stored(q)
  BY DEF Stored
<1>13. Types'
  <2>1. attr' \in [Paths -> Attrs]
    BY <1>3, KindFacts
  <2>2. wal' \in [Files -> Seq(Records)]
    BY <1>3, <1>8, <1>9
  <2>3. cache' \in [Keys -> Entries]
    BY <1>3, <1>8 DEF Entries
  <2> QED
    BY <1>1, <2>1, <2>2, <2>3 DEF MountInv, Types
<1>14. Sizes'
  <2>1. ASSUME NEW pr \in Projects, NEW q \in Files PROVE Len(server[pr][q]) <= writes' + 1
    <3>1. Len(server[pr][q]) <= writes + 1 /\ Len(server[pr][q]) \in Nat
      BY ContentFacts DEF MountInv, Types, Sizes
    <3> QED
      BY <1>1, <3>1
  <2>2. ASSUME NEW q \in Paths, attr'[q].kind = "file" PROVE attr'[q].size <= writes' + 1
    <3>1. CASE q = p
      BY <1>1, <1>4, <3>1, KindFacts
    <3>2. CASE q # p
      <4>1. attr[q] \in FileAttrs /\ attr[q].size \in Nat /\ attr[q].size <= writes + 1
        BY <1>3, <1>4, <2>2, <3>2, KindFacts DEF MountInv, Sizes
      <4> QED
        BY <1>1, <1>4, <3>2, <4>1
    <3> QED
      BY <3>1, <3>2
  <2>3. ASSUME NEW q \in Files, NEW k \in DOMAIN wal'[q] PROVE wal'[q][k].off <= writes'
    <3>1. ASSUME NEW n \in DOMAIN wal[q] PROVE wal[q][n].off <= writes'
      <4>1. wal[q] \in Seq(Records) /\ wal[q][n].off <= writes
        BY <1>3 DEF MountInv, Sizes
      <4>2. wal[q][n].off \in Nat
        BY <4>1, RecsFacts
      <4> QED
        BY <1>1, <4>1, <4>2
    <3>2. CASE q = p
      <4>1. DOMAIN wal'[p] = 1 .. Len(wal[p]) + 1 /\ DOMAIN wal[p] = 1 .. Len(wal[p])
        BY <1>9, <1>10, <1>11, RecsFacts
      <4>2. /\ \A i \in 1 .. Len(wal[p]) : wal'[p][i] = wal[p][i]
            /\ wal'[p][Len(wal[p]) + 1] = r
        BY <1>7, <1>9, <1>10, AppendProperties
      <4>3. CASE k = Len(wal[p]) + 1
        BY <1>6, <1>7, <3>2, <4>2, <4>3
      <4>4. CASE k # Len(wal[p]) + 1
        <5>1. k \in 1 .. Len(wal[p])
          BY <1>11, <3>2, <4>1, <4>4
        <5> QED
          BY <3>1, <3>2, <4>1, <4>2, <5>1
      <4> QED
        BY <4>3, <4>4
    <3>3. CASE q # p
      BY <1>10, <3>1, <3>3
    <3> QED
      BY <3>2, <3>3
  <2> QED
    BY <2>1, <2>2, <2>3 DEF Sizes
<1>15. InHand'
  <2> SUFFICES ASSUME flush # None
               PROVE  /\ flush.take \in 1 .. Len(wal'[flush.path])
                      /\ Len(flush.base) <= writes' + 1
                      /\ ~flush.overtaken => flush.base = Stored(flush.path)
    BY <1>12 DEF InHand
  <2>1. /\ flush.path \in Files /\ flush.take \in 1 .. Len(wal[flush.path])
        /\ Len(flush.base) \in Nat
    BY StageFacts, ContentFacts
  <2>2. flush.take \in 1 .. Len(wal'[flush.path])
    BY <1>10, <1>11, <2>1, SMTT(60)
  <2>3. /\ Len(flush.base) <= writes + 1
        /\ ~flush.overtaken => flush.base = Stored(flush.path)
    BY DEF MountInv, InHand
  <2> QED
    BY <1>1, <2>1, <2>2, <2>3
<1>16. SureOfBase'
  <2> SUFFICES ASSUME flush # None, attr'[flush.path].kind = "file", attr'[flush.path].sure
               PROVE  ~flush.overtaken
    BY DEF SureOfBase
  <2>1. flush.path \in Paths
    BY StageFacts, FilePath
  <2>2. attr[flush.path].kind = "file" /\ attr[flush.path].sure
    BY <1>4, <2>1
  <2> QED
    BY <2>2 DEF MountInv, SureOfBase
<1>17. BuildKnown'
  <2> SUFFICES ASSUME NEW q \in Build, attr'[q].kind = "file" PROVE local[q] = "file"
    BY DEF BuildKnown
  <2>1. attr'[q] = attr[q]
    BY <1>2, <1>4 DEF Build
  <2> QED
    BY <2>1 DEF MountInv, BuildKnown
<1>18. SizeTrusted'
  <2> SUFFICES ASSUME NEW q \in Files, attr'[q].kind = "file", attr'[q].sure
               PROVE  attr'[q].size = Len(Lay(Stored(q), wal'[q]))
    BY <1>12 DEF SizeTrusted
  <2>1. q \in Paths
    BY FilePath
  <2>2. CASE q = p
    <3>1. attr[p].sure /\ a.size = Max({attr[p].size, off + 1})
      BY <1>4, <2>1, <2>2
    <3>2. attr[p].size = Len(Lay(Stored(p), wal[p]))
      BY <3>1 DEF MountInv, SizeTrusted
    <3>3. Stored(p) \in Contents
      BY StoredFacts DEF MountInv
    <3>4. Len(Lay(Stored(p), wal'[p])) = Max({attr[p].size, off + 1})
      BY <1>7, <1>9, <1>10, <3>2, <3>3, LayOneMore, SMTT(60)
    <3> QED
      BY <1>4, <2>2, <3>1, <3>4
  <2>3. CASE q # p
    BY <1>4, <1>10, <2>1, <2>3 DEF MountInv, SizeTrusted
  <2> QED
    BY <2>2, <2>3
<1> QED
  BY <1>13, <1>14, <1>15, <1>16, <1>17, <1>18 DEF MountInv

LEMMA WriteSteps ==
  ASSUME MountInv, NEW p \in Files, NEW off \in 0 .. MaxWrites, Write(p, off) \/ WriteFails(p, off)
  PROVE  MountInv'
<1>1. p \in Paths /\ attr \in [Paths -> Attrs] /\ attr[p].kind = "file" /\ off <= attr[p].size
  BY FilePath DEF MountInv, Types, Write, WriteFails
<1>2. attr[p] \in FileAttrs /\ attr[p].size \in Nat /\ attr[p].size <= writes + 1
  BY <1>1, KindFacts DEF MountInv, Sizes
<1>3. writes \in Nat /\ writes + 1 <= MaxWrites /\ off \in Nat /\ off <= MaxWrites
  BY BoundsAssumption DEF MountInv, Types, Write, WriteFails, Log, Made
<1>4. ASSUME Write(p, off) PROVE MountInv'
  <2> DEFINE n == Max({attr[p].size, off + 1})
             a == [attr[p] EXCEPT !.size = n]
  <2>1. n = attr[p].size \/ n = off + 1
    <3>1. {attr[p].size, off + 1} \in SUBSET (0 .. MaxWrites + 2) /\ MaxWrites + 2 \in Nat
      BY <1>2, <1>3, BoundsAssumption
    <3>2. n \in {attr[p].size, off + 1}
      BY <3>1, MaxOf
    <3> QED
      BY <3>2
  <2> HIDE DEF n
  <2>2. n \in 0 .. MaxWrites + 1 /\ n <= writes + 2
    BY <1>1, <1>2, <1>3, <2>1, BoundsAssumption
  <2>3. a \in FileAttrs /\ a.size = n /\ a.sure = attr[p].sure
    BY <1>2, <2>2, AttrChanged
  <2>4. attr' = [attr EXCEPT ![p] = a]
    BY <1>4 DEF Write, n
  <2> HIDE DEF a
  <2> QED
    BY <1>1, <1>4, <2>2, <2>3, <2>4, LogStep, ZenonT(60) DEF Write, n
<1>5. ASSUME WriteFails(p, off) PROVE MountInv'
  <2> DEFINE a == [attr[p] EXCEPT !.sure = FALSE]
  <2>1. a \in FileAttrs /\ a.size = attr[p].size /\ ~a.sure
    BY <1>2, AttrChanged
  <2>2. attr' = [attr EXCEPT ![p] = a]
    BY <1>5 DEF WriteFails
  <2>3. a.size <= writes + 2
    BY <1>2, <1>3, <2>1
  <2> HIDE DEF a
  <2> QED
    BY <1>1, <1>5, <2>1, <2>2, <2>3, LogStep DEF WriteFails
<1> QED
  BY <1>4, <1>5

-----------------------------------------------------------------------------
(* The flush worker.                                                        *)

LEMMA FlushBaseStep ==
  ASSUME MountInv, NEW p \in Files, NEW n \in 1 .. MaxWrites, FlushBase(p, n)
  PROVE  MountInv'
<1> DEFINE f == [path |-> p, take |-> n, base |-> Stored(p), overtaken |-> FALSE]
<1>1. flush' = f /\ f.path = p /\ f.take = n /\ f.base = Stored(p) /\ f.overtaken = FALSE
  BY DEF FlushBase
<1>2. Stored(p) \in Contents /\ Len(Stored(p)) <= writes + 1 /\ n \in Nat
  BY StoredFacts, BoundsAssumption DEF MountInv
<1>3. f \in Flushes
  BY <1>2 DEF Flushes
<1> HIDE DEF f
<1>4. \A q : Stored(q)' = Stored(q)
  BY DEF Stored, FlushBase
<1>5. Types'
  BY <1>1, <1>3 DEF MountInv, Types, FlushBase
<1>6. Sizes' /\ BuildKnown'
  BY DEF MountInv, Sizes, BuildKnown, FlushBase
<1>7. InHand'
  BY <1>1, <1>2, <1>4 DEF InHand, FlushBase
<1>8. SureOfBase'
  BY <1>1 DEF SureOfBase
<1>9. SizeTrusted'
  BY <1>4 DEF MountInv, SizeTrusted, FlushBase
<1> QED
  BY <1>5, <1>6, <1>7, <1>8, <1>9 DEF MountInv

\* A worker with nothing in hand.
LEMMA FlushFailsStep ==
  ASSUME MountInv, FlushFails
  PROVE  MountInv'
<1>1. \A q : Stored(q)' = Stored(q)
  BY DEF Stored, FlushFails
<1>2. Types'
  BY DEF MountInv, Types, FlushFails
<1>3. Sizes' /\ BuildKnown' /\ InHand' /\ SureOfBase'
  BY DEF MountInv, Sizes, BuildKnown, InHand, SureOfBase, FlushFails
<1>4. SizeTrusted'
  BY <1>1 DEF MountInv, SizeTrusted, FlushFails
<1> QED
  BY <1>2, <1>3, <1>4 DEF MountInv

\* What the worker writes: a content, as long as the base with the whole log over it
\* when the records that stay are laid over it.
LEMMA PatchedFacts ==
  ASSUME MountInv, flush # None
  PROVE  LET recs == wal[flush.path]
             rest == SubSeq(recs, flush.take + 1, Len(recs))
         IN  /\ Patched \in Contents /\ Len(Patched) <= writes + 1
             /\ rest \in Seq(Records)
             /\ \A k \in DOMAIN rest : \E n \in DOMAIN recs : rest[k] = recs[n]
             /\ Len(Lay(Patched, rest)) = Len(Lay(flush.base, recs))
             /\ Len(Lay(Patched, recs)) = Len(Lay(flush.base, recs))
<1>1. /\ flush.path \in Files /\ flush.base \in Contents
      /\ wal[flush.path] \in Seq(Records) /\ flush.take \in 1 .. Len(wal[flush.path])
      /\ Taken \in Seq(Records)
      /\ \A k \in DOMAIN Taken : /\ k \in DOMAIN wal[flush.path]
                                 /\ Taken[k] = wal[flush.path][k]
  BY StageFacts
<1>2. Len(flush.base) <= writes + 1
  BY DEF MountInv, InHand
<1>3. Patched \in Contents /\ Len(Patched) = Max(Ends(flush.base, Taken))
  BY <1>1, LayFacts DEF Patched
<1>4. \A e \in Ends(flush.base, Taken) : e <= writes + 1
  <2>1. ASSUME NEW k \in DOMAIN Taken PROVE Taken[k].off + 1 <= writes + 1
    <3>1. Taken[k].off \in Nat
      BY <1>1, RecsFacts
    <3>2. Taken[k].off <= writes
      BY <1>1 DEF MountInv, Sizes
    <3>3. writes \in Nat
      BY BoundsAssumption DEF MountInv, Types
    <3> QED
      BY <3>1, <3>2, <3>3
  <2> QED
    BY <1>2, <2>1 DEF Ends
<1>5. Len(Patched) <= writes + 1
  BY <1>1, <1>3, <1>4, EndsMax
<1> QED
  BY <1>1, <1>3, <1>5, Parts, LayAgain, ZenonT(60) DEF Patched, Taken

LEMMA PatchStep ==
  ASSUME MountInv, NEW answered \in BOOLEAN, Patch(answered)
  PROVE  MountInv'
<1>1. flush # None /\ flush' = None /\ UNCHANGED <<writes, project, attr, call, local, remounts>>
  BY DEF Patch
<1>2. PICK f \in Files : f = flush.path /\ f \in Paths /\ flush.base \in Contents
  BY <1>1, StageFacts, FilePath
<1>3. PICK recs : recs = wal[f]
  OBVIOUS
<1>4. PICK rest : rest = SubSeq(recs, flush.take + 1, Len(recs))
  OBVIOUS
<1>5. /\ server \in [Projects -> [Files -> Contents \cup {Absent}]] /\ project \in Projects
      /\ wal \in [Files -> Seq(Records)] /\ cache \in [Keys -> Entries]
  BY DEF MountInv, Types
<1>6. /\ Patched \in Contents /\ Len(Patched) <= writes + 1
      /\ rest \in Seq(Records)
      /\ \A k \in DOMAIN rest : \E n \in DOMAIN recs : rest[k] = recs[n]
      /\ Len(Lay(Patched, rest)) = Len(Lay(flush.base, recs))
      /\ Len(Lay(Patched, recs)) = Len(Lay(flush.base, recs))
  BY <1>1, <1>2, <1>3, <1>4, PatchedFacts
<1>7. \/ /\ wal' = [wal EXCEPT ![f] = rest]
         /\ cache' = [cache EXCEPT ![FlushKey(f)] = None]
      \/ wal' = wal /\ cache' = cache
  BY <1>2, <1>5, <1>3, <1>4 DEF Patch
<1>8. server' = [server EXCEPT ![project][f] = Patched]
  BY <1>2 DEF Patch
<1>9. /\ server' \in [Projects -> [Files -> Contents \cup {Absent}]]
      /\ \A pr \in Projects, q \in Files :
           server'[pr][q] = IF pr = project /\ q = f THEN Patched ELSE server[pr][q]
  BY <1>2, <1>5, <1>6, <1>8
<1>10. wal' \in [Files -> Seq(Records)] /\ (\A q \in Files : q # f => wal'[q] = wal[q])
      /\ wal'[f] \in {rest, recs}
  BY <1>2, <1>5, <1>6, <1>7, <1>3, ZenonT(60)
<1>11. Types'
  <2>1. cache' \in [Keys -> Entries]
    BY <1>5, <1>7 DEF Entries
  <2> QED
    BY <1>1, <1>9, <1>10, <2>1 DEF MountInv, Types
<1>12. Sizes'
  <2>1. \A pr \in Projects, q \in Files : Len(server'[pr][q]) <= writes + 1
    BY <1>6, <1>9 DEF MountInv, Sizes
  <2>2. ASSUME NEW q \in Files, NEW k \in DOMAIN wal'[q] PROVE wal'[q][k].off <= writes
    <3>1. \A n \in DOMAIN wal[q] : wal[q][n].off <= writes
      BY DEF MountInv, Sizes
    <3>2. CASE wal'[q] = wal[q]
      BY <3>1, <3>2
    <3>3. CASE q = f /\ wal'[q] = rest
      BY <1>6, <1>3, <3>1, <3>3
    <3> QED
      BY <1>10, <1>3, <3>2, <3>3
  <2>3. \A q \in Paths : attr[q].kind = "file" => attr[q].size <= writes + 1
    BY DEF MountInv, Sizes
  <2> QED
    BY <1>1, <2>1, <2>2, <2>3 DEF Sizes
<1>13. InHand' /\ SureOfBase'
  BY <1>1 DEF InHand, SureOfBase
<1>14. BuildKnown'
  BY <1>1 DEF MountInv, BuildKnown
<1>15. SizeTrusted'
  <2> SUFFICES ASSUME NEW q \in Files, attr[q].kind = "file", attr[q].sure
               PROVE  attr[q].size = Len(Lay(Stored(q)', wal'[q]))
    BY <1>1 DEF SizeTrusted
  <2>1. attr[q].size = Len(Lay(Stored(q), wal[q]))
    BY DEF MountInv, SizeTrusted
  <2>2. CASE q # f
    <3>1. Stored(q)' = Stored(q)
      BY <1>1, <1>5, <1>9, <2>2 DEF Stored
    <3> QED
      BY <1>10, <2>1, <2>2, <3>1
  <2>3. CASE q = f
    <3>1. flush.base = Stored(f)
      BY <1>1, <1>2, <2>3 DEF MountInv, InHand, SureOfBase
    <3>2. Stored(f)' = Patched
      <4>1. server'[project'][f] = Patched /\ Patched # Absent
        BY <1>1, <1>2, <1>5, <1>6, <1>9, ContentFacts
      <4> QED
        BY <4>1 DEF Stored
    <3>3. Len(Lay(Patched, wal'[f])) = Len(Lay(flush.base, recs))
      <4>1. CASE wal'[f] = rest
        BY <1>6, <4>1
      <4>2. CASE wal'[f] = recs
        BY <1>6, <4>2
      <4> QED
        BY <1>10, <4>1, <4>2
    <3>4. attr[q].size = Len(Lay(flush.base, recs))
      BY <1>3, <2>1, <2>3, <3>1
    <3>5. Len(Lay(Stored(q)', wal'[q])) = Len(Lay(Patched, wal'[f]))
      BY <2>3, <3>2
    <3> QED
      BY <3>3, <3>4, <3>5
  <2> QED
    BY <2>2, <2>3
<1> QED
  BY <1>11, <1>12, <1>13, <1>14, <1>15 DEF MountInv

-----------------------------------------------------------------------------
(* Other writers, and the end of the process.                               *)

\* Another client's write leaves the worker with its stage in hand.
LEMMA RemoteKeepsStage ==
  ASSUME MountInv, NEW p \in Files, RemoteWrite(p), flush # None
  PROVE  flush' # None
<1>1. CASE p = flush.path
  <2>1. flush \in Flushes /\ flush' = [flush EXCEPT !.overtaken = TRUE]
    BY <1>1 DEF RemoteWrite, Made, MountInv, Types
  <2>2. DOMAIN flush' = {"path", "take", "base", "overtaken"} /\ DOMAIN None = {"kind"}
    BY <2>1 DEF Flushes, None
  <2> QED
    BY <2>2
<1>2. CASE p # flush.path
  BY <1>2 DEF RemoteWrite, Made
<1> QED
  BY <1>1, <1>2

LEMMA RemoteStep ==
  ASSUME MountInv, NEW p \in Files, RemoteWrite(p)
  PROVE  MountInv'
<1>1. /\ writes \in Nat /\ writes < MaxWrites /\ writes' = writes + 1
      /\ writes' \in 0 .. MaxWrites /\ writes' \in Writes
  BY BoundsAssumption DEF MountInv, Types, RemoteWrite, Made, Writes
<1>2. PICK c \in {<<writes'>>, Absent, Append(Stored(p), writes')} :
        server' = [server EXCEPT ![project][p] = c]
  BY DEF RemoteWrite, Made
<1>3. Stored(p) \in Contents /\ Len(Stored(p)) \in Nat /\ Len(Stored(p)) <= writes + 1
  BY StoredFacts DEF MountInv
<1>4. c \in Contents \cup {Absent} /\ Len(c) <= writes' + 1
  <2>1. CASE c = <<writes'>>
    <3>1. <<writes'>> \in Seq(Byte) /\ Len(<<writes'>>) = 1
      BY <1>1 DEF Byte
    <3>2. 1 <= MaxWrites + 1 /\ 1 <= writes' + 1
      BY <1>1, BoundsAssumption
    <3> QED
      BY <2>1, <3>1, <3>2, ContentSeq
  <2>2. CASE c = Absent
    BY <1>1, <2>2, ContentFacts
  <2>3. CASE c = Append(Stored(p), writes')
    <3>1. Stored(p) \in Seq(Byte) /\ writes' \in Byte
      BY <1>1, <1>3, ContentSeq DEF Byte
    <3>2. c \in Seq(Byte) /\ Len(c) = Len(Stored(p)) + 1
      BY <2>3, <3>1, AppendProperties
    <3>3. Len(c) <= writes' + 1 /\ Len(c) <= MaxWrites + 1
      BY <1>1, <1>3, <3>2, BoundsAssumption
    <3> QED
      BY <3>2, <3>3, ContentSeq
  <2> QED
    BY <1>2, <2>1, <2>2, <2>3
<1>5. /\ server \in [Projects -> [Files -> Contents \cup {Absent}]] /\ project \in Projects
      /\ attr \in [Paths -> Attrs] /\ wal \in [Files -> Seq(Records)]
      /\ flush = None \/ flush \in Flushes
  BY DEF MountInv, Types
<1>6. UNCHANGED <<project, call, cache, local, wal, remounts>>
  BY DEF RemoteWrite, Made
<1>7. /\ server' \in [Projects -> [Files -> Contents \cup {Absent}]]
      /\ \A pr \in Projects, q \in Files :
           server'[pr][q] = IF pr = project /\ q = p THEN c ELSE server[pr][q]
  BY <1>2, <1>4, <1>5
<1>8. \A q \in Files : q # p => Stored(q)' = Stored(q)
  BY <1>5, <1>6, <1>7 DEF Stored
<1>9. /\ attr' \in [Paths -> Attrs] /\ (\A q \in Paths : q # p => attr'[q] = attr[q])
      /\ \A q \in Paths : attr'[q].kind = attr[q].kind
      /\ \A q \in Paths : attr[q].kind = "file" => attr'[q].size = attr[q].size
      /\ attr'[p].kind = "file" => ~attr'[p].sure
  <2>1. p \in Paths
    BY FilePath
  <2>2. CASE attr[p].kind = "file"
    <3> DEFINE a == [attr[p] EXCEPT !.sure = FALSE]
    <3>1. attr[p] \in FileAttrs
      BY <1>5, <2>1, <2>2, KindFacts
    <3>2. a \in FileAttrs /\ a.size = attr[p].size /\ ~a.sure
      BY <3>1, AttrChanged
    <3>3. attr' = [attr EXCEPT ![p] = a]
      BY <2>2 DEF RemoteWrite, Made
    <3> HIDE DEF a
    <3> QED
      BY <1>5, <2>1, <2>2, <3>2, <3>3, KindFacts
  <2>3. CASE attr[p].kind # "file"
    BY <1>5, <2>3 DEF RemoteWrite, Made
  <2> QED
    BY <2>2, <2>3
<1>10. /\ flush = None => flush' = None
       /\ flush # None => /\ flush' # None /\ flush' \in Flushes
                          /\ flush'.path = flush.path /\ flush'.take = flush.take
                          /\ flush'.base = flush.base
                          /\ flush'.path = p => flush'.overtaken
                          /\ flush'.path # p => flush'.overtaken = flush.overtaken
  <2>1. CASE flush # None /\ p = flush.path
    <3>1. flush \in Flushes /\ flush' = [flush EXCEPT !.overtaken = TRUE]
      BY <1>5, <2>1 DEF RemoteWrite, Made
    <3>2. /\ flush' \in Flushes /\ flush'.path = flush.path /\ flush'.take = flush.take
          /\ flush'.base = flush.base /\ flush'.overtaken
      BY <3>1 DEF Flushes
    <3>3. flush' # None
      BY <2>1, RemoteKeepsStage
    <3> QED
      BY <2>1, <3>2, <3>3
  <2>2. CASE ~(flush # None /\ p = flush.path)
    BY <1>5, <2>2 DEF RemoteWrite, Made
  <2> QED
    BY <2>1, <2>2
<1>11. Types'
  BY <1>1, <1>6, <1>7, <1>9, <1>10 DEF MountInv, Types
<1>12. Sizes'
  <2>1. ASSUME NEW pr \in Projects, NEW q \in Files PROVE Len(server'[pr][q]) <= writes' + 1
    <3>1. Len(server[pr][q]) <= writes + 1 /\ Len(server[pr][q]) \in Nat
      BY <1>5, ContentFacts DEF MountInv, Sizes
    <3> QED
      BY <1>1, <1>4, <1>7, <3>1
  <2>2. ASSUME NEW q \in Paths, attr'[q].kind = "file" PROVE attr'[q].size <= writes' + 1
    <3>1. attr'[q].size = attr[q].size /\ attr[q].size <= writes + 1 /\ attr[q].size \in Nat
      BY <1>5, <1>9, <2>2, KindFacts DEF MountInv, Sizes
    <3> QED
      BY <1>1, <3>1
  <2>3. ASSUME NEW q \in Files, NEW k \in DOMAIN wal[q] PROVE wal[q][k].off <= writes'
    <3>1. wal[q] \in Seq(Records) /\ wal[q][k].off <= writes
      BY <1>5 DEF MountInv, Sizes
    <3>2. wal[q][k].off \in Nat
      BY <3>1, RecsFacts
    <3> QED
      BY <1>1, <3>1, <3>2
  <2> QED
    BY <1>6, <2>1, <2>2, <2>3 DEF Sizes
<1>13. InHand'
  <2>1. CASE flush' = None
    BY <2>1 DEF InHand
  <2>2. CASE flush' # None
    <3>1. flush # None
      BY <1>10, <2>2
    <3>2. PICK f \in Files : f = flush.path
      BY <3>1, StageFacts
    <3>3. /\ flush.take \in 1 .. Len(wal[f]) /\ Len(flush.base) <= writes + 1
          /\ ~flush.overtaken => flush.base = Stored(f)
      BY <3>1, <3>2 DEF MountInv, InHand
    <3>4. Len(flush.base) \in Nat
      BY <3>1, StageFacts, ContentFacts
    <3>5. /\ flush'.path = f /\ flush'.take = flush.take /\ flush'.base = flush.base
          /\ ~flush'.overtaken => f # p /\ ~flush.overtaken
      BY <1>10, <3>1, <3>2
    <3>6. f # p => Stored(f)' = Stored(f)
      BY <1>8
    <3>7. /\ flush'.take \in 1 .. Len(wal'[f]) /\ Len(flush'.base) <= writes' + 1
          /\ ~flush'.overtaken => flush'.base = Stored(f)'
      BY <1>1, <1>6, <3>3, <3>4, <3>5, <3>6
    <3> QED
      BY <3>5, <3>7 DEF InHand, Stored
  <2> QED
    BY <2>1, <2>2
<1>14. SureOfBase'
  <2> SUFFICES ASSUME flush' # None, attr'[flush'.path].kind = "file", attr'[flush'.path].sure
               PROVE  ~flush'.overtaken
    BY DEF SureOfBase
  <2>1. flush # None /\ flush'.path = flush.path /\ flush.path # p
    BY <1>9, <1>10
  <2>2. flush.path \in Paths
    BY <2>1, StageFacts, FilePath
  <2>3. attr'[flush.path] = attr[flush.path]
    BY <1>9, <2>1, <2>2
  <2> QED
    BY <1>10, <2>1, <2>3 DEF MountInv, SureOfBase
<1>15. BuildKnown'
  <2>1. \A q \in Build : q \in Paths
    BY DEF Build
  <2> QED
    BY <1>6, <1>9, <2>1 DEF MountInv, BuildKnown
<1>16. SizeTrusted'
  <2> SUFFICES ASSUME NEW q \in Files, attr'[q].kind = "file", attr'[q].sure
               PROVE  attr'[q].size = Len(Lay(Stored(q)', wal[q]))
    BY <1>6 DEF SizeTrusted
  <2>1. q # p /\ q \in Paths
    BY <1>9, FilePath
  <2>2. attr'[q] = attr[q] /\ Stored(q)' = Stored(q)
    BY <1>8, <1>9, <2>1
  <2> QED
    BY <2>2 DEF MountInv, SizeTrusted
<1> QED
  BY <1>11, <1>12, <1>13, <1>14, <1>15, <1>16 DEF MountInv

\* The kernel that has just mounted knows no file.
LEMMA FreshKernel ==
  ASSUME NEW a, a = [p \in Paths |-> IF p = Root THEN [kind |-> "dir"] ELSE None]
  PROVE  a \in [Paths -> Attrs] /\ \A p \in Paths : a[p].kind # "file"
  BY KindFacts

LEMMA RemountStep ==
  ASSUME MountInv, NEW pr \in Projects, Remount(pr)
  PROVE  MountInv'
<1>1. attr' \in [Paths -> Attrs] /\ \A p \in Paths : attr'[p].kind # "file"
  BY FreshKernel DEF Remount
<1>2. Types'
  BY <1>1, BoundsAssumption DEF MountInv, Types, Remount
<1>3. Sizes'
  BY <1>1 DEF MountInv, Sizes, Remount
<1>4. InHand' /\ SureOfBase'
  BY DEF InHand, SureOfBase, Remount
<1>5. BuildKnown' /\ SizeTrusted'
  BY <1>1, FilePath DEF BuildKnown, SizeTrusted, Build
<1> QED
  BY <1>2, <1>3, <1>4, <1>5 DEF MountInv

-----------------------------------------------------------------------------
(* The theorems.                                                            *)

LEMMA MountInit == Init => MountInv
<1> SUFFICES ASSUME Init PROVE MountInv
  OBVIOUS
<1>1. attr \in [Paths -> Attrs] /\ \A p \in Paths : attr[p].kind # "file"
  BY FreshKernel DEF Init
<1>2. server \in [Projects -> [Files -> Contents \cup {Absent}]]
  BY ContentFacts DEF Init
<1>3. \A pr \in Projects, p \in Files : Len(server[pr][p]) = 1
  BY ContentFacts DEF Init
<1>4. wal \in [Files -> Seq(Records)] /\ \A p \in Files : DOMAIN wal[p] = {}
  <2>1. <<>> \in Seq(Records) /\ DOMAIN <<>> = {}
    BY EmptySeq
  <2> QED
    BY <2>1 DEF Init
<1>5. cache \in [Keys -> Entries]
  BY DEF Init, Entries
<1>6. Types
  BY <1>1, <1>2, <1>4, <1>5, BoundsAssumption DEF Types, Init
<1>7. Sizes
  <2>1. writes = 0 /\ 1 <= writes + 1
    BY DEF Init
  <2> QED
    BY <1>1, <1>3, <1>4, <2>1 DEF Sizes
<1>8. InHand /\ SureOfBase
  BY DEF InHand, SureOfBase, Init
<1>9. BuildKnown /\ SizeTrusted
  BY <1>1, FilePath DEF BuildKnown, SizeTrusted, Build
<1> QED
  BY <1>6, <1>7, <1>8, <1>9 DEF MountInv

LEMMA MountStep == MountInv /\ [Next]_vars => MountInv'
<1> SUFFICES ASSUME MountInv, [Next]_vars PROVE MountInv'
  OBVIOUS
<1>1. ASSUME NEW p \in Paths, Lookup(p) \/ Create(p) \/ GetAttr(p) PROVE MountInv'
  BY <1>1, LookupStep, CreateStep, GetAttrStep
<1>2. ASSUME NEW p \in BuildFiles, WriteBuild(p) PROVE MountInv'
  BY <1>2, WriteBuildStep
<1>3. CASE (\E p \in Files : ReadHit(p) \/ ReadFetch(p)) \/ ReadStore \/ Tick
  BY <1>3, ReadSteps
<1>4. ASSUME NEW p \in Files, NEW off \in 0 .. MaxWrites, Write(p, off) \/ WriteFails(p, off)
      PROVE  MountInv'
  BY <1>4, WriteSteps
<1>5. ASSUME NEW p \in Files, NEW n \in 1 .. MaxWrites, FlushBase(p, n) PROVE MountInv'
  BY <1>5, FlushBaseStep
<1>6. CASE FlushWrite \/ FlushAckLost
  BY <1>6, PatchStep DEF FlushWrite, FlushAckLost
<1>7. CASE FlushFails
  BY <1>7, FlushFailsStep
<1>8. ASSUME NEW p \in Files, RemoteWrite(p) PROVE MountInv'
  BY <1>8, RemoteStep
<1>9. ASSUME NEW pr \in Projects, Remount(pr) PROVE MountInv'
  BY <1>9, RemountStep
<1>10. CASE UNCHANGED vars
  <2>1. cache \in [Keys -> Entries] /\ (call = None \/ call \in [path : Files, data : Contents])
    BY DEF MountInv, Types
  <2> QED
    BY <1>10, <2>1, ReadStep DEF vars
<1> QED
  BY <1>1, <1>2, <1>3, <1>4, <1>5, <1>6, <1>7, <1>8, <1>9, <1>10 DEF Next

\* In every state of the mount the kernel, the worker, the log and the server agree
\* as MountInv says.
THEOREM MountInvariance == Spec => []MountInv
<1>1. Init => MountInv
  BY MountInit
<1>2. MountInv /\ [Next]_vars => MountInv'
  BY MountStep
<1> QED
  BY <1>1, <1>2, PTL DEF Spec

-----------------------------------------------------------------------------
(* Where the bytes come from.                                               *)

\* The records in the log are due to the project that is mounted; the worker's base
\* holds what is due to its file.
LogDue == \A p \in Files : \A k \in DOMAIN wal[p] : wal[p][k].id \in due[project][p]

BaseDue ==
  flush # None =>
    \A i \in DOMAIN flush.base : flush.base[i] \in {Hole} \cup due[project][flush.path]

DueInv ==
  /\ due \in [Projects -> [Files -> SUBSET Writes]]
  /\ LogDue /\ BaseDue /\ OnlyPendingCrosses

\* Every byte that Lay makes is one of the base, of a record, or nobody's.
LEMMA LayBytes ==
  ASSUME NEW base \in Contents, NEW recs \in Seq(Records), NEW S,
         \A i \in DOMAIN base : base[i] \in {Hole} \cup S,
         \A k \in DOMAIN recs : recs[k].id \in S
  PROVE  \A i \in DOMAIN Lay(base, recs) : Lay(base, recs)[i] \in {Hole} \cup S
<1> DEFINE end == Max(Ends(base, recs))
           Over(i) == {k \in DOMAIN recs : recs[k].off + 1 = i}
           At(i) == IF Over(i) # {} THEN recs[Max(Over(i))].id
                    ELSE IF i <= Len(base) THEN base[i] ELSE Hole
<1>1. Lay(base, recs) = [i \in 1 .. end |-> At(i)]
  BY DEF Lay, Ends
<1>2. end \in 0 .. MaxWrites + 1 /\ Len(base) \in Nat /\ DOMAIN base = 1 .. Len(base)
  BY EndsMax, ContentFacts
<1>3. ASSUME NEW i \in 1 .. end PROVE At(i) \in {Hole} \cup S
  <2>1. CASE Over(i) # {}
    <3>1. Len(recs) \in Nat /\ DOMAIN recs = 1 .. Len(recs)
      BY LenProperties
    <3>2. Over(i) \in SUBSET (0 .. Len(recs))
      BY <3>1
    <3>3. Max(Over(i)) \in Over(i)
      <4> HIDE DEF Over
      <4> QED
        BY <2>1, <3>1, <3>2, MaxOf
    <3> QED
      BY <2>1, <3>3
  <2>2. CASE Over(i) = {}
    <3>1. i <= Len(base) => i \in DOMAIN base
      BY <1>2
    <3> QED
      BY <2>2, <3>1
  <2> QED
    BY <2>1, <2>2
<1> HIDE DEF At, end
<1> QED
  BY <1>1, <1>3

\* What a file holds is due to it, and is due where there is no file.
LEMMA StoredDue ==
  ASSUME MountInv, OnlyPendingCrosses, NEW p \in Files
  PROVE  \A i \in DOMAIN Stored(p) : Stored(p)[i] \in {Hole} \cup due[project][p]
<1>1. project \in Projects /\ DOMAIN <<>> = {}
  BY EmptySeq DEF MountInv, Types
<1> QED
  BY <1>1 DEF OnlyPendingCrosses, Stored

\* Steps that change neither a file nor what is due, and add nothing to the log.
LEMMA DueKept ==
  ASSUME MountInv, DueInv, UNCHANGED <<server, due, project, wal>>,
         flush' \in {None, flush}
  PROVE  DueInv'
<1>1. OnlyPendingCrosses' /\ LogDue'
  BY DEF DueInv, OnlyPendingCrosses, LogDue
<1>2. BaseDue'
  BY DEF DueInv, BaseDue
<1> QED
  BY <1>1, <1>2 DEF DueInv

\* A write call is due to the file it is made to.
LEMMA MadeFacts ==
  ASSUME MountInv, DueInv, NEW p \in Files, Made(p)
  PROVE  /\ due' \in [Projects -> [Files -> SUBSET Writes]]
         /\ writes' \in due'[project][p]
         /\ \A pr \in Projects, q \in Files : due[pr][q] \subseteq due'[pr][q]
<1>1. project \in Projects /\ due \in [Projects -> [Files -> SUBSET Writes]]
  BY DEF MountInv, Types, DueInv
<1>2. writes' \in Writes
  BY BoundsAssumption DEF MountInv, Types, Made, Writes
<1>3. /\ due' \in [Projects -> [Files -> SUBSET Writes]]
      /\ \A pr \in Projects, q \in Files :
           due'[pr][q] = IF pr = project /\ q = p THEN due[pr][q] \cup {writes'} ELSE due[pr][q]
  BY <1>1, <1>2 DEF Made
<1> QED
  BY <1>1, <1>3

LEMMA LogKeepsDue ==
  ASSUME MountInv, DueInv, NEW p \in Files, NEW off \in 0 .. MaxWrites, Log(p, off),
         UNCHANGED <<server, project, flush>>
  PROVE  DueInv'
<1> DEFINE r == [off |-> off, id |-> writes']
<1>1. /\ due' \in [Projects -> [Files -> SUBSET Writes]] /\ r.id \in due'[project][p]
      /\ \A pr \in Projects, q \in Files : due[pr][q] \subseteq due'[pr][q]
  BY MadeFacts DEF Log
<1>2. r \in Records /\ project \in Projects /\ wal \in [Files -> Seq(Records)]
  <2>1. writes' \in Writes
    BY BoundsAssumption DEF MountInv, Types, Log, Made, Writes
  <2> QED
    BY <2>1 DEF MountInv, Types, Records
<1>3. wal' = [wal EXCEPT ![p] = Append(wal[p], r)]
  BY <1>2 DEF Log
<1> HIDE DEF r
<1>4. LogDue'
  <2> SUFFICES ASSUME NEW q \in Files, NEW k \in DOMAIN wal'[q]
               PROVE  wal'[q][k].id \in due'[project][q]
    BY DEF Log, LogDue
  <2>1. \A n \in DOMAIN wal[q] : wal[q][n].id \in due'[project][q]
    BY <1>1, <1>2 DEF DueInv, LogDue
  <2>2. CASE q # p
    BY <1>2, <1>3, <2>1, <2>2
  <2>3. CASE q = p
    <3>1. wal'[q] = Append(wal[q], r) /\ wal[q] \in Seq(Records)
      BY <1>2, <1>3, <2>3
    <3>2. /\ Len(wal'[q]) = Len(wal[q]) + 1 /\ wal'[q] \in Seq(Records)
          /\ \A n \in 1 .. Len(wal[q]) : wal'[q][n] = wal[q][n]
          /\ wal'[q][Len(wal[q]) + 1] = r
      BY <1>2, <3>1, AppendProperties
    <3>3. /\ DOMAIN wal'[q] = 1 .. Len(wal'[q]) /\ DOMAIN wal[q] = 1 .. Len(wal[q])
          /\ Len(wal[q]) \in Nat
      BY <3>1, <3>2, LenProperties
    <3>4. k \in 1 .. Len(wal[q]) \/ k = Len(wal[q]) + 1
      BY <3>2, <3>3
    <3> QED
      BY <1>1, <2>1, <2>3, <3>2, <3>3, <3>4
  <2> QED
    BY <2>2, <2>3
<1>5. BaseDue'
  <2>1. flush # None => flush.path \in Files
    BY StageFacts
  <2> QED
    BY <1>1, <1>2, <2>1 DEF DueInv, BaseDue
<1>6. OnlyPendingCrosses'
  BY <1>1 DEF DueInv, OnlyPendingCrosses
<1> QED
  BY <1>1, <1>4, <1>5, <1>6 DEF DueInv

LEMMA PatchKeepsDue ==
  ASSUME MountInv, DueInv, NEW answered \in BOOLEAN, Patch(answered)
  PROVE  DueInv'
<1>1. flush # None /\ flush' = None /\ UNCHANGED <<due, project>>
  BY DEF Patch
<1>2. PICK f \in Files : f = flush.path
  BY <1>1, StageFacts
<1>3. /\ server \in [Projects -> [Files -> Contents \cup {Absent}]] /\ project \in Projects
      /\ wal \in [Files -> Seq(Records)]
  BY DEF MountInv, Types
<1>4. \A i \in DOMAIN Patched : Patched[i] \in {Hole} \cup due[project][f]
  <2>1. flush.base \in Contents /\ Taken \in Seq(Records)
    BY <1>1, StageFacts
  <2>2. \A k \in DOMAIN Taken : Taken[k].id \in due[project][f]
    BY <1>1, <1>2, StageFacts DEF DueInv, LogDue
  <2>3. \A i \in DOMAIN flush.base : flush.base[i] \in {Hole} \cup due[project][f]
    BY <1>1, <1>2 DEF DueInv, BaseDue
  <2> QED
    BY <2>1, <2>2, <2>3, LayBytes DEF Patched
<1>5. \A pr \in Projects, q \in Files :
        server'[pr][q] = IF pr = project /\ q = f THEN Patched ELSE server[pr][q]
  BY <1>2, <1>3 DEF Patch
<1>6. OnlyPendingCrosses'
  <2> SUFFICES ASSUME NEW pr \in Projects, NEW q \in Files, server'[pr][q] # Absent,
                      NEW i \in DOMAIN server'[pr][q]
               PROVE  server'[pr][q][i] \in {Hole} \cup due[pr][q]
    BY <1>1 DEF OnlyPendingCrosses
  <2>1. CASE pr = project /\ q = f
    BY <1>4, <1>5, <2>1
  <2>2. CASE ~(pr = project /\ q = f)
    <3>1. server'[pr][q] = server[pr][q]
      BY <1>5, <2>2
    <3> QED
      BY <3>1 DEF DueInv, OnlyPendingCrosses
  <2> QED
    BY <2>1, <2>2
<1>7. LogDue'
  <2>1. PICK rest : rest = SubSeq(wal[f], flush.take + 1, Len(wal[f]))
    OBVIOUS
  <2>2. \A k \in DOMAIN rest : \E n \in DOMAIN wal[f] : rest[k] = wal[f][n]
    BY <1>1, <1>2, <2>1, PatchedFacts
  <2>3. wal' = [wal EXCEPT ![f] = rest] \/ wal' = wal
    BY <1>2, <1>3, <2>1 DEF Patch
  <2>4. ASSUME NEW q \in Files PROVE wal'[q] = wal[q] \/ (q = f /\ wal'[q] = rest)
    BY <1>3, <2>3
  <2>5. \A q \in Files : \A k \in DOMAIN wal[q] : wal[q][k].id \in due[project][q]
    BY DEF DueInv, LogDue
  <2>6. \A q \in Files : \A k \in DOMAIN wal'[q] : wal'[q][k].id \in due[project][q]
    BY <2>2, <2>4, <2>5
  <2> QED
    BY <1>1, <2>6 DEF LogDue
<1>8. BaseDue'
  BY <1>1 DEF BaseDue
<1> QED
  BY <1>1, <1>6, <1>7, <1>8 DEF DueInv

LEMMA RemoteKeepsDue ==
  ASSUME MountInv, DueInv, NEW p \in Files, RemoteWrite(p)
  PROVE  DueInv'
<1>1. /\ due' \in [Projects -> [Files -> SUBSET Writes]] /\ writes' \in due'[project][p]
      /\ \A pr \in Projects, q \in Files : due[pr][q] \subseteq due'[pr][q]
  BY MadeFacts DEF RemoteWrite
<1>2. /\ server \in [Projects -> [Files -> Contents \cup {Absent}]] /\ project \in Projects
      /\ UNCHANGED <<project, wal>> /\ (flush = None \/ flush \in Flushes)
  BY DEF RemoteWrite, MountInv, Types
<1>3. PICK c \in {<<writes'>>, Absent, Append(Stored(p), writes')} :
        server' = [server EXCEPT ![project][p] = c]
  BY DEF RemoteWrite
<1>4. c # Absent => \A i \in DOMAIN c : c[i] \in {Hole} \cup due'[project][p]
  <2>1. CASE c = <<writes'>>
    <3>1. DOMAIN c = {1} /\ c[1] = writes'
      BY <2>1
    <3> QED
      BY <1>1, <3>1
  <2>2. CASE c = Append(Stored(p), writes')
    <3>1. Stored(p) \in Seq(Byte)
      BY StoredFacts, ContentSeq DEF MountInv
    <3>2. writes' \in Byte
      BY BoundsAssumption DEF MountInv, Types, RemoteWrite, Made, Byte, Writes
    <3>3. /\ c \in Seq(Byte) /\ Len(c) = Len(Stored(p)) + 1
          /\ \A n \in 1 .. Len(Stored(p)) : c[n] = Stored(p)[n]
          /\ c[Len(Stored(p)) + 1] = writes'
      BY <2>2, <3>1, <3>2, AppendProperties
    <3>4. /\ DOMAIN c = 1 .. Len(c) /\ DOMAIN Stored(p) = 1 .. Len(Stored(p))
          /\ Len(Stored(p)) \in Nat
      BY <3>1, <3>3, LenProperties
    <3>5. \A i \in DOMAIN Stored(p) : Stored(p)[i] \in {Hole} \cup due'[project][p]
      BY <1>1, <1>2, StoredDue DEF DueInv
    <3>6. ASSUME NEW i \in DOMAIN c PROVE c[i] \in {Hole} \cup due'[project][p]
      <4>1. i \in 1 .. Len(Stored(p)) \/ i = Len(Stored(p)) + 1
        BY <3>3, <3>4
      <4> QED
        BY <1>1, <3>3, <3>4, <3>5, <4>1
    <3> QED
      BY <3>6
  <2> QED
    BY <2>1, <2>2
<1>5. \A pr \in Projects, q \in Files :
        server'[pr][q] = IF pr = project /\ q = p THEN c ELSE server[pr][q]
  BY <1>2, <1>3
<1>6. OnlyPendingCrosses'
  <2> SUFFICES ASSUME NEW pr \in Projects, NEW q \in Files, server'[pr][q] # Absent,
                      NEW i \in DOMAIN server'[pr][q]
               PROVE  server'[pr][q][i] \in {Hole} \cup due'[pr][q]
    BY DEF OnlyPendingCrosses
  <2>1. CASE pr = project /\ q = p
    BY <1>4, <1>5, <2>1
  <2>2. CASE ~(pr = project /\ q = p)
    <3>1. server'[pr][q] = server[pr][q]
      BY <1>5, <2>2
    <3>2. server[pr][q][i] \in {Hole} \cup due[pr][q]
      BY <3>1 DEF DueInv, OnlyPendingCrosses
    <3> QED
      BY <1>1, <3>1, <3>2
  <2> QED
    BY <2>1, <2>2
<1>7. LogDue'
  BY <1>1, <1>2 DEF DueInv, LogDue
<1>8. BaseDue'
  <2> SUFFICES ASSUME flush' # None
               PROVE  \A i \in DOMAIN flush'.base :
                        flush'.base[i] \in {Hole} \cup due'[project][flush'.path]
    BY <1>2 DEF BaseDue
  <2>1. flush # None
    BY DEF RemoteWrite
  <2>2. flush \in Flushes /\ flush.path \in Files
    BY <1>2, <2>1, StageFacts
  <2>3. flush'.path = flush.path /\ flush'.base = flush.base
    BY <2>2 DEF RemoteWrite, Flushes
  <2> QED
    BY <1>1, <1>2, <2>1, <2>2, <2>3 DEF DueInv, BaseDue
<1> QED
  BY <1>1, <1>6, <1>7, <1>8 DEF DueInv

LEMMA RemountKeepsDue ==
  ASSUME MountInv, DueInv, NEW pr \in Projects, Remount(pr)
  PROVE  DueInv'
<1> DEFINE Ids(p) == {wal[p][k].id : k \in DOMAIN wal[p]}
<1>1. project' = pr /\ flush' = None /\ UNCHANGED <<server, wal>>
  BY DEF Remount
<1>2. due \in [Projects -> [Files -> SUBSET Writes]]
  BY DEF DueInv
<1>3. \A p \in Files : Ids(p) \subseteq Writes
  <2>1. \A p \in Files : \A k \in DOMAIN wal[p] : wal[p][k] \in Records
    BY RecsFacts DEF MountInv, Types
  <2> QED
    BY <2>1 DEF Records
<1>4. due' = [due EXCEPT ![pr] = [p \in Files |-> due[pr][p] \cup Ids(p)]]
  BY <1>2 DEF Remount
<1>5. \A p \in Files : \A k \in DOMAIN wal[p] : wal[p][k].id \in Ids(p)
  OBVIOUS
<1> HIDE DEF Ids
<1>6. /\ due' \in [Projects -> [Files -> SUBSET Writes]]
      /\ \A other \in Projects, p \in Files : due[other][p] \subseteq due'[other][p]
      /\ \A p \in Files : Ids(p) \subseteq due'[pr][p]
  BY <1>2, <1>3, <1>4
<1>7. LogDue'
  BY <1>1, <1>5, <1>6 DEF LogDue
<1>8. OnlyPendingCrosses'
  BY <1>1, <1>6 DEF DueInv, OnlyPendingCrosses
<1>9. BaseDue'
  BY <1>1 DEF BaseDue
<1> QED
  BY <1>6, <1>7, <1>8, <1>9 DEF DueInv

LEMMA DueInit == Init => DueInv
<1> SUFFICES ASSUME Init PROVE DueInv
  OBVIOUS
<1>1. due \in [Projects -> [Files -> SUBSET Writes]]
  BY DEF Init
<1>2. LogDue /\ BaseDue
  <2>1. DOMAIN <<>> = {}
    BY EmptySeq
  <2> QED
    BY <2>1 DEF LogDue, BaseDue, Init
<1>3. OnlyPendingCrosses
  <2>1. DOMAIN <<Hole>> = {1} /\ <<Hole>>[1] = Hole
    OBVIOUS
  <2> QED
    BY <2>1 DEF OnlyPendingCrosses, Init
<1> QED
  BY <1>1, <1>2, <1>3 DEF DueInv

LEMMA DueStep == MountInv /\ DueInv /\ [Next]_vars => DueInv'
<1> SUFFICES ASSUME MountInv, DueInv, [Next]_vars PROVE DueInv'
  OBVIOUS
<1>1. ASSUME NEW p \in Paths, Lookup(p) \/ Create(p) \/ GetAttr(p) PROVE DueInv'
  BY <1>1, DueKept DEF Lookup, Create, GetAttr
<1>2. ASSUME NEW p \in BuildFiles, WriteBuild(p) PROVE DueInv'
  BY <1>2, DueKept DEF WriteBuild
<1>3. CASE (\E p \in Files : ReadHit(p) \/ ReadFetch(p)) \/ ReadStore \/ Tick
  BY <1>3, DueKept DEF ReadHit, ReadFetch, ReadStore, Tick, vars
<1>4. ASSUME NEW p \in Files, NEW off \in 0 .. MaxWrites, Write(p, off) \/ WriteFails(p, off)
      PROVE  DueInv'
  BY <1>4, LogKeepsDue DEF Write, WriteFails
<1>5. ASSUME NEW p \in Files, NEW n \in 1 .. MaxWrites, FlushBase(p, n) PROVE DueInv'
  <2>1. /\ UNCHANGED <<server, due, project, wal>>
        /\ flush'.base = Stored(p) /\ flush'.path = p
    BY <1>5 DEF FlushBase
  <2>2. OnlyPendingCrosses' /\ LogDue'
    BY <2>1 DEF DueInv, OnlyPendingCrosses, LogDue
  <2>3. BaseDue'
    BY <2>1, StoredDue DEF DueInv, BaseDue
  <2> QED
    BY <2>1, <2>2, <2>3 DEF DueInv
<1>6. CASE FlushWrite \/ FlushAckLost
  BY <1>6, PatchKeepsDue DEF FlushWrite, FlushAckLost
<1>7. CASE FlushFails
  BY <1>7, DueKept DEF FlushFails
<1>8. ASSUME NEW p \in Files, RemoteWrite(p) PROVE DueInv'
  BY <1>8, RemoteKeepsDue
<1>9. ASSUME NEW pr \in Projects, Remount(pr) PROVE DueInv'
  BY <1>9, RemountKeepsDue
<1>10. CASE UNCHANGED vars
  BY <1>10, DueKept DEF vars
<1> QED
  BY <1>1, <1>2, <1>3, <1>4, <1>5, <1>6, <1>7, <1>8, <1>9, <1>10 DEF Next

LEMMA DueInvariance == Spec => []DueInv
<1>1. Init => DueInv
  BY DueInit
<1>2. MountInv /\ DueInv /\ [Next]_vars => DueInv'
  BY DueStep
<1> QED
  BY <1>1, <1>2, MountInvariance, PTL DEF Spec

-----------------------------------------------------------------------------
(* What the invariants say of the mount.                                    *)

\* The size at which the kernel appends is that of the server's content with the
\* pending records over it, through every flush, lost acknowledgement and remount,
\* unless one of the four reasons that SizeTrusted names came between.
THEOREM SizesTrusted == Spec => []SizeTrusted
<1>1. MountInv => SizeTrusted
  BY DEF MountInv
<1> QED
  BY <1>1, MountInvariance, PTL

\* A flush step changes no byte that no record of the log is for, and shortens no
\* file, unless another client changed the file since the base was read
\* (start_wal_flush_worker: read the base, lay the records over it, write it back).
THEOREM FlushesKeepOthers == Spec => FlushKeepsOthers
<1> DEFINE Kept(p) ==
      flush # None /\ flush.path = p /\ project' = project
      /\ server'[project][p] # server[project][p] /\ flush' = None
      /\ ~flush.overtaken
        => /\ server'[project][p] # Absent
           /\ Len(server'[project][p]) >= Len(Stored(p))
           /\ \A i \in 1 .. Len(Stored(p)) :
                \/ server'[project][p][i] = Stored(p)[i]
                \/ \E k \in DOMAIN wal[p] : wal[p][k].off + 1 = i
<1>1. MountInv /\ [Next]_vars => [\A p \in Files : Kept(p)]_vars
  <2> SUFFICES ASSUME MountInv, Next, NEW p \in Files,
                      flush # None, flush.path = p, project' = project,
                      server'[project][p] # server[project][p], flush' = None,
                      ~flush.overtaken
               PROVE  /\ server'[project][p] # Absent
                      /\ Len(server'[project][p]) >= Len(Stored(p))
                      /\ \A i \in 1 .. Len(Stored(p)) :
                           \/ server'[project][p][i] = Stored(p)[i]
                           \/ \E k \in DOMAIN wal[p] : wal[p][k].off + 1 = i
    OBVIOUS
  <2>1. FlushWrite \/ FlushAckLost
    <3>1. ASSUME NEW q \in Files, RemoteWrite(q) PROVE FALSE
      BY <3>1, RemoteKeepsStage
    <3> QED
      BY <3>1 DEF Next, Lookup, Create, GetAttr, WriteBuild, ReadHit, ReadFetch, ReadStore,
                  Write, WriteFails, FlushBase, FlushFails, Tick, Remount, vars
  <2>2. server' = [server EXCEPT ![project][p] = Patched]
    BY <2>1 DEF FlushWrite, FlushAckLost, Patch
  <2>3. server'[project][p] = Patched
    BY <2>2 DEF MountInv, Types
  <2>4. /\ flush.base \in Contents /\ Taken \in Seq(Records)
        /\ \A k \in DOMAIN Taken : k \in DOMAIN wal[p] /\ Taken[k] = wal[p][k]
    BY StageFacts
  <2>5. flush.base = Stored(p)
    BY DEF MountInv, InHand
  <2>6. /\ Patched \in Contents /\ Len(Patched) = Max(Ends(flush.base, Taken))
        /\ \A i \in 1 .. Len(flush.base) :
             Patched[i] = flush.base[i] \/ \E k \in DOMAIN Taken : Taken[k].off + 1 = i
    BY <2>4, LayFacts DEF Patched
  <2>7. Len(Patched) >= Len(flush.base)
    BY <2>4, <2>6, EndsMax, ContentFacts, ZenonT(60) DEF Ends
  <2> QED
    BY <2>3, <2>4, <2>5, <2>6, <2>7, ContentFacts
<1> QED
  BY <1>1, MountInvariance, PTL DEF Spec, FlushKeepsOthers

\* Every variable keeps its type; no size, place or content is beyond what the
\* writes so far can have made (FuseFilesystem's attributes and the log).
THEOREM TypeCorrect == Spec => []TypeOK
<1>1. MountInv /\ DueInv => TypeOK
  <2> SUFFICES ASSUME MountInv, DueInv PROVE TypeOK
    OBVIOUS
  <2>1. \A k \in Keys : cache[k] = None \/ cache[k] \in [data : Contents \ {<<>>}, age : 0 .. CacheTTL]
    BY DEF MountInv, Types, Entries
  <2> QED
    BY <2>1 DEF MountInv, Types, TypeOK, Flushes, DueInv
<1> QED
  BY <1>1, MountInvariance, DueInvariance, PTL

\* Nothing gets from one project's files into another's but by the log: through any
\* reads, flushes, lost acknowledgements and remounts, a byte of a file was written
\* to that name while its project was mounted, or by a record that was waiting when
\* it was (cmd_mount, start_wal_flush_worker).
THEOREM PendingOnlyCrosses == Spec => []OnlyPendingCrosses
<1>1. DueInv => OnlyPendingCrosses
  BY DEF DueInv
<1> QED
  BY <1>1, DueInvariance, PTL
===============================================================================
