----------------------------- MODULE Project_proofs -----------------------------
(***************************************************************************)
(* Proofs, for any files, clients and admins, that the embeddings follow   *)
(* the writes, that a visible archive is faithful to the project and that  *)
(* a restore brings back what was archived.  ProjectInv is the inductive   *)
(* invariant: what every request and every job in progress has seen and    *)
(* done so far, whatever the others did meanwhile.                         *)
(***************************************************************************)
EXTENDS Project, FiniteSetTheorems, TLAPS

Job == {IdleJob} \cup Backup \cup Restore

\* Only one client holds the mutex of the embeddings.
OneHolder == \A c, d \in Clients : req[c].pc = "save" /\ req[d].pc = "save" => c = d

Types ==
  /\ index \in [Files -> Content]
  /\ left \in [Kinds -> Nat] /\ Unwritten(left) <= MaxWrites
  /\ vector \in [Paths -> Content] /\ saved \in [Paths -> Content]
  /\ torn \in BOOLEAN /\ up \in BOOLEAN /\ unsaved \in BOOLEAN
  /\ req \in [Clients -> Request]
  /\ job \in [Admins -> Job]
  /\ archives \in Seq([project : Projects, data : [Paths -> Content]])
  /\ unpacked \in [Projects -> [Paths -> Content]]
  /\ crashes \in 0 .. MaxCrashes
  /\ source \in [Paths -> Files \cup {NoFile}]

Settled(p) == \A c \in Clients : req[c].pc = "set" => PathOf(req[c].file) # p

\* Where the code promises an embedding: the path is that of the file, whoever
\* still has to set it has the file's content, and otherwise it is set.
SourceOf(p) ==
  source[p] # NoFile =>
    /\ PathOf(source[p]) = p
    /\ \A c \in Clients : req[c].pc = "set" /\ PathOf(req[c].file) = p
                            => req[c].content = index[source[p]]
    /\ up /\ Settled(p) => vector[p] = index[source[p]]

\* embeddings.json has what the index has, unless it is being saved or was not.
SavedInv ==
  /\ Locked => ~torn
  /\ up /\ ~Locked /\ ~unsaved => saved = vector /\ ~torn

EmbedInv == OneHolder /\ (\A p \in Paths : SourceOf(p)) /\ SavedInv

\* Only files of the project are in its archives and in its restore directory.
InFiles(pr, data) == \A p \in Paths : data[p] # Absent => <<pr, p>> \in Files

ArchivesInv ==
  /\ \A n \in DOMAIN archives : InFiles(archives[n].project, archives[n].data)
  /\ \A pr \in Projects : InFiles(pr, unpacked[pr])

\* What a backup has taken: the files it has done of those it listed, each with
\* a content that it has seen, as it has seen the present one.
BackupOf(j) ==
  /\ j.todo \subseteq j.listed
  /\ \A p \in Paths : j.data[p] # Absent <=> p \in j.listed \ j.todo
  /\ \A p \in j.listed : <<j.project, p>> \in Files
  /\ \A p \in Paths : Now(j.project, p) \in j.seen[p]
  /\ \A p \in j.listed \ j.todo :
       \/ j.data[p] \in j.seen[p]
       \/ j.data[p] = Empty /\ Absent \in j.seen[p]

\* What a restore has done, if no other restore ran into it.
UnpackOf(j) ==
  /\ \A p \in Paths : unpacked[j.project][p] =
       IF p \in j.todo THEN Absent ELSE j.data[p]
  /\ \A p \in Paths \ j.touched : Now(j.project, p) = j.before[p]

WalkOf(j) ==
  /\ \A p \in Paths : unpacked[j.project][p] = j.data[p]
  /\ \A p \in Paths \ j.touched :
       Now(j.project, p) = IF j.data[p] = Absent \/ p \in j.todo THEN j.before[p]
                                                                 ELSE j.data[p]

AloneIn(a, pr) == \A d \in Admins \ {a} : ~Restoring(d, pr)

RestoreOf(a, j) ==
  /\ InFiles(j.project, j.data)
  /\ j.alone =>
       /\ AloneIn(a, j.project)
       /\ j.todo \subseteq Entries(j.data)
       /\ j.pc = "unpack" => UnpackOf(j)
       /\ j.pc = "walk" => WalkOf(j)

JobInv(a) ==
  /\ job[a].pc = "backup" => BackupOf(job[a])
  /\ job[a].pc \in {"unpack", "walk"} => RestoreOf(a, job[a])

JobsInv == ArchivesInv /\ \A a \in Admins : JobInv(a)

ProjectInv == Types /\ EmbedInv /\ JobsInv

-----------------------------------------------------------------------------
(* Files, contents, and the kinds of a request and of a job.                *)

LEMMA BoundFacts ==
  /\ MaxWrites \in Nat /\ Absent \in Content /\ Empty \in Content /\ Empty # Absent
  /\ \A b \in Budgets : b \in [Kinds -> Nat] /\ Unwritten(b) <= MaxWrites
<1> DEFINE S == {Unwritten(b) : b \in Budgets}
<1>1. \A b \in Budgets : b \in [Kinds -> Nat] /\ Unwritten(b) \in Nat
  BY BoundsAssumption DEF Unwritten, Kinds
<1>2. \E m \in S : \A x \in S : m >= x
  BY <1>1, MostWrites
<1>3. Max(S) \in S /\ \A x \in S : Max(S) >= x
  BY <1>2 DEF Max
<1>4. MaxWrites \in Nat /\ \A b \in Budgets : Unwritten(b) <= MaxWrites
  BY <1>1, <1>3 DEF MaxWrites
<1> QED
  BY <1>1, <1>4 DEF Absent, Empty, Content

LEMMA FileFacts ==
  ASSUME NEW f \in Files
  PROVE  ProjectOf(f) \in Projects /\ PathOf(f) \in Paths /\ f = <<ProjectOf(f), PathOf(f)>>
BY FilesAssumption DEF ProjectOf, PathOf, Projects, Paths

LEMMA RequestKinds ==
  ASSUME NEW r \in Request
  PROVE  /\ r = IdleReq <=> r.pc = "idle"
         /\ r # IdleReq => r.file \in Files /\ r.content \in Writes /\ r.content \in Content
         /\ r.pc \in {"idle", "ingest", "set", "save"}
BY DEF Request, IdleReq, Content

LEMMA JobKinds ==
  ASSUME NEW j \in Job
  PROVE  /\ j = IdleJob <=> j.pc = "idle"
         /\ j \in Backup <=> j.pc = "backup"
         /\ j \in Restore <=> j.pc \in {"unpack", "walk"}
         /\ j.pc \in {"idle", "backup", "unpack", "walk"}
BY DEF Job, IdleJob, Backup, Restore

\* What a write does to the file of a path.
LEMMA NowWritten ==
  ASSUME index \in [Files -> Content], NEW f \in Files, NEW c \in Content,
         index' = [index EXCEPT ![f] = c], NEW pr, NEW p
  PROVE  Now(pr, p)' = IF pr = ProjectOf(f) /\ p = PathOf(f) THEN c ELSE Now(pr, p)
<1>1. f = <<ProjectOf(f), PathOf(f)>>
  BY FileFacts
<1>2. CASE pr = ProjectOf(f) /\ p = PathOf(f)
  BY <1>1, <1>2 DEF Now
<1>3. CASE ~(pr = ProjectOf(f) /\ p = PathOf(f))
  <2>1. <<pr, p>> # f
    BY <1>1, <1>3
  <2>2. <<pr, p>> \in Files => index'[<<pr, p>>] = index[<<pr, p>>]
    BY <2>1
  <2> QED
    BY <1>3, <2>2 DEF Now
<1> QED
  BY <1>2, <1>3

LEMMA NowContent ==
  ASSUME index \in [Files -> Content], NEW pr, NEW p
  PROVE  /\ Now(pr, p) \in Content
         /\ Now(pr, p) # Absent => <<pr, p>> \in Files
BY BoundFacts DEF Now

\* The invariant says all that TypeOK says.
LEMMA TypesHold ==
  ASSUME Types, OneHolder PROVE TypeOK
<1> DEFINE S == {c \in Clients : req[c].pc = "save"}
<1>1. Cardinality(S) <= 1
  <2>1. CASE S = {}
    BY <2>1, FS_EmptySet
  <2>2. CASE S # {}
    <3>1. PICK c \in Clients : req[c].pc = "save"
      BY <2>2
    <3>2. S = {c}
      BY <3>1 DEF OneHolder
    <3>3. Cardinality({c}) = 1
      BY FS_Singleton
    <3> HIDE DEF S
    <3> QED
      BY <3>2, <3>3
  <2> QED
    BY <2>1, <2>2
<1>2. \A a \in Admins : job[a] = IdleJob \/ job[a] \in Backup \/ job[a] \in Restore
  BY DEF Types, Job
<1> QED
  BY <1>1, <1>2 DEF Types, TypeOK

-----------------------------------------------------------------------------
(* The embeddings.                                                          *)

\* Steps that leave the embeddings, the requests and the files alone.
LEMMA EmbedFrame ==
  ASSUME EmbedInv, UNCHANGED <<index, embeddings, up, req, source, unsaved>>
  PROVE  EmbedInv'
<1>1. UNCHANGED <<index, vector, saved, torn, up, req, source, unsaved>>
  BY DEF embeddings
<1>2. OneHolder' /\ Locked' = Locked /\ \A p : Settled(p)' = Settled(p)
  BY <1>1 DEF EmbedInv, OneHolder, Locked, Settled
<1>3. SavedInv'
  BY <1>1, <1>2 DEF EmbedInv, SavedInv
<1>4. ASSUME NEW p \in Paths PROVE SourceOf(p)'
  BY <1>1, <1>2 DEF EmbedInv, SourceOf
<1> QED
  BY <1>2, <1>3, <1>4 DEF EmbedInv

\* Whatever a PUT, a DELETE or a restore does to a file, no embedding is promised.
LEMMA EmbedChange ==
  ASSUME Types, EmbedInv, NEW f \in Files, NEW c \in Content,
         index' = [index EXCEPT ![f] = c],
         source' = [source EXCEPT ![PathOf(f)] = NoFile],
         UNCHANGED <<embeddings, up, req, unsaved>>
  PROVE  EmbedInv'
<1>1. UNCHANGED <<vector, saved, torn, up, req, unsaved>>
  BY DEF embeddings
<1>2. OneHolder' /\ Locked' = Locked /\ \A p : Settled(p)' = Settled(p)
  BY <1>1 DEF EmbedInv, OneHolder, Locked, Settled
<1>3. SavedInv'
  BY <1>1, <1>2 DEF EmbedInv, SavedInv
<1>4. ASSUME NEW p \in Paths PROVE SourceOf(p)'
  <2> SUFFICES ASSUME source'[p] # NoFile PROVE SourceOf(p)'
    BY DEF SourceOf
  <2>1. p # PathOf(f) /\ source'[p] = source[p]
    BY DEF Types
  <2>2. PathOf(source[p]) = p
    BY <2>1 DEF EmbedInv, SourceOf
  <2>3. index'[source[p]] = index[source[p]]
    BY <2>1, <2>2 DEF Types
  <2> QED
    BY <1>1, <1>2, <2>1, <2>3 DEF EmbedInv, SourceOf
<1> QED
  BY <1>2, <1>3, <1>4 DEF EmbedInv

\* A request that changes its step: the others stay where they are.
LEMMA ReqStep ==
  ASSUME Types, NEW c \in Clients, NEW r, Become(c, r)
  PROVE  /\ req'[c] = r
         /\ \A d \in Clients \ {c} : req'[d] = req[d]
         /\ r \in Request => req' \in [Clients -> Request]
BY DEF Types, Become

LEMMA EmbedBegin ==
  ASSUME Types, EmbedInv, NEW c \in Clients, NEW r, r.pc \in {"idle", "ingest"},
         req[c].pc \in {"idle", "ingest"}, Become(c, r),
         UNCHANGED <<index, embeddings, up, source, unsaved>>
  PROVE  EmbedInv'
<1>1. UNCHANGED <<index, vector, saved, torn, up, source, unsaved>>
  BY DEF embeddings
<1>2. req'[c] = r /\ \A d \in Clients \ {c} : req'[d] = req[d]
  BY ReqStep
<1>3. OneHolder'
  BY <1>2 DEF EmbedInv, OneHolder
<1>4. Locked' = Locked /\ \A p : Settled(p)' = Settled(p)
  BY <1>2 DEF Locked, Settled
<1>5. SavedInv'
  BY <1>1, <1>4 DEF EmbedInv, SavedInv
<1>6. ASSUME NEW p \in Paths PROVE SourceOf(p)'
  BY <1>1, <1>2, <1>4 DEF EmbedInv, SourceOf
<1> QED
  BY <1>3, <1>5, <1>6 DEF EmbedInv

LEMMA EmbedIngest ==
  ASSUME Types, EmbedInv, NEW c \in Clients, Ingest(c)
  PROVE  EmbedInv'
<1> DEFINE f == req[c].file
           r == [req[c] EXCEPT !.pc = "set"]
<1>1. /\ UNCHANGED <<vector, saved, torn, up, unsaved>>
      /\ index' = [index EXCEPT ![f] = req[c].content]
      /\ source' = [source EXCEPT ![PathOf(f)] =
                      IF Overlapped(c, PathOf(f)) THEN NoFile ELSE f]
  BY DEF Ingest, embeddings
<1>2. /\ req[c].pc = "ingest" /\ req[c] \in Request /\ f \in Files /\ PathOf(f) \in Paths
      /\ req[c].content \in Content
  <2>1. req[c].pc = "ingest" /\ req[c] \in Request
    BY DEF Ingest, Types
  <2>2. f \in Files /\ req[c].content \in Content
    BY <2>1, RequestKinds
  <2> QED
    BY <2>1, <2>2, FileFacts
<1>3. r.pc = "set" /\ r.file = f /\ r.content = req[c].content
  BY <1>2, RequestKinds DEF Request
<1>4. req'[c] = r /\ \A d \in Clients \ {c} : req'[d] = req[d]
  BY ReqStep DEF Ingest
<1>5. OneHolder'
  <2> HIDE DEF r
  <2>1. \A d \in Clients : req'[d].pc = "save" => req[d].pc = "save"
    BY <1>3, <1>4
  <2> QED
    BY <2>1 DEF EmbedInv, OneHolder
<1>6. Locked' = Locked
  BY <1>2, <1>3, <1>4 DEF Locked
<1>7. SavedInv'
  BY <1>1, <1>6 DEF EmbedInv, SavedInv
<1> HIDE DEF r
<1>8. ASSUME NEW p \in Paths, source'[p] # NoFile, p = PathOf(f) PROVE SourceOf(p)'
  <2>1. source'[p] = f /\ ~Overlapped(c, p) /\ index'[f] = req[c].content
    BY <1>1, <1>2, <1>8 DEF Types
  <2>2. \A d \in Clients : req'[d].pc = "set" /\ PathOf(req'[d].file) = p => d = c
    BY <1>4, <2>1 DEF Overlapped
  <2>3. ~Settled(p)'
    BY <1>3, <1>4, <1>8 DEF Settled
  <2> QED
    BY <1>3, <1>4, <1>8, <2>1, <2>2, <2>3 DEF SourceOf
<1>9. ASSUME NEW p \in Paths, source'[p] # NoFile, p # PathOf(f) PROVE SourceOf(p)'
  <2>1. source'[p] = source[p] /\ PathOf(source[p]) = p
    BY <1>1, <1>2, <1>9 DEF Types, EmbedInv, SourceOf
  <2>2. index'[source[p]] = index[source[p]]
    BY <1>1, <1>9, <2>1 DEF Types
  <2>3. \A d \in Clients : req'[d].pc = "set" /\ PathOf(req'[d].file) = p
                             => d # c /\ req'[d] = req[d]
    BY <1>3, <1>4, <1>9
  <2>4. Settled(p)' => Settled(p)
    BY <1>2, <1>4 DEF Settled
  <2> QED
    BY <1>1, <1>9, <2>1, <2>2, <2>3, <2>4 DEF EmbedInv, SourceOf
<1>10. \A p \in Paths : SourceOf(p)'
  BY <1>8, <1>9 DEF SourceOf
<1> QED
  BY <1>5, <1>7, <1>10 DEF EmbedInv

LEMMA EmbedSet ==
  ASSUME Types, EmbedInv, NEW c \in Clients, SetEmbedding(c)
  PROVE  EmbedInv'
<1> DEFINE f == req[c].file
           r == [req[c] EXCEPT !.pc = "save"]
<1>1. /\ UNCHANGED <<index, up, source, unsaved>>
      /\ vector' = [vector EXCEPT ![PathOf(f)] = req[c].content]
      /\ torn' = FALSE /\ ~Locked
  BY DEF SetEmbedding
<1>2. req[c].pc = "set" /\ r.pc = "save"
  BY RequestKinds DEF SetEmbedding, Types, Request
<1>3. req'[c] = r /\ \A d \in Clients \ {c} : req'[d] = req[d]
  BY ReqStep DEF SetEmbedding
<1> HIDE DEF r
<1>4. OneHolder' /\ SavedInv'
  <2>1. \A d \in Clients : req[d].pc # "save" /\ (req'[d].pc = "save" => d = c)
    BY <1>1, <1>2, <1>3 DEF Locked
  <2>2. OneHolder'
    BY <2>1 DEF OneHolder
  <2>3. Locked'
    BY <1>2, <1>3 DEF Locked
  <2>4. SavedInv'
    BY <1>1, <2>3 DEF SavedInv
  <2> QED
    BY <2>2, <2>4
<1>5. ASSUME NEW p \in Paths, source[p] # NoFile PROVE SourceOf(p)'
  <2>1. PathOf(source[p]) = p /\ \A d \in Clients : req'[d].pc = "set" => req'[d] = req[d]
    BY <1>2, <1>3, <1>5 DEF EmbedInv, SourceOf
  <2>2. CASE p = PathOf(f)
    <3>1. vector'[p] = req[c].content
      BY <1>1, <2>2 DEF Types
    <3>2. req[c].content = index[source[p]]
      BY <1>2, <1>5, <2>2 DEF EmbedInv, SourceOf
    <3> QED
      BY <1>1, <1>5, <2>1, <3>1, <3>2 DEF EmbedInv, SourceOf
  <2>3. CASE p # PathOf(f)
    <3>1. vector'[p] = vector[p]
      BY <1>1, <2>3 DEF Types
    <3>2. Settled(p)' => Settled(p)
      BY <1>3, <2>3 DEF Settled
    <3> QED
      BY <1>1, <1>5, <2>1, <3>1, <3>2 DEF EmbedInv, SourceOf
  <2> QED
    BY <2>2, <2>3
<1>6. \A p \in Paths : SourceOf(p)'
  BY <1>1, <1>5 DEF SourceOf
<1> QED
  BY <1>4, <1>6 DEF EmbedInv

\* The end of a save, good or not.
LEMMA EmbedSave ==
  ASSUME Types, EmbedInv, NEW c \in Clients, Save(c) \/ SaveFails(c)
  PROVE  EmbedInv'
<1>1. UNCHANGED <<index, vector, up, source>> /\ req[c].pc = "save" /\ Become(c, IdleReq)
  BY DEF Save, SaveFails
<1>2. /\ IdleReq.pc = "idle" /\ req'[c] = IdleReq
      /\ \A d \in Clients \ {c} : req'[d] = req[d]
  BY <1>1, ReqStep DEF IdleReq
<1>3. OneHolder' /\ ~Locked' /\ \A p : Settled(p)' = Settled(p)
  BY <1>1, <1>2 DEF EmbedInv, OneHolder, Locked, Settled
<1>4. Locked /\ ~torn
  BY <1>1 DEF Locked, EmbedInv, SavedInv
<1>5. SavedInv'
  BY <1>3, <1>4 DEF SavedInv, Save, SaveFails
<1>6. ASSUME NEW p \in Paths PROVE SourceOf(p)'
  BY <1>1, <1>2, <1>3 DEF EmbedInv, SourceOf
<1> QED
  BY <1>3, <1>5, <1>6 DEF EmbedInv

LEMMA EmbedRestart ==
  ASSUME Types, EmbedInv, Restart
  PROVE  EmbedInv'
<1>1. /\ up /\ up' = ~torn' /\ vector' = saved /\ saved' = saved /\ unsaved' = unsaved
      /\ index' = index
  BY DEF Restart
<1>2. \A c \in Clients : req'[c] = IdleReq /\ req'[c].pc = "idle"
  BY DEF Restart, IdleReq
<1>3. OneHolder' /\ ~Locked'
  BY <1>2 DEF OneHolder, Locked
<1>4. SavedInv'
  BY <1>1, <1>3 DEF SavedInv
<1>5. ASSUME NEW p \in Paths, source'[p] # NoFile PROVE SourceOf(p)'
  <2>1. ~Locked /\ ~unsaved /\ Settled(p) /\ source'[p] = source[p]
    BY <1>5 DEF Restart, Settled
  <2>2. saved = vector
    BY <1>1, <2>1 DEF EmbedInv, SavedInv
  <2>3. PathOf(source[p]) = p /\ vector[p] = index[source[p]]
    BY <1>1, <1>5, <2>1 DEF EmbedInv, SourceOf
  <2> QED
    BY <1>1, <1>2, <2>1, <2>2, <2>3 DEF SourceOf
<1>6. \A p \in Paths : SourceOf(p)'
  BY <1>5 DEF SourceOf
<1> QED
  BY <1>3, <1>4, <1>6 DEF EmbedInv

-----------------------------------------------------------------------------
(* Backups and restores.                                                    *)

LEMMA JobFacts ==
  ASSUME Types, NEW a \in Admins
  PROVE  /\ job[a] \in Job
         /\ job[a] = IdleJob <=> job[a].pc = "idle"
         /\ job[a].pc = "backup" <=> job[a] \in Backup
         /\ job[a].pc \in {"unpack", "walk"} <=> job[a] \in Restore
         /\ job[a].pc \in {"idle", "backup", "unpack", "walk"}
BY JobKinds DEF Types

LEMMA BackupFields ==
  ASSUME NEW j \in Backup
  PROVE  /\ j.pc = "backup" /\ j.project \in Projects /\ j.listed \in SUBSET Paths
         /\ j.todo \in SUBSET Paths /\ j.data \in [Paths -> Content]
         /\ j.seen \in [Paths -> SUBSET Content]
BY DEF Backup

LEMMA RestoreFields ==
  ASSUME NEW j \in Restore
  PROVE  /\ j.pc \in {"unpack", "walk"} /\ j.project \in Projects
         /\ j.todo \in SUBSET Paths /\ j.data \in [Paths -> Content]
         /\ j.before \in [Paths -> Content] /\ j.touched \in SUBSET Paths
         /\ j.alone \in BOOLEAN
BY DEF Restore

LEMMA BackupSeen ==
  ASSUME NEW j \in Backup, NEW p \in Paths, NEW c \in Content
  PROVE  LET k == [j EXCEPT !.seen[p] = @ \cup {c}]
         IN  /\ k \in Backup
             /\ k.pc = j.pc /\ k.project = j.project /\ k.listed = j.listed
             /\ k.todo = j.todo /\ k.data = j.data
             /\ k.seen[p] = j.seen[p] \cup {c}
             /\ \A q \in Paths \ {p} : k.seen[q] = j.seen[q]
BY DEF Backup

LEMMA RestoreTouched ==
  ASSUME NEW j \in Restore, NEW p \in Paths
  PROVE  LET k == [j EXCEPT !.touched = @ \cup {p}]
         IN  /\ k \in Restore
             /\ k.pc = j.pc /\ k.project = j.project /\ k.todo = j.todo
             /\ k.data = j.data /\ k.before = j.before /\ k.alone = j.alone
             /\ k.touched = j.touched \cup {p}
BY DEF Restore

LEMMA RestoreTodo ==
  ASSUME NEW j \in Restore, NEW t \in SUBSET Paths
  PROVE  LET k == [j EXCEPT !.todo = t]
         IN  /\ k \in Restore
             /\ k.pc = j.pc /\ k.project = j.project /\ k.todo = t
             /\ k.data = j.data /\ k.before = j.before /\ k.alone = j.alone
             /\ k.touched = j.touched
BY DEF Restore

LEMMA RestoreJoined ==
  ASSUME NEW j \in Restore
  PROVE  LET k == [j EXCEPT !.alone = FALSE]
         IN  /\ k \in Restore
             /\ k.pc = j.pc /\ k.project = j.project /\ k.data = j.data
             /\ k.alone = FALSE
BY DEF Restore

\* Steps that leave the jobs, the archives and the files alone.
LEMMA JobsFrame ==
  ASSUME JobsInv, UNCHANGED <<index, backups>>
  PROVE  JobsInv'
<1>1. UNCHANGED <<index, job, archives, unpacked>>
  BY DEF backups
<1>2. /\ \A pr, p : Now(pr, p)' = Now(pr, p)
      /\ \A a, pr : Restoring(a, pr)' = Restoring(a, pr)
  BY <1>1 DEF Now, Restoring
<1>3. \A a, pr : AloneIn(a, pr)' = AloneIn(a, pr)
  BY <1>2 DEF AloneIn
<1>4. ArchivesInv'
  BY <1>1 DEF JobsInv, ArchivesInv, InFiles
<1>5. ASSUME NEW a \in Admins PROVE JobInv(a)'
  <2> DEFINE j == job[a]
  <2>1. job'[a] = j /\ UnpackOf(j)' = UnpackOf(j) /\ WalkOf(j)' = WalkOf(j)
    BY <1>1, <1>2 DEF UnpackOf, WalkOf
  <2>2. BackupOf(j)' = BackupOf(j) /\ RestoreOf(a, j)' = RestoreOf(a, j)
    BY <1>1, <1>2, <1>3, <2>1 DEF BackupOf, RestoreOf, InFiles
  <2> QED
    BY <2>1, <2>2 DEF JobsInv, JobInv
<1> QED
  BY <1>4, <1>5 DEF JobsInv

\* A job that notices a write keeps its kind, its project and its progress.
LEMMA NoticedJob ==
  ASSUME Types, NEW f \in Files, NEW c \in Content, NEW b \in Admins
  PROVE  /\ Noticed(f, c)[b] \in Job
         /\ Noticed(f, c)[b].pc = job[b].pc
         /\ job[b].pc # "idle" => Noticed(f, c)[b].project = job[b].project
<1> DEFINE k == Noticed(f, c)[b]
<1>1. PathOf(f) \in Paths
  BY FileFacts
<1>2. CASE job[b].pc = "idle" \/ job[b].project # ProjectOf(f)
  BY <1>2, JobFacts DEF Noticed
<1>3. CASE job[b].pc = "backup" /\ job[b].project = ProjectOf(f)
  <2>1. k = [job[b] EXCEPT !.seen[PathOf(f)] = @ \cup {c}]
    BY <1>3 DEF Noticed
  <2>2. k \in Backup /\ k.pc = job[b].pc /\ k.project = job[b].project
    BY <1>1, <1>3, <2>1, JobFacts, BackupSeen
  <2> QED
    BY <2>2 DEF Job
<1>4. CASE job[b].pc \in {"unpack", "walk"} /\ job[b].project = ProjectOf(f)
  <2>1. k = [job[b] EXCEPT !.touched = @ \cup {PathOf(f)}]
    BY <1>4 DEF Noticed
  <2>2. k \in Restore /\ k.pc = job[b].pc /\ k.project = job[b].project
    BY <1>1, <1>4, <2>1, JobFacts, RestoreTouched
  <2> QED
    BY <2>2 DEF Job
<1> QED
  BY <1>2, <1>3, <1>4, JobFacts

\* ... and what it is to bring about is still true of it.
LEMMA NoticedInv ==
  ASSUME Types, NEW f \in Files, NEW c \in Content, NEW b \in Admins, JobInv(b),
         index' = [index EXCEPT ![f] = c], unpacked' = unpacked,
         job'[b] = Noticed(f, c)[b],
         \A d \in Admins, pr \in Projects : Restoring(d, pr)' = Restoring(d, pr)
  PROVE  JobInv(b)'
<1>0. PICK j, k : j = job[b] /\ k = job'[b]
  OBVIOUS
<1>1. PathOf(f) \in Paths /\ j \in Job /\ k = Noticed(f, c)[b]
  BY <1>0, FileFacts, JobFacts
<1>2. \A pr, p : Now(pr, p)' = IF pr = ProjectOf(f) /\ p = PathOf(f) THEN c ELSE Now(pr, p)
  BY NowWritten DEF Types
<1>3. CASE j.pc = "idle"
  <2>1. k = j
    BY <1>0, <1>1, <1>3 DEF Noticed
  <2> QED
    BY <1>0, <1>3, <2>1 DEF JobInv
<1>4. CASE j.pc = "backup"
  <2>1. /\ k \in Backup /\ k.pc = "backup" /\ k.project = j.project /\ k.listed = j.listed
        /\ k.todo = j.todo /\ k.data = j.data
        /\ \A p \in Paths : j.seen[p] \subseteq k.seen[p]
        /\ j.project = ProjectOf(f) => c \in k.seen[PathOf(f)]
    <3>1. CASE j.project = ProjectOf(f)
      <4>1. k = [j EXCEPT !.seen[PathOf(f)] = @ \cup {c}]
        BY <1>0, <1>1, <1>4, <3>1 DEF Noticed
      <4> QED
        BY <1>1, <1>4, <3>1, <4>1, JobKinds, <1>1, BackupSeen
    <3>2. CASE j.project # ProjectOf(f)
      <4>1. k = j
        BY <1>0, <1>1, <3>2 DEF Noticed
      <4> QED
        BY <1>4, <3>2, <4>1, <1>1, JobKinds
    <3> QED
      BY <3>1, <3>2
  <2>2. BackupOf(j) /\ j.listed \in SUBSET Paths
    BY <1>4, JobKinds, <1>1, BackupFields, <1>0 DEF JobInv
  <2>3. \A p \in Paths : Now(k.project, p)' \in k.seen[p]
    BY <1>2, <2>1, <2>2 DEF BackupOf
  <2>4. BackupOf(k)'
    BY <2>1, <2>2, <2>3 DEF BackupOf
  <2> QED
    BY <1>0, <2>1, <2>4 DEF JobInv, BackupOf
<1>5. CASE j.pc \in {"unpack", "walk"}
  <2>1. /\ k \in Restore /\ k.pc = j.pc /\ k.project = j.project /\ k.todo = j.todo
        /\ k.data = j.data /\ k.before = j.before /\ k.alone = j.alone
        /\ j.touched \subseteq k.touched
        /\ j.project = ProjectOf(f) => PathOf(f) \in k.touched
    <3>1. CASE j.project = ProjectOf(f)
      <4>1. k = [j EXCEPT !.touched = @ \cup {PathOf(f)}]
        BY <1>0, <1>1, <1>5, <3>1 DEF Noticed
      <4> QED
        BY <1>1, <1>5, <3>1, <4>1, JobKinds, <1>1, RestoreTouched
    <3>2. CASE j.project # ProjectOf(f)
      <4>1. k = j
        BY <1>0, <1>1, <3>2 DEF Noticed
      <4> QED
        BY <1>5, <3>2, <4>1, <1>1, JobKinds
    <3> QED
      BY <3>1, <3>2
  <2>2. RestoreOf(b, j) /\ j.project \in Projects
    BY <1>5, JobKinds, <1>1, RestoreFields, <1>0 DEF JobInv
  <2>3. \A p \in Paths \ k.touched : Now(k.project, p)' = Now(j.project, p)
    BY <1>2, <2>1
  <2>4. AloneIn(b, j.project) => AloneIn(b, j.project)'
    BY <2>2 DEF AloneIn
  <2>5. UnpackOf(j) => UnpackOf(k)'
    BY <2>1, <2>3 DEF UnpackOf
  <2>6. WalkOf(j) => WalkOf(k)'
    BY <2>1, <2>3 DEF WalkOf
  <2>7. InFiles(k.project, k.data)
    BY <2>1, <2>2 DEF RestoreOf
  <2>8. RestoreOf(b, k)'
    <3>1. InFiles(k.project, k.data)'
      BY <2>7 DEF InFiles
    <3>2. ASSUME k.alone
          PROVE  /\ AloneIn(b, k.project)' /\ k.todo \subseteq Entries(k.data)
                 /\ k.pc = "unpack" => UnpackOf(k)'
                 /\ k.pc = "walk" => WalkOf(k)'
      BY <2>1, <2>2, <2>4, <2>5, <2>6, <3>2 DEF RestoreOf
    <3> QED
      BY <3>1, <3>2 DEF RestoreOf, Entries
  <2> QED
    <3>1. /\ UnpackOf(job[b])' = UnpackOf(k)' /\ WalkOf(job[b])' = WalkOf(k)'
          /\ InFiles(job[b].project, job[b].data)' = InFiles(k.project, k.data)'
          /\ AloneIn(b, job[b].project)' = AloneIn(b, k.project)'
      BY <1>0 DEF UnpackOf, WalkOf, InFiles, AloneIn
    <3>2. RestoreOf(b, job[b])'
      BY <1>0, <2>8, <3>1 DEF RestoreOf, Entries
    <3> QED
      BY <1>0, <1>5, <2>1, <3>2 DEF JobInv
<1> QED
  BY <1>1, <1>3, <1>4, <1>5, JobKinds

\* A file changes, and every job notices.
LEMMA JobsChange ==
  ASSUME Types, JobsInv, NEW f \in Files, NEW c \in Content,
         index' = [index EXCEPT ![f] = c], job' = Noticed(f, c),
         UNCHANGED <<archives, unpacked>>
  PROVE  JobsInv' /\ job' \in [Admins -> Job]
<1>1. \A b \in Admins : job'[b] = Noticed(f, c)[b]
  OBVIOUS
<1>2. \A d \in Admins, pr \in Projects : Restoring(d, pr)' = Restoring(d, pr)
  BY <1>1, NoticedJob, JobFacts DEF Restoring
<1>3. \A b \in Admins : JobInv(b)'
  BY <1>1, <1>2, NoticedInv DEF JobsInv
<1>4. ArchivesInv'
  BY DEF JobsInv, ArchivesInv, InFiles
<1>5. job' \in [Admins -> Job]
  <2>1. job' = [a \in Admins |-> Noticed(f, c)[a]]
    BY DEF Noticed
  <2> QED
    BY <2>1, NoticedJob
<1> QED
  BY <1>3, <1>4, <1>5 DEF JobsInv

-----------------------------------------------------------------------------
(* The steps of a backup or restore.                                        *)

\* A job stays right as long as no other restore comes to its directory.
LEMMA OthersKeep ==
  ASSUME Types, NEW b \in Admins, JobInv(b), index' = index, job'[b] = job[b],
         /\ job[b].pc \in {"unpack", "walk"} /\ job[b].alone
         /\ AloneIn(b, job[b].project)
         => /\ \A d \in Admins \ {b} : ~Restoring(d, job[b].project)'
            /\ \A p \in Paths : unpacked'[job[b].project][p] = unpacked[job[b].project][p]
  PROVE  JobInv(b)'
<1>1. PICK j : j = job[b] /\ j = job'[b]
  OBVIOUS
<1>2. \A pr, p : Now(pr, p)' = Now(pr, p)
  BY DEF Now
<1>3. CASE j.pc = "idle"
  BY <1>1, <1>3 DEF JobInv
<1>4. CASE j.pc = "backup"
  <2>1. BackupOf(j)
    BY <1>1, <1>4 DEF JobInv
  <2>2. BackupOf(j)'
    BY <1>2, <2>1 DEF BackupOf
  <2> QED
    BY <1>1, <1>4, <2>2 DEF JobInv, BackupOf
<1>5. CASE j.pc \in {"unpack", "walk"}
  <2>1. RestoreOf(b, j)
    BY <1>1, <1>5 DEF JobInv
  <2>2. InFiles(j.project, j.data)'
    BY <2>1 DEF RestoreOf, InFiles
  <2>3. ASSUME j.alone
        PROVE  /\ AloneIn(b, j.project)'
               /\ UnpackOf(j) => UnpackOf(j)'
               /\ WalkOf(j) => WalkOf(j)'
    <3>1. /\ \A d \in Admins \ {b} : ~Restoring(d, j.project)'
          /\ \A p \in Paths : unpacked'[j.project][p] = unpacked[j.project][p]
      BY <1>1, <1>5, <2>1, <2>3 DEF RestoreOf, Restoring
    <3> QED
      BY <1>2, <3>1 DEF AloneIn, UnpackOf, WalkOf
  <2>4. RestoreOf(b, j)'
    BY <2>1, <2>2, <2>3 DEF RestoreOf, Entries
  <2>5. RestoreOf(b, job[b])' = RestoreOf(b, j)'
    <3>1. /\ UnpackOf(job[b])' = UnpackOf(j)' /\ WalkOf(job[b])' = WalkOf(j)'
          /\ InFiles(job[b].project, job[b].data)' = InFiles(j.project, j.data)'
          /\ AloneIn(b, job[b].project)' = AloneIn(b, j.project)'
      BY <1>1 DEF UnpackOf, WalkOf, InFiles, AloneIn
    <3> QED
      BY <1>1, <3>1 DEF RestoreOf, Entries
  <2> QED
    BY <1>1, <1>5, <2>4, <2>5 DEF JobInv
<1> QED
  BY <1>1, <1>3, <1>4, <1>5, JobFacts

\* One job takes a step that leaves every directory of the others alone.
LEMMA OneJob ==
  ASSUME Types, JobsInv, NEW a \in Admins, NEW k \in Job, Assign(a, k),
         index' = index, ArchivesInv',
         \A pr \in Projects : Restoring(a, pr)' => Restoring(a, pr),
         \A pr \in Projects : ~Restoring(a, pr) =>
           \A p \in Paths : unpacked'[pr][p] = unpacked[pr][p],
         JobInv(a)'
  PROVE  JobsInv' /\ job' \in [Admins -> Job]
<1>1. job' \in [Admins -> Job] /\ job'[a] = k /\ \A b \in Admins \ {a} : job'[b] = job[b]
  BY DEF Assign, Types
<1>2. \A d \in Admins \ {a} : \A pr : Restoring(d, pr)' = Restoring(d, pr)
  BY <1>1 DEF Restoring
<1>3. ASSUME NEW b \in Admins, b # a PROVE JobInv(b)'
  <2>1. ASSUME job[b].pc \in {"unpack", "walk"}, job[b].alone, AloneIn(b, job[b].project)
        PROVE  /\ \A d \in Admins \ {b} : ~Restoring(d, job[b].project)'
               /\ \A p \in Paths : unpacked'[job[b].project][p] = unpacked[job[b].project][p]
    <3>1. PICK pr : pr = job[b].project
      OBVIOUS
    <3>2. pr \in Projects
      BY <2>1, <3>1, JobFacts, RestoreFields
    <3>3. \A d \in Admins \ {b} : ~Restoring(d, pr)
      BY <2>1, <3>1 DEF AloneIn
    <3>4. \A d \in Admins \ {b} : ~Restoring(d, pr)'
      BY <1>2, <3>2, <3>3
    <3>5. \A p \in Paths : unpacked'[pr][p] = unpacked[pr][p]
      BY <1>3, <3>2, <3>3
    <3>6. \A d : Restoring(d, job[b].project)' = Restoring(d, pr)'
      BY <1>1, <1>3, <3>1 DEF Restoring
    <3> QED
      BY <3>1, <3>4, <3>5, <3>6
  <2>2. job'[b] = job[b] /\ JobInv(b)
    BY <1>1, <1>3 DEF JobsInv
  <2> QED
    BY <2>1, <2>2, OthersKeep
<1> QED
  BY <1>1, <1>3 DEF JobsInv

LEMMA JobInvOf ==
  ASSUME NEW a \in Admins, NEW k, job'[a] = k,
         k.pc = "backup" => BackupOf(k)',
         k.pc \in {"unpack", "walk"} => RestoreOf(a, k)'
  PROVE  JobInv(a)'
<1>1. BackupOf(job[a])' = BackupOf(k)'
  BY DEF BackupOf
<1>2. /\ UnpackOf(job[a])' = UnpackOf(k)' /\ WalkOf(job[a])' = WalkOf(k)'
      /\ InFiles(job[a].project, job[a].data)' = InFiles(k.project, k.data)'
      /\ AloneIn(a, job[a].project)' = AloneIn(a, k.project)'
  BY DEF UnpackOf, WalkOf, InFiles, AloneIn
<1>3. RestoreOf(a, job[a])' = RestoreOf(a, k)'
  BY <1>2 DEF RestoreOf, Entries
<1> QED
  BY <1>1, <1>3 DEF JobInv

JobTypes == /\ job \in [Admins -> Job]
            /\ archives \in Seq([project : Projects, data : [Paths -> Content]])
            /\ unpacked \in [Projects -> [Paths -> Content]]

LEMMA IdleIsJob == IdleJob \in Job /\ IdleJob.pc = "idle"
BY DEF Job, IdleJob

\* A job that ends, and leaves the files as they are.
LEMMA EndJob ==
  ASSUME Types, JobsInv, NEW a \in Admins, Assign(a, IdleJob), index' = index,
         ArchivesInv',
         \A pr \in Projects : ~Restoring(a, pr) =>
           \A p \in Paths : unpacked'[pr][p] = unpacked[pr][p]
  PROVE  JobsInv' /\ job' \in [Admins -> Job]
<1>1. job'[a] = IdleJob
  BY DEF Assign, Types
<1>2. JobInv(a)'
  BY <1>1, IdleIsJob DEF JobInv
<1>3. \A pr \in Projects : ~Restoring(a, pr)'
  BY <1>1, IdleIsJob DEF Restoring
<1> QED
  BY <1>2, <1>3, OneJob, IdleIsJob

LEMMA ListInv ==
  ASSUME Types, JobsInv, NEW a \in Admins, NEW pr \in Projects, BackupList(a, pr)
  PROVE  JobsInv' /\ JobTypes'
<1> DEFINE list == {p \in Paths : Now(pr, p) # Absent}
<1>1. PICK k : k = [pc |-> "backup", project |-> pr, listed |-> list, todo |-> list,
                    data |-> Nothing, seen |-> [p \in Paths |-> {Now(pr, p)}]]
  OBVIOUS
<1>2. Assign(a, k) /\ UNCHANGED <<index, archives, unpacked>>
  BY <1>1 DEF BackupList
<1>3. \A p : Now(pr, p) \in Content /\ (Now(pr, p) # Absent => <<pr, p>> \in Files)
  BY NowContent DEF Types
<1>4. k \in Backup /\ k \in Job
  <2>1. Nothing \in [Paths -> Content]
    BY BoundFacts DEF Nothing
  <2>2. [p \in Paths |-> {Now(pr, p)}] \in [Paths -> SUBSET Content]
    BY <1>3
  <2> QED
    BY <1>1, <2>1, <2>2 DEF Backup, Job
<1>5. job'[a] = k
  BY <1>2 DEF Assign, Types
<1>6. BackupOf(k)'
  <2>1. \A p : Now(pr, p)' = Now(pr, p)
    BY <1>2 DEF Now
  <2>2. /\ k.project = pr /\ k.listed = list /\ k.todo = list /\ k.data = Nothing
        /\ k.seen = [p \in Paths |-> {Now(pr, p)}]
    BY <1>1
  <2>3. \A p \in Paths : k.data[p] = Absent /\ Now(k.project, p)' \in k.seen[p]
    BY <2>1, <2>2 DEF Nothing
  <2> QED
    BY <1>3, <2>2, <2>3 DEF BackupOf
<1>7. k.pc = "backup" /\ \A q : ~Restoring(a, q)'
  BY <1>1, <1>5 DEF Restoring
<1>8. JobInv(a)'
  BY <1>5, <1>6, <1>7, JobInvOf
<1>9. ArchivesInv'
  BY <1>2 DEF JobsInv, ArchivesInv, InFiles
<1>10. JobsInv' /\ job' \in [Admins -> Job]
  BY <1>2, <1>4, <1>7, <1>8, <1>9, OneJob
<1> QED
  BY <1>2, <1>10 DEF Types, JobTypes

LEMMA TakeInv ==
  ASSUME Types, JobsInv, NEW a \in Admins, NEW p \in Paths, BackupFile(a, p)
  PROVE  JobsInv' /\ JobTypes'
<1>1. PICK j, c, d : j = job[a] /\ c = Now(j.project, p) /\ d = IF c = Absent THEN Empty ELSE c
  OBVIOUS
<1>2. PICK k : k = [j EXCEPT !.todo = @ \ {p}, !.data[p] = d]
  OBVIOUS
<1>3. Assign(a, k) /\ UNCHANGED <<index, archives, unpacked>>
  BY <1>1, <1>2 DEF BackupFile
<1>4. /\ j \in Backup /\ j.pc = "backup" /\ BackupOf(j) /\ p \in j.todo
      /\ c \in Content /\ d \in Content /\ d # Absent
  <2>1. c \in Content
    BY <1>1, NowContent DEF Types
  <2> QED
    BY <1>1, <2>1, BoundFacts, JobFacts DEF BackupFile, JobsInv, JobInv
<1>5. /\ k \in Backup /\ k \in Job /\ k.pc = "backup" /\ k.project = j.project
      /\ k.listed = j.listed /\ k.todo = j.todo \ {p} /\ k.seen = j.seen
      /\ k.data[p] = d /\ \A q \in Paths \ {p} : k.data[q] = j.data[q]
  <2>1. /\ k \in Backup /\ k.pc = j.pc /\ k.project = j.project
        /\ k.listed = j.listed /\ k.todo = j.todo \ {p} /\ k.seen = j.seen
        /\ k.data[p] = d /\ \A q \in Paths \ {p} : k.data[q] = j.data[q]
    BY <1>2, <1>4 DEF Backup
  <2> QED
    BY <1>4, <2>1 DEF Job
<1>6. job'[a] = k
  BY <1>3 DEF Assign, Types
<1>7. BackupOf(k)'
  <2>1. \A q : Now(k.project, q)' = Now(j.project, q)
    BY <1>3, <1>5 DEF Now
  <2>2. k.listed \subseteq Paths
    BY <1>5, BackupFields
  <2>3. \A q \in Paths : k.data[q] # Absent <=> q \in k.listed \ k.todo
    BY <1>4, <1>5 DEF BackupOf
  <2>4. ASSUME NEW q \in k.listed \ k.todo
        PROVE  k.data[q] \in k.seen[q] \/ (k.data[q] = Empty /\ Absent \in k.seen[q])
    <3>1. CASE q = p
      <4>1. c \in k.seen[p]
        BY <1>1, <1>4, <1>5 DEF BackupOf
      <4> QED
        BY <1>1, <1>5, <3>1, <4>1
    <3>2. CASE q # p
      BY <1>4, <1>5, <2>2, <3>2 DEF BackupOf
    <3> QED
      BY <3>1, <3>2
  <2> QED
    BY <1>4, <1>5, <2>1, <2>3, <2>4 DEF BackupOf
<1>8. JobInv(a)' /\ \A q : ~Restoring(a, q)'
  BY <1>5, <1>6, <1>7, JobInvOf DEF Restoring
<1>9. ArchivesInv'
  BY <1>3 DEF JobsInv, ArchivesInv, InFiles
<1>10. JobsInv' /\ job' \in [Admins -> Job]
  BY <1>3, <1>5, <1>8, <1>9, OneJob
<1> QED
  BY <1>3, <1>10 DEF Types, JobTypes

LEMMA RenameInv ==
  ASSUME Types, JobsInv, NEW a \in Admins, BackupRename(a)
  PROVE  JobsInv' /\ JobTypes'
<1>1. PICK j, e : j = job[a] /\ e = [project |-> j.project, data |-> j.data]
  OBVIOUS
<1>2. Assign(a, IdleJob) /\ UNCHANGED <<index, unpacked>> /\ archives' = Append(archives, e)
  BY <1>1 DEF BackupRename, Archived
<1>3. j \in Backup /\ BackupOf(j)
  BY <1>1, JobFacts DEF BackupRename, JobsInv, JobInv
<1>4. e \in [project : Projects, data : [Paths -> Content]] /\ InFiles(e.project, e.data)
  BY <1>1, <1>3, BackupFields DEF BackupOf, InFiles
<1>5. archives' \in Seq([project : Projects, data : [Paths -> Content]])
  BY <1>2, <1>4 DEF Types
<1>6. ArchivesInv'
  <2>1. ASSUME NEW n \in DOMAIN archives'
        PROVE  archives'[n] = e \/ (n \in DOMAIN archives /\ archives'[n] = archives[n])
    BY <1>2, <1>4 DEF Types
  <2>2. ASSUME NEW n \in DOMAIN archives' PROVE InFiles(archives'[n].project, archives'[n].data)
    <3>1. CASE archives'[n] = e
      BY <1>4, <3>1
    <3>2. CASE n \in DOMAIN archives /\ archives'[n] = archives[n]
      BY <3>2 DEF JobsInv, ArchivesInv
    <3> QED
      BY <2>1, <3>1, <3>2
  <2> QED
    BY <1>2, <2>2 DEF JobsInv, ArchivesInv, InFiles
<1>7. JobsInv' /\ job' \in [Admins -> Job]
  BY <1>2, <1>6, EndJob
<1> QED
  BY <1>2, <1>5, <1>7 DEF Types, JobTypes

LEMMA FailsInv ==
  ASSUME Types, JobsInv, NEW a \in Admins, JobFails(a)
  PROVE  JobsInv' /\ JobTypes'
<1>1. Assign(a, IdleJob) /\ UNCHANGED <<index, archives, unpacked>>
  BY DEF JobFails
<1>2. ArchivesInv'
  BY <1>1 DEF JobsInv, ArchivesInv, InFiles
<1> QED
  BY <1>1, <1>2, EndJob DEF Types, JobTypes

LEMMA BeginInv ==
  ASSUME Types, JobsInv, NEW a \in Admins, NEW n \in DOMAIN archives, RestoreBegin(a, n)
  PROVE  JobsInv' /\ JobTypes'
<1>1. PICK pr, data : pr = archives[n].project /\ data = archives[n].data
  OBVIOUS
<1>2. PICK k : k = [pc |-> "unpack", project |-> pr, data |-> data,
                    todo |-> Entries(data), before |-> [p \in Paths |-> Now(pr, p)],
                    touched |-> {}, alone |-> ~\E d \in Admins : Restoring(d, pr)]
  OBVIOUS
<1>3. /\ UNCHANGED <<index, archives>> /\ job[a] = IdleJob
      /\ unpacked' = [unpacked EXCEPT ![pr] = Nothing]
      /\ job' = [b \in Admins |->
                   CASE b = a -> k
                     [] b # a /\ Restoring(b, pr) -> [job[b] EXCEPT !.alone = FALSE]
                     [] OTHER -> job[b]]
  BY <1>1, <1>2 DEF RestoreBegin, RestoreInto
<1>4. pr \in Projects /\ data \in [Paths -> Content] /\ InFiles(pr, data)
  <2>1. archives[n] \in [project : Projects, data : [Paths -> Content]]
    <3>1. ASSUME NEW S, archives \in Seq(S) PROVE archives[n] \in S
      BY <3>1
    <3> QED
      BY <3>1 DEF Types
  <2> QED
    BY <1>1, <2>1 DEF JobsInv, ArchivesInv
<1>5. Nothing \in [Paths -> Content] /\ unpacked' \in [Projects -> [Paths -> Content]]
  BY <1>3, <1>4, BoundFacts DEF Nothing, Types
<1>6. /\ job'[a] = k
      /\ \A b \in Admins \ {a} : job'[b] = IF Restoring(b, pr)
                                           THEN [job[b] EXCEPT !.alone = FALSE] ELSE job[b]
  BY <1>3
<1>7. k \in Restore /\ k.pc = "unpack" /\ k.project = pr /\ k.data = data
  <2>1. Entries(data) \subseteq Paths /\ [p \in Paths |-> Now(pr, p)] \in [Paths -> Content]
    BY NowContent DEF Entries, Types
  <2> QED
    BY <1>2, <1>4, <2>1 DEF Restore
<1>8. JobInv(a)'
  <2>1. ASSUME k.alone PROVE AloneIn(a, pr)'
    <3>1. ASSUME NEW d \in Admins \ {a} PROVE ~Restoring(d, pr)'
      <4>1. ~Restoring(d, pr)
        BY <1>2, <2>1
      <4> QED
        BY <1>6, <4>1 DEF Restoring
    <3> QED
      BY <3>1 DEF AloneIn
  <2>2. k.todo = Entries(data)
    BY <1>2
  <2>3. UnpackOf(k)'
    <3>1. ASSUME NEW p \in Paths
          PROVE  unpacked'[pr][p] = IF p \in k.todo THEN Absent ELSE k.data[p]
      BY <1>3, <1>4, <1>7, <2>2 DEF Types, Nothing, Entries
    <3>2. ASSUME NEW p \in Paths PROVE Now(pr, p)' = k.before[p]
      BY <1>2, <1>3 DEF Now
    <3> QED
      BY <1>7, <3>1, <3>2 DEF UnpackOf
  <2>4. InFiles(pr, data)'
    BY <1>4 DEF InFiles
  <2>5. RestoreOf(a, k)'
    BY <1>7, <2>1, <2>2, <2>3, <2>4 DEF RestoreOf, Entries
  <2> QED
    BY <1>6, <1>7, <2>5, JobInvOf
<1>9. ASSUME NEW b \in Admins \ {a}, Restoring(b, pr) PROVE JobInv(b)' /\ job'[b] \in Job
  <2>1. PICK j, m : j = job[b] /\ m = [j EXCEPT !.alone = FALSE]
    OBVIOUS
  <2>2. j \in Restore /\ RestoreOf(b, j)
    BY <1>9, <2>1, JobFacts DEF Restoring, JobsInv, JobInv
  <2>3. m \in Restore /\ m.project = j.project /\ m.data = j.data /\ m.alone = FALSE
    BY <2>1, <2>2, RestoreJoined
  <2>4. RestoreOf(b, m)'
    BY <2>2, <2>3 DEF RestoreOf, InFiles
  <2>5. job'[b] = m /\ m.pc # "backup" /\ m \in Job
    BY <1>6, <1>9, <2>1, <2>3, RestoreFields DEF Job
  <2> QED
    BY <2>4, <2>5, JobInvOf
<1>10. ASSUME NEW b \in Admins \ {a}, ~Restoring(b, pr) PROVE JobInv(b)' /\ job'[b] \in Job
  <2>1. ASSUME job[b].pc \in {"unpack", "walk"}, AloneIn(b, job[b].project)
        PROVE  /\ \A d \in Admins \ {b} : ~Restoring(d, job[b].project)'
               /\ \A p \in Paths : unpacked'[job[b].project][p] = unpacked[job[b].project][p]
    <3>1. PICK q : q = job[b].project
      OBVIOUS
    <3>2. q # pr /\ job'[b] = job[b]
      BY <1>6, <1>10, <2>1, <3>1 DEF Restoring
    <3>3. ASSUME NEW d \in Admins \ {b} PROVE ~Restoring(d, q)'
      <4>1. ~Restoring(d, q)
        BY <2>1, <3>1 DEF AloneIn
      <4>2. CASE d = a
        BY <1>6, <1>7, <3>2, <4>2 DEF Restoring
      <4>3. CASE d # a /\ Restoring(d, pr)
        <5>1. job[d].project = pr /\ job[d] \in Restore
          BY <4>3, JobFacts DEF Restoring
        <5>2. job'[d] = [job[d] EXCEPT !.alone = FALSE]
          BY <1>6, <4>3
        <5>3. job'[d].project = pr
          BY <5>1, <5>2, RestoreJoined
        <5> QED
          BY <3>2, <5>3 DEF Restoring
      <4>4. CASE d # a /\ ~Restoring(d, pr)
        BY <1>6, <4>1, <4>4 DEF Restoring
      <4> QED
        BY <4>2, <4>3, <4>4
    <3>4. \A p \in Paths : unpacked'[q][p] = unpacked[q][p]
      BY <1>3, <3>2 DEF Types
    <3>5. \A d : Restoring(d, job[b].project)' = Restoring(d, q)'
      BY <3>1, <3>2 DEF Restoring
    <3> QED
      BY <3>1, <3>2, <3>3, <3>4, <3>5
  <2>2. job'[b] = job[b] /\ JobInv(b) /\ job[b] \in Job
    BY <1>6, <1>10, JobFacts DEF JobsInv
  <2> QED
    BY <1>3, <2>1, <2>2, OthersKeep
<1>11. job' \in [Admins -> Job]
  <2>1. \A b \in Admins : job'[b] \in Job
    BY <1>6, <1>7, <1>9, <1>10 DEF Job
  <2>2. job' = [b \in Admins |-> job'[b]]
    BY <1>3
  <2> QED
    BY <2>1, <2>2
<1>12. ArchivesInv'
  <2>1. ASSUME NEW q \in Projects, NEW p \in Paths, unpacked'[q][p] # Absent
        PROVE  <<q, p>> \in Files
    BY <1>3, <1>5, <2>1 DEF JobsInv, ArchivesInv, InFiles, Types, Nothing
  <2> QED
    BY <1>3, <2>1 DEF JobsInv, ArchivesInv, InFiles
<1>13. JobsInv'
  BY <1>8, <1>9, <1>10, <1>12 DEF JobsInv
<1> QED
  BY <1>3, <1>5, <1>11, <1>13 DEF Types, JobTypes

LEMMA UnpackInv ==
  ASSUME Types, JobsInv, NEW a \in Admins, NEW p \in Paths, Unpack(a, p)
  PROVE  JobsInv' /\ JobTypes'
<1>1. PICK j, k : j = job[a] /\ k = [j EXCEPT !.todo = @ \ {p}]
  OBVIOUS
<1>2. /\ Assign(a, k) /\ UNCHANGED <<index, archives>> /\ j.pc = "unpack" /\ p \in j.todo
      /\ unpacked' = [unpacked EXCEPT ![j.project][p] = j.data[p]]
  BY <1>1 DEF Unpack
<1>3. j \in Restore /\ RestoreOf(a, j)
  BY <1>1, <1>2, JobFacts DEF JobsInv, JobInv
<1>4. /\ j.project \in Projects /\ j.data \in [Paths -> Content] /\ j.todo \subseteq Paths
  BY <1>3, RestoreFields
<1>5. /\ k \in Restore /\ k \in Job /\ k.pc = j.pc /\ k.project = j.project
      /\ k.todo = j.todo \ {p} /\ k.data = j.data /\ k.before = j.before
      /\ k.alone = j.alone /\ k.touched = j.touched
  BY <1>1, <1>3, <1>4, RestoreTodo, SMTT(60) DEF Job
<1>6. /\ unpacked' \in [Projects -> [Paths -> Content]]
      /\ unpacked'[j.project][p] = j.data[p]
      /\ \A q \in Paths \ {p} : unpacked'[j.project][q] = unpacked[j.project][q]
      /\ \A pr \in Projects \ {j.project} : unpacked'[pr] = unpacked[pr]
  BY <1>2, <1>4 DEF Types
<1>7. job'[a] = k /\ \A b \in Admins \ {a} : job'[b] = job[b]
  BY <1>2 DEF Assign, Types
<1>8. \A d \in Admins, pr \in Projects : Restoring(d, pr)' = Restoring(d, pr)
  BY <1>1, <1>5, <1>7, ZenonT(60) DEF Restoring
<1>9. JobInv(a)'
  <2>1. \A q : Now(k.project, q)' = Now(j.project, q)
    BY <1>2, <1>5 DEF Now
  <2>2. UnpackOf(j) => UnpackOf(k)'
    <3> SUFFICES ASSUME UnpackOf(j) PROVE UnpackOf(k)'
      OBVIOUS
    <3>1. ASSUME NEW q \in Paths
          PROVE  unpacked'[k.project][q] = IF q \in k.todo THEN Absent ELSE k.data[q]
      <4>1. CASE q = p
        BY <1>5, <1>6, <4>1
      <4>2. CASE q # p
        BY <1>5, <1>6, <4>2 DEF UnpackOf
      <4> QED
        BY <4>1, <4>2
    <3> QED
      BY <1>5, <2>1, <3>1 DEF UnpackOf
  <2>3. AloneIn(a, j.project) => AloneIn(a, k.project)'
    BY <1>4, <1>5, <1>8 DEF AloneIn
  <2>4. InFiles(k.project, k.data)'
    BY <1>3, <1>5 DEF RestoreOf, InFiles
  <2>5. RestoreOf(a, k)'
    BY <1>2, <1>3, <1>5, <2>2, <2>3, <2>4 DEF RestoreOf, Entries
  <2> QED
    BY <1>2, <1>5, <1>7, <2>5, JobInvOf
<1>10. ArchivesInv'
  <2>1. InFiles(j.project, j.data)
    BY <1>3 DEF RestoreOf
  <2>2. ASSUME NEW pr \in Projects, NEW q \in Paths, unpacked'[pr][q] # Absent
        PROVE  <<pr, q>> \in Files
    BY <1>6, <2>1, <2>2 DEF JobsInv, ArchivesInv, InFiles
  <2> QED
    BY <1>2, <2>2 DEF JobsInv, ArchivesInv, InFiles
<1>11. Restoring(a, j.project)
  BY <1>1, <1>2 DEF Restoring
<1>12. JobsInv' /\ job' \in [Admins -> Job]
  <2>1. \A pr \in Projects : ~Restoring(a, pr) =>
           \A q \in Paths : unpacked'[pr][q] = unpacked[pr][q]
    BY <1>6, <1>11
  <2> QED
    BY <1>2, <1>5, <1>8, <1>9, <1>10, <2>1, OneJob
<1> QED
  BY <1>2, <1>6, <1>12 DEF Types, JobTypes

LEMMA WalkInv ==
  ASSUME Types, JobsInv, NEW a \in Admins, Walk(a)
  PROVE  JobsInv' /\ JobTypes'
<1>1. PICK j, t, k : /\ j = job[a] /\ t = Entries(unpacked[j.project])
                     /\ k = [j EXCEPT !.pc = "walk", !.todo = t]
  OBVIOUS
<1>2. Assign(a, k) /\ UNCHANGED <<index, archives, unpacked>> /\ j.pc = "unpack" /\ j.todo = {}
  BY <1>1 DEF Walk
<1>3. j \in Restore /\ RestoreOf(a, j) /\ t \subseteq Paths
  BY <1>1, <1>2, JobFacts DEF JobsInv, JobInv, Entries
<1>4. /\ k \in Restore /\ k \in Job /\ k.pc = "walk" /\ k.project = j.project
      /\ k.todo = t /\ k.data = j.data /\ k.before = j.before
      /\ k.alone = j.alone /\ k.touched = j.touched
  <2>1. /\ k \in Restore /\ k.pc = "walk" /\ k.project = j.project
        /\ k.todo = t /\ k.data = j.data /\ k.before = j.before
        /\ k.alone = j.alone /\ k.touched = j.touched
    BY <1>1, <1>3 DEF Restore
  <2> QED
    BY <2>1 DEF Job
<1>5. job'[a] = k /\ \A b \in Admins \ {a} : job'[b] = job[b]
  BY <1>2 DEF Assign, Types
<1>6. ASSUME NEW d \in Admins, NEW pr \in Projects PROVE Restoring(d, pr)' = Restoring(d, pr)
  <2>1. CASE d = a
    BY <1>1, <1>2, <1>4, <1>5, <2>1, ZenonT(60) DEF Restoring
  <2>2. CASE d # a
    BY <1>5, <2>2 DEF Restoring
  <2> QED
    BY <2>1, <2>2
<1>7. JobInv(a)'
  <2>1. \A q : Now(k.project, q)' = Now(j.project, q)
    BY <1>2, <1>4 DEF Now
  <2>2. UnpackOf(j) => WalkOf(k)' /\ k.todo = Entries(k.data)
    <3> SUFFICES ASSUME UnpackOf(j) PROVE WalkOf(k)' /\ k.todo = Entries(k.data)
      OBVIOUS
    <3>1. \A p \in Paths : unpacked[j.project][p] = j.data[p]
      BY <1>2 DEF UnpackOf
    <3>2. k.todo = Entries(k.data)
      BY <1>1, <1>4, <3>1 DEF Entries
    <3>3. \A p \in Paths \ k.touched : Now(k.project, p)' = k.before[p]
      BY <1>4, <2>1 DEF UnpackOf
    <3>4. \A p \in Paths : unpacked'[k.project][p] = k.data[p]
      BY <1>2, <1>4, <3>1
    <3> QED
      BY <3>2, <3>3, <3>4 DEF WalkOf, Entries
  <2>3. AloneIn(a, j.project) => AloneIn(a, k.project)'
    BY <1>3, <1>4, <1>6, RestoreFields DEF AloneIn
  <2>4. InFiles(k.project, k.data)'
    BY <1>3, <1>4 DEF RestoreOf, InFiles
  <2>5. RestoreOf(a, k)'
    BY <1>2, <1>3, <1>4, <2>2, <2>3, <2>4 DEF RestoreOf, Entries
  <2> QED
    BY <1>4, <1>5, <2>5, JobInvOf
<1>8. ArchivesInv'
  BY <1>2 DEF JobsInv, ArchivesInv, InFiles
<1>9. JobsInv' /\ job' \in [Admins -> Job]
  BY <1>2, <1>4, <1>6, <1>7, <1>8, OneJob
<1> QED
  BY <1>2, <1>9 DEF Types, JobTypes

LEMMA RestoreFileInv ==
  ASSUME Types, JobsInv, EmbedInv, NEW a \in Admins, NEW p \in Paths, RestoreFile(a, p)
  PROVE  JobsInv' /\ JobTypes' /\ EmbedInv' /\ index' \in [Files -> Content]
<1>1. PICK j, k, f, c : /\ j = job[a] /\ k = [j EXCEPT !.todo = @ \ {p}]
                        /\ f = <<j.project, p>> /\ c = unpacked[j.project][p]
  OBVIOUS
<1>2. /\ job' = [Noticed(f, c) EXCEPT ![a] = k] /\ UNCHANGED <<archives, unpacked>>
      /\ index' = [index EXCEPT ![f] = c] /\ source' = [source EXCEPT ![p] = NoFile]
      /\ UNCHANGED <<embeddings, up, req, unsaved>>
      /\ j.pc = "walk" /\ p \in j.todo /\ c # Absent
  BY <1>1 DEF RestoreFile
<1>3. j \in Restore /\ j.project \in Projects /\ RestoreOf(a, j) /\ j.todo \subseteq Paths
  BY <1>1, <1>2, JobFacts, RestoreFields DEF JobsInv, JobInv
<1>4. f \in Files /\ c \in Content /\ PathOf(f) = p /\ ProjectOf(f) = j.project
  BY <1>1, <1>2, <1>3 DEF JobsInv, ArchivesInv, InFiles, Types, PathOf, ProjectOf
<1>5. EmbedInv' /\ index' \in [Files -> Content]
  BY <1>2, <1>4, EmbedChange DEF Types
<1>6. /\ k \in Restore /\ k \in Job /\ k.pc = j.pc /\ k.project = j.project
      /\ k.todo = j.todo \ {p} /\ k.data = j.data /\ k.before = j.before
      /\ k.alone = j.alone /\ k.touched = j.touched
  BY <1>1, <1>3, RestoreTodo DEF Job
<1>7. /\ job'[a] = k /\ \A b \in Admins \ {a} : job'[b] = Noticed(f, c)[b]
      /\ job' = [b \in Admins |-> job'[b]]
  BY <1>2 DEF Noticed
<1>8. ASSUME NEW d \in Admins, NEW pr \in Projects PROVE Restoring(d, pr)' = Restoring(d, pr)
  <2>1. CASE d = a
    BY <1>1, <1>6, <1>7, <2>1 DEF Restoring
  <2>2. CASE d # a
    <3>1. /\ job'[d].pc = job[d].pc
          /\ job[d].pc # "idle" => job'[d].project = job[d].project
      BY <1>4, <1>7, <2>2, NoticedJob
    <3> QED
      BY <3>1, JobFacts DEF Restoring
  <2> QED
    BY <2>1, <2>2
<1>9. JobInv(a)'
  <2>1. ASSUME NEW q
        PROVE  Now(k.project, q)' = IF q = p THEN c ELSE Now(j.project, q)
    <3>1. index \in [Files -> Content]
      BY DEF Types
    <3>2. Now(j.project, q)' = IF q = p THEN c ELSE Now(j.project, q)
      BY <1>2, <1>4, <3>1, NowWritten
    <3> QED
      BY <1>6, <3>2 DEF Now
  <2>2. WalkOf(j) => WalkOf(k)'
    <3> SUFFICES ASSUME WalkOf(j) PROVE WalkOf(k)'
      OBVIOUS
    <3>1. c = j.data[p]
      BY <1>1 DEF WalkOf
    <3>2. ASSUME NEW q \in Paths \ k.touched
          PROVE  Now(k.project, q)' =
                   IF k.data[q] = Absent \/ q \in k.todo THEN k.before[q] ELSE k.data[q]
      <4>1. CASE q = p
        BY <1>2, <1>6, <2>1, <3>1, <4>1
      <4>2. CASE q # p
        BY <1>6, <2>1, <4>2 DEF WalkOf
      <4> QED
        BY <4>1, <4>2
    <3> QED
      BY <1>2, <1>6, <3>2 DEF WalkOf
  <2>3. AloneIn(a, j.project) => AloneIn(a, k.project)'
    BY <1>3, <1>6, <1>8 DEF AloneIn
  <2>4. InFiles(k.project, k.data)'
    BY <1>3, <1>6 DEF RestoreOf, InFiles
  <2>5. RestoreOf(a, k)'
    BY <1>2, <1>3, <1>6, <2>2, <2>3, <2>4 DEF RestoreOf, Entries
  <2> QED
    BY <1>2, <1>6, <1>7, <2>5, JobInvOf
<1>10. ASSUME NEW b \in Admins, b # a PROVE JobInv(b)' /\ job'[b] \in Job
  <2>1. JobInv(b)
    BY DEF JobsInv
  <2>2. JobInv(b)'
    BY <1>2, <1>4, <1>7, <1>8, <1>10, <2>1, NoticedInv
  <2> QED
    BY <1>4, <1>7, <1>10, <2>2, NoticedJob
<1>11. job' \in [Admins -> Job]
  BY <1>6, <1>7, <1>10
<1>12. JobsInv'
  BY <1>2, <1>9, <1>10 DEF JobsInv, ArchivesInv, InFiles
<1> QED
  BY <1>2, <1>5, <1>11, <1>12 DEF Types, JobTypes

LEMMA EndInv ==
  ASSUME Types, JobsInv, NEW a \in Admins, RestoreEnd(a)
  PROVE  JobsInv' /\ JobTypes'
<1>1. PICK pr : pr = job[a].project
  OBVIOUS
<1>2. /\ Assign(a, IdleJob) /\ UNCHANGED <<index, archives>>
      /\ unpacked' = [unpacked EXCEPT ![pr] = Nothing]
      /\ Restoring(a, pr)
  BY <1>1 DEF RestoreEnd, Restoring
<1>3. Nothing \in [Paths -> Content] /\ unpacked' \in [Projects -> [Paths -> Content]]
  BY <1>2, BoundFacts DEF Nothing, Types
<1>4. \A q \in Projects : ~Restoring(a, q) => unpacked'[q] = unpacked[q]
  BY <1>2 DEF Types
<1>5. ArchivesInv'
  <2>1. ASSUME NEW q \in Projects, NEW p \in Paths, unpacked'[q][p] # Absent
        PROVE  <<q, p>> \in Files
    BY <1>2, <2>1 DEF JobsInv, ArchivesInv, InFiles, Types, Nothing
  <2> QED
    BY <1>2, <2>1 DEF JobsInv, ArchivesInv, InFiles
<1>6. JobsInv' /\ job' \in [Admins -> Job]
  BY <1>2, <1>4, <1>5, EndJob
<1> QED
  BY <1>2, <1>3, <1>6 DEF Types, JobTypes

LEMMA RestartJobs ==
  ASSUME Types, JobsInv, Restart
  PROVE  JobsInv' /\ JobTypes'
<1>1. UNCHANGED <<index, archives, unpacked>> /\ job' = [a \in Admins |-> IdleJob]
  BY DEF Restart
<1>2. \A a \in Admins : JobInv(a)'
  BY <1>1, IdleIsJob DEF JobInv
<1> QED
  BY <1>1, <1>2, IdleIsJob DEF Types, JobTypes, JobsInv, ArchivesInv, InFiles

-----------------------------------------------------------------------------
(* Every step preserves the invariant.                                      *)

LEMMA InitInv == Init => ProjectInv
<1> SUFFICES ASSUME Init PROVE ProjectInv
  OBVIOUS
<1>1. Nothing \in [Paths -> Content] /\ \A p \in Paths : Nothing[p] = Absent
  BY BoundFacts DEF Nothing
<1>2. Types
  <2>1. index \in [Files -> Content]
    BY BoundFacts DEF Init
  <2>2. left \in [Kinds -> Nat] /\ Unwritten(left) <= MaxWrites
    BY BoundFacts DEF Init
  <2>3. vector \in [Paths -> Content] /\ saved \in [Paths -> Content]
        /\ unpacked \in [Projects -> [Paths -> Content]]
    BY <1>1 DEF Init
  <2>4. req \in [Clients -> Request] /\ job \in [Admins -> Job]
    BY DEF Init, Request, Job
  <2>5. archives \in Seq([project : Projects, data : [Paths -> Content]])
    BY DEF Init
  <2>6. crashes \in 0 .. MaxCrashes
    BY BoundsAssumption DEF Init
  <2>7. source \in [Paths -> Files \cup {NoFile}]
    BY DEF Init
  <2>8. torn \in BOOLEAN /\ up \in BOOLEAN /\ unsaved \in BOOLEAN
    BY DEF Init
  <2> QED
    BY <2>1, <2>2, <2>3, <2>4, <2>5, <2>6, <2>7, <2>8 DEF Types
<1>3. \A c \in Clients : req[c].pc = "idle"
  BY DEF Init, IdleReq
<1>4. OneHolder /\ ~Locked
  BY <1>3 DEF OneHolder, Locked
<1>5. SavedInv /\ \A p \in Paths : SourceOf(p)
  BY <1>4 DEF Init, SavedInv, SourceOf
<1>6. \A a \in Admins : JobInv(a)
  BY IdleIsJob DEF Init, JobInv
<1>7. ArchivesInv
  BY <1>1 DEF Init, ArchivesInv, InFiles
<1> QED
  BY <1>2, <1>4, <1>5, <1>6, <1>7 DEF ProjectInv, EmbedInv, JobsInv

LEMMA CallType ==
  ASSUME Types, NEW kind \in Kinds, Call(kind)
  PROVE  left' \in [Kinds -> Nat] /\ Unwritten(left') <= MaxWrites
<1>1. left \in [Kinds -> Nat] /\ left[kind] > 0 /\ left' = [left EXCEPT ![kind] = @ - 1]
  BY DEF Types, Call
<1>2. left' \in [Kinds -> Nat] /\ \A k \in Kinds : left'[k] <= left[k]
  BY <1>1
<1>3. left["write"] \in Nat /\ left["put"] \in Nat /\ left'["write"] \in Nat /\ left'["put"] \in Nat
      /\ left'["write"] <= left["write"] /\ left'["put"] <= left["put"]
  BY <1>1, <1>2 DEF Kinds
<1> QED
  BY <1>2, <1>3, BoundFacts, SMTT(60) DEF Types, Unwritten

\* The number of a write is that of a content.
LEMMA NewContent ==
  ASSUME Types, NEW kind \in {"write", "put"}, Call(kind)
  PROVE  Unwritten(left) \in Writes /\ Unwritten(left) \in Content
<1>1. left["write"] \in Nat /\ left["put"] \in Nat /\ left[kind] > 0
  BY DEF Types, Kinds, Call
<1>2. Unwritten(left) \in Nat /\ Unwritten(left) >= 1 /\ Unwritten(left) <= MaxWrites
  BY <1>1 DEF Types, Unwritten
<1> QED
  BY <1>2, BoundFacts DEF Writes, Content

LEMMA WriteInv ==
  ASSUME ProjectInv, NEW c \in Clients,
         \/ \E f \in Files : BeginWrite(c, f)
         \/ Ingest(c) \/ IngestFails(c) \/ SetEmbedding(c) \/ Save(c) \/ SaveFails(c)
  PROVE  ProjectInv'
<1>1. Types /\ EmbedInv /\ JobsInv /\ req[c] \in Request
  BY DEF ProjectInv, Types
<1>2. ASSUME NEW f \in Files, BeginWrite(c, f) PROVE ProjectInv'
  <2> DEFINE r == [pc |-> "ingest", file |-> f, content |-> Unwritten(left)]
  <2>1. Call("write") /\ Become(c, r) /\ req[c] = IdleReq
        /\ UNCHANGED <<index, embeddings, up, backups, crashes, source, unsaved>>
    BY <1>2 DEF BeginWrite
  <2>2. r \in Request /\ r.pc = "ingest" /\ req[c].pc = "idle"
    BY <1>1, <2>1, NewContent DEF Request, IdleReq
  <2>3. EmbedInv' /\ JobsInv'
    <3>1. EmbedInv'
      BY <1>1, <2>1, <2>2, EmbedBegin
    <3> QED
      BY <1>1, <2>1, <3>1, JobsFrame
  <2>4. left' \in [Kinds -> Nat] /\ Unwritten(left') <= MaxWrites
    BY <1>1, <2>1, CallType DEF Kinds
  <2>5. req' \in [Clients -> Request]
    BY <1>1, <2>1, <2>2, ReqStep
  <2>6. Types'
    BY <1>1, <2>1, <2>4, <2>5 DEF Types, embeddings, backups
  <2> QED
    BY <2>3, <2>6 DEF ProjectInv
<1>3. ASSUME Ingest(c) PROVE ProjectInv'
  <2> DEFINE f == req[c].file
             r == [req[c] EXCEPT !.pc = "set"]
  <2>1. f \in Files /\ req[c].content \in Content /\ r \in Request
    <3>1. req[c].pc = "ingest"
      BY <1>3 DEF Ingest
    <3> QED
      BY <1>1, <3>1, RequestKinds DEF Request, IdleReq
  <2>2. EmbedInv'
    BY <1>1, <1>3, EmbedIngest
  <2>3. /\ index' = [index EXCEPT ![f] = req[c].content] /\ job' = Noticed(f, req[c].content)
        /\ UNCHANGED <<archives, unpacked, left, vector, saved, torn, up, unsaved, crashes>>
        /\ source' = [source EXCEPT ![PathOf(f)] =
                        IF Overlapped(c, PathOf(f)) THEN NoFile ELSE f]
        /\ Become(c, r)
    BY <1>3 DEF Ingest, embeddings
  <2>4. JobsInv' /\ job' \in [Admins -> Job]
    BY <1>1, <2>1, <2>3, JobsChange
  <2>5. req' \in [Clients -> Request]
    BY <1>1, <2>1, <2>3, ReqStep
  <2> HIDE DEF f, r
  <2>6. Types'
    BY <1>1, <2>1, <2>3, <2>4, <2>5 DEF Types
  <2> QED
    BY <2>2, <2>4, <2>6 DEF ProjectInv
<1>4. ASSUME IngestFails(c) PROVE ProjectInv'
  <2>1. /\ Become(c, IdleReq) /\ req[c].pc = "ingest" /\ IdleReq.pc = "idle" /\ IdleReq \in Request
        /\ UNCHANGED <<index, left, embeddings, up, backups, crashes, source, unsaved>>
    BY <1>4 DEF IngestFails, Request, IdleReq
  <2>2. EmbedInv' /\ JobsInv' /\ req' \in [Clients -> Request]
    <3>1. EmbedInv'
      BY <1>1, <2>1, EmbedBegin
    <3> QED
      BY <1>1, <2>1, <3>1, JobsFrame, ReqStep
  <2>3. Types'
    BY <1>1, <2>1, <2>2 DEF Types, embeddings, backups
  <2> QED
    BY <2>2, <2>3 DEF ProjectInv
<1>5. ASSUME SetEmbedding(c) PROVE ProjectInv'
  <2> DEFINE r == [req[c] EXCEPT !.pc = "save"]
  <2>1. req[c].content \in Content /\ r \in Request
    <3>1. req[c].pc = "set"
      BY <1>5 DEF SetEmbedding
    <3> QED
      BY <1>1, <3>1, RequestKinds DEF Request, IdleReq
  <2>2. EmbedInv'
    BY <1>1, <1>5, EmbedSet
  <2>3. /\ UNCHANGED <<index, left, up, backups, crashes, source, unsaved>> /\ torn' = FALSE
        /\ vector' = [vector EXCEPT ![PathOf(req[c].file)] = req[c].content]
        /\ saved' = Nothing /\ Become(c, r)
    BY <1>5 DEF SetEmbedding
  <2>4. JobsInv' /\ req' \in [Clients -> Request]
    BY <1>1, <2>1, <2>3, JobsFrame, ReqStep
  <2>5. Nothing \in [Paths -> Content]
    BY BoundFacts DEF Nothing
  <2> HIDE DEF r
  <2>6. Types'
    BY <1>1, <2>1, <2>3, <2>4, <2>5 DEF Types, backups
  <2> QED
    BY <2>2, <2>4, <2>6 DEF ProjectInv
<1>6. ASSUME Save(c) \/ SaveFails(c) PROVE ProjectInv'
  <2>1. /\ UNCHANGED <<index, left, vector, up, backups, crashes, source>>
        /\ Become(c, IdleReq) /\ IdleReq \in Request
        /\ saved' = saved \/ saved' = vector
        /\ torn' = torn \/ torn' \in BOOLEAN
        /\ unsaved' \in BOOLEAN
    BY <1>6 DEF Save, SaveFails, Request
  <2>2. EmbedInv' /\ JobsInv' /\ req' \in [Clients -> Request]
    BY <1>1, <1>6, <2>1, EmbedSave, JobsFrame, ReqStep
  <2>3. Types'
    BY <1>1, <2>1, <2>2 DEF Types, backups
  <2> QED
    BY <2>2, <2>3 DEF ProjectInv
<1> QED
  BY <1>2, <1>3, <1>4, <1>5, <1>6

LEMMA ChangeInv ==
  ASSUME ProjectInv, NEW f \in Files, Put(f) \/ Delete(f)
  PROVE  ProjectInv'
<1>1. Types /\ EmbedInv /\ JobsInv
  BY DEF ProjectInv
<1>2. PICK c \in Content, kind \in Kinds :
        /\ Change(f, c) /\ Call(kind)
        /\ UNCHANGED <<embeddings, up, req, archives, unpacked, crashes, unsaved>>
  <2>1. CASE Put(f)
    BY <1>1, <2>1, NewContent DEF Put, Kinds
  <2>2. CASE Delete(f)
    BY <2>2, BoundFacts DEF Delete, Kinds
  <2> QED
    BY <2>1, <2>2
<1>3. EmbedInv' /\ JobsInv' /\ job' \in [Admins -> Job]
  BY <1>1, <1>2, EmbedChange, JobsChange DEF Change
<1>4. left' \in [Kinds -> Nat] /\ Unwritten(left') <= MaxWrites
  BY <1>1, <1>2, CallType
<1>5. Types'
  BY <1>1, <1>2, <1>3, <1>4 DEF Types, Change, embeddings
<1> QED
  BY <1>3, <1>5 DEF ProjectInv

LEMMA BackupInv ==
  ASSUME ProjectInv, NEW a \in Admins,
         \/ \E pr \in Projects : BackupList(a, pr)
         \/ \E p \in Paths : BackupFile(a, p)
         \/ BackupRename(a) \/ JobFails(a)
  PROVE  ProjectInv'
<1>1. Types /\ EmbedInv /\ JobsInv
  BY DEF ProjectInv
<1>2. /\ UNCHANGED <<index, embeddings, up, req, crashes, source, unsaved>>
      /\ left' = left \/ Call("backup")
  BY DEF BackupList, BackupFile, BackupRename, JobFails
<1>3. JobsInv' /\ JobTypes'
  BY <1>1, ListInv, TakeInv, RenameInv, FailsInv
<1>4. EmbedInv'
  BY <1>1, <1>2, EmbedFrame
<1>5. left' \in [Kinds -> Nat] /\ Unwritten(left') <= MaxWrites
  <2>1. CASE left' = left
    BY <1>1, <2>1 DEF Types, Unwritten
  <2>2. CASE Call("backup")
    BY <1>1, <2>2, CallType DEF Kinds
  <2> QED
    BY <1>2, <2>1, <2>2
<1>6. Types'
  BY <1>1, <1>2, <1>3, <1>5 DEF Types, JobTypes, embeddings
<1> QED
  BY <1>3, <1>4, <1>6 DEF ProjectInv

LEMMA RestoreInv ==
  ASSUME ProjectInv, NEW a \in Admins,
         \/ \E n \in DOMAIN archives : RestoreBegin(a, n)
         \/ \E p \in Paths : Unpack(a, p)
         \/ Walk(a) \/ RestoreEnd(a)
  PROVE  ProjectInv'
<1>1. Types /\ EmbedInv /\ JobsInv
  BY DEF ProjectInv
<1>2. /\ UNCHANGED <<index, embeddings, up, req, crashes, source, unsaved>>
      /\ left' = left \/ Call("restore")
  BY DEF RestoreBegin, RestoreInto, Unpack, Walk, RestoreEnd
<1>3. JobsInv' /\ JobTypes'
  BY <1>1, BeginInv, UnpackInv, WalkInv, EndInv
<1>4. EmbedInv'
  BY <1>1, <1>2, EmbedFrame
<1>5. left' \in [Kinds -> Nat] /\ Unwritten(left') <= MaxWrites
  <2>1. CASE left' = left
    BY <1>1, <2>1 DEF Types, Unwritten
  <2>2. CASE Call("restore")
    BY <1>1, <2>2, CallType DEF Kinds
  <2> QED
    BY <1>2, <2>1, <2>2
<1>6. Types'
  BY <1>1, <1>2, <1>3, <1>5 DEF Types, JobTypes, embeddings
<1> QED
  BY <1>3, <1>4, <1>6 DEF ProjectInv

LEMMA RestoredInv ==
  ASSUME ProjectInv, NEW a \in Admins, NEW p \in Paths, RestoreFile(a, p)
  PROVE  ProjectInv'
<1>1. Types /\ EmbedInv /\ JobsInv
  BY DEF ProjectInv
<1>2. JobsInv' /\ JobTypes' /\ EmbedInv' /\ index' \in [Files -> Content]
  BY <1>1, RestoreFileInv
<1>3. /\ UNCHANGED <<left, embeddings, up, req, crashes, unsaved>>
      /\ source' = [source EXCEPT ![p] = NoFile]
  BY DEF RestoreFile
<1>4. Types'
  BY <1>1, <1>2, <1>3 DEF Types, JobTypes, embeddings, Unwritten
<1> QED
  BY <1>2, <1>4 DEF ProjectInv

LEMMA RestartInv ==
  ASSUME ProjectInv, Restart
  PROVE  ProjectInv'
<1>1. Types /\ EmbedInv /\ JobsInv
  BY DEF ProjectInv
<1>2. JobsInv' /\ JobTypes' /\ EmbedInv'
  BY <1>1, RestartJobs, EmbedRestart
<1>3. /\ torn' \in BOOLEAN /\ up' \in BOOLEAN
      /\ UNCHANGED <<index, left, saved, unsaved>> /\ vector' = saved
      /\ req' = [c \in Clients |-> IdleReq]
  BY <1>1 DEF Restart, Types
<1>4. crashes' \in 0 .. MaxCrashes
  BY <1>1, BoundsAssumption DEF Restart, Types
<1>5. source' \in [Paths -> Files \cup {NoFile}]
  BY <1>1 DEF Restart, Types
<1>6. req' \in [Clients -> Request]
  BY <1>3 DEF Request
<1>7. Types'
  BY <1>1, <1>2, <1>3, <1>4, <1>5, <1>6 DEF Types, JobTypes, Unwritten
<1> QED
  BY <1>2, <1>7 DEF ProjectInv

LEMMA NextInv == ProjectInv /\ [Next]_vars => ProjectInv'
<1> SUFFICES ASSUME ProjectInv, [Next]_vars PROVE ProjectInv'
  OBVIOUS
<1>1. ASSUME NEW c \in Clients,
             \/ \E f \in Files : BeginWrite(c, f)
             \/ Ingest(c) \/ IngestFails(c) \/ SetEmbedding(c) \/ Save(c) \/ SaveFails(c)
      PROVE  ProjectInv'
  BY <1>1, WriteInv
<1>2. ASSUME NEW f \in Files, Put(f) \/ Delete(f) PROVE ProjectInv'
  BY <1>2, ChangeInv
<1>3. ASSUME NEW a \in Admins,
             \/ \E pr \in Projects : BackupList(a, pr)
             \/ \E p \in Paths : BackupFile(a, p) \/ Unpack(a, p) \/ RestoreFile(a, p)
             \/ BackupRename(a) \/ JobFails(a)
             \/ \E n \in DOMAIN archives : RestoreBegin(a, n)
             \/ Walk(a) \/ RestoreEnd(a)
      PROVE  ProjectInv'
  BY <1>3, BackupInv, RestoreInv, RestoredInv
<1>4. CASE Restart
  BY <1>4, RestartInv
<1>5. CASE UNCHANGED vars
  <2>1. /\ UNCHANGED <<index, left, embeddings, up, req, backups, crashes, source, unsaved>>
        /\ Types /\ EmbedInv /\ JobsInv
    BY <1>5 DEF vars, ProjectInv
  <2>2. EmbedInv' /\ JobsInv'
    BY <2>1, EmbedFrame, JobsFrame
  <2>3. Types'
    BY <2>1 DEF Types, embeddings, backups, Unwritten
  <2> QED
    BY <2>2, <2>3 DEF ProjectInv
<1> QED
  BY <1>1, <1>2, <1>3, <1>4, <1>5 DEF Next

\* The inductive invariant of the files, the embeddings and the jobs.
THEOREM ProjectInvariance == Spec => []ProjectInv
BY InitInv, NextInv, PTL DEF Spec

\* Files, embeddings, requests, jobs and archives have their types, and one client
\* at most holds the mutex of the embeddings (EmbeddingIndex).
THEOREM TypeCorrect == Spec => []TypeOK
<1>1. ProjectInv => TypeOK
  BY TypesHold DEF ProjectInv, EmbedInv
<1> QED
  BY <1>1, ProjectInvariance, PTL

\* The embedding of a path is that of the file written there last, in memory and,
\* if no save failed, in embeddings.json, wherever the code promises one.
THEOREM EmbeddingsAreFresh == Spec => []EmbeddingsFollowWrites
<1>1. ProjectInv => EmbeddingsFollowWrites
  BY DEF ProjectInv, EmbedInv, SourceOf, SavedInv, Settled, EmbeddingsFollowWrites
<1> QED
  BY <1>1, ProjectInvariance, PTL

-----------------------------------------------------------------------------
(* What a backup and a restore have done when they end.                     *)

\* Of the steps, only one renames an archive, and the job it ends had taken all
\* its files.
LEMMA VisibleArchive ==
  ASSUME ProjectInv, [Next]_vars, archives' # archives,
         NEW a \in Admins, job[a].pc = "backup", job'[a] = IdleJob
  PROVE  LET data == archives'[Len(archives')].data
         IN  /\ Entries(data) = job[a].listed
             /\ \A p \in job[a].listed :
                  \/ data[p] \in job[a].seen[p]
                  \/ data[p] = Empty /\ Absent \in job[a].seen[p]
<1>1. PICK b \in Admins : BackupRename(b)
  BY ZenonT(60) DEF Next, vars, backups, BeginWrite, Ingest, IngestFails, SetEmbedding, Save, SaveFails,
         Put, Delete, BackupList, BackupFile, JobFails, RestoreBegin, RestoreInto, Unpack,
         Walk, RestoreFile, RestoreEnd, Restart
<1>2. Types /\ JobInv(a)
  BY DEF ProjectInv, JobsInv
<1>3. a = b
  <2> SUFFICES ASSUME a # b PROVE FALSE
    OBVIOUS
  <2>1. job'[a] = job[a]
    BY <1>1, <1>2 DEF BackupRename, Assign, Types
  <2> QED
    BY <2>1, IdleIsJob
<1>4. PICK j, e : j = job[a] /\ e = [project |-> j.project, data |-> j.data]
  OBVIOUS
<1>5. j \in Backup /\ BackupOf(j) /\ j.todo = {} /\ archives' = Append(archives, e)
  BY <1>1, <1>2, <1>3, <1>4, JobFacts DEF BackupRename, Archived, JobInv
<1>6. archives'[Len(archives')] = e
  <2>1. e \in [project : Projects, data : [Paths -> Content]]
    BY <1>4, <1>5, BackupFields
  <2>2. ASSUME NEW S, NEW s \in Seq(S), e \in S
        PROVE  Append(s, e)[Len(Append(s, e))] = e
    BY <2>2
  <2> QED
    BY <1>2, <1>5, <2>1, <2>2 DEF Types
<1>7. /\ Entries(j.data) = j.listed
      /\ \A p \in j.listed :
           \/ j.data[p] \in j.seen[p]
           \/ j.data[p] = Empty /\ Absent \in j.seen[p]
  BY <1>5, BackupFields DEF BackupOf, Entries
<1> QED
  BY <1>4, <1>6, <1>7, SMTT(60)

\* Of the steps, only the end of a restore empties its directory and ends a walk.
LEMMA RestoreDone ==
  ASSUME ProjectInv, [Next]_vars,
         NEW a \in Admins, job[a].pc = "walk", job[a].alone, job'[a] = IdleJob,
         unpacked' # unpacked
  PROVE  \A p \in Paths \ job[a].touched :
           Now(job[a].project, p) =
             IF job[a].data[p] = Absent THEN job[a].before[p] ELSE job[a].data[p]
<1>1. \E b \in Admins : \/ RestoreEnd(b)
                        \/ \E p \in Paths : Unpack(b, p)
                        \/ \E n \in DOMAIN archives : RestoreBegin(b, n)
  BY ZenonT(60) DEF Next, vars, backups, BeginWrite, Ingest, IngestFails, SetEmbedding, Save, SaveFails,
         Put, Delete, BackupList, BackupFile, JobFails, BackupRename,
         Walk, RestoreFile, Restart
<1>2. Types /\ JobInv(a) /\ IdleJob.pc = "idle"
  BY IdleIsJob DEF ProjectInv, JobsInv
<1>3. RestoreEnd(a)
  <2>1. ASSUME NEW b \in Admins, RestoreEnd(b) PROVE b = a
    <3>1. CASE b # a
      <4>1. job'[a] = job[a]
        BY <1>2, <2>1, <3>1 DEF RestoreEnd, Assign, Types
      <4> QED
        BY <1>2, <4>1
    <3> QED
      BY <3>1
  <2>2. ASSUME NEW b \in Admins, NEW p \in Paths, Unpack(b, p) PROVE FALSE
    <3>1. b # a
      BY <2>2 DEF Unpack
    <3>2. job'[a] = job[a]
      BY <1>2, <2>2, <3>1 DEF Unpack, Assign, Types
    <3> QED
      BY <1>2, <3>2
  <2>3. ASSUME NEW b \in Admins, NEW n \in DOMAIN archives, RestoreBegin(b, n) PROVE FALSE
    <3>1. b # a
      BY <1>2, <2>3 DEF RestoreBegin, RestoreInto
    <3>2. job'[a] = job[a] \/ job'[a] = [job[a] EXCEPT !.alone = FALSE]
      BY <2>3, <3>1 DEF RestoreBegin, RestoreInto
    <3>3. job[a] \in Restore
      BY <1>2, JobFacts
    <3>4. job'[a].pc = "walk"
      BY <3>2, <3>3, RestoreJoined
    <3> QED
      BY <1>2, <3>4
  <2> QED
    BY <1>1, <2>1, <2>2, <2>3
<1>4. RestoreOf(a, job[a]) /\ job[a].todo = {}
  BY <1>2, <1>3 DEF RestoreEnd, JobInv
<1>5. WalkOf(job[a])
  BY <1>4 DEF RestoreOf
<1> QED
  BY <1>4, <1>5 DEF WalkOf

\* An archive that becomes visible has every file that the project had when the
\* backup began (create_project_backup), each with a content it had since then.
THEOREM ArchivesAreFaithful == Spec => BackupFaithful
<1>1. ProjectInv /\ [Next]_vars =>
        [\A a \in Admins :
           archives' # archives /\ job[a].pc = "backup" /\ job'[a] = IdleJob
             => LET data == archives'[Len(archives')].data
                IN  /\ Entries(data) = job[a].listed
                    /\ \A p \in job[a].listed :
                         \/ data[p] \in job[a].seen[p]
                         \/ data[p] = Empty /\ Absent \in job[a].seen[p]]_archives
  BY VisibleArchive
<1> QED
  BY <1>1, ProjectInvariance, PTL DEF Spec, BackupFaithful

\* A restore that no other one ran into leaves each archived file as archived and
\* every other one as it was, but for what was written meanwhile
\* (restore_project_backup).
THEOREM RestoresAreExact == Spec => RestoreExact
<1>1. ProjectInv /\ [Next]_vars =>
        [\A a \in Admins :
           job[a].pc = "walk" /\ job[a].alone /\ job'[a] = IdleJob /\ unpacked' # unpacked
           => \A p \in Paths \ job[a].touched :
                Now(job[a].project, p) =
                  IF job[a].data[p] = Absent THEN job[a].before[p] ELSE job[a].data[p]]_job
  BY RestoreDone
<1> QED
  BY <1>1, ProjectInvariance, PTL DEF Spec, RestoreExact
===============================================================================
