-------------------------------- MODULE Project --------------------------------
(***************************************************************************)
(* What the server derives from the files of its projects: the embedding   *)
(* index that search reads (crates/proxygit-server/src/embeddings.rs) and  *)
(* the backup archives (create_project_backup and restore_project_backup,  *)
(* crates/proxygit-server/src/lib.rs).                                     *)
(*                                                                         *)
(* A file is a project and a path.  Its content is the number of the write *)
(* that made it; FileServer has the blocks behind it, which no one removes *)
(* again, so a content read once can be read later.  The embedding of a    *)
(* content stands for the content.  The index of embeddings has one mutex, *)
(* no projects, and is saved whole after every change, by truncating and   *)
(* rewriting its file.  An archive takes the files one by one; a restore   *)
(* unpacks it into a directory that all restores of the project share, and *)
(* then stores file by file what it finds there.                           *)
(***************************************************************************)
EXTENDS Naturals, Sequences, FiniteSetsExt

CONSTANTS
  Files,         \* <<project, path>> pairs
  Clients,       \* those who write files
  Admins,        \* those who make and restore backups
  Budgets,       \* bound of the model: how many calls of each kind there may be
  MaxCrashes     \* bound of the model: restarts of the server

Kinds == {"write", "put", "delete", "backup", "restore"}

ASSUME FilesAssumption == \A f \in Files : f = <<f[1], f[2]>>
ASSUME BoundsAssumption ==
  Budgets \subseteq [Kinds -> Nat] /\ MaxCrashes \in Nat

ProjectOf(f) == f[1]
PathOf(f) == f[2]
Projects == {ProjectOf(f) : f \in Files}
Paths == {PathOf(f) : f \in Files}

\* A content is known by the number of writes that were left when it was written.
Unwritten(b) == b["write"] + b["put"]
MaxWrites == Max({Unwritten(b) : b \in Budgets})
\* Some budget has the most writes.
ASSUME MostWrites == \E b \in Budgets : \A d \in Budgets : Unwritten(d) <= Unwritten(b)
Writes == 1 .. MaxWrites
Empty == 0                     \* the content without a byte
Absent == MaxWrites + 1        \* no such file
Content == Writes \cup {Empty, Absent}
NoFile == <<"none", "none">>
Nothing == [p \in Paths |-> Absent]

VARIABLES
  index,     \* [Files -> content]
  left,      \* [Kinds -> calls that may still be made]
  vector,    \* [Paths -> the content whose embedding the index has]
  saved,     \* ... and the one in embeddings.json
  torn,      \* embeddings.json is not JSON
  up,        \* the server runs
  req,       \* [Clients -> the write that the server handles for the client]
  job,       \* [Admins -> the backup or restore that it handles for the admin]
  archives,  \* sequence of the visible archives: [project, data]
  unpacked,  \* [Projects -> what is in the project's restore directory]
  crashes,   \* number of restarts
  source,    \* history: [Paths -> the file whose content its embedding must
             \* be of, or NoFile when the code promises nothing]
  unsaved    \* history: a save has failed since the last good one

embeddings == <<vector, saved, torn>>
backups == <<job, archives, unpacked>>
vars == <<index, left, embeddings, up, req, backups, crashes, source, unsaved>>

IdleReq == [pc |-> "idle"]
Request == {IdleReq} \cup [pc : {"ingest", "set", "save"}, file : Files, content : Writes]

IdleJob == [pc |-> "idle"]
\* seen, before, touched, alone: history, what happened to the files meanwhile.
Backup == [pc : {"backup"}, project : Projects, listed : SUBSET Paths,
           todo : SUBSET Paths, data : [Paths -> Content],
           seen : [Paths -> SUBSET Content]]
Restore == [pc : {"unpack", "walk"}, project : Projects, todo : SUBSET Paths,
            data : [Paths -> Content], before : [Paths -> Content],
            touched : SUBSET Paths, alone : BOOLEAN]

TypeOK ==
  /\ index \in [Files -> Content]
  /\ left \in [Kinds -> Nat] /\ Unwritten(left) <= MaxWrites
  /\ vector \in [Paths -> Content] /\ saved \in [Paths -> Content]
  /\ torn \in BOOLEAN /\ up \in BOOLEAN /\ unsaved \in BOOLEAN
  /\ req \in [Clients -> Request]
  /\ Cardinality({c \in Clients : req[c].pc = "save"}) <= 1
  /\ \A a \in Admins : job[a] = IdleJob \/ job[a] \in Backup \/ job[a] \in Restore
  /\ archives \in Seq([project : Projects, data : [Paths -> Content]])
  /\ unpacked \in [Projects -> [Paths -> Content]]
  /\ crashes \in 0 .. MaxCrashes
  /\ source \in [Paths -> Files \cup {NoFile}]

Init ==
  /\ index \in {[f \in Files |-> c] : c \in {Absent, Empty}}
  /\ left \in Budgets /\ crashes = 0
  /\ vector = Nothing /\ saved = Nothing
  /\ torn = FALSE /\ up = TRUE /\ unsaved = FALSE
  /\ req = [c \in Clients |-> IdleReq]
  /\ job = [a \in Admins |-> IdleJob]
  /\ archives = <<>>
  /\ unpacked = [pr \in Projects |-> Nothing]
  /\ source = [p \in Paths |-> NoFile]

\* The file of path p in project pr, if the model has it.
Now(pr, p) == IF <<pr, p>> \in Files THEN index[<<pr, p>>] ELSE Absent

\* The jobs after f became c: history.
Noticed(f, c) ==
  [a \in Admins |->
     CASE job[a].pc = "idle" \/ job[a].project # ProjectOf(f) -> job[a]
       [] OTHER ->
            IF job[a].pc = "backup"
            THEN [job[a] EXCEPT !.seen[PathOf(f)] = @ \cup {c}]
            ELSE [job[a] EXCEPT !.touched = @ \cup {PathOf(f)}]]

Call(kind) == left[kind] > 0 /\ left' = [left EXCEPT ![kind] = @ - 1]

Become(c, r) == req' = [req EXCEPT ![c] = r]

-----------------------------------------------------------------------------
(* Writes.  The embedding follows the ingest, under its mutex.              *)

\* A QUIC write, full or sparse, has stored its blocks.
BeginWrite(c, f) ==
  /\ up /\ req[c] = IdleReq
  /\ Call("write")
  /\ Become(c, [pc |-> "ingest", file |-> f, content |-> Unwritten(left)])
  /\ UNCHANGED <<index, embeddings, up, backups, crashes, source, unsaved>>

\* Another write of the path waits for the mutex: the two may set the embedding
\* in the other order than they ingested.
Overlapped(c, p) ==
  \E d \in Clients \ {c} : req[d].pc = "set" /\ PathOf(req[d].file) = p

Ingest(c) ==
  LET f == req[c].file
  IN  /\ up /\ req[c].pc = "ingest"
      /\ index' = [index EXCEPT ![f] = req[c].content]
      /\ Become(c, [req[c] EXCEPT !.pc = "set"])
      /\ job' = Noticed(f, req[c].content)
      /\ source' = [source EXCEPT ![PathOf(f)] =
                      IF Overlapped(c, PathOf(f)) THEN NoFile ELSE f]
      /\ UNCHANGED <<left, embeddings, up, archives, unpacked, crashes, unsaved>>

IngestFails(c) ==
  /\ up /\ req[c].pc = "ingest"
  /\ Become(c, IdleReq)
  /\ UNCHANGED <<index, left, embeddings, up, backups, crashes, source, unsaved>>

Locked == \E c \in Clients : req[c].pc = "save"

\* Faulty: one that does not wait for the mutex.
SetEmbeddingUnlocked(c) ==
  /\ up /\ req[c].pc = "set"
  /\ vector' = [vector EXCEPT ![PathOf(req[c].file)] = req[c].content]
  /\ saved' = Nothing /\ torn' = FALSE
  /\ Become(c, [req[c] EXCEPT !.pc = "save"])
  /\ UNCHANGED <<index, left, up, backups, crashes, source, unsaved>>

\* EmbeddingIndex::set, and the beginning of save: the file is truncated.
SetEmbedding(c) ==
  LET p == PathOf(req[c].file)
  IN  /\ up /\ req[c].pc = "set" /\ ~Locked
      /\ vector' = [vector EXCEPT ![p] = req[c].content]
      /\ saved' = Nothing /\ torn' = FALSE
      /\ Become(c, [req[c] EXCEPT !.pc = "save"])
      /\ UNCHANGED <<index, left, up, backups, crashes, source, unsaved>>

\* Faulty: a save of this embedding over what the file had, without the others.
SaveOwn(c) ==
  /\ up /\ req[c].pc = "save"
  /\ saved' = [saved EXCEPT ![PathOf(req[c].file)] = req[c].content]
  /\ unsaved' = FALSE
  /\ Become(c, IdleReq)
  /\ UNCHANGED <<index, left, vector, torn, up, backups, crashes, source>>

\* The end of save, of the mutex and of the request.
Save(c) ==
  /\ up /\ req[c].pc = "save"
  /\ saved' = vector /\ unsaved' = FALSE
  /\ Become(c, IdleReq)
  /\ UNCHANGED <<index, left, vector, torn, up, backups, crashes, source>>

\* A save that fails is only warned of; the file is empty or half written.
SaveFails(c) ==
  /\ up /\ req[c].pc = "save"
  /\ torn' \in BOOLEAN /\ unsaved' = TRUE
  /\ Become(c, IdleReq)
  /\ UNCHANGED <<index, left, vector, saved, up, backups, crashes, source>>

\* PUT and DELETE over WebDAV: the embedding stays as it was.
Change(f, c) ==
  /\ index' = [index EXCEPT ![f] = c]
  /\ job' = Noticed(f, c)
  /\ source' = [source EXCEPT ![PathOf(f)] = NoFile]

Put(f) ==
  /\ up /\ Call("put")
  /\ Change(f, Unwritten(left))
  /\ UNCHANGED <<embeddings, up, req, archives, unpacked, crashes, unsaved>>

Delete(f) ==
  /\ up /\ index[f] # Absent
  /\ Call("delete")
  /\ Change(f, Absent)
  /\ UNCHANGED <<embeddings, up, req, archives, unpacked, crashes, unsaved>>

-----------------------------------------------------------------------------
(* Backups.                                                                 *)

Assign(a, j) == job' = [job EXCEPT ![a] = j]

\* The listing.
BackupList(a, pr) ==
  /\ up /\ job[a] = IdleJob
  /\ Call("backup")
  /\ LET list == {p \in Paths : Now(pr, p) # Absent}
     IN  Assign(a, [pc |-> "backup", project |-> pr, listed |-> list, todo |-> list,
                    data |-> Nothing, seen |-> [p \in Paths |-> {Now(pr, p)}]])
  /\ UNCHANGED <<index, embeddings, up, req, archives, unpacked, crashes,
                 source, unsaved>>

\* The blocks of one listed file; one that was deleted meanwhile has none, and
\* goes into the archive without a byte.
BackupFile(a, p) ==
  /\ up /\ job[a].pc = "backup" /\ p \in job[a].todo
  /\ LET c == Now(job[a].project, p)
     IN  Assign(a, [job[a] EXCEPT !.todo = @ \ {p},
                                  !.data[p] = IF c = Absent THEN Empty ELSE c])
  /\ UNCHANGED <<index, left, embeddings, up, req, archives, unpacked, crashes,
                 source, unsaved>>

Archived(a) == archives' = Append(archives, [project |-> job[a].project,
                                             data |-> job[a].data])

\* Faulty: the archive is written where backups are listed.
BackupInPlace(a) ==
  /\ up /\ job[a].pc = "backup"
  /\ Archived(a)
  /\ Assign(a, IdleJob)
  /\ UNCHANGED <<index, left, embeddings, up, req, unpacked, crashes,
                 source, unsaved>>

\* The archive is finished, synced and renamed.
BackupRename(a) ==
  /\ up /\ job[a].pc = "backup" /\ job[a].todo = {}
  /\ Archived(a)
  /\ Assign(a, IdleJob)
  /\ UNCHANGED <<index, left, embeddings, up, req, unpacked, crashes,
                 source, unsaved>>

\* Any step of a backup or restore may fail: what it did stays.
JobFails(a) ==
  /\ up /\ job[a] # IdleJob
  /\ Assign(a, IdleJob)
  /\ UNCHANGED <<index, left, embeddings, up, req, archives, unpacked, crashes,
                 source, unsaved>>

Entries(data) == {p \in Paths : data[p] # Absent}
Restoring(a, pr) == job[a].pc \in {"unpack", "walk"} /\ job[a].project = pr

RestoreInto(a, n, dir) ==
  LET pr == archives[n].project
  IN  /\ up /\ job[a] = IdleJob
      /\ Call("restore")
      /\ unpacked' = [unpacked EXCEPT ![pr] = dir]
      /\ job' = [b \in Admins |->
           CASE b = a ->
                  [pc |-> "unpack", project |-> pr, data |-> archives[n].data,
                   todo |-> Entries(archives[n].data),
                   before |-> [p \in Paths |-> Now(pr, p)], touched |-> {},
                   alone |-> ~\E d \in Admins : Restoring(d, pr)]
             [] b # a /\ Restoring(b, pr) -> [job[b] EXCEPT !.alone = FALSE]
             [] OTHER -> job[b]]
      /\ UNCHANGED <<index, embeddings, up, req, archives, crashes, source,
                     unsaved>>

\* Faulty: a restore that leaves in the directory what an earlier one left there.
RestoreBeginDirty(a, n) == RestoreInto(a, n, unpacked[archives[n].project])

\* The directory is removed and made again.
RestoreBegin(a, n) == RestoreInto(a, n, Nothing)

Unpack(a, p) ==
  LET pr == job[a].project
  IN  /\ up /\ job[a].pc = "unpack" /\ p \in job[a].todo
      /\ unpacked' = [unpacked EXCEPT ![pr][p] = job[a].data[p]]
      /\ Assign(a, [job[a] EXCEPT !.todo = @ \ {p}])
      /\ UNCHANGED <<index, left, embeddings, up, req, archives, crashes,
                     source, unsaved>>

\* The walk over the directory begins: it finds what is there.
Walk(a) ==
  /\ up /\ job[a].pc = "unpack" /\ job[a].todo = {}
  /\ Assign(a, [job[a] EXCEPT !.pc = "walk",
                              !.todo = Entries(unpacked[job[a].project])])
  /\ UNCHANGED <<index, left, embeddings, up, req, archives, unpacked, crashes,
                 source, unsaved>>

\* One file is read, stored and ingested.  The embedding stays as it was.  For
\* the other jobs the restore is a writer like any other.
RestoreFile(a, p) ==
  LET pr == job[a].project
      c == unpacked[pr][p]
      f == <<pr, p>>
  IN  /\ up /\ job[a].pc = "walk" /\ p \in job[a].todo
      /\ c # Absent
      /\ index' = [index EXCEPT ![f] = c]
      /\ job' = [Noticed(f, c) EXCEPT ![a] = [job[a] EXCEPT !.todo = @ \ {p}]]
      /\ source' = [source EXCEPT ![p] = NoFile]
      /\ UNCHANGED <<left, embeddings, up, req, archives, unpacked, crashes,
                     unsaved>>

\* The directory is removed and the restore reported.
RestoreEnd(a) ==
  /\ up /\ job[a].pc = "walk" /\ job[a].todo = {}
  /\ unpacked' = [unpacked EXCEPT ![job[a].project] = Nothing]
  /\ Assign(a, IdleJob)
  /\ UNCHANGED <<index, left, embeddings, up, req, archives, crashes, source,
                 unsaved>>

-----------------------------------------------------------------------------
(* The server is killed, at any step, and started again.  It loads the saved *)
(* embeddings; an empty file loads as none, a torn one ends the start.       *)

Restart ==
  /\ up /\ crashes < MaxCrashes
  /\ crashes' = crashes + 1
  /\ torn' \in IF Locked THEN BOOLEAN ELSE {torn}
  /\ up' = ~torn'
  /\ vector' = saved
  /\ req' = [c \in Clients |-> IdleReq]
  /\ job' = [a \in Admins |-> IdleJob]
  /\ source' = [p \in Paths |->
       IF Locked \/ unsaved \/ \E c \in Clients : req[c].pc = "set"
                                                  /\ PathOf(req[c].file) = p
       THEN NoFile ELSE source[p]]
  /\ UNCHANGED <<index, left, saved, archives, unpacked, unsaved>>

Next ==
  \/ \E c \in Clients : \/ \E f \in Files : BeginWrite(c, f)
                        \/ Ingest(c) \/ IngestFails(c)
                        \/ SetEmbedding(c) \/ Save(c) \/ SaveFails(c)
  \/ \E f \in Files : Put(f) \/ Delete(f)
  \/ \E a \in Admins : \/ \E pr \in Projects : BackupList(a, pr)
                       \/ \E p \in Paths : \/ BackupFile(a, p)
                                           \/ Unpack(a, p) \/ RestoreFile(a, p)
                       \/ BackupRename(a) \/ JobFails(a)
                       \/ \E n \in DOMAIN archives : RestoreBegin(a, n)
                       \/ Walk(a) \/ RestoreEnd(a)
  \/ Restart

Spec == Init /\ [][Next]_vars

-----------------------------------------------------------------------------
(* Properties.                                                              *)

\* The embedding of a path is that of the file written there last, in memory and,
\* if no save failed, in embeddings.json, once the write is through: unless a
\* PUT, a DELETE, a restore or an overlapping write came in between, or the
\* server was killed before the embedding was saved.
EmbeddingsFollowWrites ==
  \A p \in Paths :
    /\ up /\ source[p] # NoFile
    /\ \A c \in Clients : req[c].pc = "set" => PathOf(req[c].file) # p
    => /\ vector[p] = index[source[p]]
       /\ (~Locked /\ ~unsaved) => (saved[p] = vector[p] /\ ~torn)

\* An archive that is visible has every file that the project had when the
\* backup began, each with a content that it had since then, or without a byte
\* if it was deleted in that time.
BackupFaithful ==
  [][\A a \in Admins :
       archives' # archives /\ job[a].pc = "backup" /\ job'[a] = IdleJob
         => LET data == archives'[Len(archives')].data
            IN  /\ Entries(data) = job[a].listed
                /\ \A p \in job[a].listed :
                     \/ data[p] \in job[a].seen[p]
                     \/ data[p] = Empty /\ Absent \in job[a].seen[p]]_archives

\* A restore that no other restore of the project ran into leaves every archived
\* file with its archived content and every other file as it was, but for those
\* that were written meanwhile.
RestoreExact ==
  [][\A a \in Admins :
       job[a].pc = "walk" /\ job[a].alone /\ job'[a] = IdleJob /\ unpacked' # unpacked
       => \A p \in Paths \ job[a].touched :
            Now(job[a].project, p) =
              IF job[a].data[p] = Absent THEN job[a].before[p] ELSE job[a].data[p]]_job
=============================================================================
