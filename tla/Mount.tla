--------------------------------- MODULE Mount ---------------------------------
(***************************************************************************)
(* The FUSE mount between three parties: the kernel, whose calls one FUSE  *)
(* thread answers (FuseFilesystem, crates/proxygit-client/src/             *)
(* fuse_mount.rs), the flush worker of the same process, and everyone else *)
(* who writes the project on the server.                                   *)
(*                                                                         *)
(* A path is a sequence of names.  The content of a file is a sequence of  *)
(* write numbers, one per byte written; 0 is a byte nobody wrote.  The     *)
(* kernel side is external: it walks paths from the root, keeps the        *)
(* attributes it was given, appends at the size it knows, asks again when  *)
(* it likes (the 1 s the handlers allow are not counted), and creates a    *)
(* file only after a lookup has answered ENOENT.  Its page cache is left   *)
(* out: reads are those that reach the handler.                            *)
(*                                                                         *)
(* The write-ahead log is, for each file, the sequence of its records      *)
(* (WalFlush shows that the records of a path reach the server in order,   *)
(* whatever fails).  It and the read cache lie in fixed directories: both  *)
(* survive a remount, also one of another project, and neither names a     *)
(* project.                                                                *)
(***************************************************************************)
EXTENDS Naturals, Sequences, SequencesExt, FiniteSetsExt

CONSTANTS
  Projects,     \* projects on the server
  Files,        \* source files, as paths
  BuildFiles,   \* build artifacts and their directories, as paths
  BuildNames,   \* target, node_modules, .next, DerivedData
  CacheTTL,     \* ticks for which a file of the read cache is valid
  MaxWrites,    \* bound of the model: write calls, by the mount and by others
  MaxRemounts   \* bound of the model: times the client is killed and started

\* is_build_path: a build name with something after it, or alone at the top.
IsBuildPath(p) ==
  \/ \E i \in 1 .. Len(p) - 1 : p[i] \in BuildNames
  \/ Len(p) = 1 /\ p[1] \in BuildNames

ASSUME PathsAssumption ==
  /\ Files # {} /\ Projects # {}
  /\ \A p \in Files \cup BuildFiles : p \in Seq(STRING) /\ p # <<>>
  /\ \A p \in Files : ~IsBuildPath(p)
  /\ \A p \in BuildFiles : IsBuildPath(p)
ASSUME BoundsAssumption ==
  CacheTTL \in Nat \ {0} /\ MaxWrites \in Nat /\ MaxRemounts \in Nat

Root == <<>>
Parent(p) == SubSeq(p, 1, Len(p) - 1)
Below(p, d) == IsStrictPrefix(d, p)
Paths == UNION {{SubSeq(p, 1, n) : n \in 0 .. Len(p)} : p \in Files \cup BuildFiles}
Build == {p \in Paths : IsBuildPath(p)}

Writes == 1 .. MaxWrites
Hole == 0
Contents == UNION {[1 .. n -> {Hole} \cup Writes] : n \in 0 .. MaxWrites + 1}
Absent == <<MaxWrites + 1>>    \* no file: no write has this number
None == [kind |-> "none"]

\* The file name of a cached read is the hash of the path the kernel uses, which
\* starts with a slash; the flush worker hashes the path without it.
CacheKey(p) == <<"/">> \o p
FlushKey(p) == p
Keys == {CacheKey(p) : p \in Files} \cup {FlushKey(p) : p \in Files}

VARIABLES
  server,    \* [Projects -> [Files -> content, or Absent]]
  writes,    \* number of write calls so far
  due,       \* history: [Projects -> [Files -> the writes made to the file while the
             \* project was mounted, or in the log when it was]]
  project,   \* the project that is mounted
  attr,      \* [Paths -> what the kernel knows of the path; history: sure, FALSE
             \* once the size may be wrong for a reason SizeTrusted names]
  call,      \* the read that the FUSE thread has fetched but not yet stored
  cache,     \* [Keys -> None or [data, age in ticks]]
  local,     \* [Build -> what is in the build cache directory of the project]
  wal,       \* [Files -> sequence of records [off, id] not yet removed from the log]
  flush,     \* the flush worker
  remounts   \* number of remounts so far

vars == <<server, writes, due, project, attr, call, cache, local, wal, flush, remounts>>

Records == [off : 0 .. MaxWrites, id : Writes]
Attrs == {None, [kind |-> "dir"]}
         \cup [kind : {"file"}, size : 0 .. MaxWrites + 1, sure : BOOLEAN]

\* The build cache directory is a tree, with artifacts as its leaves.
Trees == {l \in [Build -> {"none", "dir", "file"}] :
            \A p \in Build : /\ l[p] = "file" => p \in BuildFiles
                             /\ l[p] = "dir" => p \notin BuildFiles
                             /\ l[p] # "none" /\ Parent(p) \in Build
                                  => l[Parent(p)] = "dir"}

TypeOK ==
  /\ server \in [Projects -> [Files -> Contents \cup {Absent}]]
  /\ writes \in 0 .. MaxWrites
  /\ due \in [Projects -> [Files -> SUBSET Writes]]
  /\ project \in Projects
  /\ attr \in [Paths -> Attrs]
  /\ call = None \/ call \in [path : Files, data : Contents]
  /\ \A k \in Keys : \/ cache[k] = None
                     \/ cache[k] \in [data : Contents \ {<<>>}, age : 0 .. CacheTTL]
  /\ local \in Trees
  /\ wal \in [Files -> Seq(Records)]
  /\ flush = None \/ flush \in [path : Files, take : Nat, base : Contents,
                                overtaken : BOOLEAN]
  /\ remounts \in 0 .. MaxRemounts

Init ==
  /\ server \in [Projects -> [Files -> {Absent, <<Hole>>}]]
  /\ writes = 0 /\ remounts = 0
  /\ due = [pr \in Projects |-> [p \in Files |-> {}]]
  /\ project \in Projects
  /\ attr = [p \in Paths |-> IF p = Root THEN [kind |-> "dir"] ELSE None]
  /\ call = None
  /\ cache = [k \in Keys |-> None]
  /\ local \in Trees
  /\ wal = [p \in Files |-> <<>>] /\ flush = None

-----------------------------------------------------------------------------
(* What the handlers compute.                                               *)

\* Records laid over a content: the last one at a place wins, gaps are zeros.
Lay(base, recs) ==
  LET end == Max({Len(base)} \cup {recs[k].off + 1 : k \in DOMAIN recs})
  IN  [i \in 1 .. end |->
         LET over == {k \in DOMAIN recs : recs[k].off + 1 = i}
         IN  IF over # {} THEN recs[Max(over)].id
             ELSE IF i <= Len(base) THEN base[i] ELSE Hole]

Stored(p) == LET c == server[project][p] IN IF c = Absent THEN <<>> ELSE c

\* fetch_file_list: a listing that fails is an empty one, on either side.
Listings == {{p \in Files : server[project][p] # Absent}, {}}
Failed(list) == list = {} /\ \E p \in Files : server[project][p] # Absent

\* The file system's answer about p: the build cache for a build path, where
\* lookup takes what is not there for a directory; else the listing.
BuildAttr(p) ==
  IF local[p] = "file" THEN [kind |-> "file", size |-> 0, sure |-> TRUE]
                       ELSE [kind |-> "dir"]

ListedAttr(list, p) ==
  CASE p \in list ->
         [kind |-> "file", size |-> Len(Stored(p)),
          sure |-> wal[p] = <<>>]
    [] p \notin list /\ (\E q \in list : Below(q, p)) -> [kind |-> "dir"]
    [] OTHER -> None

LookupAttr(list, p) == IF IsBuildPath(p) THEN BuildAttr(p) ELSE ListedAttr(list, p)

-----------------------------------------------------------------------------
(* Calls of the kernel.  There is one FUSE thread: no call begins while a    *)
(* read waits for the server.                                               *)

Idle == call = None

\* lookup.  When it answers ENOENT the kernel forgets the path.
Lookup(p) ==
  /\ Idle /\ p # Root /\ attr[Parent(p)].kind = "dir"
  /\ \E list \in Listings : attr' = [attr EXCEPT ![p] = LookupAttr(list, p)]
  /\ UNCHANGED <<server, writes, due, project, call, cache, local, wal, flush, remounts>>

\* create, after a lookup that answered ENOENT.  Nothing is stored or logged.
Create(p) ==
  /\ Idle /\ p # Root /\ attr[Parent(p)].kind = "dir"
  /\ \E list \in Listings :
       /\ LookupAttr(list, p) = None
       /\ attr' = [attr EXCEPT ![p] =
            [kind |-> "file", size |-> 0,
             sure |-> (p \in Files => wal[p] = <<>>) /\ ~Failed(list)]]
  /\ UNCHANGED <<server, writes, due, project, call, cache, local, wal, flush, remounts>>

\* getattr of a path the kernel knows.  An ENOENT is passed on and changes
\* nothing; a build path that is not there is a file here and a directory in
\* lookup, upon which the kernel gives the inode up.
GetAttr(p) ==
  /\ Idle /\ p # Root /\ attr[p] # None
  /\ \E list \in Listings :
       LET a == CASE ~IsBuildPath(p) -> ListedAttr(list, p)
                  [] IsBuildPath(p) /\ local[p] = "dir" -> [kind |-> "dir"]
                  [] OTHER -> [kind |-> "file", size |-> 0, sure |-> TRUE]
       IN  attr' = [attr EXCEPT ![p] = CASE a = None -> @
                                         [] a # None /\ a.kind = @.kind -> a
                                         [] OTHER -> None]
  /\ UNCHANGED <<server, writes, due, project, call, cache, local, wal, flush,
                 remounts>>

Usable(k) == cache[k] # None /\ cache[k].age < CacheTTL

\* Faulty: a hit that makes the entry young again.
ReadHitRenews(p) ==
  /\ Idle /\ p \in Files /\ attr[p].kind = "file"
  /\ Usable(CacheKey(p))
  /\ cache' = [cache EXCEPT ![CacheKey(p)].age = 0]
  /\ UNCHANGED <<server, writes, due, project, attr, call, local, wal, flush, remounts>>

\* read, from a young enough file of the cache.
ReadHit(p) ==
  /\ Idle /\ p \in Files /\ attr[p].kind = "file"
  /\ Usable(CacheKey(p))
  /\ UNCHANGED vars

\* read, from the server: pending records are not laid over it, and an error
\* reads as an empty file.
ReadFetch(p) ==
  /\ Idle /\ p \in Files /\ attr[p].kind = "file"
  /\ ~Usable(CacheKey(p))
  /\ \E data \in {Stored(p), <<>>} : call' = [path |-> p, data |-> data]
  /\ UNCHANGED <<server, writes, due, project, attr, cache, local, wal, flush, remounts>>

\* Faulty: one that also keeps the answer to a failed read.
ReadStoreAlways ==
  /\ ~Idle
  /\ cache' = [cache EXCEPT ![CacheKey(call.path)] = [data |-> call.data, age |-> 0]]
  /\ call' = None
  /\ UNCHANGED <<server, writes, due, project, attr, local, wal, flush, remounts>>

\* ... and its end: what is not empty becomes the cached file, as of now.
ReadStore ==
  /\ ~Idle
  /\ cache' = IF call.data = <<>> THEN cache
              ELSE [cache EXCEPT ![CacheKey(call.path)] = [data |-> call.data, age |-> 0]]
  /\ call' = None
  /\ UNCHANGED <<server, writes, due, project, attr, local, wal, flush, remounts>>

\* A write call to file p of the mounted project.
Made(p) ==
  /\ writes < MaxWrites
  /\ writes' = writes + 1
  /\ due' = [due EXCEPT ![project][p] = @ \cup {writes'}]

\* The record of a write call; the cached file goes first.
Log(p, off) ==
  /\ Made(p)
  /\ cache' = [cache EXCEPT ![CacheKey(p)] = None]
  /\ wal' = [wal EXCEPT ![p] = Append(@, [off |-> off, id |-> writes'])]

\* write to a source file; the kernel then knows a longer file.
Write(p, off) ==
  /\ Idle /\ p \in Files /\ attr[p].kind = "file" /\ off <= attr[p].size
  /\ Log(p, off)
  /\ attr' = [attr EXCEPT ![p].size = Max({@, off + 1})]
  /\ UNCHANGED <<server, project, call, local, flush, remounts>>

\* ... that fails: EIO, although the record may be in the log all the same.
WriteFails(p, off) ==
  /\ Idle /\ p \in Files /\ attr[p].kind = "file" /\ off <= attr[p].size
  /\ Log(p, off)
  /\ attr' = [attr EXCEPT ![p].sure = FALSE]
  /\ UNCHANGED <<server, project, call, local, flush, remounts>>

\* write to a build artifact: create_dir_all, open with create, write.
WriteBuild(p) ==
  /\ Idle /\ attr[p].kind = "file"
  /\ local' = [q \in Build |-> CASE q = p -> "file"
                                 [] Below(p, q) -> "dir"
                                 [] OTHER -> local[q]]
  /\ UNCHANGED <<server, writes, due, project, attr, call, cache, wal, flush, remounts>>

-----------------------------------------------------------------------------
(* The flush worker.                                                        *)

\* Faulty: a base that cannot be read taken for an empty one.
FlushBaseEmpty(p, n) ==
  /\ flush = None
  /\ n \in 1 .. Len(wal[p])
  /\ flush' = [path |-> p, take |-> n, base |-> <<>>, overtaken |-> FALSE]
  /\ UNCHANGED <<server, writes, due, project, attr, call, cache, local, wal, remounts>>

\* Faulty: a base taken from the read cache while that is young enough.
FlushBaseCached(p, n) ==
  /\ flush = None
  /\ n \in 1 .. Len(wal[p])
  /\ flush' = [path |-> p, take |-> n, overtaken |-> FALSE,
               base |-> IF Usable(CacheKey(p)) THEN cache[CacheKey(p)].data
                                              ELSE Stored(p)]
  /\ UNCHANGED <<server, writes, due, project, attr, call, cache, local, wal, remounts>>

\* The base and the records of the stage in hand: the first ones of the path.
FlushBase(p, n) ==
  /\ flush = None
  /\ n \in 1 .. Len(wal[p])
  /\ flush' = [path |-> p, take |-> n, base |-> Stored(p), overtaken |-> FALSE]
  /\ UNCHANGED <<server, writes, due, project, attr, call, cache, local, wal, remounts>>

Taken == SubSeq(wal[flush.path], 1, flush.take)

\* Faulty: the patches alone, without the base below them.
PatchedAlone == Lay(<<>>, Taken)

Patched == Lay(flush.base, Taken)

Patch(answered) ==
  /\ flush # None
  /\ server' = [server EXCEPT ![project][flush.path] = Patched]
  /\ flush' = None
  /\ IF answered
     THEN /\ cache' = [cache EXCEPT ![FlushKey(flush.path)] = None]
          /\ wal' = [wal EXCEPT ![flush.path] = SubSeq(@, flush.take + 1, Len(@))]
     ELSE UNCHANGED <<cache, wal>>
  /\ UNCHANGED <<writes, due, project, attr, call, local, remounts>>

\* The sparse write succeeds; the cache is invalidated, by the other key.
FlushWrite == Patch(TRUE)

\* The acknowledgement is lost: the records stay for the next tick.
FlushAckLost == Patch(FALSE)

\* The sparse write fails without effect.
FlushFails ==
  /\ flush # None
  /\ flush' = None
  /\ UNCHANGED <<server, writes, due, project, attr, call, cache, local, wal, remounts>>

-----------------------------------------------------------------------------
(* Everything else: other writers, time, and the end of the process.        *)

\* Another client appends to a file of the project, replaces or deletes it.
RemoteWrite(p) ==
  /\ Made(p)
  /\ \E c \in {<<writes'>>, Absent, Append(Stored(p), writes')} :
       /\ c # server[project][p]
       /\ server' = [server EXCEPT ![project][p] = c]
  /\ attr' = IF attr[p].kind = "file"
             THEN [attr EXCEPT ![p].sure = FALSE] ELSE attr
  /\ flush' = IF flush # None /\ p = flush.path
              THEN [flush EXCEPT !.overtaken = TRUE] ELSE flush
  /\ UNCHANGED <<project, call, cache, local, wal, remounts>>

Tick ==
  /\ \E k \in Keys : Usable(k)
  /\ cache' = [k \in Keys |-> IF Usable(k) THEN [cache[k] EXCEPT !.age = @ + 1]
                                           ELSE cache[k]]
  /\ UNCHANGED <<server, writes, due, project, attr, call, local, wal, flush, remounts>>

\* The client is killed and started again, perhaps for another project, which
\* has a build cache directory of its own.  The log goes on where it was: what is
\* in it is now flushed to this project.
Remount(pr) ==
  /\ remounts < MaxRemounts
  /\ remounts' = remounts + 1
  /\ project' = pr
  /\ attr' = [p \in Paths |-> IF p = Root THEN [kind |-> "dir"] ELSE None]
  /\ call' = None /\ flush' = None
  /\ local' \in IF pr = project THEN {local} ELSE Trees
  /\ due' = [due EXCEPT ![pr] = [p \in Files |->
                @[p] \cup {wal[p][k].id : k \in DOMAIN wal[p]}]]
  /\ UNCHANGED <<server, writes, cache, wal>>

Next ==
  \/ \E p \in Paths : Lookup(p) \/ Create(p) \/ GetAttr(p)
  \/ \E p \in BuildFiles : WriteBuild(p)
  \/ \E p \in Files : ReadHit(p) \/ ReadFetch(p)
  \/ ReadStore
  \/ \E p \in Files, off \in 0 .. MaxWrites : Write(p, off) \/ WriteFails(p, off)
  \/ \E p \in Files, n \in 1 .. MaxWrites : FlushBase(p, n)
  \/ FlushWrite \/ FlushAckLost \/ FlushFails
  \/ \E p \in Files : RemoteWrite(p)
  \/ Tick
  \/ \E pr \in Projects : Remount(pr)

\* The worker runs every 200 ms and a request does not fail for ever; a read in
\* flight is answered; time passes.
Fairness ==
  /\ \A p \in Files : WF_vars(\E n \in 1 .. MaxWrites : FlushBase(p, n))
  /\ SF_vars(FlushWrite)
  /\ WF_vars(ReadStore)
  /\ WF_vars(Tick)

Spec == Init /\ [][Next]_vars /\ Fairness

-----------------------------------------------------------------------------
(* Properties.                                                              *)

\* The size by which the kernel appends is the true one, that of the server's
\* content with the pending records over it, unless the attributes were taken
\* while records were pending or the listing failed, or another client, or a
\* write that was answered EIO, changed the file since.
SizeTrusted ==
  \A p \in Files :
    attr[p].kind = "file" /\ attr[p].sure
      => attr[p].size = Len(Lay(Stored(p), wal[p]))

\* A flush changes no byte outside its records: what the file was when another
\* client last wrote it is lost only when that was after the base was read.
FlushKeepsOthers ==
  [][\A p \in Files :
       flush # None /\ flush.path = p /\ project' = project
       /\ server'[project][p] # server[project][p] /\ flush' = None
       /\ ~flush.overtaken
         => /\ server'[project][p] # Absent
            /\ Len(server'[project][p]) >= Len(Stored(p))
            /\ \A i \in 1 .. Len(Stored(p)) :
                 \/ server'[project][p][i] = Stored(p)[i]
                 \/ \E k \in DOMAIN wal[p] : wal[p][k].off + 1 = i]_vars

\* Nothing gets from one project's files into another's but by the log: a byte of a
\* file was written while its project was mounted, or by a record that was still
\* waiting when it was, and to a file of that name (code: cmd_mount starts the
\* worker for its project over the log it finds; start_wal_flush_worker).
OnlyPendingCrosses ==
  \A pr \in Projects, p \in Files :
    server[pr][p] # Absent =>
      \A i \in DOMAIN server[pr][p] : server[pr][p][i] \in {Hole} \cup due[pr][p]

\* Once the writes are over, they are all on the server, and what reads return is
\* what the server has, although no flush invalidates the cache.
EventuallyCoherent ==
  <>[](\A p \in Files :
         /\ wal[p] = <<>>
         /\ Usable(CacheKey(p)) => cache[CacheKey(p)].data = Stored(p))
=============================================================================
