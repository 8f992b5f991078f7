------------------------------ MODULE FileServer ------------------------------
(***************************************************************************)
(* The server's file operations and the client code that drives them.      *)
(*                                                                         *)
(* Every request runs in a task of its own (tokio, many threads), so the   *)
(* handlers of concurrent requests interleave between any two of their     *)
(* calls to the block store (files named by content hash) and the index    *)
(* (one SQLite transaction per call).  A content stands for its tree hash, *)
(* a block for its own hash; hashing is taken to be injective.             *)
(*                                                                         *)
(* Operations of a session:                                                *)
(*   "write"   mcp_write_file_opts: optional base hash, HAS_BLOCKS, then   *)
(*             MSG_WRITE_BLOCKS_SPARSE with the blocks the server lacks    *)
(*   "flush"   one path of the WAL flush: read the base, then a sparse     *)
(*             write of the fixed blocks that differ from it               *)
(*   "put"     WebDAV PUT or MSG_WRITE_BLOCKS: whole content, CDC chunks   *)
(*   "read"    MSG_READ_FILE       "get"   WebDAV GET                      *)
(*   "delete"  WebDAV DELETE                                               *)
(***************************************************************************)
EXTENDS Naturals, Sequences

CONSTANTS
  Sessions,     \* concurrent clients, each with one request at a time
  Paths,        \* file paths of one project
  Contents,     \* whole-file contents
  Empty,        \* the zero-byte content
  Blocks,       \* blocks by hash
  Prefix,       \* [Blocks -> the prefix directory under blocks_dir]
  Rooted,       \* prefix directories whose own name was on disk before this run
  Fixed,        \* [Contents -> Seq(Blocks)]: 64 KiB blocks of a content
  Cdc,          \* [Contents -> Seq(Blocks)]: its content-defined chunks
  Policy,       \* WriteConflictPolicy: "last_writer_wins" or "reject_stale"
  MaxRequests,  \* bound of the model: requests ever sent
  NoFile,       \* no row in the files table
  NoHash,       \* the client sends no expected hash
  ZeroHash      \* the all-zero hash: "must not exist"

ASSUME ChunkingAssumption ==
  /\ Empty \in Contents /\ Paths # {}
  /\ Fixed \in [Contents -> Seq(Blocks)]
  /\ Cdc \in [Contents -> Seq(Blocks)]
  /\ \A c \in Contents : Fixed[c] = <<>> <=> c = Empty

ASSUME RootedAssumption == Rooted \subseteq {Prefix[b] : b \in Blocks}

ASSUME BoundAssumption == MaxRequests \in Nat

VARIABLES
  present,    \* blocks whose name exists under blocks_dir
  durable,    \* of those, the ones whose name a power failure cannot take
  index,      \* [Paths -> the indexed version, or NoFile]
  embedding,  \* [Paths -> content the embedding index holds, or NoFile]
  req,        \* [Sessions -> the session's request]
  sent,       \* history: number of requests sent
  disturbed   \* history: sessions whose path another one changed since they
              \* last looked at it

vars == <<present, durable, index, embedding, req, sent, disturbed>>

Range_(seq) == {seq[i] : i \in DOMAIN seq}

\* A row of the files table with its rows of file_blocks.
Version == [of : Contents, by : {"fixed", "cdc"}]

ASSUME SentinelAssumption ==
  /\ NoFile \notin Contents \cup Version
  /\ NoHash \notin Contents
  /\ ZeroHash \notin Contents \cup {NoHash}

BlocksOf(v) == IF v.by = "fixed" THEN Range_(Fixed[v.of]) ELSE Range_(Cdc[v.of])

\* The tree hash of a files row.
Content(v) == IF v = NoFile THEN NoFile ELSE v.of

Sparse == {"write", "flush"}
Ops == Sparse \cup {"put", "read", "get", "delete"}

Outcomes == {"ok", "conflict", "missing", "corrupt", "lost"}
ReadSteps == {"stat", "list", "fetch"}
WriteSteps == {"base", "handshake", "check", "pick", "rename", "sync",
               "resolve", "ingest", "embed"}
Active == ReadSteps \cup WriteSteps \cup {"delete", "reply"}
Pcs == {"idle"} \cup Active \cup Outcomes

Request ==
  [pc   : Pcs,
   op   : Ops,
   path : Paths,
   new  : Contents,                     \* content to write
   base : Contents \cup {NoHash, ZeroHash},  \* expected_tree_hash
   seen : Contents \cup {NoFile},       \* files row of the stat; then the data read
   rows : Version \cup {NoFile},        \* file_blocks rows of the listing
   refs : SUBSET Blocks,                \* hash-only chunks of the payload
   todo : SUBSET Blocks,                \* blocks with data still to be stored
   made : SUBSET Blocks]                \* blocks this request renamed into place

TypeOK ==
  /\ present \subseteq Blocks
  /\ durable \subseteq Blocks
  /\ index \in [Paths -> Version \cup {NoFile}]
  /\ embedding \in [Paths -> Contents \cup {NoFile}]
  /\ req \in [Sessions -> Request]
  /\ sent \in 0..MaxRequests
  /\ disturbed \subseteq Sessions

Blank(p) == [pc |-> "idle", op |-> "read", path |-> p, new |-> Empty,
             base |-> NoHash, seen |-> NoFile, rows |-> NoFile,
             refs |-> {}, todo |-> {}, made |-> {}]

\* The server starts on a data directory that an earlier run left: files may be
\* indexed, and their blocks are on disk if their prefix directory is; what came
\* by WebDAV PUT has no embedding.
Init ==
  /\ index \in [Paths -> Version \cup {NoFile}]
  /\ present = UNION {BlocksOf(index[p]) : p \in {q \in Paths : index[q] # NoFile}}
  /\ durable = {b \in present : Prefix[b] \in Rooted}
  /\ embedding = [p \in Paths |->
       IF index[p] # NoFile /\ index[p].by = "fixed" THEN index[p].of ELSE NoFile]
  /\ req = [s \in Sessions |-> Blank(CHOOSE p \in Paths : TRUE)]
  /\ sent = 0
  /\ disturbed = {}

At(s, pc) == req[s].pc = pc
Row(s) == index[req[s].path]

Become(s, r) == req' = [req EXCEPT ![s] = r]

\* The request of s, moved to pc.
Goto(s, pc) == Become(s, [req[s] EXCEPT !.pc = pc])

\* The request of s, over: the handler's locals are gone.
Finish(s, outcome) ==
  Become(s, [req[s] EXCEPT !.pc = outcome, !.refs = {}, !.todo = {}, !.made = {}])

-----------------------------------------------------------------------------
(* Clients.                                                                 *)

FirstStep(op) ==
  CASE op = "write" -> "base"
    [] op = "put" -> "pick"
    [] op = "delete" -> "delete"
    [] OTHER -> "stat"

\* A client sends its next request; PUT carries every chunk with its data.
Invoke(s) ==
  /\ req[s].pc \in {"idle"} \cup Outcomes
  /\ sent < MaxRequests
  /\ sent' = sent + 1
  /\ \E op \in Ops, p \in Paths, c \in Contents :
       /\ op \in {"read", "get", "delete"} => c = Empty
       /\ Become(s, [Blank(p) EXCEPT
            !.pc = FirstStep(op), !.op = op, !.new = c,
            !.todo = IF op = "put" THEN Range_(Cdc[c]) ELSE {}])
  /\ disturbed' = disturbed \ {s}
  /\ UNCHANGED <<present, durable, index, embedding>>

\* Faulty: a file that is not there has no hash to expect.
StatBaseUnmapped(s) ==
  /\ At(s, "base")
  /\ \E h \in {NoHash, ZeroHash, Content(Row(s))} :
       Become(s, [req[s] EXCEPT !.base = h, !.pc = "handshake"])
  /\ disturbed' = disturbed \ {s}
  /\ UNCHANGED <<present, durable, index, embedding, sent>>

\* mcp_write_file_opts chooses the expected hash: none, or the hash of a stat
\* of the path.  fetch_base_tree_hash maps a missing file, and a failed stat,
\* to the all-zero hash.
StatBase(s) ==
  /\ At(s, "base")
  /\ \E h \in {NoHash, ZeroHash} \cup (Contents \cap {Content(Row(s))}) :
       Become(s, [req[s] EXCEPT !.base = h, !.pc = "handshake"])
  /\ disturbed' = disturbed \ {s}
  /\ UNCHANGED <<present, durable, index, embedding, sent>>

\* Faulty: every block is taken to be on the server.
HandshakeTrusting(s) ==
  /\ At(s, "handshake")
  /\ Become(s, [req[s] EXCEPT !.refs = Range_(Fixed[req[s].new]), !.todo = {},
                               !.pc = "check"])
  /\ UNCHANGED <<present, durable, index, embedding, sent, disturbed>>

\* HAS_BLOCKS: data is stripped from the blocks the server says it has; when
\* the query fails everything is sent.
Handshake(s) ==
  /\ At(s, "handshake")
  /\ \E known \in {{}, Range_(Fixed[req[s].new]) \cap present} :
       Become(s, [req[s] EXCEPT !.refs = known,
                                !.todo = Range_(Fixed[req[s].new]) \ known,
                                !.pc = "check"])
  /\ UNCHANGED <<present, durable, index, embedding, sent, disturbed>>

\* The positions of new's fixed blocks that build_sparse_diff finds unchanged.
Unchanged(old, new) ==
  {i \in DOMAIN Fixed[new] \cap DOMAIN Fixed[old] : Fixed[new][i] = Fixed[old][i]}

\* The WAL flush turns the content it read (Empty when the file was not found)
\* into a sparse write without an expected hash.
SendDiff(s, old) ==
  LET new  == req[s].new
      same == Unchanged(old, new)
  IN  Become(s, [req[s] EXCEPT
        !.refs = {Fixed[new][i] : i \in same},
        !.todo = {Fixed[new][i] : i \in DOMAIN Fixed[new] \ same},
        !.pc = "check"])

-----------------------------------------------------------------------------
(* Reading: MSG_READ_FILE (also the base of a flush) and WebDAV GET.        *)

\* Faulty: a zero-byte file is not answered from its row.
StatFileNoEmpty(s) ==
  LET c == Content(Row(s))
  IN  /\ At(s, "stat")
      /\ disturbed' = disturbed \ {s}
      /\ \/ c = NoFile /\ Goto(s, "reply")
         \/ c # NoFile /\ Become(s, [req[s] EXCEPT !.seen = c, !.pc = "list"])
      /\ UNCHANGED <<present, durable, index, embedding, sent>>

\* stat_file.  A zero-byte file is answered from its row; GET goes by the
\* block list alone.
StatFile(s) ==
  LET c == Content(Row(s))
  IN  /\ At(s, "stat")
      /\ disturbed' = disturbed \ {s}
      /\ \/ /\ c \in {NoFile, Empty} /\ req[s].op = "flush"
            /\ SendDiff(s, Empty)
         \/ /\ c = NoFile /\ req[s].op # "flush"
            /\ Goto(s, "reply")
         \/ /\ c = Empty /\ req[s].op = "read"
            /\ Become(s, [req[s] EXCEPT !.seen = Empty, !.pc = "reply"])
         \/ /\ c # NoFile /\ (c # Empty \/ req[s].op = "get")
            /\ Become(s, [req[s] EXCEPT !.seen = c, !.pc = "list"])
      /\ UNCHANGED <<present, durable, index, embedding, sent>>

\* get_file_blocks, on a connection of its own: no rows is corruption to
\* MSG_READ_FILE and a zero-byte file to GET.
ListBlocks(s) ==
  LET none == Content(Row(s)) \in {NoFile, Empty}
  IN  /\ At(s, "list")
      /\ \/ /\ none /\ req[s].op = "get"
            /\ Become(s, [req[s] EXCEPT !.seen = Empty, !.pc = "reply"])
         \/ /\ none /\ req[s].op # "get"
            /\ Goto(s, "corrupt")
         \/ /\ ~none
            /\ Become(s, [req[s] EXCEPT !.rows = Row(s), !.pc = "fetch"])
      /\ UNCHANGED <<present, durable, index, embedding, sent, disturbed>>

\* Faulty: the data is not compared with the tree hash.
ReadableUnverified(s) == BlocksOf(req[s].rows) \subseteq present

\* read_blocks of the listed rows finds every block, and the data has the tree
\* hash of the stat (GET does not compare).
Readable(s) ==
  /\ BlocksOf(req[s].rows) \subseteq present
  /\ req[s].op = "get" \/ req[s].rows.of = req[s].seen

FetchBlocks(s) ==
  /\ At(s, "fetch")
  /\ \/ /\ ~Readable(s)
        /\ Goto(s, "corrupt")
     \/ /\ Readable(s) /\ req[s].op = "flush"
        /\ SendDiff(s, req[s].rows.of)
     \/ /\ Readable(s) /\ req[s].op # "flush"
        /\ Become(s, [req[s] EXCEPT !.seen = req[s].rows.of, !.pc = "reply"])
  /\ UNCHANGED <<present, durable, index, embedding, sent, disturbed>>

-----------------------------------------------------------------------------
(* Writing: MSG_WRITE_BLOCKS_SPARSE, MSG_WRITE_BLOCKS and WebDAV PUT.       *)

\* Faulty: a tree hash over the chunk list, which the chunking changes.
StaleByChunks(s) ==
  /\ Policy = "reject_stale"
  /\ req[s].base # NoHash
  /\ \/ req[s].base # IF Row(s) = NoFile THEN ZeroHash ELSE Content(Row(s))
     \/ Row(s) # NoFile /\ Row(s).by = "cdc"

\* Optimistic concurrency: under reject_stale an expected hash must be the
\* current one; a missing file counts as the all-zero hash.
Stale(s) ==
  /\ Policy = "reject_stale"
  /\ req[s].base # NoHash
  /\ req[s].base # IF Row(s) = NoFile THEN ZeroHash ELSE Content(Row(s))

\* Faulty: no check.
CheckBaseNever(s) ==
  /\ At(s, "check")
  /\ Goto(s, "pick")
  /\ disturbed' = disturbed \ {s}
  /\ UNCHANGED <<present, durable, index, embedding, sent>>

CheckBase(s) ==
  /\ At(s, "check")
  /\ Goto(s, IF Stale(s) THEN "conflict" ELSE "pick")
  /\ disturbed' = IF Stale(s) THEN disturbed ELSE disturbed \ {s}
  /\ UNCHANGED <<present, durable, index, embedding, sent>>

\* store_blocks: blocks already there are skipped (has_block), and a batch with
\* nothing missing returns at once.
PickMissing(s) ==
  /\ At(s, "pick")
  /\ LET missing == req[s].todo \ present
     IN  Become(s, [req[s] EXCEPT
           !.todo = missing,
           !.pc = IF missing = {} THEN "resolve" ELSE "rename"])
  /\ UNCHANGED <<present, durable, index, embedding, sent, disturbed>>

\* A fsynced staging file is renamed into its prefix directory.
RenameBlock(s) ==
  /\ At(s, "rename")
  /\ \E b \in req[s].todo :
       /\ present' = present \cup {b}
       /\ Become(s, [req[s] EXCEPT
            !.todo = @ \ {b}, !.made = @ \cup {b},
            !.pc = IF req[s].todo = {b} THEN "sync" ELSE "rename"])
  /\ UNCHANGED <<durable, index, embedding, sent, disturbed>>

\* The prefix directories of the renamed blocks are fsynced, and with them every
\* name in them, but never blocks_dir: the name of a prefix directory that was
\* made in this run need not be on disk, nor then what is below it.
SyncDirs(s) ==
  /\ At(s, "sync")
  /\ durable' = durable \cup
       {b \in present : Prefix[b] \in Rooted \cap {Prefix[m] : m \in req[s].made}}
  /\ Goto(s, "resolve")
  /\ UNCHANGED <<present, index, embedding, sent, disturbed>>

\* Faulty: the hash-only chunks are trusted.
ResolveRefsTrusting(s) ==
  /\ At(s, "resolve")
  /\ Goto(s, "ingest")
  /\ UNCHANGED <<present, durable, index, embedding, sent, disturbed>>

\* get_block of every hash-only chunk; one that is not there aborts the
\* handler with an error.
ResolveRefs(s) ==
  /\ At(s, "resolve")
  /\ Goto(s, IF req[s].refs \subseteq present THEN "ingest" ELSE "missing")
  /\ UNCHANGED <<present, durable, index, embedding, sent, disturbed>>

Others(s) == {t \in Sessions \ {s} : req[t].path = req[s].path}

\* ingest_chunks: file row and block rows replaced in one transaction.  WebDAV
\* PUT is then done; the QUIC writes update the embedding index first.
Ingest(s) ==
  /\ At(s, "ingest")
  /\ index' = [index EXCEPT ![req[s].path] =
       [of |-> req[s].new, by |-> IF req[s].op = "put" THEN "cdc" ELSE "fixed"]]
  /\ \E next \in IF req[s].op = "put" THEN {"embed", "reply"} ELSE {"embed"} :
       Goto(s, next)
  /\ disturbed' = disturbed \cup Others(s)
  /\ UNCHANGED <<present, durable, embedding, sent>>

\* set and save under the embedding lock.
SetEmbedding(s) ==
  /\ At(s, "embed")
  /\ embedding' = [embedding EXCEPT ![req[s].path] = req[s].new]
  /\ Goto(s, "reply")
  /\ UNCHANGED <<present, durable, index, sent, disturbed>>

\* delete_file: both tables in one transaction; blocks and embedding stay.
DeleteFile(s) ==
  /\ At(s, "delete")
  /\ index' = [index EXCEPT ![req[s].path] = NoFile]
  /\ Goto(s, "reply")
  /\ disturbed' = disturbed \cup Others(s)
  /\ UNCHANGED <<present, durable, embedding, sent>>

\* The answer reaches the client.
Reply(s) ==
  /\ At(s, "reply")
  /\ Finish(s, "ok")
  /\ UNCHANGED <<present, durable, index, embedding, sent, disturbed>>

\* An I/O or database error, the end of the server process, or a connection
\* lost before the answer: what the request has done so far stays done.
Abort(s) ==
  /\ req[s].pc \in Active
  /\ Finish(s, "lost")
  /\ UNCHANGED <<present, durable, index, embedding, sent, disturbed>>

-----------------------------------------------------------------------------

SessionStep(s) ==
  \/ Invoke(s) \/ StatBase(s) \/ Handshake(s)
  \/ StatFile(s) \/ ListBlocks(s) \/ FetchBlocks(s)
  \/ CheckBase(s) \/ PickMissing(s) \/ RenameBlock(s) \/ SyncDirs(s)
  \/ ResolveRefs(s) \/ Ingest(s) \/ SetEmbedding(s) \/ DeleteFile(s)
  \/ Reply(s) \/ Abort(s)

Next == \E s \in Sessions : SessionStep(s)

Spec == Init /\ [][Next]_vars

-----------------------------------------------------------------------------
(* Properties.                                                              *)

\* Every block an indexed version needs is in the block store: blocks are
\* stored, or resolved, before the version that needs them is ingested,
\* whatever other requests and aborts do in between.
IndexedBlocksPresent ==
  \A p \in Paths : index[p] # NoFile => BlocksOf(index[p]) \subseteq present

\* A conflict answer is never spurious: the path did change after the client
\* took its base hash.  (A base of all zeros also stands for a failed stat.)
ConflictMeansChanged ==
  \A s \in Sessions :
    At(s, "conflict") /\ req[s].base # ZeroHash => s \in disturbed

\* "Block content corruption detected", "non-empty file has no blocks" and
\* "Block read error" are only ever told to a reader that was overtaken by a
\* writer of the same path: nothing in the store is corrupt.
CorruptMeansOvertaken ==
  \A s \in Sessions : At(s, "corrupt") => s \in disturbed

\* A sparse write fails for want of a block only when a WAL flush compared with
\* a base that was stored in content-defined chunks: the handshake of
\* mcp_write_file_opts is still true when its write arrives.
MissingMeansRechunked ==
  \A s \in Sessions :
    At(s, "missing") => /\ req[s].op = "flush"
                        /\ req[s].rows # NoFile
                        /\ req[s].rows.by = "cdc"

\* A sparse write that passed the reject_stale check and is stale nevertheless
\* was overtaken between the check and the ingest.
StaleMeansOvertaken ==
  \A s \in Sessions :
    req[s].pc \in {"pick", "rename", "sync", "resolve", "ingest"} /\ Stale(s)
      => s \in disturbed

\* "Stale hash -> explicit conflict error, no silent clobber": under
\* reject_stale a write never replaces the version of an acknowledged write of
\* the same path that had sent the same expected hash.
AcknowledgedWith(t, s) ==
  /\ At(t, "ok") /\ req[t].op = "write"
  /\ req[t].path = req[s].path /\ req[t].base = req[s].base
  /\ Content(Row(s)) = req[t].new

NoSilentClobber ==
  [][\A s, t \in Sessions : Ingest(s) /\ AcknowledgedWith(t, s) => ~Stale(s)]_vars

-----------------------------------------------------------------------------
(* The inductive invariant behind the five state invariants above.          *)

\* The version s is about to index.
Target(s) == [of |-> req[s].new, by |-> IF req[s].op = "put" THEN "cdc" ELSE "fixed"]

\* Which operations reach which steps; only "write" has an expected hash;
\* a payload is built after the reads.
StepsOfOp(s) ==
  /\ req[s].pc \in ReadSteps =>
       req[s].op \in {"read", "get", "flush"} /\ req[s].refs = {}
  /\ req[s].pc \in {"base", "handshake"} => req[s].op = "write"
  /\ req[s].pc \in WriteSteps => req[s].op \in Sparse \cup {"put"}
  /\ req[s].op # "write" => req[s].base = NoHash
  /\ req[s].pc = "stat" => req[s].seen = NoFile
  /\ req[s].pc = "delete" => req[s].op = "delete"

\* From the check to the ingest every block of the target is in the store, or
\* still to be stored, or a hash-only reference.
TargetCovered(s) ==
  /\ req[s].pc \in {"check", "pick", "rename", "sync", "resolve", "ingest"} =>
       BlocksOf(Target(s)) \subseteq req[s].refs \cup req[s].todo \cup present
  /\ req[s].pc \in {"sync", "resolve", "ingest"} => req[s].todo = {}
  /\ req[s].pc = "ingest" => req[s].refs \subseteq present

\* A hash-only reference not in the store comes from a flush whose base was cdc.
RefsResolvable(s) ==
  \/ req[s].refs \subseteq present
  \/ req[s].op = "flush" /\ req[s].rows # NoFile /\ req[s].rows.by = "cdc"

\* What an undisturbed session has read is still current, and what it has
\* listed is in the store.
ReadsCurrent(s) ==
  /\ req[s].pc \in {"list", "fetch"} =>
       /\ req[s].op \in {"read", "flush"} => req[s].seen \notin {NoFile, Empty}
       /\ s \in disturbed \/ req[s].seen = Content(Row(s))
  /\ req[s].pc = "fetch" =>
       /\ req[s].rows # NoFile
       /\ BlocksOf(req[s].rows) \subseteq present
       /\ s \in disturbed \/ req[s].rows = Row(s)
  /\ req[s].pc \in {"handshake", "check"} =>
       s \in disturbed \/ req[s].base \in {NoHash, ZeroHash, Content(Row(s))}

SessionInv(s) == /\ StepsOfOp(s) /\ TargetCovered(s)
                 /\ RefsResolvable(s) /\ ReadsCurrent(s)

IInv ==
  /\ TypeOK
  /\ \A s \in Sessions : SessionInv(s)
  /\ IndexedBlocksPresent
  /\ ConflictMeansChanged
  /\ CorruptMeansOvertaken
  /\ MissingMeansRechunked
  /\ StaleMeansOvertaken

-----------------------------------------------------------------------------
(* The QUIC operations implement the atomic store of AtomicFiles: a write or *)
(* delete takes effect when it is ingested, a read when it stats the file.   *)
(* WebDAV GET does not verify what it reads and is left out: while it runs,  *)
(* its session is idle.                                                      *)

AbstractPhase(s) ==
  LET pc == req[s].pc
  IN  IF pc = "idle" \/ req[s].op = "get" THEN "idle"
      ELSE CASE pc \in {"embed", "reply"} -> "done"
             [] pc \in {"list", "fetch"} /\ req[s].op = "read" -> "done"
             [] pc = "ok" -> "ok"
             [] pc \in Outcomes \ {"ok"} -> "failed"
             [] OTHER -> "pending"

AbstractCall(s) ==
  [phase |-> AbstractPhase(s),
   op    |-> IF req[s].op \in Sparse \cup {"put"} THEN "write"
             ELSE IF req[s].op = "delete" THEN "delete" ELSE "read",
   path  |-> req[s].path,
   new   |-> req[s].new,
   seen  |-> IF req[s].op = "read" THEN req[s].seen ELSE NoFile]

Atomic == INSTANCE AtomicFiles WITH
  files <- [p \in Paths |-> Content(index[p])],
  call  <- [s \in Sessions |-> AbstractCall(s)]

\* Concurrent QUIC requests behave as if each took effect at one instant.
ImplementsAtomicFiles == Atomic!Spec
=============================================================================
