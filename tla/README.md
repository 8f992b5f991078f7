# proxygit in TLA+

This directory holds the specifications of proxygit: the client's write-ahead log, the server's
file operations with the client code that drives them, the FUSE mount, the way of a file over
the wire, the connection that a client's agents share, embeddings and backups, and the daemon
that keeps a plain directory in step with a server. The specifications are model-checked with
TLC on small instances, and every safety property, action property and refinement that the
passing runs check is proved with TLAPS for every size; liveness is only model-checked.
`PROJECT.json` maps each definition to the source lines it models (paths below are relative to
`src/`).

## 1. The system

A proxygit server keeps projects: a SQLite **index** per project (files and the hashes of
their blocks) over a **block store** shared by all projects (one file per BLAKE3 hash).
Clients talk to it over QUIC, one request per stream and one tokio task per stream; other
tools use a WebDAV front end on the same state. A client machine runs a FUSE mount, an MCP
server for agents, or both. FUSE writes go to a local **write-ahead log (WAL)** and are
flushed to the server in the background; MCP writes go to the server directly.

| Component | State | Operations | Talks to | What is hard | What makes it correct |
|---|---|---|---|---|---|
| WAL append and group commit (`client/src/wal/mod.rs`) | journal file, dirty flags, waiters | `append_entry(_durable)`, `group_commit`, `rotate_for_flush` | FUSE callbacks, flush worker | flags, fsync and drain under no common lock; failing fsync; power failure | Ok means durable; every waiter is answered; stages are durable |
| WAL flush worker (same file) | stage files, records kept for a retry | tick: commit, rotate, read stages, patch, send, remove or rewrite | server, other processes on the WAL directory | kill between send and remove, lost answers, retries against order, two processes | no record lost, server never goes back, everything arrives |
| WAL format and reader (same file) | bytes of a file | frame writer, resynchronising scan | disk | torn frames followed by good ones | whole records only, in order, none skipped |
| Server file operations (`server/src/lib.rs`) | (none of its own) | read, write, sparse write, HAS_BLOCKS, stat, list, map, search | index, block store, embeddings | each step is its own transaction; any handler may be cut off | linearizable; conflict detection; error answers mean what they say |
| Block store (`server/src/block_store/mod.rs`) | files by hash | `store_blocks`, `read_blocks`, `get_block`, `has_block`, `gc_orphans` | file system | rename before directory fsync, collector against writers | indexed blocks exist and are durable |
| Index (`server/src/indexer/mod.rs`) | `files`, `file_blocks` | ingest, stat, blocks, list, delete | SQLite | file row and blocks read in two transactions | replaced atomically |
| WebDAV (`server/src/webdav.rs`) | none | GET, PUT, DELETE, PROPFIND, backup routes | as the server | GET verifies nothing; no conflict check | as above |
| MCP write path (`client/src/lib.rs`) | none | base hash, handshake, sparse write | server | what the server said may be stale | never a missing block |
| FUSE mount (`client/src/fuse_mount.rs`) | read cache, inode map, build cache | lookup, getattr, read, write, create, readdir | kernel, WAL, server | stale cache, no read-your-writes before a flush, sizes without pending writes, flush against other writers, log and cache shared by all projects | reads agree with the server at last; a flush keeps what others wrote; only pending records get into another project |
| Embeddings (`server/src/embeddings.rs`) | map path to vector, one JSON file | set, save, load, search | writers | set and ingest not ordered; one map for all projects; save not atomic | agrees with the last write |
| Backups (`server/src/lib.rs`, `webdav.rs`) | archives, restore directories | create, list, restore | index, block store | writers during a backup, partial and concurrent restores | an archive has contents that existed; a restore brings them back |
| Sync daemon (`scripts/proxygit-sync-daemon.py`) | last-sync times, pending events | inotify thread, poll thread, `--once` | WebDAV, local directory | two threads, clocks, failed listings, downloads that break off | last writer wins, nothing deleted by mistake |
| Connections (`server/src/lib.rs`, `client/src/lib.rs`, `main.rs`) | authenticated or not, stream pools, stream credit | connect, authenticate, prewarm, borrow, tool calls | all requests | first-stream protocol, timeouts, streams as a bounded resource | nothing served before authentication; every call is answered |
| Protocol and chunker (`common/src/protocol.rs`, `cdc.rs`) | none | codecs, compression, chunking | client write path, server handlers | sizes at their limits, blocks without data | what arrives is what was sent |
| Types, CLI, scripts | none | wrappers | | | |

`PROJECT.json` lists the hazards we see in these components with their lines, and the
properties that watch them.

## 2. Modules

| Module | Models | Composition |
|---|---|---|
| `GroupCommit` | the WAL in memory and on disk while it is written | |
| `WalFlush` | the way of a record from the journal to the server | implements `WriteBack` |
| `WalFlush_proofs` | its theorems, the refinement among them | extends `WalFlush` |
| `WriteBack` | abstract: one log, and server files that are prefixes of it | |
| `WalScan` | the reader of damaged WAL files | |
| `WalScan_proofs` | its theorems | extends `WalScan` |
| `FileServer` | server, block store, index, WebDAV, MCP writes, flush requests | implements `AtomicFiles` |
| `AtomicFiles` | abstract: a map from paths to contents with atomic calls | |
| `FileServer_proofs` | its theorems, the refinement among them | extends `FileServer` |
| `SyncDaemon` | the sync daemon between a directory and a server | |
| `SyncDaemon_proofs` | its theorems | extends `SyncDaemon` |
| `Mount` | the FUSE mount, its caches, the flush worker and other writers | refines the view of `WalFlush` to bytes |
| `Mount_proofs` | its theorems | extends `Mount` |
| `Project` | embedding index and backups over the files of projects | files are those of `FileServer` |
| `Project_proofs` | its theorems | extends `Project` |
| `Agents` | token handshake, stream pools, tool calls of one client process | |
| `Agents_proofs` | its theorems | extends `Agents` |
| `Wire` | codecs, compression and chunker, in the calls that use them | payloads of `FileServer`'s requests |
| `ClientWrite_proofs` | the theorems on what a client's write goes through: the log that keeps it and the wire that takes it away | extends `GroupCommit` and `Wire` |
| `MC_*` | the finite instances TLC checks | extend their module |

Definitions named after a function model that function. Definitions whose comment begins
with *Faulty* are not part of any specification: each is a plausible bug, and replacing the
right definition by it must break the property listed with it in `PROJECT.json`.

### GroupCommit

A record is its append number, the journal a set of records, and `disk` the records that
have been fsynced. The bytes of a record are written under the journal mutex, so an append
is one step. `group_commit` is three: both flags are swapped to clean (`SwapFlags`), the
journal is fsynced under its lock (`SyncJournal`), and the waiters registered *by then* are
answered (`DrainWaiters`). `rotate_for_flush` holds the lock from the rename
(`RotateRename`) to the new journal (`RotateFinish`); every `?` on the way is an action
(`RotateFailsEarly`, `RotateFailsLate`), after which the descriptor may be left on a stage
file. `PowerFailure` keeps what was fsynced, and of the rest a prefix; a rename may or may
not have reached the disk. A frame cut in the middle is the business of `WalScan`.

### WalFlush

Files are sets of records, because a flush groups by path and the order within a path is
the append order. A process has a descriptor (on the journal, on a stage, or on a removed
file) and a worker with the locals of `start_wal_flush_worker` (`wk`). A tick is
`RotateNothing` or `RotateRename` and `RotateReopen`, then `ListStages`, and for each stage
`ReadStage`, `ReadBase` and `WriteSparse` per path, and `RemoveStage`, or the rewrite of what
failed. A rewrite (`write_staged_records`) is three steps: `CreateTemp` makes the temp file, or
empties the one there is; `FillTemp` writes to it, in as many calls as it likes; `RenameTemp` puts
it in the place of the stage. The temp file is named after the stage, so two processes that rewrite
one stage share it: `out` says what a worker's descriptor is on (the temp file, one that several
write to, the stage since another has renamed that file), and what several leave in a file is any
part of what was written. The constant `Faults` says which steps may fail. A flush replaces a whole file by the base it read with
the records laid over it, which is what the server makes of its sparse write; how that
request runs inside the server is in `FileServer` (operation `"flush"`). Processes are
killed here and machines are not: the page cache survives.

### WalScan

A file is a sequence of cells, at least two per frame: the first is the magic number and
the header with the declared lengths, the last the checksum and the end mark. A failed
append leaves the first cells of a frame, of the header perhaps only a part, in which case
the lengths are what the following bytes say (any). The scan is the loop of
`read_staged_records`: skip, stop at a length past the end, take, or resume one byte after
the frame's start. No payload is assumed to look like a frame, and no checksum to be right
by accident.

### FileServer

One request per session, one action per call that a handler makes to the block store or
the index. Contents stand for their tree hashes and blocks for their hashes (hashing is
injective). `Fixed` and `Cdc` give the blocks of a content in the two chunkings the code
uses, 64 KiB blocks and content-defined chunks, as arbitrary constants. `Abort` covers an
I/O error, the end of the server and a lost connection at every step: what was done stays.
`present` is what `has_block` sees, `durable` what a power failure would leave: a renamed block is
durable once its prefix directory is fsynced (`SyncDirs`), if that directory's own name is on disk
(`Rooted`); for a directory that `store_blocks` has just made nobody sees to that.
`disturbed` is a history variable: the sessions whose path another session changed since
they last looked.

### SyncDaemon

The watcher and the poller are the two values of `thread`; the operations of `SyncEngine`
are actions with the thread as parameter, one per HTTP request, file access, or access of
the shared dictionaries. The number of an edit stands for the content it wrote. A local
time is the tick of the save, a server time its whole second. `lastSync` and `snapshot` are
the engine's dictionaries (the code never reads the values of `last_snapshot`), `listed` and
`walked` the poller's two maps. An inotify event is the name it reports: the watcher treats
written and deleted files alike, by looking whether the file is there. The debounce is left
open: a pending path may become ready at any turn. `_update_watches` refers to `flags`, which
only `run` imports, so finding a directory without a watch ends the thread (`"dead"`).
A request may fail with or without effect; a file may not open or not be removed (`AccessFails`);
a download may break off after `open(.., "wb")` has emptied the file, which leaves remains with a
stamp and an event of their own (`WriteBreaksOff`; contents above `MaxEdits` are remains); and
`safe_mkdir`, outside of every `try`, may end the pass with all that was left of it, or the one-shot
program (`PlaceFails`). Users save in place, move a file into place with the stamp it had, delete and make
directories; agents write and delete on the server. Directories are not removed, a file is
read or written in one step, and the copies of `--conflict-backup` are not followed further.

`raced` is a history variable that names the paths about which the code promises nothing: an
edit came while a thread worked on the path, or in the second of the last transfer; a
deletion; a file that differs when the daemon starts; a pass that changed its mind between
its two readings of `last_sync_time`. Each of these is a way to lose step for good, and
leaving any one of them out of `raced` makes `QuietPathsAgree` fail. The remains of a broken-off
download count as an edit that nobody made: the daemon takes them for a newer save.

### Mount

Three parties share a file: the kernel, whose calls the one FUSE thread answers, the flush
worker of the same process, and another client. A content is the sequence of the numbers of the
writes that made its bytes, so that a property can say whose byte is where. The kernel is
external and does what it may: looks paths up from the root, creates after ENOENT only, appends
at the size it was told. `read` is two actions, because other parties move while it waits for
the server; `FlushBase` and `FlushWrite` are the two requests of a flush, `FlushAckLost` and
`FlushFails` its failures. The log is, for each file, the sequence of its records not yet
removed: a flush takes the first ones of one file, and the order between files plays no role
here. Which records survive what is `WalFlush`. Cache keys are kept as the code computes them,
with a slash in the mount and without in the flush worker, so the flush never invalidates what
a read stored. Log and cache survive a remount of another project, which has a build cache directory of its own.
`sure` and `overtaken` are history: they say when the code promises nothing. `due` is history too:
the writes that a file of a project may hold.

### Project

A content is the number of the write that made it. A write is `BeginWrite`, `Ingest`,
`SetEmbedding` and `Save`; from `SetEmbedding` to `Save` the mutex of the index is held and
`embeddings.json` is truncated or half written. `PUT`, `DELETE` and restores change files and
not embeddings. A backup lists, reads file by file and renames its archive; a restore empties
the directory that all restores of the project share, unpacks, walks and stores. `JobFails`
ends any of them between two steps; `Restart` kills the server and loads what was saved, and
a torn file ends the start. `source`, `unsaved`, `seen`, `before`, `touched` and `alone` are
history.

### Agents

One client process and its connection. A user is an agent with its own pool, the flush worker,
or anything else that opens streams. `credit` is how many streams the client may still open:
a stream that both ends have dropped gives its credit back (`Release`), which a server that is
still waiting for MSG_AUTH does for no one. The handshake is the server's first `accept_bi`
against the client's `connect_to_server`; which stream was opened first is followed into the
pool it waits in (`first`), since the server looks at no other. A tool call is the number of
requests it still needs; a map that fails becomes a listing and a stat per file. The
connection may go at any time (`Lose`) and the client does not connect again.

### Wire

The bytes of one file: `Split` into blocks, handshake, `EncodeSparse`, `DecodeSparse`, storing
and resolving, and the read after it, or `EncodeWrite` and the chunker on the older way. A
byte, a length and a hash are a cell each. zstd is modelled by what matters here: runs get
shorter, everything else longer. Only the store's content for this file varies; other writers
are in `FileServer`.

## 3. What the runs check

| Run | Shows |
|---|---|
| `GroupCommit` | unsynced records always have an fsync coming (`UnsyncedIsCovered`); stages are durable (`StagedIsDurable`); a rotation acknowledges only durable records (`RotateAnswersTruthfully`); every waiter is answered (`EveryWaiterAnswered`); an acknowledged record gets to disk unless a power failure or a failing fsync comes first (`AckedBecomesDurable`) |
| `GroupCommit_ack` | finding: a writer can be answered Ok before any fsync of its record |
| `FileServer` | the index never dangles; a conflict, a corruption report, a missing block and an undetected stale write each have exactly the cause their property names; QUIC requests are linearizable |
| `FileServer_stale` | finding: `reject_stale` lets two writers with one base hash both succeed |
| `WalFlush` | with failing reads, writes, acknowledgements and rewrites and a kill at any step: no record is lost (`NothingLost`), each file on the server is a prefix of the log and never goes back (`ImplementsWriteBack`), every record arrives (`EventuallyFlushed`) |
| `WalFlush_faults` | with two processes and every kind of failure: only records appended to a file renamed under the descriptor, or in an unreadable stage, or kept by two rewrites of one stage that overlap in the temp file they share, can be lost (`OnlyStraysLost`) |
| `WalScan` | the reader returns whole records in order (`FoundInOrder`) and misses one only behind a damaged frame that claims to pass the end of the file (`MissingIsBehindOverrun`) |
| `SyncDaemon` | a path the daemon is done with holds the same on both sides, its last edit or what a download that broke off later left of it (`QuietPathsAgree`); both sides come to agree even after the watcher thread has ended (`EventuallyInSync`); transfers end (`Settles`); an undisturbed one-shot pass leaves the same set of files on both sides (`OnceMirrors`) |
| `Mount` | the size at which the kernel appends is right unless records were pending, a listing or a write failed, or another client wrote (`SizeTrusted`); a flush overwrites nothing but its own bytes unless the file changed between its two requests (`FlushKeepsOthers`); bytes of one project get into another's files only by the records that waited in the log at a remount (`OnlyPendingCrosses`); after the last write, the log drains and what reads return is what the server has (`EventuallyCoherent`) |
| `Project` | an embedding is that of the last write of the path, in memory and on disk, but for the named disturbances (`EmbeddingsFollowWrites`); an archive has every listed file with a content it had during the backup (`BackupFaithful`); a restore that ran alone leaves the archived contents and touches nothing else (`RestoreExact`) |
| `Agents` | nobody is served without the token, and client and server agree on the handshake's outcome (`AuthAgrees`); every connecting agent and every call is answered, unless idle pools hold all streams or the server waits on a stream that idles in a pool (`Answered`) |
| `Wire` | a file arrives as it was sent, or is refused for its size, and reads back unless it is too large for a frame (`Delivered`); each cut of the chunker is at a boundary, at the largest size or at the end (`CutsExplained`) |

### Findings

1. **Early acknowledgement** (`wal/mod.rs:167`). A record appended after the fsync whose
   writer registers before the drain is answered Ok. The exposure is one commit interval,
   which is what `AckedBecomesDurable` says.
2. **`reject_stale` is check-then-act** (`server/src/lib.rs:672`). `StaleMeansOvertaken`
   says that this window is the only way to pass the check with a stale base.

### Consequences

What the models show of the code beyond these two, without a run of its own. Where a property
excepts such a case, it is named; dropping the exception makes the property fail.

Log and flush
- `mount` and `mcp` use the same default WAL directory and each runs a flush worker over it
  (`client/src/main.rs:132` and `:215`). The second process renames the file the first one's
  descriptor is open on, flushes and removes it, and what the first appends meanwhile is gone:
  `NothingLost` fails with two processes and no failure at all. When a file of a stage could not be
  flushed and both rewrite the stage, the second's `File::create` empties the temp file that the
  first has filled and may be about to rename (`wal/mod.rs:383`): the records both meant to keep are
  gone, with no failure of the rewrite itself. `OnlyStraysLost` says that these two and unreadable
  stages are the only ways to lose a record.
- A flush against a base stored by WebDAV PUT refers to 64 KiB blocks the server does not have
  and fails until the file is rewritten (`MissingMeansRechunked`). A torn frame can hide the good
  records behind it (`MissingIsBehindOverrun`).
- A write by another client between the two requests of a flush is lost (`overtaken`).

Server
- `has_block` sees a block that a concurrent request has renamed but whose directory is not yet
  fsynced (`block_store/mod.rs:78`), so an acknowledged file can depend on a name that a power
  failure takes. And the first block of a prefix makes its directory, which is fsynced itself, but
  `blocks_dir`, which holds the directory's name, never is (lines 109-124), although the comment at
  line 117 says "Parent dir fsync makes the new directory entries durable." In `FileServer`, blocks of
  an indexed file need not be in `durable` for either reason (section 4 says what does hold).
- `PUT`, `DELETE`, restores and overlapping writes leave embeddings of other contents
  (`source`); embeddings are keyed by path alone, for all projects. A save that is cut leaves
  none, or a file that keeps the server from starting.
- A file deleted during a backup is archived without a byte. Two restores of one project share
  a directory (`alone`).
- `proxygit backup restore` posts to `/__backup/restore` (`client/src/main.rs:518`), the route
  is `/__backup/restore/<name>` (`webdav.rs`): the server answers 404 and the command
  reports success. `handle_restore_backup` is dispatched by no message.

Mount
- Code and comments disagree on build directories. `fuse_mount.rs:9` says "Build directories
  (target/, node_modules/) are intercepted and redirected to local NVMe.", lines 14-15 "Check if a
  path matches a known build artifact pattern. / These directories should be redirected to local
  NVMe.", and `write` at line 467 "Build directory interception: write directly to local NVMe build
  cache". But `lookup` answers a directory for every build path that is not there (lines 169-171), so
  the kernel never finds one absent, never calls `create`, and `mkdir` is not implemented: no artifact
  can come to be through the mount, and `write` only ever meets one that something else put into the
  build cache. `getattr` calls the same path a file. In `Mount` the answers are `BuildAttr` and
  `GetAttr`; `BuildKnown` (section 4) is what follows.
- Reads do not see records in the log, a failed read is an empty file, a failed listing an empty
  project; sizes are the server's (`sure`). A kernel that appends at such a size writes over bytes
  or leaves zeros.
- Neither log nor cache names a project: after a remount of another project the records that wait
  are flushed into its file of the same name, and reads may return the first one's cached files for
  two seconds. `OnlyPendingCrosses` says that bytes get from one project into another in no other way.

Connections
- With the hundred streams that quinn grants by default, twelve idle agents (eight streams each)
  and the flush worker (four) leave none: FUSE calls wait without a limit and the next agent waits
  in `prewarm` (`Hoarded`).
- A client without a token against a server with one is neither served nor refused while the
  stream it opened first waits in a pool (`Mute`); `docs/design/PATH-TO-PAR.md:68` says "Request
  without token → reject". A client with a token cannot connect to a server without one.

Wire
- A payload over 64 MiB is refused by the receiver; a larger file can still be stored, in
  known or compressed blocks, and then no read returns it and its flush is deferred for ever.
  Paths of 64 KiB and more wrap their length (`Fits`).
- A boundary at exactly the least size is taken for none and the chunk runs to the limit
  (`CutsExplained`, last conjunct), which the comment at `cdc.rs:41` does not say.

Sync daemon
- With every local file taken for synchronised at the start, `--once` never uploads one that was
  there; what the server does not list is removed, and a failed listing is an empty one
  (`sync-daemon.py:247`). `docs/design/BIDIRECTIONAL-SYNC-DESIGN.md:515` says "Files that exist
  locally but not remotely → upload". `OnceMirrors` shows that both sides agree afterwards, at
  this price.
- Only the poller compares stamps; the watcher sends what it has (`sync-daemon.py:263`), also
  over an agent's later version. The same document says at line 384 "later timestamp wins".
- Deletions are not passed on (they change no time), a local change not sent before a restart
  is taken for synchronised, and with `--conflict-backup` the watcher may see the gap between
  moving the old file away and writing the new one and delete the server's copy.
- A download that breaks off has already emptied the local file (`sync-daemon.py:301`); its remains
  are newer than the server's copy, so both threads send them over it: the good copy is gone on both
  sides. A directory that cannot be made raises past the loop of `_poll_once` (line 288, caught at
  612), so that every pass ends there and the paths sorted behind it are never polled; with `--once`
  the program ends.

### Bounds

- `GroupCommit`: 2 writers, 1 group-commit and 1 flush worker (as the code starts), 2
  appends. Every race of an acknowledgement needs one record and one commit; the second
  lets a rotation and a commit each own one. 3 appends were also run once.
- `FileServer`: 2 sessions, 2 requests in all, 1 path (paths only meet in shared blocks,
  which contents of one path share as well), a zero-byte content and two contents that share
  a block, 3 initial states. All properties relate a request to at most one other.
- `WalFlush`: 3 records over 2 files (one with two places to write), 1 kill. Three records
  give two stages where the older one has two files. `WalFlush_faults`: 2 processes, 2
  records, no kill.
- `WalScan`: 4 frames of 2 or 4 cells: a damaged frame between good ones whose declared
  length ends inside, at or behind its neighbours.
- `SyncDaemon`: 1 path in a directory that may not exist yet (what is done for a path
  looks at nothing of another's, and the server lists other files), 2 edits, 1 failure, 1 restart, two ticks to a
  second and three ticks: an edit before, in and after the second of a transfer. The
  invariants were also checked once each with 3 edits, with 2 failures, and with two paths (one
  edit, one failure, no restart: a pass abandoned for one path leaves the other for the next).
- `Mount`: 2 projects, 1 source file, 1 build directory with one artifact, 2 write calls by
  whoever makes them, 1 remount, a cache limit of 2 ticks. Two writes are one by the mount and
  one by another client in either order, or two records in one flush. Of a write only one byte
  is modelled: overlaps of longer ones are overlaps of their bytes.
- `Project`: 2 paths, one of them in two projects (embeddings collide only by path), 2 clients
  and 2 administrators. Three budgets of calls rather than one large: three writes with a PUT
  and a DELETE; two backups and two restores with a PUT and a DELETE; one of each kind with a
  QUIC write. 1 restart of the server.
- `Agents`: an agent with 2 prewarmed streams, a flush worker with 1, 2 streams in all: each can
  keep the other from its last stream, and both together can hoard. Fallbacks of a map stat at
  most 1 file.
- `Wire`: all files of at most 8 bytes over two values, one of them a boundary, and four files
  of 16; blocks of 4, chunks of 2 to 5, 14 cells in a frame, one path that is too long for its
  field. Files of no block, part of one, one, two and four, and chunks with a boundary at, before
  and after every limit occur.

### Fairness

- `GroupCommit`: both workers are loops over a timer, and a writer that appended goes on to
  wait (weak fairness); tokio's mutex is FIFO, so a worker that waits for it gets it (strong
  fairness for the worker steps). Nothing is assumed of fsync's success.
- `WalFlush`: the worker is a loop over a timer (weak). That everything arrives also needs
  the server and the local disk not to fail for ever for the same file: strong fairness for
  reading the base, for the write, and for a rewrite that has something to drop.
- `SyncDaemon`: both threads are loops in which every request has a timeout (weak). Failures
  are bounded by the model.
- `Mount`: the flush worker runs every 200 ms, a read is answered and time passes (weak); the
  write of a flush does not fail for ever (strong). Writers are bounded by the model.
- `Agents`: tasks that can run do run (weak). quinn wakes everyone who waits for stream credit
  when some returns, so that whoever waits while it returns again and again gets some at last
  (strong, for `Prewarm` and `BorrowNew`). Arriving, asking and leaving are the users' business
  and are not fair.
- `FileServer`, `Project`, `WalScan` and `Wire` have no liveness property: their handlers may be
  cut off anywhere, or end by their form.

## 4. What is proved

TLAPS checks these for all values of the constants, under the named assumptions of the modules
(bounds are naturals; sentinels are not members of the sets; a content has no fixed blocks
exactly when it is empty; `Project`'s files are pairs and one of its budgets has the most
writes; there is something to write to; source files of a mount are not build paths and
artifacts are; the daemon's files are not directories). Every inductive invariant was first
checked by TLC as an invariant of the module's run. Each strengthens its property by what the
code relies on and no line of it says.

`ClientWrite_proofs`, on `GroupCommit`: `Invariance` (`Spec => []IInv`), and from it
`TypeCorrect`, `UnsyncedCovered`, `StagedDurable`, `RotateTruthful`. `IInv` adds that only a flush worker
rotates and holds the lock meanwhile (`RotatorHoldsLock`), that the journal is on disk while
it is locked (`LockedIsSynced`), and that an unanswered record is in the journal or on disk
(`UnansweredIsHeld`).

`ClientWrite_proofs`, on `Wire`: `WireInvariance`, `WrittenArrives` (`Delivered`) and
`CutsHaveReasons` (`CutsExplained`), for files, paths, block sizes, limits and bounds of any
size. `WireInv` adds that a block in the store has the hash of its data until the write is
resolved (`StoreHashed`), that the handshake named only blocks that are in it (`KnownHeld`), and
that the payload on its way is the request (`Request`). The rest is about what the functions of
the codec compute. They are defined by recursion over data, and what holds of them is proved by
induction in a form the provers can use: not over an operator but over a set, which holds 0 and
with each number the next, and so by the well-foundedness of < holds all (`Induction`; on
sequences `SeqInduction`). On it rest
- what `FlattenSeq` does with a piece more and with two sequences of pieces (`FlattenAppend`,
  `FlattenConcat`), and that pieces which follow each other in a content make it up
  (`CutsJoined`), so that the blocks of a file are the file (`SplitBlocks`);
- that no two contents have one hash (`HashInjective`): what is fetched under a block's hash is
  that block's data;
- that the decoders undo the encoders (`SparseDecoded`, `WriteDecoded`, `HashesDecoded`,
  `CompressInverse`): each block lies where the ones before it end (`BlocksDecoded`), with or
  without data, compressed or not;
- that the chunker comes to an end, loses nothing, and cuts well (`ChunksExist`, `ChunkedStep`,
  `ChunksOfBuffer`, from the end of the buffer to its start).

`FileServer_proofs`: `Invariance`, and from it `TypeCorrect`, `IndexSound`
(`IndexedBlocksPresent`), and a theorem for each kind of answer: `ConflictJustified`,
`CorruptJustified`, `MissingJustified` and `StaleJustified`. `IInv` adds, per session, which
operations reach which steps (`StepsOfOp`), that the blocks a session is about to index are in
the store, still in hand, or references (`TargetCovered`), that a reference is in the store
unless a flush took it from a base in content-defined chunks (`RefsResolvable`), and that an
undisturbed session's reads are current (`ReadsCurrent`). The step of a session is examined
action by action; lemma `OthersKeep` does the other sessions once for all. `Refinement` proves
`Spec => ImplementsAtomicFiles`: reads take effect at the stat, writes and deletes at the
index transaction, and the tree-hash check is what makes the data a read returns the data
of that instant.
Two theorems are about what a power failure takes (no run has them; a run of TLC with their
statements agreed). A name that is in the store but not durable is in the hands of a request that is
about to fsync its directory, or was left by one that was cut off in between
(`OnlyCutOffsLeaveNames`). So while no request is cut off there, each block of an indexed file is
durable or about to be (`UncutIsDurableSoon`), if perhaps not by the request that was told of its
success. Both are about blocks whose prefix directory was on disk when the server started (`Rooted`);
a directory made since may be lost with all it holds. Without these hypotheses, and without the
"about to be", TLC finds counterexamples.

`WalFlush_proofs` has three invariants, one on top of the other.
- `LossInv` holds for any number of processes on one directory and all faults: stage names are
  never used twice (`NamesUsed`; a rename takes a record, so there are no more renames than
  records), and a worker's list and its stage differ only in records that are applied or stray,
  whatever other workers did to the stage since it was read (`HandMatchesStage`), and so do a temp
  file that is about to be renamed and what its rewriter keeps, unless several share it
  (`RewriteSound`). It gives
  `TypeCorrect` and `StraysOnly` (`OnlyStraysLost`).
- `AloneInv` is for one process whose stages can be read and whose rotations do not fail
  (`Alone`): its descriptor is on the journal outside a rotation, and there are no strays. It
  gives `AloneLosesNothing` (`NothingLost`). Each part of `Alone` is needed: a second process,
  an unreadable stage and a failing reopen each lose records.
- `OrderInv` is for `Orderly` processes: alone, and without removals that fail or requests that
  take effect after they were given up. Then stages are in the order of the appends, the plan is
  what is on disk, and what is applied of a file is a prefix; `OrderlyWritesBack` proves
  `Spec => ImplementsWriteBack`. A stage that stays behind although it was flushed, or a late
  request, does make the server go back to older bytes.

`WalScan_proofs`: `ScanInvariance`, `TypeCorrect`, `WholeInOrder` (`FoundInOrder`) and
`OnlyOverrunsHide` (`MissingIsBehindOverrun`). The invariant is the layout of a damaged file
(frames in order, their cells side by side from the header on, none longer than declared) and
the reader's position in it: behind all it returned, and past no whole frame it did not return.

`Mount_proofs`: `MountInvariance`, `TypeCorrect`, `SizesTrusted` (`SizeTrusted`),
`PendingOnlyCrosses` (`OnlyPendingCrosses`), and the action property `FlushesKeepOthers`. `MountInv`
adds that the base in the worker's hand is the server's content unless overtaken, and its records in
the log (`InHand`), that the kernel trusts no size of an overtaken file (`SureOfBase`: what keeps
`SizeTrusted` through a flush), and that it knows as files only those build paths that are
(`BuildKnown`; `create_dir_all` therefore finds every directory there, lemma `AboveArtifact`). On top
of it, `DueInv` says that every record in the log is due to the file of the mounted project
(`LogDue`), as is every byte of the worker's base (`BaseDue`), and that `Lay` adds none
(`LayBytes`). The lemmas on `Lay` say how long a content is under a log: one record
more, the first records applied with the rest pending, or applied and still pending
(`LayOneMore`, `LayAgain`).

`Project_proofs`: `ProjectInvariance`, `TypeCorrect`, `EmbeddingsAreFresh`
(`EmbeddingsFollowWrites`), and the action properties `ArchivesAreFaithful` (`BackupFaithful`)
and `RestoresAreExact` (`RestoreExact`). `ProjectInv` says what each request and job in hand has
seen and done: whoever still has to set an embedding has the file's present content
(`SourceOf`), one client holds the mutex and the file is torn only meanwhile (`OneHolder`,
`SavedInv`), a backup has each file it is done with as it saw it (`BackupOf`), and a restore
that runs alone has unpacked, or stored, all but what is still to do (`UnpackOf`, `WalkOf`).

`SyncDaemon_proofs`: `SyncInvariance`, `TypeCorrect`, `QuietAgree` (`QuietPathsAgree`) and
`PassMirrors` (`OnceMirrors`). `SyncInv` has a part for each way to run the engine.
- The daemon, per path that no edit raced (`DaemonInv`): both sides agree (`Agreed`), or one is
  ahead in a way that everything the threads still hold of the path shows: the times the poller
  has listed and walked, `last_sync_time`, and that nothing makes the watcher send an older file
  (`LocalAhead`, `ServerAhead`). And whatever a thread is about to send or to place is the last
  edit, and no thread is about to delete (`Copies`). Lemma `DaemonFrame` does all steps that
  leave a path alone, `Landed` all that end a transfer, `DecisionCopies` the decision.
- `--once`, per path (`OnceInv`): what the pass has listed and walked says on which side the file
  is until the pass comes to the path, and from then on both sides have it or neither has.

The remains of a broken-off download make the local side ahead (`BrokenDaemon`), and an abandoned
pass leaves what it held of any path to the next one (`AbandonFacts`). A path that is quiet is not
ahead on either side, which is `QuietAgree`. The proof showed that
`Decision` has to look at the times of two files only where there are two, as `resolve_and_sync`
does.

`Agents_proofs`: `Agrees` (`Spec => []AuthAgrees`). `AuthInv` adds that the server serves only
a client that may be served (`ServesAdmitted`), waits for MSG_AUTH only when it has a token
(`OnlyRequiredWaits`), and answers MSG_AUTH_OK only to the right token (`OkMeansAdmitted`).
The handshake is examined step by step; of a user's steps only `Serve` touches the session.
`TypeCorrect` and `StreamsCounted` rest on a second invariant, `StreamInv`: the streams in pools
and in use are a finite set of places (`Streams`), which together with those closing, the one of
MSG_AUTH and the credit left are no more than the limit (`Counted`), nobody uses the connection
before the client is ready (`NobodyYet`), and a call under way has a request left (`Underway`).

Only model-checked is liveness (`EveryWaiterAnswered`, `AckedBecomesDurable`,
`EventuallyFlushed`, `Settles`, `EventuallyInSync`, `EventuallyCoherent`, `Answered`), which is
out of the prover's reach.

## 5. Plan

1. `SyncDaemon`: removed directories.
2. `Project`: a theorem on what a restore leaves behind when another one ran into it.

## 6. Not modelled

JSON-RPC, HTTP and CLI text handling, path sanitising, the numerics of embeddings and the
ranking of a search, TLS and certificates (library code), configuration, container files and
benchmark scripts. The 53 bytes of a frame's header are a fixed record around the payload and
its hash, which no receiver compares. `readdir` records inode numbers and otherwise lists;
hash collisions of paths and contents are excluded. The kernel's page cache is left out: reads
in `Mount` are those that reach the handler. `gc_orphans` and `EmbeddingIndex::remove` are called
by tests only. Clocks that go backwards are not modelled: stage names sort by the order of
their renames.

## 7. Running

    tlc -config WalFlush.cfg MC_WalFlush.tla      # likewise for every .cfg
    tlapm FileServer_proofs.tla

The largest run (`WalFlush_faults`) visits about three million states in under a minute,
`Mount` 1.6 million in two and a half minutes, most of it for its liveness property; each proof module
takes some minutes from nothing. Leaves that need more than a second or two name
their prover with a longer time limit, so that the proofs also go through on a busy machine.
