------------------------------ MODULE SyncDaemon ------------------------------
(***************************************************************************)
(* The sync daemon: it keeps a plain directory (edited over SMB) and one   *)
(* project on the server (edited by agents) in step, over WebDAV.          *)
(*                                                                         *)
(* Two threads share one SyncEngine without a lock: the inotify watcher    *)
(* sends local changes, the poller compares a listing with a walk of the   *)
(* directory.  With --once there is a single pass and no watcher.          *)
(* Every HTTP request, file access and access of the engine's dictionaries *)
(* that another thread can fall between is a step of its own.  A file is   *)
(* read or written in one step, and a pass walks the directory in one.     *)
(*                                                                         *)
(* Time counts ticks.  Local times are as fine as the clock, the server    *)
(* keeps whole seconds; both run on the same host.                         *)
(***************************************************************************)
EXTENDS Naturals

CONSTANTS
  Paths,        \* files that are not skipped (should_skip)
  Dirs, Root,   \* directories, all but Root directly below Root
  DirOf,        \* [Paths -> Dirs]
  Modes,        \* settings: the flags --once and --conflict-backup, and whether the
                \* server lists files besides Paths, which nobody touches
  Tick,         \* ticks per second
  Start,        \* the time at which the model starts
  MaxTime,      \* bound of the model: the last tick
  MaxEdits,     \* bound of the model: edits by users and agents
  MaxFaults,    \* bound of the model: failed requests and file operations
  MaxRestarts,  \* bound of the model: restarts by the service manager
  None          \* no file, no path

ASSUME ShapeAssumption ==
  /\ Root \in Dirs /\ DirOf \in [Paths -> Dirs]
  /\ Modes \subseteq [once : BOOLEAN, backup : BOOLEAN, others : BOOLEAN]
  /\ Paths \cap Dirs = {}

ASSUME TimeAssumption ==
  /\ Tick \in Nat \ {0} /\ Start \in Nat /\ MaxTime \in Nat
  /\ Tick <= Start /\ Start <= MaxTime
  /\ {MaxEdits, MaxFaults, MaxRestarts} \subseteq Nat

VARIABLES
  mode,      \* the settings of this run
  now,       \* the clock
  local,     \* [Paths -> file in the directory, or None]
  server,    \* [Paths -> file in the index of the server, or None]
  dirs,      \* directories that exist
  lastSync,  \* SyncEngine.last_sync_time, 0 where there is no entry
  snapshot,  \* keys of SyncEngine.last_snapshot; its values are never read
  events,    \* inotify events not read yet: the file or directory they name
  watched,   \* path_map: directories with a watch
  pending,   \* InotifyWatcher._pending
  thread,    \* ["watcher", "poller" -> control state]
  listed,    \* server_map of the poller's pass: time of each file, or None
  walked,    \* local_map of the poller's pass: time of each file, or None
  edits,     \* history: number of edits by users and agents
  last,      \* history: [Paths -> the content the last edit made; what a broken-off
             \* download leaves of a file counts as an edit by nobody]
  raced,     \* history: paths with an edit the daemon need not get right
  faults,    \* history: number of failures
  restarts   \* history: number of restarts

disk == <<local, dirs>>
engine == <<lastSync, snapshot>>
inotify == <<events, watched, pending>>
pass == <<listed, walked>>
bounds == <<faults, restarts>>
history == <<edits, last, raced>>
vars == <<mode, now, disk, server, engine, inotify, thread, pass, history, bounds>>

Times == 0..MaxTime
\* Contents: numbered by the edit that wrote them, and above that the remains of
\* downloads that broke off, by the number of the failure.
Versions == 0..MaxEdits + MaxFaults
File == [ver : Versions, mtime : Times]

ASSUME SentinelAssumption == None \notin Paths /\ None \notin Times /\ None \notin File

Threads == {"watcher", "poller"}
Transfers == {"read", "put", "stat", "get", "place", "write", "delete", "remove", "forget"}
Pcs == Transfers \cup {"idle", "walk", "next", "resolve", "watches", "dead", "off", "done"}

TypeOK ==
  /\ mode \in Modes
  /\ now \in Start..MaxTime
  /\ local \in [Paths -> File \cup {None}]
  /\ server \in [Paths -> File \cup {None}]
  /\ dirs \subseteq Dirs /\ Root \in dirs
  /\ lastSync \in [Paths -> Times]
  /\ snapshot \subseteq Paths
  /\ events \subseteq Paths \cup Dirs
  /\ watched \subseteq dirs
  /\ pending \subseteq Paths
  /\ thread \in [Threads -> [pc : Pcs, path : Paths \cup {None},
                             data : File \cup {None}, todo : SUBSET Paths]]
  /\ listed \in [Paths -> Times \cup {None}]
  /\ walked \in [Paths -> Times \cup {None}]
  /\ edits \in 0..MaxEdits
  /\ last \in [Paths -> Versions]
  /\ raced \subseteq Paths
  /\ faults \in 0..MaxFaults
  /\ restarts \in 0..MaxRestarts

Second(t) == (t \div Tick) * Tick
Mtimes(files) == [p \in Paths |-> IF files[p] = None THEN None ELSE files[p].mtime]
Existing(files) == {p \in Paths : files[p] # None}
NoTimes == [p \in Paths |-> None]

Thread(pc) == [pc |-> pc, path |-> None, data |-> None, todo |-> {}]
At(t, pc) == thread[t].pc = pc
Alive == ~ At("watcher", "dead") /\ ~ At("watcher", "off")

\* main: the threads it starts.
Started(m) ==
  [t \in Threads |-> Thread(IF t = "watcher" /\ m.once THEN "off" ELSE "idle")]

\* The daemon starts on a directory and a server that may already hold files.
\* load_snapshot takes every local file for synchronised now; the watcher
\* watches the directories there are.  Starting is one step.
Init ==
  /\ mode \in Modes
  /\ now = Start
  /\ local \in [Paths -> {[ver |-> 0, mtime |-> Start], None}]
  /\ server \in [Paths -> {[ver |-> 0, mtime |-> Second(Start)], None}]
  /\ dirs = {Root} \cup {DirOf[p] : p \in Existing(local)}
  /\ snapshot = Existing(local)
  /\ lastSync = [p \in Paths |-> IF local[p] # None THEN now ELSE 0]
  /\ events = {} /\ pending = {}
  /\ watched = dirs
  /\ thread = Started(mode)
  /\ listed = NoTimes /\ walked = NoTimes
  /\ edits = 0
  /\ last = [p \in Paths |-> 0]
  /\ raced = IF mode.once THEN {} ELSE Existing(local) \ Existing(server)
  /\ faults = 0 /\ restarts = 0

-----------------------------------------------------------------------------
(* Users of the directory and agents on the server.                        *)

\* The kernel queues an event for a file in a watched directory; a new
\* directory is reported by the watch on Root.
Seen(xs) ==
  IF Alive THEN {x \in xs : IF x \in Paths THEN DirOf[x] \in watched ELSE Root \in watched}
           ELSE {}

Passing(p) ==   \* the poller holds a listing and has not finished with p
  LET t == thread["poller"] IN
  t.pc = "walk" \/ p \in t.todo \/ p = t.path
Sending(p) == p \in thread["watcher"].todo \/ p = thread["watcher"].path
Queued(p) == Alive /\ p \in pending \cup events
Busy(p) == Passing(p) \/ Sending(p)

Edited(p, clear) ==
  /\ edits < MaxEdits
  /\ edits' = edits + 1
  /\ last' = [last EXCEPT ![p] = edits + 1]
  /\ raced' = IF clear /\ (mode.once => At("poller", "idle")) THEN raced
              ELSE raced \cup {p}

\* A local file with stamp m is seen to be newer than the last synchronisation,
\* and not older than the server's.
Timely(p, m) ==
  /\ m > lastSync[p]
  /\ server[p] # None => server[p].mtime <= m

\* A save with stamp m.  The daemon need not get it right when it works on
\* the file, or when the stamp is not later than the last synchronisation.
Saved(p, m) ==
  /\ DirOf[p] \in dirs
  /\ Edited(p, ~ Busy(p) /\ Timely(p, m))
  /\ local' = [local EXCEPT ![p] = [ver |-> edits + 1, mtime |-> m]]
  /\ UNCHANGED <<mode, now, dirs, server, engine, watched, pending, thread, pass, bounds>>

\* Written in place: close_write.
LocalWrite(p) == Saved(p, now) /\ events' = events \cup Seen({p})

\* Moved into place, with the stamp it had: moved_to, which the watcher does
\* not act on for a file.
LocalMoveIn(p, m) == Start <= m /\ m <= now /\ Saved(p, m) /\ UNCHANGED events

LocalDelete(p) ==
  /\ local[p] # None
  /\ Edited(p, FALSE)
  /\ local' = [local EXCEPT ![p] = None]
  /\ events' = events \cup Seen({p})
  /\ UNCHANGED <<mode, now, dirs, server, engine, watched, pending, thread, pass, bounds>>

MakeDir(d) ==
  /\ d \notin dirs
  /\ dirs' = dirs \cup {d}
  /\ events' = events \cup Seen({d})
  /\ UNCHANGED <<mode, now, local, server, engine, watched, pending, thread, pass,
                 history, bounds>>

\* An agent writes.  The daemon need not get it right when a local change is on
\* its way, or in a second in which the file was synchronised or saved.
ServerWrite(p) ==
  /\ Edited(p, /\ ~ Busy(p) /\ ~ Queued(p) /\ Second(now) > lastSync[p]
               /\ local[p] # None => local[p].mtime < Second(now))
  /\ server' = [server EXCEPT ![p] = [ver |-> edits + 1, mtime |-> Second(now)]]
  /\ UNCHANGED <<mode, now, disk, engine, inotify, thread, pass, bounds>>

ServerDelete(p) ==
  /\ server[p] # None
  /\ Edited(p, FALSE)
  /\ server' = [server EXCEPT ![p] = None]
  /\ UNCHANGED <<mode, now, disk, engine, inotify, thread, pass, bounds>>

Advance ==
  /\ now < MaxTime
  /\ now' = now + 1
  /\ UNCHANGED <<mode, disk, server, engine, inotify, thread, pass, history, bounds>>

-----------------------------------------------------------------------------
(* The operations of SyncEngine, run by thread t for the path it works on. *)

PathOf(t) == thread[t].path
Goto(t, pc) == thread' = [thread EXCEPT ![t].pc = pc]
Finish(t) ==
  thread' = [thread EXCEPT ![t] = [Thread("next") EXCEPT !.todo = thread[t].todo]]

\* A failure that the daemon need not make good for the paths ps.
Fail(ps) ==
  /\ faults < MaxFaults
  /\ faults' = faults + 1
  /\ raced' = raced \cup ps
  /\ UNCHANGED <<edits, last, restarts>>

\* A one-shot pass does not try again; the daemon's next pass does.
Final(ps) == IF mode.once THEN ps ELSE {}

\* The file cannot be opened, or not be removed: no more is done for it.
AccessFails(t) ==
  /\ At(t, "read") \/ At(t, "remove")
  /\ local[PathOf(t)] # None
  /\ Finish(t) /\ Fail(Final({PathOf(t)}))
  /\ UNCHANGED <<mode, now, disk, server, engine, inotify, pass>>

\* sync_file_to_server: read the file ...
ReadLocal(t) ==
  /\ At(t, "read")
  /\ LET f == local[PathOf(t)] IN
     IF f = None THEN Finish(t)
     ELSE thread' = [thread EXCEPT ![t].pc = "put", ![t].data = f]
  /\ UNCHANGED <<mode, now, disk, server, engine, inotify, pass, history, bounds>>

\* ... send it, whatever the server has by now ...
Stored(t) ==
  server' = [server EXCEPT ![PathOf(t)] =
               [ver |-> thread[t].data.ver, mtime |-> Second(now)]]

Put(t) ==
  /\ At(t, "put")
  /\ \/ Stored(t) /\ Goto(t, "stat") /\ UNCHANGED <<history, bounds>>
     \/ Stored(t) /\ Finish(t) /\ Fail(Final({PathOf(t)}))       \* the answer is lost
     \/ UNCHANGED server /\ Finish(t) /\ Fail(Final({PathOf(t)}))
  /\ UNCHANGED <<mode, now, disk, engine, inotify, pass>>

\* Faulty: a transfer that is not recorded.
StatUnrecorded(t) ==
  /\ At(t, "stat")
  /\ Finish(t)
  /\ UNCHANGED <<mode, now, disk, server, engine, inotify, pass, history, bounds>>

\* ... and record the transfer, with the time it is now.
Stat(t) ==
  /\ At(t, "stat")
  /\ LET p == PathOf(t) IN
     IF local[p] = None THEN UNCHANGED engine
     ELSE /\ snapshot' = snapshot \cup {p}
          /\ lastSync' = [lastSync EXCEPT ![p] = now]
  /\ Finish(t)
  /\ UNCHANGED <<mode, now, disk, server, inotify, pass, history, bounds>>

\* sync_file_from_server: fetch the content ...
Get(t) ==
  /\ At(t, "get")
  /\ LET f == server[PathOf(t)] IN
     \/ /\ IF f = None THEN Finish(t)
           ELSE thread' = [thread EXCEPT ![t].pc = "place", ![t].data = f]
        /\ UNCHANGED <<history, bounds>>
     \/ Finish(t) /\ Fail(Final({PathOf(t)}))
  /\ UNCHANGED <<mode, now, disk, server, engine, inotify, pass>>

\* ... make its directory, move what is there out of the way if asked to (a
\* failure of that goes unnoticed) ...
Place(t) ==
  /\ At(t, "place")
  /\ LET p == PathOf(t) IN
     \E moved \in SUBSET (IF mode.backup /\ local[p] # None THEN {p} ELSE {}) :
       /\ local' = [q \in Paths |-> IF q \in moved THEN None ELSE local[q]]
       /\ dirs' = dirs \cup {DirOf[p]}
       /\ events' = events \cup Seen(moved \cup ({DirOf[p]} \ dirs))
  /\ Goto(t, "write")
  /\ UNCHANGED <<mode, now, server, engine, watched, pending, pass, history, bounds>>

\* ... and write the file, over what it holds by now.  A file that was moved
\* out of the way is not put back when it cannot be opened.
Write(t) ==
  /\ At(t, "write")
  /\ LET p == PathOf(t) IN
     \/ /\ local' = [local EXCEPT ![p] = [ver |-> thread[t].data.ver, mtime |-> now]]
        /\ events' = events \cup Seen({p})
        /\ Goto(t, "stat")
        /\ UNCHANGED <<history, bounds>>
     \/ Finish(t) /\ Fail(Final({p})) /\ UNCHANGED <<local, events>>
  /\ UNCHANGED <<mode, now, dirs, server, engine, watched, pending, pass>>

\* delete_file_on_server: "not found" counts as deleted.
DeleteRemote(t) ==
  /\ At(t, "delete")
  /\ LET gone == [server EXCEPT ![PathOf(t)] = None] IN
     \/ server' = gone /\ Goto(t, "forget") /\ UNCHANGED <<history, bounds>>
     \/ server' \in {gone, server} /\ Finish(t) /\ Fail(Final({PathOf(t)}))
  /\ UNCHANGED <<mode, now, disk, engine, inotify, pass>>

\* delete_file_locally
RemoveLocal(t) ==
  /\ At(t, "remove")
  /\ LET p == PathOf(t) IN
     IF local[p] = None THEN Finish(t) /\ UNCHANGED <<local, events>>
     ELSE /\ local' = [local EXCEPT ![p] = None]
          /\ events' = events \cup Seen({p})
          /\ Goto(t, "forget")
  /\ UNCHANGED <<mode, now, dirs, server, engine, watched, pending, pass, history, bounds>>

\* Both deletions then drop what is recorded of the path.
Forget(t) ==
  /\ At(t, "forget")
  /\ snapshot' = snapshot \ {PathOf(t)}
  /\ lastSync' = [lastSync EXCEPT ![PathOf(t)] = 0]
  /\ Finish(t)
  /\ UNCHANGED <<mode, now, disk, server, inotify, pass, history, bounds>>

Transfer(t) ==
  \/ ReadLocal(t) \/ Put(t) \/ Stat(t)
  \/ Get(t) \/ Place(t) \/ Write(t)
  \/ DeleteRemote(t) \/ RemoveLocal(t) \/ Forget(t)
  \/ AccessFails(t)

\* A download, which is always the poller's, cannot make the directory: an
\* exception that nobody catches before the poller's run.  The pass is over, with
\* all that was left to do; a one-shot program ends.
PlaceFails ==
  /\ At("poller", "place")
  /\ thread' = [thread EXCEPT !["poller"] = Thread(IF mode.once THEN "dead" ELSE "idle")]
  /\ listed' = NoTimes /\ walked' = NoTimes
  /\ Fail({})
  /\ UNCHANGED <<mode, now, disk, server, engine, inotify>>

\* The write of a download fails after open(.., "wb") has emptied the file: what
\* is left has a stamp and an event of its own, like a save, and nothing is
\* recorded.  The daemon need not get that right when the watcher is at work on
\* the file.
WriteBreaksOff ==
  /\ At("poller", "write")
  /\ LET p == PathOf("poller")
         remains == MaxEdits + faults + 1
     IN /\ faults < MaxFaults
        /\ faults' = faults + 1
        /\ local' = [local EXCEPT ![p] = [ver |-> remains, mtime |-> now]]
        /\ events' = events \cup Seen({p})
        /\ last' = [last EXCEPT ![p] = remains]
        /\ raced' = IF ~ mode.once /\ ~ Sending(p) /\ Timely(p, now) THEN raced
                    ELSE raced \cup {p}
  /\ Finish("poller")
  /\ UNCHANGED <<mode, now, dirs, server, engine, watched, pending, pass, edits, restarts>>

-----------------------------------------------------------------------------
(* The poller: one pass at a time.                                         *)

\* A failed listing is an empty one; the daemon gives an empty one up.
List ==
  /\ At("poller", "idle")
  /\ \/ /\ listed' = Mtimes(server)
        /\ Goto("poller", IF mode.once \/ mode.others \/ Existing(server) # {}
                          THEN "walk" ELSE "idle")
        /\ UNCHANGED <<history, bounds>>
     \/ /\ listed' = NoTimes
        /\ Goto("poller", IF mode.once THEN "walk" ELSE "idle")
        /\ Fail(Final(Paths))
  /\ UNCHANGED <<mode, now, disk, server, engine, inotify, walked>>

Walk ==
  /\ At("poller", "walk")
  /\ walked' = Mtimes(local)
  /\ thread' = [thread EXCEPT !["poller"].pc = "next",
                  !["poller"].todo = {p \in Paths : listed[p] # None \/ walked'[p] # None}]
  /\ UNCHANGED <<mode, now, disk, server, engine, inotify, listed, history, bounds>>

After(time, sync) == time # None /\ time > sync

\* Faulty: looking at the server's times only.
PickPathListed(p) ==
  /\ At("poller", "next") /\ p \in thread["poller"].todo
  /\ LET skip == ~ mode.once /\ ~ After(listed[p], lastSync[p])
     IN thread' = [thread EXCEPT !["poller"].todo = @ \ {p},
                     !["poller"].pc = IF skip THEN "next" ELSE "resolve",
                     !["poller"].path = IF skip THEN None ELSE p]
  /\ UNCHANGED <<mode, now, disk, server, engine, inotify, pass, history, bounds>>

\* The loop's next path.  The daemon skips a path that neither side changed.
\* It takes the paths in sorted order; any order is allowed here, for what is
\* done for a path looks at nothing of another's, and a pass that is abandoned
\* then leaves out any set of paths, not only those behind the one that failed.
PickPath(p) ==
  /\ At("poller", "next") /\ p \in thread["poller"].todo
  /\ LET skip == /\ ~ mode.once
                 /\ ~ After(walked[p], lastSync[p]) /\ ~ After(listed[p], lastSync[p])
     IN thread' = [thread EXCEPT !["poller"].todo = @ \ {p},
                     !["poller"].pc = IF skip THEN "next" ELSE "resolve",
                     !["poller"].path = IF skip THEN None ELSE p]
  /\ UNCHANGED <<mode, now, disk, server, engine, inotify, pass, history, bounds>>

\* Faulty: a conflict that always goes to the server.
DecisionServerWins(smb, srv, sync) ==
  CASE smb = None /\ srv = None -> "next"
    [] smb # None /\ srv = None -> IF smb > sync THEN "read" ELSE "remove"
    [] smb = None /\ srv # None -> IF srv > sync THEN "get" ELSE "delete"
    [] smb # None /\ srv # None ->
         CASE smb > sync /\ srv <= sync -> "read"
           [] srv > sync -> "get"
           [] OTHER -> "next"

\* Faulty: a local file without a counterpart that is left alone.
DecisionKeeps(smb, srv, sync) ==
  CASE srv = None -> IF smb # None /\ smb > sync THEN "read" ELSE "next"
    [] smb = None /\ srv # None -> IF srv > sync THEN "get" ELSE "delete"
    [] smb # None /\ srv # None ->
         CASE smb > sync /\ srv <= sync -> "read"
           [] smb <= sync /\ srv > sync -> "get"
           [] smb > sync /\ srv > sync -> IF smb >= srv THEN "read" ELSE "get"
           [] OTHER -> "next"

\* resolve_and_sync reads last_sync_time again, but neither file's time.  The
\* loop skips what this would delete, so the daemon comes to a deletion only
\* when the watcher recorded a transfer of the path between the two reads; it
\* need not get the path right then.
Decision(smb, srv, sync) ==
  CASE smb = None /\ srv = None -> "next"
    [] smb # None /\ srv = None -> IF smb > sync THEN "read" ELSE "remove"
    [] smb = None /\ srv # None -> IF srv > sync THEN "get" ELSE "delete"
    [] smb # None /\ srv # None ->
         CASE smb > sync /\ srv <= sync -> "read"
           [] smb <= sync /\ srv > sync -> "get"
           [] smb > sync /\ srv > sync -> IF smb >= srv THEN "read" ELSE "get"
           [] OTHER -> "next"

ResolveAndSync ==
  /\ At("poller", "resolve")
  /\ LET p == PathOf("poller")
         d == Decision(walked[p], listed[p], lastSync[p])
     IN /\ IF d = "next" THEN Finish("poller") ELSE Goto("poller", d)
        /\ raced' = IF d \in {"remove", "delete"} /\ ~ mode.once THEN raced \cup {p}
                    ELSE raced
  /\ UNCHANGED <<mode, now, disk, server, engine, inotify, pass, edits, last, bounds>>

\* run_one_pass ends with a fresh snapshot, and the program ends.
EndPass ==
  /\ At("poller", "next") /\ thread["poller"].todo = {}
  /\ listed' = NoTimes /\ walked' = NoTimes
  /\ IF mode.once
     THEN /\ Goto("poller", "done")
          /\ snapshot' = Existing(local)
          /\ lastSync' = [p \in Paths |-> IF local[p] # None THEN now ELSE lastSync[p]]
     ELSE Goto("poller", "idle") /\ UNCHANGED engine
  /\ UNCHANGED <<mode, now, disk, server, inotify, history, bounds>>

-----------------------------------------------------------------------------
(* The watcher: send what is ready, read events, look for new directories. *)

\* Pending paths whose last event is old enough; their age is left open.
\* A turn that finds nothing to do is left out.
TakeReady(ready) ==
  /\ At("watcher", "idle")
  /\ ready \subseteq pending
  /\ ready # {} \/ events # {} \/ dirs # watched
  /\ pending' = pending \ ready
  /\ thread' = [thread EXCEPT !["watcher"].pc = "next", !["watcher"].todo = ready]
  /\ UNCHANGED <<mode, now, disk, server, engine, events, watched, pass, history, bounds>>

SyncChangedFile(p) ==
  /\ At("watcher", "next") /\ p \in thread["watcher"].todo
  /\ LET pc == CASE local[p] # None -> "read"
                 [] local[p] = None /\ p \in snapshot -> "delete"
                 [] OTHER -> "next"
     IN thread' = [thread EXCEPT !["watcher"].pc = pc, !["watcher"].todo = @ \ {p},
                     !["watcher"].path = IF pc = "next" THEN None ELSE p]
  /\ UNCHANGED <<mode, now, disk, server, engine, inotify, pass, history, bounds>>

\* Faulty: a watch for everything an event names.
ReadEventsUnfiltered ==
  /\ At("watcher", "next") /\ thread["watcher"].todo = {}
  /\ pending' = pending \cup {p \in Paths \cap events : local[p] # None}
  /\ watched' = watched \cup events
  /\ events' = {}
  /\ Goto("watcher", "watches")
  /\ UNCHANGED <<mode, now, disk, server, engine, pass, history, bounds>>

\* Written and deleted files alike count only if the file is there now.
ReadEvents ==
  /\ At("watcher", "next") /\ thread["watcher"].todo = {}
  /\ pending' = pending \cup {p \in Paths \cap events : local[p] # None}
  /\ watched' = watched \cup (events \cap Dirs)
  /\ events' = {}
  /\ Goto("watcher", "watches")
  /\ UNCHANGED <<mode, now, disk, server, engine, pass, history, bounds>>

\* _update_watches uses a name that only run imports: a directory it finds
\* without a watch ends the thread.
UpdateWatches ==
  /\ At("watcher", "watches")
  /\ IF dirs \subseteq watched THEN Goto("watcher", "idle") /\ UNCHANGED events
     ELSE Goto("watcher", "dead") /\ events' = {}
  /\ UNCHANGED <<mode, now, disk, server, engine, watched, pending, pass, history, bounds>>

-----------------------------------------------------------------------------

InSync(p) ==
  \/ local[p] = None /\ server[p] = None
  \/ local[p] # None /\ server[p] # None /\ local[p].ver = server[p].ver

\* The service is restarted.  Nothing is kept between two lives: what differs
\* now is forgotten, unless only the server has it.
Restart ==
  /\ ~ mode.once /\ restarts < MaxRestarts
  /\ restarts' = restarts + 1
  /\ thread' = Started(mode)
  /\ snapshot' = Existing(local)
  /\ lastSync' = [p \in Paths |-> IF local[p] # None THEN now ELSE 0]
  /\ events' = {} /\ pending' = {} /\ watched' = dirs
  /\ listed' = NoTimes /\ walked' = NoTimes
  /\ raced' = raced \cup {p \in Existing(local) : ~ InSync(p)}
  /\ UNCHANGED <<mode, now, disk, server, edits, last, faults>>

WatcherStep ==
  \/ Transfer("watcher")
  \/ \E ready \in SUBSET pending : TakeReady(ready)
  \/ \E p \in Paths : SyncChangedFile(p)
  \/ ReadEvents
  \/ UpdateWatches

PollerStep ==
  \/ Transfer("poller") \/ PlaceFails \/ WriteBreaksOff
  \/ List \/ Walk \/ ResolveAndSync \/ EndPass
  \/ \E p \in Paths : PickPath(p)

Edit ==
  \/ \E p \in Paths : LocalWrite(p) \/ LocalDelete(p) \/ ServerWrite(p) \/ ServerDelete(p)
  \/ \E p \in Paths, m \in Times : LocalMoveIn(p, m)
  \/ \E d \in Dirs : MakeDir(d)

Next == WatcherStep \/ PollerStep \/ Edit \/ Advance \/ Restart

\* Both threads run for ever, and every call they make has a timeout.
Fairness == WF_vars(WatcherStep) /\ WF_vars(PollerStep)

Spec == Init /\ [][Next]_vars /\ Fairness

-----------------------------------------------------------------------------

\* A path is quiet when no thread works on it and the next pass would skip it.
Quiet(p) ==
  /\ ~ Busy(p) /\ ~ Queued(p)
  /\ local[p] # None => local[p].mtime <= lastSync[p]
  /\ server[p] # None => server[p].mtime <= lastSync[p]

\* When the daemon is done with a path, both sides hold the content of the
\* path's last edit, whichever side made it, through failed and unanswered
\* requests, abandoned passes and the end of the watcher; or, when a download
\* broke off after that edit, both hold what it left of the file, for that
\* passes for a newer save and replaces the good copy.  Edits that met the
\* daemon at work on the path, deletions and saves with an old stamp are
\* excepted (code: resolve_and_sync, sync_file_to_server, sync_file_from_server).
QuietPathsAgree ==
  ~ mode.once /\ ~ mode.backup =>
    \A p \in Paths : Quiet(p) /\ p \notin raced =>
      InSync(p) /\ (local[p] # None => local[p].ver = last[p])

\* A one-shot pass that no edit met and in which nothing failed leaves the same
\* set of files on both sides (code: run_one_pass, resolve_and_sync).
OnceMirrors ==
  At("poller", "done") =>
    \A p \in Paths \ raced : local[p] = None <=> server[p] = None

\* The threads do not answer each other's writes for ever: the echo of a
\* download, a retry and a lost answer all come to an end, and both threads
\* then transfer nothing more (code: sync_file_to_server and
\* sync_file_from_server record the transfer, _poll_once skips what was
\* recorded).
Settles == <>[](\A t \in Threads : thread[t].pc \notin Transfers)

\* As long as the server lists some file, a path comes to agree on both sides,
\* even after the watcher thread has ended (code: _poll_once).
EventuallyInSync ==
  ~ mode.once /\ ~ mode.backup =>
    \A p \in Paths :
      <>[](InSync(p) \/ p \in raced \/ (~ mode.others /\ Existing(server) = {}))
=============================================================================
