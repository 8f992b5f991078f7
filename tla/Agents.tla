-------------------------------- MODULE Agents --------------------------------
(***************************************************************************)
(* One client process and its QUIC connection to the server: the token     *)
(* handshake, and the streams that the users of the connection share       *)
(* (crates/proxygit-client/src/lib.rs and main.rs; handle_connection and   *)
(* handle_bi_stream in crates/proxygit-server/src/lib.rs).                 *)
(*                                                                         *)
(* The users are the agents of the MCP server, the flush worker and the    *)
(* mounted file system.  A user with a StreamPool opens PoolSize[u]        *)
(* streams before its first request; a stream serves one request and is    *)
(* dropped, so that a pool only shrinks.  The server grants Limit open     *)
(* streams to a connection and gives one back when both ends are through   *)
(* with it.                                                                *)
(*                                                                         *)
(* A server with a token accepts one stream, the one that the client       *)
(* opened first, and waits for a MSG_AUTH frame on it.  What a request is  *)
(* about and what the server does for it is left to the other modules.     *)
(***************************************************************************)
EXTENDS Naturals, FiniteSetsExt

CONSTANTS
  Users,        \* all users of the connection
  Agents,       \* those that come and go, each with its own socket
  PoolSize,     \* [Users -> the max_size of the user's StreamPool]
  Limit,        \* streams that the server lets the client have open at a time
  MaxStats      \* bound of the model: files that a listing names

ASSUME UsersAssumption == Agents \subseteq Users
ASSUME SizesAssumption ==
  PoolSize \in [Users -> Nat] /\ Limit \in Nat \ {0} /\ MaxStats \in Nat

VARIABLES
  required,   \* the server was started with a token
  token,      \* the client's token: "none", "right" or "wrong"
  server,     \* "hello": waits for MSG_AUTH; "serving"; "closed": the connection is gone
  client,     \* "start", "auth": sent MSG_AUTH; "ready", "failed"
  hello,      \* the answer to MSG_AUTH: "none", "ok", "refused"
  first,      \* the stream that was opened first: "unopened", the user in whose
              \* pool it waits, "used" or "dropped"
  credit,     \* streams that the client may still open
  closing,    \* streams that the client has dropped and the server not yet
  pooled,     \* [Users -> streams in its pool]
  pc,         \* [Users -> "off", "prewarm", "idle", "borrow", "sent", "answered"]
  call,       \* [Users -> the tool call: its kind and the requests it still needs]
  reply,      \* [Users -> the answer to its last request: "ok" or "error"]
  dispatched  \* history: the server has handled a request of this connection

session == <<required, token, server, client, hello, dispatched>>
streams == <<first, credit, closing, pooled>>
users == <<pc, call, reply>>
vars == <<session, streams, users>>

Kinds == {"single", "write", "map", "list", "stats"}
NoCall == [kind |-> "single", todo |-> 0]

Init ==
  /\ required \in BOOLEAN
  /\ token \in {"none", "right", "wrong"}
  /\ server = IF required THEN "hello" ELSE "serving"
  /\ client = "start"
  /\ hello = "none"
  /\ first = "unopened"
  /\ credit = Limit
  /\ closing = 0
  /\ pooled = [u \in Users |-> 0]
  /\ pc = [u \in Users |-> "off"]
  /\ call = [u \in Users |-> NoCall]
  /\ reply = [u \in Users |-> "ok"]
  /\ dispatched = FALSE

Goto(u, l) == pc' = [pc EXCEPT ![u] = l]
Open(n) == credit' = credit - n
Drop(n) == closing' = closing + n

-------------------------------------------------------------------------------
(* The handshake                                                           *)

\* Without a token the client is ready as soon as the connection stands.  With
\* one it sends MSG_AUTH on its first stream and waits for the answer.
Connect ==
  /\ client = "start" /\ server /= "closed"
  /\ \/ token = "none" /\ client' = "ready" /\ UNCHANGED <<first, credit>>
     \/ token /= "none" /\ client' = "auth" /\ first' = "used" /\ Open(1)
  /\ UNCHANGED <<required, token, server, hello, dispatched, closing, pooled, users>>

\* The server reads MSG_AUTH.  After a wrong token it returns, which closes the
\* connection; the answer may still arrive.
CheckToken ==
  /\ server = "hello" /\ client = "auth" /\ hello = "none"
  /\ IF token = "right"
     THEN hello' = "ok" /\ server' = "serving"
     ELSE hello' = "refused" /\ server' = "closed"
  /\ UNCHANGED <<required, token, client, dispatched, streams, users>>

\* Faulty: no return after the refusal.
RefuseAndServe ==
  /\ server = "hello" /\ token = "none"
  /\ first \in {"used", "dropped"}
  /\ server' = "serving"
  /\ UNCHANGED <<required, token, client, hello, dispatched, streams, users>>

\* The first stream brings another frame, or ends without one.
RefuseOther ==
  /\ server = "hello" /\ token = "none"
  /\ first \in {"used", "dropped"}
  /\ server' = "closed"
  /\ UNCHANGED <<required, token, client, hello, dispatched, streams, users>>

\* A server without a token takes MSG_AUTH for a request of an unknown type.
AuthUnknown ==
  /\ server = "serving" /\ ~required
  /\ client = "auth" /\ hello = "none"
  /\ hello' = "refused"
  /\ UNCHANGED <<required, token, server, client, dispatched, streams, users>>

AuthAnswer ==
  /\ client = "auth" /\ hello /= "none"
  /\ client' = IF hello = "ok" THEN "ready" ELSE "failed"
  /\ Drop(1)
  /\ UNCHANGED <<required, token, server, hello, dispatched, first, credit, pooled, users>>

\* No answer in five seconds, or the connection went first.  A client that
\* fails exits, and its connection closes.
AuthTimeout ==
  /\ client = "auth"
  /\ client' = "failed"
  /\ UNCHANGED <<required, token, server, hello, dispatched, streams, users>>

Exit ==
  /\ client = "failed" /\ server /= "closed"
  /\ server' = "closed"
  /\ UNCHANGED <<required, token, client, hello, dispatched, streams, users>>

\* The network or the server goes away.  The client does not connect again.
Lose ==
  /\ server /= "closed"
  /\ server' = "closed"
  /\ UNCHANGED <<required, token, client, hello, dispatched, streams, users>>

-------------------------------------------------------------------------------
(* Streams                                                                 *)

\* An agent connects to the MCP port; the flush worker starts with the process.
Arrive(u) ==
  /\ client = "ready" /\ pc[u] = "off"
  /\ Goto(u, "prewarm")
  /\ UNCHANGED <<session, streams, call, reply>>

\* prewarm opens one stream after the other and waits when there is no credit.
Prewarm(u) ==
  /\ pc[u] = "prewarm" /\ server /= "closed"
  /\ pooled[u] < PoolSize[u] /\ credit > 0
  /\ Open(1)
  /\ pooled' = [pooled EXCEPT ![u] = @ + 1]
  /\ first' = IF first = "unopened" THEN u ELSE first
  /\ UNCHANGED <<session, closing, users>>

Prewarmed(u) ==
  /\ pc[u] = "prewarm"
  /\ pooled[u] = PoolSize[u] \/ server = "closed"
  /\ Goto(u, "idle")
  /\ UNCHANGED <<session, streams, call, reply>>

\* A tool call: read, stat, list and search are one request, a write is the
\* HAS_BLOCKS handshake and the write, with a stat before when the client looks
\* up the expected hash itself.
Ask(u) ==
  /\ pc[u] = "idle"
  /\ \E c \in {[kind |-> "single", todo |-> 1], [kind |-> "map", todo |-> 1],
               [kind |-> "write", todo |-> 2], [kind |-> "write", todo |-> 3]} :
       call' = [call EXCEPT ![u] = c]
  /\ Goto(u, "borrow")
  /\ UNCHANGED <<session, streams, reply>>

\* The last stream of the pool, and the first that the client opened is the
\* last that its pool gives away.
BorrowPooled(u) ==
  /\ pc[u] = "borrow" /\ server /= "closed"
  /\ pooled[u] > 0
  /\ pooled' = [pooled EXCEPT ![u] = @ - 1]
  /\ first' = IF first = u /\ pooled[u] = 1 THEN "used" ELSE first
  /\ Goto(u, "sent")
  /\ UNCHANGED <<session, credit, closing, call, reply>>

\* From an empty pool: open_bi, which waits for credit.
BorrowNew(u) ==
  /\ pc[u] = "borrow" /\ server /= "closed"
  /\ pooled[u] = 0 /\ credit > 0
  /\ Open(1)
  /\ first' = IF first = "unopened" THEN "used" ELSE first
  /\ Goto(u, "sent")
  /\ UNCHANGED <<session, closing, pooled, call, reply>>

\* The handler answers, or returns an error and drops the stream; to the client
\* these are an answer and an error.
Serve(u) ==
  /\ server = "serving" /\ pc[u] = "sent"
  /\ \E r \in {"ok", "error"} : reply' = [reply EXCEPT ![u] = r]
  /\ Goto(u, "answered")
  /\ dispatched' = TRUE
  /\ UNCHANGED <<required, token, server, client, hello, streams, call>>

\* On a closed connection every step of a request is an error.
Fail(u) ==
  /\ server = "closed" /\ pc[u] \in {"borrow", "sent"}
  /\ reply' = [reply EXCEPT ![u] = "error"]
  /\ Goto(u, "answered")
  /\ UNCHANGED <<session, streams, call>>

\* What a call does after an answer.  A write goes on after any answer but its
\* last; a map that fails falls back to a listing and a stat for each file.
After(c, r) ==
  CASE c.kind = "map" /\ r = "error" -> {[kind |-> "list", todo |-> 1]}
    [] c.kind = "list" /\ r = "ok"   -> {[kind |-> "stats", todo |-> n] : n \in 0 .. MaxStats}
    [] OTHER                         -> {[c EXCEPT !.todo = @ - 1]}

\* Faulty: the stream of a good answer is kept, and serves no one.
ReceiveKeeps(u) ==
  /\ pc[u] = "answered"
  /\ \E c \in After(call[u], reply[u]) :
       IF c.todo = 0
       THEN call' = [call EXCEPT ![u] = NoCall] /\ Goto(u, "idle")
       ELSE call' = [call EXCEPT ![u] = c] /\ Goto(u, "borrow")
  /\ reply' = [reply EXCEPT ![u] = "ok"]
  /\ IF server = "closed" \/ reply[u] = "ok" THEN UNCHANGED closing ELSE Drop(1)
  /\ UNCHANGED <<session, first, credit, pooled>>

\* return_stream drops the stream, whatever came on it.
Receive(u) ==
  /\ pc[u] = "answered"
  /\ \E c \in After(call[u], reply[u]) :
       IF c.todo = 0
       THEN call' = [call EXCEPT ![u] = NoCall] /\ Goto(u, "idle")
       ELSE call' = [call EXCEPT ![u] = c] /\ Goto(u, "borrow")
  /\ reply' = [reply EXCEPT ![u] = "ok"]
  /\ IF server = "closed" THEN UNCHANGED closing ELSE Drop(1)
  /\ UNCHANGED <<session, first, credit, pooled>>

\* Faulty: the next connection finds the dropped streams in its pool.
LeaveShared(u) ==
  /\ u \in Agents /\ pc[u] = "idle"
  /\ Goto(u, "off")
  /\ Drop(pooled[u])
  /\ UNCHANGED <<session, credit, pooled, first, call, reply>>

\* The agent closes its socket, which is seen between two calls only; its pool
\* goes with it.
Leave(u) ==
  /\ u \in Agents /\ pc[u] = "idle"
  /\ Goto(u, "off")
  /\ pooled' = [pooled EXCEPT ![u] = 0]
  /\ Drop(pooled[u])
  /\ first' = IF first = u /\ pooled[u] > 0 THEN "dropped" ELSE first
  /\ UNCHANGED <<session, credit, call, reply>>

\* The server's task for a dropped stream ends, and its credit returns.  In the
\* handshake it looks at no stream but the first.
Release ==
  /\ server = "serving" /\ closing > 0
  /\ closing' = closing - 1
  /\ credit' = credit + 1
  /\ UNCHANGED <<session, first, pooled, users>>

UserStep(u) ==
  \/ Arrive(u) \/ Prewarm(u) \/ Prewarmed(u) \/ Ask(u) \/ BorrowPooled(u)
  \/ BorrowNew(u) \/ Serve(u) \/ Fail(u) \/ Receive(u) \/ Leave(u)

Next ==
  \/ Connect \/ CheckToken \/ RefuseOther \/ AuthUnknown \/ AuthAnswer
  \/ AuthTimeout \/ Exit \/ Lose \/ Release
  \/ \E u \in Users : UserStep(u)

\* Tasks that can run do run.  A task that waits for credit is woken with all
\* others that wait when some returns, and gets it sooner or later.
UserFairness(u) ==
  /\ SF_vars(Prewarm(u)) /\ SF_vars(BorrowNew(u))
  /\ WF_vars(Prewarmed(u)) /\ WF_vars(BorrowPooled(u))
  /\ WF_vars(Serve(u)) /\ WF_vars(Fail(u)) /\ WF_vars(Receive(u))

Fairness ==
  /\ WF_vars(CheckToken) /\ WF_vars(RefuseOther) /\ WF_vars(AuthUnknown)
  /\ WF_vars(AuthAnswer) /\ WF_vars(Exit) /\ WF_vars(Release)
  /\ \A u \in Users : UserFairness(u)

Spec == Init /\ [][Next]_vars /\ Fairness

-------------------------------------------------------------------------------
(* Properties                                                              *)

\* The variables have their types, a pool is no larger than its bound, and no
\* stream is counted twice.
TypeOK ==
  /\ required \in BOOLEAN /\ token \in {"none", "right", "wrong"}
  /\ server \in {"hello", "serving", "closed"}
  /\ client \in {"start", "auth", "ready", "failed"}
  /\ hello \in {"none", "ok", "refused"}
  /\ first \in Users \cup {"unopened", "used", "dropped"}
  /\ credit \in 0 .. Limit /\ closing \in 0 .. Limit
  /\ pooled \in [Users -> Nat]
  /\ \A u \in Users : pooled[u] <= PoolSize[u]
  /\ pc \in [Users -> {"off", "prewarm", "idle", "borrow", "sent", "answered"}]
  /\ call \in [Users -> [kind : Kinds, todo : Nat]]
  /\ reply \in [Users -> {"ok", "error"}]
  /\ dispatched \in BOOLEAN

\* The server handles no request of a client that has not shown the token it was
\* started with, and a client that set out with a token and is ready has been
\* accepted with it: neither side takes the other for more than it is, whatever
\* the order of timeouts, late answers and requests (handle_connection's early
\* returns and connect_to_server's match).
AuthAgrees ==
  /\ dispatched => ~required \/ token = "right"
  /\ client = "ready" /\ token /= "none" => required /\ token = "right"

\* Every stream that may be opened waits in someone's pool.
Hoarded == MapThenSumSet(LAMBDA u : pooled[u], Users) = Limit

\* The server waits for MSG_AUTH on a stream that waits in someone's pool.
Mute == server = "hello" /\ first \in Users

\* An agent that connects, and a call that was made, get their answer, unless
\* the pools have all streams or a client without a token has kept the first
\* one: no used stream is lost, and an error ends a call as well as an answer
\* does (StreamPool, the tool functions and generate_project_map).
Answered ==
  \A u \in Users :
    pc[u] \notin {"off", "idle"} ~> pc[u] \in {"off", "idle"} \/ Hoarded \/ Mute
===============================================================================
