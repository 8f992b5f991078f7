----------------------------- MODULE Agents_proofs -----------------------------
(***************************************************************************)
(* Proofs, for any users, pools and stream limit, that client and server   *)
(* agree on the outcome of the handshake and that no stream is counted     *)
(* twice.  AuthInv and StreamInv are the inductive invariants.             *)
(***************************************************************************)
EXTENDS Agents, FiniteSetTheorems, TLAPS

-----------------------------------------------------------------------------
(* The handshake.                                                           *)

\* The client may be served: no token is asked for, or it has the right one.
Admitted == ~required \/ token = "right"

\* Why AuthAgrees holds: only a server with a token waits for MSG_AUTH, it
\* serves only after it has seen the right one, and it says so only then.
ServesAdmitted == server = "serving" => Admitted
OnlyRequiredWaits == server = "hello" => required
OkMeansAdmitted == hello = "ok" => required /\ token = "right"

AuthInv == AuthAgrees /\ ServesAdmitted /\ OnlyRequiredWaits /\ OkMeansAdmitted

USE DEF AuthInv, AuthAgrees, Admitted, ServesAdmitted, OnlyRequiredWaits,
        OkMeansAdmitted

LEMMA InitAuth == Init => AuthInv
BY DEF Init

\* The steps of the handshake.
LEMMA HandshakeAuth ==
  ASSUME AuthInv,
         \/ Connect \/ CheckToken \/ RefuseOther \/ AuthUnknown \/ AuthAnswer
         \/ AuthTimeout \/ Exit \/ Lose
  PROVE  AuthInv'
<1>1. CASE Connect
  BY <1>1 DEF Connect
<1>2. CASE CheckToken
  BY <1>2 DEF CheckToken
<1>3. CASE RefuseOther
  BY <1>3 DEF RefuseOther
<1>4. CASE AuthUnknown
  BY <1>4 DEF AuthUnknown
<1>5. CASE AuthAnswer
  BY <1>5 DEF AuthAnswer
<1>6. CASE AuthTimeout
  BY <1>6 DEF AuthTimeout
<1>7. CASE Exit \/ Lose
  BY <1>7 DEF Exit, Lose
<1> QED
  BY <1>1, <1>2, <1>3, <1>4, <1>5, <1>6, <1>7

\* Of the steps of a user, the server's answer to a request is the only one that
\* touches the session.
LEMMA UserAuth ==
  ASSUME AuthInv, NEW u \in Users, UserStep(u)
  PROVE  AuthInv'
<1>1. CASE Serve(u)
  BY <1>1 DEF Serve
<1>2. CASE Arrive(u) \/ Prewarm(u) \/ Prewarmed(u) \/ Ask(u)
  BY <1>2 DEF Arrive, Prewarm, Prewarmed, Ask, session
<1>3. CASE BorrowPooled(u) \/ BorrowNew(u) \/ Fail(u)
  BY <1>3 DEF BorrowPooled, BorrowNew, Fail, session
<1>4. CASE Receive(u)
  BY <1>4 DEF Receive, session
<1>5. CASE Leave(u)
  BY <1>5 DEF Leave, session
<1> QED
  BY <1>1, <1>2, <1>3, <1>4, <1>5 DEF UserStep

LEMMA NextAuth == AuthInv /\ [Next]_vars => AuthInv'
<1> SUFFICES ASSUME AuthInv, [Next]_vars PROVE AuthInv'
  OBVIOUS
<1>1. CASE \/ Connect \/ CheckToken \/ RefuseOther \/ AuthUnknown \/ AuthAnswer
           \/ AuthTimeout \/ Exit \/ Lose
  BY <1>1, HandshakeAuth
<1>2. CASE Release
  BY <1>2 DEF Release, session
<1>3. CASE \E u \in Users : UserStep(u)
  BY <1>3, UserAuth
<1>4. CASE UNCHANGED vars
  BY <1>4 DEF vars, session
<1> QED
  BY <1>1, <1>2, <1>3, <1>4 DEF Next

\* The server handles requests only of a client that may be served, and a client
\* that is ready with a token has been accepted with it (handle_connection,
\* connect_to_server).
THEOREM Agrees == Spec => []AuthAgrees
<1>1. AuthInv => AuthAgrees
  OBVIOUS
<1> QED
  BY InitAuth, NextAuth, <1>1, PTL DEF Spec

-----------------------------------------------------------------------------
(* The streams.                                                             *)

\* Each stream the client has open, as a place: <<u, i>> in the pool of u, and
\* <<u, 0>> for the request that u has sent.  On a closed connection requests go
\* on without a stream.
Streams ==
  {x \in Users \X Nat :
     IF x[2] = 0 THEN server # "closed" /\ pc[x[1]] \in {"sent", "answered"}
                 ELSE x[2] <= pooled[x[1]]}

\* The stream of MSG_AUTH.
Waiting == IF client = "auth" THEN 1 ELSE 0

\* No more streams are open, closing or left than the server grants.
Counted ==
  /\ IsFiniteSet(Streams)
  /\ credit + closing + Waiting + Cardinality(Streams) <= Limit

\* Until the client is ready nobody uses the connection.
NobodyYet ==
  /\ client = "start" => credit = Limit
  /\ client # "ready" => \A u \in Users : pc[u] = "off"

\* A call under way has a request to make.
Underway == \A u \in Users : pc[u] \in {"borrow", "sent", "answered"} => call[u].todo > 0

StreamInv == TypeOK /\ Counted /\ NobodyYet /\ Underway

LEMMA InStreams ==
  ASSUME NEW u \in Users, NEW i \in Nat
  PROVE  /\ <<u, i>> \in Streams <=>
              IF i = 0 THEN server # "closed" /\ pc[u] \in {"sent", "answered"}
                       ELSE i <= pooled[u]
         /\ (<<u, i>> \in Streams)' <=>
              IF i = 0 THEN server' # "closed" /\ pc'[u] \in {"sent", "answered"}
                       ELSE i <= pooled'[u]
  BY DEF Streams

LEMMA PlacesOfStreams ==
  /\ Streams \subseteq Users \X Nat
  /\ Streams' \subseteq Users \X Nat
  BY DEF Streams

LEMMA LimitType == Limit \in Nat /\ Limit > 0 /\ PoolSize \in [Users -> Nat] /\ MaxStats \in Nat
  BY SizesAssumption

\* What a step adds to one number it takes from another.
LEMMA CountedStep ==
  ASSUME StreamInv, IsFiniteSet(Streams'), credit' \in Nat, closing' \in Nat,
         credit' + closing' + Waiting' + Cardinality(Streams')
           <= credit + closing + Waiting + Cardinality(Streams)
  PROVE  Counted' /\ credit' \in 0..Limit /\ closing' \in 0..Limit
<1>1. /\ Cardinality(Streams) \in Nat /\ Cardinality(Streams') \in Nat
      /\ Waiting \in Nat /\ Waiting' \in Nat /\ Limit \in Nat
      /\ credit \in Nat /\ closing \in Nat
      /\ credit + closing + Waiting + Cardinality(Streams) <= Limit
  BY FS_CardinalityType, LimitType DEF StreamInv, Counted, Waiting, TypeOK
<1>2. ASSUME NEW a \in Nat, NEW b \in Nat, NEW c \in Nat, NEW d \in Nat,
             NEW e \in Nat, NEW f \in Nat, NEW g \in Nat, NEW h \in Nat, NEW l \in Nat,
             a + b + c + d <= e + f + g + h, e + f + g + h <= l
      PROVE  a + b + c + d <= l /\ a \in 0..l /\ b \in 0..l
  BY <1>2
<1> HIDE DEF Waiting
<1>3. credit' + closing' + Waiting' + Cardinality(Streams') <= Limit
      /\ credit' \in 0..Limit /\ closing' \in 0..Limit
  BY <1>1, <1>2
<1> QED
  BY <1>3 DEF Counted

\* A step that opens no stream.
LEMMA FewerStreams ==
  ASSUME StreamInv, Streams' \subseteq Streams, credit' \in Nat, closing' \in Nat,
         credit' + closing' + Waiting' <= credit + closing + Waiting
  PROVE  Counted' /\ credit' \in 0..Limit /\ closing' \in 0..Limit
<1>1. IsFiniteSet(Streams') /\ Cardinality(Streams') <= Cardinality(Streams)
      /\ Cardinality(Streams) \in Nat /\ Cardinality(Streams') \in Nat
  BY FS_Subset, FS_CardinalityType DEF StreamInv, Counted
<1>2. Waiting \in Nat /\ Waiting' \in Nat /\ credit \in Nat /\ closing \in Nat
  BY LimitType DEF StreamInv, Waiting, TypeOK
<1>3. ASSUME NEW a \in Nat, NEW b \in Nat, NEW c \in Nat, NEW d \in Nat,
             NEW e \in Nat, NEW f \in Nat, NEW g \in Nat, NEW h \in Nat,
             a + b + c <= e + f + g, d <= h
      PROVE  a + b + c + d <= e + f + g + h
  BY <1>3
<1>4. credit' + closing' + Waiting' + Cardinality(Streams')
           <= credit + closing + Waiting + Cardinality(Streams)
  BY <1>1, <1>2, <1>3, ZenonT(60)
<1> QED
  BY <1>1, <1>4, CountedStep

\* A step that opens the stream x.
LEMMA OneMoreStream ==
  ASSUME StreamInv, NEW x, x \notin Streams, Streams' = Streams \cup {x},
         credit > 0, credit' = credit - 1, closing' = closing, client' = client
  PROVE  Counted' /\ credit' \in 0..Limit /\ closing' \in 0..Limit
<1>1. IsFiniteSet(Streams') /\ Cardinality(Streams') = Cardinality(Streams) + 1
      /\ Cardinality(Streams) \in Nat
  BY FS_AddElement, FS_CardinalityType DEF StreamInv, Counted
<1>2. Waiting \in Nat /\ Waiting' = Waiting /\ credit \in Nat /\ closing \in Nat
  BY LimitType DEF StreamInv, Waiting, TypeOK
<1> HIDE DEF Waiting
<1>3. credit' + closing' + Waiting' + Cardinality(Streams')
           <= credit + closing + Waiting + Cardinality(Streams)
  BY <1>1, <1>2
<1> QED
  BY <1>1, <1>2, <1>3, CountedStep

\* A step that drops the streams xs, which are n.
LEMMA DroppedStreams ==
  ASSUME StreamInv, NEW xs, xs \subseteq Streams, Streams' = Streams \ xs,
         NEW n \in Nat, Cardinality(xs) = n, credit' = credit, closing' = closing + n,
         client' = client
  PROVE  Counted' /\ credit' \in 0..Limit /\ closing' \in 0..Limit
<1>1. IsFiniteSet(Streams') /\ Cardinality(Streams') = Cardinality(Streams) - n
      /\ Cardinality(Streams) \in Nat
  <2>1. Streams \cap xs = xs
    OBVIOUS
  <2> QED
    BY <2>1, FS_Difference, FS_CardinalityType, ZenonT(60) DEF StreamInv, Counted
<1>2. Waiting \in Nat /\ Waiting' = Waiting /\ credit \in Nat /\ closing \in Nat
  BY LimitType DEF StreamInv, Waiting, TypeOK
<1> HIDE DEF Waiting
<1>3. credit' + closing' + Waiting' + Cardinality(Streams')
           <= credit + closing + Waiting + Cardinality(Streams)
  BY <1>1, <1>2
<1> QED
  BY <1>1, <1>2, <1>3, CountedStep

LEMMA InitStreams == Init => StreamInv
<1> SUFFICES ASSUME Init PROVE StreamInv
  OBVIOUS
<1>1. TypeOK
  <2>1. NoCall \in [kind : Kinds, todo : Nat]
    BY DEF NoCall, Kinds
  <2>2. /\ \A u \in Users : pooled[u] <= PoolSize[u]
        /\ credit \in 0..Limit /\ closing \in 0..Limit
    BY LimitType DEF Init
  <2> QED
    BY <2>1, <2>2 DEF Init, TypeOK
<1>2. Streams = {}
  BY DEF Init, Streams
<1>3. Counted
  BY <1>2, LimitType, FS_EmptySet DEF Init, Counted, Waiting
<1> QED
  BY <1>1, <1>3 DEF Init, StreamInv, NobodyYet, Underway

\* The handshake touches no user, and a connection that closes takes the streams
\* of the requests along.
LEMMA HandshakeStreams ==
  ASSUME StreamInv,
         \/ Connect \/ CheckToken \/ RefuseOther \/ AuthUnknown \/ AuthAnswer
         \/ AuthTimeout \/ Exit \/ Lose \/ Release
  PROVE  StreamInv'
<1>1. TypeOK /\ UNCHANGED <<pooled, pc, call, reply>> /\ (server = "closed" => server' = "closed")
  BY DEF StreamInv, Connect, CheckToken, RefuseOther, AuthUnknown, AuthAnswer, AuthTimeout, Exit,
         Lose, Release, session, streams, users
<1>2. Streams' \subseteq Streams
  BY <1>1 DEF Streams
<1>3. /\ credit' \in Nat /\ closing' \in Nat
      /\ credit' + closing' + Waiting' <= credit + closing + Waiting
  <2>1. credit \in Nat /\ closing \in Nat
    BY <1>1, LimitType DEF TypeOK
  <2>2. CASE Connect
    <3>1. credit > 0
      BY <2>2, LimitType DEF Connect, StreamInv, NobodyYet
    <3> QED
      BY <2>1, <2>2, <3>1 DEF Connect, Open, Waiting
  <2>3. CASE CheckToken \/ RefuseOther \/ AuthUnknown \/ Exit \/ Lose \/ AuthTimeout
    BY <2>1, <2>3 DEF CheckToken, RefuseOther, AuthUnknown, AuthTimeout, Exit, Lose, streams, Waiting
  <2>4. CASE AuthAnswer
    BY <2>1, <2>4 DEF AuthAnswer, Drop, Waiting
  <2>5. CASE Release
    BY <2>1, <2>5 DEF Release, Waiting, session
  <2> QED
    BY <2>2, <2>3, <2>4, <2>5
<1>4. Counted' /\ credit' \in 0..Limit /\ closing' \in 0..Limit
  BY <1>2, <1>3, FewerStreams
<1>5. TypeOK'
  BY <1>1, <1>4 DEF TypeOK, Connect, CheckToken, RefuseOther, AuthUnknown, AuthAnswer, AuthTimeout,
         Exit, Lose, Release, session, streams
<1>6. NobodyYet'
  <2>1. CASE Release
    <3>1. client # "start"
      BY <1>1, <1>4, <2>1, LimitType DEF StreamInv, NobodyYet, Release
    <3> QED
      BY <1>1, <2>1, <3>1 DEF StreamInv, NobodyYet, Release, session
  <2>2. CASE ~ Release
    BY <1>1, <2>2 DEF StreamInv, NobodyYet, Connect, CheckToken, RefuseOther, AuthUnknown,
                      AuthAnswer, AuthTimeout, Exit, Lose, streams
  <2> QED
    BY <2>1, <2>2
<1>7. Underway'
  BY <1>1 DEF StreamInv, Underway
<1> QED
  BY <1>4, <1>5, <1>6, <1>7 DEF StreamInv

\* What a call does next, it has something to do for.
LEMMA AfterType ==
  ASSUME NEW c \in [kind : Kinds, todo : Nat], c.todo > 0, NEW r, NEW d \in After(c, r)
  PROVE  d \in [kind : Kinds, todo : Nat]
<1>1. CASE c.kind = "map" /\ r = "error"
  BY <1>1 DEF After, Kinds
<1>2. CASE c.kind = "list" /\ r = "ok"
  BY <1>2, LimitType DEF After, Kinds
<1>3. CASE ~ (c.kind = "map" /\ r = "error") /\ ~ (c.kind = "list" /\ r = "ok")
  <2>1. d = [c EXCEPT !.todo = c.todo - 1]
    BY <1>3 DEF After
  <2> QED
    BY <2>1
<1> QED
  BY <1>1, <1>2, <1>3

LEMMA UserStreams ==
  ASSUME StreamInv, NEW u \in Users, UserStep(u)
  PROVE  StreamInv'
<1>1. /\ TypeOK /\ credit \in Nat /\ closing \in Nat /\ pooled[u] \in Nat
      /\ PoolSize[u] \in Nat /\ call[u] \in [kind : Kinds, todo : Nat]
      /\ pooled \in [Users -> Nat]
      /\ pc \in [Users -> {"off", "prewarm", "idle", "borrow", "sent", "answered"}]
  BY LimitType DEF StreamInv, TypeOK
<1>2. UNCHANGED <<required, token, server, client, hello>>
  BY DEF UserStep, Arrive, Prewarm, Prewarmed, Ask, BorrowPooled, BorrowNew, Serve, Fail, Receive,
         Leave, session
<1>3. client = "ready"
  <2>1. pc[u] # "off" \/ client = "ready"
    BY DEF UserStep, Arrive, Prewarm, Prewarmed, Ask, BorrowPooled, BorrowNew, Serve, Fail,
           Receive, Leave
  <2> QED
    BY <2>1 DEF StreamInv, NobodyYet
<1>4. NobodyYet'
  BY <1>2, <1>3 DEF NobodyYet
<1>5. Waiting = 0 /\ Waiting' = 0
  BY <1>2, <1>3 DEF Waiting
<1>6. Counted' /\ credit' \in 0..Limit /\ closing' \in 0..Limit
  <2>0. /\ Streams \subseteq Users \X Nat /\ Streams' \subseteq Users \X Nat
        /\ <<u, 0>> \in Users \X Nat
    BY PlacesOfStreams
  <2>1. CASE \/ Arrive(u) \/ Prewarmed(u) \/ Ask(u) \/ Serve(u) \/ Fail(u)
             \/ Receive(u) /\ server = "closed"
    <3>1. UNCHANGED <<pooled, credit, closing>>
      BY <2>1 DEF Arrive, Prewarmed, Ask, Serve, Fail, Receive, streams
    <3>2. /\ \A v \in Users : v # u => pc'[v] = pc[v]
          /\ server # "closed" => (pc'[u] \in {"sent", "answered"} <=> pc[u] \in {"sent", "answered"})
      BY <1>1, <2>1 DEF Arrive, Prewarmed, Ask, Serve, Fail, Receive, Goto
    <3>3. Streams' = Streams
      BY <1>2, <3>1, <3>2 DEF Streams
    <3> QED
      BY <1>1, <1>5, <3>1, <3>3, FewerStreams
  <2>2. CASE Prewarm(u)
    <3>1. /\ server' # "closed" /\ UNCHANGED <<pc, closing>> /\ credit > 0 /\ credit' = credit - 1
          /\ pooled' = [pooled EXCEPT ![u] = pooled[u] + 1]
      BY <1>2, <2>2 DEF Prewarm, users, Open
    <3>2. <<u, pooled[u] + 1>> \notin Streams /\ Streams' = Streams \cup {<<u, pooled[u] + 1>>}
      <4>1. ASSUME NEW v \in Users, NEW i \in Nat
            PROVE  (<<v, i>> \in Streams)' <=> <<v, i>> \in Streams \/ <<v, i>> = <<u, pooled[u] + 1>>
        <5>1. CASE i = 0
          BY <1>1, <1>2, <3>1, <5>1, InStreams
        <5>2. CASE i # 0 /\ v = u
          BY <1>1, <3>1, <5>2, InStreams
        <5>3. CASE i # 0 /\ v # u
          BY <1>1, <3>1, <5>3, InStreams
        <5> QED
          BY <5>1, <5>2, <5>3
      <4>2. pooled[u] + 1 \in Nat /\ pooled[u] + 1 # 0 /\ ~ (pooled[u] + 1 <= pooled[u])
        BY <1>1
      <4> QED
        BY <2>0, <4>1, <4>2, InStreams
    <3> QED
      BY <1>2, <3>1, <3>2, OneMoreStream
  <2>3. CASE BorrowPooled(u)
    <3>1. /\ server # "closed" /\ pc[u] = "borrow" /\ UNCHANGED <<credit, closing>> /\ pooled[u] > 0
          /\ pooled' = [pooled EXCEPT ![u] = pooled[u] - 1] /\ pc' = [pc EXCEPT ![u] = "sent"]
      BY <2>3 DEF BorrowPooled, Goto
    <3> DEFINE top == <<u, pooled[u]>>
               rest == Streams \ {top}
    <3>2. /\ top \in Streams /\ <<u, 0>> \notin Streams /\ top # <<u, 0>>
          /\ Streams' = rest \cup {<<u, 0>>}
      <4>1. ASSUME NEW v \in Users, NEW i \in Nat
            PROVE  (<<v, i>> \in Streams)' <=> \/ <<v, i>> \in Streams /\ <<v, i>> # top
                                               \/ <<v, i>> = <<u, 0>>
        <5>1. CASE i = 0
          BY <1>1, <1>2, <3>1, <5>1, InStreams
        <5>2. CASE i # 0 /\ v = u
          BY <1>1, <3>1, <5>2, InStreams
        <5>3. CASE i # 0 /\ v # u
          BY <1>1, <3>1, <5>3, InStreams
        <5> QED
          BY <5>1, <5>2, <5>3
      <4>2. pooled[u] # 0 /\ pooled[u] <= pooled[u]
        BY <1>1, <3>1
      <4> QED
        BY <1>1, <2>0, <3>1, <4>1, <4>2, InStreams
    <3>3. IsFiniteSet(Streams') /\ Cardinality(Streams') = Cardinality(Streams)
      <4>1. IsFiniteSet(Streams) /\ Cardinality(Streams) \in Nat
        BY FS_CardinalityType DEF StreamInv, Counted
      <4>2. IsFiniteSet(rest) /\ Cardinality(rest) = Cardinality(Streams) - 1
        BY <3>2, <4>1, FS_RemoveElement
      <4>3. <<u, 0>> \notin rest
        BY <3>2
      <4>4. Cardinality(rest \cup {<<u, 0>>}) = Cardinality(rest) + 1
            /\ IsFiniteSet(rest \cup {<<u, 0>>})
        BY <4>2, <4>3, FS_AddElement
      <4> QED
        BY <3>2, <4>1, <4>2, <4>4
    <3>4. Cardinality(Streams) \in Nat
      BY FS_CardinalityType DEF StreamInv, Counted
    <3> HIDE DEF Waiting
    <3> QED
      BY <1>1, <1>5, <3>1, <3>3, <3>4, CountedStep
  <2>4. CASE BorrowNew(u)
    <3>1. /\ server # "closed" /\ pc[u] = "borrow" /\ UNCHANGED <<pooled, closing>>
          /\ credit > 0 /\ credit' = credit - 1 /\ pc' = [pc EXCEPT ![u] = "sent"]
      BY <2>4 DEF BorrowNew, Goto, Open
    <3>2. <<u, 0>> \notin Streams /\ Streams' = Streams \cup {<<u, 0>>}
      <4>1. ASSUME NEW v \in Users, NEW i \in Nat
            PROVE  (<<v, i>> \in Streams)' <=> <<v, i>> \in Streams \/ <<v, i>> = <<u, 0>>
        <5>1. CASE i = 0
          BY <1>1, <1>2, <3>1, <5>1, InStreams
        <5>2. CASE i # 0
          BY <1>1, <3>1, <5>2, InStreams
        <5> QED
          BY <5>1, <5>2
      <4> QED
        BY <2>0, <3>1, <4>1, InStreams
    <3> QED
      BY <1>2, <3>1, <3>2, OneMoreStream
  <2>5. CASE Receive(u) /\ server # "closed"
    <3>1. /\ UNCHANGED <<pooled, credit>> /\ pc[u] = "answered" /\ closing' = closing + 1
      BY <2>5 DEF Receive, Drop
    <3>2. PICK l \in {"idle", "borrow"} : pc' = [pc EXCEPT ![u] = l]
      BY <2>5 DEF Receive, Goto
    <3>3. <<u, 0>> \in Streams /\ Streams' = Streams \ {<<u, 0>>}
      <4>1. ASSUME NEW v \in Users, NEW i \in Nat
            PROVE  (<<v, i>> \in Streams)' <=> <<v, i>> \in Streams /\ <<v, i>> # <<u, 0>>
        <5>1. CASE i = 0
          BY <1>1, <1>2, <3>2, <5>1, InStreams
        <5>2. CASE i # 0
          BY <1>1, <3>1, <5>2, InStreams
        <5> QED
          BY <5>1, <5>2
      <4> QED
        BY <2>0, <2>5, <3>1, <4>1, InStreams
    <3>4. Cardinality({<<u, 0>>}) = 1
      BY FS_Singleton
    <3> QED
      BY <1>2, <3>1, <3>3, <3>4, DroppedStreams
  <2>6. CASE Leave(u)
    <3>1. /\ UNCHANGED credit /\ pc[u] = "idle" /\ closing' = closing + pooled[u]
          /\ pooled' = [pooled EXCEPT ![u] = 0] /\ pc' = [pc EXCEPT ![u] = "off"]
      BY <2>6 DEF Leave, Goto, Drop
    <3> DEFINE pool == {u} \X (1..pooled[u])
    <3>2. pool \subseteq Streams /\ Streams' = Streams \ pool
      <4>1. ASSUME NEW v \in Users, NEW i \in Nat
            PROVE  /\ <<v, i>> \in pool => <<v, i>> \in Streams
                   /\ (<<v, i>> \in Streams)' <=> <<v, i>> \in Streams /\ <<v, i>> \notin pool
        <5>0. <<v, i>> \in pool <=> v = u /\ i # 0 /\ i <= pooled[u]
          BY <1>1
        <5> HIDE DEF pool
        <5>1. CASE i = 0
          BY <1>1, <1>2, <3>1, <5>0, <5>1, InStreams
        <5>2. CASE i # 0 /\ v = u
          BY <1>1, <3>1, <5>0, <5>2, InStreams
        <5>3. CASE i # 0 /\ v # u
          BY <1>1, <3>1, <5>0, <5>3, InStreams
        <5> QED
          BY <5>1, <5>2, <5>3
      <4>2. pool \subseteq Users \X Nat
        BY <1>1
      <4> HIDE DEF pool
      <4> QED
        BY <2>0, <4>1, <4>2
    <3>3. Cardinality(pool) = pooled[u]
      <4>1. IsFiniteSet({u}) /\ Cardinality({u}) = 1
        BY FS_Singleton
      <4>2. IsFiniteSet(1..pooled[u]) /\ Cardinality(1..pooled[u]) = pooled[u]
        BY <1>1, FS_Interval
      <4>3. Cardinality(pool) = 1 * pooled[u]
        <5> DEFINE one == {u}
                   places == 1..pooled[u]
        <5>1. IsFiniteSet(one) /\ IsFiniteSet(places)
          BY <4>1, <4>2
        <5>2. Cardinality(one) = 1 /\ Cardinality(places) = pooled[u]
          BY <4>1, <4>2
        <5>3. pool = one \X places
          OBVIOUS
        <5> HIDE DEF one, places, pool
        <5>4. Cardinality(one \X places) = Cardinality(one) * Cardinality(places)
          BY <5>1, FS_Product
        <5> QED
          BY <5>2, <5>3, <5>4
      <4> QED
        BY <1>1, <4>3
    <3> HIDE DEF pool
    <3> QED
      BY <1>1, <1>2, <3>1, <3>2, <3>3, DroppedStreams
  <2> QED
    BY <2>1, <2>2, <2>3, <2>4, <2>5, <2>6 DEF UserStep
<1>7. call' \in [Users -> [kind : Kinds, todo : Nat]] /\ Underway'
  <2>1. CASE Ask(u)
    <3>1. PICK c \in {[kind |-> "single", todo |-> 1], [kind |-> "map", todo |-> 1],
                      [kind |-> "write", todo |-> 2], [kind |-> "write", todo |-> 3]} :
            call' = [call EXCEPT ![u] = c]
      BY <2>1 DEF Ask
    <3>2. c \in [kind : Kinds, todo : Nat] /\ c.todo > 0
      BY DEF Kinds
    <3> QED
      BY <1>1, <2>1, <3>1, <3>2 DEF Ask, Goto, StreamInv, Underway, TypeOK
  <2>2. CASE Receive(u)
    <3>1. PICK c \in After(call[u], reply[u]) :
            IF c.todo = 0
            THEN call' = [call EXCEPT ![u] = NoCall] /\ Goto(u, "idle")
            ELSE call' = [call EXCEPT ![u] = c] /\ Goto(u, "borrow")
      BY <2>2 DEF Receive
    <3>2. c \in [kind : Kinds, todo : Nat]
      BY <1>1, <2>2, AfterType DEF Receive, StreamInv, Underway
    <3>3. NoCall \in [kind : Kinds, todo : Nat]
      BY DEF NoCall, Kinds
    <3> QED
      BY <1>1, <3>1, <3>2, <3>3, SMTT(60) DEF Goto, StreamInv, Underway, TypeOK
  <2>3. CASE ~ Ask(u) /\ ~ Receive(u)
    <3>1. call' = call
      BY <2>3 DEF UserStep, Arrive, Prewarm, Prewarmed, BorrowPooled, BorrowNew, Serve, Fail,
                  Leave, users
    <3>2. \A v \in Users : pc'[v] \in {"borrow", "sent", "answered"}
                             => pc[v] \in {"borrow", "sent", "answered"}
      BY <1>1, <2>3 DEF UserStep, Arrive, Prewarm, Prewarmed, BorrowPooled, BorrowNew, Serve,
                        Fail, Leave, users, Goto
    <3> QED
      BY <1>1, <3>1, <3>2 DEF StreamInv, Underway, TypeOK
  <2> QED
    BY <2>1, <2>2, <2>3
<1>8. pooled' \in [Users -> Nat] /\ \A v \in Users : pooled'[v] <= PoolSize[v]
  <2>1. \/ pooled' = pooled
        \/ pooled[u] < PoolSize[u] /\ pooled' = [pooled EXCEPT ![u] = pooled[u] + 1]
        \/ pooled[u] > 0 /\ pooled' = [pooled EXCEPT ![u] = pooled[u] - 1]
        \/ pooled' = [pooled EXCEPT ![u] = 0]
    BY DEF UserStep, Arrive, Prewarm, Prewarmed, Ask, BorrowPooled, BorrowNew, Serve, Fail,
           Receive, Leave, streams
  <2>2. \A v \in Users : pooled[v] <= PoolSize[v]
    BY <1>1 DEF TypeOK
  <2> QED
    BY <1>1, <2>1, <2>2
<1>9. /\ pc' \in [Users -> {"off", "prewarm", "idle", "borrow", "sent", "answered"}]
      /\ reply' \in [Users -> {"ok", "error"}] /\ dispatched' \in BOOLEAN
      /\ first' \in Users \cup {"unopened", "used", "dropped"}
  <2>1. reply \in [Users -> {"ok", "error"}] /\ dispatched \in BOOLEAN
        /\ first \in Users \cup {"unopened", "used", "dropped"}
    BY <1>1 DEF TypeOK
  <2>2. \/ pc' = pc
        \/ \E l \in {"off", "prewarm", "idle", "borrow", "sent", "answered"} :
             pc' = [pc EXCEPT ![u] = l]
    BY DEF UserStep, Arrive, Prewarm, Prewarmed, Ask, BorrowPooled, BorrowNew, Serve, Fail,
           Receive, Leave, users, Goto
  <2>3. reply' = reply \/ \E r \in {"ok", "error"} : reply' = [reply EXCEPT ![u] = r]
    BY DEF UserStep, Arrive, Prewarm, Prewarmed, Ask, BorrowPooled, BorrowNew, Serve, Fail,
           Receive, Leave, users
  <2>4. dispatched' \in {dispatched, TRUE} /\ first' \in {first, u, "used", "dropped"}
    BY DEF UserStep, Arrive, Prewarm, Prewarmed, Ask, BorrowPooled, BorrowNew, Serve, Fail,
           Receive, Leave, session, streams
  <2> QED
    BY <1>1, <2>1, <2>2, <2>3, <2>4, ZenonT(60)
<1>10. TypeOK'
  BY <1>1, <1>2, <1>6, <1>7, <1>8, <1>9 DEF TypeOK
<1> QED
  BY <1>4, <1>6, <1>7, <1>10 DEF StreamInv

LEMMA NextStreams == StreamInv /\ [Next]_vars => StreamInv'
<1> SUFFICES ASSUME StreamInv, [Next]_vars PROVE StreamInv'
  OBVIOUS
<1>1. CASE UNCHANGED vars
  <2>1. Streams' = Streams
    BY <1>1 DEF vars, session, streams, users, Streams
  <2> QED
    BY <1>1, <2>1 DEF vars, session, streams, users, StreamInv, TypeOK, Counted, Waiting,
                      NobodyYet, Underway
<1> QED
  BY <1>1, HandshakeStreams, UserStreams DEF Next

\* The streams that wait in pools, are in use, are closing or may still be opened
\* never come to more than the server grants, through every order of arrivals,
\* failures and departures, and no user opens a stream for which it has no
\* credit (StreamPool, connect_to_server and quinn's limit).
THEOREM StreamsCounted == Spec => [](TypeOK /\ Counted)
<1>1. StreamInv => TypeOK /\ Counted
  BY DEF StreamInv
<1> QED
  BY InitStreams, NextStreams, <1>1, PTL DEF Spec

\* Type correctness, with the bounds on pools and on credit (StreamPool).
THEOREM TypeCorrect == Spec => []TypeOK
  BY StreamsCounted, PTL
===============================================================================
