-------------------------- MODULE FileServer_proofs --------------------------
(***************************************************************************)
(* Proofs about FileServer for any sessions, paths, contents, chunkings,   *)
(* policy and number of requests.                                          *)
(***************************************************************************)
EXTENDS FileServer, TLAPS

\* Chunk lists are made of blocks.
LEMMA BlocksOfType ==
  ASSUME NEW v \in Version
  PROVE  BlocksOf(v) \subseteq Blocks
<1>1. Fixed[v.of] \in Seq(Blocks) /\ Cdc[v.of] \in Seq(Blocks)
  BY ChunkingAssumption DEF Version
<1> QED
  BY <1>1 DEF BlocksOf, Range_

\* The elements of a sequence of blocks are blocks.
LEMMA RangeType ==
  ASSUME NEW c \in Contents
  PROVE  Range_(Fixed[c]) \subseteq Blocks /\ Range_(Cdc[c]) \subseteq Blocks
<1>1. Fixed[c] \in Seq(Blocks) /\ Cdc[c] \in Seq(Blocks)
  BY ChunkingAssumption
<1> QED
  BY <1>1 DEF Range_

\* The step a client's request starts with is one of the steps.
LEMMA FirstStepType ==
  ASSUME NEW op \in Ops
  PROVE  /\ FirstStep(op) \in {"base", "pick", "delete", "stat"}
         /\ FirstStep(op) = "base" <=> op = "write"
         /\ FirstStep(op) = "pick" <=> op = "put"
         /\ FirstStep(op) = "delete" <=> op = "delete"
  BY DEF FirstStep, Ops, Sparse

\* Every step a request can be at.
LEMMA PcsType ==
  /\ "idle" \in Pcs /\ "stat" \in Pcs /\ "list" \in Pcs /\ "fetch" \in Pcs
  /\ "base" \in Pcs /\ "handshake" \in Pcs /\ "check" \in Pcs /\ "pick" \in Pcs
  /\ "rename" \in Pcs /\ "sync" \in Pcs /\ "resolve" \in Pcs /\ "ingest" \in Pcs
  /\ "embed" \in Pcs /\ "delete" \in Pcs /\ "reply" \in Pcs /\ "ok" \in Pcs
  /\ "conflict" \in Pcs /\ "missing" \in Pcs /\ "corrupt" \in Pcs /\ "lost" \in Pcs
  BY DEF Pcs, Active, ReadSteps, WriteSteps, Outcomes

\* A request before its first step is well typed.
LEMMA BlankType ==
  ASSUME NEW p \in Paths
  PROVE  Blank(p) \in Request
  BY ChunkingAssumption, PcsType DEF Blank, Request, Ops, Sparse

\* The initial state is well typed.
LEMMA TypeInit == Init => TypeOK
<1> SUFFICES ASSUME Init PROVE TypeOK
  OBVIOUS
<1>1. (CHOOSE p \in Paths : TRUE) \in Paths
  BY ChunkingAssumption
<1>2. req \in [Sessions -> Request]
  BY <1>1, BlankType DEF Init
<1>3. present \subseteq Blocks
  BY BlocksOfType DEF Init
<1>4. embedding \in [Paths -> Contents \cup {NoFile}]
  BY DEF Init, Version
<1>5. sent \in 0..MaxRequests
  BY BoundAssumption DEF Init
<1> QED
  BY <1>2, <1>3, <1>4, <1>5 DEF TypeOK, Init

\* A sparse payload built from a base is well typed.
LEMMA SendDiffType ==
  ASSUME TypeOK, NEW s \in Sessions, NEW old \in Contents, SendDiff(s, old)
  PROVE  req' \in [Sessions -> Request]
<1> DEFINE new == req[s].new
           same == Unchanged(old, new)
           refs == {Fixed[new][i] : i \in same}
           todo == {Fixed[new][i] : i \in DOMAIN Fixed[new] \ same}
<1>1. new \in Contents /\ Fixed[new] \in Seq(Blocks)
  BY ChunkingAssumption DEF Request, TypeOK
<1>2. refs \subseteq Blocks /\ todo \subseteq Blocks
  BY <1>1 DEF Unchanged
<1>3. [req[s] EXCEPT !.refs = refs, !.todo = todo, !.pc = "check"] \in Request
  <2> HIDE DEF refs, todo
  <2> QED
    BY <1>2, PcsType, ZenonT(60) DEF Request, TypeOK
<1> QED
  BY <1>3 DEF SendDiff, Become, TypeOK

\* A request that an action updates stays well typed.
LEMMA UpdateType ==
  ASSUME NEW r \in Request, NEW pc \in Pcs, NEW h \in Contents \cup {NoHash, ZeroHash},
         NEW c \in Contents, NEW v \in Version \cup {NoFile},
         NEW refs \in SUBSET Blocks, NEW todo \in SUBSET Blocks, NEW made \in SUBSET Blocks
  PROVE  /\ [r EXCEPT !.base = h, !.pc = pc] \in Request
         /\ [r EXCEPT !.seen = c, !.pc = pc] \in Request
         /\ [r EXCEPT !.rows = v, !.pc = pc] \in Request
         /\ [r EXCEPT !.todo = todo, !.pc = pc] \in Request
         /\ [r EXCEPT !.refs = refs, !.todo = todo, !.pc = pc] \in Request
         /\ [r EXCEPT !.todo = todo, !.made = made, !.pc = pc] \in Request
         /\ [r EXCEPT !.pc = pc, !.refs = {}, !.todo = {}, !.made = {}] \in Request
  BY ZenonT(60) DEF Request

\* Every step of a session keeps every variable in its type.
LEMMA TypeStep == TypeOK /\ (\A s \in Sessions : ReadsCurrent(s)) /\ [Next]_vars => TypeOK'
<1> SUFFICES ASSUME TypeOK, \A s \in Sessions : ReadsCurrent(s), [Next]_vars
             PROVE  TypeOK'
  OBVIOUS
<1> USE PcsType DEF TypeOK, At, Goto, Become, Finish
<1>0. ASSUME NEW s \in Sessions
      PROVE  /\ req[s] \in Request /\ Row(s) \in Version \cup {NoFile}
             /\ req[s].path \in Paths /\ req[s].new \in Contents
             /\ req[s].todo \in SUBSET Blocks /\ req[s].made \in SUBSET Blocks
             /\ req[s].refs \in SUBSET Blocks
  BY DEF Request, Row
<1>1. ASSUME NEW s \in Sessions, Invoke(s) PROVE TypeOK'
  <2>1. PICK op \in Ops, p \in Paths, c \in Contents :
          Become(s, [Blank(p) EXCEPT
            !.pc = FirstStep(op), !.op = op, !.new = c,
            !.todo = IF op = "put" THEN Range_(Cdc[c]) ELSE {}])
    BY <1>1 DEF Invoke
  <2>2. ASSUME NEW pc \in Pcs, NEW todo \in SUBSET Blocks
        PROVE  [Blank(p) EXCEPT !.pc = pc, !.op = op, !.new = c, !.todo = todo] \in Request
    <3> DEFINE r == Blank(p)
    <3>1. r \in Request
      BY BlankType
    <3> HIDE DEF r
    <3>2. [r EXCEPT !.pc = pc, !.op = op, !.new = c, !.todo = todo] \in Request
      BY <3>1 DEF Request
    <3> QED
      BY <3>2 DEF r
  <2>3. /\ FirstStep(op) \in Pcs
        /\ (IF op = "put" THEN Range_(Cdc[c]) ELSE {}) \in SUBSET Blocks
    BY FirstStepType, RangeType
  <2>4. sent' \in 0..MaxRequests
    BY <1>1, BoundAssumption DEF Invoke
  <2> QED
    BY <1>1, <2>1, <2>2, <2>3, <2>4 DEF Invoke
<1>2. ASSUME NEW s \in Sessions, StatBase(s) PROVE TypeOK'
  <2>1. PICK h \in Contents \cup {NoHash, ZeroHash} :
          Become(s, [req[s] EXCEPT !.base = h, !.pc = "handshake"])
    BY <1>2 DEF StatBase
  <2>2. [req[s] EXCEPT !.base = h, !.pc = "handshake"] \in Request
    BY <1>0, UpdateType, ZenonT(60)
  <2> QED
    BY <1>2, <2>1, <2>2 DEF StatBase
<1>3. ASSUME NEW s \in Sessions, Handshake(s) PROVE TypeOK'
  <2>1. PICK known \in SUBSET Range_(Fixed[req[s].new]) :
          Become(s, [req[s] EXCEPT !.refs = known,
                                   !.todo = Range_(Fixed[req[s].new]) \ known,
                                   !.pc = "check"])
    BY <1>3 DEF Handshake
  <2>2. Range_(Fixed[req[s].new]) \subseteq Blocks
    BY <1>0, RangeType
  <2>3. ASSUME NEW refs \in SUBSET Blocks, NEW todo \in SUBSET Blocks
        PROVE  [req[s] EXCEPT !.refs = refs, !.todo = todo, !.pc = "check"] \in Request
    BY <1>0, UpdateType
  <2> QED
    BY <1>3, <2>1, <2>2, <2>3 DEF Handshake
<1>4. ASSUME NEW s \in Sessions, StatFile(s) PROVE TypeOK'
  <2> DEFINE c == Content(Row(s))
  <2>1. c \in Contents \cup {NoFile} /\ Empty \in Contents
    BY <1>0, ChunkingAssumption DEF Content, Version
  <2>2. CASE SendDiff(s, Empty)
    BY <1>4, <2>1, <2>2, SendDiffType DEF StatFile
  <2>3. CASE Goto(s, "reply")
    <3>1. [req[s] EXCEPT !.pc = "reply"] \in Request
      BY <1>0 DEF Request
    <3> QED
      BY <1>4, <2>3, <3>1 DEF StatFile
  <2>4. CASE Become(s, [req[s] EXCEPT !.seen = Empty, !.pc = "reply"])
    <3>1. [req[s] EXCEPT !.seen = Empty, !.pc = "reply"] \in Request
      BY <1>0, <2>1, UpdateType, ZenonT(60)
    <3> QED
      BY <1>4, <2>4, <3>1, SMTT(60) DEF StatFile
  <2>5. CASE c # NoFile /\ Become(s, [req[s] EXCEPT !.seen = c, !.pc = "list"])
    <3>1. [req[s] EXCEPT !.seen = c, !.pc = "list"] \in Request
      BY <1>0, <2>1, <2>5, UpdateType, ZenonT(60)
    <3> QED
      BY <1>4, <2>5, <3>1 DEF StatFile
  <2> QED
    BY <1>4, <2>2, <2>3, <2>4, <2>5 DEF StatFile
<1>5. ASSUME NEW s \in Sessions, ListBlocks(s) PROVE TypeOK'
  <2>1. /\ [req[s] EXCEPT !.seen = Empty, !.pc = "reply"] \in Request
        /\ [req[s] EXCEPT !.rows = Row(s), !.pc = "fetch"] \in Request
        /\ [req[s] EXCEPT !.pc = "corrupt"] \in Request
    <3>1. [req[s] EXCEPT !.pc = "corrupt"] \in Request
      BY <1>0 DEF Request
    <3> QED
      BY <1>0, <3>1, UpdateType, ChunkingAssumption, ZenonT(60)
  <2> QED
    BY <1>5, <2>1 DEF ListBlocks
<1>6. ASSUME NEW s \in Sessions, FetchBlocks(s) PROVE TypeOK'
  <2>1. req[s].rows \in Version /\ req[s].rows.of \in Contents
    BY <1>6 DEF FetchBlocks, ReadsCurrent, Request, Version
  <2>2. /\ [req[s] EXCEPT !.seen = req[s].rows.of, !.pc = "reply"] \in Request
        /\ [req[s] EXCEPT !.pc = "corrupt"] \in Request
    <3>1. [req[s] EXCEPT !.pc = "corrupt"] \in Request
      BY <1>0 DEF Request
    <3> QED
      BY <1>0, <2>1, <3>1, UpdateType, ZenonT(60)
  <2>3. CASE SendDiff(s, req[s].rows.of)
    BY <1>6, <2>1, <2>3, SendDiffType DEF FetchBlocks
  <2>4. CASE ~SendDiff(s, req[s].rows.of)
    BY <1>6, <2>2, <2>4 DEF FetchBlocks
  <2> QED
    BY <2>3, <2>4
<1>7. ASSUME NEW s \in Sessions, CheckBase(s) PROVE TypeOK'
  BY <1>7, SMTT(60) DEF CheckBase, Request
<1>8. ASSUME NEW s \in Sessions, PickMissing(s) PROVE TypeOK'
  <2>1. PICK pc \in Pcs : Become(s, [req[s] EXCEPT !.todo = req[s].todo \ present, !.pc = pc])
    BY <1>8 DEF PickMissing
  <2>2. [req[s] EXCEPT !.todo = req[s].todo \ present, !.pc = pc] \in Request
    <3>1. req[s].todo \ present \in SUBSET Blocks
      BY <1>0, SMTT(60)
    <3>2. ASSUME NEW todo \in SUBSET Blocks
          PROVE  [req[s] EXCEPT !.todo = todo, !.pc = pc] \in Request
      BY <1>0, UpdateType, ZenonT(60)
    <3> QED
      BY <3>1, <3>2
  <2> QED
    BY <1>8, <2>1, <2>2 DEF PickMissing
<1>9. ASSUME NEW s \in Sessions, RenameBlock(s) PROVE TypeOK'
  <2>1. PICK b \in req[s].todo, pc \in Pcs :
          /\ present' = present \cup {b}
          /\ Become(s, [req[s] EXCEPT !.todo = req[s].todo \ {b},
                                      !.made = req[s].made \cup {b}, !.pc = pc])
    BY <1>9 DEF RenameBlock
  <2>2. [req[s] EXCEPT !.todo = req[s].todo \ {b},
                       !.made = req[s].made \cup {b}, !.pc = pc] \in Request
    <3>1. /\ req[s].todo \ {b} \in SUBSET Blocks
          /\ req[s].made \cup {b} \in SUBSET Blocks
      BY <1>0, SMTT(60)
    <3>2. ASSUME NEW todo \in SUBSET Blocks, NEW made \in SUBSET Blocks
          PROVE  [req[s] EXCEPT !.todo = todo, !.made = made, !.pc = pc] \in Request
      BY <1>0, UpdateType, ZenonT(60)
    <3> QED
      BY <3>1, <3>2
  <2> QED
    BY <1>0, <1>9, <2>1, <2>2 DEF RenameBlock
<1>10. ASSUME NEW s \in Sessions, SyncDirs(s) PROVE TypeOK'
  BY <1>10 DEF SyncDirs, Request
<1>11. ASSUME NEW s \in Sessions, ResolveRefs(s) PROVE TypeOK'
  BY <1>11 DEF ResolveRefs, Request
<1>12. ASSUME NEW s \in Sessions, Ingest(s) PROVE TypeOK'
  BY <1>12, SMTT(60) DEF Ingest, Others, Request, Version
<1>13. ASSUME NEW s \in Sessions, SetEmbedding(s) PROVE TypeOK'
  BY <1>13, SMTT(60) DEF SetEmbedding, Request
<1>14. ASSUME NEW s \in Sessions, DeleteFile(s) PROVE TypeOK'
  BY <1>14, SMTT(60) DEF DeleteFile, Others, Request
<1>15. ASSUME NEW s \in Sessions, Reply(s) PROVE TypeOK'
  <2>1. [req[s] EXCEPT !.pc = "ok", !.refs = {}, !.todo = {}, !.made = {}] \in Request
    BY <1>0, UpdateType, ZenonT(60)
  <2> QED
    BY <1>15, <2>1 DEF Reply
<1>16. ASSUME NEW s \in Sessions, Abort(s) PROVE TypeOK'
  <2>1. [req[s] EXCEPT !.pc = "lost", !.refs = {}, !.todo = {}, !.made = {}] \in Request
    BY <1>0, UpdateType, ZenonT(60)
  <2> QED
    BY <1>16, <2>1 DEF Abort
<1>17. CASE UNCHANGED vars
  BY <1>17 DEF vars
<1> QED
  BY <1>1, <1>2, <1>3, <1>4, <1>5, <1>6, <1>7, <1>8, <1>9, <1>10, <1>11, <1>12,
     <1>13, <1>14, <1>15, <1>16, <1>17 DEF Next, SessionStep

-----------------------------------------------------------------------------
(* The inductive invariant.                                                 *)

\* The session's share of the four invariants about outcomes.
Justified(s) ==
  /\ At(s, "conflict") /\ req[s].base # ZeroHash => s \in disturbed
  /\ At(s, "corrupt") => s \in disturbed
  /\ At(s, "missing") => /\ req[s].op = "flush"
                         /\ req[s].rows # NoFile
                         /\ req[s].rows.by = "cdc"
  /\ req[s].pc \in {"pick", "rename", "sync", "resolve", "ingest"} /\ Stale(s)
       => s \in disturbed

\* IInv, session by session.
LEMMA IInvBySession ==
  IInv <=> /\ TypeOK
           /\ IndexedBlocksPresent
           /\ \A s \in Sessions : SessionInv(s) /\ Justified(s)
  BY DEF IInv, Justified, ConflictMeansChanged, CorruptMeansOvertaken,
         MissingMeansRechunked, StaleMeansOvertaken

\* The initial state satisfies the invariant: every session is idle.
LEMMA InitIInv == Init => IInv
<1> SUFFICES ASSUME Init PROVE IInv
  OBVIOUS
<1>1. TypeOK
  BY TypeInit
<1>2. IndexedBlocksPresent
  BY DEF IndexedBlocksPresent, Init
<1>3. ASSUME NEW s \in Sessions PROVE SessionInv(s) /\ Justified(s)
  <2>1. req[s].pc = "idle" /\ req[s].refs = {} /\ req[s].base = NoHash
    BY DEF Init, Blank
  <2> QED
    BY <2>1 DEF SessionInv, StepsOfOp, TargetCovered, RefsResolvable, ReadsCurrent,
                Justified, At, ReadSteps, WriteSteps
<1> QED
  BY <1>1, <1>2, <1>3, IInvBySession

\* A session that does not move keeps its share of the invariant when no block
\* leaves the store and a change of its row marks it disturbed.
LEMMA OthersKeep ==
  ASSUME NEW t \in Sessions, SessionInv(t), Justified(t),
         req'[t] = req[t], present \subseteq present',
         t \in disturbed => t \in disturbed',
         t \in disturbed' \/ index'[req[t].path] = index[req[t].path]
  PROVE  SessionInv(t)' /\ Justified(t)'
<1>1. StepsOfOp(t)'
  BY DEF SessionInv, StepsOfOp
<1>2. TargetCovered(t)'
  BY DEF SessionInv, TargetCovered, Target
<1>3. RefsResolvable(t)'
  BY DEF SessionInv, RefsResolvable
<1>4. ReadsCurrent(t)'
  BY DEF SessionInv, ReadsCurrent, Row
<1>5. Justified(t)'
  BY DEF Justified, At, Stale, Row
<1> QED
  BY <1>1, <1>2, <1>3, <1>4, <1>5 DEF SessionInv

\* Only the request of s changes.
Moves(s) == \A t \in Sessions \ {s} : req'[t] = req[t]

\* What remains to be shown of a step of session s.
LEMMA StepOf ==
  ASSUME IInv, NEW s \in Sessions, Moves(s), TypeOK',
         present \subseteq present', IndexedBlocksPresent',
         disturbed \ {s} \subseteq disturbed',
         index' = index \/ (Others(s) \subseteq disturbed'
                            /\ \A p \in Paths \ {req[s].path} : index'[p] = index[p]),
         SessionInv(s)', Justified(s)'
  PROVE  IInv'
<1>1. ASSUME NEW t \in Sessions, t # s PROVE SessionInv(t)' /\ Justified(t)'
  <2>1. SessionInv(t) /\ Justified(t)
    BY IInvBySession
  <2>2. req'[t] = req[t]
    BY <1>1 DEF Moves
  <2>3. req[t].path \in Paths
    BY DEF IInv, TypeOK, Request
  <2>4. t \in disturbed' \/ index'[req[t].path] = index[req[t].path]
    BY <1>1, <2>3 DEF Others
  <2> QED
    BY <1>1, <2>1, <2>2, <2>4, OthersKeep
<1>2. ASSUME NEW t \in Sessions PROVE SessionInv(t)' /\ Justified(t)'
  BY <1>1
<1> QED
  BY <1>2 DEF IInv, Justified, ConflictMeansChanged, CorruptMeansOvertaken,
              MissingMeansRechunked, StaleMeansOvertaken

\* The blocks of a flush's sparse write are data, or references to blocks of
\* the base, which are in the store unless the base was stored in cdc chunks.
LEMMA SendDiffInv ==
  ASSUME TypeOK, NEW s \in Sessions, NEW old \in Contents, SendDiff(s, old),
         SessionInv(s), req[s].op = "flush", present' = present,
         \/ old = Empty
         \/ /\ req[s].rows # NoFile
            /\ req[s].rows.by = "cdc" \/ Range_(Fixed[old]) \subseteq present
  PROVE  SessionInv(s)' /\ Justified(s)' /\ Moves(s)
<1> DEFINE new == req[s].new
           same == Unchanged(old, new)
           refs == {Fixed[new][i] : i \in same}
           todo == {Fixed[new][i] : i \in DOMAIN Fixed[new] \ same}
<1>1. req[s] \in Request /\ new \in Contents
  BY DEF TypeOK, Request
<1>2. req' = [req EXCEPT ![s] = [req[s] EXCEPT !.refs = refs, !.todo = todo, !.pc = "check"]]
  BY DEF SendDiff, Become
<1>3. Range_(Fixed[new]) \subseteq refs \cup todo
  BY DEF Range_
<1>4. refs \subseteq Range_(Fixed[old])
  BY DEF Range_, Unchanged
<1>5. old = Empty => Range_(Fixed[old]) = {}
  BY ChunkingAssumption DEF Range_
<1> HIDE DEF refs, todo
<1>6. /\ req'[s].pc = "check" /\ req'[s].refs = refs /\ req'[s].todo = todo
      /\ req'[s].op = "flush" /\ req'[s].new = new /\ req'[s].rows = req[s].rows
      /\ req'[s].base = req[s].base /\ req'[s].path = req[s].path
  BY <1>1, <1>2 DEF TypeOK, Request
<1>7. StepsOfOp(s)' /\ ReadsCurrent(s)'
  BY <1>6 DEF SessionInv, StepsOfOp, ReadsCurrent, ReadSteps, WriteSteps, Sparse
<1>8. TargetCovered(s)'
  BY <1>3, <1>6 DEF TargetCovered, Target, BlocksOf
<1>9. RefsResolvable(s)'
  BY <1>4, <1>5, <1>6 DEF RefsResolvable
<1>10. Justified(s)'
  BY <1>6 DEF Justified, At
<1>11. Moves(s)
  BY <1>2 DEF Moves, TypeOK
<1> QED
  BY <1>7, <1>8, <1>9, <1>10, <1>11 DEF SessionInv

\* The request of s is at pc, its other fields as they were.
Fields(s, pc) ==
  /\ req'[s].pc = pc /\ req'[s].op = req[s].op /\ req'[s].path = req[s].path
  /\ req'[s].new = req[s].new /\ req'[s].base = req[s].base
  /\ req'[s].seen = req[s].seen /\ req'[s].rows = req[s].rows
  /\ req'[s].refs = req[s].refs /\ req'[s].todo = req[s].todo
  /\ Moves(s)

\* A session that only changes its step keeps the fields of its request.
LEMMA GotoFields ==
  ASSUME TypeOK, NEW s \in Sessions, NEW pc, Goto(s, pc)
  PROVE  Fields(s, pc)
  BY DEF Fields, Goto, Become, Moves, TypeOK, Request

\* A session may report corruption when it has been disturbed.
LEMMA GotoCorrupt ==
  ASSUME TypeOK, NEW s \in Sessions, SessionInv(s), Goto(s, "corrupt"),
         present' = present, s \in disturbed'
  PROVE  SessionInv(s)' /\ Justified(s)' /\ Moves(s)
<1>1. Fields(s, "corrupt")
  BY GotoFields
<1>2. SessionInv(s)'
  BY <1>1 DEF Fields, SessionInv, StepsOfOp, TargetCovered, RefsResolvable,
              ReadsCurrent, ReadSteps, WriteSteps
<1> QED
  BY <1>1, <1>2 DEF Fields, Justified, At

\* A session that goes on to reply has nothing left to justify.
LEMMA GotoReply ==
  ASSUME TypeOK, NEW s \in Sessions, SessionInv(s), Goto(s, "reply"),
         present \subseteq present'
  PROVE  SessionInv(s)' /\ Justified(s)' /\ Moves(s)
<1>1. /\ req'[s].pc = "reply" /\ req'[s].op = req[s].op
      /\ req'[s].refs = req[s].refs /\ req'[s].rows = req[s].rows
      /\ req'[s].base = req[s].base
  BY DEF Goto, Become, TypeOK, Request
<1>2. SessionInv(s)'
  BY <1>1 DEF SessionInv, StepsOfOp, TargetCovered, RefsResolvable, ReadsCurrent,
              ReadSteps, WriteSteps
<1> QED
  BY <1>1, <1>2 DEF Justified, At, Moves, Goto, Become, TypeOK

\* A read that has its data answers with it: nothing is left to justify.
LEMMA SeenReply ==
  ASSUME TypeOK, NEW s \in Sessions, SessionInv(s), NEW c,
         Become(s, [req[s] EXCEPT !.seen = c, !.pc = "reply"]),
         present \subseteq present'
  PROVE  SessionInv(s)' /\ Justified(s)' /\ Moves(s)
<1>1. /\ req'[s].pc = "reply" /\ req'[s].op = req[s].op
      /\ req'[s].refs = req[s].refs /\ req'[s].rows = req[s].rows
      /\ req'[s].base = req[s].base
  BY DEF Become, TypeOK, Request
<1>2. SessionInv(s)'
  BY <1>1 DEF SessionInv, StepsOfOp, TargetCovered, RefsResolvable, ReadsCurrent,
              ReadSteps, WriteSteps
<1> QED
  BY <1>1, <1>2 DEF Justified, At, Moves, Become, TypeOK

\* Every step of every session preserves the inductive invariant.
LEMMA NextIInv == IInv /\ [Next]_vars => IInv'
<1> SUFFICES ASSUME IInv, [Next]_vars PROVE IInv'
  OBVIOUS
<1>a. TypeOK /\ TypeOK' /\ IndexedBlocksPresent
  BY TypeStep DEF IInv, SessionInv
<1>b. ASSUME NEW s \in Sessions
      PROVE  /\ req[s] \in Request /\ req[s].path \in Paths /\ req[s].new \in Contents
             /\ SessionInv(s) /\ Justified(s)
  BY <1>a, IInvBySession DEF TypeOK, Request
<1>c. index' = index /\ present \subseteq present' => IndexedBlocksPresent'
  BY <1>a DEF IndexedBlocksPresent
<1>1. ASSUME NEW s \in Sessions, Invoke(s) PROVE IInv'
  <2>1. PICK op \in Ops, p \in Paths, c \in Contents :
          Become(s, [Blank(p) EXCEPT
            !.pc = FirstStep(op), !.op = op, !.new = c,
            !.todo = IF op = "put" THEN Range_(Cdc[c]) ELSE {}])
    BY <1>1 DEF Invoke
  <2>2. /\ req'[s].pc = FirstStep(op) /\ req'[s].op = op /\ req'[s].new = c
        /\ req'[s].todo = (IF op = "put" THEN Range_(Cdc[c]) ELSE {})
        /\ req'[s].refs = {} /\ req'[s].base = NoHash /\ req'[s].seen = NoFile
    BY <2>1, <1>a DEF Become, TypeOK, Blank
  <2>3. SessionInv(s)'
    <3>1. /\ req'[s].pc \in {"base", "pick", "delete", "stat"}
          /\ req'[s].pc = "base" => op = "write"
          /\ req'[s].pc = "pick" => op = "put"
          /\ req'[s].pc = "stat" => op \in {"read", "get", "flush"}
          /\ req'[s].pc = "delete" => op = "delete"
      BY <2>2, FirstStepType DEF Ops, Sparse
    <3>2. StepsOfOp(s)'
      BY <2>2, <3>1 DEF StepsOfOp, ReadSteps, WriteSteps, Sparse
    <3>3. TargetCovered(s)'
      BY <2>2, <3>1 DEF TargetCovered, Target, BlocksOf
    <3>4. RefsResolvable(s)' /\ ReadsCurrent(s)'
      BY <2>2, <3>1 DEF RefsResolvable, ReadsCurrent
    <3> QED
      BY <3>2, <3>3, <3>4 DEF SessionInv
  <2>4. Justified(s)'
    BY <2>2, FirstStepType DEF Justified, At, Stale
  <2>5. Moves(s)
    BY <2>1, <1>a DEF Become, Moves, TypeOK
  <2> QED
    BY <1>1, <1>a, <1>c, <2>3, <2>4, <2>5, StepOf DEF Invoke
<1>2. ASSUME NEW s \in Sessions, StatBase(s) PROVE IInv'
  <2>1. PICK h \in {NoHash, ZeroHash} \cup (Contents \cap {Content(Row(s))}) :
          Become(s, [req[s] EXCEPT !.base = h, !.pc = "handshake"])
    BY <1>2 DEF StatBase
  <2>2. /\ req'[s].pc = "handshake" /\ req'[s].base = h
        /\ req'[s].op = req[s].op /\ req'[s].path = req[s].path
        /\ req'[s].refs = req[s].refs /\ req'[s].rows = req[s].rows
    BY <2>1, <1>a, <1>b DEF Become, TypeOK, Request
  <2>3. SessionInv(s)'
    BY <1>2, <1>b, <2>2 DEF StatBase, At, SessionInv, StepsOfOp, TargetCovered,
       RefsResolvable, ReadsCurrent, Row, ReadSteps, WriteSteps
  <2>4. Justified(s)'
    BY <2>2 DEF Justified, At
  <2>5. Moves(s)
    BY <2>1, <1>a DEF Become, Moves, TypeOK
  <2> QED
    BY <1>2, <1>a, <1>c, <2>3, <2>4, <2>5, StepOf DEF StatBase
<1>3. ASSUME NEW s \in Sessions, Handshake(s) PROVE IInv'
  <2> DEFINE all == Range_(Fixed[req[s].new])
  <2>1. PICK known \in SUBSET (all \cap present) :
          Become(s, [req[s] EXCEPT !.refs = known, !.todo = all \ known, !.pc = "check"])
    BY <1>3 DEF Handshake
  <2>2. /\ req'[s].pc = "check" /\ req'[s].refs = known /\ req'[s].todo = all \ known
        /\ req'[s].op = req[s].op /\ req'[s].path = req[s].path
        /\ req'[s].new = req[s].new /\ req'[s].base = req[s].base
    <3> HIDE DEF all
    <3> QED
      BY <2>1, <1>a, <1>b DEF Become, TypeOK, Request
  <2>3. req[s].op = "write" /\ req[s].pc = "handshake"
    BY <1>3, <1>b DEF Handshake, At, SessionInv, StepsOfOp
  <2>4. TargetCovered(s)'
    BY <2>1, <2>2, <2>3 DEF TargetCovered, Target, BlocksOf
  <2>5. StepsOfOp(s)' /\ RefsResolvable(s)' /\ ReadsCurrent(s)'
    BY <1>3, <1>b, <2>1, <2>2, <2>3 DEF Handshake, SessionInv, StepsOfOp, RefsResolvable,
       ReadsCurrent, Row, ReadSteps, WriteSteps, Sparse
  <2>6. SessionInv(s)' /\ Justified(s)'
    BY <2>2, <2>4, <2>5 DEF SessionInv, Justified, At
  <2>7. Moves(s)
    BY <2>1, <1>a DEF Become, Moves, TypeOK
  <2> QED
    BY <1>3, <1>a, <1>c, <2>6, <2>7, StepOf DEF Handshake
<1>4. ASSUME NEW s \in Sessions, StatFile(s) PROVE IInv'
  <2> DEFINE c == Content(Row(s))
  <2>1. /\ present' = present /\ index' = index /\ disturbed' = disturbed \ {s}
        /\ req[s].pc = "stat" /\ Empty \in Contents
    BY <1>4, ChunkingAssumption DEF StatFile, At
  <2>2. SessionInv(s)' /\ Justified(s)' /\ Moves(s)
    <3>1. CASE req[s].op = "flush" /\ SendDiff(s, Empty)
      BY <1>a, <1>b, <2>1, <3>1, SendDiffInv
    <3>2. CASE Goto(s, "reply")
      BY <1>a, <1>b, <2>1, <3>2, GotoReply
    <3>3. CASE Become(s, [req[s] EXCEPT !.seen = Empty, !.pc = "reply"])
      BY <1>a, <1>b, <2>1, <3>3, SeenReply
    <3>4. CASE /\ c # NoFile /\ (c # Empty \/ req[s].op = "get")
               /\ Become(s, [req[s] EXCEPT !.seen = c, !.pc = "list"])
      <4>1. /\ req'[s].pc = "list" /\ req'[s].seen = c
            /\ req'[s].op = req[s].op /\ req'[s].path = req[s].path
            /\ req'[s].refs = req[s].refs /\ req'[s].rows = req[s].rows
            /\ req'[s].base = req[s].base
        BY <3>4, <1>a, <1>b DEF Become, TypeOK, Request
      <4>2. SessionInv(s)'
        BY <1>b, <2>1, <3>4, <4>1 DEF SessionInv, StepsOfOp, TargetCovered,
           RefsResolvable, ReadsCurrent, Row, ReadSteps, WriteSteps
      <4>3. Justified(s)' /\ Moves(s)
        BY <1>a, <3>4, <4>1 DEF Justified, At, Become, Moves, TypeOK
      <4> QED
        BY <4>2, <4>3
    <3> QED
      BY <1>4, <3>1, <3>2, <3>3, <3>4 DEF StatFile
  <2> QED
    BY <1>a, <1>c, <2>1, <2>2, StepOf
<1>5. ASSUME NEW s \in Sessions, ListBlocks(s) PROVE IInv'
  <2> DEFINE c == Content(Row(s))
  <2>1. /\ present' = present /\ index' = index /\ disturbed' = disturbed
        /\ req[s].pc = "list"
    BY <1>5 DEF ListBlocks, At
  <2>2. SessionInv(s)' /\ Justified(s)' /\ Moves(s)
    <3>1. CASE Become(s, [req[s] EXCEPT !.seen = Empty, !.pc = "reply"])
      BY <1>a, <1>b, <2>1, <3>1, SeenReply
    <3>2. CASE c \in {NoFile, Empty} /\ req[s].op # "get" /\ Goto(s, "corrupt")
      <4>1. req[s].op \in {"read", "flush"} /\ s \in disturbed
        BY <1>b, <2>1, <3>2 DEF SessionInv, StepsOfOp, ReadsCurrent, ReadSteps
      <4> QED
        BY <1>a, <1>b, <2>1, <3>2, <4>1, GotoCorrupt
    <3>3. CASE c # NoFile /\ Become(s, [req[s] EXCEPT !.rows = Row(s), !.pc = "fetch"])
      <4>1. /\ req'[s].pc = "fetch" /\ req'[s].rows = Row(s)
            /\ req'[s].op = req[s].op /\ req'[s].path = req[s].path
            /\ req'[s].refs = req[s].refs /\ req'[s].seen = req[s].seen
            /\ req'[s].base = req[s].base
        BY <3>3, <1>a, <1>b DEF Become, TypeOK, Request
      <4>2. Row(s) # NoFile
        BY <3>3 DEF Content
      <4>3. BlocksOf(Row(s)) \subseteq present
        BY <1>a, <1>b, <4>2 DEF IndexedBlocksPresent, Row
      <4>4. req[s].refs \subseteq present
        BY <1>b, <2>1 DEF SessionInv, StepsOfOp, ReadSteps
      <4>5. SessionInv(s)'
        BY <1>b, <2>1, <4>1, <4>2, <4>3, <4>4 DEF SessionInv, StepsOfOp, TargetCovered,
           RefsResolvable, ReadsCurrent, Row, ReadSteps, WriteSteps
      <4>6. Justified(s)' /\ Moves(s)
        BY <1>a, <3>3, <4>1 DEF Justified, At, Become, Moves, TypeOK
      <4> QED
        BY <4>5, <4>6
    <3> QED
      BY <1>5, <3>1, <3>2, <3>3 DEF ListBlocks
  <2> QED
    BY <1>a, <1>c, <2>1, <2>2, StepOf
<1>6. ASSUME NEW s \in Sessions, FetchBlocks(s) PROVE IInv'
  <2> DEFINE rows == req[s].rows
  <2>1. /\ present' = present /\ index' = index /\ disturbed' = disturbed
        /\ req[s].pc = "fetch"
    BY <1>6 DEF FetchBlocks, At
  <2>2. /\ rows \in Version /\ rows # NoFile /\ rows.of \in Contents
        /\ rows.by = "fixed" => Range_(Fixed[rows.of]) \subseteq present
    BY <1>b, <2>1 DEF SessionInv, ReadsCurrent, BlocksOf, Request, Version
  <2>3. SessionInv(s)' /\ Justified(s)' /\ Moves(s)
    <3>1. CASE ~Readable(s) /\ Goto(s, "corrupt")
      <4>1. BlocksOf(rows) \subseteq present /\ rows.of # req[s].seen
        BY <1>b, <2>1, <3>1 DEF Readable, SessionInv, ReadsCurrent
      <4>2. s \in disturbed
        BY <1>b, <2>1, <2>2, <4>1 DEF SessionInv, ReadsCurrent, Content
      <4> QED
        BY <1>a, <1>b, <2>1, <3>1, <4>2, GotoCorrupt
    <3>2. CASE req[s].op = "flush" /\ SendDiff(s, rows.of)
      BY <1>a, <1>b, <2>1, <2>2, <3>2, SendDiffInv DEF Version
    <3>3. CASE Become(s, [req[s] EXCEPT !.seen = rows.of, !.pc = "reply"])
      BY <1>a, <1>b, <2>1, <3>3, SeenReply
    <3> QED
      BY <1>6, <3>1, <3>2, <3>3 DEF FetchBlocks
  <2> QED
    BY <1>a, <1>c, <2>1, <2>3, StepOf
<1>7. ASSUME NEW s \in Sessions, CheckBase(s) PROVE IInv'
  <2>1. /\ present' = present /\ index' = index /\ req[s].pc = "check"
        /\ disturbed' = IF Stale(s) THEN disturbed ELSE disturbed \ {s}
    BY <1>7 DEF CheckBase, At
  <2>2. SessionInv(s)' /\ Justified(s)' /\ Moves(s)
    <3>1. CASE Stale(s) /\ Goto(s, "conflict")
      <4>1. Fields(s, "conflict")
        BY <1>a, <1>b, <3>1, GotoFields
      <4>2. req[s].base # ZeroHash => s \in disturbed
        <5>1. req[s].base # NoHash /\ (Row(s) # NoFile => req[s].base # Content(Row(s)))
          BY <3>1 DEF Stale
        <5>2. Row(s) = NoFile => Content(Row(s)) = NoFile
          BY DEF Content
        <5>3. req[s].base \in Contents \cup {NoHash, ZeroHash} /\ NoFile \notin Contents
          BY <1>b, SentinelAssumption DEF Request
        <5> QED
          BY <1>b, <2>1, <5>1, <5>2, <5>3 DEF SessionInv, ReadsCurrent
      <4>3. SessionInv(s)'
        BY <1>b, <2>1, <4>1 DEF Fields, SessionInv, StepsOfOp, TargetCovered,
           RefsResolvable, ReadsCurrent, ReadSteps, WriteSteps
      <4>4. Justified(s)'
        BY <2>1, <3>1, <4>1, <4>2 DEF Fields, Justified, At
      <4> QED
        BY <4>1, <4>3, <4>4 DEF Fields
    <3>2. CASE ~Stale(s) /\ Goto(s, "pick")
      <4>1. Fields(s, "pick")
        BY <1>a, <1>b, <3>2, GotoFields
      <4>2. SessionInv(s)'
        BY <1>b, <2>1, <4>1 DEF Fields, SessionInv, StepsOfOp, TargetCovered, Target,
           RefsResolvable, ReadsCurrent, ReadSteps, WriteSteps
      <4>3. Justified(s)'
        BY <2>1, <3>2, <4>1 DEF Fields, Justified, At, Stale, Row
      <4> QED
        BY <4>1, <4>2, <4>3 DEF Fields
    <3> QED
      BY <1>7, <3>1, <3>2 DEF CheckBase
  <2> QED
    BY <1>a, <1>c, <2>1, <2>2, StepOf
<1>8. ASSUME NEW s \in Sessions, PickMissing(s) PROVE IInv'
  <2> DEFINE missing == req[s].todo \ present
  <2>1. /\ present' = present /\ index' = index /\ disturbed' = disturbed
        /\ req[s].pc = "pick"
    BY <1>8 DEF PickMissing, At
  <2>2. PICK pc \in {"resolve", "rename"} :
          /\ pc = "resolve" => missing = {}
          /\ Become(s, [req[s] EXCEPT !.todo = missing, !.pc = pc])
    BY <1>8 DEF PickMissing
  <2>3. /\ req'[s].pc = pc /\ req'[s].todo = missing /\ req'[s].op = req[s].op
        /\ req'[s].path = req[s].path /\ req'[s].new = req[s].new
        /\ req'[s].base = req[s].base /\ req'[s].rows = req[s].rows
        /\ req'[s].refs = req[s].refs
    <3> HIDE DEF missing
    <3> QED
      BY <2>2, <1>a, <1>b DEF Become, TypeOK, Request
  <2>4. TargetCovered(s)'
    BY <1>b, <2>1, <2>2, <2>3 DEF SessionInv, TargetCovered, Target
  <2>5. StepsOfOp(s)' /\ RefsResolvable(s)' /\ ReadsCurrent(s)'
    BY <1>b, <2>1, <2>3 DEF SessionInv, StepsOfOp, RefsResolvable, ReadsCurrent,
       ReadSteps, WriteSteps
  <2>6. SessionInv(s)' /\ Justified(s)'
    BY <1>b, <2>1, <2>3, <2>4, <2>5 DEF SessionInv, Justified, At, Stale, Row
  <2>7. Moves(s)
    BY <2>2, <1>a DEF Become, Moves, TypeOK
  <2> QED
    BY <1>a, <1>c, <2>1, <2>6, <2>7, StepOf
<1>9. ASSUME NEW s \in Sessions, RenameBlock(s) PROVE IInv'
  <2>1. /\ index' = index /\ disturbed' = disturbed /\ req[s].pc = "rename"
    BY <1>9, SMTT(60) DEF RenameBlock, At
  <2>2. PICK b \in req[s].todo, pc \in {"sync", "rename"} :
          /\ pc = "sync" => req[s].todo = {b}
          /\ present' = present \cup {b}
          /\ Become(s, [req[s] EXCEPT !.todo = req[s].todo \ {b},
                                      !.made = req[s].made \cup {b}, !.pc = pc])
    BY <1>9 DEF RenameBlock
  <2>3. /\ req'[s].pc = pc /\ req'[s].todo = req[s].todo \ {b} /\ req'[s].op = req[s].op
        /\ req'[s].path = req[s].path /\ req'[s].new = req[s].new
        /\ req'[s].base = req[s].base /\ req'[s].rows = req[s].rows
        /\ req'[s].refs = req[s].refs
    BY <2>2, <1>a, <1>b DEF Become, TypeOK, Request
  <2>4. TargetCovered(s)'
    BY <1>b, <2>1, <2>2, <2>3 DEF SessionInv, TargetCovered, Target
  <2>5. StepsOfOp(s)' /\ RefsResolvable(s)' /\ ReadsCurrent(s)'
    BY <1>b, <2>1, <2>2, <2>3 DEF SessionInv, StepsOfOp, RefsResolvable, ReadsCurrent,
       ReadSteps, WriteSteps
  <2>6. SessionInv(s)' /\ Justified(s)'
    BY <1>b, <2>1, <2>3, <2>4, <2>5 DEF SessionInv, Justified, At, Stale, Row
  <2>7. Moves(s)
    BY <2>2, <1>a DEF Become, Moves, TypeOK
  <2> QED
    BY <1>a, <1>c, <2>1, <2>2, <2>6, <2>7, StepOf
<1>10. ASSUME NEW s \in Sessions, SyncDirs(s) PROVE IInv'
  <2>1. /\ present' = present /\ index' = index /\ disturbed' = disturbed
        /\ req[s].pc = "sync" /\ Fields(s, "resolve")
    BY <1>10, <1>a, GotoFields DEF SyncDirs, At
  <2>2. SessionInv(s)'
    BY <1>b, <2>1 DEF Fields, SessionInv, StepsOfOp, TargetCovered, Target,
       RefsResolvable, ReadsCurrent, ReadSteps, WriteSteps
  <2>3. Justified(s)'
    BY <1>b, <2>1 DEF Fields, Justified, At, Stale, Row
  <2> QED
    BY <1>a, <1>c, <2>1, <2>2, <2>3, StepOf DEF Fields
<1>11. ASSUME NEW s \in Sessions, ResolveRefs(s) PROVE IInv'
  <2>1. /\ present' = present /\ index' = index /\ disturbed' = disturbed
        /\ req[s].pc = "resolve"
    BY <1>11 DEF ResolveRefs, At
  <2>2. SessionInv(s)' /\ Justified(s)' /\ Moves(s)
    <3>1. CASE req[s].refs \subseteq present /\ Goto(s, "ingest")
      <4>1. Fields(s, "ingest")
        BY <1>a, <3>1, GotoFields
      <4>2. SessionInv(s)'
        BY <1>b, <2>1, <3>1, <4>1 DEF Fields, SessionInv, StepsOfOp, TargetCovered, Target,
           RefsResolvable, ReadsCurrent, ReadSteps, WriteSteps
      <4>3. Justified(s)'
        BY <1>b, <2>1, <4>1 DEF Fields, Justified, At, Stale, Row
      <4> QED
        BY <4>1, <4>2, <4>3 DEF Fields
    <3>2. CASE ~(req[s].refs \subseteq present) /\ Goto(s, "missing")
      <4>1. Fields(s, "missing")
        BY <1>a, <3>2, GotoFields
      <4>2. req[s].op = "flush" /\ req[s].rows # NoFile /\ req[s].rows.by = "cdc"
        BY <1>b, <3>2 DEF SessionInv, RefsResolvable
      <4>3. SessionInv(s)'
        BY <1>b, <2>1, <4>1 DEF Fields, SessionInv, StepsOfOp, TargetCovered,
           RefsResolvable, ReadsCurrent, ReadSteps, WriteSteps
      <4>4. Justified(s)'
        BY <4>1, <4>2 DEF Fields, Justified, At
      <4> QED
        BY <4>1, <4>3, <4>4 DEF Fields
    <3> QED
      BY <1>11, <3>1, <3>2 DEF ResolveRefs
  <2> QED
    BY <1>a, <1>c, <2>1, <2>2, StepOf
<1>12. ASSUME NEW s \in Sessions, Ingest(s) PROVE IInv'
  <2> DEFINE path == req[s].path
  <2>1. /\ present' = present /\ disturbed' = disturbed \cup Others(s)
        /\ index' = [index EXCEPT ![path] = Target(s)] /\ req[s].pc = "ingest"
    BY <1>12 DEF Ingest, At, Target
  <2>2. PICK pc \in {"embed", "reply"} :
          Fields(s, pc) /\ (pc = "embed" => req[s].op \in Sparse \cup {"put"})
    <3>1. req[s].op \in Sparse \cup {"put"}
      BY <1>b, <2>1 DEF SessionInv, StepsOfOp, WriteSteps
    <3> QED
      BY <1>12, <1>a, <3>1, GotoFields DEF Ingest
  <2>3. SessionInv(s)'
    BY <1>b, <2>1, <2>2 DEF Fields, SessionInv, StepsOfOp, TargetCovered,
       RefsResolvable, ReadsCurrent, ReadSteps, WriteSteps
  <2>4. Justified(s)'
    BY <2>2 DEF Fields, Justified, At
  <2>5. IndexedBlocksPresent'
    <3>1. BlocksOf(Target(s)) \subseteq present
      BY <1>b, <2>1 DEF SessionInv, TargetCovered
    <3> QED
      BY <1>a, <1>b, <2>1, <3>1 DEF IndexedBlocksPresent, TypeOK
  <2> QED
    BY <1>a, <1>b, <2>1, <2>2, <2>3, <2>4, <2>5, StepOf DEF Fields, TypeOK
<1>13. ASSUME NEW s \in Sessions, SetEmbedding(s) PROVE IInv'
  <2>1. /\ present' = present /\ index' = index /\ disturbed' = disturbed
        /\ Goto(s, "reply")
    BY <1>13 DEF SetEmbedding
  <2> QED
    BY <1>a, <1>b, <1>c, <2>1, GotoReply, StepOf
<1>14. ASSUME NEW s \in Sessions, DeleteFile(s) PROVE IInv'
  <2>1. /\ present' = present /\ disturbed' = disturbed \cup Others(s)
        /\ index' = [index EXCEPT ![req[s].path] = NoFile] /\ Goto(s, "reply")
    BY <1>14 DEF DeleteFile
  <2>2. IndexedBlocksPresent'
    BY <1>a, <1>b, <2>1 DEF IndexedBlocksPresent, TypeOK
  <2>3. SessionInv(s)' /\ Justified(s)' /\ Moves(s)
    BY <1>a, <1>b, <2>1, GotoReply
  <2> QED
    BY <1>a, <1>b, <2>1, <2>2, <2>3, StepOf DEF TypeOK
<1>15. ASSUME NEW s \in Sessions, NEW outcome \in {"ok", "lost"}, Finish(s, outcome),
              UNCHANGED <<present, durable, index, embedding, sent, disturbed>>
       PROVE  IInv'
  <2>1. /\ req'[s].pc = outcome /\ req'[s].refs = {}
        /\ req'[s].op = req[s].op /\ req'[s].base = req[s].base
    BY <1>15, <1>a, <1>b DEF Finish, Become, TypeOK, Request
  <2>2. SessionInv(s)'
    BY <1>b, <2>1 DEF SessionInv, StepsOfOp, TargetCovered, RefsResolvable, ReadsCurrent,
       ReadSteps, WriteSteps
  <2>3. Justified(s)' /\ Moves(s)
    BY <1>15, <1>a, <2>1 DEF Justified, At, Moves, Finish, Become, TypeOK
  <2> QED
    BY <1>15, <1>a, <1>c, <2>2, <2>3, StepOf
<1>16. CASE UNCHANGED vars
  BY <1>16, <1>a DEF vars, IInv, IndexedBlocksPresent, ConflictMeansChanged,
     CorruptMeansOvertaken, MissingMeansRechunked, StaleMeansOvertaken, SessionInv,
     StepsOfOp, TargetCovered, Target, RefsResolvable, ReadsCurrent, At, Stale, Row
<1> QED
  BY <1>1, <1>2, <1>3, <1>4, <1>5, <1>6, <1>7, <1>8, <1>9, <1>10, <1>11, <1>12,
     <1>13, <1>14, <1>15, <1>16 DEF Next, SessionStep, Reply, Abort

\* The inductive invariant holds in every reachable state.
THEOREM Invariance == Spec => []IInv
<1>1. Init => IInv
  BY InitIInv
<1>2. IInv /\ [Next]_vars => IInv'
  BY NextIInv
<1> QED
  BY <1>1, <1>2, PTL DEF Spec

\* Every variable has its type.
THEOREM TypeCorrect == Spec => []TypeOK
<1>1. IInv => TypeOK
  BY DEF IInv
<1> QED
  BY <1>1, Invariance, PTL

\* The index never names a block that is not in the store.
THEOREM IndexSound == Spec => []IndexedBlocksPresent
<1>1. IInv => IndexedBlocksPresent
  BY DEF IInv
<1> QED
  BY <1>1, Invariance, PTL

\* A conflict answer (handle_write, handle_write_sparse) is never spurious: the
\* path changed after the client took its base hash.
THEOREM ConflictJustified == Spec => []ConflictMeansChanged
<1>1. IInv => ConflictMeansChanged
  BY DEF IInv
<1> QED
  BY <1>1, Invariance, PTL

\* The errors of a read (handle_read, verify_content_hash) are told only to a
\* reader that a writer of the same path overtook.
THEOREM CorruptJustified == Spec => []CorruptMeansOvertaken
<1>1. IInv => CorruptMeansOvertaken
  BY DEF IInv
<1> QED
  BY <1>1, Invariance, PTL

\* handle_write_sparse misses a block only in a WAL flush against a base that
\* PUT stored in content-defined chunks.
THEOREM MissingJustified == Spec => []MissingMeansRechunked
<1>1. IInv => MissingMeansRechunked
  BY DEF IInv
<1> QED
  BY <1>1, Invariance, PTL

\* A sparse write whose base is stale behind the reject_stale check was overtaken
\* between the check and the ingest.
THEOREM StaleJustified == Spec => []StaleMeansOvertaken
<1>1. IInv => StaleMeansOvertaken
  BY DEF IInv
<1> QED
  BY <1>1, Invariance, PTL

-----------------------------------------------------------------------------
(* Refinement of AtomicFiles.                                               *)

\* The phase of the abstract call at each step of the handler.
LEMMA Phases ==
  ASSUME NEW s \in Sessions
  PROVE  /\ req[s].op = "get" \/ req[s].pc = "idle" => AbstractPhase(s) = "idle"
         /\ req[s].op # "get" =>
              /\ req[s].pc \in {"base", "handshake", "check", "pick", "rename", "sync",
                                "resolve", "ingest", "delete", "stat"}
                   => AbstractPhase(s) = "pending"
              /\ req[s].pc \in {"list", "fetch"} =>
                   AbstractPhase(s) = IF req[s].op = "read" THEN "done" ELSE "pending"
              /\ req[s].pc \in {"embed", "reply"} => AbstractPhase(s) = "done"
              /\ req[s].pc = "ok" => AbstractPhase(s) = "ok"
              /\ req[s].pc \in {"conflict", "missing", "corrupt", "lost"} => AbstractPhase(s) = "failed"
  BY DEF AbstractPhase, Outcomes

\* An initial state of the server is one of the abstract store.
LEMMA InitRefines == Init => Atomic!Init
<1> SUFFICES ASSUME Init PROVE Atomic!Init
  OBVIOUS
<1>1. ASSUME NEW p \in Paths PROVE Content(index[p]) \in Contents \cup {NoFile}
  BY DEF Init, Content, Version
<1>2. ASSUME NEW s \in Sessions
      PROVE  AbstractCall(s) \in {c \in Atomic!Call : c.phase = "idle"}
  <2>1. req \in [Sessions -> Request] /\ req[s].pc = "idle" /\ req[s].op = "read"
    BY TypeInit DEF TypeOK, Init, Blank
  <2>2. AbstractPhase(s) = "idle"
    BY <2>1, Phases
  <2>3. /\ req[s].path \in Paths /\ req[s].new \in Contents
        /\ req[s].seen \in Contents \cup {NoFile}
    BY <2>1 DEF Request
  <2> QED
    BY <2>1, <2>2, <2>3 DEF AbstractCall, Atomic!Call, Atomic!Ops, Sparse
<1> QED
  BY <1>1, <1>2 DEF Atomic!Init

\* The abstract call of a session that does not move stays as it is.
LEMMA OthersCallKept ==
  ASSUME NEW t \in Sessions, req'[t] = req[t]
  PROVE  AbstractCall(t)' = AbstractCall(t)
  BY DEF AbstractCall, AbstractPhase

\* A step of s that keeps the contents and the abstract call of s is a stutter.
LEMMA Stutters ==
  ASSUME NEW s \in Sessions, Moves(s), index' = index,
         AbstractCall(s)' = AbstractCall(s)
  PROVE  UNCHANGED Atomic!vars
<1>1. ASSUME NEW t \in Sessions PROVE AbstractCall(t)' = AbstractCall(t)
  BY OthersCallKept DEF Moves
<1> HIDE DEF AbstractCall
<1> QED
  BY <1>1 DEF Atomic!vars

\* A step of s that turns its abstract call into another.
LEMMA CallChanges ==
  ASSUME NEW s \in Sessions, Moves(s)
  PROVE  [t \in Sessions |-> AbstractCall(t)]' =
           [[t \in Sessions |-> AbstractCall(t)] EXCEPT ![s] = AbstractCall(s)']
<1>1. ASSUME NEW t \in Sessions \ {s} PROVE AbstractCall(t)' = AbstractCall(t)
  BY OthersCallKept DEF Moves
<1> HIDE DEF AbstractCall
<1> QED
  BY <1>1

\* A step of s that ends its abstract call without success.
LEMMA Fails ==
  ASSUME NEW s \in Sessions, Moves(s), index' = index,
         AbstractPhase(s) \in {"pending", "done"},
         AbstractCall(s)' = [AbstractCall(s) EXCEPT !.phase = "failed"]
  PROVE  Atomic!Fail(s)
<1>1. AbstractCall(s).phase = AbstractPhase(s)
  BY DEF AbstractCall
<1> HIDE DEF AbstractCall
<1> QED
  BY <1>1, CallChanges DEF Atomic!Fail

\* A step of s that answers its abstract call.
LEMMA Replies ==
  ASSUME NEW s \in Sessions, Moves(s), index' = index, AbstractPhase(s) = "done",
         AbstractCall(s)' = [AbstractCall(s) EXCEPT !.phase = "ok"]
  PROVE  Atomic!Reply(s)
<1>1. AbstractCall(s).phase = AbstractPhase(s)
  BY DEF AbstractCall
<1> HIDE DEF AbstractCall
<1> QED
  BY <1>1, CallChanges DEF Atomic!Reply

\* The stat of s is the instant at which its read takes effect.
LEMMA ReadTakesEffect ==
  ASSUME NEW s \in Sessions, Moves(s), index' = index, req[s].path \in Paths,
         AbstractPhase(s) = "pending", req[s].op = "read",
         AbstractCall(s)' = [AbstractCall(s) EXCEPT !.phase = "done",
                                                    !.seen = Content(Row(s))]
  PROVE  Atomic!TakeEffect(s)
<1>1. /\ AbstractCall(s).phase = "pending" /\ AbstractCall(s).op = "read"
      /\ AbstractCall(s).path = req[s].path
  BY DEF AbstractCall, Sparse
<1>2. [p \in Paths |-> Content(index[p])][AbstractCall(s).path] = Content(Row(s))
  BY <1>1 DEF Row
<1> HIDE DEF AbstractCall
<1> QED
  BY <1>1, <1>2, CallChanges, ZenonT(60) DEF Atomic!TakeEffect

\* A change of one row changes the content of that path.
LEMMA ContentChanges ==
  ASSUME TypeOK, NEW path \in Paths, NEW v, index' = [index EXCEPT ![path] = v]
  PROVE  [p \in Paths |-> Content(index[p])]' =
           [[p \in Paths |-> Content(index[p])] EXCEPT ![path] = Content(v)]
<1>1. ASSUME NEW p \in Paths
      PROVE  Content(index[p])' = IF p = path THEN Content(v) ELSE Content(index[p])
  <2>1. index'[p] = IF p = path THEN v ELSE index[p]
    BY DEF TypeOK
  <2> QED
    BY <2>1
<1> QED
  BY <1>1

\* The ingest or delete of s is the instant at which its change takes effect.
LEMMA ChangeTakesEffect ==
  ASSUME NEW s \in Sessions, Moves(s), TypeOK, req[s].path \in Paths,
         NEW v, index' = [index EXCEPT ![req[s].path] = v],
         AbstractPhase(s) = "pending",
         \/ AbstractCall(s).op = "write" /\ Content(v) = req[s].new
         \/ AbstractCall(s).op = "delete" /\ Content(v) = NoFile,
         AbstractCall(s)' = [AbstractCall(s) EXCEPT !.phase = "done"]
  PROVE  Atomic!TakeEffect(s)
<1>1. /\ AbstractCall(s).phase = "pending" /\ AbstractCall(s).new = req[s].new
      /\ AbstractCall(s).path = req[s].path
  BY DEF AbstractCall
<1> DEFINE files == [p \in Paths |-> Content(index[p])]
           call == [t \in Sessions |-> AbstractCall(t)]
<1>2. files' = [files EXCEPT ![call[s].path] = Content(v)]
  BY <1>1, ContentChanges, ZenonT(60)
<1>3. call' = [call EXCEPT ![s].phase = "done"]
  <2>1. call' = [call EXCEPT ![s] = AbstractCall(s)']
    BY CallChanges
  <2> HIDE DEF AbstractCall
  <2> QED
    BY <2>1
<1>4. /\ call[s].phase = "pending" /\ call[s].new = req[s].new
      /\ call[s].op = AbstractCall(s).op
  BY <1>1
<1> HIDE DEF files, call, AbstractCall
<1> QED
  BY <1>2, <1>3, <1>4 DEF Atomic!TakeEffect, files, call

\* Building the payload of a flush is invisible.
LEMMA SendDiffStutters ==
  ASSUME TypeOK, NEW s \in Sessions, NEW old, SendDiff(s, old), index' = index,
         req[s].op = "flush", req[s].pc \in {"stat", "fetch"}
  PROVE  UNCHANGED Atomic!vars
<1> DEFINE new == req[s].new
           same == Unchanged(old, new)
           refs == {Fixed[new][i] : i \in same}
           todo == {Fixed[new][i] : i \in DOMAIN Fixed[new] \ same}
<1>1. req' = [req EXCEPT ![s] = [req[s] EXCEPT !.refs = refs, !.todo = todo, !.pc = "check"]]
  BY DEF SendDiff, Become
<1> HIDE DEF refs, todo
<1>2. /\ req'[s].pc = "check" /\ req'[s].op = "flush" /\ req'[s].path = req[s].path
      /\ req'[s].new = req[s].new /\ Moves(s)
  BY <1>1 DEF TypeOK, Request, Moves
<1>3. AbstractCall(s)' = AbstractCall(s)
  BY <1>2 DEF AbstractCall, AbstractPhase, Outcomes
<1> QED
  BY <1>2, <1>3, Stutters

\* Every step of the server is a step of the abstract store or a stutter.
LEMMA NextRefines == IInv /\ [Next]_vars => [Atomic!Next]_(Atomic!vars)
<1> SUFFICES ASSUME IInv, [Next]_vars PROVE [Atomic!Next]_(Atomic!vars)
  OBVIOUS
<1>a. TypeOK
  BY DEF IInv
<1>b. ASSUME NEW s \in Sessions
      PROVE  /\ req[s] \in Request /\ req[s].path \in Paths /\ req[s].new \in Contents
             /\ req[s].seen \in Contents \cup {NoFile}
             /\ SessionInv(s)
  BY <1>a DEF IInv, TypeOK, Request
<1>c. ASSUME NEW s \in Sessions, NEW pc, Fields(s, pc), index' = index,
             req[s].op # "get",
             \/ pc = "reply" /\ req[s].pc = "embed"
             \/ pc \in {"conflict", "pick"} /\ req[s].pc = "check"
             \/ pc = "resolve" /\ req[s].pc = "sync"
             \/ pc \in {"ingest", "missing"} /\ req[s].pc = "resolve"
             \/ pc = "corrupt" /\ req[s].pc \in {"list", "fetch"}
      PROVE  [Atomic!Next]_(Atomic!vars)
  <2>1. /\ AbstractCall(s)' = [AbstractCall(s) EXCEPT !.phase = AbstractPhase(s)']
        /\ AbstractCall(s).phase = AbstractPhase(s)
        /\ Moves(s) /\ req'[s].pc = pc
    BY <1>c DEF AbstractCall, Fields
  <2>2. CASE AbstractPhase(s)' = AbstractPhase(s)
    <3>1. AbstractCall(s)' = AbstractCall(s)
      BY <2>1, <2>2 DEF AbstractCall
    <3> QED
      BY <1>c, <2>1, <3>1, Stutters
  <2>3. CASE AbstractPhase(s)' # AbstractPhase(s)
    <3>1. AbstractPhase(s)' = "failed" /\ AbstractPhase(s) \in {"pending", "done"}
      BY <1>c, <2>1, <2>3 DEF AbstractPhase, Fields, Outcomes
    <3>2. Atomic!Fail(s)
      BY <1>c, <2>1, <3>1, Fails
    <3> QED
      BY <3>2 DEF Atomic!Next
  <2> QED
    BY <2>2, <2>3
<1>1. ASSUME NEW s \in Sessions, Invoke(s) PROVE Atomic!Invoke(s)
  <2>1. PICK op \in Ops, p \in Paths, c \in Contents :
          Become(s, [Blank(p) EXCEPT
            !.pc = FirstStep(op), !.op = op, !.new = c,
            !.todo = IF op = "put" THEN Range_(Cdc[c]) ELSE {}])
    BY <1>1 DEF Invoke
  <2>2. /\ req'[s].pc = FirstStep(op) /\ req'[s].op = op /\ req'[s].new = c
        /\ req'[s].path = p /\ req'[s].seen = NoFile
    BY <2>1, <1>a DEF Become, Blank, TypeOK
  <2>3. Moves(s) /\ index' = index
    BY <1>1, <2>1, <1>a DEF Invoke, Become, Moves, TypeOK
  <2>4. AbstractPhase(s)' \in {"pending", "idle"}
    BY <2>2, FirstStepType DEF AbstractPhase, Outcomes
  <2>5. PICK aop \in Atomic!Ops :
          AbstractCall(s)' = [phase |-> AbstractPhase(s)', op |-> aop, path |-> p,
                              new |-> c, seen |-> NoFile]
    BY <2>2 DEF AbstractCall, Atomic!Ops
  <2>6. AbstractCall(s).phase \in {"idle", "ok", "failed"}
    BY <1>1, Phases DEF Invoke, AbstractCall, Outcomes
  <2>7. \E phase \in {"pending", "idle"}, o \in Atomic!Ops, q \in Paths, d \in Contents :
          AbstractCall(s)' = [phase |-> phase, op |-> o, path |-> q,
                              new |-> d, seen |-> NoFile]
    BY <2>4, <2>5
  <2> DEFINE call == [t \in Sessions |-> AbstractCall(t)]
             a == AbstractCall(s)'
  <2>8. call' = [call EXCEPT ![s] = a]
    BY <2>3, CallChanges
  <2>9. call[s].phase \in {"idle", "ok", "failed"}
    BY <2>6
  <2>10. [p_1 \in Paths |-> Content(index[p_1])]' = [p_1 \in Paths |-> Content(index[p_1])]
    BY <2>3
  <2>11. \E phase \in {"pending", "idle"}, o \in Atomic!Ops, q \in Paths, d \in Contents :
          call' = [call EXCEPT ![s] = [phase |-> phase, op |-> o, path |-> q,
                                       new |-> d, seen |-> NoFile]]
    <3> HIDE DEF call, a
    <3> QED
      BY <2>7, <2>8 DEF a
  <2> QED
    BY <2>9, <2>10, <2>11 DEF Atomic!Invoke
<1>2. ASSUME NEW s \in Sessions, StatBase(s) PROVE UNCHANGED Atomic!vars
  <2>1. PICK h \in {NoHash, ZeroHash} \cup (Contents \cap {Content(Row(s))}) :
          Become(s, [req[s] EXCEPT !.base = h, !.pc = "handshake"])
    BY <1>2 DEF StatBase
  <2>2. /\ req'[s].pc = "handshake" /\ req'[s].op = req[s].op
        /\ req'[s].path = req[s].path /\ req'[s].new = req[s].new
        /\ req'[s].seen = req[s].seen /\ req[s].pc = "base"
    BY <1>2, <2>1, <1>a, <1>b DEF StatBase, At, Become, TypeOK, Request
  <2>3. Moves(s) /\ index' = index
    BY <1>2, <2>1, <1>a DEF StatBase, Become, Moves, TypeOK
  <2>4. AbstractCall(s)' = AbstractCall(s)
    BY <2>2 DEF AbstractCall, AbstractPhase, Outcomes
  <2> QED
    BY <2>3, <2>4, Stutters
<1>3. ASSUME NEW s \in Sessions, Handshake(s) PROVE UNCHANGED Atomic!vars
  <2>1. PICK known \in SUBSET Range_(Fixed[req[s].new]) :
          Become(s, [req[s] EXCEPT !.refs = known,
                                   !.todo = Range_(Fixed[req[s].new]) \ known,
                                   !.pc = "check"])
    BY <1>3 DEF Handshake
  <2>2. /\ req'[s].pc = "check" /\ req'[s].op = req[s].op
        /\ req'[s].path = req[s].path /\ req'[s].new = req[s].new
        /\ req'[s].seen = req[s].seen /\ req[s].pc = "handshake"
    BY <1>3, <2>1, <1>a, <1>b DEF Handshake, At, Become, TypeOK, Request
  <2>3. Moves(s) /\ index' = index
    BY <1>3, <2>1, <1>a DEF Handshake, Become, Moves, TypeOK
  <2>4. AbstractCall(s)' = AbstractCall(s)
    BY <2>2 DEF AbstractCall, AbstractPhase, Outcomes
  <2> QED
    BY <2>3, <2>4, Stutters
<1>4. ASSUME NEW s \in Sessions, StatFile(s) PROVE [Atomic!Next]_(Atomic!vars)
  <2> DEFINE c == Content(Row(s))
  <2>1. /\ index' = index /\ req[s].pc = "stat" /\ req[s].seen = NoFile
        /\ req[s].op \in {"read", "get", "flush"}
    BY <1>4, <1>b DEF StatFile, At, SessionInv, StepsOfOp, ReadSteps
  <2>2. CASE req[s].op = "flush" /\ SendDiff(s, Empty)
    BY <1>a, <1>b, <2>1, <2>2, SendDiffStutters
  <2>3. CASE req[s].op # "flush" /\ \E seen \in {c, Empty} : \E pc \in {"reply", "list"} :
               /\ pc = "list" \/ req[s].op = "read" => seen = c
               /\ req'[s].pc = pc /\ req'[s].seen = seen
               /\ req'[s].op = req[s].op /\ req'[s].path = req[s].path
               /\ req'[s].new = req[s].new /\ Moves(s)
    <3>1. CASE req[s].op = "read"
      <4>1. /\ req'[s].op = "read" /\ req'[s].pc \in {"reply", "list"}
            /\ req'[s].seen = c /\ Moves(s)
            /\ req'[s].path = req[s].path /\ req'[s].new = req[s].new
        BY <2>3, <3>1
      <4>2. AbstractPhase(s) = "pending" /\ AbstractPhase(s)' = "done"
        BY <2>1, <3>1, <4>1 DEF AbstractPhase, Outcomes
      <4>3. AbstractCall(s)' = [AbstractCall(s) EXCEPT !.phase = "done", !.seen = c]
        <5>1. AbstractCall(s)' = [phase |-> "done", op |-> "read", path |-> req[s].path,
                                  new |-> req[s].new, seen |-> req'[s].seen]
          BY <4>1, <4>2 DEF AbstractCall, Sparse
        <5>2. AbstractCall(s) = [phase |-> "pending", op |-> "read", path |-> req[s].path,
                                 new |-> req[s].new, seen |-> req[s].seen]
          BY <3>1, <4>2 DEF AbstractCall, Sparse
        <5> DEFINE r == [AbstractCall(s) EXCEPT !.phase = "done"]
        <5>3. r = [phase |-> "done", op |-> "read", path |-> req[s].path,
                   new |-> req[s].new, seen |-> req[s].seen]
          BY <5>2
        <5>4. AbstractCall(s)' = [r EXCEPT !.seen = req'[s].seen]
          <6> HIDE DEF r
          <6> QED
            BY <5>1, <5>3
        <5> QED
          BY <4>1, <5>4
      <4>4. Atomic!TakeEffect(s)
        BY <1>b, <2>1, <3>1, <4>1, <4>2, <4>3, ReadTakesEffect
      <4> QED
        BY <4>4 DEF Atomic!Next
    <3>2. CASE req[s].op = "get"
      <4>1. /\ req'[s].op = "get" /\ req'[s].path = req[s].path
            /\ req'[s].new = req[s].new /\ Moves(s)
        BY <2>3, <3>2
      <4>2. AbstractCall(s)' = AbstractCall(s)
        BY <3>2, <4>1 DEF AbstractCall, AbstractPhase
      <4> QED
        BY <2>1, <4>1, <4>2, Stutters
    <3> QED
      BY <2>1, <2>3, <3>1, <3>2
  <2>4. CASE c = NoFile /\ req[s].op # "flush" /\ Goto(s, "reply")
    <3>1. Fields(s, "reply")
      BY <1>a, <2>4, GotoFields
    <3> QED
      BY <2>1, <2>3, <2>4, <3>1 DEF Fields
  <2>5. CASE c = Empty /\ req[s].op = "read"
             /\ Become(s, [req[s] EXCEPT !.seen = Empty, !.pc = "reply"])
    <3>1. /\ req'[s].pc = "reply" /\ req'[s].seen = Empty
          /\ req'[s].op = req[s].op /\ req'[s].path = req[s].path
          /\ req'[s].new = req[s].new /\ Moves(s)
      BY <2>5, <1>a, <1>b DEF Become, Moves, TypeOK, Request
    <3> QED
      BY <2>3, <2>5, <3>1
  <2>6. CASE Become(s, [req[s] EXCEPT !.seen = c, !.pc = "list"])
    <3>1. /\ req'[s].pc = "list" /\ req'[s].seen = c
          /\ req'[s].op = req[s].op /\ req'[s].path = req[s].path
          /\ req'[s].new = req[s].new /\ Moves(s)
      BY <2>6, <1>a, <1>b DEF Become, Moves, TypeOK, Request
    <3>2. CASE req[s].op = "flush"
      <4>1. AbstractCall(s)' = AbstractCall(s)
        BY <2>1, <3>1, <3>2 DEF AbstractCall, AbstractPhase, Outcomes
      <4> QED
        BY <2>1, <3>1, <4>1, Stutters
    <3>3. CASE req[s].op # "flush"
      BY <2>3, <3>1, <3>3
    <3> QED
      BY <3>2, <3>3
  <2> QED
    BY <1>4, <2>2, <2>4, <2>5, <2>6 DEF StatFile
<1>5. ASSUME NEW s \in Sessions, ListBlocks(s) PROVE [Atomic!Next]_(Atomic!vars)
  <2>1. index' = index /\ req[s].pc = "list"
    BY <1>5 DEF ListBlocks, At
  <2>2. CASE req[s].op = "get" /\ Become(s, [req[s] EXCEPT !.seen = Empty, !.pc = "reply"])
    <3>1. /\ req'[s].op = "get" /\ req'[s].path = req[s].path
          /\ req'[s].new = req[s].new /\ Moves(s)
      BY <2>2, <1>a, <1>b DEF Become, Moves, TypeOK, Request
    <3>2. AbstractCall(s)' = AbstractCall(s)
      BY <2>2, <3>1 DEF AbstractCall, AbstractPhase
    <3> QED
      BY <2>1, <3>1, <3>2, Stutters
  <2>3. CASE req[s].op # "get" /\ Goto(s, "corrupt")
    BY <1>a, <1>c, <2>1, <2>3, GotoFields
  <2>4. CASE Become(s, [req[s] EXCEPT !.rows = Row(s), !.pc = "fetch"])
    <3>1. /\ req'[s].op = req[s].op /\ req'[s].path = req[s].path
          /\ req'[s].new = req[s].new /\ req'[s].seen = req[s].seen
          /\ req'[s].pc = "fetch" /\ Moves(s)
      BY <2>4, <1>a, <1>b DEF Become, Moves, TypeOK, Request
    <3>2. AbstractCall(s)' = AbstractCall(s)
      BY <2>1, <3>1 DEF AbstractCall, AbstractPhase, Outcomes
    <3> QED
      BY <2>1, <3>1, <3>2, Stutters
  <2> QED
    BY <1>5, <2>2, <2>3, <2>4 DEF ListBlocks
<1>6. ASSUME NEW s \in Sessions, FetchBlocks(s) PROVE [Atomic!Next]_(Atomic!vars)
  <2>1. index' = index /\ req[s].pc = "fetch"
    BY <1>6 DEF FetchBlocks, At
  <2>2. CASE ~Readable(s) /\ Goto(s, "corrupt") /\ req[s].op # "get"
    BY <1>a, <1>c, <2>1, <2>2, GotoFields
  <2>3. CASE Goto(s, "corrupt") /\ req[s].op = "get"
    <3>1. Fields(s, "corrupt")
      BY <1>a, <2>3, GotoFields
    <3>2. AbstractCall(s)' = AbstractCall(s)
      BY <2>3, <3>1 DEF AbstractCall, AbstractPhase, Fields
    <3> QED
      BY <2>1, <3>1, <3>2, Stutters DEF Fields
  <2>4. CASE req[s].op = "flush" /\ SendDiff(s, req[s].rows.of)
    BY <1>a, <1>b, <2>1, <2>4, SendDiffStutters
  <2>5. CASE Readable(s) /\ req[s].op # "flush"
             /\ Become(s, [req[s] EXCEPT !.seen = req[s].rows.of, !.pc = "reply"])
    <3>1. /\ req'[s].op = req[s].op /\ req'[s].path = req[s].path
          /\ req'[s].new = req[s].new /\ req'[s].seen = req[s].rows.of
          /\ req'[s].pc = "reply" /\ Moves(s)
      BY <2>5, <1>a, <1>b DEF Become, Moves, TypeOK, Request
    <3>2. req[s].op \in {"read", "get"}
          /\ (req[s].op = "read" => req[s].rows.of = req[s].seen)
      BY <1>b, <2>1, <2>5 DEF Readable, SessionInv, StepsOfOp, ReadSteps
    <3>3. AbstractCall(s)' = AbstractCall(s)
      BY <2>1, <3>1, <3>2 DEF AbstractCall, AbstractPhase, Outcomes
    <3> QED
      BY <2>1, <3>1, <3>3, Stutters
  <2> QED
    BY <1>6, <2>2, <2>3, <2>4, <2>5 DEF FetchBlocks
<1>7. ASSUME NEW s \in Sessions, CheckBase(s) PROVE [Atomic!Next]_(Atomic!vars)
  <2>1. index' = index /\ req[s].pc = "check" /\ req[s].op # "get"
    BY <1>7, <1>b DEF CheckBase, At, SessionInv, StepsOfOp, WriteSteps, Sparse
  <2>2. PICK pc \in {"conflict", "pick"} : Goto(s, pc)
    BY <1>7 DEF CheckBase
  <2> QED
    BY <1>a, <1>c, <2>1, <2>2, GotoFields
<1>8. ASSUME NEW s \in Sessions, PickMissing(s) PROVE [Atomic!Next]_(Atomic!vars)
  <2> DEFINE missing == req[s].todo \ present
  <2>1. index' = index /\ req[s].pc = "pick"
    BY <1>8 DEF PickMissing, At
  <2>2. PICK pc \in {"resolve", "rename"} :
          Become(s, [req[s] EXCEPT !.todo = missing, !.pc = pc])
    BY <1>8 DEF PickMissing
  <2> HIDE DEF missing
  <2>3. /\ req'[s].op = req[s].op /\ req'[s].path = req[s].path
        /\ req'[s].new = req[s].new /\ req'[s].seen = req[s].seen
        /\ req'[s].pc = pc /\ Moves(s)
    BY <2>2, <1>a, <1>b DEF Become, Moves, TypeOK, Request
  <2>4. AbstractCall(s)' = AbstractCall(s)
    BY <2>1, <2>3 DEF AbstractCall, AbstractPhase, Outcomes
  <2> QED
    BY <2>1, <2>3, <2>4, Stutters
<1>9. ASSUME NEW s \in Sessions, RenameBlock(s) PROVE [Atomic!Next]_(Atomic!vars)
  <2>1. index' = index /\ req[s].pc = "rename"
    BY <1>9, SMTT(60) DEF RenameBlock, At
  <2>2. PICK b \in req[s].todo, pc \in {"sync", "rename"} :
          Become(s, [req[s] EXCEPT !.todo = req[s].todo \ {b},
                                   !.made = req[s].made \cup {b}, !.pc = pc])
    BY <1>9 DEF RenameBlock
  <2>3. /\ req'[s].op = req[s].op /\ req'[s].path = req[s].path
        /\ req'[s].new = req[s].new /\ req'[s].seen = req[s].seen
        /\ req'[s].pc = pc /\ Moves(s)
    BY <2>2, <1>a, <1>b DEF Become, Moves, TypeOK, Request
  <2>4. AbstractCall(s)' = AbstractCall(s)
    BY <2>1, <2>3 DEF AbstractCall, AbstractPhase, Outcomes
  <2> QED
    BY <2>1, <2>3, <2>4, Stutters
<1>10. ASSUME NEW s \in Sessions, SyncDirs(s) PROVE [Atomic!Next]_(Atomic!vars)
  <2>1. /\ index' = index /\ req[s].pc = "sync" /\ req[s].op # "get"
        /\ Goto(s, "resolve")
    BY <1>10, <1>b DEF SyncDirs, At, SessionInv, StepsOfOp, WriteSteps, Sparse
  <2> QED
    BY <1>a, <1>c, <2>1, GotoFields
<1>11. ASSUME NEW s \in Sessions, ResolveRefs(s) PROVE [Atomic!Next]_(Atomic!vars)
  <2>1. index' = index /\ req[s].pc = "resolve" /\ req[s].op # "get"
    BY <1>11, <1>b DEF ResolveRefs, At, SessionInv, StepsOfOp, WriteSteps, Sparse
  <2>2. PICK pc \in {"ingest", "missing"} : Goto(s, pc)
    BY <1>11 DEF ResolveRefs
  <2> QED
    BY <1>a, <1>c, <2>1, <2>2, GotoFields
<1>12. ASSUME NEW s \in Sessions, Ingest(s) PROVE [Atomic!Next]_(Atomic!vars)
  <2>1. /\ index' = [index EXCEPT ![req[s].path] = Target(s)]
        /\ req[s].pc = "ingest" /\ req[s].op \in Sparse \cup {"put"}
    BY <1>12, <1>b DEF Ingest, At, Target, SessionInv, StepsOfOp, WriteSteps
  <2>2. PICK pc \in {"embed", "reply"} : Fields(s, pc)
    BY <1>12, <1>a, GotoFields DEF Ingest
  <2>3. AbstractPhase(s) = "pending" /\ AbstractPhase(s)' = "done"
    BY <2>1, <2>2 DEF AbstractPhase, Fields, Outcomes, Sparse
  <2>4. AbstractCall(s)' = [AbstractCall(s) EXCEPT !.phase = "done"]
    BY <2>2, <2>3 DEF AbstractCall, Fields
  <2>5. AbstractCall(s).op = "write"
    BY <2>1 DEF AbstractCall
  <2>6. Content(Target(s)) = req[s].new
    <3>1. Target(s) \in Version /\ Target(s).of = req[s].new
      BY <1>b DEF Target, Version
    <3> QED
      BY <3>1, SentinelAssumption DEF Content
  <2>7. Atomic!TakeEffect(s)
    BY <1>a, <1>b, <2>1, <2>2, <2>3, <2>4, <2>5, <2>6, ChangeTakesEffect DEF Fields
  <2> QED
    BY <2>7 DEF Atomic!Next
<1>13. ASSUME NEW s \in Sessions, SetEmbedding(s) PROVE [Atomic!Next]_(Atomic!vars)
  <2>1. /\ index' = index /\ req[s].pc = "embed" /\ req[s].op # "get"
        /\ Goto(s, "reply")
    BY <1>13, <1>b DEF SetEmbedding, At, SessionInv, StepsOfOp, WriteSteps, Sparse
  <2> QED
    BY <1>a, <1>c, <2>1, GotoFields
<1>14. ASSUME NEW s \in Sessions, DeleteFile(s) PROVE [Atomic!Next]_(Atomic!vars)
  <2>1. /\ index' = [index EXCEPT ![req[s].path] = NoFile]
        /\ req[s].pc = "delete" /\ req[s].op = "delete" /\ Goto(s, "reply")
    BY <1>14, <1>b DEF DeleteFile, At, SessionInv, StepsOfOp
  <2>2. Fields(s, "reply")
    BY <1>a, <2>1, GotoFields
  <2>3. AbstractPhase(s) = "pending" /\ AbstractPhase(s)' = "done"
    BY <2>1, <2>2 DEF AbstractPhase, Fields, Outcomes
  <2>4. AbstractCall(s)' = [AbstractCall(s) EXCEPT !.phase = "done"]
    BY <2>2, <2>3 DEF AbstractCall, Fields
  <2>5. AbstractCall(s).op = "delete" /\ Content(NoFile) = NoFile
    BY <2>1 DEF AbstractCall, Sparse, Content
  <2>6. Atomic!TakeEffect(s)
    BY <1>a, <1>b, <2>1, <2>2, <2>3, <2>4, <2>5, ChangeTakesEffect DEF Fields
  <2> QED
    BY <2>6 DEF Atomic!Next
<1>15. ASSUME NEW s \in Sessions, NEW outcome \in {"ok", "lost"}, Finish(s, outcome),
              index' = index,
              IF outcome = "ok" THEN req[s].pc = "reply" ELSE req[s].pc \in Active
       PROVE  [Atomic!Next]_(Atomic!vars)
  <2>1. /\ req'[s].pc = outcome /\ Moves(s)
        /\ req'[s].op = req[s].op /\ req'[s].path = req[s].path
        /\ req'[s].new = req[s].new /\ req'[s].seen = req[s].seen
    BY <1>15, <1>a, <1>b DEF Finish, Become, Moves, TypeOK, Request
  <2>2. AbstractCall(s)' = [AbstractCall(s) EXCEPT !.phase = AbstractPhase(s)']
    BY <2>1 DEF AbstractCall
  <2>3. CASE req[s].op = "get"
    <3>1. AbstractCall(s)' = AbstractCall(s)
      BY <2>1, <2>3 DEF AbstractCall, AbstractPhase
    <3> QED
      BY <1>15, <2>1, <3>1, Stutters
  <2>4. CASE req[s].op # "get" /\ outcome = "ok"
    <3>1. AbstractPhase(s) = "done" /\ AbstractPhase(s)' = "ok"
      BY <1>15, <2>1, <2>4 DEF AbstractPhase, Outcomes
    <3>2. Atomic!Reply(s)
      BY <1>15, <2>1, <2>2, <3>1, Replies
    <3> QED
      BY <3>2 DEF Atomic!Next
  <2>5. CASE req[s].op # "get" /\ outcome = "lost"
    <3>1. AbstractPhase(s) \in {"pending", "done"} /\ AbstractPhase(s)' = "failed"
      BY <1>15, <2>1, <2>5 DEF AbstractPhase, Outcomes, Active, ReadSteps, WriteSteps
    <3>2. Atomic!Fail(s)
      BY <1>15, <2>1, <2>2, <3>1, Fails
    <3> QED
      BY <3>2 DEF Atomic!Next
  <2> QED
    BY <2>3, <2>4, <2>5
<1>16. CASE UNCHANGED vars
  <2>1. UNCHANGED Atomic!vars
    BY <1>16 DEF vars, Atomic!vars, AbstractCall, AbstractPhase
  <2> QED
    BY <2>1
<1>17. ASSUME NEW s \in Sessions, SessionStep(s) PROVE [Atomic!Next]_(Atomic!vars)
  <2>1. ASSUME Reply(s) PROVE [Atomic!Next]_(Atomic!vars)
    BY <1>15, <2>1 DEF Reply, At
  <2>2. ASSUME Abort(s) PROVE [Atomic!Next]_(Atomic!vars)
    BY <1>15, <2>2 DEF Abort
  <2>3. ASSUME Invoke(s) PROVE Atomic!Next
    BY <1>1, <2>3 DEF Atomic!Next
  <2> QED
    BY <1>2, <1>3, <1>4, <1>5, <1>6, <1>7, <1>8, <1>9, <1>10, <1>11, <1>12,
       <1>13, <1>14, <1>17, <2>1, <2>2, <2>3 DEF SessionStep
<1> QED
  BY <1>16, <1>17 DEF Next

\* The QUIC operations of the server implement the atomic store.
THEOREM Refinement == Spec => ImplementsAtomicFiles
<1>1. Init => Atomic!Init
  BY InitRefines
<1>2. IInv /\ [Next]_vars => [Atomic!Next]_(Atomic!vars)
  BY NextRefines
<1> QED
  BY <1>1, <1>2, Invariance, PTL DEF Spec, ImplementsAtomicFiles, Atomic!Spec

-----------------------------------------------------------------------------
(* What a power failure can take.  has_block sees a name as soon as it is   *)
(* renamed into place, so a request may index a block whose directory       *)
(* another one has still to fsync.  Nor does any request fsync blocks_dir:  *)
(* a block in a prefix directory made in this run never becomes durable, so *)
(* the facts below are about the directories that were there before.        *)

\* The blocks that s has renamed and whose directories it will fsync.
Syncing(s) == IF req[s].pc \in {"rename", "sync"} THEN req[s].made ELSE {}

AllSyncing == UNION {Syncing(s) : s \in Sessions}

\* The blocks that are not durable although their prefix directory is, and that
\* nobody will fsync.
Forgotten == {b \in present \ durable : Prefix[b] \in Rooted} \ AllSyncing

\* The request of s ends between a rename and the fsync.
CutOff(s) == Abort(s) /\ Syncing(s) # {}

\* In a prefix directory that is on disk, a name gets stuck short of the disk
\* only when the request that renamed it is cut off before its fsync: neither
\* requests that skip the block, nor those that rename it again, nor a fsync of
\* others leave one behind.
OnlyCutOffsForget ==
  [][\A b \in Forgotten' \ Forgotten :
       \E s \in Sessions : CutOff(s) /\ b \in Syncing(s)]_vars

\* Every block of an indexed version is durable, or a request in hand is about
\* to make it so, or it lies in a prefix directory made in this run.
IndexedIsDurableSoon ==
  \A p \in Paths : index[p] # NoFile =>
    \A b \in BlocksOf(index[p]) :
      Prefix[b] \in Rooted => b \in durable \cup AllSyncing

\* A step of s that leaves present, durable and its own fsyncs alone forgets
\* nothing.
LEMMA KeepsForgotten ==
  ASSUME NEW s \in Sessions, Moves(s),
         UNCHANGED <<present, durable>>, Syncing(s) \subseteq Syncing(s)'
  PROVE  Forgotten' \subseteq Forgotten
<1>1. ASSUME NEW t \in Sessions PROVE Syncing(t) \subseteq Syncing(t)'
  BY <1>1 DEF Moves, Syncing
<1> QED
  BY <1>1 DEF Forgotten, AllSyncing

\* What one step can leave behind.
LEMMA NextForgets ==
  TypeOK /\ [Next]_vars
    => \A b \in Forgotten' \ Forgotten :
         \E s \in Sessions : CutOff(s) /\ b \in Syncing(s)
<1> SUFFICES ASSUME TypeOK, [Next]_vars
             PROVE  \A b \in Forgotten' \ Forgotten :
                      \E s \in Sessions : CutOff(s) /\ b \in Syncing(s)
  OBVIOUS
<1>1. CASE UNCHANGED vars
  BY <1>1 DEF vars, Forgotten, AllSyncing, Syncing
<1>2. ASSUME NEW s \in Sessions, SessionStep(s)
      PROVE  \A b \in Forgotten' \ Forgotten :
               \E t \in Sessions : CutOff(t) /\ b \in Syncing(t)
  <2>1. Moves(s)
    <3>1. ASSUME NEW r, Become(s, r) PROVE Moves(s)
      BY <3>1 DEF Become, Moves, TypeOK
    <3>2. \E r : Become(s, r)
      BY <1>2, Zenon DEF SessionStep, Invoke, StatBase, Handshake, StatFile,
         ListBlocks, FetchBlocks, CheckBase, PickMissing, RenameBlock, SyncDirs,
         ResolveRefs, Ingest, SetEmbedding, DeleteFile, Reply, Abort,
         SendDiff, Goto, Finish
    <3> QED
      BY <3>1, <3>2
  <2>2. CASE RenameBlock(s)
    <3>1. PICK b \in req[s].todo :
             /\ present' = present \cup {b} /\ durable' = durable
             /\ Become(s, [req[s] EXCEPT
                  !.todo = @ \ {b}, !.made = @ \cup {b},
                  !.pc = IF req[s].todo = {b} THEN "sync" ELSE "rename"])
      BY <2>2, Zenon DEF RenameBlock
    <3>2. Syncing(s)' = Syncing(s) \cup {b}
      <4>1. /\ req'[s].made = req[s].made \cup {b}
            /\ req'[s].pc \in {"rename", "sync"} /\ req[s].pc = "rename"
        <5>1. req[s].pc = "rename"
          BY <2>2 DEF RenameBlock, At
        <5>2. req \in [Sessions -> Request]
          BY DEF TypeOK
        <5> QED
          BY <3>1, <5>1, <5>2 DEF Become, Request
      <4> QED
        BY <4>1 DEF Syncing
    <3>3. ASSUME NEW t \in Sessions PROVE Syncing(t) \subseteq Syncing(t)'
      BY <2>1, <3>2 DEF Moves, Syncing
    <3>4. AllSyncing \cup {b} \subseteq AllSyncing'
      BY <3>2, <3>3 DEF AllSyncing
    <3> QED
      BY <3>1, <3>4 DEF Forgotten
  <2>3. CASE SyncDirs(s)
    <3>1. /\ present' = present /\ durable \subseteq durable'
          /\ \A b \in req[s].made \cap present : Prefix[b] \in Rooted => b \in durable'
      BY <2>3 DEF SyncDirs
    <3>2. AllSyncing \subseteq AllSyncing' \cup req[s].made
      BY <2>1 DEF AllSyncing, Moves, Syncing
    <3> QED
      BY <3>1, <3>2 DEF Forgotten
  <2>4. CASE Abort(s)
    <3>1. UNCHANGED <<present, durable>>
      BY <2>4 DEF Abort
    <3>2. AllSyncing \subseteq AllSyncing' \cup Syncing(s)
      BY <2>1 DEF AllSyncing, Moves, Syncing
    <3> QED
      BY <2>4, <3>1, <3>2 DEF Forgotten, CutOff
  <2>5. CASE ~RenameBlock(s) /\ ~SyncDirs(s) /\ ~Abort(s)
    <3> DEFINE Elsewhere == /\ UNCHANGED <<present, durable>>
                            /\ req[s].pc \notin {"rename", "sync"}
    <3>1. Invoke(s) => Elsewhere
      BY DEF Invoke, At, Outcomes
    <3>2. StatBase(s) => Elsewhere
      BY DEF StatBase, At
    <3>3. Handshake(s) => Elsewhere
      BY DEF Handshake, At
    <3>4. StatFile(s) => Elsewhere
      BY DEF StatFile, At
    <3>5. ListBlocks(s) => Elsewhere
      BY DEF ListBlocks, At
    <3>6. FetchBlocks(s) => Elsewhere
      BY DEF FetchBlocks, At
    <3>7. CheckBase(s) => Elsewhere
      BY DEF CheckBase, At
    <3>8. PickMissing(s) => Elsewhere
      BY DEF PickMissing, At
    <3>9. ResolveRefs(s) => Elsewhere
      BY DEF ResolveRefs, At
    <3>10. Ingest(s) => Elsewhere
      BY DEF Ingest, At
    <3>11. SetEmbedding(s) => Elsewhere
      BY DEF SetEmbedding, At
    <3>12. DeleteFile(s) => Elsewhere
      BY DEF DeleteFile, At
    <3>13. Reply(s) => Elsewhere
      BY DEF Reply, At
    <3>14. Elsewhere
      BY <1>2, <2>5, <3>1, <3>2, <3>3, <3>4, <3>5, <3>6, <3>7, <3>8, <3>9,
         <3>10, <3>11, <3>12, <3>13 DEF SessionStep
    <3>15. Syncing(s) \subseteq Syncing(s)'
      BY <3>14 DEF Syncing
    <3> QED
      BY <2>1, <3>14, <3>15, KeepsForgotten
  <2> QED
    BY <2>2, <2>3, <2>4, <2>5
<1> QED
  BY <1>1, <1>2 DEF Next

\* A name that is not durable, in a prefix directory that is, is in the hands of
\* a request that will fsync it, or was in those of one that was cut off before.
THEOREM OnlyCutOffsLeaveNames == Spec => OnlyCutOffsForget
<1>1. TypeOK /\ [Next]_vars
        => [\A b \in Forgotten' \ Forgotten :
              \E s \in Sessions : CutOff(s) /\ b \in Syncing(s)]_vars
  BY NextForgets
<1> QED
  BY <1>1, TypeCorrect, PTL DEF Spec, OnlyCutOffsForget

\* As long as no request is cut off between a rename and the fsync, a power
\* failure takes a block of an indexed file only while some request, not always
\* the one that indexed the file, is about to fsync it, or with the whole prefix
\* directory, which this run made and blocks_dir was never fsynced for.
THEOREM UncutIsDurableSoon ==
  Spec /\ [][\A s \in Sessions : ~CutOff(s)]_vars => []IndexedIsDurableSoon
<1> DEFINE Kept == Forgotten = {}
           Uncut == \A s \in Sessions : ~CutOff(s)
<1>1. Init => Kept
  BY DEF Init, Forgotten
<1>2. TypeOK /\ Kept /\ [Next]_vars /\ [Uncut]_vars => Kept'
  <2>1. ASSUME UNCHANGED vars PROVE Forgotten' = Forgotten
    BY <2>1 DEF vars, Forgotten, AllSyncing, Syncing
  <2> QED
    BY <2>1, NextForgets
<1>3. IndexedBlocksPresent /\ Kept => IndexedIsDurableSoon
  BY DEF IndexedBlocksPresent, IndexedIsDurableSoon, Forgotten
<1> HIDE DEF Kept, Uncut
<1>4. Spec /\ [][Uncut]_vars => []Kept
  BY <1>1, <1>2, TypeCorrect, PTL DEF Spec
<1>5. Spec /\ [][Uncut]_vars => []IndexedIsDurableSoon
  BY <1>3, <1>4, IndexSound, PTL
<1> QED
  BY <1>5 DEF Uncut
=============================================================================
