------------------------- MODULE FeedConsumerProofs -------------------------
(***************************************************************************)
(* Machine-checked theorems about the consumer checkpoint: whatever        *)
(* workers, appenders, crashes, repeated calls and lost answers do, there  *)
(* is one checkpoint, it only moves forward, and while the index orders    *)
(* the journal as it was committed no transaction is skipped.              *)
(***************************************************************************)
EXTENDS FeedConsumer, TriplesProofs, FiniteSetTheorems, WellFoundedInduction

USE Sentinel, BoundAssumption

-----------------------------------------------------------------------------
(***************************************************************************)
(* The inductive invariant.  The committed facts of the checkpoint are     *)
(* none, or one live name and one live position, every older position      *)
(* being retracted and no greater.  The transaction of a worker passes     *)
(* through a half state, without a live position, that only its buffer     *)
(* shows; any other transaction leaves the checkpoint alone.               *)
(***************************************************************************)
CheckpointIds(d) == {i \in Ids(d) : d[i].entity = CheckpointEntity}

SameCheckpoint(d, e) == /\ CheckpointIds(e) = CheckpointIds(d)
                        /\ \A i \in CheckpointIds(d) : e[i] = d[i]

NameFact(datom) == Live(datom) /\ datom.attribute = NameAttribute

AtMost(datom, v) ==
    /\ datom.attribute = PositionAttribute
    /\ \E x \in 0..MaxPosition : datom.value = Number(x) /\ x <= v

Moved(datom, v) == ~ Live(datom) /\ AtMost(datom, v)

Half(d, v) ==
    \E m \in CheckpointIds(d) :
        NameFact(d[m]) /\ \A i \in CheckpointIds(d) \ {m} : Moved(d[i], v)

WholeAt(d, v) ==
    \E m, q \in CheckpointIds(d) :
        /\ m # q /\ NameFact(d[m])
        /\ Live(d[q]) /\ d[q].attribute = PositionAttribute /\ d[q].value = Number(v)
        /\ \A i \in CheckpointIds(d) \ {m, q} : Moved(d[i], v)

CheckpointSound ==
    /\ store.receipts[InitCommand] = None => CheckpointIds(store.datoms) = {}
    /\ \/ CheckpointIds(store.datoms) = {}
       \/ \E v \in 0..MaxPosition : WholeAt(store.datoms, v)

InitReq(n) ==
    transactSystemUnjournaled(<<assertName, assertPosition(n)>>, InitCommand, {})

MoveReq(k, n) ==
    transactSystemUnjournaled(<<[op |-> "retract", id |-> k], assertPosition(n)>>, None, {k})

\* A transaction that moves the checkpoint to n, and how far it came.
MovesTo(n) ==
    /\ \/ tx.req = InitReq(n)
       \/ \E k \in CheckpointIds(store.datoms) :
             AtMost(store.datoms[k], n) /\ tx.req = MoveReq(k, n)
    /\ tx.done = 0 => buffer.datoms = store.datoms
    /\ tx.done = 1 => Half(buffer.datoms, n)
    /\ tx.done = 2 => WholeAt(buffer.datoms, n)

\* Requests of the other clients.
LeavesCheckpoint(req) ==
    \A k \in DOMAIN req.ops :
        /\ req.ops[k].op = "assert" => req.ops[k].entity # CheckpointEntity
        /\ req.system /\ req.ops[k].op = "retract-pattern" =>
              req.ops[k].entity \notin {CheckpointEntity, None}
        /\ req.system => req.ops[k].op # "retract"

CheckpointRuns ==
    tx # NoTx =>
        IF tx.client \in Workers
        THEN \E n \in 0..MaxPosition : MovesTo(n)
        ELSE LeavesCheckpoint(tx.req) /\ SameCheckpoint(store.datoms, buffer.datoms)

Reached(n) == \E p \in Checkpoints : p >= n

Jobs == [ phase : {"idle", "range", "meta", "feed", "latest", "init", "update",
                   "initWait", "updateWait"},
          purpose : {"get", "first", "winner", "final", None},
          expected : 0..MaxPosition, next : 0..MaxPosition, ids : SUBSET TripleIds,
          known : TripleIds \cup {None}, answer : Answers ]

(***************************************************************************)
(* What a worker knows: the movement it asks for goes forward, the fact it *)
(* read is a position no greater than the one it asks for, and it reports  *)
(* a movement only when the checkpoint got there.                          *)
(***************************************************************************)
JobSound(j) ==
    /\ j.phase = "meta" => j.ids \subseteq CheckpointIds(store.datoms)
    /\ j.phase \in {"range", "meta"} => j.purpose # None
    /\ j.phase = "feed" => j.purpose = "get" /\ j.ids \subseteq RecordIds(store.datoms)
    /\ j.phase # "idle" => j.answer = None
    /\ j.phase \in {"init", "update", "initWait", "updateWait"} => j.purpose = "first"
    /\ j.purpose = "first" => j.next >= j.expected
    /\ j.phase \in {"update", "updateWait"} =>
          j.known \in CheckpointIds(store.datoms) /\ AtMost(store.datoms[j.known], j.next)
    /\ j.purpose = "final" \/ j.answer = "Moved" => Reached(j.next)

\* A worker that waits: its transaction runs, or has answered.
WaitSound(w) ==
    job[w].phase \in {"initWait", "updateWait"} =>
        /\ result[w] = "Committed" => Reached(job[w].next)
        /\ tx # NoTx /\ tx.client = w =>
              /\ result[w] = None
              /\ tx.req = IF job[w].phase = "initWait" THEN InitRequest(w) ELSE MoveRequest(w)

CheckpointInv ==
    /\ IInv /\ CheckpointSound /\ CheckpointRuns
    /\ job \in [Workers -> Jobs]
    /\ \A w \in Workers : JobSound(job[w]) /\ WaitSound(w)

-----------------------------------------------------------------------------
(* What the checkpoint's facts say. *)

LiveFactsOf(d, attribute) ==
    {i \in LiveIds(d) : d[i].entity = CheckpointEntity /\ d[i].attribute = attribute}

\* A whole checkpoint has one name and one position.
LEMMA WholeFacts ==
    ASSUME NEW d, NEW v, WholeAt(d, v)
    PROVE  /\ \E m : LiveFactsOf(d, NameAttribute) = {m}
           /\ \E q : LiveFactsOf(d, PositionAttribute) = {q}
           /\ {d[i].value.value : i \in LiveFactsOf(d, PositionAttribute)} = {v}
<1>1. PICK m \in CheckpointIds(d), q \in CheckpointIds(d) :
         /\ m # q /\ NameFact(d[m])
         /\ Live(d[q]) /\ d[q].attribute = PositionAttribute /\ d[q].value = Number(v)
         /\ \A i \in CheckpointIds(d) \ {m, q} : Moved(d[i], v)
  BY DEF WholeAt
<1>2. NameAttribute # PositionAttribute
  BY ConsumerAssumption
<1>3. /\ m \in LiveIds(d) /\ d[m].entity = CheckpointEntity /\ d[m].attribute = NameAttribute
      /\ q \in LiveIds(d) /\ d[q].entity = CheckpointEntity
  BY <1>1 DEF CheckpointIds, NameFact, LiveIds
<1>4. \A i \in LiveIds(d) : d[i].entity = CheckpointEntity => i \in {m, q}
  BY <1>1 DEF CheckpointIds, LiveIds, Moved
<1>5. LiveFactsOf(d, NameAttribute) = {m}
  BY <1>1, <1>2, <1>3, <1>4 DEF LiveFactsOf
<1>6. LiveFactsOf(d, PositionAttribute) = {q}
  BY <1>1, <1>2, <1>3, <1>4 DEF LiveFactsOf
<1>7. d[q].value.value = v
  BY <1>1 DEF Number
<1>8. QED
  BY <1>5, <1>6, <1>7

LEMMA WholeValue ==
    ASSUME NEW v, WholeAt(store.datoms, v)
    PROVE  Checkpoints = {v}
BY WholeFacts DEF Checkpoints, CheckpointFacts, LiveFactsOf

\* No checkpoint, no fact of it.
LEMMA NoFacts ==
    ASSUME CheckpointIds(store.datoms) = {}
    PROVE  /\ CheckpointFacts(NameAttribute) = {} /\ CheckpointFacts(PositionAttribute) = {}
           /\ Checkpoints = {}
<1>1. \A a : CheckpointFacts(a) = {}
  BY DEF CheckpointFacts, CheckpointIds, LiveIds
<1>2. QED
  BY <1>1 DEF Checkpoints

\* Every position fact of the checkpoint, live or not, was reached.
LEMMA PositionsReached ==
    ASSUME CheckpointSound, NEW i \in CheckpointIds(store.datoms),
           store.datoms[i].attribute = PositionAttribute
    PROVE  \E x \in 0..MaxPosition : store.datoms[i].value = Number(x) /\ Reached(x)
<1> DEFINE d == store.datoms
<1>1. PICK v \in 0..MaxPosition : WholeAt(d, v)
  BY DEF CheckpointSound
<1>2. Checkpoints = {v}
  BY <1>1, WholeValue
<1>3. PICK m \in CheckpointIds(d), q \in CheckpointIds(d) :
         /\ m # q /\ NameFact(d[m])
         /\ Live(d[q]) /\ d[q].attribute = PositionAttribute /\ d[q].value = Number(v)
         /\ \A j \in CheckpointIds(d) \ {m, q} : Moved(d[j], v)
  BY <1>1 DEF WholeAt
<1>4. i # m
  BY <1>3, ConsumerAssumption DEF NameFact
<1>5. CASE i = q
  BY <1>2, <1>3, <1>5 DEF Reached
<1>6. CASE i # q
  <2>1. PICK x \in 0..MaxPosition : d[i].value = Number(x) /\ x <= v
    BY <1>3, <1>4, <1>6 DEF Moved, AtMost
  <2>2. QED
    BY <1>2, <2>1 DEF Reached
<1>7. QED
  BY <1>5, <1>6

\* The live position fact of a whole checkpoint is the one position.
LEMMA MoveMakesHalf ==
    ASSUME NEW d, NEW e, NEW v \in 0..MaxPosition, NEW n \in 0..MaxPosition, WholeAt(d, v),
           NEW k \in CheckpointIds(d), Live(d[k]), AtMost(d[k], n),
           CheckpointIds(e) = CheckpointIds(d),
           \A i \in CheckpointIds(d) \ {k} : e[i] = d[i],
           ~ Live(e[k]), e[k].attribute = d[k].attribute, e[k].value = d[k].value
    PROVE  Half(e, n)
<1>1. PICK m \in CheckpointIds(d), q \in CheckpointIds(d) :
         /\ m # q /\ NameFact(d[m])
         /\ Live(d[q]) /\ d[q].attribute = PositionAttribute /\ d[q].value = Number(v)
         /\ \A i \in CheckpointIds(d) \ {m, q} : Moved(d[i], v)
  BY DEF WholeAt
<1>2. k # m
  BY <1>1, ConsumerAssumption DEF NameFact, AtMost
<1>3. k = q
  BY <1>1, <1>2 DEF Moved
<1>4. v <= n
  BY <1>1, <1>3 DEF AtMost, Number
<1>5. \A i \in CheckpointIds(d) : Moved(d[i], v) => Moved(d[i], n)
  BY <1>4 DEF Moved, AtMost
<1>6. Moved(e[k], n)
  BY <1>1 DEF Moved, AtMost
<1>7. QED
  BY <1>1, <1>2, <1>3, <1>5, <1>6 DEF Half

\* A new live position completes the checkpoint.
LEMMA HalfMakesWhole ==
    ASSUME NEW d, NEW e, NEW n \in 0..MaxPosition, Half(d, n), NEW f, f \notin CheckpointIds(d),
           CheckpointIds(e) = CheckpointIds(d) \cup {f}, \A i \in CheckpointIds(d) : e[i] = d[i],
           Live(e[f]), e[f].attribute = PositionAttribute, e[f].value = Number(n)
    PROVE  WholeAt(e, n)
<1>1. PICK m \in CheckpointIds(d) :
         NameFact(d[m]) /\ \A i \in CheckpointIds(d) \ {m} : Moved(d[i], n)
  BY DEF Half
<1>2. m # f /\ m \in CheckpointIds(e) /\ f \in CheckpointIds(e) /\ NameFact(e[m])
  BY <1>1
<1>3. \A i \in CheckpointIds(e) \ {m, f} : Moved(e[i], n)
  BY <1>1
<1>4. QED
  BY <1>2, <1>3 DEF WholeAt

\* The same facts make the same checkpoint.
LEMMA SameWhole ==
    ASSUME NEW d, NEW e, SameCheckpoint(d, e), NEW v, WholeAt(d, v)
    PROVE  WholeAt(e, v)
<1>1. PICK m \in CheckpointIds(d), q \in CheckpointIds(d) :
         /\ m # q /\ NameFact(d[m])
         /\ Live(d[q]) /\ d[q].attribute = PositionAttribute /\ d[q].value = Number(v)
         /\ \A i \in CheckpointIds(d) \ {m, q} : Moved(d[i], v)
  BY DEF WholeAt
<1>2. QED
  BY <1>1 DEF SameCheckpoint, WholeAt

-----------------------------------------------------------------------------
(* The transactions of the workers. *)

LEMMA WorkerRequests ==
    ASSUME NEW n \in 0..MaxPosition
    PROVE  /\ InitReq(n) \in Request /\ NoJournalWrites(InitReq(n))
           /\ InitReq(n).ops = <<assertName, assertPosition(n)>>
           /\ InitReq(n).command = InitCommand /\ ~ InitReq(n).journaled
           /\ \A k \in TripleIds :
                 /\ MoveReq(k, n) \in Request /\ NoJournalWrites(MoveReq(k, n))
                 /\ MoveReq(k, n).ops = <<[op |-> "retract", id |-> k], assertPosition(n)>>
                 /\ MoveReq(k, n).live = {k} /\ MoveReq(k, n).command = None
                 /\ ~ MoveReq(k, n).journaled /\ MoveReq(k, n).system
<1> DEFINE Ops == AssertOps \cup RetractOps \cup PatternOps
<1>1. /\ assertName \in AssertOps /\ assertPosition(n) \in AssertOps
      /\ assertName.op = "assert" /\ assertPosition(n).op = "assert"
      /\ assertName.entityType = CheckpointType /\ assertPosition(n).entityType = CheckpointType
  BY ConsumerAssumption, NamespaceAssumption DEF assertName, assertPosition, AssertOps
<1>2. /\ InitCommand \in CommandIds /\ CheckpointType # TransactionType
  BY ConsumerAssumption
<1>3. <<assertName, assertPosition(n)>> \in Seq(Ops)
  <2>1. assertName \in Ops /\ assertPosition(n) \in Ops
    BY <1>1
  <2> HIDE DEF Ops
  <2>2. QED
    BY <2>1
<1>4. /\ InitReq(n) \in Request
      /\ InitReq(n).ops = <<assertName, assertPosition(n)>>
      /\ InitReq(n).command = InitCommand /\ ~ InitReq(n).journaled
  BY <1>2, <1>3 DEF InitReq, transactSystemUnjournaled, Request
<1>5. NoJournalWrites(InitReq(n))
  BY <1>1, <1>2, <1>4 DEF NoJournalWrites, AssertIndices
<1>6. ASSUME NEW k \in TripleIds
      PROVE  /\ MoveReq(k, n) \in Request /\ NoJournalWrites(MoveReq(k, n))
             /\ MoveReq(k, n).ops = <<[op |-> "retract", id |-> k], assertPosition(n)>>
             /\ MoveReq(k, n).live = {k} /\ MoveReq(k, n).command = None
             /\ ~ MoveReq(k, n).journaled /\ MoveReq(k, n).system
  <2> DEFINE r == [op |-> "retract", id |-> k]
  <2>1. r \in RetractOps /\ r.op = "retract"
    BY DEF RetractOps
  <2> HIDE DEF r
  <2>2. <<r, assertPosition(n)>> \in Seq(Ops)
    <3>1. r \in Ops /\ assertPosition(n) \in Ops
      BY <1>1, <2>1
    <3> HIDE DEF Ops
    <3>2. QED
      BY <3>1
  <2>3. /\ MoveReq(k, n) \in Request
        /\ MoveReq(k, n).ops = <<r, assertPosition(n)>>
        /\ MoveReq(k, n).live = {k} /\ MoveReq(k, n).command = None
        /\ ~ MoveReq(k, n).journaled /\ MoveReq(k, n).system
    BY <2>2 DEF MoveReq, transactSystemUnjournaled, Request, r
  <2>4. NoJournalWrites(MoveReq(k, n))
    BY <1>1, <1>2, <2>1, <2>3 DEF NoJournalWrites, AssertIndices
  <2>5. QED
    BY <2>3, <2>4 DEF r
<1>7. QED
  BY <1>4, <1>5, <1>6

\* A worker's request has two operations; the second asserts the position.
LEMMA WorkerOps ==
    ASSUME IInv, tx # NoTx, NEW n \in 0..MaxPosition, MovesTo(n)
    PROVE  /\ Len(tx.req.ops) = 2 /\ tx.done \in 0..2 /\ ~ tx.req.journaled
           /\ tx.done = 1 => Op = assertPosition(n)
           /\ tx.done = 0 =>
                \/ tx.req = InitReq(n) /\ Op = assertName
                \/ \E k \in CheckpointIds(store.datoms) :
                      /\ tx.req = MoveReq(k, n) /\ AtMost(store.datoms[k], n)
                      /\ Op = [op |-> "retract", id |-> k] /\ tx.req.live = {k}
<1>1. tx.done \in Nat /\ tx.done <= Len(tx.req.ops)
  BY TransactionParts DEF IInv, TypeOK
<1>2. CASE tx.req = InitReq(n)
  <2>1. tx.req.ops = <<assertName, assertPosition(n)>> /\ ~ tx.req.journaled
    BY <1>2, WorkerRequests
  <2>2. QED
    BY <1>1, <1>2, <2>1 DEF Op
<1>3. ASSUME NEW k \in CheckpointIds(store.datoms), AtMost(store.datoms[k], n),
             tx.req = MoveReq(k, n)
      PROVE  /\ Len(tx.req.ops) = 2 /\ tx.done \in 0..2 /\ ~ tx.req.journaled
             /\ tx.done = 1 => Op = assertPosition(n)
             /\ tx.done = 0 => Op = [op |-> "retract", id |-> k] /\ tx.req.live = {k}
  <2>1. k \in TripleIds
    BY DEF CheckpointIds, Ids
  <2>2. /\ tx.req.ops = <<[op |-> "retract", id |-> k], assertPosition(n)>>
        /\ tx.req.live = {k} /\ ~ tx.req.journaled
    BY <1>3, <2>1, WorkerRequests
  <2>3. QED
    BY <1>1, <2>2 DEF Op
<1>4. CASE \E k \in CheckpointIds(store.datoms) : AtMost(store.datoms[k], n) /\ tx.req = MoveReq(k, n)
  <2>1. PICK k \in CheckpointIds(store.datoms) : AtMost(store.datoms[k], n) /\ tx.req = MoveReq(k, n)
    BY <1>4
  <2>2. QED
    BY <1>3, <2>1
<1>5. QED
  BY <1>2, <1>4 DEF MovesTo

\* An assertion on the checkpoint's entity.
LEMMA AssertOnCheckpoint ==
    ASSUME IInv, ApplyAssert, Op.entity = CheckpointEntity
    PROVE  \E f : /\ f \notin CheckpointIds(buffer.datoms)
                  /\ CheckpointIds(buffer'.datoms) = CheckpointIds(buffer.datoms) \cup {f}
                  /\ \A i \in CheckpointIds(buffer.datoms) : buffer'.datoms[i] = buffer.datoms[i]
                  /\ Live(buffer'.datoms[f]) /\ buffer'.datoms[f].attribute = Op.attribute
                  /\ buffer'.datoms[f].value = Op.value
<1> DEFINE d == buffer.datoms
           e == buffer'.datoms
<1>1. PICK f \in TripleIds :
         /\ f \notin Ids(d) /\ Ids(e) = Ids(d) \cup {f}
         /\ \A i \in Ids(d) : e[i] = d[i]
         /\ AssertedBy(Op, e[f]) /\ Live(e[f])
  BY AssertAdds
<1>2. e[f].entity = CheckpointEntity /\ e[f].attribute = Op.attribute /\ e[f].value = Op.value
  BY <1>1 DEF AssertedBy
<1> HIDE DEF d, e
<1>3. f \notin CheckpointIds(d) /\ CheckpointIds(e) = CheckpointIds(d) \cup {f}
      /\ \A i \in CheckpointIds(d) : e[i] = d[i]
  BY <1>1, <1>2 DEF CheckpointIds
<1>4. QED
  BY <1>1, <1>2, <1>3 DEF d, e

\* One operation of a worker's transaction.
LEMMA MoveApplies ==
    ASSUME IInv, CheckpointSound, tx # NoTx, NEW n \in 0..MaxPosition, MovesTo(n),
           ApplyAssert \/ ApplyRetract \/ ApplyRetractPattern
    PROVE  MovesTo(n)' /\ tx'.client = tx.client /\ store' = store
<1> DEFINE d == buffer.datoms
           e == buffer'.datoms
<1>1. /\ Len(tx.req.ops) = 2 /\ tx.done \in 0..2 /\ tx.done < Len(tx.req.ops)
      /\ tx.done = 1 => Op = assertPosition(n)
      /\ tx.done = 0 =>
           \/ tx.req = InitReq(n) /\ Op = assertName
           \/ \E k \in CheckpointIds(store.datoms) :
                 /\ tx.req = MoveReq(k, n) /\ AtMost(store.datoms[k], n)
                 /\ Op = [op |-> "retract", id |-> k] /\ tx.req.live = {k}
  BY WorkerOps DEF ApplyAssert, ApplyRetract, ApplyRetractPattern, Running
<1>2. ASSUME store' = store, tx'.req = tx.req, tx'.done = tx.done + 1,
             tx.done = 0 => Half(e, n), tx.done = 1 => WholeAt(e, n)
      PROVE  MovesTo(n)'
  BY <1>1, <1>2 DEF MovesTo
<1>3. IInv'
  BY ApplyAssertIInv, ApplyRetractIInv
<1>4. CASE tx.done = 1
  <2>1. ApplyAssert /\ Op.entity = CheckpointEntity /\ Op.attribute = PositionAttribute
        /\ Op.value = Number(n)
    BY <1>1, <1>4 DEF ApplyAssert, ApplyRetract, ApplyRetractPattern, Running, assertPosition
  <2>2. Half(d, n)
    BY <1>4 DEF MovesTo
  <2>3. WholeAt(e, n)
    BY <2>1, <2>2, AssertOnCheckpoint, HalfMakesWhole
  <2>4. QED
    BY <1>2, <1>4, <2>1, <2>3, AssertAdds
<1>5. CASE tx.done = 0 /\ tx.req = InitReq(n) /\ Op = assertName
  <2>1. ApplyAssert /\ Op.entity = CheckpointEntity /\ Op.attribute = NameAttribute
    BY <1>5 DEF ApplyAssert, ApplyRetract, ApplyRetractPattern, Running, assertName, assertPosition
  <2>2. CheckpointIds(d) = {}
    <3>1. tx.req.command = InitCommand /\ InitCommand \in CommandIds
      BY <1>5, WorkerRequests, ConsumerAssumption
    <3>2. store.receipts[InitCommand] = None
      BY <3>1 DEF IInv, BufferSound
    <3>3. QED
      BY <1>5, <3>2 DEF CheckpointSound, MovesTo
  <2>3. PICK f : CheckpointIds(e) = {f} /\ Live(e[f]) /\ e[f].attribute = NameAttribute
    BY <2>1, <2>2, AssertOnCheckpoint
  <2>4. Half(e, n)
    BY <2>3 DEF Half, NameFact
  <2>5. QED
    BY <1>2, <1>5, <2>1, <2>4, AssertAdds
<1>6. ASSUME tx.done = 0, NEW k \in CheckpointIds(store.datoms), tx.req = MoveReq(k, n),
             AtMost(store.datoms[k], n), Op = [op |-> "retract", id |-> k], tx.req.live = {k}
      PROVE  MovesTo(n)' /\ tx'.client = tx.client /\ store' = store
  <2>1. d = store.datoms
    BY <1>6 DEF MovesTo
  <2>2. ApplyRetract /\ Op.id = k /\ Running("retract")
    BY <1>6 DEF ApplyAssert, ApplyRetract, ApplyRetractPattern, Running
  <2>3. k \in LiveIds(d)
    <3>1. RetractFailure = None
      BY <2>2 DEF ApplyRetract
    <3>2. QED
      BY <1>6, <2>2, <3>1 DEF RetractFailure, Tags
  <2>4. Proceed(Retracted({k}), {"retract"} \X {k})
    <3>1. {Op.id} \cap LiveIds(buffer.datoms) = {k}
      BY <2>2, <2>3
    <3>2. QED
      BY <2>2, <3>1 DEF ApplyRetract
  <2>5. /\ tx'.client = tx.client /\ store' = store /\ tx'.req = tx.req /\ tx'.done = tx.done + 1
        /\ Ids(e) = Ids(d) /\ \A i \in TripleIds \ {k} : e[i] = d[i]
        /\ ~ Live(e[k]) /\ e[k].entity = d[k].entity
        /\ e[k].attribute = d[k].attribute /\ e[k].value = d[k].value
    BY <2>2, <2>3, <2>4, RetractMarks
  <2> HIDE DEF d, e
  <2>6. CheckpointIds(e) = CheckpointIds(d) /\ \A i \in CheckpointIds(d) \ {k} : e[i] = d[i]
    BY <2>5 DEF CheckpointIds, Ids
  <2>7. PICK v \in 0..MaxPosition : WholeAt(d, v)
    BY <1>6, <2>1 DEF CheckpointSound
  <2>8. Half(e, n)
    BY <1>6, <2>1, <2>3, <2>5, <2>6, <2>7, MoveMakesHalf DEF LiveIds
  <2>9. QED
    BY <1>2, <1>6, <2>5, <2>8 DEF e
<1>7. QED
  BY <1>1, <1>4, <1>5, <1>6

-----------------------------------------------------------------------------
(* The transactions of everyone else. *)

LEMMA OtherApplies ==
    ASSUME IInv, tx # NoTx, LeavesCheckpoint(tx.req), SameCheckpoint(store.datoms, buffer.datoms),
           ApplyAssert \/ ApplyRetract \/ ApplyRetractPattern
    PROVE  /\ SameCheckpoint(store'.datoms, buffer'.datoms)
           /\ store' = store /\ tx'.req = tx.req /\ tx'.client = tx.client
<1> DEFINE d == buffer.datoms
           e == buffer'.datoms
           C == CheckpointIds(d)
<1>1. \A kind : Running(kind) => tx.done + 1 \in DOMAIN tx.req.ops
  <2>1. \A kind : Running(kind) => tx.done + 1 \in 1..Len(tx.req.ops)
    BY OpShape DEF IInv
  <2>2. tx.req.ops \in Seq(AssertOps \cup RetractOps \cup PatternOps)
    BY TransactionParts DEF IInv, Request
  <2>3. QED
    BY <2>1, <2>2
<1>2. \A kind : Running(kind) =>
         /\ kind = "assert" => Op.entity # CheckpointEntity
         /\ tx.req.system /\ kind = "retract-pattern" => Op.entity \notin {CheckpointEntity, None}
         /\ tx.req.system => kind # "retract"
  BY <1>1 DEF LeavesCheckpoint, Op, Running
<1>3. \A i \in C : i \in Ids(d) /\ i \in TripleIds /\ d[i].entity = CheckpointEntity
                   /\ reservedWriteError(d[i])
  BY ConsumerAssumption DEF CheckpointIds, Ids, reservedWriteError
<1>4. ASSUME SameCheckpoint(d, e), store' = store
      PROVE  SameCheckpoint(store'.datoms, e)
  BY <1>4 DEF SameCheckpoint
<1>5. CASE ApplyAssert
  <2>1. Op.entity # CheckpointEntity
    BY <1>2, <1>5 DEF ApplyAssert
  <2>2. PICK f \in TripleIds :
           /\ f \notin Ids(d) /\ Ids(e) = Ids(d) \cup {f}
           /\ \A i \in Ids(d) : e[i] = d[i]
           /\ AssertedBy(Op, e[f])
    BY <1>5, AssertAdds
  <2>3. SameCheckpoint(d, e)
    <3> HIDE DEF d, e, C
    <3>1. e[f].entity # CheckpointEntity
      BY <2>1, <2>2 DEF AssertedBy
    <3>2. QED
      BY <2>2, <3>1 DEF SameCheckpoint, CheckpointIds
  <2>4. QED
    BY <1>4, <1>5, <2>3, AssertAdds
<1>6. ASSUME NEW kind, Running(kind), NEW ids \in SUBSET LiveIds(buffer.datoms),
             Proceed(Retracted(ids), {"retract"} \X ids), ids \cap C = {}
      PROVE  /\ SameCheckpoint(store'.datoms, e)
             /\ store' = store /\ tx'.req = tx.req /\ tx'.client = tx.client
  <2>1. /\ store' = store /\ tx'.req = tx.req /\ tx'.client = tx.client
        /\ Ids(e) = Ids(d) /\ \A i \in TripleIds \ ids : e[i] = d[i]
        /\ \A i \in ids : i \in TripleIds /\ e[i].entity = d[i].entity
    BY <1>6, RetractMarks
  <2>2. SameCheckpoint(d, e)
    <3> HIDE DEF d, e
    <3>1. \A i \in Ids(d) : e[i].entity = d[i].entity
      BY <2>1 DEF Ids
    <3>2. CheckpointIds(e) = CheckpointIds(d)
      BY <2>1, <3>1 DEF CheckpointIds
    <3>3. QED
      BY <1>3, <1>6, <2>1, <3>2 DEF SameCheckpoint
  <2>3. QED
    BY <1>4, <2>1, <2>2
<1>7. CASE ApplyRetract
  <2>1. Running("retract") /\ RetractFailure = None /\ ~ tx.req.system
    BY <1>2, <1>7 DEF ApplyRetract
  <2>2. ~ (Op.id \in Ids(d) /\ reservedWriteError(d[Op.id]))
    BY <2>1 DEF RetractFailure, Tags
  <2>3. Op.id \notin C
    BY <1>3, <2>2
  <2> DEFINE ids == {Op.id} \cap LiveIds(buffer.datoms)
  <2>4. ids \in SUBSET LiveIds(buffer.datoms) /\ ids \cap C = {}
        /\ Proceed(Retracted(ids), {"retract"} \X ids)
    BY <1>7, <2>3 DEF ApplyRetract
  <2> HIDE DEF ids
  <2>5. QED
    BY <1>6, <2>1, <2>4
<1>8. CASE ApplyRetractPattern
  <2>1. Running("retract-pattern") /\ ~ PatternReserved
        /\ Proceed(Retracted(PatternIds), {"retract"} \X PatternIds)
    BY <1>8 DEF ApplyRetractPattern
  <2>2. PatternIds \in SUBSET LiveIds(buffer.datoms)
    BY DEF PatternIds, ScanIds
  <2>3. PatternIds \cap C = {}
    <3>1. CASE tx.req.system
      <4>1. \A i \in PatternIds : Op.entity \in {None, d[i].entity}
        BY DEF PatternIds, ScanIds, matchesPattern
      <4>2. Op.entity \notin {CheckpointEntity, None}
        BY <1>2, <2>1, <3>1
      <4>3. QED
        BY <1>3, <4>1, <4>2
    <3>2. CASE ~ tx.req.system
      BY <1>3, <2>1, <3>2 DEF PatternReserved
    <3>3. QED
      BY <3>1, <3>2
  <2>4. QED
    BY <1>6, <2>1, <2>2, <2>3
<1>9. QED
  BY <1>5, <1>7, <1>8

-----------------------------------------------------------------------------
(* A commit moves the checkpoint forward or leaves it alone. *)

KeptFacts(d, e) ==
    \A i \in CheckpointIds(d) : /\ i \in CheckpointIds(e)
                                /\ e[i].attribute = d[i].attribute /\ e[i].value = d[i].value

LEMMA WholeGrows ==
    ASSUME NEW d, NEW e, NEW v \in 0..MaxPosition, NEW n \in 0..MaxPosition,
           WholeAt(d, v), WholeAt(e, n), KeptFacts(d, e)
    PROVE  v <= n
<1>1. PICK q \in CheckpointIds(d) : d[q].attribute = PositionAttribute /\ d[q].value = Number(v)
  BY DEF WholeAt
<1>2. q \in CheckpointIds(e) /\ e[q].attribute = PositionAttribute /\ e[q].value = Number(v)
  BY <1>1 DEF KeptFacts
<1>3. PICK m \in CheckpointIds(e), r \in CheckpointIds(e) :
         /\ NameFact(e[m]) /\ e[r].value = Number(n)
         /\ \A i \in CheckpointIds(e) \ {m, r} : Moved(e[i], n)
  BY DEF WholeAt
<1>4. q # m
  BY <1>2, <1>3, ConsumerAssumption DEF NameFact
<1>5. CASE q = r
  BY <1>2, <1>3, <1>5 DEF Number
<1>6. CASE q # r
  <2>1. PICK x \in 0..MaxPosition : e[q].value = Number(x) /\ x <= n
    BY <1>2, <1>3, <1>4, <1>6 DEF Moved, AtMost
  <2>2. x = v
    BY <1>2, <2>1 DEF Number
  <2>3. QED
    BY <2>1, <2>2
<1>7. QED
  BY <1>5, <1>6

\* The step keeps every fact of the checkpoint and every position reached.
Forward ==
    /\ KeptFacts(store.datoms, store'.datoms)
    /\ RecordIds(store.datoms) \subseteq RecordIds(store'.datoms)
    /\ \A x \in 0..MaxPosition : Reached(x) => Reached(x)'

LEMMA CommitMoves ==
    ASSUME IInv, CheckpointSound, CheckpointRuns, Commit
    PROVE  /\ CheckpointSound' /\ Forward
           /\ tx.client \in Workers =>
                \A n \in 0..MaxPosition : MovesTo(n) => Reached(n)' /\ Checkpoints' = {n}
           /\ tx.client \notin Workers => Checkpoints' = Checkpoints
<1> DEFINE old == store.datoms
           d == buffer.datoms
           e == store'.datoms
<1>1. /\ tx # NoTx /\ tx.done = Len(tx.req.ops)
  BY DEF Commit
<1>2. SameCheckpoint(d, e)
  <2>1. /\ \A i \in Ids(d) : i \in Ids(e) /\ e[i] = d[i]
        /\ \A i \in Ids(e) \ Ids(d) : e[i].entity = buffer.position
    BY CommitFacts
  <2>2. buffer.position # CheckpointEntity
    BY <1>1, BufferParts, ConsumerAssumption, NamespaceAssumption
  <2> HIDE DEF d, e
  <2>3. QED
    BY <2>1, <2>2 DEF SameCheckpoint, CheckpointIds
<1>3. KeptFacts(old, e)
  <2>1. \A i \in Ids(old) : i \in Ids(e) /\ OldFact(old[i], e[i], tx.instant, buffer.position)
    BY CommitShape DEF Shape
  <2>2. QED
    BY <2>1 DEF KeptFacts, CheckpointIds, OldFact
<1>4. ASSUME NEW n \in 0..MaxPosition, tx.client \in Workers, MovesTo(n)
      PROVE  WholeAt(e, n)
  BY <1>1, <1>2, <1>4, WorkerOps, SameWhole DEF MovesTo
<1>5. CheckpointIds(e) = {} \/ \E n \in 0..MaxPosition : WholeAt(e, n)
  <2>1. CASE tx.client \in Workers
    BY <1>1, <1>4, <2>1 DEF CheckpointRuns
  <2>2. CASE tx.client \notin Workers
    <3>1. SameCheckpoint(old, e)
      BY <1>1, <1>2, <2>2 DEF CheckpointRuns, SameCheckpoint
    <3>2. QED
      BY <3>1, SameWhole DEF CheckpointSound, SameCheckpoint
  <2>3. QED
    BY <2>1, <2>2
<1>6. \A n \in 0..MaxPosition : WholeAt(e, n) => Checkpoints' = {n}
  <2>1. TAKE n \in 0..MaxPosition
  <2>2. Checkpoints' = {e[i].value.value : i \in LiveFactsOf(e, PositionAttribute)}
    BY DEF Checkpoints, CheckpointFacts, LiveFactsOf
  <2>3. QED
    BY <2>2, WholeFacts
<1>7. \A x \in 0..MaxPosition : Reached(x) => Reached(x)'
  <2> SUFFICES ASSUME NEW x \in 0..MaxPosition, Reached(x) PROVE Reached(x)'
    OBVIOUS
  <2>1. PICK v \in 0..MaxPosition : WholeAt(old, v)
    BY NoFacts DEF CheckpointSound, Reached
  <2>2. x <= v
    BY <2>1, WholeValue DEF Reached
  <2>3. PICK n \in 0..MaxPosition : WholeAt(e, n)
    <3>1. CheckpointIds(old) # {}
      BY <2>1 DEF WholeAt
    <3>2. CheckpointIds(e) # {}
      BY <1>3, <3>1 DEF KeptFacts
    <3>3. QED
      BY <1>5, <3>2
  <2>4. v <= n
    BY <1>3, <2>1, <2>3, WholeGrows
  <2>5. n \in Checkpoints' /\ n >= x
    BY <1>6, <2>2, <2>3, <2>4
  <2>6. QED
    BY <2>5 DEF Reached
<1>8. \A n \in 0..MaxPosition :
         tx.client \in Workers /\ MovesTo(n) => Reached(n)' /\ Checkpoints' = {n}
  BY <1>4, <1>6 DEF Reached
<1>9. store'.receipts[InitCommand] = None => CheckpointIds(e) = {}
  <2> SUFFICES ASSUME store'.receipts[InitCommand] = None PROVE CheckpointIds(e) = {}
    OBVIOUS
  <2>1. InitCommand \in CommandIds /\ buffer.position \in Positions
    BY <1>1, ConsumerAssumption, BufferParts
  <2>2. store'.receipts[InitCommand]
          = IF InitCommand = tx.req.command THEN buffer.position ELSE store.receipts[InitCommand]
    BY <1>1, <2>1, CommitShape DEF IInv, BufferSound
  <2>3. tx.req.command # InitCommand /\ CheckpointIds(old) = {}
    BY <2>1, <2>2 DEF CheckpointSound
  <2>4. tx.client \notin Workers
    <3> SUFFICES ASSUME tx.client \in Workers PROVE FALSE
      OBVIOUS
    <3>1. PICK n \in 0..MaxPosition : MovesTo(n)
      BY <1>1 DEF CheckpointRuns
    <3>2. tx.req = InitReq(n)
      BY <2>3, <3>1 DEF MovesTo
    <3>3. QED
      BY <2>3, <3>2, WorkerRequests
  <2>5. QED
    BY <1>1, <1>2, <2>3, <2>4 DEF CheckpointRuns, SameCheckpoint
<1>10. RecordIds(old) \subseteq RecordIds(e)
  <2>1. \A i \in Ids(old) : i \in Ids(e) /\ OldFact(old[i], e[i], tx.instant, buffer.position)
    BY CommitShape DEF Shape
  <2>2. QED
    BY <2>1 DEF RecordIds, OldFact
<1>11. tx.client \notin Workers => Checkpoints' = Checkpoints
  <2> SUFFICES ASSUME tx.client \notin Workers PROVE Checkpoints' = Checkpoints
    OBVIOUS
  <2>1. SameCheckpoint(old, e)
    BY <1>1, <1>2 DEF CheckpointRuns, SameCheckpoint
  <2>2. CASE CheckpointIds(old) = {}
    <3>1. CheckpointIds(e) = {}
      BY <2>1, <2>2 DEF SameCheckpoint
    <3>2. LiveFactsOf(e, PositionAttribute) = {}
      BY <3>1 DEF LiveFactsOf, CheckpointIds, LiveIds
    <3>3. QED
      BY <2>2, <3>2, NoFacts DEF Checkpoints, CheckpointFacts, LiveFactsOf
  <2>3. ASSUME NEW v \in 0..MaxPosition, WholeAt(old, v) PROVE Checkpoints' = Checkpoints
    BY <1>6, <2>1, <2>3, SameWhole, WholeValue
  <2>4. QED
    BY <2>2, <2>3 DEF CheckpointSound
<1>12. QED
  BY <1>3, <1>5, <1>7, <1>8, <1>9, <1>10, <1>11 DEF CheckpointSound, Forward, WholeAt

LEMMA NothingMoves ==
    ASSUME CheckpointSound, store' = store
    PROVE  CheckpointSound' /\ Forward
<1>1. \A x : Reached(x) = Reached(x)'
  BY DEF Reached, Checkpoints, CheckpointFacts
<1>2. QED
  BY <1>1 DEF CheckpointSound, Forward, KeptFacts, WholeAt

\* A step of the running transaction.
LEMMA StepMoves ==
    ASSUME IInv, CheckpointSound, CheckpointRuns, Step
    PROVE  IInv' /\ CheckpointSound' /\ CheckpointRuns' /\ Forward
<1>1. IInv'
  BY NextIInv DEF Next
<1>2. tx # NoTx
  BY StepOutcome
<1>3. CASE ApplyAssert \/ ApplyRetract \/ ApplyRetractPattern
  <2>1. CASE tx.client \in Workers
    <3>1. PICK n \in 0..MaxPosition : MovesTo(n)
      BY <1>2, <2>1 DEF CheckpointRuns
    <3>2. MovesTo(n)' /\ tx'.client = tx.client /\ store' = store
      BY <1>2, <1>3, <3>1, MoveApplies
    <3>3. CheckpointRuns'
      BY <2>1, <3>2 DEF CheckpointRuns
    <3>4. QED
      BY <1>1, <3>2, <3>3, NothingMoves
  <2>2. CASE tx.client \notin Workers
    <3>1. LeavesCheckpoint(tx.req) /\ SameCheckpoint(store.datoms, buffer.datoms)
      BY <1>2, <2>2 DEF CheckpointRuns
    <3>2. /\ SameCheckpoint(store'.datoms, buffer'.datoms)
          /\ store' = store /\ tx'.req = tx.req /\ tx'.client = tx.client
      BY <1>2, <1>3, <3>1, OtherApplies
    <3>3. CheckpointRuns'
      BY <2>2, <3>1, <3>2 DEF CheckpointRuns, LeavesCheckpoint
    <3>4. QED
      BY <1>1, <3>2, <3>3, NothingMoves
  <2>3. QED
    BY <2>1, <2>2
<1>4. CASE RefuseRetract \/ RefuseRetractPattern \/ Interrupt
  <2>1. tx' = NoTx /\ store' = store
    BY <1>4 DEF RefuseRetract, RefuseRetractPattern, Interrupt, Abort
  <2>2. QED
    BY <1>1, <2>1, NothingMoves DEF CheckpointRuns
<1>5. CASE Commit
  <2>1. tx' = NoTx
    BY <1>5 DEF Commit
  <2>2. QED
    BY <1>1, <1>5, <2>1, CommitMoves DEF CheckpointRuns
<1>6. QED
  BY <1>3, <1>4, <1>5 DEF Step

LEMMA BeginDatoms ==
    ASSUME IInv, NEW c, NEW req, NEW now, Begin(c, req, now)
    PROVE  /\ tx'.client = c /\ tx'.req = req /\ tx'.done = 0 /\ store' = store
           /\ buffer'.datoms = store.datoms
<1>1. /\ tx' = [client |-> c, req |-> req, instant |-> now, done |-> 0, changes |-> {}]
      /\ store' = store
      /\ buffer' = [store EXCEPT
                    !.position = store.position + 1,
                    !.receipts = [k \in CommandIds |->
                        IF k = req.command THEN store.position + 1 ELSE store.receipts[k]]]
  BY DEF Begin
<1>2. QED
  BY <1>1 DEF IInv, TypeOK, Stores

-----------------------------------------------------------------------------
(* The workers. *)

\* A finite set has an element of the greatest rank.
LEMMA GreatestRank ==
    ASSUME NEW S, IsFiniteSet(S), S # {}, NEW f, \A x \in S : f[x] \in Nat
    PROVE  \E m \in S : \A y \in S : f[m] >= f[y]
<1> DEFINE Above(x) == {y \in S : f[y] > f[x]}
           T == {Above(x) : x \in S}
           R == StrictSubsetOrdering(S)
<1>1. IsWellFoundedOn(R, FiniteSubsetsOf(S))
  BY FS_StrictSubsetOrderingWellFounded
<1>2. T \subseteq FiniteSubsetsOf(S) /\ T # {}
  <2>1. \A U : U \subseteq S => IsFiniteSet(U)
    BY FS_Subset
  <2>2. QED
    BY <2>1 DEF FiniteSubsetsOf
<1>3. PICK U \in T : \A V \in T : ~ (<<V, U>> \in R)
  BY <1>1, <1>2, WFMin
<1>4. PICK x \in S : U = Above(x)
  BY <1>3
<1>5. ASSUME NEW y \in S PROVE f[x] >= f[y]
  <2> SUFFICES ASSUME f[y] > f[x] PROVE FALSE
    OBVIOUS
  <2>1. Above(y) \subseteq Above(x) /\ y \in Above(x) /\ y \notin Above(y)
    <3>1. \A z \in S : f[z] > f[y] => f[z] > f[x]
      OBVIOUS
    <3>2. Above(y) \subseteq Above(x)
      BY <3>1
    <3>3. ~ (f[y] > f[y])
      OBVIOUS
    <3>4. QED
      BY <3>2, <3>3
  <2>2. <<Above(y), Above(x)>> \in R
    BY <2>1 DEF StrictSubsetOrdering
  <2>3. QED
    BY <1>3, <1>4, <2>2
<1>6. QED
  BY <1>5

LEMMA MaxIsGreatest ==
    ASSUME NEW S \in SUBSET Nat, IsFiniteSet(S), S # {}
    PROVE  Max(S) \in S /\ \A y \in S : Max(S) >= y
<1> DEFINE id == [x \in S |-> x]
<1>1. \A x \in S : id[x] = x /\ id[x] \in Nat
  OBVIOUS
<1> HIDE DEF id
<1>2. PICK m \in S : \A y \in S : id[m] >= id[y]
  BY <1>1, GreatestRank
<1>3. \A y \in S : m >= y
  BY <1>1, <1>2
<1>4. QED
  BY <1>3 DEF Max

Waits == {"initWait", "updateWait"}

\* A worker's record stays sound when the store goes forward.
LEMMA JobStays ==
    ASSUME NEW j \in Jobs, JobSound(j), Forward
    PROVE  JobSound(j)'
<1>1. j.next \in 0..MaxPosition
  BY DEF Jobs
<1>2. j.purpose = "final" \/ j.answer = "Moved" => Reached(j.next)'
  BY <1>1 DEF JobSound, Forward
<1>3. j.phase \in {"update", "updateWait"} =>
         j.known \in CheckpointIds(store'.datoms) /\ AtMost(store'.datoms[j.known], j.next)
  BY DEF JobSound, Forward, KeptFacts, AtMost
<1>4. j.phase = "meta" => j.ids \subseteq CheckpointIds(store'.datoms)
  BY DEF JobSound, Forward, KeptFacts
<1>5. j.phase = "feed" => j.ids \subseteq RecordIds(store'.datoms)
  BY DEF JobSound, Forward
<1>6. QED
  BY <1>2, <1>3, <1>4, <1>5 DEF JobSound

\* A worker takes a step of its own, outside the store and without waiting.
LEMMA WorkerStep ==
    ASSUME CheckpointInv, UNCHANGED <<store, buffer, tx, result>>, NEW w \in Workers,
           NEW r \in Jobs, Set(w, r), r.phase \notin Waits, JobSound(r)
    PROVE  CheckpointInv'
<1>1. store' = store /\ buffer' = buffer /\ tx' = tx /\ result' = result
      /\ job' = [job EXCEPT ![w] = r]
  BY DEF Set
<1>2. IInv'
  BY <1>1, AnswerIInv DEF CheckpointInv, IInv, TypeOK
<1>3. CheckpointSound' /\ Forward
  BY <1>1, NothingMoves DEF CheckpointInv
<1>4. CheckpointRuns'
  BY <1>1 DEF CheckpointInv, CheckpointRuns, MovesTo, LeavesCheckpoint
<1>5. job' \in [Workers -> Jobs] /\ job'[w] = r /\ \A u \in Workers \ {w} : job'[u] = job[u]
  BY <1>1 DEF CheckpointInv
<1>6. ASSUME NEW u \in Workers PROVE JobSound(job[u])' /\ WaitSound(u)'
  <2>1. CASE u = w
    <3>1. JobSound(r)'
      BY <1>3, JobStays
    <3>2. QED
      BY <1>5, <2>1, <3>1 DEF WaitSound, JobSound, Waits
  <2>2. CASE u # w
    <3>1. JobSound(job[u]) /\ WaitSound(u) /\ job[u] \in Jobs
      BY DEF CheckpointInv
    <3>2. JobSound(job[u])'
      <4> DEFINE j == job[u]
      <4>1. j \in Jobs /\ JobSound(j) /\ job'[u] = j
        BY <1>5, <2>2, <3>1
      <4> HIDE DEF j
      <4>2. JobSound(job'[u])
        BY <4>1
      <4>3. QED
        BY <1>1, <4>1, <4>2 DEF JobSound, Reached, Checkpoints, CheckpointFacts, j
    <3>3. WaitSound(u)'
      BY <1>1, <1>5, <2>2, <3>1 DEF WaitSound, InitRequest, MoveRequest, Reached, Checkpoints,
                                    CheckpointFacts
    <3>4. QED
      BY <3>2, <3>3
  <2>3. QED
    BY <2>1, <2>2
<1>7. QED
  BY <1>2, <1>3, <1>4, <1>5, <1>6 DEF CheckpointInv

\* What readLoaded returns for any facts of the checkpoint, retracted or not.
Loaded(l) ==
    /\ l.found \in {"absent", "corrupt", "one"} /\ l.position \in 0..MaxPosition
    /\ l.found # "one" => l.position = 0
    /\ l.found = "one" => /\ l.id \in CheckpointIds(store.datoms) /\ Reached(l.position)
                          /\ store.datoms[l.id].attribute = PositionAttribute
                          /\ store.datoms[l.id].value = Number(l.position)

LEMMA LoadedFacts ==
    ASSUME CheckpointSound, NEW rows \in SUBSET CheckpointIds(store.datoms)
    PROVE  Loaded(readLoaded(rows))
<1> DEFINE P == {i \in rows : store.datoms[i].attribute = PositionAttribute}
           k == CHOOSE j \in P : TRUE
           l == readLoaded(rows)
<1>1. CASE l.found # "one"
  <2>1. l \in {[found |-> "absent", id |-> None, position |-> 0],
               [found |-> "corrupt", id |-> None, position |-> 0]}
    BY <1>1 DEF readLoaded
  <2> HIDE DEF l
  <2>2. l.found \in {"absent", "corrupt"} /\ l.position = 0
    BY <2>1
  <2>3. QED
    BY <2>2 DEF Loaded, l
<1>2. CASE l.found = "one"
  <2>1. /\ Cardinality(P) = 1
        /\ l = [found |-> "one", id |-> k, position |-> store.datoms[k].value.value]
    BY <1>2 DEF readLoaded
  <2>2. P # {}
    <3>1. Cardinality({}) = 0
      BY FS_EmptySet
    <3> HIDE DEF P
    <3>2. QED
      BY <2>1, <3>1
  <2>3. k \in P
    BY <2>2
  <2> HIDE DEF k
  <2>4. k \in CheckpointIds(store.datoms) /\ store.datoms[k].attribute = PositionAttribute
    BY <2>3
  <2>5. PICK x \in 0..MaxPosition : store.datoms[k].value = Number(x) /\ Reached(x)
    BY <2>4, PositionsReached
  <2>6. store.datoms[k].value.value = x
    BY <2>5 DEF Number
  <2> HIDE DEF l
  <2>7. l.found = "one" /\ l.id = k /\ l.position = x
    BY <2>1, <2>6
  <2>8. QED
    BY <2>4, <2>5, <2>7 DEF Loaded, l
<1>3. QED
  BY <1>1, <1>2

\* Ending a call.
LEMMA AnswerStep ==
    ASSUME CheckpointInv, UNCHANGED <<store, buffer, tx, result>>, NEW w \in Workers,
           NEW answer \in Answers, Answer(w, answer), answer = "Moved" => Reached(job[w].next)
    PROVE  CheckpointInv'
<1> DEFINE r == [Idle EXCEPT !.expected = job[w].expected, !.next = job[w].next, !.answer = answer]
<1>1. job[w] \in Jobs
  BY DEF CheckpointInv
<1>2. /\ r \in Jobs /\ r.phase = "idle" /\ r.purpose = None /\ r.answer = answer
      /\ r.next = job[w].next
  BY <1>1 DEF Jobs, Idle
<1>3. None \notin {"first", "final"}
  BY ConsumerAssumption
<1>4. Set(w, r)
  BY DEF Answer
<1> HIDE DEF r
<1>5. JobSound(r) /\ r.phase \notin Waits
  BY <1>2, <1>3 DEF JobSound, Waits
<1>6. QED
  BY <1>2, <1>4, <1>5, WorkerStep

LEMMA ContinueStep ==
    ASSUME CheckpointInv, UNCHANGED <<store, buffer, tx, result>>, NEW w \in Workers,
           job[w].phase \in {"range", "meta"}, NEW l, Loaded(l), Continue(w, l)
    PROVE  CheckpointInv'
<1> DEFINE j == job[w]
<1>1. j \in Jobs /\ JobSound(j) /\ j.answer = None
  BY DEF CheckpointInv, JobSound
<1>2. /\ j.next \in 0..MaxPosition /\ j.expected \in 0..MaxPosition
      /\ j.purpose \in {"get", "first", "winner", "final"}
  BY <1>1 DEF Jobs, JobSound
<1>3. /\ \A a \in {"Corrupt", "Conflict", "Moved"} : a \in Answers
      /\ None # "Moved"
  BY ConsumerAssumption DEF Answers
<1>4. ASSUME NEW a \in {"Corrupt", "Conflict"}, Answer(w, a) PROVE CheckpointInv'
  BY <1>3, <1>4, AnswerStep
<1>5. ASSUME Answer(w, "Moved"), Reached(j.next) PROVE CheckpointInv'
  BY <1>3, <1>5, AnswerStep
<1>6. CASE l.found = "corrupt"
  BY <1>4, <1>6 DEF Continue
<1>7. CASE l.found # "corrupt" /\ j.purpose = "get"
  <2> DEFINE r == [j EXCEPT !.phase = "feed", !.ids = {}, !.expected = l.position]
  <2>1. Set(w, r)
    BY <1>7 DEF Continue
  <2>2. /\ r \in Jobs /\ r.phase = "feed" /\ r.purpose = "get" /\ r.answer = None /\ r.ids = {}
    BY <1>1, <1>7 DEF Jobs, Loaded
  <2> HIDE DEF r
  <2>3. JobSound(r) /\ r.phase \notin Waits
    BY <1>3, <2>2 DEF JobSound, Waits
  <2>4. QED
    BY <2>1, <2>2, <2>3, WorkerStep
<1>8. CASE l.found # "corrupt" /\ j.purpose = "first"
  <2>1. \/ l.found = "one" /\ l.position = j.next /\ Answer(w, "Moved")
        \/ Answer(w, "Conflict")
        \/ Set(w, [j EXCEPT !.phase = "init"])
        \/ /\ l.found = "one" /\ l.position = j.expected
           /\ Set(w, [j EXCEPT !.phase = "update", !.known = l.id])
    BY <1>8 DEF Continue, Loaded
  <2>2. CASE l.found = "one" /\ l.position = j.next /\ Answer(w, "Moved")
    BY <1>5, <2>2 DEF Loaded
  <2>3. CASE Answer(w, "Conflict")
    BY <1>4, <2>3
  <2>4. CASE Set(w, [j EXCEPT !.phase = "init"])
    <3> DEFINE r == [j EXCEPT !.phase = "init"]
    <3>1. /\ r \in Jobs /\ r.phase = "init" /\ r.purpose = "first" /\ r.answer = None
          /\ r.next = j.next /\ r.expected = j.expected /\ Set(w, r)
      BY <1>1, <1>8, <2>4 DEF Jobs
    <3> HIDE DEF r
    <3>2. JobSound(r) /\ r.phase \notin Waits
      BY <1>1, <1>3, <1>8, <3>1 DEF JobSound, Waits
    <3>3. QED
      BY <3>1, <3>2, WorkerStep
  <2>5. CASE /\ l.found = "one" /\ l.position = j.expected
             /\ Set(w, [j EXCEPT !.phase = "update", !.known = l.id])
    <3> DEFINE r == [j EXCEPT !.phase = "update", !.known = l.id]
    <3>1. l.id \in TripleIds
      BY <2>5 DEF Loaded, CheckpointIds, Ids
    <3>2. /\ r \in Jobs /\ r.phase = "update" /\ r.purpose = "first" /\ r.answer = None
          /\ r.next = j.next /\ r.expected = j.expected /\ r.known = l.id /\ Set(w, r)
      BY <1>1, <1>8, <2>5, <3>1 DEF Jobs
    <3> HIDE DEF r
    <3>3. j.next >= j.expected
      BY <1>1, <1>8 DEF JobSound
    <3>4. r.known \in CheckpointIds(store.datoms) /\ AtMost(store.datoms[r.known], r.next)
      BY <1>2, <2>5, <3>2, <3>3 DEF Loaded, AtMost
    <3>5. JobSound(r) /\ r.phase \notin Waits
      BY <1>3, <3>2, <3>3, <3>4 DEF JobSound, Waits
    <3>6. QED
      BY <3>2, <3>5, WorkerStep
  <2>6. QED
    BY <2>1, <2>2, <2>3, <2>4, <2>5
<1>9. CASE l.found # "corrupt" /\ j.purpose = "winner"
  <2>1. \/ l.found = "one" /\ l.position = j.next /\ StartRead(w, "final")
        \/ Answer(w, "Conflict")
    BY <1>9 DEF Continue
  <2>2. CASE l.found = "one" /\ l.position = j.next /\ StartRead(w, "final")
    <3> USE ConsumerAssumption
    <3> DEFINE r == [j EXCEPT !.phase = "range", !.purpose = "final", !.ids = {}]
    <3>1. /\ r \in Jobs /\ r.phase = "range" /\ r.purpose = "final" /\ r.answer = None
          /\ r.next = j.next /\ Set(w, r)
      BY <1>1, <2>2 DEF Jobs, StartRead
    <3> HIDE DEF r
    <3>2. JobSound(r) /\ r.phase \notin Waits
      BY <2>2, <3>1 DEF JobSound, Waits, Loaded
    <3>3. QED
      BY <3>1, <3>2, WorkerStep
  <2>3. QED
    BY <1>4, <2>1, <2>2
<1>10. CASE l.found # "corrupt" /\ j.purpose = "final"
  <2>1. Answer(w, "Corrupt") \/ Answer(w, "Moved")
    BY <1>10 DEF Continue
  <2>2. Reached(j.next)
    BY <1>1, <1>10 DEF JobSound
  <2>3. QED
    BY <1>4, <1>5, <2>1, <2>2
<1>11. QED
  BY <1>2, <1>6, <1>7, <1>8, <1>9, <1>10

\* The local steps of a worker.
LEMMA LocalSteps ==
    ASSUME CheckpointInv, NEW w \in Workers, Get(w) \/ Repeat(w) \/ Crash(w) \/ CheckLatest(w)
    PROVE  CheckpointInv'
<1> USE ConsumerAssumption
<1> DEFINE j == job[w]
<1>1. j \in Jobs /\ JobSound(j)
  BY DEF CheckpointInv
<1>2. UNCHANGED <<store, buffer, tx, result>>
  BY DEF Get, Repeat, Crash, CheckLatest, Quiet
<1>3. CASE Get(w)
  <2> DEFINE r == [Idle EXCEPT !.phase = "range", !.purpose = "get"]
  <2>1. Set(w, r)
    BY <1>3 DEF Get
  <2>2. r \in Jobs /\ r.phase = "range" /\ r.purpose = "get" /\ r.answer = None
    <3>1. Idle \in Jobs /\ Idle.answer = None
      BY DEF Jobs, Idle, Answers
    <3>2. QED
      BY <3>1 DEF Jobs
  <2> HIDE DEF r
  <2>3. JobSound(r) /\ r.phase \notin Waits
    BY <2>2 DEF JobSound, Waits
  <2>4. QED
    BY <1>2, <2>1, <2>2, <2>3, WorkerStep
<1>4. CASE Repeat(w)
  <2> DEFINE r == [j EXCEPT !.phase = "latest", !.answer = None]
  <2>1. /\ r \in Jobs /\ r.phase = "latest" /\ r.purpose = j.purpose /\ r.answer = None /\ Set(w, r)
        /\ r.next = j.next /\ r.expected = j.expected
    BY <1>1, <1>4 DEF Repeat, Jobs, Answers
  <2> HIDE DEF r
  <2>2. JobSound(r) /\ r.phase \notin Waits
    BY <1>1, <2>1 DEF JobSound, Waits
  <2>3. QED
    BY <1>2, <2>1, <2>2, WorkerStep
<1>5. CASE Crash(w)
  <2>1. Idle \in Jobs /\ Idle.phase = "idle" /\ Idle.purpose = None /\ Idle.answer = None
        /\ Set(w, Idle)
    BY <1>5 DEF Crash, Jobs, Idle, Answers
  <2>2. JobSound(Idle) /\ Idle.phase \notin Waits
    BY <2>1 DEF JobSound, Waits
  <2>3. QED
    BY <1>2, <2>1, <2>2, WorkerStep
<1>6. CASE CheckLatest(w)
  <2>1. CASE Answer(w, "Invalid")
    BY <1>2, <2>1, AnswerStep DEF Answers
  <2>2. CASE ~ (j.next < j.expected) /\ StartRead(w, "first")
    <3> DEFINE r == [j EXCEPT !.phase = "range", !.purpose = "first", !.ids = {}]
    <3>1. /\ r \in Jobs /\ r.phase = "range" /\ r.purpose = "first" /\ r.answer = j.answer
          /\ r.next = j.next /\ r.expected = j.expected /\ Set(w, r)
      BY <1>1, <2>2 DEF Jobs, StartRead
    <3>2. j.next >= j.expected
      <4>1. j.next \in 0..MaxPosition /\ j.expected \in 0..MaxPosition
        BY <1>1 DEF Jobs
      <4>2. QED
        BY <2>2, <4>1
    <3>3. j.phase = "latest"
      BY <1>6 DEF CheckLatest
    <3> HIDE DEF r
    <3>4. JobSound(r) /\ r.phase \notin Waits
      BY <1>1, <3>1, <3>2, <3>3 DEF JobSound, Waits
    <3>5. QED
      BY <1>2, <3>1, <3>4, WorkerStep
  <2>3. QED
    BY <1>6, <2>1, <2>2 DEF CheckLatest
<1>7. QED
  BY <1>3, <1>4, <1>5, <1>6

\* The two reads of readLoaded.
LEMMA LoadSteps ==
    ASSUME CheckpointInv, NEW w \in Workers, ReadRange(w) \/ \E now \in Instants : ReadMeta(w, now)
    PROVE  CheckpointInv'
<1> DEFINE j == job[w]
<1>1. j \in Jobs /\ JobSound(j) /\ CheckpointSound
  BY DEF CheckpointInv
<1>2. UNCHANGED <<store, buffer, tx, result>> /\ j.phase \in {"range", "meta"}
  BY DEF ReadRange, ReadMeta, Quiet
<1>3. ASSUME NEW rows \in SUBSET CheckpointIds(store.datoms), Continue(w, readLoaded(rows))
      PROVE  CheckpointInv'
  <2> DEFINE l == readLoaded(rows)
  <2>1. Loaded(l) /\ Continue(w, l)
    BY <1>1, <1>3, LoadedFacts
  <2> HIDE DEF l
  <2>2. QED
    BY <1>2, <2>1, ContinueStep
<1>4. CASE ReadRange(w)
  <2>1. \/ Continue(w, readLoaded({}))
        \/ Set(w, [j EXCEPT !.phase = "meta", !.ids = CheckpointIds(store.datoms)])
    BY <1>4 DEF ReadRange, CheckpointIds
  <2>2. CASE Set(w, [j EXCEPT !.phase = "meta", !.ids = CheckpointIds(store.datoms)])
    <3> DEFINE C == CheckpointIds(store.datoms)
               r == [j EXCEPT !.phase = "meta", !.ids = C]
    <3>1. C \in SUBSET TripleIds /\ j.phase = "range"
      BY <1>4 DEF ReadRange, CheckpointIds, Ids
    <3> HIDE DEF C
    <3>2. /\ r \in Jobs /\ r.phase = "meta" /\ r.ids = C /\ r.purpose = j.purpose
          /\ r.answer = j.answer /\ r.next = j.next /\ r.expected = j.expected
      BY <1>1, <3>1 DEF Jobs
    <3>3. Set(w, r)
      BY <2>2 DEF C
    <3> HIDE DEF r
    <3>4. JobSound(r) /\ r.phase \notin Waits
      BY <1>1, <3>1, <3>2 DEF JobSound, Waits, C
    <3>5. QED
      BY <1>2, <3>2, <3>3, <3>4, WorkerStep
  <2>3. QED
    BY <1>3, <2>1, <2>2
<1>5. ASSUME NEW now \in Instants, ReadMeta(w, now) PROVE CheckpointInv'
  <2>1. \E rows \in SUBSET j.ids : Continue(w, readLoaded(rows))
    BY <1>5 DEF ReadMeta
  <2>2. j.ids \subseteq CheckpointIds(store.datoms)
    BY <1>1, <1>5 DEF ReadMeta, JobSound
  <2>3. QED
    BY <1>3, <2>1, <2>2
<1>6. QED
  BY <1>4, <1>5

\* The records of the feed carry positions.
LEMMA PageWithin ==
    ASSUME IInv, NEW ids \in SUBSET RecordIds(store.datoms), NEW after
    PROVE  FeedPage(ids, after) \subseteq Positions
<1>1. \A i \in ids : store.datoms[i].value.value.position \in Positions
  <2>1. TAKE i \in ids
  <2>2. RecordTrue(store.datoms, store.receipts, i) /\ i \in Ids(store.datoms)
    BY DEF IInv, StoreSound, JournalTrue, RecordIds
  <2>3. store.datoms[i].value \in JournalValues
    BY <2>2 DEF RecordTrue
  <2>4. QED
    BY <2>3 DEF JournalValues
<1>2. QED
  BY <1>1 DEF FeedPage

LEMMA FeedStep ==
    ASSUME CheckpointInv, NEW w \in Workers, ReadFeed(w)
    PROVE  CheckpointInv'
<1> USE ConsumerAssumption
<1> DEFINE j == job[w]
           keys == NextKeys(j.ids)
           page == FeedPage(j.ids \cup keys, j.expected)
<1>1. j \in Jobs /\ JobSound(j) /\ j.phase = "feed" /\ j.purpose = "get" /\ j.answer = None
      /\ j.ids \subseteq RecordIds(store.datoms)
  BY DEF CheckpointInv, ReadFeed, JobSound
<1>2. UNCHANGED <<store, buffer, tx, result>>
  BY DEF ReadFeed
<1>3. keys \subseteq RecordIds(store.datoms)
  BY DEF NextKeys, JournalIds, LiveIds, RecordIds
<1>4. page \subseteq Positions
  BY <1>1, <1>3, PageWithin DEF CheckpointInv
<1>5. \/ Set(w, [j EXCEPT !.ids = j.ids \cup keys])
      \/ Set(w, Idle)
      \/ page # {} /\ Set(w, [j EXCEPT !.phase = "latest", !.ids = {}, !.next = Max(page)])
  BY DEF ReadFeed
<1> HIDE DEF keys, page
<1>6. CASE Set(w, [j EXCEPT !.ids = j.ids \cup keys])
  <2> DEFINE C == j.ids \cup keys
             r == [j EXCEPT !.ids = C]
  <2>1. C \subseteq RecordIds(store.datoms) /\ C \in SUBSET TripleIds
    BY <1>1, <1>3 DEF RecordIds, Ids
  <2> HIDE DEF C
  <2>2. r \in Jobs /\ r.phase = "feed" /\ r.purpose = "get" /\ r.answer = None /\ r.ids = C
    BY <1>1, <2>1 DEF Jobs
  <2>3. Set(w, r)
    BY <1>6 DEF C
  <2> HIDE DEF r
  <2>4. JobSound(r) /\ r.phase \notin Waits
    BY <2>1, <2>2 DEF JobSound, Waits
  <2>5. QED
    BY <1>2, <2>2, <2>3, <2>4, WorkerStep
<1>7. CASE Set(w, Idle)
  <2>1. Idle \in Jobs /\ Idle.phase = "idle" /\ Idle.purpose = None /\ Idle.answer = None
    BY DEF Jobs, Idle, Answers
  <2>2. JobSound(Idle) /\ Idle.phase \notin Waits
    BY <2>1 DEF JobSound, Waits
  <2>3. QED
    BY <1>2, <1>7, <2>1, <2>2, WorkerStep
<1>8. CASE page # {} /\ Set(w, [j EXCEPT !.phase = "latest", !.ids = {}, !.next = Max(page)])
  <2> DEFINE m == Max(page)
             r == [j EXCEPT !.phase = "latest", !.ids = {}, !.next = m]
  <2>1. m \in 0..MaxPosition
    <3>1. IsFiniteSet(Positions) /\ Positions \subseteq Nat
      BY FS_Interval DEF Positions
    <3>2. m \in page
      BY <1>4, <1>8, <3>1, FS_Subset, MaxIsGreatest
    <3>3. QED
      BY <1>4, <3>2 DEF Positions
  <2> HIDE DEF m
  <2>2. r \in Jobs /\ r.phase = "latest" /\ r.purpose = "get" /\ r.answer = None
    BY <1>1, <2>1 DEF Jobs
  <2>3. Set(w, r)
    BY <1>8 DEF m
  <2> HIDE DEF r
  <2>4. JobSound(r) /\ r.phase \notin Waits
    BY <2>2 DEF JobSound, Waits
  <2>5. QED
    BY <1>2, <2>2, <2>3, <2>4, WorkerStep
<1>9. QED
  BY <1>5, <1>6, <1>7, <1>8

LEMMA SettleStep ==
    ASSUME CheckpointInv, NEW w \in Workers, Settle(w)
    PROVE  CheckpointInv'
<1> USE ConsumerAssumption
<1> DEFINE j == job[w]
<1>1. j \in Jobs /\ JobSound(j) /\ WaitSound(w) /\ j.phase \in Waits
  BY DEF CheckpointInv, Settle, Waits
<1>2. UNCHANGED <<store, buffer, tx, result>>
  BY DEF Settle, Quiet
<1>3. \/ \E purpose \in {"final", "winner"} :
             (purpose = "final" => result[w] = "Committed") /\ StartRead(w, purpose)
      \/ Answer(w, "Error")
  BY DEF Settle
<1>4. ASSUME NEW purpose \in {"final", "winner"}, purpose = "final" => result[w] = "Committed",
             StartRead(w, purpose)
      PROVE  CheckpointInv'
  <2> DEFINE r == [j EXCEPT !.phase = "range", !.purpose = purpose, !.ids = {}]
  <2>1. /\ r \in Jobs /\ r.phase = "range" /\ r.purpose = purpose /\ r.answer = j.answer
        /\ r.next = j.next /\ Set(w, r)
    BY <1>1, <1>4 DEF Jobs, StartRead
  <2> HIDE DEF r
  <2>2. purpose = "final" => Reached(j.next)
    BY <1>1, <1>4 DEF WaitSound, Waits
  <2>3. j.answer = None
    BY <1>1 DEF JobSound, Waits
  <2>4. JobSound(r) /\ r.phase \notin Waits
    BY <2>1, <2>2, <2>3 DEF JobSound, Waits
  <2>5. QED
    BY <1>2, <2>1, <2>4, WorkerStep
<1>5. CASE Answer(w, "Error")
  BY <1>2, <1>5, AnswerStep DEF Answers
<1>6. QED
  BY <1>3, <1>4, <1>5

-----------------------------------------------------------------------------
(* The steps that reach the store. *)

\* What the store says stays true of the workers whose call it does not touch.
LEMMA WorkersStay ==
    ASSUME CheckpointInv, Forward, NEW u \in Workers, job'[u] = job[u],
           job[u].phase \in Waits =>
              /\ result'[u] = "Committed" => result[u] = "Committed" \/ Reached(job[u].next)'
              /\ tx' # NoTx /\ tx'.client = u =>
                    /\ result'[u] = None
                    /\ tx # NoTx /\ tx.client = u /\ tx'.req = tx.req
    PROVE  JobSound(job[u])' /\ WaitSound(u)'
<1> DEFINE j == job[u]
<1>1. j \in Jobs /\ JobSound(j) /\ WaitSound(u)
  BY DEF CheckpointInv
<1>2. j.next \in 0..MaxPosition
  BY <1>1 DEF Jobs
<1>3. JobSound(job[u])'
  <2>1. job'[u] = j
    OBVIOUS
  <2> HIDE DEF j
  <2>2. JobSound(j)'
    <3>1. ASSUME NEW k \in Jobs, JobSound(k) PROVE JobSound(k)'
      BY <3>1, JobStays
    <3>2. QED
      BY <1>1, <2>1, <3>1 DEF JobSound, j
  <2>3. QED
    BY <2>2 DEF j
<1>4. WaitSound(u)'
  <2> SUFFICES ASSUME j.phase \in Waits
               PROVE  /\ result'[u] = "Committed" => Reached(j.next)'
                      /\ tx' # NoTx /\ tx'.client = u =>
                           /\ result'[u] = None
                           /\ tx'.req = IF j.phase = "initWait" THEN InitRequest(u)'
                                                                ELSE MoveRequest(u)'
    BY DEF WaitSound, Waits, Reached
  <2>1. result'[u] = "Committed" => Reached(j.next)'
    BY <1>1, <1>2 DEF WaitSound, Waits, Forward, Reached
  <2>2. InitRequest(u)' = InitRequest(u) /\ MoveRequest(u)' = MoveRequest(u)
    BY DEF InitRequest, MoveRequest
  <2>3. QED
    BY <1>1, <2>1, <2>2 DEF WaitSound, Waits
<1>5. QED
  BY <1>3, <1>4

\* The position a worker's request asserts.
Target(n) == tx.req.ops[2] = assertPosition(n)

LEMMA MovesToTarget ==
    ASSUME NEW n, MovesTo(n)
    PROVE  Target(n) /\ \A m : Target(m) => m = n
<1>1. CASE tx.req = InitReq(n)
  BY <1>1 DEF InitReq, transactSystemUnjournaled, Target, assertPosition, Number
<1>2. CASE \E k : tx.req = MoveReq(k, n)
  BY <1>2 DEF MoveReq, transactSystemUnjournaled, Target, assertPosition, Number
<1>3. QED
  BY <1>1, <1>2 DEF MovesTo

\* The running transaction takes a step; the workers wait or read.
LEMMA TransactionStep ==
    ASSUME CheckpointInv, Transaction
    PROVE  CheckpointInv' /\ Forward
<1>1. Step /\ job' = job
  BY DEF Transaction
<1>2. IInv' /\ CheckpointSound' /\ CheckpointRuns' /\ Forward
  BY <1>1, StepMoves DEF CheckpointInv
<1>3. /\ tx # NoTx /\ tx.client \in Clients
      /\ \/ /\ UNCHANGED <<store, result>>
            /\ tx'.client = tx.client /\ tx'.req = tx.req
         \/ /\ tx' = NoTx /\ store' = store
            /\ \E tag \in Tags \ {"Committed"} : Return(tx.client, tag)
         \/ Commit
  BY <1>1, StepOutcome DEF CheckpointInv
<1>4. result \in [Clients -> Tags \cup {None}] /\ Workers \subseteq Clients
  BY ConsumerAssumption DEF CheckpointInv, IInv, TypeOK
<1>5. ASSUME NEW u \in Workers PROVE JobSound(job[u])' /\ WaitSound(u)'
  <2>1. CASE UNCHANGED <<store, result>> /\ tx'.client = tx.client /\ tx'.req = tx.req
    <3>1. WaitSound(u)
      BY DEF CheckpointInv
    <3>2. QED
      BY <1>1, <1>2, <1>3, <2>1, <3>1, WorkersStay DEF WaitSound, Waits
  <2>2. CASE /\ tx' = NoTx /\ store' = store
             /\ \E tag \in Tags \ {"Committed"} : Return(tx.client, tag)
    <3>1. result'[u] = "Committed" => result[u] = "Committed"
      BY <1>3, <1>4, <2>2 DEF Return
    <3>2. QED
      BY <1>1, <1>2, <2>2, <3>1, WorkersStay
  <2>3. CASE Commit
    <3>1. tx' = NoTx /\ \E answer \in CommitAnswers : Return(tx.client, answer)
      BY <2>3 DEF Commit, CommitReported
    <3>2. u # tx.client => result'[u] = result[u]
      BY <1>3, <1>4, <3>1 DEF Return
    <3>3. u = tx.client /\ job[u].phase \in Waits => Reached(job[u].next)'
      <4> SUFFICES ASSUME u = tx.client, job[u].phase \in Waits PROVE Reached(job[u].next)'
        OBVIOUS
      <4>1. PICK n \in 0..MaxPosition : MovesTo(n)
        BY <1>3 DEF CheckpointInv, CheckpointRuns
      <4>2. Reached(n)'
        BY <2>3, <4>1, CommitMoves DEF CheckpointInv
      <4>3. Target(job[u].next)
        <5>1. tx.req \in {InitRequest(u), MoveRequest(u)}
          BY <1>3 DEF CheckpointInv, WaitSound, Waits
        <5>2. QED
          BY <5>1 DEF InitRequest, MoveRequest, transactSystemUnjournaled, Target
      <4>4. n = job[u].next
        BY <4>1, <4>3, MovesToTarget
      <4>5. QED
        BY <1>1, <4>2, <4>4 DEF Reached
    <3>4. QED
      BY <1>1, <1>2, <3>1, <3>2, <3>3, WorkersStay
  <2>4. QED
    BY <1>3, <2>1, <2>2, <2>3
<1>6. QED
  BY <1>1, <1>2, <1>5 DEF CheckpointInv

\* A call of an appender starts or is refused.
LEMMA AppendStep ==
    ASSUME CheckpointInv, AppendFeed
    PROVE  CheckpointInv' /\ Forward
<1>1. PICK c \in Appenders, req \in Requests, now \in Instants :
         Begin(c, req, now) \/ Refuse(c, req, now)
  BY DEF AppendFeed
<1>2. /\ job' = job /\ store' = store /\ tx = NoTx
      /\ c \in Clients /\ c \notin Workers /\ Workers \subseteq Clients
  BY <1>1, ConsumerAssumption DEF AppendFeed, Begin, Refuse
<1>3. req \in Request /\ NoJournalWrites(req)
  BY RequestAssumption
<1>4. IInv'
  BY <1>1, <1>2, <1>3, BeginIInv, RefuseIInv DEF CheckpointInv
<1>5. CheckpointSound' /\ Forward
  BY <1>2, NothingMoves DEF CheckpointInv
<1>6. Begin(c, req, now) => LeavesCheckpoint(req)
  <2> SUFFICES ASSUME Begin(c, req, now), NEW k \in DOMAIN req.ops
               PROVE  /\ req.ops[k].op = "assert" => req.ops[k].entity # CheckpointEntity
                      /\ req.system /\ req.ops[k].op = "retract-pattern" =>
                           req.ops[k].entity \notin {CheckpointEntity, None}
                      /\ req.system => req.ops[k].op # "retract"
    BY DEF LeavesCheckpoint
  <2>1. CASE req.system
    <3>1. req.ops[k].entity # CheckpointEntity
      BY <2>1, OthersAssumption
    <3>2. \/ req.ops[k].op = "assert"
          \/ req.ops[k].op = "retract-pattern" /\ req.ops[k].entity \in ReservedEntityIds
      BY <2>1, SystemAssumption
    <3>3. None \notin ReservedEntityIds
      BY SentinelAssumption, NamespaceAssumption
    <3>4. QED
      BY <3>1, <3>2, <3>3
  <2>2. CASE ~ req.system
    <3>1. ~ reservedAssertError(req.ops)
      BY <2>2 DEF Begin, Refusal, Tags
    <3>2. QED
      BY <2>2, <3>1, ConsumerAssumption DEF reservedAssertError, reservedWriteError, AssertIndices
  <2>3. QED
    BY <2>1, <2>2
<1>7. CheckpointRuns'
  <2>1. CASE Begin(c, req, now)
    <3>1. tx'.client = c /\ tx'.req = req /\ buffer'.datoms = store.datoms
      BY <2>1, BeginDatoms DEF CheckpointInv
    <3>2. QED
      BY <1>2, <1>6, <2>1, <3>1 DEF CheckpointRuns, LeavesCheckpoint, SameCheckpoint
  <2>2. CASE Refuse(c, req, now)
    BY <1>2, <2>2 DEF Refuse, CheckpointRuns
  <2>3. QED
    BY <1>1, <2>1, <2>2
<1>8. ASSUME NEW u \in Workers PROVE JobSound(job[u])' /\ WaitSound(u)'
  <2>1. result'[u] = result[u]
    BY <1>1, <1>2 DEF Begin, Refuse, Return, CheckpointInv, IInv, TypeOK
  <2>2. tx' = NoTx \/ tx'.client # u
    BY <1>1, <1>2, BeginDatoms DEF Refuse, CheckpointInv
  <2>3. QED
    BY <1>2, <1>5, <2>1, <2>2, WorkersStay
<1>9. QED
  BY <1>2, <1>4, <1>5, <1>7, <1>8 DEF CheckpointInv

\* A worker submits its movement.
LEMMA SubmitStep ==
    ASSUME CheckpointInv, NEW w \in Workers, NEW now \in Instants, Submit(w, now)
    PROVE  CheckpointInv' /\ Forward
<1> DEFINE j == job[w]
           req == IF j.phase = "init" THEN InitRequest(w) ELSE MoveRequest(w)
           wait == IF j.phase = "init" THEN "initWait" ELSE "updateWait"
           r == [j EXCEPT !.phase = wait]
<1>1. /\ j.phase \in {"init", "update"}
      /\ Begin(w, req, now) \/ Refuse(w, req, now)
      /\ Set(w, r)
  BY DEF Submit
<1>2. j \in Jobs /\ JobSound(j) /\ w \in Clients
  BY ConsumerAssumption DEF CheckpointInv
<1>3. j.next \in 0..MaxPosition
  BY <1>2 DEF Jobs
<1>4. \/ j.phase = "init" /\ req = InitReq(j.next)
      \/ /\ j.phase = "update" /\ req = MoveReq(j.known, j.next)
         /\ j.known \in CheckpointIds(store.datoms) /\ AtMost(store.datoms[j.known], j.next)
  BY <1>1, <1>2 DEF InitRequest, MoveRequest, InitReq, MoveReq, JobSound
<1>5. req \in Request /\ NoJournalWrites(req)
  <2> HIDE DEF req, j
  <2>1. \A k \in CheckpointIds(store.datoms) : k \in TripleIds
    BY DEF CheckpointIds, Ids
  <2>2. CASE req = InitReq(j.next)
    BY <1>3, <2>2, WorkerRequests
  <2>3. CASE req = MoveReq(j.known, j.next) /\ j.known \in CheckpointIds(store.datoms)
    <3>1. j.known \in TripleIds
      BY <2>1, <2>3
    <3>2. MoveReq(j.known, j.next) \in Request /\ NoJournalWrites(MoveReq(j.known, j.next))
      BY <1>3, <3>1, WorkerRequests
    <3>3. QED
      BY <2>3, <3>2
  <2>4. QED
    BY <1>4, <2>2, <2>3
<1>6. /\ r \in Jobs /\ r.phase = wait /\ r.purpose = j.purpose /\ r.next = j.next
      /\ r.known = j.known /\ r.expected = j.expected /\ r.answer = j.answer /\ r.ids = j.ids
  BY <1>2 DEF Jobs
<1>7. job' \in [Workers -> Jobs] /\ job'[w] = r /\ \A u \in Workers \ {w} : job'[u] = job[u]
  <2> HIDE DEF r
  <2>1. QED
    BY <1>1, <1>6 DEF Set, CheckpointInv
<1>8. store' = store /\ tx = NoTx
  BY <1>1 DEF Begin, Refuse
<1>9. CheckpointSound' /\ Forward
  BY <1>8, NothingMoves DEF CheckpointInv
<1>10. IInv'
  <2> HIDE DEF req
  <2>1. QED
    BY <1>1, <1>2, <1>5, BeginIInv, RefuseIInv DEF CheckpointInv
<1>11. /\ Begin(w, req, now) => /\ tx'.client = w /\ tx'.req = req /\ tx'.done = 0
                                /\ buffer'.datoms = store.datoms /\ result'[w] = None
       /\ Refuse(w, req, now) => tx' = NoTx /\ result'[w] # "Committed"
       /\ \A u \in Workers \ {w} : result'[u] = result[u]
  <2> HIDE DEF req
  <2>1. result \in [Clients -> Tags \cup {None}] /\ Workers \subseteq Clients
    BY ConsumerAssumption DEF CheckpointInv, IInv, TypeOK
  <2>2. Begin(w, req, now) => /\ tx'.client = w /\ tx'.req = req /\ tx'.done = 0
                              /\ buffer'.datoms = store.datoms
    BY BeginDatoms DEF CheckpointInv
  <2>3. Begin(w, req, now) => result'[w] = None
    BY <1>2, <2>1 DEF Begin
  <2>4. Refuse(w, req, now) => tx' = NoTx /\ result'[w] # "Committed"
    <3>1. Refusal(req, now) # "Committed"
      BY DEF Refusal, Tags
    <3>2. QED
      BY <1>2, <1>8, <2>1, <3>1 DEF Refuse, Return
  <2>5. \A u \in Workers \ {w} : result'[u] = result[u]
    BY <1>1, <2>1 DEF Begin, Refuse, Return
  <2>6. QED
    BY <2>2, <2>3, <2>4, <2>5
<1> HIDE DEF req, r, j, wait
<1>12. CheckpointRuns'
  <2>1. CASE Begin(w, req, now)
    <3>1. PICK n \in 0..MaxPosition : n = j.next
      BY <1>3
    <3>2. \/ tx'.req = InitReq(n)
          \/ \E k \in CheckpointIds(store'.datoms) :
                AtMost(store'.datoms[k], n) /\ tx'.req = MoveReq(k, n)
      BY <1>4, <1>8, <1>11, <2>1, <3>1
    <3>3. tx'.done = 0 /\ buffer'.datoms = store'.datoms /\ tx'.client = w
      BY <1>8, <1>11, <2>1
    <3>4. MovesTo(n)'
      BY <3>2, <3>3 DEF MovesTo
    <3>5. QED
      BY <3>3, <3>4 DEF CheckpointRuns
  <2>2. CASE Refuse(w, req, now)
    BY <1>11, <2>2 DEF CheckpointRuns
  <2>3. QED
    BY <1>1, <2>1, <2>2
<1>13. JobSound(job[w])' /\ WaitSound(w)'
  <2>1. /\ j.answer = None /\ j.purpose = "first" /\ j.next >= j.expected
        /\ j.phase = "update" =>
              j.known \in CheckpointIds(store.datoms) /\ AtMost(store.datoms[j.known], j.next)
    BY <1>1, <1>2 DEF JobSound
  <2>2. wait \in Waits /\ (wait = "initWait" <=> j.phase = "init")
        /\ (wait = "updateWait" <=> j.phase = "update")
    BY <1>1 DEF wait, Waits
  <2>3. JobSound(r)
    BY <1>6, <2>1, <2>2, ConsumerAssumption DEF JobSound, Waits
  <2>4. JobSound(job[w])'
    BY <1>7, <1>8, <2>3 DEF JobSound, Reached, Checkpoints, CheckpointFacts
  <2>5. result'[w] # "Committed"
    BY <1>1, <1>11 DEF Tags
  <2>6. tx' # NoTx => result'[w] = None /\ tx'.req = req
    BY <1>1, <1>11
  <2>7. req = IF wait = "initWait" THEN InitRequest(w) ELSE MoveRequest(w)
    BY <2>2 DEF req
  <2>8. InitRequest(w)' = InitRequest(w) /\ MoveRequest(w)' = MoveRequest(w)
    BY <1>6, <1>7 DEF InitRequest, MoveRequest, j
  <2>9. WaitSound(w)'
    BY <1>6, <1>7, <2>5, <2>6, <2>7, <2>8 DEF WaitSound
  <2>10. QED
    BY <2>4, <2>9
<1>14. ASSUME NEW u \in Workers \ {w} PROVE JobSound(job[u])' /\ WaitSound(u)'
  <2>1. tx' = NoTx \/ tx'.client # u
    BY <1>1, <1>11
  <2>2. QED
    BY <1>7, <1>9, <1>11, <2>1, WorkersStay
<1>15. QED
  BY <1>7, <1>9, <1>10, <1>12, <1>13, <1>14 DEF CheckpointInv

-----------------------------------------------------------------------------
(* The theorems. *)

LEMMA CheckpointInit == CInit => CheckpointInv
<1> SUFFICES ASSUME CInit PROVE CheckpointInv
  OBVIOUS
<1> USE ConsumerAssumption
<1>1. IInv
  BY InitIInv DEF CInit
<1>2. CheckpointIds(store.datoms) = {} /\ tx = NoTx
  BY DEF CInit, Init, NoStore, CheckpointIds, Ids
<1>3. job = [w \in Workers |-> Idle]
  BY DEF CInit
<1>4. Idle \in Jobs /\ Idle.phase = "idle" /\ Idle.purpose = None /\ Idle.answer = None
  BY DEF Idle, Jobs, Answers
<1>5. job \in [Workers -> Jobs]
  BY <1>3, <1>4
<1>6. \A w \in Workers : JobSound(job[w]) /\ WaitSound(w)
  BY <1>3, <1>4 DEF JobSound, WaitSound
<1>7. QED
  BY <1>1, <1>2, <1>5, <1>6 DEF CheckpointInv, CheckpointSound, CheckpointRuns

LEMMA CheckpointNext ==
    ASSUME CheckpointInv, [CNext]_cvars
    PROVE  CheckpointInv' /\ Forward
<1>1. CASE store' = store
  <2>1. Forward
    BY <1>1, NothingMoves DEF CheckpointInv
  <2>2. ASSUME NEW w \in Workers, Get(w) \/ Repeat(w) \/ Crash(w) \/ Call(w)
        PROVE  CheckpointInv'
    BY <2>2, LocalSteps, LoadSteps, FeedStep, SettleStep DEF Call
  <2>3. CASE UNCHANGED cvars
    <3>1. UNCHANGED <<store, buffer, tx, result>> /\ job' = job
      BY <2>3 DEF cvars
    <3>2. IInv' /\ CheckpointSound'
      BY <1>1, <3>1, AnswerIInv, NothingMoves DEF CheckpointInv, IInv, TypeOK
    <3>3. CheckpointRuns'
      BY <3>1 DEF CheckpointInv, CheckpointRuns, MovesTo, LeavesCheckpoint
    <3>4. ASSUME NEW u \in Workers PROVE JobSound(job[u])' /\ WaitSound(u)'
      <4>1. WaitSound(u)
        BY DEF CheckpointInv
      <4>2. QED
        BY <2>1, <3>1, <4>1, WorkersStay DEF WaitSound, Waits
    <3>5. QED
      BY <2>1, <3>1, <3>2, <3>3, <3>4 DEF CheckpointInv
  <2>4. QED
    BY <2>1, <2>2, <2>3, TransactionStep, AppendStep, SubmitStep DEF CNext, TakeBoundary
<1>2. CASE store' # store
  <2>1. Transaction \/ AppendFeed \/ \E w \in Workers, now \in Instants : Submit(w, now)
    BY <1>2 DEF CNext, cvars, Get, Repeat, Crash, Call, ReadRange, ReadMeta, ReadFeed, CheckLatest,
                Settle, Quiet, TakeBoundary
  <2>2. QED
    BY <2>1, TransactionStep, AppendStep, SubmitStep
<1>3. QED
  BY <1>1, <1>2

\* The inductive invariant of the consumer holds in every reachable state.
THEOREM CheckpointInvariance == CSpec => []CheckpointInv
BY CheckpointInit, CheckpointNext, PTL DEF CSpec

\* Whatever the workers do at once, the persisted checkpoint is absent or one
\* name with one position, and a call answered "Moved" is right.
THEOREM CheckpointIsOne == CSpec => []OneCheckpoint
<1>1. CheckpointInv => OneCheckpoint
  <2> SUFFICES ASSUME CheckpointInv PROVE OneCheckpoint
    OBVIOUS
  <2>1. /\ Cardinality(CheckpointFacts(PositionAttribute)) <= 1
        /\ Cardinality(CheckpointFacts(NameAttribute)) = Cardinality(CheckpointFacts(PositionAttribute))
    <3>1. CASE CheckpointIds(store.datoms) = {}
      BY <3>1, NoFacts, FS_EmptySet
    <3>2. ASSUME NEW v \in 0..MaxPosition, WholeAt(store.datoms, v)
          PROVE  /\ Cardinality(CheckpointFacts(PositionAttribute)) = 1
                 /\ Cardinality(CheckpointFacts(NameAttribute)) = 1
      <4>1. /\ \E m : CheckpointFacts(NameAttribute) = {m}
            /\ \E q : CheckpointFacts(PositionAttribute) = {q}
        <5>1. \A a : CheckpointFacts(a) = LiveFactsOf(store.datoms, a)
          BY DEF CheckpointFacts, LiveFactsOf
        <5>2. QED
          BY <3>2, <5>1, WholeFacts
      <4>2. QED
        BY <4>1, FS_Singleton
    <3>3. QED
      BY <3>1, <3>2 DEF CheckpointInv, CheckpointSound
  <2>2. \A w \in Workers : job[w].answer = "Moved" => Reached(job[w].next)
    BY DEF CheckpointInv, JobSound
  <2>3. QED
    BY <2>1, <2>2 DEF OneCheckpoint, Reached
<1>2. QED
  BY <1>1, CheckpointInvariance, PTL

\* The checkpoint never moves backwards and never disappears, whatever stale,
\* repeated or late movements arrive (ConsumerCheckpoint.advance).
THEOREM CheckpointNeverRegresses == CSpec => CheckpointMovesForward
<1> DEFINE Moves == \A p \in Checkpoints : \E q \in Checkpoints' : q >= p
<1>1. CheckpointInv /\ [CNext]_cvars => Moves
  <2> SUFFICES ASSUME CheckpointInv, [CNext]_cvars, NEW p \in Checkpoints
               PROVE  \E q \in Checkpoints' : q >= p
    OBVIOUS
  <2>1. Forward
    BY CheckpointNext
  <2>2. PICK v \in 0..MaxPosition : WholeAt(store.datoms, v)
    BY NoFacts DEF CheckpointInv, CheckpointSound
  <2>3. p = v
    BY <2>2, WholeValue
  <2>4. Reached(p)'
    BY <2>1, <2>2, <2>3 DEF Forward, Reached
  <2>5. QED
    BY <2>4 DEF Reached
<1>2. QED
  BY <1>1, CheckpointInvariance, PTL DEF CSpec, CheckpointMovesForward

-----------------------------------------------------------------------------
(***************************************************************************)
(* At-least-once delivery.  A worker reads the TYPE index page by page     *)
(* while others commit, so it sees a prefix of the journal in key order.   *)
(* That is a prefix in commit order when the keys are drawn in that order, *)
(* as the identifiers of one process are; the theorem states it as its     *)
(* hypothesis.                                                             *)
(***************************************************************************)
Position(i) == store.datoms[i].value.value.position

KeysInCommitOrder ==
    \A i, j \in JournalIds(store.datoms) : Position(i) < Position(j) => KeyOrder[i] < KeyOrder[j]

\* A range read that returns fewer keys than asked for returns them all.
LEMMA ShortPage ==
    ASSUME NEW seen, Cardinality(NextKeys(seen)) # RangePageSize
    PROVE  NextKeys(seen)
             = {i \in JournalIds(store.datoms) : \A j \in seen : KeyOrder[i] > KeyOrder[j]}
<1> DEFINE rest == {i \in JournalIds(store.datoms) : \A j \in seen : KeyOrder[i] > KeyOrder[j]}
           Below(i) == {j \in rest : KeyOrder[j] < KeyOrder[i]}
           keys == NextKeys(seen)
<1>1. keys = {i \in rest : Cardinality(Below(i)) < RangePageSize}
  BY DEF NextKeys
<1>2. /\ rest \subseteq TripleIds /\ IsFiniteSet(rest)
      /\ \A i \in TripleIds : KeyOrder[i] \in Nat
      /\ \A i, j \in TripleIds : KeyOrder[i] = KeyOrder[j] => i = j
      /\ RangePageSize \in Nat
  BY FeedAssumption, FS_Subset DEF JournalIds, LiveIds, Ids
<1>3. \A T \in SUBSET rest : IsFiniteSet(T) /\ Cardinality(T) \in Nat
  BY <1>2, FS_Subset, FS_CardinalityType
<1> HIDE DEF rest, keys
<1>4. keys \subseteq rest
  BY <1>1
<1>5. Cardinality(keys) <= RangePageSize
  <2>1. CASE keys = {}
    BY <1>2, <2>1, FS_EmptySet
  <2>2. CASE keys # {}
    <3>1. PICK m \in keys : \A y \in keys : KeyOrder[m] >= KeyOrder[y]
      BY <1>2, <1>3, <1>4, <2>2, GreatestRank
    <3>2. keys \subseteq Below(m) \cup {m}
      BY <1>2, <1>4, <3>1
    <3>3. m \in rest /\ Cardinality(Below(m)) < RangePageSize
      BY <1>1, <3>1
    <3>4. IsFiniteSet(Below(m)) /\ Cardinality(Below(m)) \in Nat
      BY <1>3
    <3>5. /\ IsFiniteSet(Below(m) \cup {m})
          /\ Cardinality(Below(m) \cup {m}) <= Cardinality(Below(m)) + 1
      <4> HIDE DEF Below
      <4>1. /\ IsFiniteSet(Below(m) \cup {m})
            /\ Cardinality(Below(m) \cup {m})
                 = IF m \in Below(m) THEN Cardinality(Below(m)) ELSE Cardinality(Below(m)) + 1
        BY <3>4, FS_AddElement
      <4>2. QED
        BY <3>4, <4>1
    <3>6. Cardinality(keys) <= Cardinality(Below(m) \cup {m})
      BY <3>2, <3>5, FS_Subset
    <3>7. Cardinality(keys) \in Nat /\ Cardinality(Below(m) \cup {m}) \in Nat
      BY <1>3, <1>4, <3>5, FS_CardinalityType
    <3> HIDE DEF Below
    <3>8. QED
      BY <1>2, <3>3, <3>4, <3>5, <3>6, <3>7
  <2>3. QED
    BY <2>1, <2>2
<1>6. ASSUME NEW i \in rest, i \notin keys PROVE FALSE
  <2> DEFINE out == rest \ keys
             near == {x \in out : KeyOrder[x] <= KeyOrder[i]}
             g == [x \in near |-> KeyOrder[i] - KeyOrder[x]]
  <2>1. IsFiniteSet(near) /\ i \in near /\ near \subseteq TripleIds /\ near \subseteq rest
    <3>1. near \subseteq rest /\ near \subseteq TripleIds
      BY <1>2
    <3>2. i \in TripleIds /\ KeyOrder[i] <= KeyOrder[i]
      BY <1>2
    <3>3. IsFiniteSet(near)
      BY <1>3, <3>1
    <3>4. QED
      BY <1>6, <3>1, <3>2, <3>3
  <2>2. \A x \in near : g[x] \in Nat /\ g[x] = KeyOrder[i] - KeyOrder[x]
    BY <1>2, <2>1
  <2> HIDE DEF g
  <2>3. PICK m \in near : \A y \in near : g[m] >= g[y]
    BY <2>1, <2>2, GreatestRank
  <2>4. m \in rest /\ m \notin keys /\ \A y \in near : KeyOrder[m] <= KeyOrder[y]
    BY <1>2, <2>1, <2>2, <2>3
  <2>5. Below(m) \subseteq keys
    <3>1. \A j \in Below(m) : j \notin keys => j \in near
      BY <1>2, <2>1, <2>4
    <3>2. \A j \in Below(m) : j \in rest /\ KeyOrder[j] < KeyOrder[m]
      OBVIOUS
    <3>3. \A j \in rest : ~ (KeyOrder[j] < KeyOrder[m] /\ KeyOrder[m] <= KeyOrder[j])
      BY <1>2, <2>4
    <3> HIDE DEF Below, near
    <3>4. QED
      BY <2>4, <3>1, <3>2, <3>3
  <2>6. ~ (Cardinality(Below(m)) < RangePageSize)
    BY <1>1, <2>4
  <2>7. /\ IsFiniteSet(keys) /\ Cardinality(keys) \in Nat
        /\ Cardinality(Below(m)) \in Nat /\ Cardinality(Below(m)) <= Cardinality(keys)
    BY <1>3, <1>4, <2>5, FS_Subset
  <2> HIDE DEF Below
  <2>8. QED
    BY <1>2, <1>5, <2>6, <2>7 DEF keys
<1>7. keys = rest
  BY <1>4, <1>6
<1>8. QED
  BY <1>7 DEF keys, rest

\* The effects of every record up to p were completed.
Delivered(p) ==
    /\ p <= store.position
    /\ \A i \in JournalIds(store.datoms) : Position(i) <= p => Position(i) \in processed

\* The keys a worker has read are a prefix of the index.
PrefixRead(j) ==
    j.phase = "feed" =>
        /\ j.ids \subseteq JournalIds(store.datoms)
        /\ \A i \in j.ids, k \in JournalIds(store.datoms) : KeyOrder[k] <= KeyOrder[i] => k \in j.ids

\* Every position a worker, its transaction or the checkpoint holds is delivered.
JobDelivered(j) == Delivered(j.next) /\ Delivered(j.expected) /\ PrefixRead(j)

DeliveryInv ==
    /\ CheckpointInv /\ JournalKept
    /\ \A p \in Checkpoints : Delivered(p)
    /\ tx # NoTx /\ tx.client \in Workers =>
          \A n \in 0..MaxPosition : Target(n) => Delivered(n)
    /\ \A w \in Workers : JobDelivered(job[w])

LEMMA JournalPositions ==
    ASSUME IInv, NEW i \in JournalIds(store.datoms)
    PROVE  /\ i \in TripleIds /\ Position(i) \in Positions /\ Position(i) \in Nat
           /\ Position(i) >= 1 /\ Position(i) <= store.position
<1>1. i \in RecordIds(store.datoms) /\ i \in Ids(store.datoms) /\ i \in TripleIds
  BY DEF JournalIds, LiveIds, RecordIds, Ids
<1>2. RecordTrue(store.datoms, store.receipts, i)
  BY <1>1 DEF IInv, StoreSound, JournalTrue
<1>3. Position(i) = store.datoms[i].recordedPosition /\ store.datoms[i].recordedPosition <= store.position
  BY <1>1, <1>2 DEF RecordTrue, Position, IInv, StoreSound, PositionsWithin
<1>4. store.datoms[i] \in Datoms
  BY <1>1, StoreParts DEF IInv, TypeOK
<1>5. QED
  BY <1>1, <1>3, <1>4, DatomParts DEF Positions

LEMMA DeliveredBelow ==
    ASSUME IInv, NEW p \in Nat, Delivered(p), NEW x \in Nat, x <= p
    PROVE  Delivered(x)
<1>1. store.position \in Nat /\ \A i \in JournalIds(store.datoms) : Position(i) \in Nat
  BY StoreParts, JournalPositions DEF IInv, TypeOK
<1>2. QED
  BY <1>1 DEF Delivered

LEMMA NothingDelivered ==
    ASSUME IInv
    PROVE  Delivered(0)
<1>1. store.position \in Nat /\ \A i \in JournalIds(store.datoms) : Position(i) \in Nat /\ Position(i) >= 1
  BY StoreParts, JournalPositions DEF IInv, TypeOK
<1>2. QED
  BY <1>1 DEF Delivered

\* What the checkpoint passed is delivered.
LEMMA ReachedDelivered ==
    ASSUME DeliveryInv, NEW x \in 0..MaxPosition, Reached(x)
    PROVE  Delivered(x)
<1>1. PICK p \in Checkpoints : p >= x
  BY DEF Reached
<1>2. PICK v \in 0..MaxPosition : WholeAt(store.datoms, v)
  BY NoFacts DEF DeliveryInv, CheckpointInv, CheckpointSound
<1>3. p = v
  BY <1>2, WholeValue
<1>4. p \in Nat /\ x \in Nat /\ x <= p /\ Delivered(p)
  BY <1>1, <1>3 DEF DeliveryInv
<1>5. QED
  BY <1>4, DeliveredBelow DEF DeliveryInv, CheckpointInv

\* A step outside the store keeps what was delivered.
LEMMA DeliveredStays ==
    ASSUME store' = store, processed \subseteq processed', NEW p, Delivered(p)
    PROVE  Delivered(p)'
BY DEF Delivered, Position

LEMMA DeliverStep ==
    ASSUME DeliveryInv, CheckpointInv', UNCHANGED <<store, buffer, tx, result>>,
           processed \subseteq processed', NEW w \in Workers, NEW r, Set(w, r),
           Delivered(r.next)', Delivered(r.expected)', PrefixRead(r)
    PROVE  DeliveryInv'
<1>1. store' = store /\ buffer' = buffer /\ tx' = tx /\ job' = [job EXCEPT ![w] = r]
  BY DEF Set
<1>2. \A p : Delivered(p) => Delivered(p)'
  BY <1>1, DeliveredStays
<1>3. JournalKept'
  BY <1>1 DEF DeliveryInv, JournalKept, SparesJournal
<1>4. Checkpoints' = Checkpoints
  BY <1>1 DEF Checkpoints, CheckpointFacts
<1>5. tx' # NoTx /\ tx'.client \in Workers =>
         \A n \in 0..MaxPosition : Target(n)' => Delivered(n)'
  BY <1>1, <1>2 DEF DeliveryInv, Target
<1>6. job'[w] = r /\ \A u \in Workers \ {w} : job'[u] = job[u]
  BY <1>1 DEF DeliveryInv, CheckpointInv
<1>7. ASSUME NEW u \in Workers PROVE JobDelivered(job[u])'
  <2>1. CASE u = w
    BY <1>1, <1>6, <2>1 DEF JobDelivered, PrefixRead, Delivered, Position
  <2>2. CASE u # w
    <3>1. JobDelivered(job[u]) /\ job'[u] = job[u]
      BY <1>6, <2>2 DEF DeliveryInv
    <3>2. PrefixRead(job[u])'
      BY <1>1, <3>1 DEF JobDelivered, PrefixRead
    <3>3. Delivered(job[u].next)' /\ Delivered(job[u].expected)'
      BY <1>1, <3>1 DEF JobDelivered, Delivered, Position
    <3>4. QED
      BY <3>2, <3>3 DEF JobDelivered
  <2>3. QED
    BY <2>1, <2>2
<1>8. QED
  BY <1>2, <1>3, <1>4, <1>5, <1>7 DEF DeliveryInv

\* A local step that takes no key with it and no position but delivered ones.
LEMMA PlainStep ==
    ASSUME DeliveryInv, CheckpointInv', Quiet, NEW w \in Workers, NEW r, Set(w, r),
           r.next = job[w].next \/ r.next = 0,
           r.expected = job[w].expected \/ r.expected = 0 \/ Delivered(r.expected),
           r.phase = "feed" => r.ids = {}
    PROVE  DeliveryInv'
<1>1. IInv /\ JobDelivered(job[w])
  BY DEF DeliveryInv, CheckpointInv
<1>2. Delivered(r.next) /\ Delivered(r.expected) /\ PrefixRead(r)
  BY <1>1, NothingDelivered DEF JobDelivered, PrefixRead
<1>3. store' = store /\ processed' = processed /\ UNCHANGED <<store, buffer, tx, result>>
  BY DEF Quiet
<1>4. \A p : Delivered(p) => Delivered(p)'
  BY <1>3, DeliveredStays
<1>5. Delivered(r.next)' /\ Delivered(r.expected)'
  BY <1>2, <1>3 DEF Delivered, Position
<1>6. QED
  BY <1>2, <1>3, <1>5, DeliverStep

LEMMA PlainAnswer ==
    ASSUME DeliveryInv, CheckpointInv', Quiet, NEW w \in Workers, NEW answer, Answer(w, answer)
    PROVE  DeliveryInv'
<1> DEFINE r == [Idle EXCEPT !.expected = job[w].expected, !.next = job[w].next, !.answer = answer]
<1>1. Set(w, r)
  BY DEF Answer
<1>2. r.next = job[w].next /\ r.expected = job[w].expected /\ r.phase # "feed"
  BY DEF Idle
<1> HIDE DEF r
<1>3. QED
  BY <1>1, <1>2, PlainStep

LEMMA PlainRead ==
    ASSUME DeliveryInv, CheckpointInv', Quiet, NEW w \in Workers, NEW purpose, StartRead(w, purpose)
    PROVE  DeliveryInv'
<1> DEFINE r == [job[w] EXCEPT !.phase = "range", !.purpose = purpose, !.ids = {}]
<1>1. Set(w, r)
  BY DEF StartRead
<1>2. job[w] \in Jobs
  BY DEF DeliveryInv, CheckpointInv
<1>3. r.next = job[w].next /\ r.expected = job[w].expected /\ r.phase # "feed"
  BY <1>2 DEF Jobs
<1> HIDE DEF r
<1>4. QED
  BY <1>1, <1>3, PlainStep

LEMMA PlainContinue ==
    ASSUME DeliveryInv, CheckpointInv', Quiet, NEW w \in Workers, NEW l, Loaded(l), Continue(w, l)
    PROVE  DeliveryInv'
<1> DEFINE j == job[w]
           feed == [j EXCEPT !.phase = "feed", !.ids = {}, !.expected = l.position]
           init == [j EXCEPT !.phase = "init"]
           update == [j EXCEPT !.phase = "update", !.known = l.id]
<1>1. j \in Jobs
  BY DEF DeliveryInv, CheckpointInv
<1>2. /\ feed.next = j.next /\ feed.expected = l.position /\ feed.ids = {}
      /\ init.next = j.next /\ init.expected = j.expected /\ init.phase # "feed"
      /\ update.next = j.next /\ update.expected = j.expected /\ update.phase # "feed"
  BY <1>1 DEF Jobs
<1>3. CASE \E answer : Answer(w, answer)
  BY <1>3, PlainAnswer
<1>4. CASE \E purpose : StartRead(w, purpose)
  BY <1>4, PlainRead
<1>5. CASE Set(w, feed) /\ l.found # "corrupt"
  <2>1. CASE l.found = "one"
    <3>1. Delivered(l.position)
      BY <2>1, ReachedDelivered DEF Loaded
    <3> HIDE DEF feed
    <3>2. QED
      BY <1>2, <1>5, <3>1, PlainStep
  <2>2. CASE l.position = 0
    <3> HIDE DEF feed
    <3>1. QED
      BY <1>2, <1>5, <2>2, PlainStep
  <2>3. QED
    BY <1>5, <2>1, <2>2 DEF Loaded
<1>6. CASE Set(w, init)
  <2> HIDE DEF init
  <2>1. QED
    BY <1>2, <1>6, PlainStep
<1>7. CASE Set(w, update)
  <2> HIDE DEF update
  <2>1. QED
    BY <1>2, <1>7, PlainStep
<1>8. l.found = "corrupt" => Answer(w, "Corrupt")
  BY DEF Continue
<1>9. CASE l.found # "corrupt"
  <2> HIDE DEF Answer, StartRead, Set
  <2>1. CASE j.purpose = "get"
    BY <1>5, <1>9, <2>1 DEF Continue
  <2>2. CASE j.purpose = "first"
    BY <1>3, <1>6, <1>7, <1>9, <2>2 DEF Continue
  <2>3. CASE j.purpose = "winner"
    BY <1>3, <1>4, <1>9, <2>3 DEF Continue
  <2>4. CASE j.purpose \notin {"get", "first", "winner"}
    BY <1>3, <1>9, <2>4 DEF Continue
  <2>5. QED
    BY <2>1, <2>2, <2>3, <2>4
<1>10. QED
  BY <1>3, <1>8, <1>9

LEMMA PlainSteps ==
    ASSUME DeliveryInv, NEW w \in Workers,
           \/ Get(w) \/ Repeat(w) \/ Crash(w) \/ CheckLatest(w) \/ Settle(w)
           \/ ReadRange(w) \/ \E now \in Instants : ReadMeta(w, now)
    PROVE  DeliveryInv'
<1> DEFINE j == job[w]
           C == CheckpointIds(store.datoms)
<1>1. CheckpointInv /\ j \in Jobs /\ JobSound(j) /\ CheckpointSound
  BY DEF DeliveryInv, CheckpointInv
<1>2. CheckpointInv' /\ Quiet
  BY <1>1, LocalSteps, LoadSteps, SettleStep DEF Get, Repeat, Crash, CheckLatest, Settle, ReadRange,
     ReadMeta
<1>3. ASSUME NEW rows \in SUBSET C, Continue(w, readLoaded(rows)) PROVE DeliveryInv'
  <2> DEFINE l == readLoaded(rows)
  <2>1. Loaded(l) /\ Continue(w, l)
    BY <1>1, <1>3, LoadedFacts
  <2> HIDE DEF l
  <2>2. QED
    BY <1>2, <2>1, PlainContinue
<1>4. ASSUME NEW r, Set(w, r), r.next = j.next \/ r.next = 0,
             r.expected = j.expected \/ r.expected = 0, r.phase # "feed"
      PROVE  DeliveryInv'
  BY <1>2, <1>4, PlainStep
<1>5. CASE Get(w)
  <2> DEFINE r == [Idle EXCEPT !.phase = "range", !.purpose = "get"]
  <2>1. Set(w, r) /\ r.next = 0 /\ r.expected = 0 /\ r.phase # "feed"
    BY <1>5 DEF Get, Idle
  <2> HIDE DEF r
  <2>2. QED
    BY <1>4, <2>1
<1>6. CASE Repeat(w)
  <2> DEFINE r == [j EXCEPT !.phase = "latest", !.answer = None]
  <2>1. Set(w, r) /\ r.next = j.next /\ r.expected = j.expected /\ r.phase # "feed"
    BY <1>1, <1>6 DEF Repeat, Jobs
  <2> HIDE DEF r
  <2>2. QED
    BY <1>4, <2>1
<1>7. CASE Crash(w)
  <2>1. Set(w, Idle) /\ Idle.next = 0 /\ Idle.expected = 0 /\ Idle.phase # "feed"
    BY <1>7 DEF Crash, Idle
  <2>2. QED
    BY <1>4, <2>1
<1>8. CASE CheckLatest(w)
  <2>1. Answer(w, "Invalid") \/ StartRead(w, "first")
    BY <1>8 DEF CheckLatest
  <2>2. QED
    BY <1>2, <2>1, PlainAnswer, PlainRead
<1>9. CASE Settle(w)
  <2>1. StartRead(w, "final") \/ StartRead(w, "winner") \/ Answer(w, "Error")
    BY <1>9 DEF Settle
  <2>2. QED
    BY <1>2, <2>1, PlainAnswer, PlainRead
<1>10. CASE ReadRange(w)
  <2> DEFINE r == [j EXCEPT !.phase = "meta", !.ids = C]
  <2>1. Continue(w, readLoaded({})) \/ Set(w, r)
    BY <1>10 DEF ReadRange, CheckpointIds
  <2>2. r.next = j.next /\ r.expected = j.expected /\ r.phase # "feed"
    BY <1>1 DEF Jobs
  <2> HIDE DEF r
  <2>3. QED
    BY <1>3, <1>4, <2>1, <2>2
<1>11. ASSUME NEW now \in Instants, ReadMeta(w, now) PROVE DeliveryInv'
  <2>1. \E rows \in SUBSET j.ids : Continue(w, readLoaded(rows))
    BY <1>11 DEF ReadMeta
  <2>2. j.ids \subseteq C
    BY <1>1, <1>11 DEF ReadMeta, JobSound
  <2>3. QED
    BY <1>3, <2>1, <2>2
<1>12. QED
  BY <1>5, <1>6, <1>7, <1>8, <1>9, <1>10, <1>11

-----------------------------------------------------------------------------
(* Reading the feed. *)

\* The unread part of the index after a prefix of it.
LEMMA RestOfIndex ==
    ASSUME NEW j, PrefixRead(j), j.phase = "feed"
    PROVE  {i \in JournalIds(store.datoms) : \A k \in j.ids : KeyOrder[i] > KeyOrder[k]}
             = JournalIds(store.datoms) \ j.ids
<1> DEFINE J == JournalIds(store.datoms)
<1>1. J \subseteq TripleIds /\ \A i \in TripleIds : KeyOrder[i] \in Nat
  BY FeedAssumption DEF JournalIds, LiveIds, Ids
<1>2. j.ids \subseteq J /\ \A i \in j.ids, k \in J : KeyOrder[k] <= KeyOrder[i] => k \in j.ids
  BY DEF PrefixRead
<1> HIDE DEF J
<1>3. /\ \A x, y \in TripleIds : KeyOrder[x] > KeyOrder[y] <=> ~ (KeyOrder[x] <= KeyOrder[y])
      /\ \A x \in TripleIds : KeyOrder[x] <= KeyOrder[x]
  BY <1>1
<1>4. \A i \in J : (\A k \in j.ids : KeyOrder[i] > KeyOrder[k]) => i \notin j.ids
  BY <1>1, <1>3
<1>5. \A i \in J : i \notin j.ids => \A k \in j.ids : KeyOrder[i] > KeyOrder[k]
  BY <1>1, <1>2, <1>3
<1>6. QED
  BY <1>4, <1>5 DEF J

\* A further page makes a longer prefix.
LEMMA PrefixGrows ==
    ASSUME NEW j, PrefixRead(j), j.phase = "feed"
    PROVE  /\ j.ids \cup NextKeys(j.ids) \subseteq JournalIds(store.datoms)
           /\ \A i \in j.ids \cup NextKeys(j.ids), k \in JournalIds(store.datoms) :
                 KeyOrder[k] <= KeyOrder[i] => k \in j.ids \cup NextKeys(j.ids)
<1> DEFINE J == JournalIds(store.datoms)
           rest == J \ j.ids
           keys == NextKeys(j.ids)
           Below(i) == {k \in rest : KeyOrder[k] < KeyOrder[i]}
<1>1. /\ J \subseteq TripleIds /\ IsFiniteSet(J) /\ RangePageSize \in Nat
      /\ \A i \in TripleIds : KeyOrder[i] \in Nat
  BY FeedAssumption, FS_Subset DEF JournalIds, LiveIds, Ids
<1>2. j.ids \subseteq J /\ \A i \in j.ids, k \in J : KeyOrder[k] <= KeyOrder[i] => k \in j.ids
  BY DEF PrefixRead
<1>3. keys = {i \in rest : Cardinality(Below(i)) < RangePageSize}
  BY RestOfIndex DEF NextKeys
<1>4. \A T \in SUBSET J : IsFiniteSet(T) /\ Cardinality(T) \in Nat
  BY <1>1, FS_Subset, FS_CardinalityType
<1> HIDE DEF J, keys
<1>5. ASSUME NEW i \in keys, NEW k \in rest, KeyOrder[k] <= KeyOrder[i] PROVE k \in keys
  <2>1. Below(k) \subseteq Below(i) /\ Below(i) \subseteq J
    <3>1. i \in TripleIds /\ k \in TripleIds /\ \A x \in rest : x \in TripleIds
      BY <1>1, <1>3
    <3>2. \A x \in rest : KeyOrder[x] < KeyOrder[k] => KeyOrder[x] < KeyOrder[i]
      <4> HIDE DEF rest
      <4>1. QED
        BY <1>1, <1>5, <3>1
    <3>3. QED
      BY <3>2
  <2>2. IsFiniteSet(Below(i)) /\ Cardinality(Below(i)) \in Nat /\ Cardinality(Below(k)) \in Nat
    BY <1>4, <2>1
  <2>3. Cardinality(Below(k)) <= Cardinality(Below(i))
    BY <2>1, <2>2, FS_Subset
  <2>4. Cardinality(Below(i)) < RangePageSize
    BY <1>3, <1>5
  <2> HIDE DEF Below
  <2>5. Cardinality(Below(k)) < RangePageSize
    BY <1>1, <2>2, <2>3, <2>4
  <2>6. QED
    BY <1>3, <1>5, <2>5
<1>6. keys \subseteq rest
  BY <1>3
<1>7. QED
  BY <1>2, <1>5, <1>6 DEF J, keys

\* A page over the whole journal leaves out no record up to its last one.
LEMMA PageComplete ==
    ASSUME IInv, NEW after \in Nat, NEW m \in FeedPage(JournalIds(store.datoms), after)
    PROVE  /\ m \in Nat /\ m <= store.position
           /\ \A i \in JournalIds(store.datoms) : after < Position(i) /\ Position(i) <= m =>
                 Position(i) \in FeedPage(JournalIds(store.datoms), after)
<1> DEFINE J == JournalIds(store.datoms)
           Rec(i) == store.datoms[i].value.value
           records == {Rec(i) : i \in J}
           Below(q) == {s \in records : s.position > after /\ s.position < q.position}
           page == FeedPage(J, after)
<1>1. page = {r.position : r \in {q \in records : q.position > after /\ Cardinality(Below(q)) < FeedLimit}}
  BY DEF FeedPage
<1>2. \A i \in J : Rec(i).position = Position(i) /\ Position(i) \in Nat /\ Position(i) <= store.position
  BY JournalPositions DEF Position
<1>3. \A r \in records : r.position \in Nat /\ r.position <= store.position
  BY <1>2
<1>4. IsFiniteSet(records) /\ FeedLimit \in Nat
  <2> DEFINE f == [i \in J |-> Rec(i)]
  <2>1. J \subseteq TripleIds /\ IsFiniteSet(J)
    BY FeedAssumption, FS_Subset DEF JournalIds, LiveIds, Ids
  <2>2. f \in Surjection(J, records)
    <3>1. f \in [J -> records] /\ \A y \in records : \E x \in J : f[x] = y
      OBVIOUS
    <3> HIDE DEF f, records, J
    <3>2. QED
      BY <3>1 DEF Surjection
  <2> HIDE DEF f, records, J
  <2>3. QED
    BY <2>1, <2>2, FS_Surjection, FeedAssumption
<1>5. PICK q \in records : m = q.position /\ q.position > after /\ Cardinality(Below(q)) < FeedLimit
  BY <1>1
<1>6. ASSUME NEW r \in records, after < r.position, r.position <= m PROVE r.position \in page
  <2>1. Below(r) \subseteq Below(q) /\ Below(q) \subseteq records
    <3> HIDE DEF records
    <3>1. QED
      BY <1>3, <1>5, <1>6
  <2>2. /\ IsFiniteSet(Below(q)) /\ Cardinality(Below(q)) \in Nat /\ Cardinality(Below(r)) \in Nat
        /\ Cardinality(Below(r)) <= Cardinality(Below(q))
    <3> HIDE DEF records, Below
    <3>1. IsFiniteSet(Below(q))
      BY <1>4, <2>1, FS_Subset
    <3>2. QED
      BY <2>1, <3>1, FS_Subset, FS_CardinalityType
  <2>3. Cardinality(Below(r)) < FeedLimit
    <3> HIDE DEF records, Below
    <3>1. QED
      BY <1>4, <1>5, <2>2
  <2>4. r.position > after
    <3> HIDE DEF records
    <3>1. QED
      BY <1>3, <1>6
  <2> HIDE DEF records, Below, page
  <2>5. QED
    BY <1>1, <1>6, <2>3, <2>4
<1>7. \A i \in J : Rec(i) \in records
  OBVIOUS
<1> HIDE DEF records, page, Rec
<1>8. QED
  BY <1>2, <1>3, <1>5, <1>6, <1>7 DEF page

LEMMA FeedDelivers ==
    ASSUME DeliveryInv, NEW w \in Workers, ReadFeed(w)
    PROVE  DeliveryInv'
<1>0. PICK j : j = job[w]
  OBVIOUS
<1> DEFINE J == JournalIds(store.datoms)
           keys == NextKeys(j.ids)
           ids == j.ids \cup keys
           page == FeedPage(ids, j.expected)
<1>1. /\ CheckpointInv /\ IInv /\ j \in Jobs /\ j.phase = "feed" /\ JobDelivered(j)
      /\ Delivered(j.next) /\ Delivered(j.expected) /\ PrefixRead(j)
  BY <1>0 DEF DeliveryInv, CheckpointInv, ReadFeed, JobDelivered
<1>2. UNCHANGED <<store, buffer, tx, result>> /\ CheckpointInv' /\ store' = store
  BY <1>1, FeedStep DEF ReadFeed
<1>3. j.expected \in Nat /\ j.next \in Nat
  BY <1>1 DEF Jobs
<1>4. CASE Cardinality(keys) = RangePageSize
  <2>0. PICK r : r = [j EXCEPT !.ids = ids]
    OBVIOUS
  <2>1. Set(w, r) /\ processed' = processed
    BY <1>0, <1>4, <2>0 DEF ReadFeed
  <2>2. r.phase = "feed" /\ r.ids = ids /\ r.next = j.next /\ r.expected = j.expected
    BY <1>1, <2>0 DEF Jobs
  <2>3. /\ ids \subseteq J
        /\ \A i \in ids, k \in J : KeyOrder[k] <= KeyOrder[i] => k \in ids
    BY <1>1, PrefixGrows
  <2> HIDE DEF ids
  <2>4. PrefixRead(r)
    BY <2>2, <2>3 DEF PrefixRead
  <2>5. Delivered(r.next)' /\ Delivered(r.expected)'
    BY <1>1, <1>2, <2>1, <2>2 DEF Delivered, Position
  <2>6. QED
    BY <1>2, <2>1, <2>4, <2>5, DeliverStep
<1>5. CASE Cardinality(keys) # RangePageSize
  <2>1. /\ processed' = processed \cup page
        /\ \/ Set(w, Idle)
           \/ page # {} /\ Set(w, [j EXCEPT !.phase = "latest", !.ids = {}, !.next = Max(page)])
    BY <1>0, <1>5 DEF ReadFeed
  <2>2. ids = J
    <3>1. keys = J \ j.ids /\ j.ids \subseteq J
      BY <1>1, <1>5, ShortPage, RestOfIndex DEF PrefixRead
    <3>2. QED
      BY <3>1
  <2>3. \A p : Delivered(p) => Delivered(p)'
    BY <1>2, <2>1 DEF Delivered, Position
  <2>4. CASE Set(w, Idle)
    <3>1. Idle.next = 0 /\ Idle.expected = 0 /\ Idle.phase # "feed"
      BY DEF Idle
    <3>2. Delivered(0)' /\ PrefixRead(Idle)
      BY <1>1, <2>3, <3>1, NothingDelivered DEF PrefixRead
    <3>3. Delivered(Idle.next)' /\ Delivered(Idle.expected)'
      BY <3>1, <3>2
    <3>4. QED
      BY <1>2, <2>1, <2>4, <3>2, <3>3, DeliverStep
  <2>5. CASE page # {} /\ Set(w, [j EXCEPT !.phase = "latest", !.ids = {}, !.next = Max(page)])
    <3>0. PICK m, r : m = Max(page) /\ r = [j EXCEPT !.phase = "latest", !.ids = {}, !.next = m]
      OBVIOUS
    <3>1. m \in page
      <4>1. page \subseteq Positions
        <5>1. J \subseteq RecordIds(store.datoms)
          BY DEF JournalIds, LiveIds, RecordIds
        <5>2. QED
          BY <1>1, <2>2, <5>1, PageWithin
      <4>2. IsFiniteSet(Positions) /\ Positions \subseteq Nat
        BY FS_Interval DEF Positions
      <4> HIDE DEF page
      <4>3. QED
        BY <2>5, <3>0, <4>1, <4>2, FS_Subset, MaxIsGreatest
    <3>2. m \in FeedPage(J, j.expected)
      BY <2>2, <3>1
    <3>3. /\ m \in Nat /\ m <= store.position
          /\ \A i \in J : j.expected < Position(i) /\ Position(i) <= m => Position(i) \in page
      BY <1>1, <1>3, <2>2, <3>2, PageComplete
    <3>4. \A i \in J : Position(i) \in Nat
      BY <1>1, JournalPositions
    <3>5. \A i \in J : Position(i) <= j.expected => Position(i) \in processed
      BY <1>1 DEF Delivered
    <3>6. \A i \in J : Position(i) <= m => Position(i) \in processed'
      <4> HIDE DEF page, J
      <4>1. QED
        BY <1>3, <2>1, <3>3, <3>4, <3>5
    <3>7. Delivered(m)'
      BY <1>2, <3>3, <3>6 DEF Delivered, Position
    <3>8. r.phase # "feed" /\ r.next = m /\ r.expected = j.expected /\ Set(w, r)
      BY <1>1, <2>5, <3>0 DEF Jobs
    <3>9. Delivered(r.next)' /\ Delivered(r.expected)' /\ PrefixRead(r)
      <4>1. Delivered(j.expected)'
        BY <1>1, <1>2, <2>1, <2>3 DEF Delivered, Position
      <4>2. QED
        BY <1>2, <2>3, <3>7, <3>8, <4>1 DEF PrefixRead
    <3>10. QED
      BY <1>2, <2>1, <3>8, <3>9, DeliverStep
  <2>6. QED
    BY <2>1, <2>4, <2>5
<1>6. QED
  BY <1>4, <1>5

-----------------------------------------------------------------------------
(* The steps that reach the store, and what they leave delivered. *)

LEMMA OutsideStore ==
    ASSUME DeliveryInv, CheckpointInv', JournalKept', store' = store, processed' = processed,
           tx' # NoTx /\ tx'.client \in Workers =>
              \A n \in 0..MaxPosition : Target(n)' => Delivered(n),
           \A u \in Workers : /\ job'[u].next = job[u].next /\ job'[u].expected = job[u].expected
                              /\ job'[u] = job[u] \/ job'[u].phase # "feed"
    PROVE  DeliveryInv'
<1>1. \A p : Delivered(p) => Delivered(p)'
  BY DEF Delivered, Position
<1>2. Checkpoints' = Checkpoints
  BY DEF Checkpoints, CheckpointFacts
<1>3. ASSUME NEW u \in Workers PROVE JobDelivered(job[u])'
  <2>1. JobDelivered(job[u])
    BY DEF DeliveryInv
  <2>2. PICK n, e : n = job[u].next /\ e = job[u].expected
    OBVIOUS
  <2>3. Delivered(n)' /\ Delivered(e)' /\ n = job'[u].next /\ e = job'[u].expected
    BY <1>1, <2>1, <2>2 DEF JobDelivered
  <2>4. PrefixRead(job[u])'
    BY <2>1 DEF JobDelivered, PrefixRead
  <2>5. QED
    BY <2>3, <2>4 DEF JobDelivered
<1>4. QED
  BY <1>1, <1>2, <1>3 DEF DeliveryInv

LEMMA AppendDelivers ==
    ASSUME DeliveryInv, AppendFeed
    PROVE  DeliveryInv'
<1>1. PICK c \in Appenders, req \in Requests, now \in Instants :
         Begin(c, req, now) \/ Refuse(c, req, now)
  BY DEF AppendFeed
<1>2. /\ CheckpointInv /\ IInv /\ CheckpointInv' /\ c \notin Workers
      /\ job' = job /\ store' = store /\ processed' = processed
  BY <1>1, AppendStep, ConsumerAssumption DEF DeliveryInv, CheckpointInv, AppendFeed, Begin, Refuse
<1>3. JournalKept' /\ (tx' = NoTx \/ tx'.client = c)
  <2>1. CASE Begin(c, req, now)
    BY <1>2, <2>1, RequestsSpareJournal, BeginKeepsJournal, BeginDatoms
  <2>2. CASE Refuse(c, req, now)
    BY <2>2 DEF Refuse, JournalKept
  <2>3. QED
    BY <1>1, <2>1, <2>2
<1>4. QED
  BY <1>2, <1>3, OutsideStore

\* A fact of the checkpoint is no journal record.
LEMMA CheckpointNotJournal ==
    ASSUME IInv, NEW k \in CheckpointIds(store.datoms)
    PROVE  k \notin JournalIds(store.datoms)
<1> SUFFICES ASSUME k \in JournalIds(store.datoms) PROVE FALSE
  OBVIOUS
<1>1. k \in RecordIds(store.datoms) /\ k \in Ids(store.datoms)
  BY DEF JournalIds, LiveIds, RecordIds
<1>2. RecordTrue(store.datoms, store.receipts, k)
  BY <1>1 DEF IInv, StoreSound, JournalTrue
<1>3. store.datoms[k] \in Datoms
  BY <1>1, StoreParts DEF IInv, TypeOK
<1>4. store.datoms[k].entity \in Positions
  BY <1>2, <1>3, DatomParts DEF RecordTrue
<1>5. store.datoms[k].entity = CheckpointEntity
  BY DEF CheckpointIds
<1>6. QED
  BY <1>4, <1>5, ConsumerAssumption, NamespaceAssumption

LEMMA WorkerSparesJournal ==
    ASSUME IInv, NEW n \in 0..MaxPosition, NEW req,
           req = InitReq(n) \/ \E k \in CheckpointIds(store.datoms) : req = MoveReq(k, n)
    PROVE  SparesJournal(req) /\ req.ops[2] = assertPosition(n)
<1>1. assertName.op = "assert" /\ assertPosition(n).op = "assert"
  BY DEF assertName, assertPosition
<1>2. CASE req = InitReq(n)
  <2>1. req.ops = <<assertName, assertPosition(n)>>
    BY <1>2, WorkerRequests
  <2>2. QED
    BY <1>1, <2>1 DEF SparesJournal, Selects
<1>3. ASSUME NEW k \in CheckpointIds(store.datoms), req = MoveReq(k, n)
      PROVE  SparesJournal(req) /\ req.ops[2] = assertPosition(n)
  <2> DEFINE o == [op |-> "retract", id |-> k]
  <2>1. k \in TripleIds /\ k \notin JournalIds(store.datoms)
    BY CheckpointNotJournal DEF CheckpointIds, Ids
  <2>2. req.ops = <<o, assertPosition(n)>> /\ o.op = "retract" /\ o.id = k
    BY <1>3, <2>1, WorkerRequests
  <2> HIDE DEF o
  <2>3. QED
    BY <1>1, <2>1, <2>2 DEF SparesJournal, Selects
<1>4. QED
  BY <1>2, <1>3

LEMMA SubmitDelivers ==
    ASSUME DeliveryInv, NEW w \in Workers, NEW now \in Instants, Submit(w, now)
    PROVE  DeliveryInv'
<1>1. PICK j, req : /\ j = job[w]
                    /\ req = IF j.phase = "init" THEN InitRequest(w) ELSE MoveRequest(w)
  OBVIOUS
<1> DEFINE wait == IF j.phase = "init" THEN "initWait" ELSE "updateWait"
           r == [j EXCEPT !.phase = wait]
<1>2. /\ j.phase \in {"init", "update"}
      /\ Begin(w, req, now) \/ Refuse(w, req, now)
      /\ Set(w, r) /\ store' = store /\ processed' = processed
  BY <1>1 DEF Submit, Begin, Refuse
<1>3. /\ CheckpointInv /\ IInv /\ CheckpointInv' /\ j \in Jobs /\ JobSound(j) /\ JobDelivered(j)
  BY <1>1, SubmitStep DEF DeliveryInv, CheckpointInv
<1>4. /\ r.next = j.next /\ r.expected = j.expected /\ r.phase # "feed"
  BY <1>3 DEF Jobs
<1>5. job'[w] = r /\ \A u \in Workers \ {w} : job'[u] = job[u]
  <2> HIDE DEF r
  <2>1. QED
    BY <1>2, <1>3 DEF Set, CheckpointInv
<1>6. j.next \in 0..MaxPosition /\ Delivered(j.next)
  BY <1>3 DEF Jobs, JobDelivered
<1>7. req = InitReq(j.next) \/ \E k \in CheckpointIds(store.datoms) : req = MoveReq(k, j.next)
  BY <1>1, <1>2, <1>3 DEF InitRequest, MoveRequest, InitReq, MoveReq, JobSound
<1> HIDE DEF r
<1>8. SparesJournal(req) /\ req.ops[2] = assertPosition(j.next)
  BY <1>3, <1>6, <1>7, WorkerSparesJournal
<1>9. JournalKept' /\ (tx' = NoTx \/ tx'.req = req)
  <2>1. CASE Begin(w, req, now)
    BY <1>3, <1>8, <2>1, BeginKeepsJournal, BeginDatoms
  <2>2. CASE Refuse(w, req, now)
    BY <2>2 DEF Refuse, JournalKept
  <2>3. QED
    BY <1>2, <2>1, <2>2
<1>10. ASSUME tx' # NoTx, NEW n \in 0..MaxPosition, Target(n)' PROVE Delivered(n)
  <2>1. assertPosition(n) = assertPosition(j.next)
    BY <1>8, <1>9, <1>10 DEF Target, assertPosition, Number
  <2>2. assertPosition(n).value = Number(n) /\ assertPosition(j.next).value = Number(j.next)
    BY DEF assertPosition
  <2>3. n = j.next
    BY <2>1, <2>2 DEF Number
  <2>4. QED
    BY <1>6, <2>3
<1>11. ASSUME NEW u \in Workers
       PROVE  /\ job'[u].next = job[u].next /\ job'[u].expected = job[u].expected
              /\ job'[u] = job[u] \/ job'[u].phase # "feed"
  BY <1>1, <1>4, <1>5
<1>12. QED
  BY <1>2, <1>3, <1>9, <1>10, <1>11, OutsideStore

\* A commit adds at most a record behind all the others.
LEMMA CommitDelivers ==
    ASSUME DeliveryInv, KeysInCommitOrder', Transaction, Commit
    PROVE  DeliveryInv'
<1> DEFINE J == JournalIds(store.datoms)
           K == JournalIds(store'.datoms)
<1>1. /\ CheckpointInv /\ IInv /\ JournalKept /\ CheckpointSound /\ CheckpointRuns
      /\ CheckpointInv' /\ job' = job /\ processed' = processed
  BY TransactionStep DEF DeliveryInv, CheckpointInv, Transaction
<1>2. tx # NoTx /\ tx' = NoTx /\ store'.position = store.position + 1 /\ store.position \in Nat
  BY <1>1, CommitShape, BufferParts, StoreParts DEF IInv, TypeOK
<1>3. /\ J \subseteq K /\ \A i \in J : Position(i)' = Position(i)
      /\ \A i \in K \ J : Position(i)' = store.position + 1
  BY <1>1, CommitExtendsJournal DEF Position
<1>4. \A i \in J : i \in TripleIds /\ Position(i) \in Nat /\ Position(i) <= store.position
  BY <1>1, JournalPositions
<1>5. ASSUME NEW p \in Nat, Delivered(p) PROVE Delivered(p)'
  <2>1. p <= store.position /\ \A i \in J : Position(i) <= p => Position(i) \in processed
    BY <1>5 DEF Delivered
  <2>2. \A i \in K : Position(i)' <= p => Position(i)' \in processed
    BY <1>2, <1>3, <2>1
  <2>3. QED
    BY <1>1, <1>2, <2>1, <2>2 DEF Delivered
<1>6. ASSUME NEW p \in Checkpoints' PROVE Delivered(p)'
  <2>1. CASE tx.client \in Workers
    <3>1. PICK n \in 0..MaxPosition : MovesTo(n)
      BY <1>1, <1>2, <2>1 DEF CheckpointRuns
    <3>2. Checkpoints' = {n}
      BY <1>1, <2>1, <3>1, CommitMoves
    <3>3. Delivered(n)
      BY <1>2, <2>1, <3>1, MovesToTarget DEF DeliveryInv
    <3>4. QED
      BY <1>5, <1>6, <3>2, <3>3
  <2>2. CASE tx.client \notin Workers
    <3>1. p \in Checkpoints
      BY <1>1, <1>6, <2>2, CommitMoves
    <3>2. PICK v \in 0..MaxPosition : WholeAt(store.datoms, v)
      BY <1>1, <3>1, NoFacts DEF CheckpointSound
    <3>3. p = v /\ p \in Nat
      BY <3>1, <3>2, WholeValue
    <3>4. QED
      BY <1>5, <3>1, <3>3 DEF DeliveryInv
  <2>3. QED
    BY <2>1, <2>2
<1>7. ASSUME NEW u \in Workers PROVE JobDelivered(job[u])'
  <2>1. PICK j : j = job[u]
    OBVIOUS
  <2>2. j = job'[u] /\ j \in Jobs /\ Delivered(j.next) /\ Delivered(j.expected) /\ PrefixRead(j)
    BY <1>1, <2>1 DEF DeliveryInv, CheckpointInv, JobDelivered
  <2>3. Delivered(j.next)' /\ Delivered(j.expected)'
    BY <1>5, <2>2 DEF Jobs
  <2>4. ASSUME j.phase = "feed", NEW i \in j.ids, NEW k \in K, KeyOrder[k] <= KeyOrder[i]
        PROVE  k \in j.ids
    <3>1. i \in J /\ (k \in J => k \in j.ids)
      BY <2>2, <2>4 DEF PrefixRead
    <3>2. CASE k \notin J
      <4>1. Position(i)' < Position(k)'
        BY <1>2, <1>3, <1>4, <3>1, <3>2
      <4>2. KeyOrder[i] < KeyOrder[k]
        BY <1>3, <3>1, <4>1 DEF KeysInCommitOrder
      <4>3. KeyOrder[i] \in Nat /\ KeyOrder[k] \in Nat
        BY <3>1, FeedAssumption DEF JournalIds, LiveIds, Ids
      <4>4. QED
        BY <2>4, <4>2, <4>3
    <3>3. QED
      BY <3>1, <3>2
  <2>5. j.phase = "feed" => j.ids \subseteq K
    BY <1>3, <2>2 DEF PrefixRead
  <2>6. PrefixRead(j)'
    BY <2>4, <2>5 DEF PrefixRead
  <2>7. QED
    BY <2>2, <2>3, <2>6 DEF JobDelivered
<1>8. QED
  BY <1>1, <1>2, <1>6, <1>7 DEF DeliveryInv, JournalKept

LEMMA TransactionDelivers ==
    ASSUME DeliveryInv, KeysInCommitOrder', Transaction
    PROVE  DeliveryInv'
<1>1. CASE Commit
  BY <1>1, CommitDelivers
<1>2. CASE ~ Commit
  <2>1. /\ CheckpointInv /\ IInv /\ JournalKept /\ CheckpointInv' /\ Step
        /\ job' = job /\ processed' = processed
    BY TransactionStep DEF DeliveryInv, CheckpointInv, Transaction
  <2>2. /\ tx # NoTx /\ store' = store
        /\ tx' = NoTx \/ (tx'.client = tx.client /\ tx'.req = tx.req)
    BY <1>2, <2>1, StepOutcome
  <2>3. JournalKept'
    BY <2>1, StepKeepsJournal
  <2>4. tx' # NoTx /\ tx'.client \in Workers =>
           \A n \in 0..MaxPosition : Target(n)' => Delivered(n)
    BY <2>2 DEF DeliveryInv, Target, assertPosition, Number
  <2>5. QED
    BY <2>1, <2>2, <2>3, <2>4, OutsideStore
<1>3. QED
  BY <1>1, <1>2

LEMMA DeliveryInit == CInit => DeliveryInv
<1> SUFFICES ASSUME CInit PROVE DeliveryInv
  OBVIOUS
<1>1. CheckpointInv /\ IInv
  BY CheckpointInit DEF CheckpointInv
<1>2. tx = NoTx /\ job = [w \in Workers |-> Idle] /\ CheckpointIds(store.datoms) = {}
  BY DEF CInit, Init, NoStore, CheckpointIds, Ids
<1>3. Idle.next = 0 /\ Idle.expected = 0 /\ Idle.phase = "idle"
  BY DEF Idle
<1>4. \A w \in Workers : JobDelivered(job[w])
  BY <1>1, <1>2, <1>3, NothingDelivered DEF JobDelivered, PrefixRead
<1>5. QED
  BY <1>1, <1>2, <1>4, NoFacts DEF DeliveryInv, JournalKept

LEMMA DeliveryNext ==
    ASSUME DeliveryInv, KeysInCommitOrder', [CNext]_cvars
    PROVE  DeliveryInv'
<1>1. CASE UNCHANGED cvars
  <2>1. UNCHANGED <<store, buffer, tx, result>> /\ job' = job /\ processed' = processed
    BY <1>1 DEF cvars
  <2>2. CheckpointInv'
    BY CheckpointNext DEF DeliveryInv
  <2>3. JournalKept'
    BY <2>1 DEF DeliveryInv, JournalKept, SparesJournal
  <2>4. tx' # NoTx /\ tx'.client \in Workers =>
           \A n \in 0..MaxPosition : Target(n)' => Delivered(n)
    BY <2>1 DEF DeliveryInv, Target, assertPosition, Number
  <2>5. QED
    BY <2>1, <2>2, <2>3, <2>4, OutsideStore
<1>2. ASSUME NEW w \in Workers, Get(w) \/ Repeat(w) \/ Crash(w) \/ Call(w) PROVE DeliveryInv'
  BY <1>2, PlainSteps, FeedDelivers DEF Call
<1>3. QED
  BY <1>1, <1>2, AppendDelivers, SubmitDelivers, TransactionDelivers DEF CNext, TakeBoundary

\* At-least-once delivery: a resume at the checkpoint skips no journaled
\* transaction, when the index orders the records as they were committed.
THEOREM NothingSkipped == CSpec /\ []KeysInCommitOrder => []NoSkippedTransaction
<1>1. DeliveryInv => NoSkippedTransaction
  <2> SUFFICES ASSUME DeliveryInv, NEW r \in TransactionRecords(store.datoms), NEW p \in Checkpoints,
                      r.position <= p
               PROVE  r.position \in processed
    BY DEF NoSkippedTransaction
  <2>1. PICK i \in JournalIds(store.datoms) : r = store.datoms[i].value.value
    BY DEF TransactionRecords
  <2>2. Delivered(p) /\ Position(i) = r.position
    BY <2>1 DEF DeliveryInv, Position
  <2>3. QED
    BY <2>2 DEF Delivered
<1>2. QED
  BY <1>1, DeliveryInit, DeliveryNext, PTL DEF CSpec

=============================================================================
