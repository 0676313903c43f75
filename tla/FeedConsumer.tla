---------------------------- MODULE FeedConsumer ----------------------------
(***************************************************************************)
(* Workers of one named consumer of the transaction feed.  Each one reads  *)
(* the durable checkpoint, reads a page of the feed after it, completes    *)
(* the page's effects and moves the checkpoint with ConsumerCheckpoint.    *)
(* advance; it may crash, repeat a call, or race with the other workers.   *)
(*                                                                         *)
(* Every read of the store is several calls on a networked backend: the    *)
(* index range comes page by page, then the META records in one batch; a   *)
(* transaction may commit between any two of them.                         *)
(*                                                                         *)
(*   job        per worker: what it is doing and the call's local state    *)
(*   processed  (history) positions whose effects some worker completed    *)
(***************************************************************************)
EXTENDS Triples, FiniteSetsExt

CONSTANTS
    Workers,             \* workers of the consumer, a subset of Clients
    Appenders,           \* the other clients; they transact Requests
    CheckpointEntity, CheckpointType, NameAttribute, PositionAttribute,
    ConsumerName,        \* the value of the name fact
    InitCommand,         \* triplex/consumer-checkpoint/init/<hash>
    FeedLimit,           \* `limit` of the feed page
    RangePageSize,       \* keys one range read returns (rangeScanPageSize)
    KeyOrder             \* order of the triple ids in the TYPE index

VARIABLES job, processed

cvars == <<store, buffer, tx, result, job, processed>>

Number(n) == [type |-> "number", value |-> n]

ASSUME ConsumerAssumption ==
    /\ Workers \subseteq Clients /\ Appenders \subseteq Clients /\ Workers \cap Appenders = {}
    /\ CheckpointEntity \in ReservedEntityIds     \* _triplex/consumer-checkpoint/<hash>
    /\ CheckpointType \in EntityTypes \ {TransactionType}
    /\ {NameAttribute, PositionAttribute} \subseteq Attributes
    /\ NameAttribute # PositionAttribute
    /\ ConsumerName \in Values /\ \A n \in 0..MaxPosition : Number(n) \in Values
    /\ InitCommand \in CommandIds
    /\ None \notin {"get", "first", "winner", "final", "Moved"}

\* Other system callers write reserved entities of their own.
ASSUME OthersAssumption ==
    \A req \in Requests : req.system =>
        \A i \in DOMAIN req.ops : req.ops[i].entity # CheckpointEntity

\* An index orders its keys, and no two facts share one.
ASSUME FeedAssumption ==
    /\ IsFiniteSet(TripleIds) /\ FeedLimit \in Nat /\ RangePageSize \in Nat
    /\ KeyOrder \in [TripleIds -> Nat]
    /\ \A i, j \in TripleIds : KeyOrder[i] = KeyOrder[j] => i = j

Answers == {"Moved", "Conflict", "Corrupt", "Invalid", "Error", None}

Idle == [ phase |-> "idle", purpose |-> None, expected |-> 0, next |-> 0,
          ids |-> {}, known |-> None, answer |-> None ]

CInit == /\ Init
         /\ job = [w \in Workers |-> Idle]
         /\ processed = {}

Set(w, record) == job' = [job EXCEPT ![w] = record]

\* The call ends; the worker still knows the movement it asked for.
Answer(w, answer) ==
    Set(w, [Idle EXCEPT !.expected = job[w].expected, !.next = job[w].next, !.answer = answer])

Quiet == UNCHANGED <<store, buffer, tx, result, processed>>

\* Start one readLoaded; `purpose` says where the caller continues.
StartRead(w, purpose) ==
    Set(w, [job[w] EXCEPT !.phase = "range", !.purpose = purpose, !.ids = {}])

-----------------------------------------------------------------------------
(* readLoaded: the checkpoint's visible facts must be one name, one position. *)

readLoaded(rows) ==
    LET names     == {i \in rows : store.datoms[i].attribute = NameAttribute}
        positions == {i \in rows : store.datoms[i].attribute = PositionAttribute}
    IN  IF rows = {} THEN [found |-> "absent", id |-> None, position |-> 0]
        ELSE IF Cardinality(names) # 1 \/ Cardinality(positions) # 1
        THEN [found |-> "corrupt", id |-> None, position |-> 0]
        ELSE LET i == CHOOSE j \in positions : TRUE
             IN  [found |-> "one", id |-> i, position |-> store.datoms[i].value.value]

\* Faulty form: whatever moved the checkpoint first is taken for this movement.
Continue_Bug(w, loaded) ==
    CASE job[w].purpose = "get" ->
           Set(w, [job[w] EXCEPT !.phase = "feed", !.ids = {}, !.expected = loaded.position])
      [] job[w].purpose = "first" ->
           IF loaded.found = "absent" THEN Set(w, [job[w] EXCEPT !.phase = "init"])
           ELSE Set(w, [job[w] EXCEPT !.phase = "update", !.known = loaded.id])
      [] job[w].purpose = "winner" -> StartRead(w, "final")
      [] OTHER -> Answer(w, "Moved")

Continue(w, loaded) ==
    IF loaded.found = "corrupt" THEN Answer(w, "Corrupt")
    ELSE CASE job[w].purpose = "get" ->
           Set(w, [job[w] EXCEPT !.phase = "feed", !.ids = {}, !.expected = loaded.position])
      [] job[w].purpose = "first" ->
           IF loaded.found = "one" /\ loaded.position = job[w].next THEN Answer(w, "Moved")
           ELSE IF loaded.position # job[w].expected THEN Answer(w, "Conflict")
           ELSE IF loaded.found = "absent" THEN Set(w, [job[w] EXCEPT !.phase = "init"])
           ELSE Set(w, [job[w] EXCEPT !.phase = "update", !.known = loaded.id])
      [] job[w].purpose = "winner" ->
           IF loaded.found = "one" /\ loaded.position = job[w].next THEN StartRead(w, "final")
           ELSE Answer(w, "Conflict")
      [] OTHER ->
           Answer(w, IF loaded.found = "absent" THEN "Corrupt" ELSE "Moved")

\* The entity's index keys; retracted facts keep theirs.
ReadRange(w) ==
    /\ job[w].phase = "range"
    /\ LET ids == {i \in Ids(store.datoms) : store.datoms[i].entity = CheckpointEntity}
       IN  IF ids = {} THEN Continue(w, readLoaded({}))
           ELSE Set(w, [job[w] EXCEPT !.phase = "meta", !.ids = ids])
    /\ Quiet

\* The META records of those keys, cut by the reader's clock.  The layer's
\* datom cache may still hold `stale` ones as they were before a retraction
\* (module DatomCache).
ReadMeta(w, now) ==
    /\ job[w].phase = "meta"
    /\ \E stale \in SUBSET {i \in job[w].ids : ~ Live(store.datoms[i])} :
         LET datom(i) == IF i \in stale THEN RetractedDatom(store.datoms[i], None, None)
                                        ELSE store.datoms[i]
         IN  Continue(w, readLoaded({i \in job[w].ids :
                            visibleAt(datom(i), resolveTemporalBasis(None, None, now))}))
    /\ Quiet

-----------------------------------------------------------------------------
(* The worker's loop around the feed. *)

\* get: the position to resume from
Get(w) ==
    /\ job[w].phase = "idle"
    /\ Set(w, [Idle EXCEPT !.phase = "range", !.purpose = "get"])
    /\ Quiet

\* The next range page of the TYPE index of _Transaction, after the last key.
NextKeys(seen) ==
    LET rest == {i \in JournalIds(store.datoms) : \A j \in seen : KeyOrder[i] > KeyOrder[j]}
    IN  {i \in rest : Cardinality({j \in rest : KeyOrder[j] < KeyOrder[i]}) < RangePageSize}

\* transactions({after, limit}) over the records of the keys read
FeedPage(ids, after) ==
    LET records == {store.datoms[i].value.value : i \in ids}
    IN  {r.position : r \in {q \in records :
            /\ q.position > after
            /\ Cardinality({s \in records : s.position > after /\ s.position < q.position})
                 < FeedLimit}}

\* Faulty form: the worker advances to the current position, not to the last
\* record of its page.
ReadFeed_Bug(w) ==
    /\ job[w].phase = "feed"
    /\ LET page == FeedPage(NextKeys({}), job[w].expected)
       IN  /\ processed' = processed \cup page
           /\ IF page = {} THEN Set(w, Idle)
              ELSE Set(w, [job[w] EXCEPT !.phase = "latest", !.ids = {}, !.next = store.position])
    /\ UNCHANGED <<store, buffer, tx, result>>

\* A full range page asks for another one; the last one ends the read and
\* the worker completes the effects of the page.
ReadFeed(w) ==
    /\ job[w].phase = "feed"
    /\ LET keys == NextKeys(job[w].ids)
           page == FeedPage(job[w].ids \cup keys, job[w].expected)
       IN  IF Cardinality(keys) = RangePageSize
           THEN /\ Set(w, [job[w] EXCEPT !.ids = @ \cup keys])
                /\ UNCHANGED processed
           ELSE /\ processed' = processed \cup page
                /\ IF page = {} THEN Set(w, Idle)
                   ELSE Set(w, [job[w] EXCEPT !.phase = "latest", !.ids = {}, !.next = Max(page)])
    /\ UNCHANGED <<store, buffer, tx, result>>

\* An earlier call is made again: its answer was lost, or it arrives late.
Repeat(w) ==
    /\ job[w].phase = "idle" /\ job[w].next # 0
    /\ Set(w, [job[w] EXCEPT !.phase = "latest", !.answer = None])
    /\ Quiet

Crash(w) ==
    /\ job[w].phase # "idle"
    /\ Set(w, Idle)
    /\ Quiet

-----------------------------------------------------------------------------
(* advance *)

CheckLatest(w) ==
    /\ job[w].phase = "latest"
    /\ IF job[w].next < job[w].expected \/ job[w].next > store.position
       THEN Answer(w, "Invalid")
       ELSE StartRead(w, "first")
    /\ Quiet

assertPosition(n) ==
    [ op |-> "assert", entity |-> CheckpointEntity, attribute |-> PositionAttribute,
      value |-> Number(n), entityType |-> CheckpointType,
      validFrom |-> None, validTo |-> None ]

assertName == [assertPosition(0) EXCEPT !.attribute = NameAttribute, !.value = ConsumerName]

transactSystemUnjournaled(ops, command, live) ==
    [ ops |-> ops, system |-> TRUE, journaled |-> FALSE, command |-> command,
      live |-> live, states |-> {}, rules |-> {} ]

InitRequest(w) ==
    transactSystemUnjournaled(<<assertName, assertPosition(job[w].next)>>, InitCommand, {})

\* Faulty form: the position is moved without the TripleLive precondition.
MoveRequest_Bug(w) ==
    transactSystemUnjournaled(<<[op |-> "retract", id |-> job[w].known],
                                assertPosition(job[w].next)>>, None, {})

MoveRequest(w) ==
    transactSystemUnjournaled(<<[op |-> "retract", id |-> job[w].known],
                                assertPosition(job[w].next)>>, None, {job[w].known})

Submit(w, now) ==
    /\ job[w].phase \in {"init", "update"}
    /\ LET req == IF job[w].phase = "init" THEN InitRequest(w) ELSE MoveRequest(w)
       IN  Begin(w, req, now) \/ Refuse(w, req, now)
    /\ Set(w, [job[w] EXCEPT !.phase = IF @ = "init" THEN "initWait" ELSE "updateWait"])
    /\ UNCHANGED processed

\* The transaction's answer: a success is read back, a lost race looks at the
\* winner, anything else fails the call.
Settle(w) ==
    /\ job[w].phase \in {"initWait", "updateWait"}
    /\ result[w] # None
    /\ LET race == IF job[w].phase = "initWait" THEN "CommandAlreadyCommitted"
                                               ELSE "TransactionConflict"
       IN  \/ result[w] = "Committed" /\ StartRead(w, "final")
           \/ result[w] = race /\ StartRead(w, "winner")
           \/ result[w] \notin {"Committed", race} /\ Answer(w, "Error")
    /\ Quiet

-----------------------------------------------------------------------------

Call(w) == \/ ReadRange(w) \/ \E now \in Instants : ReadMeta(w, now)
           \/ ReadFeed(w) \/ CheckLatest(w) \/ Settle(w)

TakeBoundary(w) == \E now \in Instants : Submit(w, now)

Transaction == Step /\ UNCHANGED <<job, processed>>

AppendFeed == /\ \E c \in Appenders, req \in Requests, now \in Instants :
                   Begin(c, req, now) \/ Refuse(c, req, now)
              /\ UNCHANGED <<job, processed>>

CNext == \/ \E w \in Workers : \/ Get(w) \/ Repeat(w) \/ Crash(w)
                               \/ Call(w) \/ TakeBoundary(w)
         \/ Transaction
         \/ AppendFeed

CSpec == CInit /\ [][CNext]_cvars

-----------------------------------------------------------------------------
(* Properties *)

CheckpointFacts(attribute) ==
    {i \in LiveIds(store.datoms) : /\ store.datoms[i].entity = CheckpointEntity
                                   /\ store.datoms[i].attribute = attribute}

Checkpoints == {store.datoms[i].value.value : i \in CheckpointFacts(PositionAttribute)}

(***************************************************************************)
(* The persisted checkpoint is always absent or exactly one name with one  *)
(* position, however many workers initialise or move it at once (the       *)
(* command claim and the TripleLive precondition leave no other shape),    *)
(* and a call that answers "Moved" is right: the position asked for was    *)
(* reached, by this call or by another one of the same movement.           *)
(***************************************************************************)
OneCheckpoint ==
    /\ Cardinality(CheckpointFacts(PositionAttribute)) <= 1
    /\ Cardinality(CheckpointFacts(NameAttribute))
         = Cardinality(CheckpointFacts(PositionAttribute))
    /\ \A w \in Workers : job[w].answer = "Moved" => \E p \in Checkpoints : p >= job[w].next

(***************************************************************************)
(* The checkpoint never moves backwards and never disappears, whatever     *)
(* stale, repeated or late movements arrive ("never moves the position     *)
(* backwards").                                                            *)
(***************************************************************************)
CheckpointMovesForward ==
    [][\A p \in Checkpoints : \E q \in Checkpoints' : q >= p]_cvars

(***************************************************************************)
(* At-least-once delivery: the effects of every journaled transaction up   *)
(* to the checkpoint were completed by some worker; a resume at the        *)
(* checkpoint skips nothing.                                               *)
(***************************************************************************)
NoSkippedTransaction ==
    \A r \in TransactionRecords(store.datoms), p \in Checkpoints :
        r.position <= p => r.position \in processed

=============================================================================
