------------------------------ MODULE Triples ------------------------------
(***************************************************************************)
(* The Triples service over an ordered key-value backend (KvTriplesLive):  *)
(* every write is a `transact` that runs under the backend's transaction   *)
(* boundary.  The running transaction sees the store through its write     *)
(* buffer; a success applies the buffer, any failure drops it.             *)
(*                                                                         *)
(*   store   the committed key-value contents: the datoms (META and index  *)
(*           keys of one fact are written together, so one entry stands    *)
(*           for them), the commit-position counter, the command receipts  *)
(*   buffer  what the running transaction reads: store overlaid with its   *)
(*           writes                                                        *)
(*   tx      the running transaction: its client, request, instant, number *)
(*           of operations done and changes so far; NoTx between two       *)
(*   result  what each client's last transact returned                     *)
(*                                                                         *)
(* The transaction's own facts (the `:_tx/*` facts of type _Transaction    *)
(* that make up its journal record) are one datom here, on an entity named *)
(* by the position.  Date.now() is any instant: wall clocks step back.     *)
(***************************************************************************)
EXTENDS Constraint

CONSTANTS
    Clients,              \* fibers that call transact, one call at a time
    TripleIds,            \* identifiers nextTripleId can draw
    EntityIds, Attributes, EntityTypes, Values,
    ReservedEntityIds,    \* entity ids with the prefix _triplex/
    ReservedAttributes,   \* attributes with the prefix :triplex/ or :_tx/
    ReservedEntityTypes,  \* _Transaction and triplex.*
    TransactionType,      \* "_Transaction"
    TxAttribute,          \* stands for the :_tx/* attributes
    CommandIds,
    InvalidCommandIds,    \* empty, or longer than 1024 characters
    Instants,
    MaxPosition,          \* Number.MAX_SAFE_INTEGER
    Rules,                \* graph-constraint rules a caller may enforce
    Requests,             \* the transact calls of the environment
    CommitAnswers,        \* what the caller of a commit that went through is told
    NoTx, NoDatom

VARIABLES store, buffer, tx, result

vars == <<store, buffer, tx, result>>

Positions == 1..MaxPosition

Tags == {"Committed", "WriteError", "CommandAlreadyCommitted",
         "TransactionConflict", "ConstraintViolation", "Interrupted", "TimedOut"}

(***************************************************************************)
(* The shape of a transact call.  `live` holds the ids of the TripleLive   *)
(* preconditions, `states` the EntityState ones, `rules` what to enforce;  *)
(* `system` and `journaled` are the two internal marks of systemNamespace. *)
(***************************************************************************)
AssertOps == [ op : {"assert"}, entity : EntityIds, attribute : Attributes,
               value : Values, entityType : EntityTypes \cup {None},
               validFrom : Instants \cup {None}, validTo : Instants \cup {None} ]

RetractOps == [op : {"retract"}, id : TripleIds]

\* A pattern may also name the entity of a transaction record (a position).
PatternOps == [ op : {"retract-pattern"}, entity : EntityIds \cup Positions \cup {None},
                attribute : Attributes \cup {None}, value : Values \cup {None},
                entityType : EntityTypes \cup {None} ]

Request == [ ops : Seq(AssertOps \cup RetractOps \cup PatternOps),
             system : BOOLEAN, journaled : BOOLEAN, command : CommandIds \cup {None},
             live : SUBSET TripleIds,
             states : SUBSET [entity : EntityIds, ids : SUBSET TripleIds],
             rules : SUBSET Rules ]

\* System callers own their reserved facts but never write a journal fact.
NoJournalWrites(req) ==
    \A i \in AssertIndices(req.ops) : req.ops[i].entityType # TransactionType

ASSUME SentinelAssumption ==
    /\ None \notin CommandIds /\ None \notin Instants /\ None \notin 0..MaxPosition
    /\ None \notin Tags /\ None \notin EntityTypes /\ None \notin EntityIds

ASSUME BoundAssumption ==
    MaxPosition \in Nat /\ Instants \subseteq Nat /\ TripleIds \subseteq Nat \ {0}

ASSUME NamespaceAssumption ==
    /\ ReservedEntityIds \subseteq EntityIds
    /\ ReservedAttributes \subseteq Attributes
    /\ ReservedEntityTypes \subseteq EntityTypes
    /\ TransactionType \in ReservedEntityTypes
    /\ TxAttribute \in ReservedAttributes
    /\ InvalidCommandIds \subseteq CommandIds
    /\ ReservedEntityIds \cap Positions = {}     \* no transaction id has the prefix

ASSUME RequestAssumption ==
    Requests \subseteq {req \in Request : NoJournalWrites(req)}

(***************************************************************************)
(* The callers of transactSystem (Materialization, ConfigStore,            *)
(* EntityValidation, ConsumerCheckpoint) retract only what they read on    *)
(* their own reserved entities.  A system request of the environment names *)
(* such facts by a pattern on the entity.                                  *)
(***************************************************************************)
ASSUME SystemAssumption ==
    \A req \in Requests : req.system => \A i \in DOMAIN req.ops :
        \/ req.ops[i].op = "assert"
        \/ req.ops[i].op = "retract-pattern" /\ req.ops[i].entity \in ReservedEntityIds

(***************************************************************************)
(* The in-memory boundary always answers "Committed".  FoundationDB may    *)
(* apply a commit whose caller is told "TimedOut" (withTransactionTimeout  *)
(* rejects while the commit is under way), or whose result is lost         *)
(* (commit_unknown_result): then None, the caller still waits and the body *)
(* runs again, which here is the next Begin of that client.                *)
(***************************************************************************)
ASSUME AnswerAssumption == CommitAnswers \subseteq {"Committed", "TimedOut", None}

NoStore == [ datoms |-> [i \in TripleIds |-> NoDatom], position |-> 0,
             receipts |-> [c \in CommandIds |-> None] ]

Init == /\ store = NoStore
        /\ buffer = NoStore
        /\ tx = NoTx
        /\ result = [c \in Clients |-> None]

-----------------------------------------------------------------------------
(* Reads over a set of datoms. *)

Ids(d) == {i \in TripleIds : d[i] # NoDatom}

LiveIds(d) == {i \in Ids(d) : Live(d[i])}

\* scanCollectAsync without includeRetracted
ScanIds(d, pattern) == {i \in LiveIds(d) : matchesPattern(d[i], pattern)}

EntityPattern(e) == [entity |-> e, attribute |-> None, value |-> None]

\* Live datoms as facts that carry their id (datomToTriple).
LiveFacts(d) ==
    {[ id |-> i, entity |-> d[i].entity, attribute |-> d[i].attribute,
       value |-> d[i].value, entityType |-> d[i].entityType,
       validFrom |-> d[i].validFrom, validTo |-> d[i].validTo ] : i \in LiveIds(d)}

\* match / entity at a resolved temporal basis
VisibleIds(d, basis) == {i \in Ids(d) : visibleAt(d[i], basis)}

\* Journal records: live facts of type _Transaction.
JournalIds(d) == {i \in LiveIds(d) : d[i].entityType = TransactionType}

\* transactionRecordsFromTriples: the ordered feed as a set of records
\* (every record carries its position).
TransactionRecords(d) == {d[i].value.value : i \in JournalIds(d)}

\* transactionByCommand: the journal record that names the command.
TransactionByCommand(d, command) ==
    {r \in TransactionRecords(d) : r.command = command}

-----------------------------------------------------------------------------
(* Admission of a transaction, on the state under the boundary. *)

reservedWriteError(fact) ==
    \/ fact.entity \in ReservedEntityIds
    \/ fact.attribute \in ReservedAttributes
    \/ fact.entityType \in ReservedEntityTypes

reservedAssertError(ops) ==
    \E i \in AssertIndices(ops) : reservedWriteError(ops[i])

\* Every TripleLive precondition has a matching retract operation.
validatePreconditions(req) ==
    req.live \subseteq {req.ops[i].id : i \in
                        {j \in DOMAIN req.ops : req.ops[j].op = "retract"}}

invalidCommandId(req) == req.command \in InvalidCommandIds

\* Faulty form (a *_Bug operator is never used by the specification; it shows
\* that a property can fail): the claim ignores an existing receipt.
CommandClaimed_Bug(req) == FALSE

\* The command was claimed by a committed transaction.
CommandClaimed(req) == req.command # None /\ store.receipts[req.command] # None

PositionExhausted == store.position >= MaxPosition

\* Faulty form: only the number of facts is compared.
EntityStateChanged_Bug(req) ==
    \E s \in req.states :
        Cardinality(ScanIds(store.datoms, EntityPattern(s.entity))) # Cardinality(s.ids)

\* An EntityState precondition compares the complete live fact-id set.
EntityStateChanged(req) ==
    \E s \in req.states : ScanIds(store.datoms, EntityPattern(s.entity)) # s.ids

Enforced(req, now) ==
    LET current == loadRelevantFacts(req.rules, req.ops, LiveFacts(store.datoms))
    IN  newlyViolated(current, req.ops, req.rules, now) = {}

(***************************************************************************)
(* The first check that fails, in the order of the code; None admits.      *)
(***************************************************************************)
Refusal(req, now) ==
    IF \/ ~ req.system /\ reservedAssertError(req.ops)
       \/ ~ validatePreconditions(req)
       \/ invalidCommandId(req)          THEN "WriteError"
    ELSE IF CommandClaimed(req)          THEN "CommandAlreadyCommitted"
    ELSE IF PositionExhausted            THEN "WriteError"
    ELSE IF EntityStateChanged(req)      THEN "TransactionConflict"
    ELSE IF ~ Enforced(req, now)         THEN "ConstraintViolation"
    ELSE None

Return(c, tag) == result' = [result EXCEPT ![c] = tag]

(***************************************************************************)
(* transact starts: it takes the boundary, claims the command and the next *)
(* position in its buffer, and goes on to the operations; or it is refused *)
(* and nothing is written.                                                 *)
(***************************************************************************)
Begin(c, req, now) ==
    /\ tx = NoTx
    /\ Refusal(req, now) = None
    /\ tx' = [client |-> c, req |-> req, instant |-> now, done |-> 0, changes |-> {}]
    /\ buffer' = [store EXCEPT
                    !.position = store.position + 1,
                    !.receipts = [k \in CommandIds |->
                        IF k = req.command THEN store.position + 1 ELSE store.receipts[k]]]
    /\ result' = [result EXCEPT ![c] = None]
    /\ UNCHANGED store

Refuse(c, req, now) ==
    /\ tx = NoTx
    /\ Refusal(req, now) # None
    /\ Return(c, Refusal(req, now))
    /\ UNCHANGED <<store, buffer, tx>>

-----------------------------------------------------------------------------
(* The operations, one step each, in the order of the request. *)

Op == tx.req.ops[tx.done + 1]

Running(kind) == /\ tx # NoTx
                 /\ tx.done < Len(tx.req.ops)
                 /\ Op.op = kind

\* Faulty form: the buffer survives a failure.
Abort_Bug(tag) ==
    /\ Return(tx.client, tag)
    /\ tx' = NoTx
    /\ store' = buffer
    /\ UNCHANGED buffer

\* A failure inside the boundary: the write buffer is dropped.
Abort(tag) ==
    /\ Return(tx.client, tag)
    /\ tx' = NoTx
    /\ buffer' = store
    /\ UNCHANGED store

FreshId(d) == CHOOSE i \in TripleIds : d[i] = NoDatom

\* The transaction goes on with new buffered datoms and more changes.
Proceed(datoms, changes) ==
    /\ buffer' = [buffer EXCEPT !.datoms = datoms]
    /\ tx' = [tx EXCEPT !.done = tx.done + 1, !.changes = tx.changes \cup changes]
    /\ UNCHANGED <<store, result>>

ApplyAssert ==
    /\ Running("assert")
    /\ \E i \in TripleIds : buffer.datoms[i] = NoDatom
    /\ LET id == FreshId(buffer.datoms)
       IN  Proceed([buffer.datoms EXCEPT ![id] =
                        tripleInputToDatom(Op, tx.instant, buffer.position)],
                   {<<"assert", id>>})

Retracted(ids) ==
    [i \in TripleIds |->
        IF i \in ids THEN RetractedDatom(buffer.datoms[i], tx.instant, buffer.position)
                     ELSE buffer.datoms[i]]

\* retract of an id: a reserved fact fails the whole transaction, an unknown
\* or already retracted one fails it only under a TripleLive precondition.
RetractFailure ==
    IF /\ Op.id \in Ids(buffer.datoms)
       /\ ~ tx.req.system /\ reservedWriteError(buffer.datoms[Op.id])
    THEN "WriteError"
    ELSE IF Op.id \notin LiveIds(buffer.datoms) /\ Op.id \in tx.req.live
    THEN "TransactionConflict"
    ELSE None

\* Faulty form: the change is listed although nothing was retracted.
ApplyRetract_Bug ==
    /\ Running("retract")
    /\ RetractFailure = None
    /\ Proceed(Retracted({Op.id} \cap LiveIds(buffer.datoms)), {<<"retract", Op.id>>})

ApplyRetract ==
    /\ Running("retract")
    /\ RetractFailure = None
    /\ LET ids == {Op.id} \cap LiveIds(buffer.datoms)
       IN  Proceed(Retracted(ids), {"retract"} \X ids)

RefuseRetract ==
    /\ Running("retract")
    /\ RetractFailure # None
    /\ Abort(RetractFailure)

\* The live facts a retract-pattern operation selects.
PatternIds ==
    {i \in ScanIds(buffer.datoms, Op) :
        Op.entityType \in {None, buffer.datoms[i].entityType}}

\* Faulty form: only the operation's own fields are checked, not the facts.
PatternReserved_Bug == ~ tx.req.system /\ reservedWriteError(Op)

PatternReserved ==
    ~ tx.req.system /\ \E i \in PatternIds : reservedWriteError(buffer.datoms[i])

\* Faulty form: the clock is read again for the retractions.
ApplyRetractPattern_Bug ==
    /\ Running("retract-pattern")
    /\ ~ PatternReserved
    /\ \E later \in Instants :
         Proceed([i \in TripleIds |->
                    IF i \in PatternIds
                    THEN RetractedDatom(buffer.datoms[i], later, buffer.position)
                    ELSE buffer.datoms[i]], {"retract"} \X PatternIds)

ApplyRetractPattern ==
    /\ Running("retract-pattern")
    /\ ~ PatternReserved
    /\ Proceed(Retracted(PatternIds), {"retract"} \X PatternIds)

RefuseRetractPattern ==
    /\ Running("retract-pattern")
    /\ PatternReserved
    /\ Abort("WriteError")

-----------------------------------------------------------------------------
(* The end: the journal record is written in the same boundary, then the   *)
(* buffer is applied.                                                      *)

metadataInputs ==
    [ entity |-> buffer.position, attribute |-> TxAttribute,
      entityType |-> TransactionType, validFrom |-> None, validTo |-> None,
      value |-> [ type |-> "journal",
                  value |-> [ position |-> buffer.position, instant |-> tx.instant,
                              command |-> tx.req.command, changes |-> tx.changes ] ] ]

Journaled(d) ==
    [d EXCEPT ![FreshId(d)] = tripleInputToDatom(metadataInputs, tx.instant, buffer.position)]

\* What runTransactionPromise tells the caller of a commit that went through.
CommitReported(c) == \E answer \in CommitAnswers : Return(c, answer)

Commit ==
    /\ tx # NoTx
    /\ tx.done = Len(tx.req.ops)
    /\ tx.req.journaled => \E i \in TripleIds : buffer.datoms[i] = NoDatom
    /\ LET final == IF tx.req.journaled
                    THEN [buffer EXCEPT !.datoms = Journaled(buffer.datoms)]
                    ELSE buffer
       IN  store' = final /\ buffer' = final
    /\ tx' = NoTx
    /\ CommitReported(tx.client)

\* The backend's timeout cancels the transaction.  The caller cannot tell this
\* from a late commit.
withTransactionTimeout == CommitAnswers \cap {"TimedOut"}

\* The fiber is interrupted inside the boundary (shutdown, a losing race), or
\* the timeout fires: the boundary fails and its buffer is dropped.
Interrupt == /\ tx # NoTx
             /\ \E tag \in {"Interrupted"} \cup withTransactionTimeout : Abort(tag)

Step == \/ ApplyAssert
        \/ ApplyRetract \/ RefuseRetract
        \/ ApplyRetractPattern \/ RefuseRetractPattern
        \/ Commit \/ Interrupt

Next == \/ \E c \in Clients, req \in Requests, now \in Instants :
              Begin(c, req, now) \/ Refuse(c, req, now)
        \/ Step

Spec == Init /\ [][Next]_vars

-----------------------------------------------------------------------------
(* Properties *)

Changes == {"assert", "retract"} \X TripleIds

JournalValues ==
    [ type : {"journal"},
      value : [ position : Positions, instant : Instants,
                command : CommandIds \cup {None}, changes : SUBSET Changes ] ]

DatomFields ==
    [ entity : EntityIds \cup Positions, attribute : Attributes,
      value : Values \cup JournalValues, entityType : EntityTypes \cup {None},
      recordedAt : Instants, recordedPosition : Positions,
      validFrom : Instants, validTo : Instants \cup {None},
      retractedAt : Instants \cup {None}, retractedPosition : Positions \cup {None} ]

\* Both halves of the retraction mark are set together.
Datoms == {d \in DatomFields : d.retractedAt = None <=> d.retractedPosition = None}

DatomMaps == [TripleIds -> Datoms \cup {NoDatom}]

Stores == [ datoms : DatomMaps, position : 0..MaxPosition,
            receipts : [CommandIds -> Positions \cup {None}] ]

Transactions == [ client : Clients, req : Request, instant : Instants,
                  done : Nat, changes : SUBSET Changes ]

ASSUME AbsenceAssumption == NoDatom \notin DatomFields /\ NoTx \notin Transactions

\* The store, its buffered view and the running transaction have their
\* types; in particular a retraction always records both its instant and
\* its commit position (KvTripleStore.retract).
TypeOK == /\ store \in Stores /\ buffer \in Stores
          /\ tx \in Transactions \cup {NoTx}
          /\ tx # NoTx => tx.done <= Len(tx.req.ops)
          /\ result \in [Clients -> Tags \cup {None}]

(***************************************************************************)
(* The journal is true: the changes a committed record lists are exactly   *)
(* the facts whose stored marks name its position, assertions and          *)
(* retractions alike, although the two are written by different calls      *)
(* (metadataInputs from the collected changes, assert / retract on META).  *)
(***************************************************************************)
ChangesAt(d, p) ==
    {<<"assert", i>> : i \in {j \in Ids(d) : /\ d[j].recordedPosition = p
                                            /\ d[j].entityType # TransactionType}}
      \cup {<<"retract", i>> : i \in {j \in Ids(d) : d[j].retractedPosition = p}}

JournalFaithful ==
    \A i \in JournalIds(store.datoms) :
        LET datom == store.datoms[i]  record == datom.value.value
        IN  /\ record.position = datom.recordedPosition
            /\ record.changes = ChangesAt(store.datoms, record.position)

(***************************************************************************)
(* Exactly-once commands: two journal records never carry one command      *)
(* identity, however often it is retried after failures and interruptions, *)
(* and the receipt names the record that committed it.                     *)
(***************************************************************************)
CommandCommitsOnce ==
    /\ \A r \in TransactionRecords(store.datoms) :
          r.command # None => /\ store.receipts[r.command] = r.position
                              /\ TransactionByCommand(store.datoms, r.command) = {r}
    /\ \A c \in CommandIds : store.receipts[c] # None => store.receipts[c] <= store.position

(***************************************************************************)
(* Every cut of the recorded axis, by position, by instant or by both,     *)
(* contains a transaction wholly or not at all: what it asserted is in the *)
(* cut exactly when what it retracted has left it.                         *)
(***************************************************************************)
Cuts == [ recordedPosition : 0..MaxPosition \cup {None}, recordedAt : Instants \cup {None} ]

AssertionIn(datom, cut) ==
    /\ cut.recordedPosition # None => datom.recordedPosition <= cut.recordedPosition
    /\ cut.recordedAt # None => datom.recordedAt <= cut.recordedAt

NoTornTransaction ==
    LET d == store.datoms IN
    \A cut \in Cuts : \A i, j \in Ids(d) :
        /\ d[i].recordedPosition = d[j].retractedPosition
        /\ AssertionIn(d[j], cut)
        => (AssertionIn(d[i], cut) <=> ~ RecordedVisible(d[j], cut))

(***************************************************************************)
(* A snapshot named by a commit position never changes: whatever commits   *)
(* later, the facts visible at a position already reached, and at any      *)
(* instants, stay the same.  Pagination cursors carry such a basis.        *)
(***************************************************************************)
View(d, basis) ==
    {[ id |-> i, entity |-> d[i].entity, attribute |-> d[i].attribute, value |-> d[i].value ] :
        i \in VisibleIds(d, basis)}

Bases(p) == [ recordedPosition : 0..p, recordedAt : Instants \cup {None}, validAt : Instants ]

SnapshotStable ==
    [][\A basis \in Bases(store.position) :
          View(store'.datoms, basis) = View(store.datoms, basis)]_vars

(***************************************************************************)
(* The transaction feed is append-only: a record, once readable, stays as  *)
(* it is (no user pattern can retract it), and new records come only after *)
(* every position committed before, so a consumer's cursor skips nothing.  *)
(***************************************************************************)
FeedAppendOnly ==
    [][LET old == TransactionRecords(store.datoms)
           new == TransactionRecords(store'.datoms)
       IN  old \subseteq new /\ \A r \in new \ old : r.position > store.position]_vars

(***************************************************************************)
(* The store implements the append-only list of versions: each commit      *)
(* appends one version in the step that answers its caller, or leaves it   *)
(* in doubt, failures and interruptions inside the boundary leave no       *)
(* trace, and command claims are never taken twice, not even by a retry    *)
(* after a timeout that came too late to stop the commit.                  *)
(***************************************************************************)
FactsAt(p) ==
    {[ id |-> i, entity |-> store.datoms[i].entity, value |-> store.datoms[i].value,
       attribute |-> store.datoms[i].attribute ] :
        i \in {j \in Ids(store.datoms) :
                 RecordedVisible(store.datoms[j], [recordedPosition |-> p, recordedAt |-> None])}}

VersionList == INSTANCE Versions
    WITH versions <- [p \in 1..(store.position + 1) |-> FactsAt(p - 1)],
         claims <- store.receipts, answers <- result, Callers <- Clients,
         Commands <- CommandIds, Failures <- Tags \ {"Committed"},
         Doubts <- CommitAnswers \ {"Committed"}, Nothing <- None

ImplementsVersions == VersionList!Spec

-----------------------------------------------------------------------------
(***************************************************************************)
(* What graph-constraint enforcement promises, stated over the committed   *)
(* facts without the projection, the boundary sampling and the partial     *)
(* loading that transact uses to decide it.                                *)
(***************************************************************************)
FactsOf(facts, at, s) == {f \in facts : f.entity = s /\ ValidAt(f, at)}

IsSubject(rule, s, facts, at) ==
    \E f \in FactsOf(facts, at, s) : f.entityType = rule.entityType

Constrained(rule, s, facts, at) ==
    {f \in FactsOf(facts, at, s) : f.attribute = rule.attribute}

\* No other subject holds an equal value.
UniqueFor(rule, s, facts, at) ==
    \A t \in EntityIds \ {s} : IsSubject(rule, t, facts, at) =>
        \A f \in Constrained(rule, s, facts, at), g \in Constrained(rule, t, facts, at) :
            ~ valuesEqual(f.value, g.value)

\* Every value is a reference to a valid entity of the target type.
ReferencesFor(rule, s, facts, at) ==
    \A f \in Constrained(rule, s, facts, at) :
        /\ f.value.type = "ref"
        /\ \E g \in FactsOf(facts, at, f.value.value) : g.entityType = rule.target

HoldsFor(rule, s, facts, at) ==
    IsSubject(rule, s, facts, at) =>
        CASE rule.tag = "Required"    -> Constrained(rule, s, facts, at) # {}
          [] rule.tag = "Cardinality" ->
               Cardinality(Constrained(rule, s, facts, at)) <= rule.max
          [] rule.tag = "Unique"      -> UniqueFor(rule, s, facts, at)
          [] OTHER                    -> ReferencesFor(rule, s, facts, at)

\* The rule was broken for s before, and its cardinality did not grow.
BrokenNoWorse(rule, s, before, after, at) ==
    /\ ~ HoldsFor(rule, s, before, at)
    /\ rule.tag = "Cardinality" =>
          Cardinality(Constrained(rule, s, after, at)) <= Cardinality(Constrained(rule, s, before, at))

\* The step commits a transaction that enforces the rule.
CommitsUnder(rule) == /\ tx # NoTx /\ tx' = NoTx
                      /\ store' # store
                      /\ rule \in tx.req.rules

(***************************************************************************)
(* A transaction that commits under enforcement breaks no enforced rule    *)
(* for any entity at any valid instant: not only at the instants where a   *)
(* fact starts or ends, and not only for the entities it names.  Retracted *)
(* targets, closed intervals and values taken over by another entity all   *)
(* count; what unenforced writes had broken before may stay broken, but a  *)
(* subject above its maximum cardinality does not gain values.             *)
(***************************************************************************)
EnforcedRulesKept ==
    [][\A rule \in Rules, s \in EntityIds, at \in Instants :
          CommitsUnder(rule) =>
            LET before == LiveFacts(store.datoms)  after == LiveFacts(store'.datoms)
            IN  HoldsFor(rule, s, after, at) \/ BrokenNoWorse(rule, s, before, after, at)]_vars

=============================================================================
