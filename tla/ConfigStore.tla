---------------------------- MODULE ConfigStore ----------------------------
(***************************************************************************)
(* ConfigStore: the configuration store kept as facts of the Triples       *)
(* service.  `load` is five separate matches, so writers may commit        *)
(* between them; commit and setRef decide on what they loaded, read the    *)
(* ref's current target once more and write everything in one transaction, *)
(* conditional on that target being live when there was one.               *)
(*                                                                         *)
(* `log` holds the persisted facts after each transaction: sets that only  *)
(* grow, except for `targets`, the live target facts of the refs.  A row   *)
(* of a revision or a snapshot carries `at`, its transaction: one entity   *)
(* may be written twice, and load keeps the latest row.  Transactions have *)
(* distinct instants.                                                      *)
(***************************************************************************)
EXTENDS Naturals, Sequences, FiniteSets

CONSTANTS
    SlotOrder,        \* the slots, sorted by kind and key
    NoSchema,         \* the type of an untyped node
    ProvenCompatible, \* pairs of types for which subsumes answers compatible
    NoParent,
    Callers, Requests, NoRef, MaxCalls

\* Every object of a release fills a known slot and is the root of its nodes.
ASSUME ConfigAssumption ==
    /\ SlotOrder \in Seq({SlotOrder[i] : i \in DOMAIN SlotOrder})
    /\ \A request \in Requests :
         /\ request.op \in {"commit", "setRef", "load"}
         /\ request.op = "commit" =>
              /\ IsFiniteSet(request.release)
              /\ \A o \in request.release :
                   /\ \E i \in DOMAIN SlotOrder : SlotOrder[i] = o.slot
                   /\ \E n \in o.nodes : n[1] = o.cid

VARIABLES log, call, calls

configVars == <<log, call, calls>>

-----------------------------------------------------------------------------
(***************************************************************************)
(* InMemoryConfigStore: how a release becomes content-addressed bodies,    *)
(* revisions and a snapshot, as pure functions of the store it was         *)
(* calculated from.                                                        *)
(*                                                                         *)
(* An object is [slot, cid, nodes, refs]: `slot` its kind and key, `cid`   *)
(* its content, `nodes` its subtree as <<cid, type>> pairs and `refs` the  *)
(* slots its nodes refer to.  A content id is modelled by the content it   *)
(* hashes, so equal ids are equal contents and nothing else.               *)
(*                                                                         *)
(* A store is [objects, valid, schemas, revisions, snapshots, seq] with    *)
(* `objects` the bodies stored, of nodes and of snapshot roots, and        *)
(* `valid` the pairs <<cid, type>> of validUnder.                          *)
(***************************************************************************)
empty == [objects |-> {}, valid |-> {}, schemas |-> {}, revisions |-> {}, snapshots |-> {},
          seq |-> 0]

Node(cid) == [node |-> cid]
Root(cids) == [root |-> cids]

Slots(release) == {o.slot : o \in release}

At(release, slot) == CHOOSE o \in release : o.slot = slot

DuplicateObject(release) == Cardinality(Slots(release)) # Cardinality(release)

DanglingRef(release) == \E o \in release : ~(o.refs \subseteq Slots(release))

\* transitiveDeps, of a release without dangling refs
transitiveDeps(object, release) ==
    LET reach[n \in 0..Cardinality(release)] ==
          IF n = 0 THEN object.refs
          ELSE reach[n - 1] \cup UNION {At(release, s).refs : s \in reach[n - 1]}
    IN  reach[Cardinality(release)] \ {object.slot}

typeIds(object) == {n[2] : n \in object.nodes} \ {NoSchema}

closureId(object, release) ==
    [root |-> object.cid,
     deps |-> {<<s, At(release, s).cid>> : s \in transitiveDeps(object, release)}]

stamp(object) == [cid |-> object.cid, schemas |-> typeIds(object)]

StampOf(revision) == [cid |-> revision.id.cid, schemas |-> revision.id.schemas]

\* historyOf's newest revision: by seq, then by id (any order will do).
tipOf(store, slot) ==
    LET history == {r \in store.revisions : r.id.slot = slot}
    IN  IF history = {} THEN NoParent
        ELSE CHOOSE r \in history : \A q \in history : r.seq >= q.seq

-----------------------------------------------------------------------------
(* commit *)

\* A typed node whose type the body was not known to satisfy, while other
\* types were known and none is proven to imply the new one.
Unproven(store, node) ==
    LET known == {p[2] : p \in {q \in store.valid : q[1] = node[1]}}
    IN  /\ node[2] # NoSchema /\ node[2] \notin known /\ known # {}
        /\ \A from \in known : <<from, node[2]>> \notin ProvenCompatible

\* Content-address the object's nodes; identical bodies collapse.
WithNodes(store, object) ==
    LET typed == {n \in object.nodes : n[2] # NoSchema}
    IN  [store EXCEPT !.objects = @ \cup {Node(n[1]) : n \in object.nodes},
                      !.valid = @ \cup typed,
                      !.schemas = @ \cup {n[2] : n \in typed}]

\* Whether the slot keeps its tip: same content, same closure, and a schema
\* that is the same or proven to accept what is stored.
Unchanged(store, object, release) ==
    LET tip == tipOf(store, object.slot)
    IN  /\ tip # NoParent
        /\ tip.id.cid = object.cid
        /\ tip.id.closure = closureId(object, release)
        /\ \/ StampOf(tip) = stamp(object)
           \/ \A n \in object.nodes : ~Unproven(store, n)

Revision(store, object, release) ==
    LET tip == tipOf(store, object.slot)
    IN  [ id  |-> [ slot |-> object.slot, cid |-> object.cid, schemas |-> typeIds(object),
                    closure |-> closureId(object, release),
                    deps |-> transitiveDeps(object, release),
                    parent |-> IF tip = NoParent THEN NoParent ELSE tip.id ],
          seq |-> store.seq + 1 ]

\* One object of the release: the store after it and the revision it pins.
Record(store, object, release) ==
    IF Unchanged(store, object, release)
      THEN [store |-> WithNodes(store, object), id |-> tipOf(store, object.slot).id]
      ELSE LET r == Revision(store, object, release)
           IN  [store |-> [WithNodes(store, object) EXCEPT !.revisions = @ \cup {r}, !.seq = r.seq],
                id |-> r.id]

\* The next slot in kind and key order, if the release fills it.
RecordSlot(done, slot, release) ==
    IF slot \notin Slots(release) THEN done
    ELSE LET r == Record(done.store, At(release, slot), release)
         IN  [store |-> r.store, pins |-> done.pins \cup {r.id}]

RecordAll(store, release) ==
    LET done[i \in 0..Len(SlotOrder)] ==
          IF i = 0 THEN [store |-> store, pins |-> {}]
          ELSE RecordSlot(done[i - 1], SlotOrder[i], release)
    IN  done[Len(SlotOrder)]

\* commit of a release without duplicates or dangling refs
commit(store, label, release) ==
    LET last == RecordAll(store, release)
        parents == {s \in store.snapshots : \A t \in store.snapshots : s.seq >= t.seq}
        snapshot ==
          [ id  |-> [ label |-> label, root |-> {o.cid : o \in release}, pins |-> last.pins,
                      parent |-> IF parents = {} THEN NoParent
                                 ELSE (CHOOSE s \in parents : TRUE).id ],
            seq |-> last.store.seq + 1 ]
    IN  [ store    |-> [last.store EXCEPT !.objects = @ \cup {Root(snapshot.id.root)},
                            !.snapshots = @ \cup {snapshot}, !.seq = snapshot.seq],
          snapshot |-> snapshot ]

-----------------------------------------------------------------------------

\* The slots changesBetween reports, and those whose own content stayed.
changesBetween(from, to) ==
    LET slots == {r.slot : r \in from \cup to}
        of(pins, s) == {r \in pins : r.slot = s}
    IN  {s \in slots : of(from, s) # of(to, s)}

-----------------------------------------------------------------------------
(* The persisted store. *)

IdleCall == [pc |-> "idle"]

Facts == log[Len(log)]

\* No target: no transaction has the instant 0.
NoRow == [at |-> 0]

\* Requests are [op |-> "commit", label, release, ref], [op |-> "setRef",
\* ref, nth] for the nth oldest snapshot, and [op |-> "load"].
NoFacts == [objects |-> {}, valid |-> {}, schemas |-> {}, revisions |-> {}, snapshots |-> {},
            targets |-> {}, firstMoves |-> 0, lastMove |-> NoRow]

latest(rows) == {r \in rows : \A q \in rows : q.body.id = r.body.id => q.at <= r.at}

\* The newest of the live targets of a ref, if any.
latestTarget(facts, name) ==
    LET live == {t \in facts.targets : t.ref = name}
    IN  IF live = {} THEN NoRow ELSE CHOOSE t \in live : \A u \in live : u.at <= t.at

\* What load assembles from its five reads: objects, types, revisions,
\* snapshots and refs, each as of its own transaction.
Loaded(reads) ==
    LET revisions == {r.body : r \in latest(log[reads[3]].revisions)}
        snapshots == {s.body : s \in latest(log[reads[4]].snapshots)}
        seqs == {0} \cup {r.seq : r \in revisions} \cup {s.seq : s \in snapshots}
    IN  [ objects |-> log[reads[1]].objects, valid |-> log[reads[1]].valid,
          schemas |-> log[reads[2]].schemas, revisions |-> revisions, snapshots |-> snapshots,
          seq |-> CHOOSE n \in seqs : \A m \in seqs : m <= n ]

\* Every node of a snapshot's tree, the root included, must be stored, and
\* every ref must point to a snapshot that was read.
Corrupt(reads) ==
    LET objects == log[reads[1]].objects
        snapshots == {s.body.id : s \in log[reads[4]].snapshots}
    IN  \/ \E s \in snapshots : ~({Root(s.root)} \cup {Node(n) : n \in s.root} \subseteq objects)
        \/ \E t \in log[reads[5]].targets : t.snapshot \notin snapshots

-----------------------------------------------------------------------------

Start(c) ==
    /\ call[c] = IdleCall
    /\ calls < MaxCalls
    /\ calls' = calls + 1
    /\ \E request \in Requests :
         call' = [call EXCEPT ![c] = [pc |-> "load", request |-> request, reads |-> <<Len(log)>>]]
    /\ UNCHANGED log

\* The next of load's matches.
Read(c) ==
    /\ call[c].pc = "load" /\ Len(call[c].reads) < 5
    /\ call' = [call EXCEPT ![c].reads = Append(@, Len(log))]
    /\ UNCHANGED <<log, calls>>

Return(c, outcome) ==
    /\ call' = [call EXCEPT ![c] = [pc |-> outcome, reads |-> call[c].reads]]
    /\ UNCHANGED <<log, calls>>

\* The snapshot a setRef names, if what was loaded has it.
Named(request, store) ==
    {s \in store.snapshots : Cardinality({t \in store.snapshots : t.seq < s.seq}) = request.nth - 1}

Refused(request, store) ==
    CASE request.op = "commit" -> DuplicateObject(request.release) \/ DanglingRef(request.release)
      [] request.op = "setRef" -> Named(request, store) = {}
      [] OTHER -> FALSE

\* After the last match: report corruption, the result of a load, or a
\* request that cannot be met; or go on to write.
Decide(c) ==
    /\ call[c].pc = "load" /\ Len(call[c].reads) = 5
    /\ LET request == call[c].request
           store == Loaded(call[c].reads)
       IN  \/ Corrupt(call[c].reads) /\ Return(c, "corrupt")
           \/ /\ ~Corrupt(call[c].reads)
              /\ \/ request.op = "load" /\ Return(c, "loaded")
                 \/ request.op # "load" /\ Refused(request, store) /\ Return(c, "refused")
                 \/ /\ request.op # "load" /\ ~Refused(request, store)
                    /\ call' = [call EXCEPT ![c] =
                         [ pc |-> IF request.ref = NoRef THEN "write" ELSE "current",
                           request |-> request, reads |-> call[c].reads, current |-> NoRow ]]
                    /\ UNCHANGED <<log, calls>>

\* currentRefTriple
CurrentRef(c) ==
    /\ call[c].pc = "current"
    /\ call' = [call EXCEPT ![c].pc = "write",
                            ![c].current = latestTarget(Facts, call[c].request.ref)]
    /\ UNCHANGED <<log, calls>>

-----------------------------------------------------------------------------
(* The transaction. *)

\* Faulty form: the move is not conditional on the target it replaces.
RefUnmoved_Bug(current) == TRUE

RefUnmoved(current) == current = NoRow \/ current \in Facts.targets

\* refOps: the target read is retracted and the new one asserted.
Moved(facts, name, snapshot, current, at) ==
    [facts EXCEPT !.targets = (@ \ {current}) \cup {[ref |-> name, snapshot |-> snapshot, at |-> at]},
                  !.firstMoves = @ + (IF current = NoRow THEN 1 ELSE 0),
                  !.lastMove = [ref |-> name, snapshot |-> snapshot, at |-> at]]

\* The bodies to write: the nodes that were not loaded, and the root.
NewObjects(before, after, snapshot) == after.objects \ before.objects

\* What commit asserts: the calculated store less what was loaded.
Written(facts, before, result, at) ==
    LET after == result.store
        rows(bodies) == {[body |-> b, at |-> at] : b \in bodies}
    IN  [facts EXCEPT
           !.objects = @ \cup NewObjects(before, after, result.snapshot),
           !.valid = @ \cup (after.valid \ before.valid),
           !.schemas = @ \cup (after.schemas \ before.schemas),
           !.revisions = @ \cup rows(after.revisions \ before.revisions),
           !.snapshots = @ \cup rows({result.snapshot})]

Write(c) ==
    /\ call[c].pc = "write"
    /\ LET request == call[c].request
           before == Loaded(call[c].reads)
           at == Len(log) + 1
           move(facts, snapshot) ==
             IF request.ref = NoRef THEN facts
             ELSE Moved(facts, request.ref, snapshot, call[c].current, at)
       IN  \/ ~RefUnmoved(call[c].current) /\ Return(c, "conflict")
           \/ /\ RefUnmoved(call[c].current)
              /\ log' = Append(log,
                   IF request.op = "commit"
                     THEN LET result == commit(before, request.label, request.release)
                          IN  move(Written(Facts, before, result, at), result.snapshot.id)
                     ELSE LET named == CHOOSE s \in Named(request, before) : TRUE
                          IN  move(Facts, named.id))
              /\ call' = [call EXCEPT ![c] = [pc |-> "done", reads |-> call[c].reads]]
              /\ UNCHANGED calls

Finish(c) ==
    /\ call[c].pc \in {"done", "loaded", "corrupt", "refused", "conflict"}
    /\ call' = [call EXCEPT ![c] = IdleCall]
    /\ UNCHANGED <<log, calls>>

ConfigInit ==
    /\ log = <<NoFacts>>
    /\ call = [c \in Callers |-> IdleCall]
    /\ calls = 0

ConfigNext ==
    \E c \in Callers : Start(c) \/ Read(c) \/ Decide(c) \/ CurrentRef(c) \/ Write(c) \/ Finish(c)

ConfigSpec == ConfigInit /\ [][ConfigNext]_configVars

-----------------------------------------------------------------------------

\* The persisted store is whole: a load whose five matches see one state
\* never reports corruption, although writers decide on torn and stale
\* loads, and a load that does had a transaction land among its matches.
CorruptMeansTorn ==
    /\ ~Corrupt([i \in 1..5 |-> Len(log)])
    /\ \A c \in Callers : call[c].pc = "corrupt" => call[c].reads[1] < call[c].reads[5]

\* A snapshot pins, for each of its objects, a persisted revision of exactly
\* that object whose closure is the objects of the same snapshot: publishing
\* a changed dependency never leaves a dependent on its old revision.
ClosurePinned ==
    \A row \in Facts.snapshots :
        LET pins == row.body.id.pins
        IN  /\ {p.cid : p \in pins} = row.body.id.root
            /\ pins \subseteq {r.body.id : r \in Facts.revisions}
            /\ \A p \in pins :
                 p.closure.deps = {<<q.slot, q.cid>> : q \in {r \in pins : r.slot \in p.deps}}

\* Ref moves are serialised: every move but the first of a ref replaces the
\* one target it read, so a ref has one live target for each move that found
\* none, and the target of the last move is among them.
MovesSerialised ==
    /\ Cardinality(Facts.targets) = Facts.firstMoves
    /\ Facts.lastMove # NoRow => latestTarget(Facts, Facts.lastMove.ref) = Facts.lastMove

\* Whatever loads and moves interleave, the store a load sees at one moment
\* is one that a sequence of whole publishes and moves would have left.
StoreWhole == CorruptMeansTorn /\ ClosurePinned /\ MovesSerialised

=============================================================================
