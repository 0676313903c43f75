------------------------ MODULE SubscriptionsProofs ------------------------
(***************************************************************************)
(* Machine-checked theorems about the live-query services: the check that  *)
(* decides which changes invalidate a query, the FoundationDB watches, the *)
(* subscription manager, change emission and the sync hub.                 *)
(***************************************************************************)
EXTENDS Subscriptions, TLAPS

-----------------------------------------------------------------------------
(* The invalidation check, for every query and every change. *)

\* The parts of the dependencies.
LEMMA Dependencies ==
    ASSUME NEW query
    PROVE  LET deps     == extractDependencies(query)
               patterns == Patterns(query)
               fixed    == {p \in patterns : p.attribute # Var}
           IN  /\ deps.attributes = {p.attribute : p \in fixed}
               /\ deps.entityTypes = {extractEntityType(p.attribute) : p \in fixed}
               /\ deps.hasDynamicAttributes = (fixed # patterns)
               /\ \A p \in patterns : p.entity # Var => p.entity \in deps.boundEntityIds
               /\ deps.unboundEntityTypes = Unbound(fixed)
BY DEF extractDependencies

\* A query that only has variable attributes is affected by every change.
LEMMA DynamicSound ==
    ASSUME NEW query, NEW change, NEW p \in Patterns(query),
           \A q \in Patterns(query) : q.attribute = Var
    PROVE  LET deps == extractDependencies(query)
           IN  /\ isAffectedByChange(deps, change)
               /\ <<Wildcard, Wildcard>> \in topicsFor(deps)
               /\ <<"global", Wildcard>> \in fdbSubscriptionKeysForDependencies(deps)
<1> DEFINE deps == extractDependencies(query)
<1>1. deps.attributes = {} /\ deps.entityTypes = {} /\ deps.hasDynamicAttributes
  BY Dependencies
<1> HIDE DEF deps
<1>2. isAffectedByChange(deps, change)
  BY <1>1 DEF isAffectedByChange, checkInvalidation
<1>3. <<Wildcard, Wildcard>> \in topicsFor(deps)
  BY <1>1 DEF topicsFor
<1>4. <<"global", Wildcard>> \in fdbSubscriptionKeysForDependencies(deps)
  BY <1>1 DEF fdbSubscriptionKeysForDependencies
<1>5. QED
  BY <1>2, <1>3, <1>4 DEF deps

\* With named attributes only, a change that a pattern reads passes the three
\* levels of the check.
LEMMA NamedSound ==
    ASSUME NEW query, NEW change, NEW p \in Patterns(query), Touches(p, change),
           p.attribute # Var
    PROVE  LET deps == extractDependencies(query)
           IN  /\ isAffectedByChange(deps, change)
               /\ change.attribute \in deps.attributes
<1> DEFINE deps == extractDependencies(query)
           type == extractEntityType(change.attribute)
           fixed == {q \in Patterns(query) : q.attribute # Var}
<1>1. p \in fixed /\ p.attribute = change.attribute /\ p.entity \in {Var, change.entity}
  BY DEF Touches
<1>2. change.attribute \in deps.attributes /\ type \in deps.entityTypes
  BY <1>1, Dependencies
<1>3. EntityTypeLevel(deps, change) /\ AttributeLevel(deps, change)
  <2> HIDE DEF deps
  <2>1. QED
    BY <1>2 DEF EntityTypeLevel, AttributeLevel
<1>4. EntityIdLevel(deps, change)
  <2>1. CASE p.entity = Var
    <3>1. type \in Unbound(fixed)
      BY <1>1, <2>1 DEF Unbound
    <3>2. deps.unboundEntityTypes = Unbound(fixed)
      BY Dependencies
    <3> HIDE DEF deps, fixed
    <3>3. QED
      BY <3>1, <3>2 DEF EntityIdLevel
  <2>2. CASE p.entity # Var
    <3>1. change.entity \in deps.boundEntityIds
      BY <1>1, <2>2, Dependencies
    <3> HIDE DEF deps
    <3>2. QED
      BY <3>1 DEF EntityIdLevel
  <2>3. QED
    BY <2>1, <2>2
<1> HIDE DEF deps
<1>5. isAffectedByChange(deps, change)
  BY <1>2, <1>3, <1>4 DEF isAffectedByChange, checkInvalidation
<1>6. QED
  BY <1>2, <1>5 DEF deps

\* The tree and the watched keys lead to every named attribute.
LEMMA NamedTopics ==
    ASSUME NEW deps, NEW change, change.attribute \in deps.attributes
    PROVE  /\ topicsFor(deps) \cap candidateTopics(change) # {}
           /\ fdbSubscriptionKeysForDependencies(deps)
                \cap fdbSubscriptionKeysForEvent({change}) # {}
<1> DEFINE t == <<extractEntityType(change.attribute), change.attribute>>
           k == <<"attr", change.attribute>>
<1>1. t \in topicsFor(deps) /\ t \in candidateTopics(change)
  BY DEF topicsFor, candidateTopics
<1>2. k \in fdbSubscriptionKeysForDependencies(deps) /\ k \in fdbSubscriptionKeysForEvent({change})
  BY DEF fdbSubscriptionKeysForDependencies, fdbSubscriptionKeysForEvent
<1>3. QED
  BY <1>1, <1>2

LEMMA CheckSound ==
    ASSUME NEW query, Uniform(query), NEW change
    PROVE  NoFalseNegative(query, change) /\ NarrowingSafe(query, change)
<1> DEFINE deps == extractDependencies(query)
           Met == topicsFor(deps) \cap candidateTopics(change) # {}
           Watched == fdbSubscriptionKeysForDependencies(deps)
                        \cap fdbSubscriptionKeysForEvent({change}) # {}
<1>1. query.optional = {}
  BY DEF Uniform
<1>2. ASSUME NEW p \in Patterns(query), Touches(p, change)
      PROVE  isAffectedByChange(deps, change) /\ Watched
  <2>1. CASE p.attribute = Var
    <3>1. \A q \in Patterns(query) : q.attribute = Var
      BY <2>1 DEF Uniform
    <3>2. <<"global", Wildcard>> \in fdbSubscriptionKeysForEvent({change})
      BY DEF fdbSubscriptionKeysForEvent
    <3>3. QED
      BY <3>1, <3>2, DynamicSound
  <2>2. CASE p.attribute # Var
    <3>1. isAffectedByChange(deps, change) /\ change.attribute \in deps.attributes
      BY <1>2, <2>2, NamedSound
    <3> HIDE DEF deps
    <3>2. QED
      BY <3>1, NamedTopics
  <2>3. QED
    BY <2>1, <2>2
<1>3. ASSUME isAffectedByChange(deps, change) PROVE Met
  <2>1. CASE \A q \in Patterns(query) : q.attribute = Var
    <3>1. deps.attributes = {} /\ deps.entityTypes = {}
      BY <2>1, Dependencies
    <3>2. <<Wildcard, Wildcard>> \in topicsFor(deps)
      <4> HIDE DEF deps
      <4>1. QED
        BY <3>1 DEF topicsFor
    <3>3. QED
      BY <3>2 DEF candidateTopics
  <2>2. CASE /\ \A q \in Patterns(query) : q.attribute # Var
             /\ Patterns(query) # {}
    <3>1. deps.hasDynamicAttributes = FALSE /\ deps.attributes # {}
      <4>1. {q \in Patterns(query) : q.attribute # Var} = Patterns(query)
        BY <2>2
      <4>2. /\ deps.attributes = {q.attribute : q \in Patterns(query)}
            /\ deps.hasDynamicAttributes = (Patterns(query) # Patterns(query))
        BY <4>1, Dependencies
      <4> HIDE DEF deps
      <4>3. QED
        BY <2>2, <4>2
    <3>2. AttributeLevel(deps, change)
      <4> HIDE DEF deps
      <4>1. QED
        BY <1>3, <3>1 DEF isAffectedByChange, checkInvalidation
    <3>3. change.attribute \in deps.attributes
      <4> HIDE DEF deps
      <4>1. QED
        BY <3>1, <3>2 DEF AttributeLevel
    <3> HIDE DEF deps
    <3>4. QED
      BY <3>3, NamedTopics
  <2>3. QED
    BY <2>1, <2>2 DEF Uniform
<1>4. NoFalseNegative(query, change)
  BY <1>1, <1>2 DEF NoFalseNegative, Reads
<1>5. QED
  BY <1>2, <1>3, <1>4 DEF NarrowingSafe

\* The check is sound for every query with complete dependencies and every
\* change, not only for those of a family (checkInvalidation, TopicTree,
\* FdbSubscriptions).
THEOREM InvalidationIsSound == SubscriptionsSpec => []InvalidationSound
<1>1. InvalidationSound
  BY CheckSound DEF InvalidationSound
<1>2. QED
  BY <1>1, PTL

-----------------------------------------------------------------------------
(***************************************************************************)
(* FoundationDB watches.  While the subscription is open, a key the        *)
(* subscriber is behind on is missed, or has a callback to come, or is     *)
(* watched on an older version so that its watch will fire.  The loops of  *)
(* an open subscription were all ready once, so a fault invalidates.       *)
(***************************************************************************)
Loops == [state : {"arming", "armed", "sleeping", "ended"}, at : Nat, ready : BOOLEAN]

Covered(k) == \/ view[k] = version[k] \/ k \in missed \/ timer
              \/ loop[k].state = "armed" /\ loop[k].at # version[k]

WatchInv ==
    /\ version \in [Keys -> Nat] /\ view \in [Keys -> Nat] /\ loop \in [Keys -> Loops]
    /\ timer \in BOOLEAN
    /\ \A k \in Keys : /\ loop[k].at <= version[k]
                       /\ loop[k].state = "armed" => loop[k].ready
                       /\ handle = "open" => loop[k].ready /\ Covered(k)

LEMMA LoopParts ==
    ASSUME NEW l \in Loops
    PROVE  /\ l.at \in Nat /\ l.ready \in BOOLEAN
           /\ \A s \in {"arming", "armed", "sleeping", "ended"} :
                 LET m == [l EXCEPT !.state = s]
                 IN  m \in Loops /\ m.state = s /\ m.at = l.at /\ m.ready = l.ready
BY DEF Loops

LEMMA WatchStart == WatchInit => WatchInv
<1> SUFFICES ASSUME WatchInit PROVE WatchInv
  OBVIOUS
<1> DEFINE l == [state |-> "arming", at |-> 0, ready |-> FALSE]
<1>1. l \in Loops /\ l.at = 0 /\ l.state = "arming"
  BY DEF Loops
<1>2. /\ version = [k \in Keys |-> 0] /\ view = [k \in Keys |-> 0] /\ timer = FALSE
      /\ handle = "opening" /\ loop = [k \in Keys |-> l]
  BY DEF WatchInit
<1> HIDE DEF l
<1>3. \A k \in Keys : loop[k] = l /\ version[k] = 0
  BY <1>2
<1>4. /\ version \in [Keys -> Nat] /\ view \in [Keys -> Nat] /\ loop \in [Keys -> Loops]
      /\ timer \in BOOLEAN
  BY <1>1, <1>2
<1>5. \A k \in Keys : loop[k].at <= version[k] /\ loop[k].state # "armed"
  BY <1>1, <1>3
<1>6. QED
  BY <1>2, <1>4, <1>5 DEF WatchInv

\* A step of one loop that leaves the others, and what was read, alone.
LEMMA LoopMoves ==
    ASSUME WatchInv, NEW k \in Keys, NEW l \in Loops, SetLoop(k, l),
           UNCHANGED <<version, handle, view, missed>>, timer' \in BOOLEAN, timer => timer',
           l.at <= version[k], l.state = "armed" => l.ready,
           handle = "open" => l.ready /\ (timer' \/ loop[k].state # "armed")
    PROVE  WatchInv'
<1>1. /\ version' = version /\ handle' = handle /\ view' = view /\ missed' = missed
      /\ loop' \in [Keys -> Loops] /\ loop'[k] = l
      /\ \A j \in Keys \ {k} : loop'[j] = loop[j]
  BY DEF WatchInv, SetLoop
<1>2. ASSUME NEW j \in Keys
      PROVE  /\ loop'[j].at <= version'[j]
             /\ loop'[j].state = "armed" => loop'[j].ready
             /\ handle' = "open" => loop'[j].ready /\ Covered(j)'
  <2>1. CASE j = k
    BY <1>1, <2>1 DEF WatchInv, Covered
  <2>2. CASE j # k
    BY <1>1, <2>2 DEF WatchInv, Covered
  <2>3. QED
    BY <2>1, <2>2
<1>3. QED
  BY <1>1, <1>2 DEF WatchInv

LEMMA LoopSteps ==
    ASSUME WatchInv, NEW k \in Keys, LoopStep(k) \/ Fault(k)
    PROVE  WatchInv'
<1> DEFINE l == loop[k]
<1>1. l \in Loops /\ l.at <= version[k] /\ version[k] \in Nat /\ timer \in BOOLEAN
      /\ (l.state = "armed" => l.ready) /\ (handle = "open" => l.ready)
  BY DEF WatchInv
<1>2. CASE Arm(k)
  <2> DEFINE m == [state |-> "armed", at |-> version[k], ready |-> TRUE]
  <2>1. m \in Loops /\ m.at = version[k] /\ m.ready /\ SetLoop(k, m) /\ l.state = "arming"
    BY <1>1, <1>2 DEF Arm, Loops
  <2>2. UNCHANGED <<version, handle, view, missed>> /\ timer' = timer
    BY <1>2 DEF Arm
  <2> HIDE DEF m
  <2>3. m.at <= version[k]
    BY <1>1, <2>1
  <2>4. QED
    BY <1>1, <2>1, <2>2, <2>3, LoopMoves
<1>3. CASE Fire(k)
  <2> DEFINE m == [l EXCEPT !.state = "arming"]
  <2>1. m \in Loops /\ m.at = l.at /\ m.ready = l.ready /\ m.state = "arming"
    BY <1>1, LoopParts
  <2>2. SetLoop(k, m) /\ timer' = TRUE /\ UNCHANGED <<version, handle, view, missed>>
    BY <1>3 DEF Fire, Notify, scheduleInvalidate
  <2> HIDE DEF m
  <2>3. QED
    BY <1>1, <2>1, <2>2, LoopMoves
<1>4. CASE Wake(k)
  <2> DEFINE m == [l EXCEPT !.state = "arming"]
  <2>1. m \in Loops /\ m.at = l.at /\ m.ready = l.ready /\ m.state = "arming"
    BY <1>1, LoopParts
  <2>2. SetLoop(k, m) /\ timer' = timer /\ l.state = "sleeping"
        /\ UNCHANGED <<version, handle, view, missed>>
    BY <1>4 DEF Wake
  <2> HIDE DEF m
  <2>3. QED
    BY <1>1, <2>1, <2>2, LoopMoves
<1>5. CASE Fault(k) /\ ~ l.ready
  <2> DEFINE m == [l EXCEPT !.state = "ended"]
  <2>1. m \in Loops /\ m.at = l.at /\ m.ready = l.ready /\ m.state = "ended"
    BY <1>1, LoopParts
  <2>2. SetLoop(k, m) /\ timer' = timer /\ UNCHANGED <<version, handle, view, missed>>
    BY <1>5 DEF Fault
  <2> HIDE DEF m
  <2>3. QED
    BY <1>1, <1>5, <2>1, <2>2, LoopMoves
<1>6. CASE Fault(k) /\ l.ready
  <2> DEFINE m == [l EXCEPT !.state = "sleeping"]
  <2>1. m \in Loops /\ m.at = l.at /\ m.ready = l.ready /\ m.state = "sleeping"
    BY <1>1, LoopParts
  <2>2. SetLoop(k, m) /\ timer' = TRUE /\ UNCHANGED <<version, handle, view, missed>>
    BY <1>6 DEF Fault, scheduleInvalidate
  <2> HIDE DEF m
  <2>3. QED
    BY <1>1, <2>1, <2>2, LoopMoves
<1>7. QED
  BY <1>2, <1>3, <1>4, <1>5, <1>6 DEF LoopStep

\* A bump of a watched key makes its watch fire; another one is missed or
\* has a callback to come.
LEMMA SignalKeeps ==
    ASSUME WatchInv, NEW keys, Signal(keys)
    PROVE  WatchInv'
<1>1. /\ handle' = handle /\ loop' = loop /\ timer' = timer /\ view' = view
      /\ version' = [k \in Keys |-> IF k \in keys THEN version[k] + 1 ELSE version[k]]
      /\ missed' = missed \cup {k \in keys : loop[k].state # "armed" /\ ~timer /\ handle = "open"}
  BY DEF Signal
<1>2. version' \in [Keys -> Nat]
  BY <1>1 DEF WatchInv
<1>3. ASSUME NEW k \in Keys
      PROVE  /\ loop[k].at <= version'[k]
             /\ handle = "open" => Covered(k)'
  <2>1. loop[k].at \in Nat /\ version[k] \in Nat /\ loop[k].at <= version[k]
    BY LoopParts DEF WatchInv
  <2>2. CASE k \in keys
    <3>1. version'[k] = version[k] + 1
      BY <1>1, <2>2
    <3>2. loop[k].at <= version'[k] /\ loop[k].at # version'[k]
      BY <2>1, <3>1
    <3>3. handle = "open" => Covered(k)'
      BY <1>1, <2>2, <3>2 DEF Covered
    <3>4. QED
      BY <3>2, <3>3
  <2>3. CASE k \notin keys
    <3>1. version'[k] = version[k]
      BY <1>1, <2>3
    <3>2. handle = "open" => Covered(k)
      BY DEF WatchInv
    <3>3. QED
      BY <1>1, <2>1, <3>1, <3>2 DEF Covered
  <2>4. QED
    BY <2>2, <2>3
<1>4. QED
  BY <1>1, <1>2, <1>3 DEF WatchInv

LEMMA WatchSteps ==
    ASSUME WatchInv, WatchNext
    PROVE  WatchInv'
<1>1. CASE Ready
  BY <1>1 DEF Ready, WatchInv, Covered
<1>2. CASE Debounced
  BY <1>2 DEF Debounced, WatchInv, Covered
<1>3. CASE Fail \/ Close
  <2>1. /\ version' = version /\ view' = view /\ timer' = FALSE /\ handle' # "open"
        /\ loop' = [k \in Keys |-> [loop[k] EXCEPT !.state = "ended"]]
    BY <1>3 DEF Fail, Close, EndLoops
  <2>2. \A k \in Keys : loop'[k] = [loop[k] EXCEPT !.state = "ended"]
    BY <2>1
  <2>3. \A k \in Keys : /\ loop'[k] \in Loops /\ loop'[k].at = loop[k].at
                        /\ loop'[k].state = "ended"
    <3>1. ASSUME NEW k \in Keys
          PROVE  loop'[k] \in Loops /\ loop'[k].at = loop[k].at /\ loop'[k].state = "ended"
      <4> DEFINE m == [loop[k] EXCEPT !.state = "ended"]
      <4>1. loop[k] \in Loops /\ loop'[k] = m
        BY <2>2 DEF WatchInv
      <4>2. m \in Loops /\ m.at = loop[k].at /\ m.state = "ended"
        BY <4>1, LoopParts
      <4>3. QED
        BY <4>1, <4>2
    <3>2. QED
      BY <3>1
  <2>4. loop' \in [Keys -> Loops]
    BY <2>1, <2>3
  <2>5. QED
    BY <2>1, <2>3, <2>4 DEF WatchInv
<1>4. QED
  BY <1>1, <1>2, <1>3, SignalKeeps, LoopSteps DEF WatchNext

LEMMA WatchInvariance == SubscriptionsSpec => []WatchInv
<1>1. SubscriptionsInit => WatchInv
  BY WatchStart DEF SubscriptionsInit
<1>2. WatchInv /\ [SubscriptionsNext]_svars => WatchInv'
  <2> SUFFICES ASSUME WatchInv, [SubscriptionsNext]_svars PROVE WatchInv'
    OBVIOUS
  <2>1. CASE UNCHANGED wvars
    BY <2>1 DEF wvars, WatchInv, Covered
  <2>2. CASE WatchNext
    BY <2>2, WatchSteps
  <2>3. QED
    BY <2>1, <2>2 DEF SubscriptionsNext, svars, HubOnly, EmissionOnly, ManagerOnly, WatchesOnly
<1>3. QED
  BY <1>1, <1>2, PTL DEF SubscriptionsSpec

\* The re-arm window is the only place where an open subscription loses a
\* bump (FdbSubscriptions.watchKeys), whatever fires, fails and retries.
THEOREM OnlyTheWindowLoses == SubscriptionsSpec => []OnlyTheRearmWindowLosesHints
<1>1. WatchInv => OnlyTheRearmWindowLosesHints
  BY DEF WatchInv, Covered, OnlyTheRearmWindowLosesHints
<1>2. QED
  BY <1>1, WatchInvariance, PTL

-----------------------------------------------------------------------------
(***************************************************************************)
(* The subscription manager.  An id is indexed under its hash and no       *)
(* other; while its fiber is between the two updates of a call, the index  *)
(* still shows the hash the call read.                                     *)
(***************************************************************************)
HashOrNone == Hashes \cup {NoHash}

ManagerCalls == [ step : {"store", "index"}, op : {"register", "unregister"}, id : SubIds,
                  hash : HashOrNone, existing : HashOrNone ]

\* i is in the index under h alone, or nowhere when h is NoHash.
IndexedUnder(i, h) == \A g \in Hashes : i \in index[g] <=> g = h

CallSound(f) ==
    \/ fiber[f] = NoCall
    \/ /\ fiber[f] \in ManagerCalls /\ fiber[f].id \in OwnIds[f]
       /\ fiber[f].op = "unregister" => fiber[f].hash = NoHash
       /\ IndexedUnder(fiber[f].id, fiber[f].existing)
       /\ subs[fiber[f].id] = IF fiber[f].step = "store" THEN fiber[f].existing ELSE fiber[f].hash

Untouched(i) == \A f \in Fibers : fiber[f].id # i

ManagerInv ==
    /\ subs \in [SubIds -> HashOrNone] /\ index \in [Hashes -> SUBSET SubIds]
    /\ DOMAIN fiber = Fibers
    /\ \A f \in Fibers : CallSound(f)
    /\ \A i \in SubIds : Untouched(i) => IndexedUnder(i, subs[i])

LEMMA NoCallParts == NoCall.step = "idle" /\ NoCall.id = NoHash
BY DEF NoCall

\* A fiber's call works on an id of its own.
LEMMA OwnCalls ==
    ASSUME ManagerInv, NEW f \in Fibers, NEW i \in OwnIds[f], NEW g \in Fibers \ {f}
    PROVE  fiber[g].id # i
<1>1. CASE fiber[g] = NoCall
  <2>1. i \in SubIds
    BY DEF SubIds
  <2>2. QED
    BY <1>1, <2>1, NoCallParts, OwnersAssumption
<1>2. CASE fiber[g].id \in OwnIds[g]
  BY <1>2, OwnersAssumption
<1>3. QED
  BY <1>1, <1>2 DEF ManagerInv, CallSound

LEMMA ManagerReads ==
    ASSUME ManagerInv, NEW f \in Fibers, NEW op \in {"register", "unregister"}, NEW id,
           NEW hash \in HashOrNone, op = "unregister" => hash = NoHash, Read(f, op, id, hash)
    PROVE  ManagerInv'
<1>1. PICK c : c = [step |-> "store", op |-> op, id |-> id, hash |-> hash, existing |-> subs[id]]
  OBVIOUS
<1>2. /\ fiber[f].step = "idle" /\ id \in OwnIds[f] /\ id \in SubIds
      /\ fiber' = [fiber EXCEPT ![f] = c] /\ subs' = subs /\ index' = index
  BY <1>1 DEF Read, Call, SubIds
<1>3. /\ c \in ManagerCalls /\ c.id = id /\ c.step = "store" /\ c.op = op /\ c.hash = hash
      /\ c.existing = subs[id]
  BY <1>1, <1>2 DEF ManagerCalls, ManagerInv
<1>4. fiber[f] = NoCall
  BY <1>2 DEF ManagerInv, CallSound, ManagerCalls
<1>5. fiber'[f] = c /\ \A g \in Fibers \ {f} : fiber'[g] = fiber[g]
  BY <1>2 DEF ManagerInv
<1>6. Untouched(id)
  BY <1>2, <1>4, OwnCalls, NoCallParts, OwnersAssumption DEF Untouched
<1>7. IndexedUnder(id, subs[id])
  BY <1>2, <1>6 DEF ManagerInv
<1>8. ASSUME NEW g \in Fibers PROVE CallSound(g)'
  <2>1. CASE g = f
    <3>1. IndexedUnder(c.id, c.existing)' /\ subs'[c.id] = c.existing
      BY <1>2, <1>3, <1>7 DEF IndexedUnder
    <3>2. QED
      BY <1>2, <1>3, <1>5, <2>1, <3>1 DEF CallSound, IndexedUnder
  <2>2. CASE g # f
    BY <1>2, <1>5, <2>2 DEF ManagerInv, CallSound, IndexedUnder
  <2>3. QED
    BY <2>1, <2>2
<1>9. ASSUME NEW i \in SubIds, Untouched(i)' PROVE IndexedUnder(i, subs[i])'
  <2>1. i # NoHash
    BY OwnersAssumption
  <2>2. Untouched(i)
    BY <1>4, <1>5, <1>9, <2>1, NoCallParts DEF Untouched
  <2>3. QED
    BY <1>2, <2>2 DEF ManagerInv, IndexedUnder
<1>10. QED
  BY <1>2, <1>8, <1>9 DEF ManagerInv

LEMMA ManagerUpdatesStore ==
    ASSUME ManagerInv, NEW f \in Fibers, UpdateStore(f)
    PROVE  ManagerInv'
<1>1. PICK c : c = fiber[f]
  OBVIOUS
<1>2. /\ c.step = "store" /\ subs' = [subs EXCEPT ![c.id] = c.hash] /\ index' = index
  BY <1>1 DEF UpdateStore
<1>3. /\ c \in ManagerCalls /\ c.id \in OwnIds[f] /\ c.id \in SubIds
      /\ c.op = "unregister" => c.hash = NoHash
      /\ IndexedUnder(c.id, c.existing) /\ c.hash \in HashOrNone
  BY <1>1, <1>2, NoCallParts DEF ManagerInv, CallSound, ManagerCalls
<1>4. PICK n : /\ n = NoCall \/ n = [c EXCEPT !.step = "index"]
               /\ n = NoCall => c.op = "unregister" /\ c.existing = NoHash
               /\ fiber' = [fiber EXCEPT ![f] = n]
  BY <1>1 DEF UpdateStore, Call, NoCall
<1>5. fiber'[f] = n /\ (\A g \in Fibers \ {f} : fiber'[g] = fiber[g]) /\ DOMAIN fiber' = Fibers
  BY <1>4 DEF ManagerInv
<1>6. subs' \in [SubIds -> HashOrNone] /\ subs'[c.id] = c.hash
      /\ \A i \in SubIds \ {c.id} : subs'[i] = subs[i]
  BY <1>2, <1>3 DEF ManagerInv
<1>7. ASSUME NEW g \in Fibers PROVE CallSound(g)'
  <2>1. CASE g = f /\ n = NoCall
    BY <1>5, <2>1 DEF CallSound
  <2>2. CASE g = f /\ n = [c EXCEPT !.step = "index"]
    <3>1. /\ n \in ManagerCalls /\ n.id = c.id /\ n.op = c.op /\ n.hash = c.hash
          /\ n.existing = c.existing /\ n.step = "index"
      BY <1>3, <2>2 DEF ManagerCalls
    <3>2. IndexedUnder(n.id, n.existing)'
      BY <1>2, <1>3, <3>1 DEF IndexedUnder
    <3>3. QED
      BY <1>3, <1>5, <1>6, <2>2, <3>1, <3>2 DEF CallSound, IndexedUnder
  <2>3. CASE g # f
    <3>1. CASE fiber[g] = NoCall
      BY <1>5, <2>3, <3>1 DEF CallSound
    <3>2. CASE fiber[g] # NoCall
      <4>1. CallSound(g) /\ fiber[g].id # c.id /\ fiber[g].id \in SubIds
        BY <1>3, <2>3, <3>2, OwnCalls DEF ManagerInv, CallSound, ManagerCalls
      <4>2. subs'[fiber[g].id] = subs[fiber[g].id]
        BY <1>6, <4>1
      <4>3. QED
        BY <1>2, <1>5, <2>3, <3>2, <4>1, <4>2 DEF CallSound, IndexedUnder
    <3>3. QED
      BY <3>1, <3>2
  <2>4. QED
    BY <1>4, <2>1, <2>2, <2>3
<1>8. ASSUME NEW i \in SubIds, Untouched(i)' PROVE IndexedUnder(i, subs[i])'
  <2>1. CASE i = c.id
    <3>1. n = NoCall
      <4>1. [c EXCEPT !.step = "index"].id = c.id
        BY <1>3 DEF ManagerCalls
      <4>2. QED
        BY <1>4, <1>5, <1>8, <2>1, <4>1 DEF Untouched
    <3>2. subs'[i] = NoHash /\ c.existing = NoHash
      BY <1>3, <1>4, <1>6, <2>1, <3>1
    <3>3. QED
      BY <1>2, <1>3, <2>1, <3>2 DEF IndexedUnder
  <2>2. CASE i # c.id
    <3>1. Untouched(i)
      BY <1>1, <1>5, <1>8, <2>2 DEF Untouched
    <3>2. QED
      BY <1>2, <1>6, <2>2, <3>1 DEF ManagerInv, IndexedUnder
  <2>3. QED
    BY <2>1, <2>2
<1>9. QED
  BY <1>2, <1>5, <1>6, <1>7, <1>8 DEF ManagerInv

LEMMA ManagerUpdatesIndex ==
    ASSUME ManagerInv, NEW f \in Fibers, UpdateIndex(f)
    PROVE  ManagerInv'
<1>1. PICK c : c = fiber[f]
  OBVIOUS
<1>2. /\ c.step = "index" /\ subs' = subs /\ fiber' = [fiber EXCEPT ![f] = NoCall]
      /\ index' = [h \in Hashes |-> IF h = c.hash THEN index[h] \cup {c.id}
                                    ELSE IF h = c.existing THEN index[h] \ {c.id} ELSE index[h]]
  BY <1>1 DEF UpdateIndex, Reindexed, Call
<1>3. /\ c \in ManagerCalls /\ c.id \in OwnIds[f] /\ c.id \in SubIds
      /\ IndexedUnder(c.id, c.existing) /\ subs[c.id] = c.hash
  BY <1>1, <1>2, NoCallParts DEF ManagerInv, CallSound, ManagerCalls
<1>4. fiber'[f] = NoCall /\ (\A g \in Fibers \ {f} : fiber'[g] = fiber[g]) /\ DOMAIN fiber' = Fibers
  BY <1>2 DEF ManagerInv
<1>5. index' \in [Hashes -> SUBSET SubIds]
  BY <1>2, <1>3 DEF ManagerInv
<1>6. \A h \in Hashes, i \in SubIds \ {c.id} : i \in index'[h] <=> i \in index[h]
  BY <1>2
<1>7. IndexedUnder(c.id, c.hash)'
  BY <1>2, <1>3 DEF IndexedUnder
<1>8. ASSUME NEW g \in Fibers PROVE CallSound(g)'
  <2>1. CASE fiber'[g] = NoCall
    BY <2>1 DEF CallSound
  <2>2. CASE fiber'[g] # NoCall
    <3>1. g # f /\ fiber'[g] = fiber[g]
      BY <1>4, <2>2
    <3>2. CallSound(g) /\ fiber[g].id # c.id /\ fiber[g].id \in SubIds
      BY <1>3, <2>2, <3>1, OwnCalls DEF ManagerInv, CallSound, ManagerCalls
    <3>3. QED
      BY <1>2, <1>6, <2>2, <3>1, <3>2 DEF CallSound, IndexedUnder
  <2>3. QED
    BY <2>1, <2>2
<1>9. ASSUME NEW i \in SubIds, Untouched(i)' PROVE IndexedUnder(i, subs[i])'
  <2>1. CASE i = c.id
    BY <1>2, <1>3, <1>7, <2>1 DEF IndexedUnder
  <2>2. CASE i # c.id
    <3>1. Untouched(i)
      BY <1>1, <1>4, <1>9, <2>2 DEF Untouched
    <3>2. QED
      BY <1>2, <1>6, <2>2, <3>1 DEF ManagerInv, IndexedUnder
  <2>3. QED
    BY <2>1, <2>2
<1>10. QED
  BY <1>2, <1>4, <1>5, <1>8, <1>9 DEF ManagerInv

LEMMA ManagerClears ==
    ASSUME ManagerInv, NEW f \in Fibers, Clear(f)
    PROVE  ManagerInv'
<1>1. \A g \in Fibers : fiber[g] = NoCall
  BY DEF Clear, ManagerInv, CallSound, ManagerCalls
<1>2. /\ subs' = [i \in SubIds |-> NoHash] /\ index' = [h \in Hashes |-> {}] /\ fiber' = fiber
  BY DEF Clear
<1>3. QED
  BY <1>1, <1>2, OwnersAssumption DEF ManagerInv, CallSound, IndexedUnder, HashOrNone

LEMMA ManagerInvariance == SubscriptionsSpec => []ManagerInv
<1>1. SubscriptionsInit => ManagerInv
  BY OwnersAssumption DEF SubscriptionsInit, ManagerInit, ManagerInv, CallSound, IndexedUnder,
     HashOrNone
<1>2. ManagerInv /\ [SubscriptionsNext]_svars => ManagerInv'
  <2> SUFFICES ASSUME ManagerInv, [SubscriptionsNext]_svars PROVE ManagerInv'
    OBVIOUS
  <2>1. CASE UNCHANGED mvars
    BY <2>1 DEF mvars, ManagerInv, CallSound, IndexedUnder, Untouched
  <2>2. CASE ManagerNext
    BY <2>2, ManagerReads, ManagerUpdatesStore, ManagerUpdatesIndex, ManagerClears
       DEF ManagerNext, HashOrNone
  <2>3. QED
    BY <2>1, <2>2 DEF SubscriptionsNext, svars, HubOnly, EmissionOnly, ManagerOnly, WatchesOnly
<1>3. QED
  BY <1>1, <1>2, PTL DEF SubscriptionsSpec

\* findByQueryHash answers exactly the subscriptions with that hash for every
\* id no call is working on, whatever fibers register, replace and unregister.
THEOREM IndexIsExact == SubscriptionsSpec => []IndexExact
<1>1. ManagerInv => IndexExact
  BY OwnersAssumption DEF ManagerInv, Untouched, IndexedUnder, IndexExact, findByQueryHash
<1>2. QED
  BY <1>1, ManagerInvariance, PTL

-----------------------------------------------------------------------------
(***************************************************************************)
(* Change emission.  What a call wrote it has read, or it raced with the   *)
(* writer of it; what it is about to announce has happened.  A fact that   *)
(* was used and is no longer live stays so, since ids are never reused.    *)
(***************************************************************************)
FactChanges == {"assert", "retract"} \X FactIds

EmissionCalls == [ phase : {"idle", "read", "record", "emit"},
                   method : {"none", "assert", "retract", "pattern", "transact"},
                   ids : SUBSET FactIds, read : SUBSET FactChanges,
                   wrote : SUBSET FactChanges, raced : SUBSET FactIds ]

Happened(c) == IF c[1] = "assert" THEN c[2] \in used ELSE c[2] \in used /\ c[2] \notin live

EmissionCallSound(r) ==
    /\ r.phase = "read" =>
          /\ Retracted(live \cap r.ids) \subseteq r.read \cup Retracted(r.raced)
          /\ \A c \in r.read : c[1] = "retract" /\ c[2] \in used /\ c[2] \in r.ids
    /\ r.phase = "record" => \A c \in r.wrote : Happened(c)
    /\ r.phase = "emit" => /\ r.wrote \subseteq r.read \cup Retracted(r.raced)
                           /\ \A c \in r.read : Happened(c)

EmissionInv ==
    /\ live \subseteq used /\ used \subseteq FactIds
    /\ call \in [Writers -> EmissionCalls]
    /\ \A w \in Writers : EmissionCallSound(call[w])
    /\ OnlyLostRecordsAreSilent /\ AnnouncementsTrue

\* The changes of a set of facts.
LEMMA FactChangesOf ==
    ASSUME NEW ids \in SUBSET FactIds
    PROVE  /\ Asserted(ids) \subseteq FactChanges /\ Retracted(ids) \subseteq FactChanges
           /\ \A c \in Asserted(ids) : c[1] = "assert" /\ c[2] \in ids
           /\ \A c \in Retracted(ids) : c[1] = "retract" /\ c[2] \in ids
BY DEF Asserted, Retracted, FactChanges

LEMMA RestingSound ==
    Resting \in EmissionCalls /\ Resting.phase = "idle" /\ EmissionCallSound(Resting)
BY DEF Resting, EmissionCalls, EmissionCallSound

\* A call on which nothing but retractions of others came in stays sound.
LEMMA CallsSurviveRetraction ==
    ASSUME NEW r, EmissionCallSound(r), live' \subseteq live, used' = used
    PROVE  EmissionCallSound(r)'
BY DEF EmissionCallSound, Happened, Retracted

\* A step of one call that commits nothing new.
LEMMA OneCallMoves ==
    ASSUME EmissionInv, NEW w \in Writers, NEW r \in EmissionCalls, To(w, r),
           live' \subseteq live, used' = used, EmissionCallSound(r)',
           OnlyLostRecordsAreSilent', AnnouncementsTrue'
    PROVE  EmissionInv'
<1>1. /\ call' \in [Writers -> EmissionCalls] /\ call'[w] = r
      /\ \A v \in Writers \ {w} : call'[v] = call[v]
  BY DEF EmissionInv, To
<1>2. ASSUME NEW v \in Writers PROVE EmissionCallSound(call[v])'
  <2>1. CASE v = w
    BY <1>1, <2>1 DEF EmissionCallSound, Happened
  <2>2. CASE v # w
    <3>1. PICK q : q = call[v]
      OBVIOUS
    <3>2. EmissionCallSound(q)' /\ call'[v] = q
      BY <1>1, <2>2, <3>1, CallsSurviveRetraction DEF EmissionInv
    <3>3. QED
      BY <3>2 DEF EmissionCallSound, Happened
  <2>3. QED
    BY <2>1, <2>2
<1>3. QED
  BY <1>1, <1>2 DEF EmissionInv

\* A commit of new facts, which every reading call takes note of.
LEMMA FactsCommitted ==
    ASSUME EmissionInv, NEW w \in Writers, NEW r \in EmissionCalls, NEW ids \in SUBSET FactIds,
           ids \cap used = {}, live' \subseteq live \cup ids, used' = used \cup ids,
           call' = [Race(w, ids) EXCEPT ![w] = r], EmissionCallSound(r)', live' \subseteq used',
           UNCHANGED <<silent, untrue>>
    PROVE  EmissionInv'
<1>1. /\ call'[w] = r /\ DOMAIN call' = Writers
      /\ \A v \in Writers \ {w} :
            call'[v] = IF call[v].phase = "read" THEN [call[v] EXCEPT !.raced = @ \cup ids]
                       ELSE call[v]
  BY DEF Race
<1>2. ASSUME NEW v \in Writers \ {w} PROVE call'[v] \in EmissionCalls /\ EmissionCallSound(call[v])'
  <2>1. PICK q, n : /\ q = call[v]
                    /\ n = IF q.phase = "read" THEN [q EXCEPT !.raced = q.raced \cup ids] ELSE q
    OBVIOUS
  <2>2. q \in EmissionCalls /\ EmissionCallSound(q) /\ call'[v] = n
    BY <1>1, <2>1 DEF EmissionInv
  <2>3. /\ n \in EmissionCalls /\ n.phase = q.phase /\ n.ids = q.ids /\ n.read = q.read
        /\ n.wrote = q.wrote /\ (q.phase = "read" => n.raced = q.raced \cup ids)
        /\ (q.phase # "read" => n.raced = q.raced)
    <3>1. CASE q.phase = "read"
      <4>1. q.raced \cup ids \in SUBSET FactIds
        BY <2>2 DEF EmissionCalls
      <4>2. n = [q EXCEPT !.raced = q.raced \cup ids]
        BY <2>1, <3>1
      <4>3. QED
        BY <2>2, <3>1, <4>1, <4>2 DEF EmissionCalls
    <3>2. CASE q.phase # "read"
      BY <2>1, <2>2, <3>2
    <3>3. QED
      BY <3>1, <3>2
  <2>4. \A c : Happened(c) => Happened(c)'
    BY DEF Happened
  <2>5. q.phase = "read" =>
           Retracted(live' \cap n.ids) \subseteq n.read \cup Retracted(n.raced)
    BY <2>2, <2>3 DEF EmissionCallSound, Retracted
  <2>6. EmissionCallSound(n)'
    BY <2>2, <2>3, <2>4, <2>5 DEF EmissionCallSound, Happened
  <2>7. QED
    BY <2>2, <2>3, <2>6 DEF EmissionCallSound, Happened
<1>3. EmissionCallSound(call[w])'
  BY <1>1 DEF EmissionCallSound, Happened
<1>4. call' \in [Writers -> EmissionCalls]
  BY <1>1, <1>2 DEF Race
<1>5. QED
  BY <1>2, <1>3, <1>4 DEF EmissionInv, OnlyLostRecordsAreSilent, AnnouncementsTrue

LEMMA AssertsAnnounced ==
    ASSUME EmissionInv, NEW w \in Writers, NEW ids \in Batches, AssertBatch(w, ids)
    PROVE  EmissionInv'
<1>1. PICK r : r = [Resting EXCEPT !.phase = "emit", !.method = "assert",
                                   !.wrote = Asserted(ids), !.read = Asserted(ids)]
  OBVIOUS
<1>2. /\ ids \in SUBSET FactIds /\ ids \cap used = {} /\ live' = live \cup ids /\ used' = used \cup ids
      /\ call' = [Race(w, ids) EXCEPT ![w] = r] /\ UNCHANGED <<silent, untrue>>
  BY <1>1, EmissionAssumption DEF AssertBatch
<1>3. r \in EmissionCalls /\ r.phase = "emit" /\ r.wrote = Asserted(ids) /\ r.read = Asserted(ids)
  <2>1. Asserted(ids) \in SUBSET FactChanges
    BY <1>2, FactChangesOf
  <2>2. QED
    BY <1>1, <2>1 DEF Resting, EmissionCalls
<1>4. EmissionCallSound(r)'
  BY <1>2, <1>3, FactChangesOf DEF EmissionCallSound, Happened
<1>5. QED
  BY <1>2, <1>3, <1>4, FactsCommitted DEF EmissionInv

LEMMA TransactsAnnounced ==
    ASSUME EmissionInv, NEW w \in Writers, NEW ids \in Batches, NEW gone, Transact(w, ids, gone)
    PROVE  EmissionInv'
<1>1. PICK r : r = [Resting EXCEPT !.phase = "record", !.method = "transact",
                                   !.wrote = Asserted(ids) \cup Retracted(gone)]
  OBVIOUS
<1>2. /\ ids \in SUBSET FactIds /\ ids \cap used = {} /\ gone \subseteq live
      /\ live' = (live \ gone) \cup ids /\ used' = used \cup ids
      /\ call' = [Race(w, ids) EXCEPT ![w] = r] /\ UNCHANGED <<silent, untrue>>
  BY <1>1, EmissionAssumption DEF Transact
<1>3. gone \in SUBSET FactIds
  BY <1>2 DEF EmissionInv
<1>4. r \in EmissionCalls /\ r.phase = "record" /\ r.wrote = Asserted(ids) \cup Retracted(gone)
  <2>1. Asserted(ids) \cup Retracted(gone) \in SUBSET FactChanges
    BY <1>2, <1>3, FactChangesOf
  <2>2. QED
    BY <1>1, <2>1 DEF Resting, EmissionCalls
<1>5. \A c \in Asserted(ids) \cup Retracted(gone) : Happened(c)'
  <2>1. \A c \in Asserted(ids) : Happened(c)'
    BY <1>2, FactChangesOf DEF Happened
  <2>2. \A c \in Retracted(gone) : c[1] = "retract" /\ c[2] \in gone
    BY <1>3, FactChangesOf
  <2>3. \A i \in gone : i \in used' /\ i \notin live'
    BY <1>2 DEF EmissionInv
  <2>4. QED
    BY <2>1, <2>2, <2>3 DEF Happened
<1>6. EmissionCallSound(r)'
  BY <1>4, <1>5 DEF EmissionCallSound, Happened
<1>7. live' \subseteq live \cup ids /\ live' \subseteq used'
  BY <1>2 DEF EmissionInv
<1>8. QED
  BY <1>2, <1>4, <1>6, <1>7, FactsCommitted

LEMMA ReadsAnnounced ==
    ASSUME EmissionInv, NEW w \in Writers,
           \/ \E id \in FactIds : RetractReads(w, id)
           \/ \E a \in {AttributeOf[i] : i \in FactIds} : PatternReads(w, a)
    PROVE  EmissionInv'
<1>1. PICK r \in EmissionCalls :
         /\ To(w, r) /\ r.phase = "read"
         /\ Retracted(live \cap r.ids) \subseteq r.read \cup Retracted(r.raced)
         /\ \A c \in r.read : c[1] = "retract" /\ c[2] \in used /\ c[2] \in r.ids
  <2>1. ASSUME NEW id \in FactIds, RetractReads(w, id)
        PROVE  \E read \in SUBSET FactChanges, raced \in SUBSET FactIds :
                  /\ To(w, [Resting EXCEPT !.phase = "read", !.method = "retract", !.ids = {id},
                                           !.read = read, !.raced = raced])
                  /\ Retracted(live \cap {id}) \subseteq read \cup Retracted(raced)
                  /\ \A c \in read : c[1] = "retract" /\ c[2] \in used /\ c[2] \in {id}
    <3>1. {id} \in SUBSET FactIds /\ {} \in SUBSET FactIds /\ {} \in SUBSET FactChanges
      OBVIOUS
    <3>2. /\ Retracted({id}) \in SUBSET FactChanges
          /\ \A c \in Retracted({id}) : c[1] = "retract" /\ c[2] = id
          /\ Retracted(live \cap {id}) \subseteq Retracted({id})
      BY <3>1, FactChangesOf DEF Retracted
    <3>3. PICK read \in {Retracted({id}), {}} :
             To(w, [Resting EXCEPT !.phase = "read", !.method = "retract", !.ids = {id},
                                   !.read = read, !.raced = IF read = {} THEN {id} ELSE {}])
      BY <2>1 DEF RetractReads
    <3>4. id \in used
      BY <2>1 DEF RetractReads
    <3>5. CASE read = {}
      <4>1. /\ To(w, [Resting EXCEPT !.phase = "read", !.method = "retract", !.ids = {id},
                                     !.read = read, !.raced = {id}])
            /\ Retracted(live \cap {id}) \subseteq read \cup Retracted({id})
        BY <3>2, <3>3, <3>5
      <4>2. QED
        BY <3>1, <3>5, <4>1
    <3>6. CASE read = Retracted({id}) /\ read # {}
      <4>1. /\ To(w, [Resting EXCEPT !.phase = "read", !.method = "retract", !.ids = {id},
                                     !.read = read, !.raced = {}])
            /\ Retracted(live \cap {id}) \subseteq read \cup Retracted({})
            /\ \A c \in read : c[1] = "retract" /\ c[2] \in used /\ c[2] \in {id}
        BY <3>2, <3>3, <3>4, <3>6
      <4>2. read \in SUBSET FactChanges
        BY <3>2, <3>6
      <4>3. QED
        BY <3>1, <4>1, <4>2
    <3>7. QED
      BY <3>3, <3>5, <3>6
  <2>2. ASSUME NEW a, PatternReads(w, a)
        PROVE  \E ids \in SUBSET FactIds, read \in SUBSET FactChanges :
                  /\ To(w, [Resting EXCEPT !.phase = "read", !.method = "pattern", !.ids = ids,
                                           !.read = read])
                  /\ Retracted(live \cap ids) \subseteq read
                  /\ \A c \in read : c[1] = "retract" /\ c[2] \in used /\ c[2] \in ids
    <3> DEFINE ids == {i \in FactIds : AttributeOf[i] = a}
               read == Retracted(MatchedFacts(a))
    <3>1. /\ MatchedFacts(a) = live \cap ids /\ MatchedFacts(a) \in SUBSET FactIds
          /\ MatchedFacts(a) \subseteq used
      BY DEF MatchedFacts, EmissionInv
    <3>2. read \in SUBSET FactChanges /\ \A c \in read : c[1] = "retract" /\ c[2] \in MatchedFacts(a)
      BY <3>1, FactChangesOf
    <3>3. To(w, [Resting EXCEPT !.phase = "read", !.method = "pattern", !.ids = ids, !.read = read])
      BY <2>2 DEF PatternReads
    <3>4. Retracted(live \cap ids) \subseteq read
      BY <3>1
    <3>5. \A c \in read : c[1] = "retract" /\ c[2] \in used /\ c[2] \in ids
      <4> HIDE DEF read
      <4>1. QED
        BY <3>1, <3>2
    <3>6. ids \in SUBSET FactIds
      OBVIOUS
    <3> HIDE DEF ids, read
    <3>7. QED
      BY <3>2, <3>3, <3>4, <3>5, <3>6
  <2>3. CASE \E id \in FactIds : RetractReads(w, id)
    <3>1. PICK id \in FactIds : RetractReads(w, id)
      BY <2>3
    <3>2. PICK read \in SUBSET FactChanges, raced \in SUBSET FactIds :
             /\ To(w, [Resting EXCEPT !.phase = "read", !.method = "retract", !.ids = {id},
                                      !.read = read, !.raced = raced])
             /\ Retracted(live \cap {id}) \subseteq read \cup Retracted(raced)
             /\ \A c \in read : c[1] = "retract" /\ c[2] \in used /\ c[2] \in {id}
      BY <2>1, <3>1
    <3>3. PICK r : r = [Resting EXCEPT !.phase = "read", !.method = "retract", !.ids = {id},
                                       !.read = read, !.raced = raced]
      OBVIOUS
    <3>4. /\ r \in EmissionCalls /\ r.phase = "read" /\ r.ids = {id} /\ r.read = read
          /\ r.raced = raced
      BY <3>3 DEF Resting, EmissionCalls
    <3>5. QED
      BY <3>2, <3>3, <3>4
  <2>4. CASE \E a : PatternReads(w, a)
    <3>1. PICK ids \in SUBSET FactIds, read \in SUBSET FactChanges :
             /\ To(w, [Resting EXCEPT !.phase = "read", !.method = "pattern", !.ids = ids,
                                      !.read = read])
             /\ Retracted(live \cap ids) \subseteq read
             /\ \A c \in read : c[1] = "retract" /\ c[2] \in used /\ c[2] \in ids
      BY <2>2, <2>4
    <3>2. PICK r : r = [Resting EXCEPT !.phase = "read", !.method = "pattern", !.ids = ids,
                                       !.read = read]
      OBVIOUS
    <3>3. r \in EmissionCalls /\ r.phase = "read" /\ r.ids = ids /\ r.read = read
      BY <3>2 DEF Resting, EmissionCalls
    <3>4. QED
      BY <3>1, <3>2, <3>3
  <2>5. QED
    BY <2>3, <2>4
<1>2. live' = live /\ used' = used /\ UNCHANGED <<silent, untrue>>
  BY DEF RetractReads, PatternReads
<1>3. EmissionCallSound(r)'
  BY <1>1, <1>2 DEF EmissionCallSound, Happened
<1>4. OnlyLostRecordsAreSilent' /\ AnnouncementsTrue'
  BY <1>2 DEF EmissionInv, OnlyLostRecordsAreSilent, AnnouncementsTrue
<1>5. QED
  BY <1>1, <1>2, <1>3, <1>4, OneCallMoves

LEMMA RetractionsAnnounced ==
    ASSUME EmissionInv, NEW w \in Writers, Retract(w)
    PROVE  EmissionInv'
<1>1. PICK q, gone : q = call[w] /\ gone = live \cap q.ids
  OBVIOUS
<1>2. /\ q \in EmissionCalls /\ EmissionCallSound(q) /\ q.phase = "read"
  BY <1>1 DEF EmissionInv, Retract
<1>3. /\ live' = live \ gone /\ used' = used /\ UNCHANGED <<silent, untrue>>
      /\ \/ To(w, Resting)
         \/ To(w, [q EXCEPT !.phase = "emit", !.wrote = Retracted(gone)])
  BY <1>1 DEF Retract
<1>4. OnlyLostRecordsAreSilent' /\ AnnouncementsTrue' /\ live' \subseteq live
  BY <1>3 DEF EmissionInv, OnlyLostRecordsAreSilent, AnnouncementsTrue
<1>5. CASE To(w, Resting)
  <2>1. EmissionCallSound(Resting)'
    BY RestingSound DEF EmissionCallSound
  <2>2. QED
    BY <1>3, <1>4, <1>5, <2>1, RestingSound, OneCallMoves
<1>6. CASE To(w, [q EXCEPT !.phase = "emit", !.wrote = Retracted(gone)])
  <2>1. PICK r : r = [q EXCEPT !.phase = "emit", !.wrote = Retracted(gone)]
    OBVIOUS
  <2>2. gone \in SUBSET FactIds /\ Retracted(gone) \in SUBSET FactChanges
    <3>1. gone \in SUBSET FactIds
      BY <1>1 DEF EmissionInv
    <3>2. QED
      BY <3>1, FactChangesOf
  <2>3. /\ r \in EmissionCalls /\ r.phase = "emit" /\ r.wrote = Retracted(gone)
        /\ r.read = q.read /\ r.raced = q.raced
    BY <1>2, <2>1, <2>2 DEF EmissionCalls
  <2>4. \A c \in q.read : Happened(c)'
    BY <1>1, <1>2, <1>3 DEF EmissionCallSound, Happened
  <2>5. Retracted(gone) \subseteq q.read \cup Retracted(q.raced)
    BY <1>1, <1>2 DEF EmissionCallSound
  <2>6. EmissionCallSound(r)'
    BY <2>3, <2>4, <2>5 DEF EmissionCallSound, Happened
  <2>7. QED
    BY <1>3, <1>4, <1>6, <2>1, <2>3, <2>6, OneCallMoves
<1>7. QED
  BY <1>3, <1>5, <1>6

LEMMA RecordsAnnounced ==
    ASSUME EmissionInv, NEW w \in Writers, ReadRecord(w) \/ RecordLost(w) \/ Announce(w)
    PROVE  EmissionInv'
<1>1. PICK q : q = call[w]
  OBVIOUS
<1>2. /\ q \in EmissionCalls /\ EmissionCallSound(q) /\ live' = live /\ used' = used
  BY <1>1 DEF EmissionInv, ReadRecord, RecordLost, Announce
<1>3. EmissionCallSound(Resting)'
  BY RestingSound DEF EmissionCallSound
<1>4. CASE ReadRecord(w)
  <2>1. PICK r : r = [q EXCEPT !.phase = "emit", !.read = q.wrote]
    OBVIOUS
  <2>2. /\ r \in EmissionCalls /\ r.phase = "emit" /\ r.wrote = q.wrote /\ r.read = q.wrote
    BY <1>2, <2>1 DEF EmissionCalls
  <2>3. q.phase = "record" /\ To(w, r) /\ UNCHANGED <<silent, untrue>>
    BY <1>1, <1>4, <2>1 DEF ReadRecord, RecordedChanges
  <2>4. EmissionCallSound(r)'
    BY <1>2, <2>2, <2>3 DEF EmissionCallSound, Happened
  <2>5. OnlyLostRecordsAreSilent' /\ AnnouncementsTrue'
    BY <2>3 DEF EmissionInv, OnlyLostRecordsAreSilent, AnnouncementsTrue
  <2>6. QED
    BY <1>2, <2>2, <2>3, <2>4, <2>5, OneCallMoves
<1>5. CASE RecordLost(w)
  <2>1. /\ silent' = silent \cup {[method |-> "lost", change |-> c] : c \in q.wrote}
        /\ To(w, Resting) /\ untrue' = untrue
    BY <1>1, <1>5 DEF RecordLost
  <2>2. OnlyLostRecordsAreSilent' /\ AnnouncementsTrue'
    BY <2>1 DEF EmissionInv, OnlyLostRecordsAreSilent, AnnouncementsTrue
  <2>3. QED
    BY <1>2, <1>3, <2>1, <2>2, RestingSound, OneCallMoves
<1>6. CASE Announce(w)
  <2>1. /\ q.phase = "emit" /\ To(w, Resting)
        /\ silent' = silent \cup {[method |-> q.method, change |-> c] :
                                     c \in q.wrote \ (q.read \cup Retracted(q.raced))}
        /\ untrue' = untrue \cup {c \in q.read : IF c[1] = "assert" THEN c[2] \notin used
                                                 ELSE c[2] \in live \/ c[2] \notin used}
    BY <1>1, <1>6 DEF Announce
  <2>2. q.wrote \ (q.read \cup Retracted(q.raced)) = {}
    BY <1>2, <2>1 DEF EmissionCallSound
  <2>3. \A c \in q.read : Happened(c)
    BY <1>2, <2>1 DEF EmissionCallSound
  <2>4. silent' = silent
    BY <2>1, <2>2
  <2>5. untrue' = untrue
    BY <2>1, <2>3 DEF Happened
  <2>6. OnlyLostRecordsAreSilent' /\ AnnouncementsTrue'
    BY <2>4, <2>5 DEF EmissionInv, OnlyLostRecordsAreSilent, AnnouncementsTrue
  <2>7. QED
    BY <1>2, <1>3, <2>1, <2>6, RestingSound, OneCallMoves
<1>7. QED
  BY <1>4, <1>5, <1>6

LEMMA EmissionInvariance == SubscriptionsSpec => []EmissionInv
<1>1. SubscriptionsInit => EmissionInv
  BY RestingSound DEF SubscriptionsInit, EmissionInit, EmissionInv, OnlyLostRecordsAreSilent,
     AnnouncementsTrue
<1>2. EmissionInv /\ [SubscriptionsNext]_svars => EmissionInv'
  <2> SUFFICES ASSUME EmissionInv, [SubscriptionsNext]_svars PROVE EmissionInv'
    OBVIOUS
  <2>1. CASE UNCHANGED evars
    BY <2>1 DEF evars, EmissionInv, EmissionCallSound, Happened, OnlyLostRecordsAreSilent,
       AnnouncementsTrue
  <2>2. CASE EmissionNext
    BY <2>2, AssertsAnnounced, TransactsAnnounced, ReadsAnnounced, RetractionsAnnounced,
       RecordsAnnounced DEF EmissionNext
  <2>3. QED
    BY <2>1, <2>2 DEF SubscriptionsNext, svars, HubOnly, EmissionOnly, ManagerOnly, WatchesOnly
<1>3. QED
  BY <1>1, <1>2, PTL DEF SubscriptionsSpec

\* Every committed change is announced, but for a record that cannot be read
\* back, and nothing is announced that has not happened
\* (makeWriteInterceptors), for any number of writers and facts.
THEOREM AnnouncementsAreExact == SubscriptionsSpec => []AnnouncementsExact
<1>1. EmissionInv => AnnouncementsExact
  BY DEF EmissionInv, AnnouncementsExact
<1>2. QED
  BY <1>1, EmissionInvariance, PTL

-----------------------------------------------------------------------------
(***************************************************************************)
(* The sync hub.  The books of each database agree by themselves, whatever *)
(* the queries.  That nothing due is forgotten rests on them and on the    *)
(* check: what is due waits in its database, its subscription is still     *)
(* held, and the query of that subscription reads it, so that the flush    *)
(* finds it through the tree.                                              *)
(***************************************************************************)
TreeOf(queries) == UNION {Filed(q.conn, q.id, q.query) : q \in queries}

\* An entry whose tree is exact and whose queries are those of clients.
BooksRight(conn) ==
    /\ conn \in DatabaseConnections
    /\ conn.timer <=> conn.pending # <<>>
    /\ conn.tree = TreeOf(conn.queries)
    /\ \A q \in conn.queries : q.conn \in conn.clients

\* The hub drops a database with its last client, or lets the flush do it.
Kept(conn) == BooksRight(conn) /\ (conn.clients = {} => conn.timer)

BooksInv ==
    /\ hub \in [Databases -> DatabaseConnections \cup {NoDatabase}]
    /\ \A d \in Databases : Exists(d) => Kept(hub[d])

Holds(conn, x) == \E q \in conn.queries : q.conn = x.conn /\ q.id = x.id /\ q.query = x.query

DueInv ==
    \A x \in due : /\ x.db \in Databases /\ Exists(x.db)
                   /\ x.change \in PendingChanges(hub[x.db])
                   /\ <<x.query, x.change>> \in ReadBy
                   /\ Holds(hub[x.db], x)

UniformQueries == \A q \in Queries : Uniform(TextOf[q])

\* A filing names its topic, its connection and its query id.
LEMMA FilingParts ==
    ASSUME NEW c \in Connections, NEW id \in QueryIds, NEW query \in Queries
    PROVE  /\ Filed(c, id, query) \subseteq Topics \X Connections \X QueryIds
           /\ \A t \in Filed(c, id, query) : t[2] = c /\ t[3] = id
           /\ \A t \in topicsFor(extractDependencies(TextOf[query])) :
                 <<t, c, id>> \in Filed(c, id, query)
<1>1. ASSUME NEW f \in Filed(c, id, query)
      PROVE  f \in Topics \X Connections \X QueryIds /\ f[2] = c /\ f[3] = id
  <2>1. PICK ft \in FiledUnder : ft[1] = query /\ f = <<ft[2], c, id>>
    BY DEF Filed
  <2>2. PICK q \in Queries :
           \E t \in topicsFor(extractDependencies(TextOf[q])) : ft = <<q, t>>
    BY DEF FiledUnder
  <2>3. ft[2] \in Topics
    BY <2>2 DEF Topics
  <2>4. QED
    BY <2>1, <2>3
<1>2. ASSUME NEW t \in topicsFor(extractDependencies(TextOf[query]))
      PROVE  <<t, c, id>> \in Filed(c, id, query)
  <2>1. <<query, t>> \in FiledUnder
    BY DEF FiledUnder
  <2>2. QED
    BY <2>1 DEF Filed
<1>3. QED
  BY <1>1, <1>2

\* Taking out every query of some connection and id leaves the others' topics.
LEMMA TreeWithout ==
    ASSUME NEW conn \in DatabaseConnections, NEW held \in SUBSET conn.queries,
           conn.tree = TreeOf(conn.queries),
           \A q \in conn.queries \ held, h \in held : q.conn # h.conn \/ q.id # h.id
    PROVE  conn.tree \ TreeOf(held) = TreeOf(conn.queries \ held)
<1>1. conn.queries \subseteq [conn : Connections, id : QueryIds, query : Queries]
  BY DEF DatabaseConnections
<1>2. ASSUME NEW q \in conn.queries \ held, NEW h \in held, NEW t,
             t \in Filed(q.conn, q.id, q.query), t \in Filed(h.conn, h.id, h.query)
      PROVE  FALSE
  <2>1. /\ q.conn \in Connections /\ q.id \in QueryIds /\ q.query \in Queries
        /\ h.conn \in Connections /\ h.id \in QueryIds /\ h.query \in Queries
    BY <1>1
  <2>2. QED
    BY <1>2, <2>1, FilingParts
<1>3. QED
  BY <1>2 DEF TreeOf

\* The tree of well-typed queries is well typed.
LEMMA TreeTyped ==
    ASSUME NEW queries \in SUBSET [conn : Connections, id : QueryIds, query : Queries]
    PROVE  TreeOf(queries) \in SUBSET (Topics \X Connections \X QueryIds)
BY FilingParts DEF TreeOf

\* removeConnection takes the connections' queries and topics, no others.
LEMMA ConnectionsRemoved ==
    ASSUME NEW conn, BooksRight(conn), NEW cs
    PROVE  LET r == RemoveConnections(conn, cs)
           IN  /\ r \in DatabaseConnections
               /\ r.queries = {q \in conn.queries : q.conn \notin cs}
               /\ r.tree = TreeOf(r.queries)
               /\ r.clients = conn.clients /\ r.pending = conn.pending /\ r.timer = conn.timer
<1> DEFINE held == {q \in conn.queries : q.conn \in cs}
           r == RemoveConnections(conn, cs)
<1>1. held \in SUBSET conn.queries
      /\ \A q \in conn.queries \ held, h \in held : q.conn # h.conn \/ q.id # h.id
  OBVIOUS
<1>2. conn \in DatabaseConnections /\ conn.tree = TreeOf(conn.queries)
  BY DEF BooksRight
<1>3. r = [conn EXCEPT !.queries = @ \ held, !.tree = @ \ TreeOf(held)]
  BY DEF RemoveConnections, TreeOf
<1>4. conn.tree \ TreeOf(held) = TreeOf(conn.queries \ held)
  <2> HIDE DEF held
  <2>1. QED
    BY <1>1, <1>2, TreeWithout
<1>5. conn.queries \ held = {q \in conn.queries : q.conn \notin cs}
  OBVIOUS
<1> HIDE DEF held, r
<1>6. /\ r \in DatabaseConnections /\ r.queries = conn.queries \ held
      /\ r.tree = conn.tree \ TreeOf(held)
      /\ r.clients = conn.clients /\ r.pending = conn.pending /\ r.timer = conn.timer
  BY <1>2, <1>3 DEF DatabaseConnections
<1>7. QED
  BY <1>4, <1>5, <1>6 DEF r

\* unregister takes the query and its topics, no others.
LEMMA QueryRemoved ==
    ASSUME NEW conn, BooksRight(conn), NEW c, NEW id
    PROVE  LET r == Unregister(conn, c, id)
           IN  /\ r \in DatabaseConnections
               /\ r.queries \subseteq conn.queries
               /\ r.tree = TreeOf(r.queries)
               /\ r.clients = conn.clients /\ r.pending = conn.pending /\ r.timer = conn.timer
<1> DEFINE held == {q \in conn.queries : q.conn = c /\ q.id = id}
           r == Unregister(conn, c, id)
<1>1. held \in SUBSET conn.queries
      /\ \A q \in conn.queries \ held, h \in held : q.conn # h.conn \/ q.id # h.id
  OBVIOUS
<1>2. conn \in DatabaseConnections /\ conn.tree = TreeOf(conn.queries)
  BY DEF BooksRight
<1>3. UNION {Filed(c, id, q.query) : q \in held} = TreeOf(held)
  BY DEF TreeOf
<1>4. r = [conn EXCEPT !.queries = @ \ held, !.tree = @ \ TreeOf(held)]
  BY <1>3 DEF Unregister
<1> HIDE DEF held, r
<1>5. conn.tree \ TreeOf(held) = TreeOf(conn.queries \ held)
  BY <1>1, <1>2, TreeWithout
<1>6. /\ r \in DatabaseConnections /\ r.queries = conn.queries \ held
      /\ r.tree = conn.tree \ TreeOf(held)
      /\ r.clients = conn.clients /\ r.pending = conn.pending /\ r.timer = conn.timer
  BY <1>2, <1>4 DEF DatabaseConnections
<1>7. QED
  BY <1>5, <1>6 DEF r

\* Queries of a client filed under their topics keep the books right.
LEMMA QueriesFiled ==
    ASSUME NEW conn, BooksRight(conn), NEW new, \A q \in new : q.conn \in conn.clients,
           new \subseteq [conn : Connections, id : QueryIds, query : Queries],
           NEW r, r = [conn EXCEPT !.queries = conn.queries \cup new,
                                   !.tree = conn.tree \cup TreeOf(new)]
    PROVE  BooksRight(r) /\ r.pending = conn.pending
<1>1. conn \in DatabaseConnections
  BY DEF BooksRight
<1>2. TreeOf(new) \in SUBSET (Topics \X Connections \X QueryIds)
  BY TreeTyped
<1>3. /\ r \in DatabaseConnections
      /\ r.queries = conn.queries \cup new /\ r.tree = conn.tree \cup TreeOf(new)
      /\ r.clients = conn.clients /\ r.pending = conn.pending /\ r.timer = conn.timer
  BY <1>1, <1>2 DEF DatabaseConnections
<1>4. TreeOf(conn.queries \cup new) = TreeOf(conn.queries) \cup TreeOf(new)
  BY DEF TreeOf
<1>5. QED
  BY <1>3, <1>4 DEF BooksRight

\* register, on a client of the database
LEMMA QueryFiled ==
    ASSUME NEW conn, BooksRight(conn), NEW c \in conn.clients, NEW id \in QueryIds,
           NEW query \in Queries
    PROVE  LET r == Register(conn, c, id, query)
           IN  BooksRight(r) /\ r.pending = conn.pending
<1> DEFINE u == Unregister(conn, c, id)
           new == {[conn |-> c, id |-> id, query |-> query]}
           r == Register(conn, c, id, query)
<1>1. /\ u \in DatabaseConnections /\ u.queries \subseteq conn.queries
      /\ u.tree = TreeOf(u.queries)
      /\ u.clients = conn.clients /\ u.pending = conn.pending /\ u.timer = conn.timer
  BY QueryRemoved
<1>2. /\ new \subseteq [conn : Connections, id : QueryIds, query : Queries]
      /\ \A q \in new : q.conn \in conn.clients
  BY DEF BooksRight, DatabaseConnections
<1>3. Filed(c, id, query) = TreeOf(new)
  BY DEF TreeOf
<1>4. r = [u EXCEPT !.queries = u.queries \cup new, !.tree = u.tree \cup TreeOf(new)]
  BY <1>3 DEF Register
<1> HIDE DEF u, new, r
<1>5. BooksRight(u) /\ \A q \in new : q.conn \in u.clients
  BY <1>1, <1>2 DEF BooksRight
<1>6. BooksRight(r) /\ r.pending = u.pending
  BY <1>2, <1>4, <1>5, QueriesFiled
<1>7. QED
  BY <1>1, <1>6 DEF r

\* disconnect: the database goes, or its entry is kept without the client.
LEMMA Dropped ==
    ASSUME NEW conn, BooksRight(conn), NEW gone
    PROVE  LET r == Drop(conn, gone)
           IN  r # NoDatabase => /\ Kept(r) /\ r.pending = conn.pending
                                 /\ r.clients = conn.clients \ gone
<1> DEFINE s == RemoveConnections(conn, gone)
           left == [s EXCEPT !.clients = @ \ gone]
<1>1. /\ s \in DatabaseConnections
      /\ s.queries = {q \in conn.queries : q.conn \notin gone}
      /\ s.tree = TreeOf(s.queries)
      /\ s.clients = conn.clients /\ s.pending = conn.pending /\ s.timer = conn.timer
  BY ConnectionsRemoved
<1>2. Drop(conn, gone) = IF left.clients = {} /\ ~left.timer THEN NoDatabase ELSE left
  BY DEF Drop
<1> HIDE DEF s
<1>3. /\ left \in DatabaseConnections
      /\ left.queries = s.queries /\ left.tree = s.tree /\ left.clients = s.clients \ gone
      /\ left.pending = s.pending /\ left.timer = s.timer
  BY <1>1 DEF DatabaseConnections
<1> HIDE DEF left
<1>4. BooksRight(left)
  <2>1. \A q \in left.queries : q.conn \in left.clients
    BY <1>1, <1>3 DEF BooksRight
  <2>2. left.timer <=> left.pending # <<>>
    BY <1>1, <1>3 DEF BooksRight
  <2>3. QED
    BY <1>1, <1>3, <2>1, <2>2 DEF BooksRight
<1>5. QED
  BY <1>1, <1>2, <1>3, <1>4 DEF Kept

\* What is due stays due when the entry of its database keeps the waiting
\* events and, by StillDue, its query.
LEMMA EntryReplaced ==
    ASSUME BooksInv, NEW d \in Databases, NEW conn, conn # NoDatabase => Kept(conn),
           conn # NoDatabase /\ Exists(d) => conn.pending = hub[d].pending,
           Set(d, conn)
    PROVE  BooksInv' /\ (DueInv => DueInv')
<1>1. /\ hub' = [hub EXCEPT ![d] = conn] /\ due' = StillDue(d, conn)
      /\ hub'[d] = conn /\ \A e \in Databases \ {d} : hub'[e] = hub[e]
  BY DEF Set, BooksInv
<1>2. hub' \in [Databases -> DatabaseConnections \cup {NoDatabase}]
  BY <1>1 DEF BooksInv, Kept, BooksRight
<1>3. ASSUME NEW e \in Databases, Exists(e)' PROVE Kept(hub'[e])
  BY <1>1, <1>3 DEF BooksInv, Exists
<1>4. ASSUME DueInv, NEW x \in due'
      PROVE  /\ x.db \in Databases /\ Exists(x.db)'
             /\ x.change \in PendingChanges(hub'[x.db])
             /\ <<x.query, x.change>> \in ReadBy
             /\ Holds(hub'[x.db], x)
  <2>1. /\ x \in due /\ x.db \in Databases /\ Exists(x.db) /\ x.change \in PendingChanges(hub[x.db])
        /\ <<x.query, x.change>> \in ReadBy /\ Holds(hub[x.db], x)
    BY <1>1, <1>4 DEF StillDue, DueInv
  <2>2. CASE x.db = d
    <3>1. conn # NoDatabase /\ Holds(conn, x)
      BY <1>1, <2>2 DEF StillDue, Holds
    <3>2. conn.pending = hub[d].pending
      BY <2>1, <2>2, <3>1
    <3>3. x.change \in PendingChanges(conn)
      BY <2>1, <2>2, <3>2 DEF PendingChanges
    <3>4. QED
      BY <1>1, <2>1, <2>2, <3>1, <3>3 DEF Exists
  <2>3. CASE x.db # d
    BY <1>1, <2>1, <2>3 DEF Exists
  <2>4. QED
    BY <2>2, <2>3
<1>5. DueInv => DueInv'
  BY <1>4 DEF DueInv, Exists, PendingChanges, Holds
<1>6. BooksInv'
  BY <1>2, <1>3 DEF BooksInv, Kept, BooksRight, Exists
<1>7. QED
  BY <1>5, <1>6

\* A send may drop the entry's clients and with them the entry.
LEMMA EntrySent ==
    ASSUME BooksInv, NEW d \in Databases, NEW conn, BooksRight(conn), NEW cs,
           Exists(d) => conn.pending = hub[d].pending,
           Set(d, Send(d, conn, cs))
    PROVE  BooksInv' /\ (DueInv => DueInv')
<1> DEFINE gone == {c \in cs \cap conn.clients : <<d, c>> \in broken'}
           r == Drop(conn, gone)
<1>1. Set(d, r)
  BY DEF Send
<1> HIDE DEF gone
<1>2. r # NoDatabase => Kept(r) /\ r.pending = conn.pending
  BY Dropped
<1> HIDE DEF r
<1>3. QED
  BY <1>1, <1>2, EntryReplaced

LEMMA ConnectKeeps ==
    ASSUME BooksInv, NEW d \in Databases, NEW c \in Connections, NEW attached \in Attachments,
           NEW works \in BOOLEAN, Connect(d, c, attached, works)
    PROVE  BooksInv' /\ (DueInv => DueInv')
<1> DEFINE conn   == IF Exists(d) THEN hub[d] ELSE EmptyDatabase
           s      == RemoveConnections(conn, {c})
           joined == [s EXCEPT !.clients = @ \cup {c}]
           all    == {[conn |-> c, id |-> a.id, query |-> a.query] : a \in attached}
           topics == UNION {Filed(c, q.id, q.query) : q \in all}
           subscribed == [joined EXCEPT !.queries = @ \cup all, !.tree = @ \cup topics]
<1>1. Set(d, Send(d, subscribed, {c}))
  BY DEF Connect
<1>2. BooksRight(EmptyDatabase)
  BY DEF BooksRight, EmptyDatabase, DatabaseConnections, TreeOf
<1>3. BooksRight(conn) /\ (Exists(d) => conn.pending = hub[d].pending)
  BY <1>2 DEF BooksInv, Kept
<1>4. /\ all \subseteq [conn : Connections, id : QueryIds, query : Queries]
      /\ \A q \in all : q.conn = c
  BY HubAssumption
<1>5. topics = TreeOf(all)
  BY DEF TreeOf
<1> HIDE DEF all, topics, conn
<1>6. /\ s \in DatabaseConnections
      /\ s.queries = {q \in conn.queries : q.conn \notin {c}}
      /\ s.tree = TreeOf(s.queries)
      /\ s.clients = conn.clients /\ s.pending = conn.pending /\ s.timer = conn.timer
  BY <1>3, ConnectionsRemoved
<1> HIDE DEF s
<1>7. /\ joined \in DatabaseConnections
      /\ joined.queries = s.queries /\ joined.tree = s.tree /\ joined.clients = s.clients \cup {c}
      /\ joined.pending = s.pending /\ joined.timer = s.timer
  BY <1>6 DEF DatabaseConnections
<1> HIDE DEF joined
<1>8. BooksRight(joined) /\ c \in joined.clients
  BY <1>3, <1>6, <1>7 DEF BooksRight
<1>9. BooksRight(subscribed) /\ subscribed.pending = joined.pending
  <2>1. subscribed = [joined EXCEPT !.queries = joined.queries \cup all,
                                    !.tree = joined.tree \cup TreeOf(all)]
    BY <1>5
  <2>2. \A q \in all : q.conn \in joined.clients
    BY <1>4, <1>8
  <2> HIDE DEF subscribed
  <2>3. QED
    BY <1>4, <1>8, <2>1, <2>2, QueriesFiled
<1> HIDE DEF subscribed
<1>10. QED
  BY <1>1, <1>3, <1>6, <1>7, <1>9, EntrySent

\* The other steps of a connection.
LEMMA ConnectionStepKeeps ==
    ASSUME BooksInv, NEW d \in Databases, NEW c \in Connections, ConnectionStep(d, c)
    PROVE  BooksInv' /\ (DueInv => DueInv')
<1>1. Exists(d) => BooksRight(hub[d])
  BY DEF BooksInv, Kept
<1>2. CASE \E attached \in Attachments, works \in BOOLEAN : Connect(d, c, attached, works)
  BY <1>2, ConnectKeeps
<1>3. CASE Disconnect(d, c)
  <2> DEFINE r == Drop(hub[d], {c})
  <2>1. Exists(d) /\ Set(d, r)
    BY <1>3 DEF Disconnect
  <2>2. r # NoDatabase => Kept(r) /\ r.pending = hub[d].pending
    BY <1>1, <2>1, Dropped
  <2> HIDE DEF r
  <2>3. QED
    BY <2>1, <2>2, EntryReplaced
<1>4. CASE \E id \in QueryIds, query \in Queries : Subscribe(d, c, id, query)
  <2>1. PICK id \in QueryIds, query \in Queries : Subscribe(d, c, id, query)
    BY <1>4
  <2> DEFINE r == Register(hub[d], c, id, query)
  <2>2. Exists(d) /\ c \in hub[d].clients /\ Set(d, Send(d, r, {c}))
    BY <2>1 DEF Subscribe, Connected
  <2>3. BooksRight(r) /\ r.pending = hub[d].pending
    BY <1>1, <2>2, QueryFiled
  <2> HIDE DEF r
  <2>4. QED
    BY <2>2, <2>3, EntrySent
<1>5. CASE \E id \in QueryIds : Unsubscribe(d, c, id)
  <2>1. PICK id \in QueryIds : Unsubscribe(d, c, id)
    BY <1>5
  <2> DEFINE r == Unregister(hub[d], c, id)
  <2>2. Exists(d) /\ c \in hub[d].clients /\ Set(d, r)
    BY <2>1 DEF Unsubscribe, Connected
  <2>3. /\ r \in DatabaseConnections /\ r.queries \subseteq hub[d].queries
        /\ r.tree = TreeOf(r.queries)
        /\ r.clients = hub[d].clients /\ r.pending = hub[d].pending /\ r.timer = hub[d].timer
    BY <1>1, <2>2, QueryRemoved
  <2> HIDE DEF r
  <2>4. Kept(r)
    BY <1>1, <2>2, <2>3 DEF Kept, BooksRight
  <2>5. QED
    BY <2>2, <2>3, <2>4, EntryReplaced
<1>6. CASE Reply(d, c)
  BY <1>1, <1>6, EntrySent DEF Reply, Connected
<1>7. CASE Break(d, c)
  BY <1>7 DEF Break, BooksInv, DueInv, Exists
<1>8. QED
  BY <1>2, <1>3, <1>4, <1>5, <1>6, <1>7 DEF ConnectionStep

\* An event added to the window adds its changes.
LEMMA EventsPend ==
    ASSUME NEW conn \in DatabaseConnections, NEW event \in SUBSET Changes
    PROVE  LET r == Scheduled(conn, event)
           IN  /\ r \in DatabaseConnections /\ r.timer /\ r.pending # <<>>
               /\ r.clients = conn.clients /\ r.queries = conn.queries /\ r.tree = conn.tree
               /\ PendingChanges(conn) \subseteq PendingChanges(r)
               /\ event \subseteq PendingChanges(r)
<1>1. PICK s, r : /\ s = Append(conn.pending, event) /\ r = Scheduled(conn, event)
                  /\ r = [conn EXCEPT !.pending = s, !.timer = TRUE]
  BY DEF Scheduled
<1>2. conn.pending \in Seq(SUBSET Changes)
  BY DEF DatabaseConnections
<1>3. /\ r \in DatabaseConnections /\ r.timer = TRUE /\ r.pending = s
      /\ r.clients = conn.clients /\ r.queries = conn.queries /\ r.tree = conn.tree
  <2>1. s \in Seq(SUBSET Changes)
    BY <1>1, <1>2
  <2>2. PICK t : t = s
    OBVIOUS
  <2>3. t \in Seq(SUBSET Changes) /\ r = [conn EXCEPT !.pending = t, !.timer = TRUE]
    BY <1>1, <2>1, <2>2
  <2>4. QED
    BY <2>2, <2>3 DEF DatabaseConnections
<1>4. /\ Len(r.pending) = Len(conn.pending) + 1 /\ r.pending[Len(conn.pending) + 1] = event
      /\ \A i \in 1..Len(conn.pending) : r.pending[i] = conn.pending[i]
      /\ Len(conn.pending) \in Nat
  BY <1>1, <1>2, <1>3
<1>5. /\ 1..Len(conn.pending) \subseteq 1..Len(r.pending)
      /\ Len(conn.pending) + 1 \in 1..Len(r.pending)
  BY <1>4
<1>6. r.pending # <<>>
  BY <1>4
<1>7. QED
  BY <1>1, <1>3, <1>4, <1>5, <1>6 DEF PendingChanges

\* An emission reaches the databases that have clients, and what it makes due
\* waits there.
LEMMA EmissionsKeep ==
    ASSUME BooksInv, NEW ds \in SUBSET Databases, NEW event \in Events, EmitTo(ds, event)
    PROVE  BooksInv' /\ (DueInv => DueInv')
<1> DEFINE heard == {d \in ds : Listening(d)}
<1>1. /\ hub' = [d \in Databases |-> IF d \in heard THEN Scheduled(hub[d], event) ELSE hub[d]]
      /\ due' = due \cup UNION {NewlyDue(d, event) : d \in heard}
  BY DEF EmitTo
<1>2. event \in SUBSET Changes
  BY HubAssumption
<1>3. ASSUME NEW d \in heard
      PROVE  /\ d \in Databases /\ Exists(d) /\ Kept(hub[d]) /\ hub'[d] = Scheduled(hub[d], event)
             /\ hub'[d] # NoDatabase /\ Kept(hub'[d])
             /\ hub'[d].queries = hub[d].queries
             /\ PendingChanges(hub[d]) \subseteq PendingChanges(hub'[d])
             /\ event \subseteq PendingChanges(hub'[d])
  <2>1. d \in Databases /\ Exists(d) /\ Kept(hub[d]) /\ hub[d] \in DatabaseConnections
    BY DEF BooksInv, Listening, Kept, BooksRight
  <2>2. PICK r : r = Scheduled(hub[d], event)
    OBVIOUS
  <2>3. /\ r \in DatabaseConnections /\ r.timer /\ r.pending # <<>>
        /\ r.clients = hub[d].clients /\ r.queries = hub[d].queries /\ r.tree = hub[d].tree
        /\ PendingChanges(hub[d]) \subseteq PendingChanges(r) /\ event \subseteq PendingChanges(r)
    BY <1>2, <2>1, <2>2, EventsPend
  <2>4. Kept(r) /\ r # NoDatabase
    BY <2>1, <2>3, HubAssumption DEF Kept, BooksRight
  <2>5. hub'[d] = r
    BY <1>1, <2>1, <2>2
  <2>6. QED
    BY <2>1, <2>2, <2>3, <2>4, <2>5
<1>4. \A d \in Databases \ heard : hub'[d] = hub[d]
  BY <1>1
<1>5. BooksInv'
  <2>1. \A d \in Databases : /\ hub'[d] \in DatabaseConnections \cup {NoDatabase}
                             /\ hub'[d] # NoDatabase => Kept(hub'[d])
    <3> HIDE DEF heard
    <3>1. QED
      BY <1>3, <1>4 DEF BooksInv, Exists, Kept, BooksRight
  <2>2. hub' \in [Databases -> DatabaseConnections \cup {NoDatabase}]
    BY <1>1, <2>1
  <2>3. QED
    BY <2>1, <2>2 DEF BooksInv, Exists, Kept, BooksRight
<1>6. ASSUME DueInv, NEW x \in due'
      PROVE  /\ x.db \in Databases /\ Exists(x.db)'
             /\ x.change \in PendingChanges(hub'[x.db])
             /\ <<x.query, x.change>> \in ReadBy
             /\ Holds(hub'[x.db], x)
  <2>1. CASE x \in due
    <3>1. /\ x.db \in Databases /\ Exists(x.db) /\ x.change \in PendingChanges(hub[x.db])
          /\ <<x.query, x.change>> \in ReadBy /\ Holds(hub[x.db], x)
      BY <1>6, <2>1 DEF DueInv
    <3>2. CASE x.db \in heard
      <4> HIDE DEF heard
      <4>1. /\ hub'[x.db] # NoDatabase /\ hub'[x.db].queries = hub[x.db].queries
            /\ PendingChanges(hub[x.db]) \subseteq PendingChanges(hub'[x.db])
        BY <1>3, <3>2
      <4>2. QED
        BY <3>1, <4>1 DEF Exists, Holds
    <3>3. CASE x.db \notin heard
      BY <1>4, <3>1, <3>3 DEF Exists
    <3>4. QED
      BY <3>2, <3>3
  <2>2. CASE x \notin due
    <3>1. PICK d \in heard : x \in NewlyDue(d, event)
      BY <1>1, <2>2
    <3>2. PICK q \in hub[d].queries, ch \in event :
             x = [db |-> d, conn |-> q.conn, id |-> q.id, query |-> q.query, change |-> ch]
      BY <3>1 DEF NewlyDue, Owed
    <3>3. /\ <<x.query, x.change>> \in ReadBy /\ x.db = d /\ x.change \in event
          /\ Holds(hub[d], x)
      BY <3>1, <3>2 DEF NewlyDue, Holds
    <3> HIDE DEF heard
    <3>4. /\ d \in Databases /\ hub'[d] # NoDatabase /\ hub'[d].queries = hub[d].queries
          /\ event \subseteq PendingChanges(hub'[d])
      BY <1>3
    <3>5. QED
      BY <3>3, <3>4 DEF Exists, Holds
  <2>3. QED
    BY <2>1, <2>2
<1>7. DueInv => DueInv'
  BY <1>6 DEF DueInv, Exists, PendingChanges, Holds
<1>8. QED
  BY <1>5, <1>7

\* findAffected looks a change up under its topics, where the query that reads
\* it is filed: the flush sends what is due.
LEMMA FlushSends ==
    ASSUME UniformQueries, NEW conn, BooksRight(conn), NEW x, Holds(conn, x),
           <<x.query, x.change>> \in ReadBy, x.change \in PendingChanges(conn)
    PROVE  <<x.conn, x.change>> \in Sent(conn)
<1>1. PICK q \in conn.queries : q.conn = x.conn /\ q.id = x.id /\ q.query = x.query
  BY DEF Holds
<1>2. q.conn \in Connections /\ q.id \in QueryIds /\ q.query \in Queries
  BY DEF BooksRight, DatabaseConnections
<1>3. x.change \in Changes /\ Reads(TextOf[q.query], x.change)
  BY <1>1 DEF ReadBy
<1> DEFINE text == TextOf[q.query]
           deps == extractDependencies(text)
<1>4. isAffectedByChange(deps, x.change) /\ topicsFor(deps) \cap candidateTopics(x.change) # {}
  <2>1. Uniform(text)
    BY <1>2 DEF UniformQueries
  <2>2. NoFalseNegative(text, x.change) /\ NarrowingSafe(text, x.change)
    BY <2>1, CheckSound
  <2>3. QED
    BY <1>3, <2>2 DEF NoFalseNegative, NarrowingSafe
<1>5. PICK t \in topicsFor(deps) : t \in candidateTopics(x.change)
  BY <1>4
<1>6. <<t, q.conn, q.id>> \in conn.tree
  <2>1. <<t, q.conn, q.id>> \in Filed(q.conn, q.id, q.query)
    BY <1>2, FilingParts
  <2>2. QED
    BY <2>1 DEF BooksRight, TreeOf
<1>7. q \in Candidates(conn, x.change)
  BY <1>5, <1>6 DEF Candidates
<1>8. <<q.query, x.change>> \in Affecting
  BY <1>2, <1>3, <1>4 DEF Affecting
<1>9. <<q.conn, x.change>> \in FindAffected(conn, PendingChanges(conn))
  BY <1>7, <1>8 DEF FindAffected
<1>10. QED
  BY <1>1, <1>9 DEF Sent

\* flush, with the sends that fail in its middle
LEMMA FlushKeeps ==
    ASSUME BooksInv, NEW d \in Databases, Flush(d)
    PROVE  BooksInv' /\ (UniformQueries /\ DueInv => DueInv')
<1>1. Exists(d) /\ Kept(hub[d]) /\ hub[d] \in DatabaseConnections
  BY DEF Flush, BooksInv, Kept, BooksRight
<1> DEFINE gone == {c \in Told(hub[d]) \cap Flushed(hub[d]).clients : <<d, c>> \in broken'}
           left == Drop(Flushed(hub[d]), gone)
           after == IF left # NoDatabase /\ left.clients = {} THEN NoDatabase ELSE left
<1>2. hub' = [hub EXCEPT ![d] = after]
  BY DEF Flush, Send
<1>3. BooksRight(Flushed(hub[d]))
  <2>1. PICK f : f = Flushed(hub[d])
    OBVIOUS
  <2>2. /\ f \in DatabaseConnections /\ ~f.timer /\ f.pending = <<>>
        /\ f.clients = hub[d].clients /\ f.queries = hub[d].queries /\ f.tree = hub[d].tree
    <3>1. PICK s : s = <<>>
      OBVIOUS
    <3>2. s \in Seq(SUBSET Changes)
      BY <3>1
    <3>3. f = [hub[d] EXCEPT !.pending = s, !.timer = FALSE]
      BY <2>1, <3>1 DEF Flushed
    <3>4. /\ f \in DatabaseConnections /\ f.timer = FALSE /\ f.pending = s
          /\ f.clients = hub[d].clients /\ f.queries = hub[d].queries /\ f.tree = hub[d].tree
      BY <1>1, <3>2, <3>3 DEF DatabaseConnections
    <3>5. QED
      BY <3>1, <3>4
  <2>3. QED
    BY <1>1, <2>1, <2>2 DEF Kept, BooksRight
<1> HIDE DEF gone
<1>4. left # NoDatabase => Kept(left)
  BY <1>3, Dropped
<1> HIDE DEF left
<1>5. after # NoDatabase => Kept(after)
  BY <1>4
<1> HIDE DEF after
<1>6. hub'[d] = after /\ \A e \in Databases \ {d} : hub'[e] = hub[e]
  BY <1>2 DEF BooksInv
<1>7. BooksInv'
  <2>1. \A e \in Databases : hub'[e] # NoDatabase => Kept(hub'[e])
    BY <1>5, <1>6 DEF BooksInv, Exists
  <2>2. hub' \in [Databases -> DatabaseConnections \cup {NoDatabase}]
    BY <1>2, <1>5 DEF BooksInv, Kept, BooksRight
  <2>3. QED
    BY <2>1, <2>2 DEF BooksInv, Exists, Kept, BooksRight
<1>8. ASSUME UniformQueries, DueInv, NEW x \in due'
      PROVE  /\ x.db \in Databases /\ Exists(x.db)'
             /\ x.change \in PendingChanges(hub'[x.db])
             /\ <<x.query, x.change>> \in ReadBy
             /\ Holds(hub'[x.db], x)
  <2>1. x \in due /\ (x.db = d => <<x.conn, x.change>> \notin Sent(hub[d]))
    BY DEF Flush, StillDue
  <2>2. /\ x.db \in Databases /\ Exists(x.db) /\ x.change \in PendingChanges(hub[x.db])
        /\ <<x.query, x.change>> \in ReadBy /\ Holds(hub[x.db], x)
    BY <1>8, <2>1 DEF DueInv
  <2>3. x.db # d
    <3>1. SUFFICES ASSUME x.db = d PROVE FALSE
      OBVIOUS
    <3>2. <<x.conn, x.change>> \in Sent(hub[d])
      BY <1>1, <1>8, <2>2, <3>1, FlushSends DEF Kept
    <3>3. QED
      BY <2>1, <3>1, <3>2
  <2>4. QED
    BY <1>6, <2>2, <2>3 DEF Exists
<1>9. UniformQueries /\ DueInv => DueInv'
  BY <1>8 DEF DueInv, Exists, PendingChanges, Holds
<1>10. QED
  BY <1>7, <1>9

LEMMA HubSteps ==
    ASSUME BooksInv, HubNext
    PROVE  BooksInv' /\ (UniformQueries /\ DueInv => DueInv')
<1>1. CASE \E d \in Databases, c \in Connections : ConnectionStep(d, c)
  BY <1>1, ConnectionStepKeeps
<1>2. CASE \E d \in Databases : Flush(d)
  BY <1>2, FlushKeeps
<1>3. CASE \E d \in Databases, event \in Events : emitForDatabase(d, event)
  <2>1. PICK d \in Databases, event \in Events : emitForDatabase(d, event)
    BY <1>3
  <2>2. {d} \in SUBSET Databases /\ EmitTo({d}, event)
    BY <2>1 DEF emitForDatabase
  <2>3. QED
    BY <2>2, EmissionsKeep
<1>4. CASE \E event \in Events : emitToAllDatabases(event)
  <2>1. PICK event \in Events : emitToAllDatabases(event)
    BY <1>4
  <2>2. Databases \in SUBSET Databases /\ EmitTo(Databases, event)
    BY <2>1 DEF emitToAllDatabases
  <2>3. QED
    BY <2>2, EmissionsKeep
<1>5. CASE Dispose
  BY <1>5 DEF Dispose, BooksInv, DueInv, Exists
<1>6. QED
  BY <1>1, <1>2, <1>3, <1>4, <1>5 DEF HubNext

LEMMA BooksInvariance == SubscriptionsSpec => []BooksInv
<1>1. SubscriptionsInit => BooksInv
  BY DEF SubscriptionsInit, HubInit, BooksInv, Exists
<1>2. BooksInv /\ [SubscriptionsNext]_svars => BooksInv'
  <2>1. UNCHANGED hubvars => (BooksInv => BooksInv')
    BY DEF hubvars, BooksInv, Exists, Kept, BooksRight
  <2>2. [SubscriptionsNext]_svars => HubNext \/ UNCHANGED hubvars
    BY DEF SubscriptionsNext, svars, HubOnly, EmissionOnly, ManagerOnly, WatchesOnly
  <2>3. QED
    BY <2>1, <2>2, HubSteps
<1>3. QED
  BY <1>1, <1>2, PTL DEF SubscriptionsSpec

\* The hub's books agree for any number of databases, connections, queries and
\* waiting events, and whatever the queries are: a flush is scheduled exactly
\* while events wait, the topic tree holds the topics of the held queries of
\* present clients and no others, and a database without clients goes with
\* its flush (TopicFilteredSyncHub).
THEOREM HubBooksAgree == SubscriptionsSpec => []HubConsistent
<1>1. BooksInv => HubConsistent
  BY DEF BooksInv, Kept, BooksRight, TreeOf, HubConsistent
<1>2. QED
  BY <1>1, BooksInvariance, PTL

\* When the clients' queries have complete dependencies, no change that a
\* subscription reads is forgotten between its emission and the flush that
\* sends it (TopicFilteredSyncHub).
THEOREM HubForgetsNothing ==
    ASSUME UniformQueries
    PROVE  SubscriptionsSpec => []HubKeepsWhatIsDue
<1>1. SubscriptionsInit => DueInv
  BY DEF SubscriptionsInit, HubInit, DueInv
<1>2. BooksInv /\ DueInv /\ [SubscriptionsNext]_svars => DueInv'
  <2>1. UNCHANGED hubvars => (DueInv => DueInv')
    BY DEF hubvars, DueInv, Exists, PendingChanges, Holds
  <2>2. [SubscriptionsNext]_svars => HubNext \/ UNCHANGED hubvars
    BY DEF SubscriptionsNext, svars, HubOnly, EmissionOnly, ManagerOnly, WatchesOnly
  <2>3. QED
    BY <2>1, <2>2, HubSteps
<1>3. DueInv => NothingMissed
  BY DEF DueInv, NothingMissed
<1>4. SubscriptionsSpec => []DueInv
  BY <1>1, <1>2, BooksInvariance, PTL DEF SubscriptionsSpec
<1>5. NothingMissed /\ HubConsistent => HubKeepsWhatIsDue
  BY DEF HubKeepsWhatIsDue
<1>6. QED
  BY <1>3, <1>4, <1>5, HubBooksAgree, PTL

=============================================================================
