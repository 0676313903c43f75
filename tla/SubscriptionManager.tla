------------------------ MODULE SubscriptionManager ------------------------
(***************************************************************************)
(* SubscriptionManager: the subscriptions by id and an index of their ids  *)
(* by query hash, kept in two Refs.  Each Ref.get and Ref.update is        *)
(* atomic; a call is several of them and fibers interleave between.        *)
(*                                                                         *)
(*   subs   subscription id -> query hash, or NoHash                       *)
(*   index  query hash -> ids (an absent entry is the empty set)           *)
(*   fiber  per fiber, the call in progress                                *)
(***************************************************************************)
EXTENDS Naturals

CONSTANTS
    Fibers, Hashes, NoHash,
    OwnIds        \* fiber -> the subscription ids it registers

VARIABLES subs, index, fiber

mvars == <<subs, index, fiber>>

SubIds == UNION {OwnIds[f] : f \in Fibers}

\* An id is registered, replaced and unregistered by the fiber that drew it.
ASSUME OwnersAssumption ==
    /\ \A f, g \in Fibers : f # g => OwnIds[f] \cap OwnIds[g] = {}
    /\ NoHash \notin Hashes /\ NoHash \notin SubIds

NoCall == [step |-> "idle", op |-> "none", id |-> NoHash, hash |-> NoHash, existing |-> NoHash]

ManagerInit == /\ subs = [i \in SubIds |-> NoHash]
               /\ index = [h \in Hashes |-> {}]
               /\ fiber = [f \in Fibers |-> NoCall]

Call(f, record) == fiber' = [fiber EXCEPT ![f] = record]

\* register and unregister start by reading the subscription of the id.
Read(f, op, id, hash) ==
    /\ fiber[f].step = "idle" /\ id \in OwnIds[f]
    /\ Call(f, [step |-> "store", op |-> op, id |-> id, hash |-> hash, existing |-> subs[id]])
    /\ UNCHANGED <<subs, index>>

\* The first Ref.update; an unregister of an unknown id is done.
UpdateStore(f) ==
    /\ fiber[f].step = "store"
    /\ subs' = [subs EXCEPT ![fiber[f].id] = fiber[f].hash]
    /\ IF fiber[f].op = "unregister" /\ fiber[f].existing = NoHash THEN Call(f, NoCall)
       ELSE Call(f, [fiber[f] EXCEPT !.step = "index"])
    /\ UNCHANGED index

\* Faulty form: a replaced query keeps its place under the old hash.
Reindexed_Bug(c) ==
    [h \in Hashes |-> IF h = c.hash THEN index[h] \cup {c.id}
                      ELSE IF h = c.existing /\ c.op = "unregister" THEN index[h] \ {c.id}
                      ELSE index[h]]

\* The second Ref.update
Reindexed(c) ==
    [h \in Hashes |-> IF h = c.hash THEN index[h] \cup {c.id}
                      ELSE IF h = c.existing THEN index[h] \ {c.id} ELSE index[h]]

UpdateIndex(f) ==
    /\ fiber[f].step = "index"
    /\ index' = Reindexed(fiber[f])
    /\ Call(f, NoCall)
    /\ UNCHANGED subs

\* clear, "for testing": it runs with no other call in progress.
Clear(f) ==
    /\ \A g \in Fibers : fiber[g].step = "idle"
    /\ subs' = [i \in SubIds |-> NoHash]
    /\ index' = [h \in Hashes |-> {}]
    /\ UNCHANGED fiber

ManagerNext ==
    \E f \in Fibers :
        \/ \E id \in OwnIds[f], h \in Hashes : Read(f, "register", id, h)
        \/ \E id \in OwnIds[f] : Read(f, "unregister", id, NoHash)
        \/ UpdateStore(f)
        \/ UpdateIndex(f)
        \/ Clear(f)

findByQueryHash(h) == {i \in index[h] : subs[i] # NoHash}

-----------------------------------------------------------------------------

\* When each id belongs to one fiber, an id no call is working on is indexed
\* under its current hash and under no other, so findByQueryHash answers
\* exactly the subscriptions with that hash, whatever the interleaving.
IndexExact ==
    \A i \in SubIds :
        (\A f \in Fibers : fiber[f].id # i) =>
            \A h \in Hashes : (subs[i] = h) <=> (i \in findByQueryHash(h))

=============================================================================
