---------------------------- MODULE EntityStore ----------------------------
(***************************************************************************)
(* The REST entity store over Triples: create transacts on a fresh entity; *)
(* replace and delete read an entity in several calls and then transact    *)
(* under an EntityState precondition; list walks the collection page by    *)
(* page under a cursor.  Between any two calls of a request other callers  *)
(* commit.  The configured constraints (Rules) are enforced on every write.*)
(*                                                                         *)
(*   call  per REST caller: its phase, the request, the facts it observed  *)
(*         and (history only) the position it observed them at             *)
(*   page  per list caller: the basis its cursor carries, the last entity  *)
(*         read, the selected entities still to be read, and the rows      *)
(*         handed out so far                                               *)
(***************************************************************************)
EXTENDS Triples

CONSTANTS
    Callers,         \* REST callers that mutate, a subset of Clients
    Listers,         \* REST callers of list
    Writers,         \* other clients; they transact Requests
    DocType,         \* the collection's entity type
    Exposed,         \* attributes of the REST contract, all of cardinality one
    Required,        \* the exposed ones an entity must have
    Bodies,          \* decoded request bodies: sets of [attribute, value]
    EntityOrder,     \* the sort order of entity ids, EntityIds -> Nat
    PageLimit        \* request.limit

\* REST callers and the other writers are different fibers.
ASSUME CallerAssumption ==
    Callers \subseteq Clients /\ Writers \subseteq Clients /\ Callers \cap Writers = {}

\* The collection's type is a user type; a decoded body is a finite set of
\* attributes with their values; ids are strings of a bounded length, and no
\* entity has the id of a transaction; entity ids are totally ordered.
ASSUME ContractAssumption ==
    /\ DocType \in EntityTypes \ ReservedEntityTypes
    /\ \A body \in Bodies : /\ body \subseteq [attribute : Attributes, value : Values]
                            /\ IsFiniteSet(body)
    /\ IsFiniteSet(TripleIds)
    /\ EntityIds \cap Positions = {}
    /\ PageLimit \in Nat
    /\ EntityOrder \in [EntityIds -> Nat \ {0}]
    /\ \A e, f \in EntityIds : EntityOrder[e] = EntityOrder[f] => e = f

VARIABLES call, page

evars == <<store, buffer, tx, result, call, page>>

Idle == [phase |-> "idle", kind |-> "none", entity |-> None, body |-> {},
         observed |-> {}, seen |-> 0]

NoPage == [phase |-> "none", basis |-> None, after |-> 0, more |-> FALSE,
           todo |-> {}, rows |-> {}]

EInit == /\ Init
         /\ call = [c \in Callers |-> Idle]
         /\ page = [l \in Listers |-> NoPage]

SetCall(c, record) == call' = [call EXCEPT ![c] = record]

EntityIdsAt(e, d, now) ==
    {i \in VisibleIds(d, resolveTemporalBasis(None, None, now)) : d[i].entity = e}

-----------------------------------------------------------------------------
(* replace and delete *)

StartCall(c, kind, e, body) ==
    /\ call[c].phase = "idle"
    /\ SetCall(c, [Idle EXCEPT !.phase = "check", !.kind = kind, !.entity = e, !.body = body])
    /\ UNCHANGED <<store, buffer, tx, result, page>>

\* rejectScheduledFacts: a live fact that starts in the future ends the call.
rejectScheduledFacts(c, now) ==
    /\ call[c].phase = "check"
    /\ LET scheduled == \E i \in LiveIds(store.datoms) :
                           /\ store.datoms[i].entity = call[c].entity
                           /\ store.datoms[i].validFrom > now
       IN  SetCall(c, IF scheduled THEN Idle ELSE [call[c] EXCEPT !.phase = "read"])
    /\ UNCHANGED <<store, buffer, tx, result, page>>

hasMembership(facts) == \E i \in facts : store.datoms[i].entityType = DocType

\* encodeEntity: the observed facts fit the contract (no other membership,
\* one value per attribute, no required attribute missing), else the call
\* fails.
encodeEntity(facts) ==
    /\ {store.datoms[i].entityType : i \in facts} \ {None} = {DocType}
    /\ \A at \in Exposed :
          LET values == {store.datoms[i].value : i \in {j \in facts : store.datoms[j].attribute = at}}
          IN  Cardinality(values) <= 1 /\ (at \in Required => values # {})

\* current = triples.entity(id), at the caller's clock
ReadEntity(c, now) ==
    /\ call[c].phase = "read"
    /\ LET current == EntityIdsAt(call[c].entity, store.datoms, now)
       IN  SetCall(c, IF hasMembership(current) /\ encodeEntity(current)
                      THEN [call[c] EXCEPT !.phase = "submit", !.observed = current,
                                           !.seen = store.position]
                      ELSE Idle)
    /\ UNCHANGED <<store, buffer, tx, result, page>>

\* A set as a sequence, in any fixed order.
AsSeq(S) == CHOOSE s \in [1..Cardinality(S) -> S] : \A x \in S : \E i \in DOMAIN s : s[i] = x

RetractOperations(ids) ==
    LET order == AsSeq(ids) IN [i \in DOMAIN order |-> [op |-> "retract", id |-> order[i]]]

assertOperations(e, body) ==
    LET order == AsSeq(body)
    IN  [i \in DOMAIN order |->
            [ op |-> "assert", entity |-> e, attribute |-> order[i].attribute,
              value |-> order[i].value, entityType |-> DocType,
              validFrom |-> None, validTo |-> None ]]

\* create: the entity id is a new ULID, no fact names it yet.
Create(c, e, body, now) ==
    /\ call[c].phase = "idle"
    /\ \A i \in Ids(store.datoms) : store.datoms[i].entity # e
    /\ LET req == [ ops |-> assertOperations(e, body), system |-> FALSE, journaled |-> TRUE,
                    command |-> None, live |-> {}, states |-> {}, rules |-> Rules ]
       IN  Begin(c, req, now) \/ Refuse(c, req, now)
    /\ SetCall(c, [Idle EXCEPT !.phase = "wait", !.kind = "create", !.entity = e, !.body = body])
    /\ UNCHANGED page

ExposedOf(ids) == {i \in ids : store.datoms[i].attribute \in Exposed}

\* Faulty form: the observed fact ids are not handed to transact.
MutationRequest_Bug(c) ==
    [ ops |-> RetractOperations(call[c].observed) \o assertOperations(call[c].entity, call[c].body),
      system |-> FALSE, journaled |-> TRUE, command |-> None, live |-> {},
      states |-> {}, rules |-> Rules ]

MutationRequest(c) ==
    [ ops |-> IF call[c].kind = "delete"
              THEN RetractOperations(call[c].observed)
              ELSE RetractOperations(ExposedOf(call[c].observed))
                     \o assertOperations(call[c].entity, call[c].body),
      system |-> FALSE, journaled |-> TRUE, command |-> None, live |-> {},
      states |-> {[entity |-> call[c].entity, ids |-> call[c].observed]},
      rules |-> Rules ]

Submit(c, now) ==
    /\ call[c].phase = "submit"
    /\ Begin(c, MutationRequest(c), now) \/ Refuse(c, MutationRequest(c), now)
    /\ SetCall(c, [call[c] EXCEPT !.phase = "wait"])
    /\ UNCHANGED page

\* The REST response: the caller takes its answer.
Finish(c) ==
    /\ call[c].phase = "wait" /\ result[c] # None
    /\ SetCall(c, Idle)
    /\ result' = [result EXCEPT ![c] = None]
    /\ UNCHANGED <<store, buffer, tx, page>>

-----------------------------------------------------------------------------
(* list: entityPage *)

\* Entities of the collection with a fact visible at the page's basis.
CollectionAt(basis) ==
    {store.datoms[i].entity : i \in {j \in VisibleIds(store.datoms, basis) :
                                       store.datoms[j].entityType = DocType}}

RowAt(e, basis) ==
    [entity |-> e, facts |-> {i \in VisibleIds(store.datoms, basis) : store.datoms[i].entity = e}]

FirstOf(ids) == {e \in ids : Cardinality({f \in ids : EntityOrder[f] < EntityOrder[e]}) < PageLimit}

SetPage(l, record) == /\ page' = [page EXCEPT ![l] = record]
                      /\ UNCHANGED <<store, buffer, tx, result, call>>

\* Faulty form: a continuation takes a new basis instead of the cursor's.
prepareEntityPage_Bug(l, now) ==
    [recordedAt |-> now, recordedPosition |-> store.position, validAt |-> now]

\* prepareEntityPage: the first page takes the clock and the commit position,
\* a continuation the basis in its cursor.
prepareEntityPage(l, now) ==
    IF page[l].phase = "none"
    THEN [recordedAt |-> now, recordedPosition |-> store.position, validAt |-> now]
    ELSE page[l].basis

\* A page request: prepare the basis.
RequestPage(l, now) ==
    /\ page[l].phase \in {"none", "next"}
    /\ SetPage(l, [page[l] EXCEPT !.phase = "match", !.basis = prepareEntityPage(l, now)])

\* match by entity type at the basis; select the entities after the cursor.
SelectEntities(l) ==
    /\ page[l].phase = "match"
    /\ LET ids == {e \in CollectionAt(page[l].basis) : EntityOrder[e] > page[l].after}
       IN  SetPage(l, [page[l] EXCEPT !.phase = "rows", !.todo = FirstOf(ids),
                                      !.more = FirstOf(ids) # ids])

\* Read the selected entities one by one, each in a scan of its own.
ReadRow(l, e) ==
    /\ page[l].phase = "rows" /\ e \in page[l].todo
    /\ \A f \in page[l].todo : EntityOrder[e] <= EntityOrder[f]
    /\ SetPage(l, [page[l] EXCEPT !.todo = @ \ {e}, !.after = EntityOrder[e],
                                  !.rows = @ \cup {RowAt(e, page[l].basis)}])

\* The response: a next cursor when more entities remain.
EndPage(l) ==
    /\ page[l].phase = "rows" /\ page[l].todo = {}
    /\ SetPage(l, [page[l] EXCEPT !.phase = IF page[l].more THEN "next" ELSE "done"])

-----------------------------------------------------------------------------

ENext ==
    \/ \E c \in Callers, kind \in {"replace", "delete"}, e \in EntityIds, body \in Bodies :
          StartCall(c, kind, e, body)
    \/ \E c \in Callers, e \in EntityIds, body \in Bodies, now \in Instants :
          Create(c, e, body, now)
    \/ \E c \in Callers, now \in Instants :
          rejectScheduledFacts(c, now) \/ ReadEntity(c, now) \/ Submit(c, now)
    \/ \E c \in Callers : Finish(c)
    \/ \E l \in Listers, now \in Instants : RequestPage(l, now)
    \/ \E l \in Listers : SelectEntities(l) \/ EndPage(l)
    \/ \E l \in Listers, e \in EntityIds : ReadRow(l, e)
    \/ /\ \/ Step
          \/ \E w \in Writers, req \in Requests, now \in Instants :
                Begin(w, req, now) \/ Refuse(w, req, now)
       /\ UNCHANGED <<call, page>>

ESpec == EInit /\ [][ENext]_evars

-----------------------------------------------------------------------------
(* Properties *)

CommitsFor(c, kind) ==
    /\ call[c].phase = "wait" /\ call[c].kind = kind
    /\ tx # NoTx /\ tx.client = c
    /\ result'[c] = "Committed"

(***************************************************************************)
(* A committed DELETE leaves no live fact on the entity, neither one that  *)
(* was added after the caller looked nor a scheduled or expired one it did *)
(* not see.                                                                *)
(***************************************************************************)
DeleteLeavesNothing ==
    [][\A c \in Callers : CommitsFor(c, "delete") =>
          ScanIds(store'.datoms, EntityPattern(call[c].entity)) = {}]_evars

(***************************************************************************)
(* A committed PUT replaces: the exposed facts of the entity are its own   *)
(* body, never a merge with another writer's, and every unexposed fact the *)
(* entity had just before is retained.                                     *)
(***************************************************************************)
ReplaceIsExclusive ==
    [][\A c \in Callers : CommitsFor(c, "replace") =>
          LET before == ScanIds(store.datoms, EntityPattern(call[c].entity))
              after  == ScanIds(store'.datoms, EntityPattern(call[c].entity))
          IN  after \cap before = before \ ExposedOf(before)]_evars

(***************************************************************************)
(* The pages of one listing form a single snapshot: each entity of the     *)
(* collection at the first page's basis appears exactly once, with exactly *)
(* the facts it had there, whatever was committed between two pages or     *)
(* between selecting an entity and reading its row.                        *)
(***************************************************************************)
PagesFormSnapshot ==
    \A l \in Listers : page[l].phase = "done" =>
        page[l].rows = {RowAt(e, page[l].basis) : e \in CollectionAt(page[l].basis)}

(***************************************************************************)
(* A conflict means interference: transact refuses the observed fact set   *)
(* only when another transaction changed the entity after the caller read  *)
(* it (the error says "but another transaction changed it").               *)
(***************************************************************************)
ChangedSince(e, p) ==
    \E i \in Ids(store.datoms) :
        /\ store.datoms[i].entity = e
        /\ \/ store.datoms[i].recordedPosition > p
           \/ store.datoms[i].retractedPosition # None /\ store.datoms[i].retractedPosition > p

ConflictMeansInterference ==
    [][\A c \in Callers :
          /\ call[c].phase = "submit"
          /\ result'[c] = "TransactionConflict"
          => ChangedSince(call[c].entity, call[c].seen)]_evars

=============================================================================
