------------------------- MODULE EntityStoreProofs -------------------------
(***************************************************************************)
(* Machine-checked theorems about two components built on the Triples      *)
(* service: the REST entity store (what a committed DELETE and a committed *)
(* PUT leave behind, and what a listing hands out, for any callers,        *)
(* writers, bodies and bounds) and, in the last part, the decoded-datom    *)
(* cache (whatever transactions, scans and clean-ups interleave, a stale   *)
(* copy errs on one side only).                                            *)
(***************************************************************************)
EXTENDS EntityStore, DatomCache, TriplesProofs, FiniteSetTheorems

USE Sentinel, BoundAssumption

-----------------------------------------------------------------------------
(* The operations of a mutation. *)

Ops == AssertOps \cup RetractOps \cup PatternOps

\* A finite set can be put in a sequence, each element at some index.
LEMMA AsSeqEnumerates ==
    ASSUME NEW S, IsFiniteSet(S)
    PROVE  /\ Cardinality(S) \in Nat
           /\ AsSeq(S) \in [1..Cardinality(S) -> S]
           /\ \A x \in S : \E i \in 1..Cardinality(S) : AsSeq(S)[i] = x
<1>1. Cardinality(S) \in Nat /\ ExistsBijection(1..Cardinality(S), S)
  BY FS_CardinalityType
<1>2. PICK f \in Bijection(1..Cardinality(S), S) : TRUE
  BY <1>1 DEF ExistsBijection
<1>3. f \in [1..Cardinality(S) -> S] /\ \A x \in S : \E i \in DOMAIN f : f[i] = x
  BY <1>2 DEF Bijection, Surjection, Injection
<1>4. /\ AsSeq(S) \in [1..Cardinality(S) -> S]
      /\ \A x \in S : \E i \in DOMAIN AsSeq(S) : AsSeq(S)[i] = x
  BY <1>3 DEF AsSeq
<1>5. QED
  BY <1>1, <1>4

LEMMA RetractSequence ==
    ASSUME NEW ids \in SUBSET TripleIds
    PROVE  LET s == RetractOperations(ids)
           IN  /\ s \in Seq(Ops)
               /\ \A k \in DOMAIN s : s[k].op = "retract" /\ s[k].id \in ids
               /\ \A i \in ids : \E k \in DOMAIN s : s[k].op = "retract" /\ s[k].id = i
<1> DEFINE order == AsSeq(ids)
           s == RetractOperations(ids)
           n == Cardinality(ids)
<1>1. IsFiniteSet(ids)
  BY ContractAssumption, FS_Subset
<1>2. n \in Nat /\ order \in [1..n -> ids] /\ \A x \in ids : \E i \in 1..n : order[i] = x
  BY <1>1, AsSeqEnumerates
<1>3. s = [i \in 1..n |-> [op |-> "retract", id |-> order[i]]]
  BY <1>2 DEF RetractOperations
<1> HIDE DEF order, s, n
<1>4. s \in [1..n -> Ops]
  BY <1>2, <1>3 DEF Ops, RetractOps
<1>5. s \in Seq(Ops)
  BY <1>2, <1>4, SeqDef
<1>6. DOMAIN s = 1..n /\ \A k \in 1..n : s[k].op = "retract" /\ s[k].id = order[k]
  BY <1>3
<1>7. \A k \in DOMAIN s : s[k].op = "retract" /\ s[k].id \in ids
  BY <1>2, <1>6
<1>8. \A i \in ids : \E k \in DOMAIN s : s[k].op = "retract" /\ s[k].id = i
  BY <1>2, <1>6
<1>9. QED
  BY <1>5, <1>7, <1>8 DEF s

LEMMA AssertSequence ==
    ASSUME NEW e \in EntityIds, NEW body \in SUBSET [attribute : Attributes, value : Values],
           IsFiniteSet(body)
    PROVE  LET s == assertOperations(e, body)
           IN  /\ s \in Seq(Ops)
               /\ \A k \in DOMAIN s : s[k].op = "assert" /\ s[k].entityType = DocType
<1> DEFINE order == AsSeq(body)
           s == assertOperations(e, body)
           n == Cardinality(body)
<1>1. n \in Nat /\ order \in [1..n -> body]
  BY AsSeqEnumerates
<1>2. s = [i \in 1..n |-> [ op |-> "assert", entity |-> e, attribute |-> order[i].attribute,
              value |-> order[i].value, entityType |-> DocType,
              validFrom |-> None, validTo |-> None ]]
  BY <1>1 DEF assertOperations
<1> HIDE DEF order, s, n
<1>3. \A i \in 1..n : order[i].attribute \in Attributes /\ order[i].value \in Values
  BY <1>1
<1>4. s \in [1..n -> Ops]
  BY <1>2, <1>3, ContractAssumption DEF Ops, AssertOps
<1>5. s \in Seq(Ops)
  BY <1>1, <1>4, SeqDef
<1>6. QED
  BY <1>2, <1>5 DEF s

\* What a mutation retracts.
Dropped(c) == IF call[c].kind = "delete" THEN call[c].observed ELSE ExposedOf(call[c].observed)

Calls == [ phase : {"idle", "check", "read", "submit", "wait"},
           kind : {"none", "create", "replace", "delete"}, entity : EntityIds \cup {None},
           body : Bodies \cup {{}}, observed : SUBSET TripleIds, seen : Nat ]

\* The request of a mutation: it retracts exactly what it drops, and a DELETE
\* asserts nothing.
LEMMA MutationOps ==
    ASSUME NEW c \in Callers, call[c] \in Calls, call[c].entity \in EntityIds
    PROVE  LET req == MutationRequest(c)
           IN  /\ req \in Request /\ NoJournalWrites(req)
               /\ \A k \in DOMAIN req.ops :
                     \/ req.ops[k].op = "retract" /\ req.ops[k].id \in Dropped(c)
                     \/ req.ops[k].op = "assert" /\ call[c].kind # "delete"
               /\ \A i \in Dropped(c) : \E k \in DOMAIN req.ops :
                     req.ops[k].op = "retract" /\ req.ops[k].id = i
               /\ ~ req.system /\ req.states = {[entity |-> call[c].entity, ids |-> call[c].observed]}
<1> DEFINE req == MutationRequest(c)
           R == RetractOperations(Dropped(c))
           A == assertOperations(call[c].entity, call[c].body)
<1>1. /\ Dropped(c) \in SUBSET TripleIds
      /\ call[c].observed \in SUBSET TripleIds /\ call[c].body \in Bodies \cup {{}}
  BY DEF Calls, Dropped, ExposedOf
<1>2. /\ R \in Seq(Ops)
      /\ \A k \in DOMAIN R : R[k].op = "retract" /\ R[k].id \in Dropped(c)
      /\ \A i \in Dropped(c) : \E k \in DOMAIN R : R[k].op = "retract" /\ R[k].id = i
  BY <1>1, RetractSequence
<1>3. A \in Seq(Ops) /\ \A k \in DOMAIN A : A[k].op = "assert" /\ A[k].entityType = DocType
  <2>1. call[c].body \in SUBSET [attribute : Attributes, value : Values] /\ IsFiniteSet(call[c].body)
    BY <1>1, ContractAssumption, FS_EmptySet
  <2>2. QED
    BY <2>1, AssertSequence
<1>4. /\ req.ops = IF call[c].kind = "delete" THEN R ELSE R \o A
      /\ req.system = FALSE /\ req.journaled = TRUE /\ req.command = None /\ req.live = {}
      /\ req.states = {[entity |-> call[c].entity, ids |-> call[c].observed]} /\ req.rules = Rules
      /\ req = [ ops |-> req.ops, system |-> req.system, journaled |-> req.journaled,
                 command |-> req.command, live |-> req.live, states |-> req.states,
                 rules |-> req.rules ]
  BY DEF MutationRequest, Dropped
<1>5. /\ R \o A \in Seq(Ops) /\ DOMAIN (R \o A) = 1..(Len(R) + Len(A))
      /\ DOMAIN R = 1..Len(R) /\ DOMAIN A = 1..Len(A) /\ Len(R) \in Nat /\ Len(A) \in Nat
      /\ \A k \in 1..(Len(R) + Len(A)) :
            (R \o A)[k] = IF k <= Len(R) THEN R[k] ELSE A[k - Len(R)]
  BY <1>2, <1>3
<1> HIDE DEF req, R, A
<1>6. req.ops \in Seq(Ops)
  BY <1>2, <1>4, <1>5
<1>7. req \in Request
  <2>1. req.states \in SUBSET [entity : EntityIds, ids : SUBSET TripleIds]
    BY <1>1, <1>4
  <2>2. /\ req.system \in BOOLEAN /\ req.journaled \in BOOLEAN /\ req.live \in SUBSET TripleIds
        /\ req.command \in CommandIds \cup {None} /\ req.rules \in SUBSET Rules
    BY <1>4
  <2>3. QED
    BY <1>4, <1>6, <2>1, <2>2 DEF Request, Ops
<1>8. \A k \in DOMAIN req.ops :
         \/ req.ops[k].op = "retract" /\ req.ops[k].id \in Dropped(c)
         \/ /\ req.ops[k].op = "assert" /\ call[c].kind # "delete"
            /\ req.ops[k].entityType = DocType
  <2>1. CASE call[c].kind = "delete"
    BY <1>2, <1>4, <2>1
  <2>2. CASE call[c].kind # "delete"
    <3>1. TAKE k \in DOMAIN req.ops
    <3>2. k \in 1..(Len(R) + Len(A)) /\ req.ops[k] = (R \o A)[k]
      BY <1>4, <1>5, <2>2
    <3>3. CASE k <= Len(R)
      BY <1>2, <1>5, <3>2, <3>3
    <3>4. CASE ~ k <= Len(R)
      <4>1. k - Len(R) \in DOMAIN A /\ req.ops[k] = A[k - Len(R)]
        BY <1>5, <3>2, <3>4
      <4>2. QED
        BY <1>3, <2>2, <4>1
    <3>5. QED
      BY <3>3, <3>4
  <2>3. QED
    BY <2>1, <2>2
<1>9. \A i \in Dropped(c) : \E k \in DOMAIN req.ops : req.ops[k].op = "retract" /\ req.ops[k].id = i
  <2>1. \A k \in DOMAIN R : k \in DOMAIN req.ops /\ req.ops[k] = R[k]
    BY <1>4, <1>5
  <2>2. QED
    BY <1>2, <2>1
<1>10. NoJournalWrites(req)
  BY <1>8, ContractAssumption, NamespaceAssumption DEF NoJournalWrites, AssertIndices
<1>11. QED
  BY <1>4, <1>7, <1>8, <1>9, <1>10 DEF req

\* The request of a POST.
LEMMA CreateOps ==
    ASSUME NEW e \in EntityIds, NEW body \in Bodies
    PROVE  LET req == [ ops |-> assertOperations(e, body), system |-> FALSE, journaled |-> TRUE,
                        command |-> None, live |-> {}, states |-> {}, rules |-> Rules ]
           IN  req \in Request /\ NoJournalWrites(req)
<1> DEFINE A == assertOperations(e, body)
<1>1. A \in Seq(Ops) /\ \A k \in DOMAIN A : A[k].op = "assert" /\ A[k].entityType = DocType
  BY ContractAssumption, AssertSequence
<1> HIDE DEF A
<1>2. [ ops |-> A, system |-> FALSE, journaled |-> TRUE, command |-> None, live |-> {},
        states |-> {}, rules |-> Rules ] \in Request
  BY <1>1 DEF Request, Ops
<1>3. DocType # TransactionType
  BY ContractAssumption, NamespaceAssumption
<1>4. QED
  BY <1>1, <1>2, <1>3 DEF NoJournalWrites, AssertIndices, A

-----------------------------------------------------------------------------
(***************************************************************************)
(* The inductive invariant.  While the transaction of a PUT or DELETE      *)
(* runs, its caller waits for it, the request is still the one built from  *)
(* the facts the caller observed, and those are still the entity's live    *)
(* facts: the precondition held at the start and nobody else commits.      *)
(***************************************************************************)
CallOK ==
    /\ call \in [Callers -> Calls]
    /\ \A c \in Callers : call[c].phase \in {"check", "read", "submit"} =>
          call[c].kind \in {"replace", "delete"} /\ call[c].entity \in EntityIds

Mutates(c) ==
    call[c].kind \in {"replace", "delete"} =>
        /\ call[c].entity \in EntityIds
        /\ tx.req = MutationRequest(c)
        /\ ScanIds(store.datoms, EntityPattern(call[c].entity)) = call[c].observed

CallRuns ==
    tx # NoTx /\ tx.client \in Callers =>
        /\ result[tx.client] = None
        /\ call[tx.client].phase = "wait"
        /\ Mutates(tx.client)

EInv == IInv /\ Progress /\ CallOK /\ CallRuns

LEMMA EInitInv == EInit => EInv
<1> SUFFICES ASSUME EInit PROVE EInv
  OBVIOUS
<1>1. IInv
  BY InitIInv DEF EInit
<1>2. tx = NoTx /\ call = [c \in Callers |-> Idle]
  BY DEF EInit, Init
<1>3. Idle \in Calls
  BY DEF Idle, Calls
<1>4. CallOK
  BY <1>2, <1>3 DEF CallOK, Idle
<1>5. QED
  BY <1>1, <1>2, <1>4 DEF EInv, Progress, CallRuns

\* The store's own invariant, and what the running transaction has done.
LEMMA BeginOrRefuse ==
    ASSUME IInv, Progress, NEW c \in Clients, NEW req \in Request, NoJournalWrites(req),
           NEW now \in Instants, Begin(c, req, now) \/ Refuse(c, req, now)
    PROVE  IInv' /\ Progress'
<1>1. CASE Begin(c, req, now)
  BY <1>1, BeginIInv, BeginProgress
<1>2. CASE Refuse(c, req, now)
  <2>1. tx' = NoTx
    BY <1>2 DEF Refuse
  <2>2. QED
    BY <1>2, <2>1, RefuseIInv DEF Progress
<1>3. QED
  BY <1>1, <1>2

LEMMA QuietInv ==
    ASSUME IInv, Progress, UNCHANGED <<store, buffer, tx>>, result' \in [Clients -> Tags \cup {None}]
    PROVE  IInv' /\ Progress'
BY AnswerIInv DEF Progress, DoneOps, Selects

\* The request depends only on the caller's record and on the store.
LEMMA SameRequest ==
    ASSUME NEW c \in Callers, store' = store, call'[c].kind = call[c].kind,
           call'[c].entity = call[c].entity, call'[c].body = call[c].body,
           call'[c].observed = call[c].observed
    PROVE  MutationRequest(c)' = MutationRequest(c)
BY DEF MutationRequest, ExposedOf

\* A caller other than the one whose transaction runs.
LEMMA OthersCall ==
    ASSUME EInv, NEW c \in Callers, tx # NoTx => tx.client # c,
           \A d \in Callers \ {c} : call'[d] = call[d],
           UNCHANGED <<store, tx>>, \A d \in Clients \ {c} : result'[d] = result[d]
    PROVE  CallRuns'
<1> SUFFICES ASSUME tx # NoTx, tx.client \in Callers
             PROVE  /\ result'[tx.client] = None /\ call'[tx.client].phase = "wait"
                    /\ Mutates(tx.client)'
  BY DEF CallRuns
<1>1. tx.client # c /\ call'[tx.client] = call[tx.client]
  OBVIOUS
<1>2. result'[tx.client] = result[tx.client]
  BY <1>1, CallerAssumption
<1>3. MutationRequest(tx.client)' = MutationRequest(tx.client)
  BY <1>1, SameRequest
<1>4. QED
  BY <1>1, <1>2, <1>3 DEF EInv, CallRuns, Mutates

LEMMA ENextInv == EInv /\ [ENext]_evars => EInv'
<1> SUFFICES ASSUME EInv, [ENext]_evars PROVE EInv'
  OBVIOUS
<1> USE DEF EInv
<1>0. result \in [Clients -> Tags \cup {None}] /\ call \in [Callers -> Calls]
  BY DEF IInv, TypeOK, CallOK
<1>1. ASSUME NEW c \in Callers, NEW kind \in {"replace", "delete"}, NEW e \in EntityIds,
             NEW body \in Bodies, StartCall(c, kind, e, body)
      PROVE  EInv'
  <2> DEFINE r == [Idle EXCEPT !.phase = "check", !.kind = kind, !.entity = e, !.body = body]
  <2>1. call' = [call EXCEPT ![c] = r] /\ UNCHANGED <<store, buffer, tx, result, page>>
        /\ call[c].phase = "idle"
    BY <1>1 DEF StartCall, SetCall
  <2>2. r \in Calls /\ r.kind = kind /\ r.entity = e
    BY DEF Idle, Calls
  <2> HIDE DEF r
  <2>3. CallOK'
    BY <1>0, <2>1, <2>2 DEF CallOK
  <2>4. CallRuns'
    <3>1. tx # NoTx => tx.client # c
      BY <2>1 DEF CallRuns
    <3>2. \A d \in Callers \ {c} : call'[d] = call[d]
      BY <1>0, <2>1
    <3>3. QED
      BY <2>1, <3>1, <3>2, OthersCall
  <2>5. QED
    BY <1>0, <2>1, <2>3, <2>4, QuietInv
<1>2. ASSUME NEW c \in Callers, NEW now \in Instants,
             rejectScheduledFacts(c, now) \/ ReadEntity(c, now)
      PROVE  EInv'
  <2>1. PICK r : call' = [call EXCEPT ![c] = r]
                 /\ (r = Idle \/ r = [call[c] EXCEPT !.phase = "read"]
                     \/ \E ids \in SUBSET TripleIds :
                          r = [call[c] EXCEPT !.phase = "submit", !.observed = ids,
                                              !.seen = store.position])
    <3>1. CASE rejectScheduledFacts(c, now)
      BY <3>1 DEF rejectScheduledFacts, SetCall
    <3>2. CASE ReadEntity(c, now)
      <4>1. EntityIdsAt(call[c].entity, store.datoms, now) \in SUBSET TripleIds
        BY DEF EntityIdsAt, VisibleIds, Ids
      <4>2. QED
        BY <3>2, <4>1 DEF ReadEntity, SetCall
    <3>3. QED
      BY <1>2, <3>1, <3>2
  <2>2. UNCHANGED <<store, buffer, tx, result, page>> /\ call[c].phase \in {"check", "read"}
    BY <1>2 DEF rejectScheduledFacts, ReadEntity
  <2>3. call[c] \in Calls /\ call[c].kind \in {"replace", "delete"} /\ call[c].entity \in EntityIds
        /\ store.position \in Nat
    BY <1>0, <2>2, StoreParts DEF CallOK, IInv, TypeOK
  <2>4. r \in Calls /\ (r = Idle \/ (r.kind = call[c].kind /\ r.entity = call[c].entity))
    <3>1. CASE r = Idle
      BY <3>1 DEF Calls, Idle
    <3>2. CASE r = [call[c] EXCEPT !.phase = "read"]
      BY <2>3, <3>2 DEF Calls
    <3>3. ASSUME NEW ids \in SUBSET TripleIds,
                 r = [call[c] EXCEPT !.phase = "submit", !.observed = ids, !.seen = store.position]
          PROVE  r \in Calls /\ r.kind = call[c].kind /\ r.entity = call[c].entity
      BY <2>3, <3>3 DEF Calls
    <3>4. QED
      BY <2>1, <3>1, <3>2, <3>3
  <2>5. CallOK'
    <3>1. call' \in [Callers -> Calls]
      BY <1>0, <2>1, <2>4
    <3>2. \A d \in Callers : call'[d] = IF d = c THEN r ELSE call[d]
      BY <1>0, <2>1
    <3>3. r.phase \in {"check", "read", "submit"} =>
             r.kind \in {"replace", "delete"} /\ r.entity \in EntityIds
      BY <2>3, <2>4 DEF Idle
    <3>4. QED
      BY <3>1, <3>2, <3>3 DEF CallOK
  <2>6. CallRuns'
    <3>1. tx # NoTx => tx.client # c
      BY <2>2 DEF CallRuns
    <3>2. \A d \in Callers \ {c} : call'[d] = call[d]
      BY <1>0, <2>1
    <3>3. QED
      BY <2>2, <3>1, <3>2, OthersCall
  <2>7. QED
    BY <1>0, <2>2, <2>5, <2>6, QuietInv
<1>3. ASSUME NEW c \in Callers, Finish(c) PROVE EInv'
  <2>1. /\ call' = [call EXCEPT ![c] = Idle] /\ result' = [result EXCEPT ![c] = None]
        /\ UNCHANGED <<store, buffer, tx>> /\ result[c] # None
    BY <1>3 DEF Finish, SetCall
  <2>2. Idle \in Calls /\ Idle.phase = "idle"
    BY DEF Idle, Calls
  <2>3. CallOK'
    <3>1. call' \in [Callers -> Calls] /\ \A d \in Callers : call'[d] = IF d = c THEN Idle ELSE call[d]
      BY <1>0, <2>1, <2>2
    <3>2. QED
      BY <2>2, <3>1 DEF CallOK
  <2>4. CallRuns'
    <3>1. tx # NoTx => tx.client # c
      BY <2>1 DEF CallRuns
    <3>2. (\A d \in Callers \ {c} : call'[d] = call[d]) /\ \A d \in Clients \ {c} : result'[d] = result[d]
      BY <1>0, <2>1
    <3>3. QED
      BY <2>1, <3>1, <3>2, OthersCall
  <2>5. result' \in [Clients -> Tags \cup {None}]
    BY <1>0, <2>1
  <2>6. QED
    BY <2>1, <2>3, <2>4, <2>5, QuietInv
<1>4. ASSUME NEW c \in Callers, NEW e \in EntityIds, NEW body \in Bodies, NEW now \in Instants,
             Create(c, e, body, now)
      PROVE  EInv'
  <2> DEFINE req == [ ops |-> assertOperations(e, body), system |-> FALSE, journaled |-> TRUE,
                      command |-> None, live |-> {}, states |-> {}, rules |-> Rules ]
             r == [Idle EXCEPT !.phase = "wait", !.kind = "create", !.entity = e, !.body = body]
  <2>1. req \in Request /\ NoJournalWrites(req)
    BY CreateOps
  <2>2. call' = [call EXCEPT ![c] = r] /\ (Begin(c, req, now) \/ Refuse(c, req, now))
    BY <1>4 DEF Create, SetCall
  <2> HIDE DEF req
  <2>3. IInv' /\ Progress'
    BY <2>1, <2>2, BeginOrRefuse, CallerAssumption
  <2>4. r \in Calls /\ r.phase = "wait" /\ r.kind = "create"
    BY DEF Idle, Calls
  <2> HIDE DEF r
  <2>5. \A d \in Callers : call'[d] = IF d = c THEN r ELSE call[d]
    BY <1>0, <2>2
  <2>6. CallOK'
    BY <1>0, <2>2, <2>4, <2>5 DEF CallOK
  <2>7. CallRuns'
    <3>1. CASE Begin(c, req, now)
      <4>1. tx'.client = c /\ result'[c] = None
        BY <1>0, <3>1, CallerAssumption DEF Begin
      <4>2. QED
        BY <2>4, <2>5, <4>1 DEF CallRuns, Mutates
    <3>2. CASE Refuse(c, req, now)
      BY <3>2 DEF Refuse, CallRuns
    <3>3. QED
      BY <2>2, <3>1, <3>2
  <2>8. QED
    BY <2>3, <2>6, <2>7
<1>5. ASSUME NEW c \in Callers, NEW now \in Instants, Submit(c, now) PROVE EInv'
  <2> DEFINE req == MutationRequest(c)
             r == [call[c] EXCEPT !.phase = "wait"]
  <2>1. /\ call' = [call EXCEPT ![c] = r] /\ (Begin(c, req, now) \/ Refuse(c, req, now))
        /\ call[c].phase = "submit" /\ call[c] \in Calls
    BY <1>0, <1>5 DEF Submit, SetCall
  <2>2. call[c].entity \in EntityIds
    BY <2>1 DEF CallOK
  <2>3. /\ req \in Request /\ NoJournalWrites(req)
        /\ req.states = {[entity |-> call[c].entity, ids |-> call[c].observed]}
    BY <2>1, <2>2, MutationOps
  <2>4. r \in Calls /\ r.phase = "wait" /\ r.kind = call[c].kind /\ r.entity = call[c].entity
        /\ r.body = call[c].body /\ r.observed = call[c].observed
    BY <2>1 DEF Calls
  <2> HIDE DEF req, r
  <2>5. IInv' /\ Progress'
    BY <2>1, <2>3, BeginOrRefuse, CallerAssumption
  <2>6. \A d \in Callers : call'[d] = IF d = c THEN r ELSE call[d]
    BY <1>0, <2>1
  <2>7. CallOK'
    BY <1>0, <2>1, <2>4, <2>6 DEF CallOK
  <2>8. CallRuns'
    <3>1. CASE Begin(c, req, now)
      <4>1. tx'.client = c /\ tx'.req = req /\ result'[c] = None /\ store' = store
        BY <1>0, <3>1, CallerAssumption DEF Begin
      <4>2. ScanIds(store.datoms, EntityPattern(call[c].entity)) = call[c].observed
        <5>1. ~ EntityStateChanged(req)
          BY <3>1 DEF Begin, Refusal, Tags
        <5>2. QED
          BY <2>3, <5>1 DEF EntityStateChanged
      <4>3. MutationRequest(c)' = req
        BY <2>4, <2>6, <4>1, SameRequest DEF req
      <4>4. Mutates(c)'
        BY <2>2, <2>4, <2>6, <4>1, <4>2, <4>3 DEF Mutates
      <4>5. QED
        BY <2>4, <2>6, <4>1, <4>4 DEF CallRuns
    <3>2. CASE Refuse(c, req, now)
      BY <3>2 DEF Refuse, CallRuns
    <3>3. QED
      BY <2>1, <3>1, <3>2
  <2>9. QED
    BY <2>5, <2>7, <2>8
<1>6. ASSUME NEW w \in Writers, NEW req \in Requests, NEW now \in Instants,
             Begin(w, req, now) \/ Refuse(w, req, now), UNCHANGED <<call, page>>
      PROVE  EInv'
  <2>1. req \in Request /\ NoJournalWrites(req) /\ w \in Clients /\ w \notin Callers
    BY RequestAssumption, CallerAssumption
  <2>2. IInv' /\ Progress'
    BY <1>6, <2>1, BeginOrRefuse
  <2>3. CallOK'
    BY <1>6 DEF CallOK
  <2>4. CallRuns'
    BY <1>6, <2>1 DEF CallRuns, Begin, Refuse
  <2>5. QED
    BY <2>2, <2>3, <2>4
<1>7. CASE Step /\ UNCHANGED <<call, page>>
  <2>1. IInv'
    BY <1>7, NextIInv DEF Next
  <2>2. Progress'
    BY <1>7, StepProgress
  <2>3. CallOK'
    BY <1>7 DEF CallOK
  <2>4. CallRuns'
    <3>1. CASE UNCHANGED <<store, result>> /\ tx'.client = tx.client /\ tx'.req = tx.req /\ tx # NoTx
      <4>1. tx.client \in Callers => MutationRequest(tx.client)' = MutationRequest(tx.client)
        BY <1>7, <3>1, SameRequest
      <4>2. tx.client \in Callers => Mutates(tx.client)'
        BY <1>7, <3>1, <4>1 DEF CallRuns, Mutates
      <4>3. QED
        BY <1>7, <3>1, <4>2 DEF CallRuns
    <3>2. CASE tx' = NoTx
      BY <3>2 DEF CallRuns
    <3>3. QED
      BY <1>7, <3>1, <3>2, StepOutcome DEF Commit
  <2>5. QED
    BY <2>1, <2>2, <2>3, <2>4
<1>8. CASE UNCHANGED <<store, buffer, tx, result, call>>
  <2>1. CallRuns'
    BY <1>8 DEF CallRuns, Mutates, MutationRequest, ExposedOf
  <2>2. QED
    BY <1>0, <1>8, <2>1, QuietInv DEF CallOK
<1>9. QED
  <2>1. ASSUME NEW l \in Listers, NEW r, SetPage(l, r) PROVE UNCHANGED <<store, buffer, tx, result, call>>
    BY <2>1 DEF SetPage
  <2>2. CASE \E l \in Listers, now \in Instants : RequestPage(l, now)
    BY <1>8, <2>1, <2>2 DEF RequestPage
  <2>3. CASE \E l \in Listers : SelectEntities(l) \/ EndPage(l)
    BY <1>8, <2>1, <2>3 DEF SelectEntities, EndPage
  <2>4. CASE \E l \in Listers, e \in EntityIds : ReadRow(l, e)
    BY <1>8, <2>1, <2>4 DEF ReadRow
  <2>5. CASE UNCHANGED evars
    BY <1>8, <2>5 DEF evars
  <2>6. QED
    BY <1>1, <1>2, <1>3, <1>4, <1>5, <1>6, <1>7, <2>2, <2>3, <2>4, <2>5 DEF ENext

-----------------------------------------------------------------------------
(* What a committed mutation leaves behind. *)

LEMMA EntityScan ==
    ASSUME NEW d, NEW e \in EntityIds
    PROVE  ScanIds(d, EntityPattern(e)) = {i \in LiveIds(d) : d[i].entity = e}
BY SentinelAssumption DEF ScanIds, EntityPattern, matchesPattern

\* Only the commit of the caller's own transaction tells it "Committed".
LEMMA AnsweredByCommit ==
    ASSUME EInv, [ENext]_evars, NEW c \in Callers, NEW kind, CommitsFor(c, kind)
    PROVE  Commit
<1>1. tx # NoTx /\ tx.client = c /\ result'[c] = "Committed"
  BY DEF CommitsFor
<1>2. result[c] = None /\ "Committed" # None
  BY <1>1 DEF EInv, CallRuns, Tags
<1>3. result \in [Clients -> Tags \cup {None}] /\ c \in Clients
  BY CallerAssumption DEF EInv, IInv, TypeOK
<1>4. ASSUME NEW d, NEW req, NEW now PROVE ~ Begin(d, req, now) /\ ~ Refuse(d, req, now)
  BY <1>1 DEF Begin, Refuse
<1>5. ASSUME NEW d \in Callers PROVE ~ Finish(d)
  BY <1>1, <1>2, <1>3 DEF Finish
<1>6. result' # result
  BY <1>1, <1>2
<1>7. CASE Step
  <2>1. ASSUME NEW tag \in Tags \ {"Committed"} PROVE ~ Return(tx.client, tag)
    BY <1>1, <1>3 DEF Return
  <2>2. QED
    BY <1>6, <1>7, <2>1, StepOutcome DEF EInv
<1>8. QED
  BY <1>4, <1>5, <1>6, <1>7 DEF ENext, StartCall, Create, rejectScheduledFacts, ReadEntity, Submit,
     RequestPage, SelectEntities, EndPage, ReadRow, SetPage, evars

\* A live fact of the entity after the commit of a mutation: one of before
\* that it did not drop, or one that it asserted.
LEMMA MutationLeaves ==
    ASSUME EInv, Commit, tx.client \in Callers,
           call[tx.client].kind \in {"replace", "delete"}
    PROVE  LET e == call[tx.client].entity
               before == ScanIds(store.datoms, EntityPattern(e))
               after  == ScanIds(store'.datoms, EntityPattern(e))
           IN  /\ after \cap Ids(store.datoms) = before \ Dropped(tx.client)
               /\ call[tx.client].kind = "delete" => after \subseteq Ids(store.datoms)
<1> DEFINE c == tx.client
           e == call[c].entity
           old == store.datoms
           new == store'.datoms
           mid == buffer.datoms
           before == ScanIds(old, EntityPattern(e))
           after == ScanIds(new, EntityPattern(e))
<1>1. /\ tx # NoTx /\ e \in EntityIds /\ tx.req = MutationRequest(c) /\ before = call[c].observed
      /\ call[c] \in Calls
  BY DEF EInv, CallRuns, CallOK, Mutates, Commit
<1>2. /\ \A k \in DOMAIN tx.req.ops :
            \/ tx.req.ops[k].op = "retract" /\ tx.req.ops[k].id \in Dropped(c)
            \/ tx.req.ops[k].op = "assert" /\ call[c].kind # "delete"
      /\ \A i \in Dropped(c) : \E k \in DOMAIN tx.req.ops :
            tx.req.ops[k].op = "retract" /\ tx.req.ops[k].id = i
  BY <1>1, MutationOps
<1>3. DoneOps = {tx.req.ops[k] : k \in DOMAIN tx.req.ops}
  BY AllDone DEF EInv
<1>4. /\ \A op \in DoneOps : \/ op.op = "retract" /\ op.id \in Dropped(c)
                             \/ op.op = "assert" /\ call[c].kind # "delete"
      /\ \A i \in Dropped(c) : \E op \in DoneOps : op.op = "retract" /\ op.id = i
  BY <1>2, <1>3
<1>5. /\ \A op \in DoneOps : op.op = "retract" /\ op.id \in Ids(old) => op.id \notin LiveIds(mid)
      /\ \A i \in Ids(mid) \ Ids(old) : \E op \in DoneOps : AssertedBy(op, mid[i])
      /\ \A i \in LiveIds(old) \ LiveIds(mid) : \E op \in DoneOps : Selects(op, old[i], i)
  BY <1>1 DEF EInv, Progress
<1>6. Dropped(c) \subseteq before /\ before \subseteq Ids(old)
  BY <1>1 DEF Dropped, ExposedOf, ScanIds, LiveIds
<1>7. /\ \A i \in Ids(mid) : i \in Ids(new) /\ new[i] = mid[i]
      /\ \A i \in Ids(new) \ Ids(mid) : new[i].entity = buffer.position
      /\ buffer.position \in Positions
  BY <1>1, CommitFacts, BufferParts DEF EInv
<1>8. \A i \in Ids(old) : i \in Ids(mid) /\ OldFact(old[i], mid[i], tx.instant, buffer.position)
  BY <1>1, BufferShape, BufferKeepsIds DEF EInv, Ids
<1>9. tx.instant \in Instants
  BY <1>1, TransactionParts DEF EInv, IInv
<1> HIDE DEF c, e, old, new, mid, before, after
<1>10. after = {i \in LiveIds(new) : new[i].entity = e} /\ before = {i \in LiveIds(old) : old[i].entity = e}
  BY <1>1, EntityScan DEF after, before
<1>11. \A i \in after : i \in Ids(mid) /\ i \in LiveIds(mid)
  BY <1>1, <1>7, <1>10, ContractAssumption DEF LiveIds
<1>12. ASSUME NEW i \in after, i \in Ids(old) PROVE i \in before \ Dropped(c)
  <2>1. i \in LiveIds(mid) /\ mid[i].entity = e
    BY <1>7, <1>10, <1>11
  <2>2. OldFact(old[i], mid[i], tx.instant, buffer.position) /\ Live(mid[i])
    BY <1>8, <1>12, <2>1 DEF LiveIds
  <2>3. Live(old[i]) /\ old[i].entity = e
    BY <1>9, <2>1, <2>2 DEF OldFact, Live
  <2>4. i \in before
    BY <1>10, <1>12, <2>3 DEF LiveIds
  <2>5. i \notin Dropped(c)
    BY <1>4, <1>5, <1>12, <2>1
  <2>6. QED
    BY <2>4, <2>5
<1>13. ASSUME NEW i \in before, i \notin Dropped(c) PROVE i \in after /\ i \in Ids(old)
  <2>1. i \in LiveIds(old) /\ old[i].entity = e /\ i \in Ids(old)
    BY <1>10 DEF LiveIds
  <2>2. i \in LiveIds(mid)
    <3>1. \A op \in DoneOps : ~ Selects(op, old[i], i)
      BY <1>4, <1>13 DEF Selects
    <3>2. QED
      BY <1>5, <2>1, <3>1
  <2>3. i \in Ids(mid) /\ mid[i].entity = e /\ Live(mid[i])
    BY <1>8, <2>1, <2>2 DEF OldFact, LiveIds
  <2>4. QED
    BY <1>7, <1>10, <2>1, <2>3 DEF LiveIds
<1>14. ASSUME call[c].kind = "delete", NEW i \in after PROVE i \in Ids(old)
  BY <1>4, <1>5, <1>11, <1>14 DEF AssertedBy
<1>15. after \cap Ids(old) = before \ Dropped(c)
  BY <1>12, <1>13
<1>16. QED
  BY <1>14, <1>15 DEF c, e, old, new, before, after

\* A committed DELETE leaves no live fact on the entity: the precondition on
\* the complete fact set, every retraction and the commit are one boundary.
THEOREM DeletesLeaveNothing == ESpec => DeleteLeavesNothing
<1> DEFINE A == \A c \in Callers : CommitsFor(c, "delete") =>
                  ScanIds(store'.datoms, EntityPattern(call[c].entity)) = {}
<1>1. EInv /\ [ENext]_evars => A
  <2> SUFFICES ASSUME EInv, [ENext]_evars, NEW c \in Callers, CommitsFor(c, "delete")
               PROVE  ScanIds(store'.datoms, EntityPattern(call[c].entity)) = {}
    OBVIOUS
  <2>1. Commit /\ tx # NoTx /\ tx.client = c /\ call[c].kind = "delete"
    BY AnsweredByCommit DEF CommitsFor
  <2>2. Dropped(c) = call[c].observed
    BY <2>1 DEF Dropped
  <2>3. ScanIds(store.datoms, EntityPattern(call[c].entity)) = call[c].observed
    BY <2>1 DEF EInv, CallRuns, Mutates
  <2>4. QED
    BY <2>1, <2>2, <2>3, MutationLeaves
<1>2. QED
  BY <1>1, EInitInv, ENextInv, PTL DEF ESpec, DeleteLeavesNothing

\* A committed PUT replaces: no exposed fact of another writer survives it,
\* and no unexposed fact is lost.
THEOREM ReplacesAreExclusive == ESpec => ReplaceIsExclusive
<1> DEFINE A == \A c \in Callers : CommitsFor(c, "replace") =>
                  LET before == ScanIds(store.datoms, EntityPattern(call[c].entity))
                      after  == ScanIds(store'.datoms, EntityPattern(call[c].entity))
                  IN  after \cap before = before \ ExposedOf(before)
<1>1. EInv /\ [ENext]_evars => A
  <2> SUFFICES ASSUME EInv, [ENext]_evars, NEW c \in Callers, CommitsFor(c, "replace")
               PROVE  LET before == ScanIds(store.datoms, EntityPattern(call[c].entity))
                          after  == ScanIds(store'.datoms, EntityPattern(call[c].entity))
                      IN  after \cap before = before \ ExposedOf(before)
    OBVIOUS
  <2> DEFINE before == ScanIds(store.datoms, EntityPattern(call[c].entity))
             after == ScanIds(store'.datoms, EntityPattern(call[c].entity))
  <2>1. Commit /\ tx # NoTx /\ tx.client = c /\ call[c].kind = "replace"
    BY AnsweredByCommit DEF CommitsFor
  <2>2. before = call[c].observed
    BY <2>1 DEF EInv, CallRuns, Mutates
  <2>3. Dropped(c) = ExposedOf(before)
    BY <2>1, <2>2 DEF Dropped
  <2>4. after \cap Ids(store.datoms) = before \ Dropped(c)
    BY <2>1, MutationLeaves
  <2>5. before \subseteq Ids(store.datoms)
    BY DEF ScanIds, LiveIds
  <2> HIDE DEF before, after
  <2>6. after \cap before = before \ ExposedOf(before)
    BY <2>3, <2>4, <2>5
  <2>7. QED
    BY <2>6 DEF before, after
<1>2. QED
  BY <1>1, EInitInv, ENextInv, PTL DEF ESpec, ReplaceIsExclusive

-----------------------------------------------------------------------------
(***************************************************************************)
(* The listing.  The rows handed out are those of the collection at the    *)
(* cursor's basis up to the last entity read; what is still to be read on  *)
(* this page comes before everything that is left for the next one.        *)
(***************************************************************************)
PageBases == [recordedAt : Instants, recordedPosition : 0..MaxPosition, validAt : Instants]

Pages == [ phase : {"none", "match", "rows", "next", "done"}, basis : PageBases \cup {None},
           after : Nat, more : BOOLEAN, todo : SUBSET EntityIds,
           rows : SUBSET [entity : EntityIds, facts : SUBSET TripleIds] ]

RowsUpTo(b, after) == {RowAt(e, b) : e \in {f \in CollectionAt(b) : EntityOrder[f] <= after}}

PageSound(p) ==
    IF p.phase = "none" THEN p.rows = {} /\ p.after = 0
    ELSE /\ p.basis \in PageBases /\ p.basis.recordedPosition <= store.position
         /\ p.rows = RowsUpTo(p.basis, p.after)
         /\ p.phase = "rows" =>
              /\ \A e \in p.todo : e \in CollectionAt(p.basis) /\ EntityOrder[e] > p.after
              /\ \A f \in CollectionAt(p.basis) : EntityOrder[f] > p.after /\ f \notin p.todo =>
                    p.more /\ \A e \in p.todo : EntityOrder[e] < EntityOrder[f]
         /\ p.phase = "done" => \A f \in CollectionAt(p.basis) : EntityOrder[f] <= p.after

\* A fact that is no journal record is on an entity of the collection's order.
EntitiesKnown ==
    \A i \in Ids(store.datoms) : store.datoms[i].entityType # TransactionType =>
        store.datoms[i].entity \in EntityIds

LInv == /\ EInv /\ EntitiesKnown
        /\ page \in [Listers -> Pages]
        /\ \A l \in Listers : PageSound(page[l])

LEMMA EntityStoreWrites ==
    ASSUME [ENext]_evars
    PROVE  store' = store \/ (Commit /\ UNCHANGED page)
<1>1. CASE Step /\ UNCHANGED page
  BY <1>1, OnlyCommitWrites DEF Next
<1>2. ASSUME NEW c, NEW req, NEW now, Begin(c, req, now) \/ Refuse(c, req, now) PROVE store' = store
  BY <1>2 DEF Begin, Refuse
<1>3. QED
  BY <1>1, <1>2 DEF ENext, StartCall, Create, rejectScheduledFacts, ReadEntity, Submit, Finish,
     RequestPage, SelectEntities, EndPage, ReadRow, SetPage, evars

LEMMA KnownEntities ==
    ASSUME EInv, EntitiesKnown, [ENext]_evars
    PROVE  EntitiesKnown'
<1>1. CASE store' = store
  BY <1>1 DEF EntitiesKnown
<1>2. CASE Commit
  <2> DEFINE old == store.datoms
             mid == buffer.datoms
             new == store'.datoms
  <2>1. tx # NoTx
    BY <1>2 DEF Commit
  <2>2. /\ \A i \in Ids(mid) : i \in Ids(new) /\ new[i] = mid[i]
        /\ \A i \in Ids(new) \ Ids(mid) : new[i].entityType = TransactionType
    BY <1>2, CommitFacts DEF EInv
  <2>3. \A i \in Ids(old) : i \in Ids(mid) /\ OldFact(old[i], mid[i], tx.instant, buffer.position)
    BY <2>1, BufferShape, BufferKeepsIds DEF EInv, Ids
  <2>4. \A op \in DoneOps : op.op = "assert" => op.entity \in EntityIds
    <3>1. tx.req.ops \in Seq(Ops)
      BY <2>1, TransactionParts DEF EInv, IInv, Request, Ops
    <3>2. \A k \in DOMAIN tx.req.ops : tx.req.ops[k] \in Ops
      BY <3>1
    <3>3. DoneOps \subseteq Ops
      BY <1>2, <3>2, AllDone DEF EInv
    <3>4. \A op \in Ops : op.op = "assert" => op.entity \in EntityIds
      BY DEF Ops, AssertOps, RetractOps, PatternOps
    <3>5. QED
      BY <3>3, <3>4
  <2>5. \A i \in Ids(mid) \ Ids(old) : \E op \in DoneOps : AssertedBy(op, mid[i])
    BY <2>1 DEF EInv, Progress
  <2>6. ASSUME NEW i \in Ids(new), new[i].entityType # TransactionType
        PROVE  new[i].entity \in EntityIds
    <3>1. i \in Ids(mid) /\ new[i] = mid[i]
      BY <2>2, <2>6
    <3>2. CASE i \in Ids(old)
      BY <2>3, <2>6, <3>1, <3>2 DEF EntitiesKnown, OldFact
    <3>3. CASE i \notin Ids(old)
      BY <2>4, <2>5, <3>1, <3>3 DEF AssertedBy
    <3>4. QED
      BY <3>2, <3>3
  <2>7. QED
    BY <2>6 DEF EntitiesKnown
<1>3. QED
  BY <1>1, <1>2, EntityStoreWrites

\* The collection at a basis is a finite set of ordered entities.
LEMMA CollectionOrdered ==
    ASSUME EntitiesKnown, NEW b
    PROVE  CollectionAt(b) \subseteq EntityIds /\ IsFiniteSet(CollectionAt(b))
<1> DEFINE I == {j \in VisibleIds(store.datoms, b) : store.datoms[j].entityType = DocType}
           f == [i \in I |-> store.datoms[i].entity]
<1>1. CollectionAt(b) = {store.datoms[i].entity : i \in I}
  BY DEF CollectionAt
<1>2. I \subseteq Ids(store.datoms) /\ I \subseteq TripleIds
  BY DEF VisibleIds, Ids
<1>3. DocType # TransactionType
  BY ContractAssumption, NamespaceAssumption
<1>4. CollectionAt(b) \subseteq EntityIds
  BY <1>1, <1>2, <1>3 DEF EntitiesKnown
<1>5. IsFiniteSet(I)
  BY <1>2, ContractAssumption, FS_Subset
<1> HIDE DEF I
<1>6. f \in Surjection(I, CollectionAt(b))
  BY <1>1 DEF Surjection
<1>7. IsFiniteSet(CollectionAt(b))
  BY <1>5, <1>6, FS_Surjection
<1>8. QED
  BY <1>4, <1>7

\* A basis already reached shows one collection and the same rows for ever.
LEMMA PageStable ==
    ASSUME IInv, store' = store \/ Commit, NEW b \in PageBases, b.recordedPosition <= store.position
    PROVE  /\ CollectionAt(b)' = CollectionAt(b)
           /\ \A after : RowsUpTo(b, after)' = RowsUpTo(b, after)
<1> DEFINE d == store.datoms
           n == store'.datoms
<1>1. /\ VisibleIds(n, b) = VisibleIds(d, b)
      /\ \A i \in VisibleIds(d, b) : n[i].entity = d[i].entity /\ n[i].entityType = d[i].entityType
  <2>1. CASE store' = store
    BY <2>1
  <2>2. CASE Commit
    <3>1. b.recordedPosition \in 0..store.position /\ b.recordedAt \in Instants \cup {None}
      BY StoreParts DEF PageBases, IInv, TypeOK
    <3>2. QED
      BY <2>2, <3>1, CommitKeepsVisible
  <2>3. QED
    BY <2>1, <2>2
<1>2. CollectionAt(b)' = CollectionAt(b)
  BY <1>1 DEF CollectionAt
<1>3. \A e : RowAt(e, b)' = RowAt(e, b)
  BY <1>1 DEF RowAt
<1>4. QED
  BY <1>2, <1>3 DEF RowsUpTo

LEMMA SoundStable ==
    ASSUME IInv, IInv', store' = store \/ Commit, NEW p \in Pages, PageSound(p)
    PROVE  PageSound(p)'
<1>1. CASE p.phase = "none"
  BY <1>1 DEF PageSound
<1>2. CASE p.phase # "none"
  <2> DEFINE b == p.basis
  <2>1. b \in PageBases /\ b.recordedPosition <= store.position
    BY <1>2 DEF PageSound
  <2>2. store.position <= store'.position /\ store.position \in Nat /\ store'.position \in Nat
    <3>1. Commit => store'.position = store.position + 1
      BY CommitShape, BufferParts
    <3>2. QED
      BY <3>1, StoreParts DEF IInv, TypeOK
  <2>3. b.recordedPosition <= store'.position
    BY <2>1, <2>2 DEF PageBases
  <2> HIDE DEF b
  <2>4. CollectionAt(b)' = CollectionAt(b) /\ \A after : RowsUpTo(b, after)' = RowsUpTo(b, after)
    BY <2>1, PageStable
  <2>5. QED
    BY <1>2, <2>3, <2>4 DEF PageSound, b
<1>3. QED
  BY <1>1, <1>2

\* What FirstOf leaves out comes after all it selects.
LEMMA FirstOfPrefix ==
    ASSUME NEW ids \in SUBSET EntityIds, IsFiniteSet(ids), NEW e \in FirstOf(ids), NEW f \in ids,
           f \notin FirstOf(ids)
    PROVE  EntityOrder[e] < EntityOrder[f]
<1> DEFINE Before(x) == {g \in ids : EntityOrder[g] < EntityOrder[x]}
<1>1. e \in ids /\ Cardinality(Before(e)) < PageLimit /\ ~ Cardinality(Before(f)) < PageLimit
  BY DEF FirstOf
<1>2. \A g \in ids : EntityOrder[g] \in Nat
  BY ContractAssumption
<1>3. SUFFICES ASSUME ~ EntityOrder[e] < EntityOrder[f] PROVE FALSE
  OBVIOUS
<1>4. Before(f) \subseteq Before(e)
  BY <1>1, <1>2, <1>3
<1>5. IsFiniteSet(Before(e))
  BY FS_Subset
<1>6. Cardinality(Before(f)) <= Cardinality(Before(e)) /\ IsFiniteSet(Before(f))
  BY <1>4, <1>5, FS_Subset
<1>7. Cardinality(Before(e)) \in Nat /\ Cardinality(Before(f)) \in Nat
  BY <1>5, <1>6, FS_CardinalityType
<1> HIDE DEF Before
<1>8. QED
  BY <1>1, <1>6, <1>7, ContractAssumption
LEMMA PageRequested ==
    ASSUME LInv, NEW l \in Listers, NEW now \in Instants, RequestPage(l, now)
    PROVE  \E r \in Pages : SetPage(l, r) /\ PageSound(r)
<1> DEFINE p == page[l]
           b == prepareEntityPage(l, now)
           r == [p EXCEPT !.phase = "match", !.basis = b]
<1>1. p \in Pages /\ PageSound(p) /\ p.phase \in {"none", "next"} /\ SetPage(l, r)
  BY DEF LInv, RequestPage
<1>2. store.position \in 0..MaxPosition
  BY StoreParts DEF LInv, EInv, IInv, TypeOK
<1>3. CASE p.phase = "none"
  <2>1. b = [recordedAt |-> now, recordedPosition |-> store.position, validAt |-> now]
    BY <1>3 DEF prepareEntityPage
  <2>2. b \in PageBases /\ b.recordedPosition <= store.position
    BY <1>2, <2>1 DEF PageBases
  <2>3. p.rows = {} /\ p.after = 0
    BY <1>1, <1>3 DEF PageSound
  <2> HIDE DEF p, b
  <2>4. /\ r \in Pages /\ r.phase = "match" /\ r.basis = b /\ r.rows = {} /\ r.after = 0
    BY <1>1, <2>2, <2>3 DEF Pages
  <2>5. \A e \in CollectionAt(b) : ~ EntityOrder[e] <= 0
    BY CollectionOrdered, ContractAssumption DEF LInv
  <2>6. RowsUpTo(b, 0) = {}
    BY <2>5 DEF RowsUpTo
  <2> HIDE DEF r
  <2>7. PageSound(r)
    BY <2>2, <2>4, <2>6 DEF PageSound
  <2>8. QED
    BY <1>1, <2>4, <2>7 DEF r
<1>4. CASE p.phase = "next"
  <2>1. b = p.basis
    BY <1>4 DEF prepareEntityPage
  <2>2. r \in Pages /\ r.phase = "match" /\ r.basis = p.basis /\ r.rows = p.rows /\ r.after = p.after
    BY <1>1, <2>1 DEF Pages
  <2> HIDE DEF r, p
  <2>3. PageSound(r)
    BY <1>1, <1>4, <2>2 DEF PageSound
  <2>4. QED
    BY <1>1, <2>2, <2>3 DEF r
<1>5. QED
  BY <1>1, <1>3, <1>4

LEMMA PageSelected ==
    ASSUME LInv, NEW l \in Listers, SelectEntities(l)
    PROVE  \E r \in Pages : SetPage(l, r) /\ PageSound(r)
<1> DEFINE p == page[l]
           C == CollectionAt(p.basis)
           ids == {e \in C : EntityOrder[e] > p.after}
           r == [p EXCEPT !.phase = "rows", !.todo = FirstOf(ids), !.more = (FirstOf(ids) # ids)]
<1>1. p \in Pages /\ PageSound(p) /\ p.phase = "match" /\ SetPage(l, r)
  BY DEF LInv, SelectEntities
<1>2. ids \in SUBSET EntityIds /\ IsFiniteSet(ids)
  BY CollectionOrdered, FS_Subset DEF LInv
<1>3. FirstOf(ids) \subseteq ids
  BY DEF FirstOf
<1>4. \A e \in FirstOf(ids), f \in ids \ FirstOf(ids) : EntityOrder[e] < EntityOrder[f]
  BY <1>2, FirstOfPrefix
<1>5. /\ r.phase = "rows" /\ r.basis = p.basis /\ r.rows = p.rows /\ r.after = p.after
      /\ r.todo = FirstOf(ids) /\ r.more = (FirstOf(ids) # ids) /\ r \in Pages
  <2>1. FirstOf(ids) \in SUBSET EntityIds /\ (FirstOf(ids) # ids) \in BOOLEAN
    BY <1>2, <1>3
  <2> HIDE DEF p, ids
  <2>2. QED
    BY <1>1, <2>1 DEF Pages
<1>6. PageSound(r)
  <2>1. p.basis \in PageBases /\ p.basis.recordedPosition <= store.position
        /\ p.rows = RowsUpTo(p.basis, p.after)
    BY <1>1 DEF PageSound
  <2>2. \A e \in FirstOf(ids) : e \in C /\ EntityOrder[e] > p.after
    BY <1>3
  <2>3. \A f \in C : EntityOrder[f] > p.after /\ f \notin FirstOf(ids) =>
           (FirstOf(ids) # ids) /\ \A e \in FirstOf(ids) : EntityOrder[e] < EntityOrder[f]
    BY <1>4
  <2> HIDE DEF r, p, ids
  <2>4. QED
    BY <1>5, <2>1, <2>2, <2>3 DEF PageSound
<1>7. QED
  BY <1>1, <1>5, <1>6

LEMMA RowRead ==
    ASSUME LInv, NEW l \in Listers, NEW e \in EntityIds, ReadRow(l, e)
    PROVE  \E r \in Pages : SetPage(l, r) /\ PageSound(r)
<1> DEFINE p == page[l]
           b == p.basis
           C == CollectionAt(b)
           r == [p EXCEPT !.todo = p.todo \ {e}, !.after = EntityOrder[e],
                          !.rows = p.rows \cup {RowAt(e, b)}]
<1>1. /\ p \in Pages /\ PageSound(p) /\ p.phase = "rows" /\ e \in p.todo /\ SetPage(l, r)
      /\ \A f \in p.todo : EntityOrder[e] <= EntityOrder[f]
  BY DEF LInv, ReadRow
<1>2. C \subseteq EntityIds
  BY CollectionOrdered DEF LInv
<1>3. /\ b \in PageBases /\ b.recordedPosition <= store.position
      /\ p.rows = RowsUpTo(b, p.after)
      /\ \A g \in p.todo : g \in C /\ EntityOrder[g] > p.after
      /\ \A f \in C : EntityOrder[f] > p.after /\ f \notin p.todo =>
            p.more /\ \A g \in p.todo : EntityOrder[g] < EntityOrder[f]
  BY <1>1 DEF PageSound
<1>4. /\ \A f \in C : EntityOrder[f] \in Nat
      /\ \A f, g \in C : EntityOrder[f] = EntityOrder[g] => f = g
      /\ p.after \in Nat
  BY <1>1, <1>2, ContractAssumption DEF Pages
<1>5. RowAt(e, b) \in [entity : EntityIds, facts : SUBSET TripleIds]
  BY DEF RowAt, VisibleIds, Ids
<1>6. /\ r.phase = "rows" /\ r.basis = b /\ r.rows = p.rows \cup {RowAt(e, b)}
      /\ r.after = EntityOrder[e] /\ r.todo = p.todo \ {e} /\ r.more = p.more /\ r \in Pages
  <2>1. EntityOrder[e] \in Nat /\ p.rows \cup {RowAt(e, b)} \in SUBSET [entity : EntityIds, facts : SUBSET TripleIds]
    BY <1>1, <1>3, <1>4, <1>5 DEF Pages
  <2> DEFINE rows == p.rows \cup {RowAt(e, b)}
             order == EntityOrder[e]
  <2> HIDE DEF p, rows, order
  <2>2. [p EXCEPT !.todo = p.todo \ {e}, !.after = order, !.rows = rows] \in Pages
    BY <1>1, <2>1 DEF Pages, rows, order
  <2>3. QED
    BY <1>1, <2>2 DEF rows, order, Pages
<1> HIDE DEF r, p, b, C
<1>7. {f \in C : EntityOrder[f] <= EntityOrder[e]} = {f \in C : EntityOrder[f] <= p.after} \cup {e}
  BY <1>1, <1>3, <1>4
<1>8. r.rows = RowsUpTo(b, EntityOrder[e])
  <2> DEFINE S == {f \in C : EntityOrder[f] <= p.after}
             T == {f \in C : EntityOrder[f] <= EntityOrder[e]}
  <2>1. T = S \cup {e}
    BY <1>7
  <2>2. RowsUpTo(b, p.after) = {RowAt(f, b) : f \in S} /\ RowsUpTo(b, EntityOrder[e]) = {RowAt(f, b) : f \in T}
    BY DEF RowsUpTo, C
  <2> HIDE DEF S, T
  <2>3. {RowAt(f, b) : f \in T} = {RowAt(f, b) : f \in S} \cup {RowAt(e, b)}
    BY <2>1
  <2>4. QED
    BY <1>3, <1>6, <2>2, <2>3
<1>9. \A g \in r.todo : g \in C /\ EntityOrder[g] > EntityOrder[e]
  BY <1>1, <1>3, <1>4, <1>6
<1>10. \A f \in C : EntityOrder[f] > EntityOrder[e] /\ f \notin r.todo =>
          p.more /\ \A g \in r.todo : EntityOrder[g] < EntityOrder[f]
  BY <1>1, <1>3, <1>4, <1>6
<1>11. PageSound(r)
  BY <1>3, <1>6, <1>8, <1>9, <1>10 DEF PageSound, C
<1>12. QED
  BY <1>1, <1>6, <1>11

LEMMA PageEnded ==
    ASSUME LInv, NEW l \in Listers, EndPage(l)
    PROVE  \E r \in Pages : SetPage(l, r) /\ PageSound(r)
<1> DEFINE p == page[l]
           r == [p EXCEPT !.phase = IF p.more THEN "next" ELSE "done"]
<1>1. p \in Pages /\ PageSound(p) /\ p.phase = "rows" /\ p.todo = {} /\ SetPage(l, r)
  BY DEF LInv, EndPage
<1>2. /\ r \in Pages /\ r.phase \in {"next", "done"} /\ (r.phase = "done" => ~ p.more)
      /\ r.basis = p.basis /\ r.rows = p.rows /\ r.after = p.after
  <2> HIDE DEF p
  <2>1. QED
    BY <1>1 DEF Pages
<1>3. ~ p.more => \A f \in CollectionAt(p.basis) : EntityOrder[f] <= p.after
  <2>1. \A f \in CollectionAt(p.basis) : ~ EntityOrder[f] > p.after \/ p.more
    BY <1>1 DEF PageSound
  <2>2. \A f \in CollectionAt(p.basis) : EntityOrder[f] \in Nat
    BY CollectionOrdered, ContractAssumption DEF LInv
  <2>3. p.after \in Nat
    BY <1>1 DEF Pages
  <2>4. QED
    BY <2>1, <2>2, <2>3
<1> HIDE DEF r, p
<1>4. PageSound(r)
  BY <1>1, <1>2, <1>3 DEF PageSound
<1>5. QED
  BY <1>1, <1>2, <1>4

LEMMA LInvInit == EInit => LInv
<1> SUFFICES ASSUME EInit PROVE LInv
  OBVIOUS
<1>1. EInv
  BY EInitInv
<1>2. Ids(store.datoms) = {} /\ page = [l \in Listers |-> NoPage]
  BY DEF EInit, Init, NoStore, Ids
<1>3. NoPage \in Pages /\ PageSound(NoPage)
  BY DEF NoPage, Pages, PageSound
<1>4. QED
  BY <1>1, <1>2, <1>3 DEF LInv, EntitiesKnown

LEMMA LInvNext == LInv /\ [ENext]_evars => LInv'
<1> SUFFICES ASSUME LInv, [ENext]_evars PROVE LInv'
  OBVIOUS
<1>1. EInv' /\ EntitiesKnown'
  BY ENextInv, KnownEntities DEF LInv
<1>2. IInv /\ IInv' /\ (store' = store \/ Commit)
  BY <1>1, EntityStoreWrites DEF LInv, EInv
<1>3. \A p \in Pages : PageSound(p) => PageSound(p)'
  BY <1>2, SoundStable
<1>4. ASSUME NEW l \in Listers, NEW r \in Pages, SetPage(l, r), PageSound(r) PROVE LInv'
  <2>1. page' = [page EXCEPT ![l] = r] /\ page \in [Listers -> Pages]
    BY <1>4 DEF SetPage, LInv
  <2>2. page' \in [Listers -> Pages] /\ \A m \in Listers : page'[m] = IF m = l THEN r ELSE page[m]
    BY <2>1
  <2>3. \A m \in Listers : PageSound(page[m])'
    BY <1>3, <1>4, <2>1, <2>2 DEF LInv
  <2>4. QED
    BY <1>1, <2>2, <2>3 DEF LInv
<1>5. CASE UNCHANGED page
  <2>1. \A m \in Listers : page'[m] \in Pages /\ PageSound(page'[m])
    BY <1>5 DEF LInv
  <2>2. \A m \in Listers : PageSound(page[m])'
    BY <1>3, <2>1
  <2>3. QED
    BY <1>1, <1>5, <2>2 DEF LInv
<1>6. CASE \E l \in Listers, now \in Instants : RequestPage(l, now)
  BY <1>4, <1>6, PageRequested
<1>7. CASE \E l \in Listers : SelectEntities(l) \/ EndPage(l)
  BY <1>4, <1>7, PageSelected, PageEnded
<1>8. CASE \E l \in Listers, e \in EntityIds : ReadRow(l, e)
  BY <1>4, <1>8, RowRead
<1>9. QED
  BY <1>5, <1>6, <1>7, <1>8 DEF ENext, StartCall, Create, rejectScheduledFacts, ReadEntity, Submit,
     Finish, evars

\* The pages of one listing are the collection at the first page's basis, each
\* entity once with the facts it had there, whatever commits in between.
THEOREM PagesAreOneSnapshot == ESpec => []PagesFormSnapshot
<1>1. LInv => PagesFormSnapshot
  <2> SUFFICES ASSUME LInv, NEW l \in Listers, page[l].phase = "done"
               PROVE  page[l].rows = {RowAt(e, page[l].basis) : e \in CollectionAt(page[l].basis)}
    BY DEF PagesFormSnapshot
  <2>1. /\ page[l].rows = RowsUpTo(page[l].basis, page[l].after)
        /\ \A f \in CollectionAt(page[l].basis) : EntityOrder[f] <= page[l].after
    BY DEF LInv, PageSound
  <2>2. QED
    BY <2>1 DEF RowsUpTo
<1>2. QED
  BY <1>1, LInvInit, LInvNext, PTL DEF ESpec

-----------------------------------------------------------------------------
(***************************************************************************)
(* The inductive invariant.  A kept copy of a fact, in the cache or in the *)
(* hands of a scan, may miss its retraction and errs in nothing else; the  *)
(* ids a scan read hold every fact that was returned when it began; and on *)
(* the in-memory backend a copy misses only retractions whose transact has *)
(* not returned, for its return drops the cache while no scan is under way.*)
(***************************************************************************)
Copy(s, i, c) == i \in Ids(s) /\ (Live(s[i]) => Live(c))

CacheSound(s, c, ret, b) ==
    /\ c \in DatomMaps
    /\ \A i \in Ids(c) : Copy(s, i, c[i])
    /\ b = "in-memory" => \A i \in Ids(c) : Live(c[i]) => s[i].retractedPosition \notin ret

Scans == [ phase : {"idle", "range", "fetched", "done"}, ids : SUBSET TripleIds,
           missed : SUBSET TripleIds, datoms : DatomMaps, rows : SUBSET TripleIds,
           since : SUBSET Nat ]

\* The ids hold the facts recorded at these positions.
Covers(s, since, ids) == \A i \in Ids(s) : s[i].recordedPosition \in since => i \in ids

ScanUnderWay(s, r, b) ==
    r.phase \in {"range", "fetched"} =>
        b = "networked" /\ r.ids \subseteq Ids(s) /\ Covers(s, r.since, r.ids)

ScanFetched(s, r) ==
    r.phase = "fetched" =>
        /\ r.missed \subseteq r.ids
        /\ \A i \in r.ids : r.datoms[i] # NoDatom /\ Copy(s, i, r.datoms[i])

ScanAnswered(s, r, b) ==
    r.phase = "done" =>
        /\ r.rows \subseteq Ids(s)
        /\ \A i \in LiveIds(s) : s[i].recordedPosition \in r.since => i \in r.rows
        /\ b = "in-memory" => \A i \in r.rows : s[i].retractedPosition \notin r.since

ScanSound(s, r, ret, b) ==
    /\ r \in Scans /\ r.since \subseteq ret
    /\ ScanUnderWay(s, r, b) /\ ScanFetched(s, r) /\ ScanAnswered(s, r, b)

DInv ==
    /\ IInv
    /\ backend \in Backends
    /\ \A e \in ending : e.position \in 0..store.position
    /\ returned \subseteq 1..store.position
    /\ CacheSound(store.datoms, cache, returned, backend)
    /\ reader \in [Readers -> Scans]
    /\ \A r \in Readers : ScanSound(store.datoms, reader[r], returned, backend)

-----------------------------------------------------------------------------
(* What a commit at a new position p leaves of these. *)

Later(s, t, p) ==
    /\ Ids(s) \subseteq Ids(t)
    /\ \A i \in Ids(s) : /\ t[i].recordedPosition = s[i].recordedPosition
                         /\ Live(t[i]) => Live(s[i])
                         /\ t[i].retractedPosition \in {s[i].retractedPosition, p}
    /\ \A i \in Ids(t) \ Ids(s) : t[i].recordedPosition = p

LEMMA CacheSurvives ==
    ASSUME NEW s, NEW t, NEW p, NEW c, NEW ret, NEW b,
           CacheSound(s, c, ret, b), Later(s, t, p), p \notin ret
    PROVE  CacheSound(t, c, ret, b)
BY DEF CacheSound, Copy, Later

LEMMA ScanSurvives ==
    ASSUME NEW s, NEW t, NEW p, NEW r, NEW ret, NEW b,
           ScanSound(s, r, ret, b), Later(s, t, p), p \notin ret
    PROVE  ScanSound(t, r, ret, b)
<1>1. p \notin r.since
  BY DEF ScanSound
<1>2. ScanUnderWay(t, r, b)
  BY <1>1 DEF ScanSound, ScanUnderWay, Covers, Later
<1>3. ScanFetched(t, r)
  BY DEF ScanSound, ScanFetched, Copy, Later
<1>4. ScanAnswered(t, r, b)
  BY <1>1 DEF ScanSound, ScanAnswered, LiveIds, Later
<1>5. QED
  BY <1>2, <1>3, <1>4 DEF ScanSound

\* A scan stays sound when more calls return.
LEMMA ScanOutlivesReturns ==
    ASSUME NEW s, NEW r, NEW ret, NEW more, NEW b, ScanSound(s, r, ret, b), ret \subseteq more
    PROVE  ScanSound(s, r, more, b)
BY DEF ScanSound

\* Only a commit moves the store, by one position.
LEMMA StoreMoves ==
    ASSUME IInv, [Next]_vars
    PROVE  /\ store.position \in Nat
           /\ \/ store' = store
              \/ /\ Commit /\ store'.position = store.position + 1
                 /\ Later(store.datoms, store'.datoms, store.position + 1)
<1>1. store.position \in Nat
  BY StoreParts DEF IInv, TypeOK
<1>2. store' = store \/ Commit
  BY OnlyCommitWrites
<1>3. ASSUME Commit
      PROVE  /\ store'.position = store.position + 1
             /\ Later(store.datoms, store'.datoms, store.position + 1)
  <2> DEFINE old == store.datoms
             new == store'.datoms
             p == store.position + 1
  <2>1. /\ tx # NoTx /\ store'.position = buffer.position
        /\ \A i \in Ids(old) : i \in Ids(new) /\ OldFact(old[i], new[i], tx.instant, buffer.position)
        /\ \A i \in Ids(new) \ Ids(old) : NewFact(new[i], tx.instant, buffer.position)
    BY <1>3, CommitShape DEF Shape
  <2>2. buffer.position = p /\ tx.instant \in Instants
    BY <2>1, BufferParts, TransactionParts DEF IInv
  <2>3. ASSUME NEW i \in Ids(old)
        PROVE  /\ new[i].recordedPosition = old[i].recordedPosition
               /\ Live(new[i]) => Live(old[i])
               /\ new[i].retractedPosition \in {old[i].retractedPosition, p}
    BY <2>1, <2>2 DEF OldFact, Live
  <2>4. \A i \in Ids(new) \ Ids(old) : new[i].recordedPosition = p
    BY <2>1, <2>2 DEF NewFact
  <2>5. QED
    BY <2>1, <2>2, <2>3, <2>4 DEF Later
<1>4. QED
  BY <1>1, <1>2, <1>3

-----------------------------------------------------------------------------
(* The steps. *)

\* Steps that only the transaction's state and its end are affected by.
LEMMA TransactKeeps ==
    ASSUME DInv, [Next]_vars, UNCHANGED <<backend, cache, reader, returned>>,
           \A e \in ending' : e \in ending \/ e.position \in {0, store'.position}
    PROVE  DInv'
<1>1. IInv'
  BY NextIInv DEF DInv
<1>2. /\ store.position \in Nat /\ store'.position \in Nat
      /\ store'.position \in {store.position, store.position + 1}
  BY StoreMoves DEF DInv
<1>3. /\ \A e \in ending' : e.position \in 0..store'.position
      /\ returned \subseteq 1..store'.position
  BY <1>2 DEF DInv
<1>4. CASE store' = store
  BY <1>1, <1>3, <1>4 DEF DInv
<1>5. CASE Later(store.datoms, store'.datoms, store.position + 1)
  <2>1. PICK p, t : p = store.position + 1 /\ t = store'.datoms /\ p \notin returned
    BY <1>2 DEF DInv
  <2>2. CacheSound(t, cache, returned, backend)
    BY <1>5, <2>1, CacheSurvives DEF DInv
  <2>3. \A r \in Readers : ScanSound(t, reader[r], returned, backend)
    BY <1>5, <2>1, ScanSurvives DEF DInv
  <2>4. QED
    BY <1>1, <1>3, <2>1, <2>2, <2>3 DEF DInv
<1>6. QED
  BY <1>4, <1>5, StoreMoves DEF DInv

LEMMA StartKeeps ==
    ASSUME DInv, NEW c \in Clients, NEW req \in Requests, NEW now \in Instants,
           StartTransact(c, req, now)
    PROVE  DInv'
<1>1. [Next]_vars
  BY DEF StartTransact, Next
<1>2. \A e \in ending' : e \in ending \/ e.position \in {0, store'.position}
  BY DEF StartTransact, Ended
<1>3. QED
  BY <1>1, <1>2, TransactKeeps DEF StartTransact

LEMMA StepKeeps ==
    ASSUME DInv, StepTransact
    PROVE  DInv'
<1>1. [Next]_vars
  BY DEF StepTransact, Next
<1>2. \A e \in ending' : e \in ending \/ e.position \in {0, store'.position}
  BY DEF StepTransact, Ended
<1>3. QED
  BY <1>1, <1>2, TransactKeeps DEF StepTransact

\* The clean-up: no copy is left that could miss the retractions returned.
LEMMA EndKeeps ==
    ASSUME DInv, NEW e \in ending, EndTransact(e)
    PROVE  DInv'
<1>1. UNCHANGED <<store, buffer, tx, result, backend, reader>>
  BY DEF EndTransact
<1>2. IInv'
  BY <1>1, NextIInv DEF DInv, vars
<1>3. store.position \in Nat /\ returned \subseteq returned' /\ returned' \subseteq 1..store.position
  <2>1. store.position \in Nat
    BY StoreParts DEF DInv, IInv, TypeOK
  <2>2. returned \subseteq 1..store.position /\ e.position \in 0..store.position
    BY DEF DInv
  <2>3. returned' = returned \cup ({e.position} \ {0})
    BY DEF EndTransact
  <2>4. e.position = 0 \/ e.position \in 1..store.position
    BY <2>1, <2>2
  <2>5. {e.position} \ {0} \subseteq 1..store.position
    BY <2>4, Zenon
  <2>6. QED
    BY <2>1, <2>2, <2>3, <2>5, Zenon
<1>4. CacheSound(store.datoms, cache', returned', backend)
  <2>1. cache' \in DatomMaps /\ Ids(cache') = {}
    BY DEF EndTransact, clearCache, EmptyCache, DatomMaps, Ids
  <2>2. QED
    BY <2>1 DEF CacheSound
<1>5. \A r \in Readers : ScanSound(store.datoms, reader[r], returned', backend)
  <2>1. PICK more : more = returned'
    OBVIOUS
  <2>2. QED
    BY <1>3, <2>1, ScanOutlivesReturns DEF DInv
<1>6. \A f \in ending' : f.position \in 0..store.position
  BY DEF EndTransact, DInv
<1>7. QED
  BY <1>1, <1>2, <1>3, <1>4, <1>5, <1>6 DEF DInv

\* What a read takes from the cache and from the store are copies.
LEMMA TakenAreCopies ==
    ASSUME DInv, NEW ids \in SUBSET Ids(store.datoms)
    PROVE  LET d == CachedOrStored(ids)
           IN  /\ d \in DatomMaps
               /\ \A i \in ids : d[i] # NoDatom /\ Copy(store.datoms, i, d[i])
               /\ backend = "in-memory" =>
                    \A i \in ids : Live(d[i]) => store.datoms[i].retractedPosition \notin returned
<1> DEFINE d == CachedOrStored(ids)
<1>1. /\ cache \in DatomMaps /\ store.datoms \in DatomMaps
      /\ \A i \in Ids(cache) : Copy(store.datoms, i, cache[i])
      /\ backend = "in-memory" => \A i \in Ids(cache) : Live(cache[i]) =>
            store.datoms[i].retractedPosition \notin returned
  BY StoreParts DEF DInv, CacheSound, IInv, TypeOK
<1>2. ids \subseteq TripleIds /\ \A i \in ids : store.datoms[i] # NoDatom
  BY DEF Ids
<1>3. d \in DatomMaps
  BY <1>1 DEF CachedOrStored, DatomMaps
<1>4. ASSUME NEW i \in ids
      PROVE  \/ i \in Ids(cache) /\ d[i] = cache[i]
             \/ d[i] = store.datoms[i]
  BY <1>2 DEF CachedOrStored, Ids
<1>5. ASSUME NEW i \in ids, Live(store.datoms[i])
      PROVE  store.datoms[i].retractedPosition \notin returned
  <2>1. store.datoms[i] \in Datoms
    BY <1>1, <1>2 DEF DatomMaps
  <2>2. store.datoms[i].retractedPosition = None
    BY <1>5, <2>1, DatomParts DEF Live
  <2>3. store.position \in 0..MaxPosition /\ returned \subseteq 1..store.position
    BY StoreParts DEF DInv, IInv, TypeOK
  <2>4. None \notin 1..store.position
    BY <2>3, SentinelAssumption
  <2>5. QED
    BY <2>2, <2>3, <2>4
<1> HIDE DEF d
<1>6. \A i \in ids : d[i] # NoDatom /\ Copy(store.datoms, i, d[i])
  BY <1>1, <1>2, <1>4 DEF Ids, Copy
<1>7. backend = "in-memory" =>
        \A i \in ids : Live(d[i]) => store.datoms[i].retractedPosition \notin returned
  BY <1>1, <1>4, <1>5
<1>8. QED
  BY <1>3, <1>6, <1>7 DEF d

\* Every fact recorded at a position that was returned is there.
LEMMA IdsCover == Covers(store.datoms, returned, Ids(store.datoms))
BY DEF Covers

\* Copies that are kept leave the cache sound.
LEMMA KeepingKeeps ==
    ASSUME DInv, NEW missed \in SUBSET TripleIds, NEW d \in DatomMaps, Keep(missed, d),
           \A i \in missed : d[i] # NoDatom /\ Copy(store.datoms, i, d[i]),
           backend = "in-memory" => \A i \in missed : Live(d[i]) =>
               store.datoms[i].retractedPosition \notin returned
    PROVE  CacheSound(store.datoms, cache', returned, backend)
<1>1. cache \in DatomMaps
  BY DEF DInv, CacheSound
<1>2. cache' \in DatomMaps
  BY <1>1 DEF Keep, DatomMaps
<1>3. ASSUME NEW i \in Ids(cache')
      PROVE  \/ i \in Ids(cache) /\ cache'[i] = cache[i]
             \/ i \in missed /\ cache'[i] = d[i]
  BY DEF Keep, Ids
<1>4. \A i \in Ids(cache') : Copy(store.datoms, i, cache'[i])
  BY <1>3 DEF DInv, CacheSound
<1>5. backend = "in-memory" => \A i \in Ids(cache') : Live(cache'[i]) =>
        store.datoms[i].retractedPosition \notin returned
  BY <1>3 DEF DInv, CacheSound
<1>6. QED
  BY <1>2, <1>4, <1>5 DEF CacheSound

\* A step of one reader.
LEMMA ReaderMoves ==
    ASSUME DInv, NEW r \in Readers, NEW scan, SetReader(r, scan),
           ScanSound(store.datoms, scan, returned, backend),
           CacheSound(store.datoms, cache', returned, backend)
    PROVE  DInv'
<1>1. UNCHANGED <<store, buffer, tx, result, backend, ending, returned>>
  BY DEF SetReader
<1>2. IInv'
  BY <1>1, NextIInv DEF DInv, vars
<1>3. /\ reader' \in [Readers -> Scans] /\ reader'[r] = scan
      /\ \A q \in Readers \ {r} : reader'[q] = reader[q]
  BY DEF SetReader, DInv, ScanSound
<1>4. \A q \in Readers : ScanSound(store.datoms, reader'[q], returned, backend)
  BY <1>3 DEF DInv
<1>5. QED
  BY <1>1, <1>2, <1>3, <1>4 DEF DInv

LEMMA NoScanTyped ==
    /\ NoScan \in Scans
    /\ NoScan.phase = "idle" /\ NoScan.since = {}
<1>1. EmptyCache \in DatomMaps
  BY DEF EmptyCache, DatomMaps
<1>2. QED
  BY <1>1 DEF NoScan, Scans

\* The answer of a scan whose ids cover what was returned when it began, on
\* copies of their facts.
LEMMA AnswerSound ==
    ASSUME DInv, NEW since \in SUBSET returned, NEW ids \in SUBSET Ids(store.datoms), NEW d,
           Covers(store.datoms, since, ids),
           \A i \in ids : Copy(store.datoms, i, d[i]),
           backend = "in-memory" => \A i \in ids : Live(d[i]) =>
               store.datoms[i].retractedPosition \notin returned
    PROVE  ScanSound(store.datoms, Answered(since, ids, d), returned, backend)
<1>1. PICK a, rows : /\ a = Answered(since, ids, d) /\ rows = {i \in ids : Live(d[i])}
                     /\ a = [NoScan EXCEPT !.phase = "done", !.since = since, !.rows = rows]
  BY DEF Answered
<1>2. /\ since \subseteq Nat /\ rows \in SUBSET TripleIds /\ rows \subseteq ids
      /\ ids \subseteq Ids(store.datoms)
  BY <1>1 DEF DInv, Ids
<1>3. a \in Scans /\ a.phase = "done" /\ a.since = since /\ a.rows = rows
  BY <1>1, <1>2, NoScanTyped DEF Scans
<1>4. \A i \in LiveIds(store.datoms) : store.datoms[i].recordedPosition \in since => i \in rows
  BY <1>1 DEF Covers, Copy, LiveIds
<1>5. backend = "in-memory" => \A i \in rows : store.datoms[i].retractedPosition \notin since
  BY <1>1
<1>6. ScanAnswered(store.datoms, a, backend)
  BY <1>2, <1>3, <1>4, <1>5 DEF ScanAnswered
<1>7. QED
  BY <1>1, <1>3, <1>6 DEF ScanSound, ScanUnderWay, ScanFetched

LEMMA CollectKeeps ==
    ASSUME DInv, NEW r \in Readers, scanCollect(r)
    PROVE  DInv'
<1> DEFINE ids == Ids(store.datoms)
           d == CachedOrStored(ids)
           a == Answered(returned, ids, d)
<1>1. Keep(Missed(ids), d) /\ SetReader(r, a)
  BY DEF scanCollect
<1>2. /\ d \in DatomMaps
      /\ \A i \in ids : d[i] # NoDatom /\ Copy(store.datoms, i, d[i])
      /\ backend = "in-memory" =>
           \A i \in ids : Live(d[i]) => store.datoms[i].retractedPosition \notin returned
  BY TakenAreCopies
<1>3. Missed(ids) \subseteq ids /\ ids \subseteq TripleIds
  BY DEF Missed, Ids
<1> HIDE DEF d
<1>4. CacheSound(store.datoms, cache', returned, backend)
  BY <1>1, <1>2, <1>3, KeepingKeeps
<1>5. ScanSound(store.datoms, a, returned, backend)
  BY <1>2, IdsCover, AnswerSound
<1> HIDE DEF a
<1>6. QED
  BY <1>1, <1>4, <1>5, ReaderMoves

LEMMA RangeKeeps ==
    ASSUME DInv, NEW r \in Readers, ScanRange(r)
    PROVE  DInv'
<1> DEFINE ids == Ids(store.datoms)
           a == [NoScan EXCEPT !.phase = "range", !.since = returned, !.ids = ids]
<1>1. SetReader(r, a) /\ cache' = cache /\ backend = "networked"
  BY DEF ScanRange
<1>2. returned \subseteq Nat /\ ids \in SUBSET TripleIds
  BY DEF DInv, Ids
<1> HIDE DEF ids
<1>3. a \in Scans /\ a.phase = "range" /\ a.since = returned /\ a.ids = ids
  BY <1>2, NoScanTyped DEF Scans
<1> HIDE DEF a
<1>4. ScanUnderWay(store.datoms, a, backend)
  BY <1>1, <1>3, IdsCover DEF ScanUnderWay, ids
<1>5. ScanSound(store.datoms, a, returned, backend)
  BY <1>3, <1>4 DEF ScanSound, ScanFetched, ScanAnswered
<1>6. CacheSound(store.datoms, cache', returned, backend)
  BY <1>1 DEF DInv
<1>7. QED
  BY <1>1, <1>5, <1>6, ReaderMoves

LEMMA FetchKeeps ==
    ASSUME DInv, NEW r \in Readers, FetchMeta(r)
    PROVE  DInv'
<1> DEFINE ids == reader[r].ids
           d == CachedOrStored(ids)
           a == [reader[r] EXCEPT !.phase = "fetched", !.missed = Missed(ids), !.datoms = d]
<1>1. SetReader(r, a) /\ cache' = cache /\ reader[r].phase = "range"
  BY DEF FetchMeta
<1>2. /\ reader[r] \in Scans /\ reader[r].since \subseteq returned
      /\ backend = "networked" /\ ids \subseteq Ids(store.datoms)
      /\ Covers(store.datoms, reader[r].since, ids)
  BY <1>1 DEF DInv, ScanSound, ScanUnderWay
<1>3. /\ d \in DatomMaps
      /\ \A i \in ids : d[i] # NoDatom /\ Copy(store.datoms, i, d[i])
  BY <1>2, TakenAreCopies
<1>4. Missed(ids) \subseteq ids /\ ids \subseteq TripleIds
  BY <1>2 DEF Missed, Ids
<1>5. PICK m, e : m = Missed(ids) /\ e = d
  OBVIOUS
<1>6. a = [reader[r] EXCEPT !.phase = "fetched", !.missed = m, !.datoms = e]
  BY <1>5
<1> HIDE DEF a, d
<1>7. /\ a \in Scans /\ a.phase = "fetched" /\ a.since = reader[r].since /\ a.ids = ids
      /\ a.missed = m /\ a.datoms = e
  BY <1>2, <1>3, <1>4, <1>5, <1>6 DEF Scans
<1> HIDE DEF ids
<1>8. ScanUnderWay(store.datoms, a, backend) /\ ScanFetched(store.datoms, a)
  BY <1>2, <1>3, <1>4, <1>5, <1>7 DEF ScanUnderWay, ScanFetched
<1>9. ScanSound(store.datoms, a, returned, backend)
  BY <1>2, <1>7, <1>8 DEF ScanSound, ScanAnswered
<1>10. CacheSound(store.datoms, cache', returned, backend)
  BY <1>1 DEF DInv
<1>11. QED
  BY <1>1, <1>9, <1>10, ReaderMoves

LEMMA KeepKeeps ==
    ASSUME DInv, NEW r \in Readers, KeepMeta(r)
    PROVE  DInv'
<1> DEFINE q == reader[r]
           a == Answered(q.since, q.ids, q.datoms)
<1>1. q.phase = "fetched" /\ Keep(q.missed, q.datoms) /\ SetReader(r, a)
  BY DEF KeepMeta
<1>2. /\ q \in Scans /\ q.since \subseteq returned
      /\ backend = "networked" /\ q.ids \subseteq Ids(store.datoms)
      /\ Covers(store.datoms, q.since, q.ids)
      /\ q.missed \subseteq q.ids
      /\ \A i \in q.ids : q.datoms[i] # NoDatom /\ Copy(store.datoms, i, q.datoms[i])
  BY <1>1 DEF DInv, ScanSound, ScanUnderWay, ScanFetched
<1>3. q.missed \in SUBSET TripleIds /\ q.datoms \in DatomMaps
  BY <1>2 DEF Scans
<1>4. backend # "in-memory"
  BY <1>2
<1> HIDE DEF q
<1>5. CacheSound(store.datoms, cache', returned, backend)
  BY <1>1, <1>2, <1>3, <1>4, KeepingKeeps
<1>6. ScanSound(store.datoms, a, returned, backend)
  BY <1>2, <1>4, AnswerSound
<1> HIDE DEF a
<1>7. QED
  BY <1>1, <1>5, <1>6, ReaderMoves

LEMMA CacheInvariance == DSpec => []DInv
<1>1. DInit => DInv
  <2> SUFFICES ASSUME DInit PROVE DInv
    OBVIOUS
  <2>1. IInv /\ store.position = 0
    BY InitIInv DEF DInit, Init, NoStore
  <2>2. CacheSound(store.datoms, cache, returned, backend)
    <3>1. cache \in DatomMaps /\ Ids(cache) = {}
      BY DEF DInit, EmptyCache, DatomMaps, Ids
    <3>2. QED
      BY <3>1 DEF CacheSound
  <2>3. ScanSound(store.datoms, NoScan, returned, backend)
    BY NoScanTyped DEF ScanSound, ScanUnderWay, ScanFetched, ScanAnswered
  <2>4. reader \in [Readers -> Scans] /\ \A r \in Readers : reader[r] = NoScan
    BY NoScanTyped DEF DInit
  <2>5. QED
    BY <2>1, <2>2, <2>3, <2>4 DEF DInv, DInit
<1>2. DInv /\ [DNext]_dvars => DInv'
  <2> SUFFICES ASSUME DInv, [DNext]_dvars PROVE DInv'
    OBVIOUS
  <2>1. CASE DNext
    BY <2>1, StartKeeps, StepKeeps, EndKeeps, CollectKeeps, RangeKeeps, FetchKeeps, KeepKeeps
       DEF DNext
  <2>2. CASE UNCHANGED dvars
    <3>1. UNCHANGED <<store, buffer, tx, result, backend, cache, ending, reader, returned>>
      BY <2>2 DEF dvars
    <3>2. [Next]_vars
      BY <3>1 DEF vars
    <3>3. QED
      BY <3>1, <3>2, TransactKeeps
  <2>3. QED
    BY <2>1, <2>2
<1>3. QED
  BY <1>1, <1>2, PTL DEF DSpec

\* On any backend, for any number of clients, readers and facts: a finished
\* scan has every live fact that was returned when it began, and on the
\* in-memory backend no fact whose retraction was returned by then
\* (KvTripleStore's cache of decoded datoms, which transact clears as it ends).
THEOREM CacheErrsOnOneSide == DSpec => []CacheErrsOneSided
<1>1. DInv => CacheErrsOneSided
  BY DEF DInv, ScanSound, ScanAnswered, CacheErrsOneSided, NoLiveFactMissed, ReadsObserveCommits
<1>2. QED
  BY <1>1, CacheInvariance, PTL

=============================================================================
