--------------------------- MODULE TriplesProofs ---------------------------
(***************************************************************************)
(* Machine-checked theorems about the Triples service, for any clients,    *)
(* entities, values, rules, requests and bounds.                           *)
(***************************************************************************)
EXTENDS Triples, SequenceTheorems, FiniteSetTheorems, WellFoundedInduction, TLAPS

\* The sentinel of the optional fields is none of their values.
LEMMA Sentinel ==
    /\ None \notin CommandIds /\ None \notin Instants /\ None \notin Positions
    /\ None \notin Tags /\ None \notin EntityTypes
BY SentinelAssumption, BoundAssumption DEF Positions

USE Sentinel, BoundAssumption

\* A refused call answers with a failure tag.
LEMMA RefusalTag ==
    ASSUME NEW req, NEW now
    PROVE  Refusal(req, now) \in Tags \cup {None}
BY DEF Refusal, Tags

\* An operation of a request has one of the three shapes, told by its tag.
LEMMA OpShape ==
    ASSUME TypeOK, NEW kind, Running(kind)
    PROVE  /\ tx \in Transactions
           /\ Op \in AssertOps \cup RetractOps \cup PatternOps
           /\ Op.op = kind
           /\ tx.done + 1 \in 1..Len(tx.req.ops)
<1>1. tx \in Transactions /\ tx.done < Len(tx.req.ops)
  BY DEF TypeOK, Running
<1>2. tx.req \in Request /\ tx.done \in Nat
  BY <1>1 DEF Transactions
<1>3. tx.req.ops \in Seq(AssertOps \cup RetractOps \cup PatternOps)
  BY <1>2 DEF Request
<1>4. tx.done + 1 \in 1..Len(tx.req.ops)
  BY <1>1, <1>2, <1>3
<1>5. QED
  BY <1>1, <1>3, <1>4 DEF Op, Running

\* The datom of an assertion.
LEMMA AssertedDatom ==
    ASSUME TypeOK, Running("assert"), buffer.position \in Positions
    PROVE  LET datom == tripleInputToDatom(Op, tx.instant, buffer.position)
           IN  /\ datom \in Datoms
               /\ datom.recordedPosition = buffer.position
               /\ datom.recordedAt = tx.instant
               /\ datom.retractedAt = None /\ datom.retractedPosition = None
               /\ datom.entityType = Op.entityType
<1>1. tx \in Transactions /\ Op \in AssertOps \cup RetractOps \cup PatternOps /\ Op.op = "assert"
  BY OpShape
<1>2. Op \in AssertOps
  BY <1>1 DEF RetractOps, PatternOps
<1>3. tx.instant \in Instants
  BY <1>1 DEF Transactions
<1>4. QED
  BY <1>2, <1>3 DEF tripleInputToDatom, AssertOps, Datoms, DatomFields

\* The datom of a retraction.
LEMMA RetractionKeepsDatom ==
    ASSUME NEW d \in Datoms, NEW at \in Instants, NEW p \in Positions
    PROVE  /\ RetractedDatom(d, at, p) \in Datoms
           /\ RetractedDatom(d, at, p).retractedAt = at
           /\ RetractedDatom(d, at, p).retractedPosition = p
           /\ RetractedDatom(d, at, p).recordedAt = d.recordedAt
           /\ RetractedDatom(d, at, p).recordedPosition = d.recordedPosition
           /\ RetractedDatom(d, at, p).entityType = d.entityType
           /\ RetractedDatom(d, at, p).value = d.value
           /\ RetractedDatom(d, at, p).entity = d.entity
           /\ RetractedDatom(d, at, p).attribute = d.attribute
BY DEF RetractedDatom, Datoms, DatomFields

-----------------------------------------------------------------------------
(***************************************************************************)
(* The inductive invariant.  Between two transactions the buffer is the    *)
(* store.  Inside one, every buffered fact is a committed one, a committed *)
(* live one now retracted at the transaction's mark, or a new one with its *)
(* mark; the marks are exactly what its changes list; and the claim on its *)
(* command is fresh.                                                       *)
(***************************************************************************)
PositionsWithin(d, p) ==
    \A i \in Ids(d) : /\ d[i].recordedPosition <= p
                      /\ d[i].retractedPosition # None => d[i].retractedPosition <= p

ReceiptsWithin(receipts, p) == \A c \in CommandIds : receipts[c] # None => receipts[c] <= p

\* The journal record at i describes the marks of its position.
RecordTrue(d, receipts, i) ==
    /\ d[i].value \in JournalValues
    /\ d[i].entity = d[i].recordedPosition
    /\ d[i].value.value.position = d[i].recordedPosition
    /\ d[i].value.value.changes = ChangesAt(d, d[i].recordedPosition)
    /\ d[i].value.value.command # None =>
          receipts[d[i].value.value.command] = d[i].recordedPosition

RecordIds(d) == {i \in Ids(d) : d[i].entityType = TransactionType}

JournalTrue(d, receipts) == \A i \in RecordIds(d) : RecordTrue(d, receipts, i)

OneRecord(d) ==
    \A i, j \in RecordIds(d) : d[i].recordedPosition = d[j].recordedPosition => i = j

\* The assertions and the retractions of one position have one instant.
OneInstant(d) ==
    \A i, j \in Ids(d) :
        d[i].recordedPosition = d[j].retractedPosition => d[i].recordedAt = d[j].retractedAt

StoreSound(s) ==
    /\ PositionsWithin(s.datoms, s.position)
    /\ ReceiptsWithin(s.receipts, s.position)
    /\ JournalTrue(s.datoms, s.receipts)
    /\ OneRecord(s.datoms)
    /\ OneInstant(s.datoms)

NewDatom(new) ==
    /\ new # NoDatom
    /\ new.recordedPosition = buffer.position /\ new.recordedAt = tx.instant
    /\ new.entityType # TransactionType
    /\ new.retractedPosition # None => /\ new.retractedPosition = buffer.position
                                       /\ new.retractedAt = tx.instant

BufferedDatom(old, new) ==
    \/ new = old
    \/ /\ old # NoDatom /\ Live(old)
       /\ new = RetractedDatom(old, tx.instant, buffer.position)
    \/ old = NoDatom /\ NewDatom(new)

BufferSound ==
    /\ buffer.position = store.position + 1
    /\ NoJournalWrites(tx.req)
    /\ tx.req.command # None => store.receipts[tx.req.command] = None
    /\ buffer.receipts = [k \in CommandIds |->
            IF k = tx.req.command THEN buffer.position ELSE store.receipts[k]]
    /\ \A i \in TripleIds : BufferedDatom(store.datoms[i], buffer.datoms[i])
    /\ tx.changes = ChangesAt(buffer.datoms, buffer.position)

IInv == /\ TypeOK
        /\ StoreSound(store)
        /\ tx = NoTx => buffer = store
        /\ tx # NoTx => BufferSound

-----------------------------------------------------------------------------
(* Facts about single datoms and sets of changes. *)

LEMMA StoreParts ==
    ASSUME NEW s \in Stores
    PROVE  /\ s.datoms \in DatomMaps
           /\ s.position \in 0..MaxPosition /\ s.position \in Nat
           /\ s.receipts \in [CommandIds -> Positions \cup {None}]
           /\ \A i \in Ids(s.datoms) : i \in TripleIds /\ s.datoms[i] \in Datoms
<1>1. /\ s.datoms \in DatomMaps
      /\ s.position \in 0..MaxPosition
      /\ s.receipts \in [CommandIds -> Positions \cup {None}]
  BY DEF Stores
<1>2. QED
  BY <1>1 DEF DatomMaps, Ids

LEMMA DatomParts ==
    ASSUME NEW d \in Datoms
    PROVE  /\ d # NoDatom
           /\ d.recordedPosition \in Positions /\ d.recordedPosition \in Nat
           /\ d.recordedAt \in Instants /\ d.recordedAt \in Nat
           /\ d.retractedPosition \in Positions \cup {None}
           /\ d.retractedAt \in Instants \cup {None}
           /\ d.retractedAt = None <=> d.retractedPosition = None
<1>1. d \in DatomFields /\ (d.retractedAt = None <=> d.retractedPosition = None)
  BY DEF Datoms
<1>2. d # NoDatom
  BY <1>1, AbsenceAssumption
<1>3. /\ d.recordedPosition \in Positions /\ d.recordedAt \in Instants
      /\ d.retractedPosition \in Positions \cup {None}
      /\ d.retractedAt \in Instants \cup {None}
  BY <1>1 DEF DatomFields
<1>4. d.recordedPosition \in Nat
  BY <1>3 DEF Positions
<1>5. d.recordedAt \in Nat
  BY <1>3
<1>6. QED
  BY <1>1, <1>2, <1>3, <1>4, <1>5, Zenon

LEMMA TransactionParts ==
    ASSUME TypeOK, tx # NoTx
    PROVE  /\ tx \in Transactions
           /\ tx.client \in Clients /\ tx.req \in Request
           /\ tx.instant \in Instants /\ tx.done \in Nat
           /\ tx.changes \in SUBSET Changes
           /\ tx.req.command \in CommandIds \cup {None}
           /\ Len(tx.req.ops) \in Nat
<1>1. tx \in Transactions
  BY DEF TypeOK
<1>2. /\ tx.client \in Clients /\ tx.req \in Request
      /\ tx.instant \in Instants /\ tx.done \in Nat
      /\ tx.changes \in SUBSET Changes
  BY <1>1 DEF Transactions
<1>3. QED
  BY <1>1, <1>2 DEF Request

\* ChangesAt only depends on which facts carry the marks of the position.
LEMMA SameChanges ==
    ASSUME NEW d, NEW e, NEW p,
           \A i \in TripleIds :
              /\ (i \in Ids(d) /\ d[i].recordedPosition = p /\ d[i].entityType # TransactionType)
                   <=> (i \in Ids(e) /\ e[i].recordedPosition = p /\ e[i].entityType # TransactionType)
              /\ (i \in Ids(d) /\ d[i].retractedPosition = p)
                   <=> (i \in Ids(e) /\ e[i].retractedPosition = p)
    PROVE  ChangesAt(d, p) = ChangesAt(e, p)
<1>1. {j \in Ids(d) : d[j].recordedPosition = p /\ d[j].entityType # TransactionType}
        = {j \in Ids(e) : e[j].recordedPosition = p /\ e[j].entityType # TransactionType}
  BY DEF Ids
<1>2. {j \in Ids(d) : d[j].retractedPosition = p} = {j \in Ids(e) : e[j].retractedPosition = p}
  BY DEF Ids
<1>3. QED
  BY <1>1, <1>2, Zenon DEF ChangesAt

-----------------------------------------------------------------------------
(* The initial state and the start of a transaction. *)

LEMMA InitIInv == Init => IInv
<1> SUFFICES ASSUME Init PROVE IInv
  OBVIOUS
<1>1. NoStore \in Stores
  BY DEF NoStore, Stores, DatomMaps
<1>2. TypeOK
  BY <1>1 DEF Init, TypeOK
<1>3. Ids(store.datoms) = {}
  BY DEF Init, NoStore, Ids
<1>4. StoreSound(store)
  <2>1. PositionsWithin(store.datoms, store.position)
    BY <1>3 DEF PositionsWithin
  <2>2. ReceiptsWithin(store.receipts, store.position)
    BY DEF ReceiptsWithin, Init, NoStore
  <2>3. RecordIds(store.datoms) = {}
    BY <1>3 DEF RecordIds
  <2>4. JournalTrue(store.datoms, store.receipts) /\ OneRecord(store.datoms)
    BY <2>3 DEF JournalTrue, OneRecord
  <2>5. OneInstant(store.datoms)
    BY <1>3 DEF OneInstant
  <2>6. QED
    BY <2>1, <2>2, <2>4, <2>5 DEF StoreSound
<1>5. QED
  BY <1>2, <1>4 DEF IInv, Init

LEMMA BeginIInv ==
    ASSUME IInv, NEW c \in Clients, NEW req \in Request, NoJournalWrites(req),
           NEW now \in Instants, Begin(c, req, now)
    PROVE  IInv'
<1> USE DEF IInv
<1>1. /\ tx' = [client |-> c, req |-> req, instant |-> now, done |-> 0, changes |-> {}]
      /\ buffer' = [store EXCEPT
                    !.position = store.position + 1,
                    !.receipts = [k \in CommandIds |->
                        IF k = req.command THEN store.position + 1 ELSE store.receipts[k]]]
      /\ result' = [result EXCEPT ![c] = None]
      /\ store' = store
  BY DEF Begin
<1>2. store.position < MaxPosition
      /\ (req.command # None => store.receipts[req.command] = None)
  <2>1. ~ PositionExhausted /\ ~ CommandClaimed(req)
    BY DEF Begin, Refusal, Tags
  <2>2. store.position \in Nat
    BY StoreParts DEF TypeOK
  <2>3. QED
    BY <2>1, <2>2 DEF PositionExhausted, CommandClaimed
<1>3. req \in Request /\ NoJournalWrites(req)
  OBVIOUS
<1>4. tx' \in Transactions /\ tx' # NoTx
  BY <1>1, <1>3, AbsenceAssumption DEF Transactions
<1>5. /\ store.datoms \in DatomMaps /\ store.position \in Nat
      /\ store.receipts \in [CommandIds -> Positions \cup {None}]
  BY StoreParts DEF TypeOK
<1>6. /\ buffer'.datoms = store.datoms
      /\ buffer'.position = store.position + 1
      /\ buffer'.receipts = [k \in CommandIds |->
            IF k = req.command THEN store.position + 1 ELSE store.receipts[k]]
      /\ buffer' = [datoms |-> buffer'.datoms, position |-> buffer'.position,
                    receipts |-> buffer'.receipts]
  BY <1>1 DEF TypeOK, Stores
<1>7. buffer' \in Stores
  <2>1. store.position + 1 \in 0..MaxPosition /\ store.position + 1 \in Positions
    BY <1>2, <1>5 DEF Positions
  <2>2. buffer'.receipts \in [CommandIds -> Positions \cup {None}]
    BY <1>5, <1>6, <2>1
  <2>3. QED
    BY <1>5, <1>6, <2>1, <2>2 DEF Stores
<1>8. TypeOK'
  <2>1. tx'.done <= Len(tx'.req.ops)
    BY <1>1, <1>3 DEF Request
  <2>2. result' \in [Clients -> Tags \cup {None}]
    BY <1>1 DEF TypeOK
  <2>3. QED
    BY <1>1, <1>4, <1>7, <2>1, <2>2 DEF TypeOK
<1>9. BufferSound'
  <2>1. \A i \in TripleIds : BufferedDatom(store.datoms[i], buffer.datoms[i])'
    BY <1>1, <1>6 DEF BufferedDatom
  <2>2. ChangesAt(buffer'.datoms, buffer'.position) = {}
    <3>1. \A i \in Ids(store.datoms) : /\ store.datoms[i].recordedPosition # store.position + 1
                                       /\ store.datoms[i].retractedPosition # store.position + 1
      <4>1. TAKE i \in Ids(store.datoms)
      <4>2. store.datoms[i] \in Datoms
        BY StoreParts DEF TypeOK
      <4>3. /\ store.datoms[i].recordedPosition \in Nat
            /\ store.datoms[i].retractedPosition \in Positions \cup {None}
        BY <4>2, DatomParts
      <4>4. store.position + 1 \in Positions
        BY <1>2, <1>5 DEF Positions
      <4>5. /\ store.datoms[i].recordedPosition <= store.position
            /\ store.datoms[i].retractedPosition # None =>
                 store.datoms[i].retractedPosition <= store.position
        BY DEF StoreSound, PositionsWithin
      <4>6. QED
        BY <1>5, <4>3, <4>4, <4>5 DEF Positions
    <3>2. QED
      BY <3>1, <1>6 DEF ChangesAt
  <2>3. QED
    BY <1>1, <1>2, <1>3, <1>6, <2>1, <2>2 DEF BufferSound
<1>10. QED
  BY <1>1, <1>4, <1>8, <1>9

-----------------------------------------------------------------------------
(* Refusals and failures. *)

\* A step that only answers a caller.
LEMMA AnswerIInv ==
    ASSUME IInv, UNCHANGED <<store, buffer, tx>>, result' \in [Clients -> Tags \cup {None}]
    PROVE  IInv'
<1>1. TypeOK'
  BY DEF IInv, TypeOK
<1>2. tx' = tx /\ store' = store /\ buffer' = buffer
  OBVIOUS
<1>3. tx # NoTx => BufferSound'
  BY <1>2 DEF IInv, BufferSound, BufferedDatom, NewDatom
<1>4. QED
  BY <1>1, <1>2, <1>3 DEF IInv

LEMMA RefuseIInv ==
    ASSUME IInv, NEW c \in Clients, NEW req, NEW now, Refuse(c, req, now)
    PROVE  IInv'
<1>1. result' \in [Clients -> Tags \cup {None}]
  BY RefusalTag DEF IInv, TypeOK, Refuse, Return
<1>2. UNCHANGED <<store, buffer, tx>>
  BY DEF Refuse
<1>3. QED
  BY <1>1, <1>2, AnswerIInv

LEMMA AbortIInv ==
    ASSUME IInv, tx # NoTx, NEW tag \in Tags, Abort(tag)
    PROVE  IInv'
<1>1. tx' = NoTx /\ buffer' = store /\ store' = store
  BY DEF Abort
<1>2. tx.client \in Clients
  BY TransactionParts DEF IInv
<1>3. result' \in [Clients -> Tags \cup {None}]
  BY <1>2 DEF Abort, Return, IInv, TypeOK
<1>4. TypeOK'
  BY <1>1, <1>3 DEF IInv, TypeOK
<1>5. QED
  BY <1>1, <1>4 DEF IInv

-----------------------------------------------------------------------------
(* The operations. *)

LEMMA BufferParts ==
    ASSUME IInv, tx # NoTx
    PROVE  /\ buffer.datoms \in DatomMaps
           /\ buffer.position \in Positions /\ buffer.position \in Nat
           /\ buffer.position = store.position + 1
           /\ \A i \in TripleIds : BufferedDatom(store.datoms[i], buffer.datoms[i])
           /\ tx.changes = ChangesAt(buffer.datoms, buffer.position)
<1>1. buffer.datoms \in DatomMaps /\ buffer.position \in 0..MaxPosition
      /\ store.position \in Nat
  BY StoreParts DEF IInv, TypeOK
<1>2. /\ buffer.position = store.position + 1
      /\ \A i \in TripleIds : BufferedDatom(store.datoms[i], buffer.datoms[i])
      /\ tx.changes = ChangesAt(buffer.datoms, buffer.position)
  BY DEF IInv, BufferSound
<1>3. buffer.position \in Positions /\ buffer.position \in Nat
  BY <1>1, <1>2 DEF Positions
<1>4. QED
  BY <1>1, <1>2, <1>3

\* One operation done: the new datoms keep the shape of a buffer and carry
\* the new marks.
LEMMA ProceedIInv ==
    ASSUME IInv, NEW kind, Running(kind), NEW datoms \in DatomMaps,
           NEW changes \in SUBSET Changes, Proceed(datoms, changes),
           \A i \in TripleIds : BufferedDatom(store.datoms[i], datoms[i]),
           tx.changes \cup changes = ChangesAt(datoms, buffer.position)
    PROVE  IInv'
<1>1. tx # NoTx /\ tx.done < Len(tx.req.ops)
  BY DEF Running
<1>2. /\ buffer' = [buffer EXCEPT !.datoms = datoms]
      /\ tx' = [tx EXCEPT !.done = tx.done + 1, !.changes = tx.changes \cup changes]
      /\ store' = store /\ result' = result
  BY DEF Proceed
<1>3. buffer \in Stores
  BY DEF IInv, TypeOK
<1>4. /\ buffer' \in Stores /\ buffer'.datoms = datoms
      /\ buffer'.position = buffer.position /\ buffer'.receipts = buffer.receipts
  BY <1>2, <1>3 DEF Stores
<1>5. /\ tx \in Transactions /\ tx.done \in Nat /\ tx.changes \in SUBSET Changes
      /\ Len(tx.req.ops) \in Nat
  BY <1>1, TransactionParts DEF IInv
<1>6. /\ tx' \in Transactions /\ tx'.done = tx.done + 1
      /\ tx'.req = tx.req /\ tx'.instant = tx.instant
      /\ tx'.changes = tx.changes \cup changes
  <2>1. tx.done + 1 \in Nat /\ tx.changes \cup changes \in SUBSET Changes
    BY <1>5
  <2> DEFINE n == tx.done + 1
             s == tx.changes \cup changes
  <2>2. tx' = [tx EXCEPT !.done = n, !.changes = s]
    BY <1>2
  <2>3. n \in Nat /\ s \in SUBSET Changes
    BY <2>1
  <2> HIDE DEF n, s
  <2>4. /\ tx' \in Transactions /\ tx'.done = n /\ tx'.changes = s
        /\ tx'.req = tx.req /\ tx'.instant = tx.instant
    BY <1>5, <2>2, <2>3 DEF Transactions
  <2>5. QED
    BY <2>4 DEF n, s
<1>7. tx' # NoTx
  BY <1>6, AbsenceAssumption
<1>8. TypeOK'
  BY <1>1, <1>2, <1>4, <1>5, <1>6 DEF IInv, TypeOK
<1>9. BufferSound'
  <2>1. \A i \in TripleIds : BufferedDatom(store.datoms[i], buffer.datoms[i])'
    BY <1>2, <1>4, <1>6 DEF BufferedDatom, NewDatom
  <2>2. QED
    BY <1>1, <1>2, <1>4, <1>6, <2>1 DEF IInv, BufferSound
<1>10. QED
  BY <1>2, <1>7, <1>8, <1>9 DEF IInv

LEMMA ApplyAssertIInv ==
    ASSUME IInv, ApplyAssert
    PROVE  IInv'
<1> DEFINE id == FreshId(buffer.datoms)
           new == tripleInputToDatom(Op, tx.instant, buffer.position)
           datoms == [buffer.datoms EXCEPT ![id] = new]
           changes == {<<"assert", id>>}
<1>1. Running("assert") /\ tx # NoTx /\ Proceed(datoms, changes)
  BY DEF ApplyAssert, Running
<1>2. id \in TripleIds /\ buffer.datoms[id] = NoDatom
  BY DEF ApplyAssert, FreshId
<1>3. /\ buffer.datoms \in DatomMaps /\ buffer.position \in Positions
      /\ \A i \in TripleIds : BufferedDatom(store.datoms[i], buffer.datoms[i])
      /\ tx.changes = ChangesAt(buffer.datoms, buffer.position)
  BY <1>1, BufferParts
<1>4. /\ new \in Datoms
      /\ new.recordedPosition = buffer.position /\ new.recordedAt = tx.instant
      /\ new.retractedAt = None /\ new.retractedPosition = None
      /\ new.entityType = Op.entityType
  BY <1>1, <1>3, AssertedDatom DEF IInv
<1>5. Op.entityType # TransactionType
  <2>1. NoJournalWrites(tx.req)
    BY <1>1 DEF IInv, BufferSound
  <2>2. tx.done + 1 \in 1..Len(tx.req.ops) /\ Op.op = "assert" /\ tx \in Transactions
    BY <1>1, OpShape DEF IInv
  <2>3. tx.req.ops \in Seq(AssertOps \cup RetractOps \cup PatternOps)
    BY <2>2 DEF Transactions, Request
  <2>4. tx.done + 1 \in AssertIndices(tx.req.ops)
    BY <2>2, <2>3 DEF AssertIndices, Op
  <2>5. QED
    BY <2>1, <2>4 DEF NoJournalWrites, Op
<1>6. new # NoDatom
  BY <1>4, DatomParts
<1>7. datoms \in DatomMaps /\ changes \in SUBSET Changes
  BY <1>2, <1>3, <1>4 DEF DatomMaps, Changes
<1>8. \A i \in TripleIds : datoms[i] = IF i = id THEN new ELSE buffer.datoms[i]
  BY <1>2, <1>3 DEF DatomMaps
<1>9. store.datoms[id] = NoDatom
  <2>1. store.datoms \in DatomMaps /\ tx.instant \in Instants
    BY <1>1, StoreParts, TransactionParts DEF IInv, TypeOK
  <2>2. store.datoms[id] # NoDatom => RetractedDatom(store.datoms[id], tx.instant, buffer.position) # NoDatom
    <3> SUFFICES ASSUME store.datoms[id] # NoDatom
                 PROVE  RetractedDatom(store.datoms[id], tx.instant, buffer.position) # NoDatom
      OBVIOUS
    <3>1. store.datoms[id] \in Datoms
      BY <1>2, <2>1 DEF DatomMaps
    <3>2. RetractedDatom(store.datoms[id], tx.instant, buffer.position) \in Datoms
      BY <1>3, <2>1, <3>1, RetractionKeepsDatom
    <3>3. QED
      BY <3>2, DatomParts
  <2>3. QED
    BY <1>2, <1>3, <2>2 DEF BufferedDatom
<1>10. \A i \in TripleIds : BufferedDatom(store.datoms[i], datoms[i])
  BY <1>3, <1>4, <1>5, <1>6, <1>8, <1>9 DEF BufferedDatom, NewDatom
<1>11. tx.changes \cup changes = ChangesAt(datoms, buffer.position)
  <2>1. Ids(datoms) = Ids(buffer.datoms) \cup {id} /\ id \notin Ids(buffer.datoms)
    <3> HIDE DEF datoms, id, new
    <3>1. QED
      BY <1>2, <1>6, <1>8 DEF Ids
  <2> DEFINE Asserted(d) == {j \in Ids(d) : /\ d[j].recordedPosition = buffer.position
                                            /\ d[j].entityType # TransactionType}
             Gone(d) == {j \in Ids(d) : d[j].retractedPosition = buffer.position}
  <2>2. Asserted(datoms) = Asserted(buffer.datoms) \cup {id}
    BY <1>2, <1>4, <1>5, <1>8, <2>1 DEF Ids
  <2>3. Gone(datoms) = Gone(buffer.datoms)
    BY <1>2, <1>3, <1>4, <1>8, <2>1 DEF Ids
  <2>4. ChangesAt(datoms, buffer.position)
          = {<<"assert", i>> : i \in Asserted(datoms)} \cup {<<"retract", i>> : i \in Gone(datoms)}
    BY Zenon DEF ChangesAt
  <2>5. ChangesAt(buffer.datoms, buffer.position)
          = {<<"assert", i>> : i \in Asserted(buffer.datoms)}
              \cup {<<"retract", i>> : i \in Gone(buffer.datoms)}
    BY Zenon DEF ChangesAt
  <2>6. {<<"assert", i>> : i \in Asserted(buffer.datoms) \cup {id}}
          = {<<"assert", i>> : i \in Asserted(buffer.datoms)} \cup {<<"assert", id>>}
    OBVIOUS
  <2> HIDE DEF Asserted, Gone
  <2>7. QED
    BY <1>3, <2>2, <2>3, <2>4, <2>5, <2>6
<1>12. QED
  <2> HIDE DEF datoms, changes
  <2>1. QED
    BY <1>1, <1>7, <1>10, <1>11, ProceedIInv

\* Retracting live buffered facts keeps the invariant; ApplyRetract and
\* ApplyRetractPattern differ in which facts they select.
LEMMA RetractIInv ==
    ASSUME IInv, NEW kind, Running(kind),
           NEW ids \in SUBSET LiveIds(buffer.datoms),
           Proceed(Retracted(ids), {"retract"} \X ids)
    PROVE  IInv'
<1> DEFINE datoms == Retracted(ids)
           changes == {"retract"} \X ids
           mark(d) == RetractedDatom(d, tx.instant, buffer.position)
<1>1. tx # NoTx
  BY DEF Running
<1>2. /\ buffer.datoms \in DatomMaps /\ buffer.position \in Positions
      /\ \A i \in TripleIds : BufferedDatom(store.datoms[i], buffer.datoms[i])
      /\ tx.changes = ChangesAt(buffer.datoms, buffer.position)
  BY <1>1, BufferParts
<1>3. tx.instant \in Instants
  BY <1>1, TransactionParts DEF IInv
<1>4. \A i \in ids : /\ i \in TripleIds /\ buffer.datoms[i] \in Datoms
                     /\ buffer.datoms[i] # NoDatom
                     /\ buffer.datoms[i].retractedAt = None
                     /\ buffer.datoms[i].retractedPosition = None
  <2>1. TAKE i \in ids
  <2>2. /\ i \in TripleIds /\ buffer.datoms[i] # NoDatom
        /\ buffer.datoms[i].retractedAt = None
    BY DEF LiveIds, Ids, Live
  <2>3. buffer.datoms[i] \in Datoms
    BY <1>2, <2>2 DEF DatomMaps
  <2>4. QED
    BY <2>2, <2>3, DatomParts
<1>5. \A i \in ids :
         /\ mark(buffer.datoms[i]) \in Datoms /\ mark(buffer.datoms[i]) # NoDatom
         /\ mark(buffer.datoms[i]).retractedAt = tx.instant
         /\ mark(buffer.datoms[i]).retractedPosition = buffer.position
         /\ mark(buffer.datoms[i]).recordedAt = buffer.datoms[i].recordedAt
         /\ mark(buffer.datoms[i]).recordedPosition = buffer.datoms[i].recordedPosition
         /\ mark(buffer.datoms[i]).entityType = buffer.datoms[i].entityType
  <2>1. TAKE i \in ids
  <2>2. buffer.datoms[i] \in Datoms
    BY <1>4
  <2>3. mark(buffer.datoms[i]) \in Datoms
    BY <1>2, <1>3, <2>2, RetractionKeepsDatom
  <2>4. mark(buffer.datoms[i]) # NoDatom
    BY <2>3, DatomParts
  <2>5. QED
    <3> DEFINE d == buffer.datoms[i]
               at == tx.instant
               p == buffer.position
    <3>1. d \in Datoms /\ at \in Instants /\ p \in Positions
      BY <1>2, <1>3, <2>2
    <3> HIDE DEF d, at, p
    <3>2. /\ RetractedDatom(d, at, p).retractedAt = at
          /\ RetractedDatom(d, at, p).retractedPosition = p
          /\ RetractedDatom(d, at, p).recordedAt = d.recordedAt
          /\ RetractedDatom(d, at, p).recordedPosition = d.recordedPosition
          /\ RetractedDatom(d, at, p).entityType = d.entityType
      BY <3>1, RetractionKeepsDatom
    <3>3. QED
      BY <2>3, <2>4, <3>2 DEF d, at, p
<1>6. \A i \in TripleIds : datoms[i] = IF i \in ids THEN mark(buffer.datoms[i]) ELSE buffer.datoms[i]
  BY DEF Retracted
<1>7. datoms \in DatomMaps
  <2>1. datoms = [i \in TripleIds |-> datoms[i]]
    BY DEF Retracted
  <2>2. \A i \in TripleIds : datoms[i] \in Datoms \cup {NoDatom}
    BY <1>2, <1>5, <1>6 DEF DatomMaps
  <2> HIDE DEF datoms
  <2>3. QED
    BY <2>1, <2>2 DEF DatomMaps
<1>8. changes \in SUBSET Changes
  BY <1>4 DEF Changes
<1>9. \A i \in TripleIds : BufferedDatom(store.datoms[i], datoms[i])
  <2>1. TAKE i \in TripleIds
  <2>2. CASE i \notin ids
    BY <1>2, <1>6, <2>2
  <2>3. CASE i \in ids
    <3>1. datoms[i] = mark(buffer.datoms[i])
      BY <1>6, <2>3
    <3>2. BufferedDatom(store.datoms[i], buffer.datoms[i])
      BY <1>2
    <3>3. CASE buffer.datoms[i] = store.datoms[i]
      BY <1>4, <2>3, <3>1, <3>3 DEF BufferedDatom, Live
    <3>4. CASE /\ store.datoms[i] # NoDatom
               /\ buffer.datoms[i] = mark(store.datoms[i])
      <4>1. store.datoms[i] \in Datoms
        BY <3>4, StoreParts DEF IInv, TypeOK, Ids
      <4>2. buffer.datoms[i].retractedAt = tx.instant
        <5> DEFINE d == store.datoms[i]
                   at == tx.instant
                   p == buffer.position
        <5>1. d \in Datoms /\ at \in Instants /\ p \in Positions
          BY <1>2, <1>3, <4>1
        <5>2. buffer.datoms[i] = RetractedDatom(d, at, p)
          BY <3>4
        <5> HIDE DEF d, at, p
        <5>3. RetractedDatom(d, at, p).retractedAt = at
          BY <5>1, RetractionKeepsDatom
        <5>4. QED
          BY <5>2, <5>3 DEF at
      <4>3. QED
        BY <1>3, <1>4, <2>3, <4>2
    <3>5. CASE store.datoms[i] = NoDatom /\ NewDatom(buffer.datoms[i])
      <4> HIDE DEF mark, datoms
      <4>1. QED
        BY <1>5, <2>3, <3>1, <3>5 DEF BufferedDatom, NewDatom
    <3>6. QED
      BY <3>2, <3>3, <3>4, <3>5 DEF BufferedDatom
  <2>4. QED
    BY <2>2, <2>3
<1>10. tx.changes \cup changes = ChangesAt(datoms, buffer.position)
  <2> HIDE DEF datoms, mark
  <2>1. Ids(datoms) = Ids(buffer.datoms) /\ ids \subseteq Ids(buffer.datoms)
    BY <1>4, <1>5, <1>6 DEF Ids
  <2> DEFINE Asserted(d) == {j \in Ids(d) : /\ d[j].recordedPosition = buffer.position
                                            /\ d[j].entityType # TransactionType}
             Gone(d) == {j \in Ids(d) : d[j].retractedPosition = buffer.position}
  <2>2. Asserted(datoms) = Asserted(buffer.datoms)
    BY <1>5, <1>6, <2>1 DEF Ids
  <2>3. Gone(datoms) = Gone(buffer.datoms) \cup ids
    BY <1>5, <1>6, <2>1 DEF Ids
  <2>4. ChangesAt(datoms, buffer.position)
          = {<<"assert", i>> : i \in Asserted(datoms)} \cup {<<"retract", i>> : i \in Gone(datoms)}
    BY Zenon DEF ChangesAt
  <2>5. ChangesAt(buffer.datoms, buffer.position)
          = {<<"assert", i>> : i \in Asserted(buffer.datoms)}
              \cup {<<"retract", i>> : i \in Gone(buffer.datoms)}
    BY Zenon DEF ChangesAt
  <2> HIDE DEF Asserted, Gone
  <2>6. {<<"retract", i>> : i \in Gone(buffer.datoms) \cup ids}
          = {<<"retract", i>> : i \in Gone(buffer.datoms)} \cup changes
    OBVIOUS
  <2>7. QED
    BY <1>2, <2>2, <2>3, <2>4, <2>5, <2>6
<1>11. QED
  <2> HIDE DEF datoms, changes
  <2>1. Proceed(datoms, changes)
    BY DEF datoms, changes
  <2>2. QED
    BY <1>7, <1>8, <1>9, <1>10, <2>1, ProceedIInv

LEMMA ApplyRetractIInv ==
    ASSUME IInv, ApplyRetract \/ ApplyRetractPattern
    PROVE  IInv'
<1>1. CASE ApplyRetract
  <2>1. {Op.id} \cap LiveIds(buffer.datoms) \in SUBSET LiveIds(buffer.datoms)
    OBVIOUS
  <2>2. QED
    BY <1>1, <2>1, RetractIInv DEF ApplyRetract
<1>2. CASE ApplyRetractPattern
  <2>1. PatternIds \in SUBSET LiveIds(buffer.datoms)
    BY DEF PatternIds, ScanIds
  <2>2. QED
    BY <1>2, <2>1, RetractIInv DEF ApplyRetractPattern
<1>3. QED
  BY <1>1, <1>2

-----------------------------------------------------------------------------
(* The commit. *)

\* The journal record's datom.
LEMMA JournalDatom ==
    ASSUME IInv, tx # NoTx
    PROVE  LET new == tripleInputToDatom(metadataInputs, tx.instant, buffer.position)
           IN  /\ new \in Datoms
               /\ new.recordedPosition = buffer.position /\ new.recordedAt = tx.instant
               /\ new.retractedAt = None /\ new.retractedPosition = None
               /\ new.entityType = TransactionType
               /\ new.value \in JournalValues
               /\ new.value.value.position = buffer.position
               /\ new.value.value.command = tx.req.command
               /\ new.value.value.changes = tx.changes
               /\ new.entity = buffer.position
<1>1. /\ tx.instant \in Instants /\ tx.changes \in SUBSET Changes
      /\ tx.req.command \in CommandIds \cup {None}
  BY TransactionParts DEF IInv
<1>2. buffer.position \in Positions
  BY BufferParts
<1>3. /\ metadataInputs.value \in JournalValues
      /\ metadataInputs.value.value.position = buffer.position
      /\ metadataInputs.value.value.command = tx.req.command
      /\ metadataInputs.value.value.changes = tx.changes
  BY <1>1, <1>2 DEF metadataInputs, JournalValues
<1>4. /\ metadataInputs.entity = buffer.position /\ metadataInputs.attribute \in Attributes
      /\ metadataInputs.entityType = TransactionType /\ TransactionType \in EntityTypes
      /\ metadataInputs.validFrom = None /\ metadataInputs.validTo = None
  BY <1>2, NamespaceAssumption DEF metadataInputs
<1>5. QED
  BY <1>1, <1>2, <1>3, <1>4 DEF tripleInputToDatom, Datoms, DatomFields

\* How the committed facts relate to the ones before: an old fact keeps its
\* assertion and is retracted at most once, now; a new one has the marks of
\* the transaction, and the only new journal record is its own.
OldFact(old, new, at, p) ==
    /\ new # NoDatom
    /\ new.recordedPosition = old.recordedPosition /\ new.recordedAt = old.recordedAt
    /\ new.entityType = old.entityType /\ new.value = old.value
    /\ new.entity = old.entity /\ new.attribute = old.attribute
    /\ new.validFrom = old.validFrom /\ new.validTo = old.validTo
    /\ \/ new.retractedAt = old.retractedAt /\ new.retractedPosition = old.retractedPosition
       \/ /\ old.retractedAt = None /\ old.retractedPosition = None
          /\ new.retractedAt = at /\ new.retractedPosition = p

NewFact(new, at, p) ==
    /\ new.recordedPosition = p /\ new.recordedAt = at
    /\ new.retractedPosition # None => new.retractedPosition = p /\ new.retractedAt = at

OwnRecord(new, t, p) ==
    /\ t.req.journaled
    /\ new.entity = p
    /\ new.value \in JournalValues
    /\ new.value.value.position = p
    /\ new.value.value.command = t.req.command
    /\ new.value.value.changes = t.changes

LEMMA BufferShape ==
    ASSUME IInv, tx # NoTx, NEW i \in TripleIds, buffer.datoms[i] # NoDatom
    PROVE  /\ store.datoms[i] # NoDatom =>
                OldFact(store.datoms[i], buffer.datoms[i], tx.instant, buffer.position)
           /\ store.datoms[i] = NoDatom =>
                /\ NewFact(buffer.datoms[i], tx.instant, buffer.position)
                /\ buffer.datoms[i].entityType # TransactionType
<1>1. BufferedDatom(store.datoms[i], buffer.datoms[i])
  BY BufferParts
<1>2. ASSUME store.datoms[i] # NoDatom
      PROVE  OldFact(store.datoms[i], buffer.datoms[i], tx.instant, buffer.position)
  <2> DEFINE d == store.datoms[i]
             at == tx.instant
             p == buffer.position
  <2>1. d \in Datoms
    BY <1>2, StoreParts DEF IInv, TypeOK, Ids
  <2>2. at \in Instants /\ p \in Positions
    BY TransactionParts, BufferParts DEF IInv
  <2>3. \/ buffer.datoms[i] = d
        \/ Live(d) /\ buffer.datoms[i] = RetractedDatom(d, at, p)
    BY <1>1, <1>2 DEF BufferedDatom
  <2> HIDE DEF d, at, p
  <2>4. d # NoDatom /\ (Live(d) => d.retractedAt = None /\ d.retractedPosition = None)
    BY <2>1, DatomParts DEF Live
  <2>5. Live(d) => OldFact(d, RetractedDatom(d, at, p), at, p)
    <3>1. RetractedDatom(d, at, p) # NoDatom
      BY <2>1, <2>2, RetractionKeepsDatom, DatomParts
    <3>2. /\ RetractedDatom(d, at, p).validFrom = d.validFrom
          /\ RetractedDatom(d, at, p).validTo = d.validTo
      BY <2>1, <2>2 DEF RetractedDatom, Datoms, DatomFields
    <3>3. QED
      BY <2>1, <2>2, <2>4, <3>1, <3>2, RetractionKeepsDatom DEF OldFact
  <2>6. OldFact(d, d, at, p)
    BY <2>4 DEF OldFact
  <2>7. OldFact(d, buffer.datoms[i], at, p)
    BY <2>3, <2>5, <2>6
  <2>8. QED
    BY <2>7 DEF d, at, p
<1>3. ASSUME store.datoms[i] = NoDatom
      PROVE  /\ NewFact(buffer.datoms[i], tx.instant, buffer.position)
             /\ buffer.datoms[i].entityType # TransactionType
  BY <1>1, <1>3 DEF BufferedDatom, NewDatom, NewFact
<1>4. QED
  BY <1>2, <1>3

LEMMA BufferKeepsIds ==
    ASSUME IInv, tx # NoTx, NEW i \in TripleIds, store.datoms[i] # NoDatom
    PROVE  buffer.datoms[i] # NoDatom
<1> DEFINE d == store.datoms[i]
           at == tx.instant
           p == buffer.position
<1>1. d \in Datoms /\ at \in Instants /\ p \in Positions
  BY StoreParts, TransactionParts, BufferParts DEF IInv, TypeOK, Ids
<1>2. buffer.datoms[i] \in {d, RetractedDatom(d, at, p)}
  BY BufferParts DEF BufferedDatom
<1> HIDE DEF d, at, p
<1>3. QED
  BY <1>1, <1>2, RetractionKeepsDatom, DatomParts

Shape(old, new, t, p) ==
    /\ \A i \in Ids(old) : i \in Ids(new) /\ OldFact(old[i], new[i], t.instant, p)
    /\ \A i \in Ids(new) \ Ids(old) :
          /\ NewFact(new[i], t.instant, p)
          /\ new[i].entityType = TransactionType => OwnRecord(new[i], t, p)
    /\ \A i, j \in RecordIds(new) \ Ids(old) : i = j
    /\ ChangesAt(new, p) = t.changes

LEMMA CommitShape ==
    ASSUME IInv, Commit
    PROVE  /\ tx # NoTx /\ tx' = NoTx /\ buffer' = store' /\ store' \in Stores
           /\ store'.position = buffer.position /\ store'.receipts = buffer.receipts
           /\ Shape(store.datoms, store'.datoms, tx, buffer.position)
<1>1. tx # NoTx /\ tx' = NoTx /\ buffer' = store'
  BY DEF Commit
<1>2. buffer \in Stores
  BY DEF IInv, TypeOK
<1>3. /\ \A i \in Ids(store.datoms) :
            i \in Ids(buffer.datoms)
              /\ OldFact(store.datoms[i], buffer.datoms[i], tx.instant, buffer.position)
      /\ \A i \in Ids(buffer.datoms) \ Ids(store.datoms) :
            /\ NewFact(buffer.datoms[i], tx.instant, buffer.position)
            /\ buffer.datoms[i].entityType # TransactionType
  BY <1>1, BufferShape, BufferKeepsIds DEF Ids
<1>4. tx.changes = ChangesAt(buffer.datoms, buffer.position)
  BY <1>1, BufferParts
<1>5. CASE ~ tx.req.journaled
  <2>1. store' = buffer
    BY <1>5 DEF Commit
  <2>2. RecordIds(buffer.datoms) \ Ids(store.datoms) = {}
    BY <1>3 DEF RecordIds
  <2>3. Shape(store.datoms, buffer.datoms, tx, buffer.position)
    BY <1>3, <1>4, <2>2 DEF Shape
  <2>4. QED
    BY <1>1, <1>2, <2>1, <2>3
<1>6. CASE tx.req.journaled
  <2> DEFINE f == FreshId(buffer.datoms)
             n == tripleInputToDatom(metadataInputs, tx.instant, buffer.position)
             D == store'.datoms
  <2>1. store' = [buffer EXCEPT !.datoms = Journaled(buffer.datoms)]
    BY <1>6 DEF Commit
  <2>2. f \in TripleIds /\ buffer.datoms[f] = NoDatom
    BY <1>6 DEF Commit, FreshId
  <2>3. /\ n \in Datoms /\ NewFact(n, tx.instant, buffer.position)
        /\ n.entityType = TransactionType /\ OwnRecord(n, tx, buffer.position)
        /\ n.retractedPosition = None
    BY <1>1, <1>6, JournalDatom DEF NewFact, OwnRecord
  <2>4. n # NoDatom
    BY <2>3, DatomParts
  <2>5. buffer.datoms \in DatomMaps /\ buffer.position \in Positions
    BY <1>1, BufferParts
  <2>6. /\ store'.datoms = [buffer.datoms EXCEPT ![f] = n]
        /\ store'.position = buffer.position /\ store'.receipts = buffer.receipts
        /\ store' = [datoms |-> store'.datoms, position |-> buffer.position,
                     receipts |-> buffer.receipts]
    BY <1>2, <2>1 DEF Stores, Journaled
  <2> HIDE DEF f, n
  <2>7. D \in DatomMaps /\ \A i \in TripleIds : D[i] = IF i = f THEN n ELSE buffer.datoms[i]
    BY <2>2, <2>3, <2>5, <2>6 DEF DatomMaps
  <2>8. store' \in Stores
    BY <1>2, <2>6, <2>7 DEF Stores
  <2> HIDE DEF D
  <2>9. Ids(D) = Ids(buffer.datoms) \cup {f} /\ f \notin Ids(buffer.datoms) /\ f \in TripleIds
    BY <2>2, <2>4, <2>7 DEF Ids
  <2>10. \A i \in Ids(buffer.datoms) : D[i] = buffer.datoms[i]
    BY <2>7, <2>9 DEF Ids
  <2>11. D[f] = n
    BY <2>2, <2>7
  <2>12. f \notin Ids(store.datoms)
    BY <1>3, <2>9
  <2>13. \A i, j \in RecordIds(D) \ Ids(store.datoms) : i = j
    BY <1>3, <2>9, <2>10 DEF RecordIds
  <2>14. ChangesAt(D, buffer.position) = ChangesAt(buffer.datoms, buffer.position)
    <3>1. \A i \in TripleIds :
             /\ (i \in Ids(D) /\ D[i].recordedPosition = buffer.position
                              /\ D[i].entityType # TransactionType)
                  <=> (i \in Ids(buffer.datoms) /\ buffer.datoms[i].recordedPosition = buffer.position
                              /\ buffer.datoms[i].entityType # TransactionType)
             /\ (i \in Ids(D) /\ D[i].retractedPosition = buffer.position)
                  <=> (i \in Ids(buffer.datoms) /\ buffer.datoms[i].retractedPosition = buffer.position)
      BY <2>3, <2>5, <2>9, <2>10, <2>11
    <3>2. QED
      BY <3>1, SameChanges
  <2>15. Shape(store.datoms, D, tx, buffer.position)
    BY <1>3, <1>4, <2>3, <2>9, <2>10, <2>11, <2>12, <2>13, <2>14 DEF Shape
  <2>16. QED
    BY <1>1, <2>6, <2>8, <2>15 DEF D
<1>7. QED
  BY <1>5, <1>6

\* The committed facts are the buffered ones and, for a journaled call, the
\* transaction's own record on the entity of its position.
LEMMA CommitFacts ==
    ASSUME IInv, Commit
    PROVE  /\ \A i \in Ids(buffer.datoms) :
                 i \in Ids(store'.datoms) /\ store'.datoms[i] = buffer.datoms[i]
           /\ \A i \in Ids(store'.datoms) \ Ids(buffer.datoms) :
                 /\ store'.datoms[i].entity = buffer.position
                 /\ store'.datoms[i].entityType = TransactionType
<1> DEFINE D == buffer.datoms
           new == store'.datoms
<1>1. tx # NoTx
  BY DEF Commit
<1>2. CASE ~ tx.req.journaled
  BY <1>2 DEF Commit
<1>3. CASE tx.req.journaled
  <2> DEFINE f == FreshId(D)
             n == tripleInputToDatom(metadataInputs, tx.instant, buffer.position)
  <2>1. store' = [buffer EXCEPT !.datoms = Journaled(buffer.datoms)]
    BY <1>3 DEF Commit
  <2>2. f \in TripleIds /\ D[f] = NoDatom
    BY <1>3 DEF Commit, FreshId
  <2>3. new = [D EXCEPT ![f] = n] /\ D \in DatomMaps
    BY <1>1, <2>1, BufferParts DEF IInv, TypeOK, Stores, Journaled
  <2>4. n.entity = buffer.position /\ n.entityType = TransactionType /\ n # NoDatom
    BY <1>1, JournalDatom, DatomParts
  <2> HIDE DEF D, f, n, new
  <2>5. new[f] = n /\ \A i \in TripleIds \ {f} : new[i] = D[i]
    BY <2>2, <2>3 DEF DatomMaps
  <2>6. QED
    BY <2>2, <2>4, <2>5 DEF Ids, D, new
<1>4. QED
  BY <1>2, <1>3

LEMMA CommitIInv ==
    ASSUME IInv, Commit
    PROVE  IInv'
<1> DEFINE old == store.datoms
           new == store'.datoms
           p == buffer.position
           at == tx.instant
<1>1. /\ tx # NoTx /\ tx' = NoTx /\ buffer' = store' /\ store' \in Stores
      /\ store'.position = p /\ store'.receipts = buffer.receipts
      /\ Shape(old, new, tx, p)
  BY CommitShape
<1>2. TypeOK'
  <2>1. tx.client \in Clients
    BY <1>1, TransactionParts DEF IInv
  <2>2. result' \in [Clients -> Tags \cup {None}]
    BY <2>1, AnswerAssumption DEF Commit, CommitReported, Return, IInv, TypeOK, Tags
  <2>3. QED
    BY <1>1, <2>2 DEF TypeOK
<1>3. /\ p = store.position + 1 /\ store.position \in Nat /\ p \in Nat /\ p \in Positions
      /\ at \in Instants
  BY <1>1, BufferParts, StoreParts, TransactionParts DEF IInv, TypeOK
<1>4. /\ \A i \in Ids(old) : old[i] \in Datoms
      /\ \A i \in Ids(new) : new[i] \in Datoms
  BY <1>1, StoreParts DEF IInv, TypeOK
<1>5. /\ \A i \in Ids(old) :
            /\ old[i].recordedPosition \in Nat /\ old[i].recordedPosition <= store.position
            /\ old[i].retractedPosition \in Positions \cup {None}
            /\ old[i].retractedPosition # None => old[i].retractedPosition <= store.position
  BY <1>4, DatomParts DEF IInv, StoreSound, PositionsWithin
<1> HIDE DEF old, new, p, at
<1>6. /\ \A i \in Ids(old) : i \in Ids(new) /\ OldFact(old[i], new[i], at, p)
      /\ \A i \in Ids(new) \ Ids(old) :
            /\ NewFact(new[i], at, p)
            /\ new[i].entityType = TransactionType => OwnRecord(new[i], tx, p)
      /\ \A i, j \in RecordIds(new) \ Ids(old) : i = j
      /\ ChangesAt(new, p) = tx.changes
  BY <1>1 DEF Shape, at
<1>7. PositionsWithin(new, p)
  <2>1. ASSUME NEW i \in Ids(new)
        PROVE  /\ new[i].recordedPosition <= p
               /\ new[i].retractedPosition # None => new[i].retractedPosition <= p
    <3>1. CASE i \in Ids(old)
      BY <1>3, <1>5, <1>6, <3>1 DEF OldFact, Positions
    <3>2. CASE i \notin Ids(old)
      BY <1>3, <1>6, <3>2 DEF NewFact
    <3>3. QED
      BY <3>1, <3>2
  <2>2. QED
    BY <2>1 DEF PositionsWithin
<1>8. /\ \A c \in CommandIds : buffer.receipts[c] =
             IF c = tx.req.command THEN p ELSE store.receipts[c]
      /\ tx.req.command # None => store.receipts[tx.req.command] = None
      /\ store.receipts \in [CommandIds -> Positions \cup {None}]
  BY <1>1, StoreParts DEF IInv, BufferSound, p, TypeOK
<1>9. ReceiptsWithin(store'.receipts, p)
  <2>1. ReceiptsWithin(store.receipts, store.position)
    BY DEF IInv, StoreSound
  <2>2. QED
    BY <1>1, <1>3, <1>8, <2>1 DEF ReceiptsWithin, Positions
<1>10. \A q \in Positions : q <= store.position => ChangesAt(new, q) = ChangesAt(old, q)
  <2>1. SUFFICES ASSUME NEW q \in Positions, q <= store.position
                 PROVE  ChangesAt(new, q) = ChangesAt(old, q)
    OBVIOUS
  <2>2. q # p /\ q # None
    BY <1>3, <2>1 DEF Positions
  <2>3. \A i \in TripleIds :
          /\ (i \in Ids(new) /\ new[i].recordedPosition = q /\ new[i].entityType # TransactionType)
               <=> (i \in Ids(old) /\ old[i].recordedPosition = q /\ old[i].entityType # TransactionType)
          /\ (i \in Ids(new) /\ new[i].retractedPosition = q)
               <=> (i \in Ids(old) /\ old[i].retractedPosition = q)
    BY <1>6, <2>2 DEF OldFact, NewFact
  <2>4. QED
    BY ONLY <2>3, SameChanges
<1>11. JournalTrue(new, store'.receipts)
  <2>1. ASSUME NEW i \in RecordIds(new) PROVE RecordTrue(new, store'.receipts, i)
    <3>1. i \in Ids(new) /\ new[i].entityType = TransactionType
      BY DEF RecordIds
    <3>2. CASE i \in Ids(old)
      <4>1. OldFact(old[i], new[i], at, p)
        BY <1>6, <3>2
      <4>2. i \in RecordIds(old)
        BY <3>1, <3>2, <4>1 DEF OldFact, RecordIds
      <4>3. RecordTrue(old, store.receipts, i)
        BY <4>2 DEF IInv, StoreSound, JournalTrue, old
      <4>4. ChangesAt(new, old[i].recordedPosition) = ChangesAt(old, old[i].recordedPosition)
        BY <1>4, <1>5, <1>10, <3>2, DatomParts
      <4> DEFINE command == old[i].value.value.command
      <4>5. command # None => store'.receipts[command] = old[i].recordedPosition
        <5>1. old[i].value \in JournalValues /\ old[i].recordedPosition \in Positions
          BY <1>4, <3>2, <4>3, DatomParts DEF RecordTrue
        <5>2. command \in CommandIds \cup {None}
          BY <5>1 DEF JournalValues
        <5>3. command # None => store.receipts[command] = old[i].recordedPosition
          BY <4>3 DEF RecordTrue
        <5> HIDE DEF command
        <5>4. QED
          BY <1>1, <1>8, <5>1, <5>2, <5>3
      <4>6. QED
        BY <4>1, <4>3, <4>4, <4>5 DEF OldFact, RecordTrue
    <3>3. CASE i \notin Ids(old)
      <4>1. OwnRecord(new[i], tx, p) /\ NewFact(new[i], at, p)
        BY <1>6, <3>1, <3>3
      <4>2. tx.req.command \in CommandIds \cup {None}
        BY <1>1, TransactionParts DEF IInv
      <4>3. tx.req.command # None => store'.receipts[tx.req.command] = p
        BY <1>1, <1>8, <4>2
      <4>4. QED
        BY <1>6, <4>1, <4>3 DEF OwnRecord, NewFact, RecordTrue
    <3>4. QED
      BY <3>2, <3>3
  <2>2. QED
    BY <2>1 DEF JournalTrue
<1>12. OneRecord(new)
  <2>1. ASSUME NEW i \in RecordIds(new), NEW j \in RecordIds(new),
               new[i].recordedPosition = new[j].recordedPosition
        PROVE  i = j
    <3>1. \A k \in RecordIds(new) : k \in Ids(new) /\ new[k].entityType = TransactionType
      BY DEF RecordIds
    <3>2. \A k \in RecordIds(new) : k \in Ids(old) =>
             /\ k \in RecordIds(old)
             /\ new[k].recordedPosition = old[k].recordedPosition
             /\ new[k].recordedPosition # p
      BY <1>3, <1>5, <1>6, <3>1 DEF OldFact, RecordIds
    <3>3. \A k \in RecordIds(new) : k \notin Ids(old) => new[k].recordedPosition = p
      BY <1>6, <3>1 DEF NewFact
    <3>4. CASE i \in Ids(old)
      <4>1. j \in Ids(old)
        BY <2>1, <3>2, <3>3, <3>4
      <4>2. OneRecord(old)
        BY DEF IInv, StoreSound, old
      <4>3. QED
        BY <2>1, <3>2, <3>4, <4>1, <4>2 DEF OneRecord
    <3>5. CASE i \notin Ids(old)
      <4>1. j \notin Ids(old)
        BY <2>1, <3>2, <3>3, <3>5
      <4>2. QED
        BY <1>6, <3>5, <4>1
    <3>6. QED
      BY <3>4, <3>5
  <2>2. QED
    BY <2>1 DEF OneRecord
<1>13. OneInstant(new)
  <2>1. ASSUME NEW i \in Ids(new), NEW j \in Ids(new),
               new[i].recordedPosition = new[j].retractedPosition
        PROVE  new[i].recordedAt = new[j].retractedAt
    <3>1. new[i].recordedPosition \in Positions
      BY <1>4, DatomParts
    <3>2. \A k \in Ids(new) : new[k].recordedPosition = p => new[k].recordedAt = at
      BY <1>3, <1>5, <1>6 DEF OldFact, NewFact
    <3>3. \A k \in Ids(new) : new[k].retractedPosition = p => new[k].retractedAt = at
      BY <1>3, <1>5, <1>6 DEF OldFact, NewFact, Positions
    <3>4. CASE new[i].recordedPosition = p
      BY <2>1, <3>2, <3>3, <3>4
    <3>5. CASE new[i].recordedPosition # p
      <4>1. i \in Ids(old) /\ j \in Ids(old)
        BY <1>6, <2>1, <3>1, <3>5 DEF NewFact
      <4>2. /\ new[i].recordedPosition = old[i].recordedPosition
            /\ new[i].recordedAt = old[i].recordedAt
            /\ new[j].retractedPosition = old[j].retractedPosition
            /\ new[j].retractedAt = old[j].retractedAt
        BY <1>6, <2>1, <3>5, <4>1 DEF OldFact
      <4>3. OneInstant(old)
        BY DEF IInv, StoreSound, old
      <4>4. QED
        BY <2>1, <4>1, <4>2, <4>3 DEF OneInstant
    <3>6. QED
      BY <3>4, <3>5
  <2>2. QED
    BY <2>1 DEF OneInstant
<1>14. StoreSound(store')
  BY <1>1, <1>7, <1>9, <1>11, <1>12, <1>13 DEF StoreSound, new
<1>15. QED
  BY <1>1, <1>2, <1>14 DEF IInv

-----------------------------------------------------------------------------
(* The theorems. *)

LEMMA NextIInv == IInv /\ [Next]_vars => IInv'
<1> SUFFICES ASSUME IInv, [Next]_vars PROVE IInv'
  OBVIOUS
<1>1. ASSUME NEW c \in Clients, NEW req \in Requests, NEW now \in Instants,
             Begin(c, req, now) \/ Refuse(c, req, now)
      PROVE  IInv'
  <2>1. req \in Request /\ NoJournalWrites(req)
    BY RequestAssumption
  <2>2. QED
    BY <1>1, <2>1, BeginIInv, RefuseIInv
<1>2. CASE ApplyAssert
  BY <1>2, ApplyAssertIInv
<1>3. CASE ApplyRetract \/ ApplyRetractPattern
  BY <1>3, ApplyRetractIInv
<1>4. CASE RefuseRetract
  <2>1. tx # NoTx /\ RetractFailure \in Tags /\ Abort(RetractFailure)
    BY <1>4 DEF RefuseRetract, Running, RetractFailure, Tags
  <2>2. QED
    BY <2>1, AbortIInv
<1>5. CASE RefuseRetractPattern
  <2>1. tx # NoTx /\ "WriteError" \in Tags /\ Abort("WriteError")
    BY <1>5 DEF RefuseRetractPattern, Running, Tags
  <2>2. QED
    BY <2>1, AbortIInv
<1>6. CASE Commit
  BY <1>6, CommitIInv
<1>7. CASE Interrupt
  <2>1. PICK tag \in Tags : tx # NoTx /\ Abort(tag)
    BY <1>7 DEF Interrupt, withTransactionTimeout, Tags
  <2>2. QED
    BY <2>1, AbortIInv
<1>8. CASE UNCHANGED vars
  <2>1. UNCHANGED <<store, buffer, tx>> /\ result' \in [Clients -> Tags \cup {None}]
    BY <1>8 DEF vars, IInv, TypeOK
  <2>2. QED
    BY <2>1, AnswerIInv
<1>9. QED
  BY <1>1, <1>2, <1>3, <1>4, <1>5, <1>6, <1>7, <1>8 DEF Next, Step

\* How a step of the running transaction leaves it: it goes on, it fails and
\* answers a failure, or it commits.
LEMMA StepOutcome ==
    ASSUME IInv, Step
    PROVE  /\ tx # NoTx /\ tx.client \in Clients
           /\ \/ /\ UNCHANGED <<store, result>>
                 /\ tx'.client = tx.client /\ tx'.req = tx.req
              \/ /\ tx' = NoTx /\ store' = store
                 /\ \E tag \in Tags \ {"Committed"} : Return(tx.client, tag)
              \/ Commit
<1>1. tx # NoTx
  BY DEF Step, ApplyAssert, ApplyRetract, RefuseRetract, ApplyRetractPattern,
         RefuseRetractPattern, Commit, Interrupt, Running
<1>2. tx.client \in Clients
  BY <1>1, TransactionParts DEF IInv
<1>3. CASE ApplyAssert \/ ApplyRetract \/ ApplyRetractPattern
  <2>1. /\ UNCHANGED <<store, result>>
        /\ \E changes : tx' = [tx EXCEPT !.done = tx.done + 1, !.changes = tx.changes \cup changes]
    BY <1>3 DEF ApplyAssert, ApplyRetract, ApplyRetractPattern, Proceed
  <2>2. tx \in Transactions
    BY <1>1, TransactionParts DEF IInv
  <2>3. tx'.client = tx.client /\ tx'.req = tx.req
    BY <2>1, <2>2 DEF Transactions
  <2>4. QED
    BY <1>1, <1>2, <2>1, <2>3
<1>4. CASE RefuseRetract
  <2>1. RetractFailure \in Tags \ {"Committed"} /\ Abort(RetractFailure)
    BY <1>4 DEF RefuseRetract, RetractFailure, Tags
  <2>2. QED
    BY <1>1, <1>2, <2>1 DEF Abort
<1>5. CASE RefuseRetractPattern
  BY <1>1, <1>2, <1>5 DEF RefuseRetractPattern, Abort, Tags
<1>6. CASE Interrupt
  BY <1>1, <1>2, <1>6 DEF Interrupt, withTransactionTimeout, Abort, Tags
<1>7. QED
  BY <1>1, <1>2, <1>3, <1>4, <1>5, <1>6 DEF Step

\* The inductive invariant holds in every reachable state of the service.
THEOREM Invariance == Spec => []IInv
BY InitIInv, NextIInv, PTL DEF Spec

\* Every reachable store, buffer, transaction and result has its type: a
\* retraction always records its instant together with its position.
THEOREM TypeCorrect == Spec => []TypeOK
<1>1. IInv => TypeOK
  BY DEF IInv
<1>2. QED
  BY <1>1, Invariance, PTL

\* The journal is true of the stored facts: what a committed record lists is
\* what the marks of the facts say (metadataInputs against assert / retract).
THEOREM JournalIsFaithful == Spec => []JournalFaithful
<1>1. IInv => JournalFaithful
  <2> SUFFICES ASSUME IInv, NEW i \in JournalIds(store.datoms)
               PROVE  /\ store.datoms[i].value.value.position = store.datoms[i].recordedPosition
                      /\ store.datoms[i].value.value.changes
                           = ChangesAt(store.datoms, store.datoms[i].value.value.position)
    BY DEF JournalFaithful
  <2>1. i \in RecordIds(store.datoms)
    BY DEF JournalIds, LiveIds, RecordIds
  <2>2. RecordTrue(store.datoms, store.receipts, i)
    BY <2>1 DEF IInv, StoreSound, JournalTrue
  <2>3. QED
    BY <2>2 DEF RecordTrue
<1>2. QED
  BY <1>1, Invariance, PTL

\* A command commits at most once, whatever is retried, refused, aborted or
\* interrupted, and its receipt names the record that committed it.
THEOREM CommandsCommitOnce == Spec => []CommandCommitsOnce
<1>1. IInv => CommandCommitsOnce
  <2> SUFFICES ASSUME IInv PROVE CommandCommitsOnce
    OBVIOUS
  <2> DEFINE d == store.datoms
             record(i) == d[i].value.value
  <2>1. \A i \in JournalIds(d) : /\ i \in RecordIds(d) /\ record(i).position = d[i].recordedPosition
                                 /\ record(i).command # None =>
                                      store.receipts[record(i).command] = record(i).position
    BY DEF IInv, StoreSound, JournalTrue, RecordTrue, JournalIds, LiveIds, RecordIds
  <2>2. \A i, j \in JournalIds(d) :
           record(i).command # None /\ record(i).command = record(j).command => i = j
    BY <2>1 DEF IInv, StoreSound, OneRecord
  <2>3. \A r \in TransactionRecords(d) : r.command # None =>
           /\ store.receipts[r.command] = r.position
           /\ TransactionByCommand(d, r.command) = {r}
    <3>1. TAKE r \in TransactionRecords(d)
    <3>2. PICK i \in JournalIds(d) : r = record(i)
      BY DEF TransactionRecords
    <3>3. ASSUME r.command # None, NEW q \in TransactionRecords(d), q.command = r.command
          PROVE  q = r
      <4>1. PICK j \in JournalIds(d) : q = record(j)
        BY <3>3 DEF TransactionRecords
      <4>2. i = j
        BY <2>2, <3>2, <3>3, <4>1
      <4>3. QED
        BY <3>2, <4>1, <4>2
    <3>4. r.command # None => TransactionByCommand(d, r.command) = {r}
      BY <3>3 DEF TransactionByCommand
    <3>5. QED
      BY <2>1, <3>2, <3>4
  <2>4. \A c \in CommandIds : store.receipts[c] # None => store.receipts[c] <= store.position
    BY DEF IInv, StoreSound, ReceiptsWithin
  <2>5. QED
    BY <2>3, <2>4 DEF CommandCommitsOnce
<1>2. QED
  BY <1>1, Invariance, PTL

\* No cut of the recorded axis, by position, instant or both, holds a
\* transaction's assertions without its retractions (visibleAt).
THEOREM NoTornTransactions == Spec => []NoTornTransaction
<1>1. IInv => NoTornTransaction
  <2> DEFINE d == store.datoms
  <2> SUFFICES ASSUME IInv, NEW cut \in Cuts, NEW i \in Ids(d), NEW j \in Ids(d),
                      d[i].recordedPosition = d[j].retractedPosition, AssertionIn(d[j], cut)
               PROVE  AssertionIn(d[i], cut) <=> ~ RecordedVisible(d[j], cut)
    BY DEF NoTornTransaction
  <2>1. d[i] \in Datoms /\ d[j] \in Datoms
    BY StoreParts DEF IInv, TypeOK
  <2>2. d[i].recordedAt = d[j].retractedAt
    BY DEF IInv, StoreSound, OneInstant
  <2>3. /\ d[i].recordedPosition \in Positions /\ d[i].recordedPosition \in Nat
        /\ d[i].recordedAt \in Instants /\ d[i].recordedAt \in Nat
    BY <2>1, DatomParts
  <2>4. /\ cut.recordedPosition \in 0..MaxPosition \cup {None}
        /\ cut.recordedAt \in Instants \cup {None}
    BY DEF Cuts
  <2> HIDE DEF d
  <2> DEFINE pos == d[i].recordedPosition
             at == d[i].recordedAt
             c == cut.recordedPosition
             t == cut.recordedAt
  <2>5. CASE c # None
    <3>1. AssertionIn(d[i], cut) <=> pos <= c /\ (t # None => at <= t)
      BY <2>5 DEF AssertionIn
    <3>2. RecordedVisible(d[j], cut) <=> (t # None /\ at > t) \/ pos > c
      BY <2>2, <2>3, <2>5 DEF RecordedVisible, AssertionIn
    <3>3. (pos <= c <=> ~ pos > c) /\ (t # None => (at <= t <=> ~ at > t))
      <4>1. c \in 0..MaxPosition
        BY <2>4, <2>5, Zenon
      <4>2. t # None => t \in Nat
        BY <2>4
      <4> HIDE DEF pos, at, c, t
      <4>3. QED
        BY <2>3, <4>1, <4>2 DEF pos, at
    <3>4. QED
      BY <3>1, <3>2, <3>3
  <2>6. CASE c = None
    <3>1. AssertionIn(d[i], cut) <=> (t # None => at <= t)
      BY <2>6 DEF AssertionIn
    <3>2. RecordedVisible(d[j], cut) <=> (t # None /\ at > t)
      BY <2>2, <2>3, <2>6 DEF RecordedVisible, AssertionIn
    <3>3. t # None => (at <= t <=> ~ at > t)
      <4>1. t # None => t \in Nat
        BY <2>4
      <4> HIDE DEF pos, at, c, t
      <4>2. QED
        BY <2>3, <4>1 DEF at
    <3>4. QED
      BY <3>1, <3>2, <3>3
  <2>7. QED
    BY <2>5, <2>6
<1>2. QED
  BY <1>1, Invariance, PTL

\* Only a commit changes the store.
LEMMA OnlyCommitWrites ==
    ASSUME [Next]_vars
    PROVE  store' = store \/ Commit
BY DEF Next, Step, Begin, Refuse, ApplyAssert, ApplyRetract, ApplyRetractPattern, Proceed,
       RefuseRetract, RefuseRetractPattern, Interrupt, Abort, vars

\* A commit changes nothing of what is visible at a position already reached.
LEMMA CommitKeepsVisible ==
    ASSUME IInv, Commit, NEW basis, basis.recordedPosition \in 0..store.position,
           basis.recordedAt \in Instants \cup {None}
    PROVE  /\ VisibleIds(store'.datoms, basis) = VisibleIds(store.datoms, basis)
           /\ \A i \in VisibleIds(store.datoms, basis) :
                 /\ store'.datoms[i].entity = store.datoms[i].entity
                 /\ store'.datoms[i].attribute = store.datoms[i].attribute
                 /\ store'.datoms[i].value = store.datoms[i].value
                 /\ store'.datoms[i].entityType = store.datoms[i].entityType
<1> DEFINE old == store.datoms
           new == store'.datoms
           p == buffer.position
           at == tx.instant
<1>1. /\ store' \in Stores /\ tx # NoTx
      /\ \A i \in Ids(old) : i \in Ids(new) /\ OldFact(old[i], new[i], at, p)
      /\ \A i \in Ids(new) \ Ids(old) : NewFact(new[i], at, p)
  BY CommitShape DEF Shape
<1>2. p = store.position + 1 /\ store.position \in Nat /\ p \in Positions
  BY <1>1, BufferParts, StoreParts DEF IInv, TypeOK
<1>3. /\ basis.recordedPosition \in Nat /\ basis.recordedPosition <= store.position
      /\ basis.recordedPosition # None
  <2>1. store.position \in 0..MaxPosition
    BY StoreParts DEF IInv, TypeOK
  <2>2. QED
    BY <2>1, SentinelAssumption
<1> HIDE DEF old, new, p, at
<1>4. \A i \in Ids(old) : visibleAt(new[i], basis) <=> visibleAt(old[i], basis)
  <2>1. TAKE i \in Ids(old)
  <2>2. OldFact(old[i], new[i], at, p)
    BY <1>1
  <2>3. ValidAt(new[i], basis.validAt) <=> ValidAt(old[i], basis.validAt)
    BY <2>2 DEF OldFact, ValidAt
  <2>4. RecordedVisible(new[i], basis) <=> RecordedVisible(old[i], basis)
    BY <1>2, <1>3, <2>2 DEF OldFact, RecordedVisible
  <2>5. QED
    BY <2>3, <2>4 DEF visibleAt
<1>5. \A i \in Ids(new) \ Ids(old) : ~ visibleAt(new[i], basis)
  BY <1>1, <1>2, <1>3 DEF NewFact, visibleAt, RecordedVisible
<1>6. VisibleIds(new, basis) = VisibleIds(old, basis)
  BY <1>1, <1>4, <1>5 DEF VisibleIds
<1>7. \A i \in VisibleIds(old, basis) :
         /\ new[i].entity = old[i].entity /\ new[i].attribute = old[i].attribute
         /\ new[i].value = old[i].value /\ new[i].entityType = old[i].entityType
  BY <1>1 DEF VisibleIds, OldFact
<1>8. QED
  BY <1>6, <1>7 DEF old, new

\* What is visible at a commit position already reached never changes: the
\* basis in a pagination cursor names one snapshot for ever.
THEOREM SnapshotsAreStable == Spec => SnapshotStable
<1> DEFINE Stable == \A basis \in Bases(store.position) :
                        View(store'.datoms, basis) = View(store.datoms, basis)
<1>1. IInv /\ [Next]_vars => Stable
  <2> SUFFICES ASSUME IInv, [Next]_vars, NEW basis \in Bases(store.position)
               PROVE  View(store'.datoms, basis) = View(store.datoms, basis)
    OBVIOUS
  <2>1. CASE store' = store
    BY <2>1
  <2>2. CASE Commit
    <3>1. /\ basis.recordedPosition \in 0..store.position
          /\ basis.recordedAt \in Instants \cup {None}
      BY DEF Bases
    <3>2. QED
      BY <2>2, <3>1, CommitKeepsVisible DEF View
  <2>3. QED
    BY <2>1, <2>2, OnlyCommitWrites
<1>2. QED
  BY <1>1, Invariance, PTL DEF Spec, SnapshotStable

-----------------------------------------------------------------------------
(* The feed: no running transaction has retracted a journal record. *)

Selects(op, datom, i) ==
    \/ op.op = "retract" /\ op.id = i
    \/ /\ op.op = "retract-pattern" /\ matchesPattern(datom, op)
       /\ op.entityType \in {None, datom.entityType}

\* A system request leaves the journal alone; a user's is checked on the way.
SparesJournal(req) ==
    req.system => \A k \in DOMAIN req.ops, i \in JournalIds(store.datoms) :
                      ~ Selects(req.ops[k], store.datoms[i], i)

JournalKept ==
    tx # NoTx => /\ SparesJournal(tx.req)
                 /\ \A i \in JournalIds(store.datoms) : buffer.datoms[i] = store.datoms[i]

\* A journal fact is a reserved one.
LEMMA JournalReserved ==
    ASSUME NEW d, NEW i \in JournalIds(d)
    PROVE  /\ i \in TripleIds /\ d[i] # NoDatom /\ Live(d[i])
           /\ d[i].entityType = TransactionType /\ reservedWriteError(d[i])
BY NamespaceAssumption DEF JournalIds, LiveIds, Ids, reservedWriteError

LEMMA BeginKeepsJournal ==
    ASSUME IInv, NEW c, NEW req, NEW now, Begin(c, req, now), SparesJournal(req)
    PROVE  JournalKept'
<1>1. /\ tx'.req = req /\ store' = store
      /\ buffer' = [store EXCEPT
                    !.position = store.position + 1,
                    !.receipts = [k \in CommandIds |->
                        IF k = req.command THEN store.position + 1 ELSE store.receipts[k]]]
  BY DEF Begin
<1>2. buffer'.datoms = store.datoms
  BY <1>1 DEF IInv, TypeOK, Stores
<1>3. QED
  BY <1>1, <1>2 DEF JournalKept, SparesJournal

LEMMA ProceedKeepsJournal ==
    ASSUME IInv, JournalKept, tx # NoTx, NEW datoms, NEW changes, Proceed(datoms, changes),
           \A i \in JournalIds(store.datoms) : datoms[i] = buffer.datoms[i]
    PROVE  JournalKept'
<1>1. store' = store /\ tx' = [tx EXCEPT !.done = tx.done + 1, !.changes = tx.changes \cup changes]
      /\ buffer' = [buffer EXCEPT !.datoms = datoms]
  BY DEF Proceed
<1>2. buffer'.datoms = datoms
  BY <1>1 DEF IInv, TypeOK, Stores
<1>3. tx'.req = tx.req
  BY <1>1, TransactionParts DEF IInv, Transactions
<1>4. QED
  BY <1>1, <1>2, <1>3 DEF JournalKept, SparesJournal

LEMMA ApplyKeepsJournal ==
    ASSUME IInv, JournalKept, ApplyAssert \/ ApplyRetract \/ ApplyRetractPattern
    PROVE  JournalKept'
<1> DEFINE J == JournalIds(store.datoms)
<1>1. tx # NoTx
  BY DEF ApplyAssert, ApplyRetract, ApplyRetractPattern, Running
<1>2. \A i \in J : /\ i \in TripleIds /\ buffer.datoms[i] = store.datoms[i]
                   /\ buffer.datoms[i] # NoDatom /\ Live(buffer.datoms[i])
                   /\ reservedWriteError(buffer.datoms[i])
  BY <1>1, JournalReserved DEF JournalKept
<1>3. J \subseteq LiveIds(buffer.datoms) /\ J \subseteq Ids(buffer.datoms)
  BY <1>2 DEF LiveIds, Ids
<1>4. tx.req.system => \A i \in J : ~ Selects(Op, store.datoms[i], i)
                       \/ ~ (\E kind : Running(kind))
  <2>1. (\E kind : Running(kind)) => tx.done + 1 \in DOMAIN tx.req.ops
    <3>1. \A kind : Running(kind) => tx.done + 1 \in 1..Len(tx.req.ops)
      BY OpShape DEF IInv
    <3>2. tx.req.ops \in Seq(AssertOps \cup RetractOps \cup PatternOps)
      BY <1>1, TransactionParts DEF IInv, Request
    <3>3. QED
      BY <3>1, <3>2
  <2>2. QED
    BY <1>1, <2>1 DEF JournalKept, SparesJournal, Op
<1>5. CASE ApplyAssert
  <2> DEFINE f == FreshId(buffer.datoms)
             n == tripleInputToDatom(Op, tx.instant, buffer.position)
  <2>1. f \in TripleIds /\ buffer.datoms[f] = NoDatom
    BY <1>5 DEF ApplyAssert, FreshId
  <2>2. Proceed([buffer.datoms EXCEPT ![f] = n], {<<"assert", f>>})
    BY <1>5 DEF ApplyAssert
  <2>3. buffer.datoms \in DatomMaps
    BY <1>1, BufferParts
  <2> HIDE DEF f, n
  <2>4. \A i \in J : [buffer.datoms EXCEPT ![f] = n][i] = buffer.datoms[i]
    BY <1>2, <2>1, <2>3 DEF DatomMaps
  <2>5. QED
    BY <1>1, <2>2, <2>4, ProceedKeepsJournal
<1>6. ASSUME NEW ids, NEW changes, Proceed(Retracted(ids), changes), ids \cap J = {}
      PROVE  JournalKept'
  <2>1. \A i \in J : Retracted(ids)[i] = buffer.datoms[i]
    BY <1>2, <1>6 DEF Retracted
  <2>2. QED
    BY <1>1, <1>6, <2>1, ProceedKeepsJournal
<1>7. CASE ApplyRetract
  <2>1. Running("retract") /\ Op.op = "retract"
    BY <1>7 DEF ApplyRetract, Running
  <2>2. Op.id \notin J
    <3>1. CASE tx.req.system
      BY <1>4, <2>1, <3>1 DEF Selects
    <3>2. CASE ~ tx.req.system
      <4>1. RetractFailure = None
        BY <1>7 DEF ApplyRetract
      <4>2. ~ (Op.id \in Ids(buffer.datoms) /\ reservedWriteError(buffer.datoms[Op.id]))
        BY <3>2, <4>1 DEF RetractFailure, Tags
      <4>3. QED
        BY <1>2, <1>3, <4>2
    <3>3. QED
      BY <3>1, <3>2
  <2>3. Proceed(Retracted({Op.id} \cap LiveIds(buffer.datoms)),
                {"retract"} \X ({Op.id} \cap LiveIds(buffer.datoms)))
    BY <1>7 DEF ApplyRetract
  <2>4. QED
    BY <1>6, <2>2, <2>3
<1>8. CASE ApplyRetractPattern
  <2>1. Running("retract-pattern") /\ Op.op = "retract-pattern"
    BY <1>8 DEF ApplyRetractPattern, Running
  <2>2. PatternIds \cap J = {}
    <3>1. CASE tx.req.system
      <4>1. \A i \in PatternIds : matchesPattern(buffer.datoms[i], Op)
                                  /\ Op.entityType \in {None, buffer.datoms[i].entityType}
        BY DEF PatternIds, ScanIds
      <4>2. QED
        BY <1>2, <1>4, <2>1, <3>1, <4>1 DEF Selects
    <3>2. CASE ~ tx.req.system
      BY <1>2, <1>8, <3>2 DEF ApplyRetractPattern, PatternReserved
    <3>3. QED
      BY <3>1, <3>2
  <2>3. QED
    BY <1>6, <1>8, <2>2 DEF ApplyRetractPattern
<1>9. QED
  BY <1>5, <1>7, <1>8

LEMMA StepKeepsJournal ==
    ASSUME IInv, JournalKept, Step
    PROVE  JournalKept'
<1>1. CASE ApplyAssert \/ ApplyRetract \/ ApplyRetractPattern
  BY <1>1, ApplyKeepsJournal
<1>2. CASE RefuseRetract \/ RefuseRetractPattern \/ Interrupt \/ Commit
  BY <1>2 DEF RefuseRetract, RefuseRetractPattern, Interrupt, Abort, Commit, JournalKept
<1>3. QED
  BY <1>1, <1>2 DEF Step

\* The journal after a commit: the old records, and the transaction's own.
LEMMA CommitExtendsJournal ==
    ASSUME IInv, JournalKept, Commit
    PROVE  /\ JournalIds(store.datoms) \subseteq JournalIds(store'.datoms)
           /\ \A i \in JournalIds(store.datoms) : store'.datoms[i].value = store.datoms[i].value
           /\ \A i \in JournalIds(store'.datoms) \ JournalIds(store.datoms) :
                 store'.datoms[i].value.value.position = store.position + 1
<1> DEFINE old == store.datoms
           new == store'.datoms
           p == buffer.position
<1>1. /\ tx # NoTx /\ p = store.position + 1 /\ tx.instant \in Instants
      /\ \A i \in Ids(old) : i \in Ids(new) /\ OldFact(old[i], new[i], tx.instant, p)
      /\ \A i \in Ids(new) \ Ids(old) :
          new[i].entityType = TransactionType => OwnRecord(new[i], tx, p)
  BY CommitShape, BufferParts, TransactionParts DEF Shape, IInv
<1>2. \A i \in JournalIds(old) : new[i] = old[i]
  <2>1. TAKE i \in JournalIds(old)
  <2>2. buffer.datoms[i] = old[i] /\ i \in TripleIds /\ old[i] # NoDatom
    BY <1>1, JournalReserved DEF JournalKept
  <2>3. QED
    BY <2>2, CommitFacts DEF Ids
<1> HIDE DEF old, new, p
<1>3. JournalIds(old) \subseteq JournalIds(new)
  BY <1>1, <1>2 DEF JournalIds, LiveIds
<1>4. ASSUME NEW i \in JournalIds(new), i \notin JournalIds(old)
      PROVE  new[i].value.value.position = p
  <2>1. i \in Ids(new) /\ Live(new[i]) /\ new[i].entityType = TransactionType
    BY DEF JournalIds, LiveIds
  <2>2. i \notin Ids(old)
    BY <1>1, <1>4, <2>1 DEF OldFact, Live, JournalIds, LiveIds
  <2>3. QED
    BY <1>1, <2>1, <2>2 DEF OwnRecord
<1>5. QED
  BY <1>1, <1>2, <1>3, <1>4 DEF old, new, p

\* A request of the environment leaves the journal alone.
LEMMA RequestsSpareJournal ==
    ASSUME IInv, NEW req \in Requests
    PROVE  SparesJournal(req)
<1> SUFFICES ASSUME req.system, NEW k \in DOMAIN req.ops, NEW i \in JournalIds(store.datoms)
             PROVE  ~ Selects(req.ops[k], store.datoms[i], i)
  BY DEF SparesJournal
<1>1. i \in RecordIds(store.datoms) /\ i \in Ids(store.datoms)
  BY DEF RecordIds, JournalIds, LiveIds
<1>2. store.datoms[i].entity = store.datoms[i].recordedPosition
  BY <1>1 DEF IInv, StoreSound, JournalTrue, RecordTrue
<1>3. store.datoms[i].entity \in Positions
  BY <1>1, <1>2, StoreParts, DatomParts DEF IInv, TypeOK
<1>4. \/ req.ops[k].op = "assert"
      \/ req.ops[k].op = "retract-pattern" /\ req.ops[k].entity \in ReservedEntityIds
  BY SystemAssumption
<1>5. req.ops[k].entity \in ReservedEntityIds =>
         req.ops[k].entity \notin {None, store.datoms[i].entity}
  BY <1>3, SentinelAssumption, NamespaceAssumption
<1>6. QED
  BY <1>4, <1>5 DEF Selects, matchesPattern

\* The transaction feed is append-only: no user, whatever it retracts by id or
\* by pattern, makes a committed record disappear or change, and a new record
\* comes after every position committed before it.
THEOREM FeedIsAppendOnly == Spec => FeedAppendOnly
<1> DEFINE A == LET old == TransactionRecords(store.datoms)
                    new == TransactionRecords(store'.datoms)
                IN  old \subseteq new /\ \A r \in new \ old : r.position > store.position
<1>1. Init => JournalKept
  BY DEF Init, JournalKept
<1>2. IInv /\ JournalKept /\ [Next]_vars => JournalKept'
  <2> SUFFICES ASSUME IInv, JournalKept, [Next]_vars PROVE JournalKept'
    OBVIOUS
  <2>1. ASSUME NEW c, NEW req \in Requests, NEW now, Begin(c, req, now) PROVE JournalKept'
    BY <2>1, RequestsSpareJournal, BeginKeepsJournal
  <2>2. ASSUME NEW c, NEW req, NEW now, Refuse(c, req, now) PROVE JournalKept'
    BY <2>2 DEF Refuse, JournalKept
  <2>3. CASE UNCHANGED vars
    BY <2>3 DEF vars, JournalKept, SparesJournal
  <2>4. QED
    BY <2>1, <2>2, <2>3, StepKeepsJournal DEF Next
<1>3. IInv /\ JournalKept /\ [Next]_vars => A
  <2> SUFFICES ASSUME IInv, JournalKept, [Next]_vars PROVE A
    OBVIOUS
  <2>1. CASE store' = store
    BY <2>1
  <2>2. CASE Commit
    BY <2>2, CommitExtendsJournal, StoreParts DEF TransactionRecords, IInv, TypeOK
  <2>3. QED
    BY <2>1, <2>2, OnlyCommitWrites
<1>4. QED
  BY <1>1, <1>2, <1>3, Invariance, PTL DEF Spec, FeedAppendOnly

-----------------------------------------------------------------------------
(***************************************************************************)
(* What the operations done so far have achieved, for the services that    *)
(* build a request and rely on what its commit leaves behind.              *)
(***************************************************************************)
DoneOps == {tx.req.ops[k] : k \in 1..tx.done}

AssertedBy(op, datom) ==
    /\ op.op = "assert"
    /\ datom.entity = op.entity /\ datom.attribute = op.attribute
    /\ datom.value = op.value /\ datom.entityType = op.entityType

Progress ==
    tx # NoTx =>
        /\ \A op \in DoneOps : op.op = "retract" /\ op.id \in Ids(store.datoms) =>
              op.id \notin LiveIds(buffer.datoms)
        /\ \A i \in Ids(buffer.datoms) \ Ids(store.datoms) :
              \E op \in DoneOps : AssertedBy(op, buffer.datoms[i])
        /\ \A i \in LiveIds(store.datoms) \ LiveIds(buffer.datoms) :
              \E op \in DoneOps : Selects(op, store.datoms[i], i)

LEMMA BeginProgress ==
    ASSUME IInv, NEW c, NEW req, NEW now, Begin(c, req, now)
    PROVE  Progress'
<1>1. /\ tx' = [client |-> c, req |-> req, instant |-> now, done |-> 0, changes |-> {}]
      /\ store' = store
      /\ buffer' = [store EXCEPT
                    !.position = store.position + 1,
                    !.receipts = [k \in CommandIds |->
                        IF k = req.command THEN store.position + 1 ELSE store.receipts[k]]]
  BY DEF Begin
<1>2. buffer'.datoms = store.datoms
  BY <1>1 DEF IInv, TypeOK, Stores
<1>3. 1..tx'.done = {}
  BY <1>1
<1>4. DoneOps' = {}
  BY <1>3 DEF DoneOps
<1>5. QED
  BY <1>1, <1>2, <1>4 DEF Progress

\* One more operation done.
LEMMA ProceedDone ==
    ASSUME IInv, NEW kind, Running(kind), NEW datoms, NEW changes, Proceed(datoms, changes)
    PROVE  /\ tx # NoTx
           /\ store' = store /\ buffer'.datoms = datoms /\ tx'.req = tx.req
           /\ tx'.client = tx.client /\ tx'.done = tx.done + 1 /\ tx'.instant = tx.instant
           /\ DoneOps' = DoneOps \cup {Op}
           /\ buffer'.position = buffer.position /\ buffer'.receipts = buffer.receipts
<1>1. /\ store' = store /\ buffer' = [buffer EXCEPT !.datoms = datoms]
      /\ tx' = [tx EXCEPT !.done = tx.done + 1, !.changes = tx.changes \cup changes]
  BY DEF Proceed
<1>2. buffer'.datoms = datoms /\ buffer'.position = buffer.position
      /\ buffer'.receipts = buffer.receipts
  BY <1>1 DEF IInv, TypeOK, Stores
<1>3. tx \in Transactions /\ tx # NoTx
  BY DEF Running, IInv, TypeOK
<1>4. /\ tx'.req = tx.req /\ tx'.done = tx.done + 1 /\ tx'.client = tx.client
      /\ tx'.instant = tx.instant
      /\ tx' = [client |-> tx.client, req |-> tx.req, instant |-> tx.instant,
                done |-> tx.done + 1, changes |-> tx.changes \cup changes]
  BY <1>1, <1>3 DEF Transactions
<1>6. tx.done \in Nat
  BY <1>3, TransactionParts DEF IInv
<1>7. 1..(tx.done + 1) = 1..tx.done \cup {tx.done + 1}
  BY <1>6
<1>8. DoneOps' = DoneOps \cup {Op}
  BY <1>4, <1>7 DEF DoneOps, Op
<1>9. QED
  BY <1>1, <1>2, <1>3, <1>4, <1>8

\* An assertion adds one fact, with the fields of its operation.
LEMMA AssertAdds ==
    ASSUME IInv, ApplyAssert
    PROVE  /\ tx # NoTx /\ store' = store /\ DoneOps' = DoneOps \cup {Op}
           /\ tx'.req = tx.req /\ tx'.client = tx.client /\ tx'.done = tx.done + 1
           /\ \E f \in TripleIds :
                 /\ f \notin Ids(buffer.datoms) /\ f \notin Ids(store.datoms)
                 /\ Ids(buffer'.datoms) = Ids(buffer.datoms) \cup {f}
                 /\ \A i \in Ids(buffer.datoms) : buffer'.datoms[i] = buffer.datoms[i]
                 /\ AssertedBy(Op, buffer'.datoms[f]) /\ Live(buffer'.datoms[f])
<1> DEFINE f == FreshId(buffer.datoms)
           n == tripleInputToDatom(Op, tx.instant, buffer.position)
           D == [buffer.datoms EXCEPT ![f] = n]
<1>1. Running("assert") /\ Proceed(D, {<<"assert", f>>})
  BY DEF ApplyAssert
<1>2. f \in TripleIds /\ buffer.datoms[f] = NoDatom
  BY DEF ApplyAssert, FreshId
<1> HIDE DEF D
<1>3. /\ tx # NoTx /\ store' = store /\ buffer'.datoms = D /\ DoneOps' = DoneOps \cup {Op}
      /\ tx'.req = tx.req /\ tx'.client = tx.client /\ tx'.done = tx.done + 1
  BY <1>1, ProceedDone
<1>4. buffer.datoms \in DatomMaps /\ buffer.position \in Positions
  BY <1>3, BufferParts
<1>5. AssertedBy(Op, n) /\ Live(n) /\ n # NoDatom
  <2>1. AssertedBy(Op, n) /\ Live(n)
    BY <1>1 DEF Running, AssertedBy, tripleInputToDatom, Live
  <2>2. n \in Datoms
    BY <1>1, <1>4, AssertedDatom DEF IInv
  <2>3. QED
    BY <2>1, <2>2, DatomParts
<1>6. f \notin Ids(store.datoms)
  BY <1>2, <1>3, BufferKeepsIds DEF Ids
<1> HIDE DEF f, n
<1>7. D[f] = n /\ \A i \in TripleIds \ {f} : D[i] = buffer.datoms[i]
  BY <1>2, <1>4 DEF D, DatomMaps
<1>8. f \notin Ids(buffer.datoms) /\ Ids(D) = Ids(buffer.datoms) \cup {f}
  BY <1>2, <1>5, <1>7 DEF Ids
<1>9. \A i \in Ids(buffer.datoms) : D[i] = buffer.datoms[i]
  BY <1>7, <1>8 DEF Ids
<1>10. QED
  BY <1>2, <1>3, <1>5, <1>6, <1>7, <1>8, <1>9

LEMMA AssertProgress ==
    ASSUME IInv, Progress, ApplyAssert
    PROVE  Progress'
<1> DEFINE D == buffer'.datoms
<1>1. /\ tx # NoTx /\ store' = store /\ DoneOps' = DoneOps \cup {Op} /\ Op.op = "assert"
  BY AssertAdds DEF ApplyAssert, Running
<1>2. PICK f \in TripleIds :
         /\ f \notin Ids(buffer.datoms) /\ f \notin Ids(store.datoms)
         /\ Ids(D) = Ids(buffer.datoms) \cup {f}
         /\ \A i \in Ids(buffer.datoms) : D[i] = buffer.datoms[i]
         /\ AssertedBy(Op, D[f]) /\ Live(D[f])
  BY AssertAdds
<1> HIDE DEF D
<1>3. LiveIds(D) = LiveIds(buffer.datoms) \cup {f}
  BY <1>2 DEF LiveIds
<1>4. \A op \in DoneOps' : op.op = "retract" /\ op.id \in Ids(store.datoms) => op.id \notin LiveIds(D)
  BY <1>1, <1>2, <1>3 DEF Progress
<1>5. \A i \in Ids(D) \ Ids(store.datoms) : \E op \in DoneOps' : AssertedBy(op, D[i])
  <2>1. TAKE i \in Ids(D) \ Ids(store.datoms)
  <2>2. CASE i = f
    BY <1>1, <1>2, <2>2
  <2>3. CASE i # f
    BY <1>1, <1>2, <2>3 DEF Progress
  <2>4. QED
    BY <2>2, <2>3
<1>6. \A i \in LiveIds(store.datoms) \ LiveIds(D) : \E op \in DoneOps' : Selects(op, store.datoms[i], i)
  BY <1>1, <1>3 DEF Progress
<1>7. QED
  BY <1>1, <1>4, <1>5, <1>6 DEF Progress, D

\* A retraction marks the selected facts and changes nothing else.
LEMMA RetractMarks ==
    ASSUME IInv, NEW kind, Running(kind), NEW ids \in SUBSET LiveIds(buffer.datoms),
           Proceed(Retracted(ids), {"retract"} \X ids)
    PROVE  /\ tx # NoTx /\ store' = store /\ DoneOps' = DoneOps \cup {Op}
           /\ tx'.req = tx.req /\ tx'.client = tx.client /\ tx'.done = tx.done + 1
           /\ Ids(buffer'.datoms) = Ids(buffer.datoms)
           /\ LiveIds(buffer'.datoms) = LiveIds(buffer.datoms) \ ids
           /\ \A i \in TripleIds \ ids : buffer'.datoms[i] = buffer.datoms[i]
           /\ \A i \in ids : /\ i \in TripleIds /\ ~ Live(buffer'.datoms[i])
                             /\ buffer'.datoms[i].entity = buffer.datoms[i].entity
                             /\ buffer'.datoms[i].attribute = buffer.datoms[i].attribute
                             /\ buffer'.datoms[i].value = buffer.datoms[i].value
                             /\ buffer'.datoms[i].entityType = buffer.datoms[i].entityType
<1> DEFINE D == Retracted(ids)
<1>1. /\ tx # NoTx /\ store' = store /\ buffer'.datoms = D /\ DoneOps' = DoneOps \cup {Op}
      /\ tx'.req = tx.req /\ tx'.client = tx.client /\ tx'.done = tx.done + 1
  BY ProceedDone
<1>2. /\ buffer.datoms \in DatomMaps /\ tx.instant \in Instants /\ buffer.position \in Positions
      /\ \A i \in Ids(buffer.datoms) : buffer.datoms[i] \in Datoms
  BY <1>1, BufferParts, TransactionParts, StoreParts DEF IInv, TypeOK
<1>3. \A i \in TripleIds \ ids : D[i] = buffer.datoms[i]
  BY DEF Retracted
<1>4. \A i \in ids : /\ i \in TripleIds /\ i \in Ids(buffer.datoms) /\ D[i] \in Datoms /\ ~ Live(D[i])
                     /\ D[i].entity = buffer.datoms[i].entity
                     /\ D[i].attribute = buffer.datoms[i].attribute
                     /\ D[i].value = buffer.datoms[i].value
                     /\ D[i].entityType = buffer.datoms[i].entityType
  <2>1. TAKE i \in ids
  <2>2. i \in TripleIds /\ i \in Ids(buffer.datoms) /\ buffer.datoms[i] \in Datoms
    BY <1>2 DEF LiveIds, Ids
  <2>3. D[i] = RetractedDatom(buffer.datoms[i], tx.instant, buffer.position)
    BY <2>2 DEF Retracted
  <2> DEFINE d == buffer.datoms[i]
             at == tx.instant
             p == buffer.position
             r == RetractedDatom(d, at, p)
  <2>4. /\ r \in Datoms /\ r.retractedAt = at
        /\ r.entity = d.entity /\ r.attribute = d.attribute
        /\ r.value = d.value /\ r.entityType = d.entityType
    <3>1. d \in Datoms /\ at \in Instants /\ p \in Positions
      BY <1>2, <2>2
    <3> HIDE DEF d, at, p
    <3>2. QED
      BY <3>1, RetractionKeepsDatom
  <2> HIDE DEF D, r
  <2>5. ~ Live(r)
    BY <1>2, <2>4 DEF Live
  <2>6. D[i] = r
    BY <2>3 DEF r
  <2>7. QED
    BY <2>2, <2>4, <2>5, <2>6
<1> HIDE DEF D
<1>5. Ids(D) = Ids(buffer.datoms)
  BY <1>3, <1>4, DatomParts DEF Ids
<1>6. LiveIds(D) = LiveIds(buffer.datoms) \ ids
  BY <1>3, <1>4, <1>5 DEF LiveIds, Ids
<1>7. QED
  BY <1>1, <1>3, <1>4, <1>5, <1>6

LEMMA RetractProgress ==
    ASSUME IInv, Progress, NEW kind, Running(kind), kind \in {"retract", "retract-pattern"},
           NEW ids \in SUBSET LiveIds(buffer.datoms), Proceed(Retracted(ids), {"retract"} \X ids),
           \A i \in ids \cap Ids(store.datoms) : Selects(Op, store.datoms[i], i),
           kind = "retract" => LiveIds(buffer.datoms) \cap {Op.id} \subseteq ids
    PROVE  Progress'
<1> DEFINE D == buffer'.datoms
<1>1. /\ tx # NoTx /\ store' = store /\ DoneOps' = DoneOps \cup {Op}
      /\ Ids(D) = Ids(buffer.datoms) /\ LiveIds(D) = LiveIds(buffer.datoms) \ ids
      /\ \A i \in TripleIds \ ids : D[i] = buffer.datoms[i]
      /\ \A i \in ids : /\ D[i].entity = buffer.datoms[i].entity
                        /\ D[i].attribute = buffer.datoms[i].attribute
                        /\ D[i].value = buffer.datoms[i].value
                        /\ D[i].entityType = buffer.datoms[i].entityType
  BY RetractMarks
<1> HIDE DEF D
<1>7. \A op \in DoneOps' : op.op = "retract" /\ op.id \in Ids(store.datoms) => op.id \notin LiveIds(D)
  <2>1. \A op \in DoneOps : op.op = "retract" /\ op.id \in Ids(store.datoms) => op.id \notin LiveIds(D)
    BY <1>1 DEF Progress
  <2>2. Op.op = "retract" => Op.id \notin LiveIds(D)
    BY <1>1 DEF Running
  <2>3. QED
    BY <1>1, <2>1, <2>2
<1>8. \A i \in Ids(D) \ Ids(store.datoms) : \E op \in DoneOps' : AssertedBy(op, D[i])
  <2>1. TAKE i \in Ids(D) \ Ids(store.datoms)
  <2>2. PICK op \in DoneOps : AssertedBy(op, buffer.datoms[i])
    BY <1>1 DEF Progress
  <2>3. i \in TripleIds
    BY DEF Ids
  <2>4. AssertedBy(op, D[i])
    BY <1>1, <2>2, <2>3 DEF AssertedBy
  <2>5. QED
    BY <1>1, <2>4
<1>9. \A i \in LiveIds(store.datoms) \ LiveIds(D) : \E op \in DoneOps' : Selects(op, store.datoms[i], i)
  <2>1. TAKE i \in LiveIds(store.datoms) \ LiveIds(D)
  <2>2. CASE i \in LiveIds(buffer.datoms)
    <3>1. i \in ids /\ i \in Ids(store.datoms)
      BY <1>1, <2>2 DEF LiveIds
    <3>2. QED
      BY <1>1, <3>1
  <2>3. CASE i \notin LiveIds(buffer.datoms)
    BY <1>1, <2>3 DEF Progress
  <2>4. QED
    BY <2>2, <2>3
<1>10. QED
  BY <1>1, <1>7, <1>8, <1>9 DEF Progress, D

LEMMA StepProgress ==
    ASSUME IInv, Progress, Step
    PROVE  Progress'
<1>1. CASE ApplyAssert
  BY <1>1, AssertProgress
<1>2. CASE ApplyRetract
  <2> DEFINE ids == {Op.id} \cap LiveIds(buffer.datoms)
  <2>1. Running("retract") /\ Op.op = "retract" /\ Proceed(Retracted(ids), {"retract"} \X ids)
    BY <1>2 DEF ApplyRetract, Running
  <2>2. \A i \in ids \cap Ids(store.datoms) : Selects(Op, store.datoms[i], i)
    BY <2>1 DEF Selects
  <2>3. QED
    BY <2>1, <2>2, RetractProgress
<1>3. CASE ApplyRetractPattern
  <2>1. /\ Running("retract-pattern") /\ Op.op = "retract-pattern" /\ tx # NoTx
        /\ Proceed(Retracted(PatternIds), {"retract"} \X PatternIds)
    BY <1>3 DEF ApplyRetractPattern, Running
  <2>2. \A i \in PatternIds \cap Ids(store.datoms) : Selects(Op, store.datoms[i], i)
    <3>1. TAKE i \in PatternIds \cap Ids(store.datoms)
    <3>2. /\ matchesPattern(buffer.datoms[i], Op) /\ i \in TripleIds /\ buffer.datoms[i] # NoDatom
          /\ Op.entityType \in {None, buffer.datoms[i].entityType} /\ store.datoms[i] # NoDatom
      BY DEF PatternIds, ScanIds, LiveIds, Ids
    <3>3. OldFact(store.datoms[i], buffer.datoms[i], tx.instant, buffer.position)
      BY <2>1, <3>2, BufferShape
    <3>4. matchesPattern(store.datoms[i], Op)
      BY <3>2, <3>3 DEF OldFact, matchesPattern
    <3>5. QED
      BY <2>1, <3>2, <3>3, <3>4 DEF Selects, OldFact
  <2>3. PatternIds \in SUBSET LiveIds(buffer.datoms)
    BY DEF PatternIds, ScanIds
  <2>4. QED
    BY <2>1, <2>2, <2>3, RetractProgress
<1>4. CASE RefuseRetract \/ RefuseRetractPattern \/ Interrupt \/ Commit
  BY <1>4 DEF RefuseRetract, RefuseRetractPattern, Interrupt, Abort, Commit, Progress
<1>5. QED
  BY <1>1, <1>2, <1>3, <1>4 DEF Step

\* Every operation of a committing transaction is done.
LEMMA AllDone ==
    ASSUME IInv, Commit
    PROVE  DoneOps = {tx.req.ops[k] : k \in DOMAIN tx.req.ops}
<1>1. tx # NoTx /\ tx.done = Len(tx.req.ops)
  BY DEF Commit
<1>2. tx.req.ops \in Seq(AssertOps \cup RetractOps \cup PatternOps)
  BY <1>1, TransactionParts DEF IInv, Request
<1>3. DOMAIN tx.req.ops = 1..tx.done
  BY <1>1, <1>2
<1>4. QED
  BY <1>3 DEF DoneOps

-----------------------------------------------------------------------------
(* The refinement of the abstract list of versions. *)

\* The versions as the abstract specification counts them.
VersionsOf == [p \in 1..(store.position + 1) |-> FactsAt(p - 1)]

\* A function on 1..n is a sequence of length n.
LEMMA LengthOf ==
    ASSUME NEW n \in Nat, NEW f, DOMAIN f = 1..n, f = [i \in 1..n |-> f[i]]
    PROVE  Len(f) = n
<1>1. f \in [1..n -> {f[i] : i \in 1..n}]
  OBVIOUS
<1>2. f \in Seq({f[i] : i \in 1..n})
  BY <1>1, SeqDef
<1>3. Len(f) \in Nat /\ DOMAIN f = 1..Len(f)
  BY <1>2, LenProperties
<1>4. QED
  BY <1>3

LEMMA VersionsInit == Init => VersionList!Init
<1> SUFFICES ASSUME Init PROVE VersionList!Init
  OBVIOUS
<1>1. store.position = 0 /\ Ids(store.datoms) = {} /\ store.receipts = [c \in CommandIds |-> None]
  BY DEF Init, NoStore, Ids
<1>2. \A p : FactsAt(p) = {}
  BY <1>1 DEF FactsAt
<1>3. VersionsOf = <<{}>>
  BY <1>1, <1>2 DEF VersionsOf
<1>4. QED
  BY <1>1, <1>3 DEF VersionList!Init, VersionsOf, Init


\* The facts of a version already committed are the same after a commit.
LEMMA CommitKeepsVersions ==
    ASSUME IInv, Commit, NEW q \in 0..store.position
    PROVE  FactsAt(q)' = FactsAt(q)
<1> DEFINE old == store.datoms
           new == store'.datoms
           p == buffer.position
           at == tx.instant
           cut == [recordedPosition |-> q, recordedAt |-> None]
<1>1. /\ tx # NoTx
      /\ \A i \in Ids(old) : i \in Ids(new) /\ OldFact(old[i], new[i], at, p)
      /\ \A i \in Ids(new) \ Ids(old) : NewFact(new[i], at, p)
  BY CommitShape DEF Shape
<1>2. p = store.position + 1 /\ store.position \in Nat /\ p \in Positions
  BY <1>1, BufferParts, StoreParts DEF IInv, TypeOK
<1>3. q \in Nat /\ q <= store.position /\ q # None
  <2>1. store.position \in 0..MaxPosition
    BY StoreParts DEF IInv, TypeOK
  <2>2. QED
    BY <2>1, SentinelAssumption
<1> HIDE DEF old, new, p, at
<1>4. \A i \in Ids(old) : RecordedVisible(new[i], cut) <=> RecordedVisible(old[i], cut)
  BY <1>1, <1>2, <1>3 DEF OldFact, RecordedVisible
<1>5. \A i \in Ids(new) \ Ids(old) : ~ RecordedVisible(new[i], cut)
  BY <1>1, <1>2, <1>3 DEF NewFact, RecordedVisible
<1> DEFINE was == {j \in Ids(old) : RecordedVisible(old[j], cut)}
           is == {j \in Ids(new) : RecordedVisible(new[j], cut)}
<1>6. is = was
  BY <1>1, <1>4, <1>5
<1>7. \A i \in was : /\ new[i].entity = old[i].entity /\ new[i].attribute = old[i].attribute
                     /\ new[i].value = old[i].value
  BY <1>1 DEF OldFact
<1> HIDE DEF was, is
<1>8. {[ id |-> i, entity |-> new[i].entity, value |-> new[i].value,
         attribute |-> new[i].attribute ] : i \in is}
        = {[ id |-> i, entity |-> old[i].entity, value |-> old[i].value,
         attribute |-> old[i].attribute ] : i \in was}
  BY <1>6, <1>7
<1>9. QED
  BY <1>8 DEF FactsAt, old, new, was, is

\* A commit appends one version, consumes its command and answers its caller.
LEMMA CommitAppends ==
    ASSUME IInv, Commit
    PROVE  \E c \in Clients : VersionList!Commit(c)
<1>1. /\ tx # NoTx /\ store'.position = buffer.position /\ store'.receipts = buffer.receipts
  BY CommitShape
<1>2. /\ tx.client \in Clients /\ tx.req.command \in CommandIds \cup {None}
      /\ buffer.position = store.position + 1 /\ store.position \in Nat
      /\ store.receipts \in [CommandIds -> Positions \cup {None}]
  BY <1>1, BufferParts, StoreParts, TransactionParts DEF IInv, TypeOK
<1>3. Len(VersionsOf) = store.position + 1 /\ Len(VersionsOf') = store.position + 2
  <2>1. Len(VersionsOf) = store.position + 1
    BY <1>2, LengthOf DEF VersionsOf
  <2>2. store'.position + 1 \in Nat /\ store'.position + 1 = store.position + 2
    BY <1>1, <1>2
  <2>3. Len(VersionsOf') = store'.position + 1
    BY <2>2, LengthOf DEF VersionsOf
  <2>4. QED
    BY <2>1, <2>2, <2>3
<1>4. VersionList!Appended
  <2>1. ASSUME NEW p \in 1..(store.position + 1)
        PROVE  VersionsOf'[p] = VersionsOf[p]
    <3>1. p - 1 \in 0..store.position /\ p \in 1..(store'.position + 1)
      BY <1>1, <1>2
    <3>2. FactsAt(p - 1)' = FactsAt(p - 1)
      BY <3>1, CommitKeepsVersions
    <3>3. QED
      BY <3>1, <3>2 DEF VersionsOf
  <2>2. Len(VersionsOf') = Len(VersionsOf) + 1
    BY <1>2, <1>3
  <2>3. \A p \in 1..Len(VersionsOf) : VersionsOf'[p] = VersionsOf[p]
    BY <1>3, <2>1
  <2>4. QED
    BY <2>2, <2>3 DEF VersionList!Appended, VersionsOf
<1>5. UNCHANGED store.receipts \/ \E k \in CommandIds : VersionList!Claimed(k)
  <2> DEFINE k == tx.req.command
  <2>1. /\ k # None => store.receipts[k] = None
        /\ store'.receipts = [j \in CommandIds |->
              IF j = k THEN store.position + 1 ELSE store.receipts[j]]
    BY <1>1, <1>2 DEF IInv, BufferSound
  <2>2. CASE k = None
    <3>1. \A j \in CommandIds : store'.receipts[j] = store.receipts[j]
      BY <2>1, <2>2
    <3>2. store'.receipts = store.receipts
      BY <1>2, <2>1, <3>1
    <3>3. QED
      BY <3>2
  <2>3. CASE k # None
    <3>1. k \in CommandIds /\ store.receipts[k] = None
      BY <1>2, <2>1, <2>3
    <3>2. store'.receipts = [store.receipts EXCEPT ![k] = Len(VersionsOf)]
      BY <1>2, <1>3, <2>1, <3>1
    <3>3. VersionList!Claimed(k)
      BY <3>1, <3>2 DEF VersionList!Claimed, VersionsOf
    <3>4. QED
      BY <3>1, <3>3
  <2>4. QED
    BY <2>2, <2>3
<1>6. \E a \in {"Committed"} \cup (CommitAnswers \ {"Committed"}) : VersionList!Answer(tx.client, a)
  BY DEF Commit, CommitReported, Return, VersionList!Answer
<1>7. QED
  BY <1>2, <1>4, <1>5, <1>6 DEF VersionList!Commit

\* Any other step leaves the versions and the claims; it may answer a caller.
LEMMA OthersStartOrFail ==
    ASSUME IInv, Next, ~ Commit
    PROVE  UNCHANGED <<store, result>> \/ \E c \in Clients : VersionList!StartOrFail(c)
<1>1. store' = store
  BY OnlyCommitWrites
<1>2. ASSUME NEW c \in Clients, NEW a \in (Tags \ {"Committed"}) \cup {None}, Return(c, a)
      PROVE  VersionList!StartOrFail(c)
  <2>1. VersionsOf' = VersionsOf
    BY <1>1 DEF VersionsOf, FactsAt
  <2>2. QED
    BY <1>1, <1>2, <2>1 DEF VersionList!StartOrFail, VersionList!Answer, Return, VersionsOf
<1>3. tx # NoTx => tx.client \in Clients
  BY TransactionParts DEF IInv
<1>4. ASSUME NEW c \in Clients, NEW req \in Requests, NEW now \in Instants,
             Begin(c, req, now) \/ Refuse(c, req, now)
      PROVE  \E a \in (Tags \ {"Committed"}) \cup {None} : Return(c, a)
  <2>1. Refusal(req, now) \in (Tags \ {"Committed"}) \cup {None}
    BY DEF Refusal, Tags
  <2>2. QED
    BY <1>4, <2>1 DEF Begin, Refuse, Return
<1>5. CASE ApplyAssert \/ ApplyRetract \/ ApplyRetractPattern
  BY <1>5 DEF ApplyAssert, ApplyRetract, ApplyRetractPattern, Proceed
<1>6. CASE RefuseRetract
  <2>1. tx # NoTx /\ RetractFailure \in Tags \ {"Committed"} /\ Return(tx.client, RetractFailure)
    BY <1>6 DEF RefuseRetract, Running, RetractFailure, Abort, Tags
  <2>2. QED
    BY <1>2, <1>3, <2>1
<1>7. CASE RefuseRetractPattern
  <2>1. tx # NoTx /\ Return(tx.client, "WriteError") /\ "WriteError" \in Tags \ {"Committed"}
    BY <1>7 DEF RefuseRetractPattern, Running, Abort, Tags
  <2>2. QED
    BY <1>2, <1>3, <2>1
<1>8. CASE Interrupt
  <2>1. tx # NoTx /\ \E a \in Tags \ {"Committed"} : Return(tx.client, a)
    BY <1>8 DEF Interrupt, withTransactionTimeout, Abort, Tags
  <2>2. QED
    BY <1>2, <1>3, <2>1
<1>9. QED
  BY <1>2, <1>4, <1>5, <1>6, <1>7, <1>8 DEF Next, Step

\* The store implements the append-only list of versions: every commit appends
\* one version in the step that answers its caller (or leaves it in doubt),
\* and no refusal, failed operation, timeout or interruption leaves a trace.
THEOREM ImplementsVersionList == Spec => ImplementsVersions
<1>1. IInv /\ [Next]_vars => [VersionList!Next]_(VersionList!vvars)
  <2> SUFFICES ASSUME IInv, [Next]_vars PROVE [VersionList!Next]_(VersionList!vvars)
    OBVIOUS
  <2>1. ASSUME UNCHANGED <<store, result>> PROVE UNCHANGED VersionList!vvars
    <3>1. VersionsOf' = VersionsOf /\ store'.receipts = store.receipts /\ result' = result
      BY <2>1 DEF VersionsOf, FactsAt
    <3>2. QED
      BY <3>1 DEF VersionList!vvars, VersionsOf
  <2>2. CASE UNCHANGED vars
    BY <2>1, <2>2 DEF vars
  <2>3. CASE Next /\ Commit
    BY <2>3, CommitAppends DEF VersionList!Next
  <2>4. CASE Next /\ ~ Commit
    BY <2>1, <2>4, OthersStartOrFail DEF VersionList!Next
  <2>5. QED
    BY <2>2, <2>3, <2>4
<1>2. QED
  BY <1>1, VersionsInit, Invariance, PTL DEF Spec, ImplementsVersions, VersionList!Spec

-----------------------------------------------------------------------------
(***************************************************************************)
(* Enforcement.  transact decides on a projection of its operations over   *)
(* the facts loadRelevantFacts selects, at the boundaries of those facts.  *)
(* The argument goes the same way back: what evaluateFacts finds is what   *)
(* is broken, an instant sees what the boundary below it sees, the         *)
(* selected facts decide as all live facts would, the projected facts are  *)
(* those the buffer holds but for the ids of new ones, and the journal     *)
(* record that the commit adds is about no caller's entity.                *)
(***************************************************************************)
(* What the projection contains. *)

\* A set of numbers has a least one.
LEMMA LeastOf ==
    ASSUME NEW S \in SUBSET Nat, S # {}
    PROVE  \E x \in S : \A y \in S : x <= y
<1> DEFINE T == {0..x : x \in S}
           R == StrictSubsetOrdering(Nat)
<1>1. IsWellFoundedOn(R, FiniteSubsetsOf(Nat))
  BY FS_StrictSubsetOrderingWellFounded
<1>2. T \subseteq FiniteSubsetsOf(Nat) /\ T # {}
  <2>1. \A x \in S : 0..x \subseteq Nat /\ IsFiniteSet(0..x)
    BY FS_Interval
  <2>. QED
    BY <2>1 DEF FiniteSubsetsOf
<1>3. PICK U \in T : \A V \in T : ~ (<<V, U>> \in R)
  BY <1>1, <1>2, WFMin
<1>4. PICK x \in S : U = 0..x
  BY <1>3
<1>5. ASSUME NEW y \in S, y < x PROVE FALSE
  <2>1. x \in 0..x /\ x \notin 0..y /\ 0..y \subseteq 0..x /\ 0..x \subseteq Nat
    BY <1>5
  <2>2. <<0..y, 0..x>> \in R
    BY <2>1 DEF StrictSubsetOrdering
  <2>. QED
    BY <1>3, <1>4, <2>2
<1>. QED
  BY <1>5

LEMMA UpTo ==
    ASSUME NEW n \in Nat, NEW S, 0 \in S, \A i \in 1..n : i - 1 \in S => i \in S
    PROVE  n \in S
<1> DEFINE B == {i \in 0..n : i \notin S}
<1> SUFFICES ASSUME B # {} PROVE FALSE
  OBVIOUS
<1>1. B \in SUBSET Nat
  OBVIOUS
<1>2. PICK m \in B : \A y \in B : m <= y
  <2>. HIDE DEF B
  <2>. QED
    BY <1>1, LeastOf
<1>3. m \in 1..n /\ m - 1 \in 0..n /\ m - 1 \notin B
  BY <1>2
<1>. QED
  BY <1>3

Removes(op, f) ==
    \/ op.op = "retract" /\ f.id = op.id
    \/ op.op = "retract-pattern" /\ patternMatches(f, op)

\* The facts after one operation.
Applied(F, op, k, now) ==
    IF op.op = "assert" THEN F \cup {PendingFact(op, k, now)} ELSE {f \in F : ~Removes(op, f)}

\* The facts after the first n operations.
Survives(f, ops, k, n) == \A i \in k..n : ~Removes(ops[i], f)

Pending(ops, now, n) ==
    {PendingFact(ops[k], k, now) :
        k \in {j \in 1..n : ops[j].op = "assert" /\ Survives(PendingFact(ops[j], j, now), ops, j + 1, n)}}

Projected(F, ops, now, n) == {f \in F : Survives(f, ops, 1, n)} \cup Pending(ops, now, n)

LEMMA ProjectedStart ==
    ASSUME NEW F, NEW ops, NEW now
    PROVE  Projected(F, ops, now, 0) = F
BY DEF Projected, Survives, Pending

LEMMA PendingIn ==
    ASSUME NEW ops, NEW now, NEW n
    PROVE  \A f : f \in Pending(ops, now, n) <=>
              \E k \in 1..n : /\ ops[k].op = "assert" /\ f = PendingFact(ops[k], k, now)
                              /\ Survives(f, ops, k + 1, n)
BY DEF Pending

LEMMA ProjectedNext ==
    ASSUME NEW F, NEW ops, NEW now, NEW n \in Nat, n # 0,
           ops[n].op \in {"assert", "retract", "retract-pattern"}
    PROVE  Projected(F, ops, now, n) = Applied(Projected(F, ops, now, n - 1), ops[n], n, now)
<1>0. ops[n].op = "assert" => \A f : ~Removes(ops[n], f)
  BY DEF Removes
<1>1. ASSUME NEW f, NEW k \in Nat, k <= n
      PROVE  Survives(f, ops, k, n) <=> Survives(f, ops, k, n - 1) /\ ~Removes(ops[n], f)
  <2>1. k..n = (k..(n - 1)) \cup {n}
    BY <1>1
  <2>. QED
    BY <2>1 DEF Survives
<1>2. ASSUME NEW f PROVE Survives(f, ops, n + 1, n)
  BY DEF Survives
<1>3. ASSUME NEW f
      PROVE  f \in Projected(F, ops, now, n) <=> f \in Applied(Projected(F, ops, now, n - 1), ops[n], n, now)
  <2>1. f \in F => (Survives(f, ops, 1, n) <=> Survives(f, ops, 1, n - 1) /\ ~Removes(ops[n], f))
    BY <1>1
  <2>2. f \in Pending(ops, now, n) <=>
          \/ f \in Pending(ops, now, n - 1) /\ ~Removes(ops[n], f)
          \/ ops[n].op = "assert" /\ f = PendingFact(ops[n], n, now)
    <3>1. ASSUME NEW k \in 1..n, k # n
          PROVE  k \in 1..(n - 1) /\ (Survives(f, ops, k + 1, n) <=> Survives(f, ops, k + 1, n - 1) /\ ~Removes(ops[n], f))
      BY <1>1, <3>1
    <3>2. n \in 1..n /\ \A k \in 1..(n - 1) : k \in 1..n /\ k # n
      OBVIOUS
    <3>3. ASSUME f \in Pending(ops, now, n)
          PROVE  \/ f \in Pending(ops, now, n - 1) /\ ~Removes(ops[n], f)
                 \/ ops[n].op = "assert" /\ f = PendingFact(ops[n], n, now)
      <4>1. PICK k \in 1..n : /\ ops[k].op = "assert" /\ f = PendingFact(ops[k], k, now)
                              /\ Survives(f, ops, k + 1, n)
        BY <3>3, PendingIn
      <4>. QED
        BY <3>1, <4>1, PendingIn
    <3>4. ASSUME f \in Pending(ops, now, n - 1), ~Removes(ops[n], f) PROVE f \in Pending(ops, now, n)
      <4>1. PICK k \in 1..(n - 1) : /\ ops[k].op = "assert" /\ f = PendingFact(ops[k], k, now)
                                    /\ Survives(f, ops, k + 1, n - 1)
        BY <3>4, PendingIn
      <4>2. k \in 1..n /\ Survives(f, ops, k + 1, n)
        BY <3>1, <3>2, <3>4, <4>1
      <4>. QED
        BY <4>1, <4>2, PendingIn
    <3>5. ASSUME ops[n].op = "assert", f = PendingFact(ops[n], n, now) PROVE f \in Pending(ops, now, n)
      BY <1>2, <3>2, <3>5, PendingIn
    <3>. QED
      BY <3>3, <3>4, <3>5
  <2>3. f \in Projected(F, ops, now, n) <=> (f \in F /\ Survives(f, ops, 1, n)) \/ f \in Pending(ops, now, n)
    BY DEF Projected
  <2>4. f \in Projected(F, ops, now, n - 1)
          <=> (f \in F /\ Survives(f, ops, 1, n - 1)) \/ f \in Pending(ops, now, n - 1)
    BY DEF Projected
  <2>5. f \in Applied(Projected(F, ops, now, n - 1), ops[n], n, now)
          <=> IF ops[n].op = "assert"
              THEN f \in Projected(F, ops, now, n - 1) \/ f = PendingFact(ops[n], n, now)
              ELSE f \in Projected(F, ops, now, n - 1) /\ ~Removes(ops[n], f)
    BY DEF Applied
  <2>. QED
    BY <1>0, <2>1, <2>2, <2>3, <2>4, <2>5
<1>. QED
  BY <1>3

OpTags == {"assert", "retract", "retract-pattern"}

\* project folds the operations into that.
LEMMA ProjectIsProjected ==
    ASSUME NEW F, NEW ops, NEW now, Len(ops) \in Nat, \A i \in 1..Len(ops) : ops[i].op \in OpTags
    PROVE  project(F, ops, now) = Projected(F, ops, now, Len(ops))
<1> DEFINE Fold(g, n) == g = [i \in 0..n |-> IF i = 0 THEN F
                               ELSE LET op == ops[i] IN
                                    CASE op.op = "retract" -> {f \in g[i - 1] : f.id # op.id}
                                      [] op.op = "retract-pattern" -> {f \in g[i - 1] : ~ patternMatches(f, op)}
                                      [] OTHER -> g[i - 1] \cup {PendingFact(op, i, now)}]
           After == [i \in 0..Len(ops) |-> Projected(F, ops, now, i)]
<1>1. Len(ops) \in Nat
  OBVIOUS
<1>2. ASSUME NEW g, NEW i \in 1..Len(ops), g[i - 1] = Projected(F, ops, now, i - 1)
      PROVE  Projected(F, ops, now, i)
               = (CASE ops[i].op = "retract" -> {f \in g[i - 1] : f.id # ops[i].id}
                    [] ops[i].op = "retract-pattern" -> {f \in g[i - 1] : ~ patternMatches(f, ops[i])}
                    [] OTHER -> g[i - 1] \cup {PendingFact(ops[i], i, now)})
  <2>1. i \in Nat /\ i # 0 /\ ops[i].op \in {"assert", "retract", "retract-pattern"}
    BY <1>1 DEF OpTags
  <2>2. Projected(F, ops, now, i) = Applied(g[i - 1], ops[i], i, now)
    BY <1>2, <2>1, ProjectedNext
  <2>3. CASE ops[i].op = "assert"
    BY <2>2, <2>3 DEF Applied
  <2>4. CASE ops[i].op = "retract"
    BY <2>2, <2>4 DEF Applied, Removes
  <2>5. CASE ops[i].op = "retract-pattern"
    BY <2>2, <2>5 DEF Applied, Removes
  <2>. QED
    BY <2>1, <2>3, <2>4, <2>5
<1>3. Fold(After, Len(ops))
  <2>1. After[0] = F
    BY <1>1, ProjectedStart
  <2>2. ASSUME NEW i \in 1..Len(ops)
        PROVE  After[i] = (CASE ops[i].op = "retract" -> {f \in After[i - 1] : f.id # ops[i].id}
                    [] ops[i].op = "retract-pattern" -> {f \in After[i - 1] : ~ patternMatches(f, ops[i])}
                    [] OTHER -> After[i - 1] \cup {PendingFact(ops[i], i, now)})
    <3>1. i - 1 \in 0..Len(ops) /\ i \in 0..Len(ops)
      BY <1>1
    <3>2. After[i - 1] = Projected(F, ops, now, i - 1) /\ After[i] = Projected(F, ops, now, i)
      BY <3>1
    <3>. HIDE DEF After
    <3>. QED
      BY <1>2, <3>2
  <2>3. After = [i \in 0..Len(ops) |-> After[i]]
    OBVIOUS
  <2>. HIDE DEF After
  <2>4. \A i \in 0..Len(ops) : After[i] = (IF i = 0 THEN F
                               ELSE CASE ops[i].op = "retract" -> {f \in After[i - 1] : f.id # ops[i].id}
                                      [] ops[i].op = "retract-pattern" -> {f \in After[i - 1] : ~ patternMatches(f, ops[i])}
                                      [] OTHER -> After[i - 1] \cup {PendingFact(ops[i], i, now)})
    <3>1. \A i \in 0..Len(ops) : i = 0 \/ i \in 1..Len(ops)
      BY <1>1
    <3>. QED
      BY <2>1, <2>2, <3>1
  <2>. QED
    BY <2>3, <2>4
<1>4. PICK g : g = (CHOOSE h : Fold(h, Len(ops))) /\ Fold(g, Len(ops))
  <2>. HIDE DEF After
  <2>. QED
    BY <1>3
<1>5. project(F, ops, now) = g[Len(ops)]
  BY <1>4 DEF project
<1>6. PICK S : S = {i \in 0..Len(ops) : g[i] = Projected(F, ops, now, i)}
  OBVIOUS
<1>7. 0 \in S
  <2>1. g[0] = F
    BY <1>1, <1>4
  <2>. QED
    BY <1>1, <1>6, <2>1, ProjectedStart
<1>8. ASSUME NEW i \in 1..Len(ops), i - 1 \in S PROVE i \in S
  <2>1. i \in 0..Len(ops) /\ i # 0
    BY <1>1
  <2>2. g[i] = (CASE ops[i].op = "retract" -> {f \in g[i - 1] : f.id # ops[i].id}
                    [] ops[i].op = "retract-pattern" -> {f \in g[i - 1] : ~ patternMatches(f, ops[i])}
                    [] OTHER -> g[i - 1] \cup {PendingFact(ops[i], i, now)})
    BY <1>4, <2>1
  <2>3. g[i - 1] = Projected(F, ops, now, i - 1)
    BY <1>6, <1>8
  <2>. QED
    BY <1>2, <1>6, <2>1, <2>2, <2>3
<1>9. Len(ops) \in S
  <2>1. \A i \in 1..Len(ops) : i - 1 \in S => i \in S
    BY <1>8
  <2>. QED
    BY <1>1, <1>7, <2>1, UpTo
<1>. QED
  BY <1>5, <1>6, <1>9

-----------------------------------------------------------------------------
(* evaluateFacts finds exactly the broken rules. *)

\* Values whose canonical encoding and whose equality tell the same apart.
Plain(v) == v.type \notin {"json", "blob", "sealed"}

\* The four constraints of Constraint.ts; a cardinality has a number.
RuleOK(rule) ==
    /\ rule.tag \in {"Required", "Cardinality", "Unique", "ReferenceTarget"}
    /\ rule.tag = "Cardinality" => rule.max \in Int

FactsOK(F) ==
    /\ IsFiniteSet(F)
    /\ \A f \in F : /\ Plain(f.value) /\ f.validFrom \in Nat
                    /\ f.validTo = None \/ f.validTo \in Nat

\* The subjects of the rule are entities of callers.
Named(F, rule) == \A f \in F : f.entityType = rule.entityType => f.entity \in EntityIds

Visible(F, b) == {f \in F : ValidAt(f, b)}

OfRule(V, r) ==
    CASE r.tag = "Required"    -> RequiredViolations(V, r)
      [] r.tag = "Cardinality" -> CardinalityViolations(V, r)
      [] r.tag = "Unique"      -> UniqueViolations(V, r)
      [] OTHER                 -> ReferenceViolations(V, r)

LEMMA Evaluated ==
    ASSUME NEW F, NEW rules, NEW b
    PROVE  \A v : v \in evaluateFacts(F, rules, b) <=> \E r \in rules : v \in OfRule(Visible(F, b), r)
<1>1. PICK V : V = Visible(F, b)
  OBVIOUS
<1>2. evaluateFacts(F, rules, b) = UNION {OfRule(V, r) : r \in rules}
  BY <1>1 DEF evaluateFacts, OfRule, Visible
<1>. QED
  BY <1>1, <1>2

LEMMA PlainKeys ==
    ASSUME NEW f, NEW g, Plain(f.value), Plain(g.value)
    PROVE  valueKey(f) = valueKey(g) <=> valuesEqual(f.value, g.value)
<1>1. valueKey(f) = <<f.value.type, f.value.value>> /\ valueKey(g) = <<g.value.type, g.value.value>>
  BY DEF valueKey, CanonicalEncoding, Plain
<1>2. valuesEqual(f.value, g.value) <=> f.value.type = g.value.type /\ f.value.value = g.value.value
  BY DEF valuesEqual, Plain
<1>. QED
  BY <1>1, <1>2

LEMMA TypedIn ==
    ASSUME NEW F, NEW b, NEW rule
    PROVE  /\ \A f : f \in TypedFacts(Visible(F, b), rule) <=>
                       f \in FactsOf(F, b, f.entity) /\ IsSubject(rule, f.entity, F, b)
           /\ \A s : s \in {f.entity : f \in TypedFacts(Visible(F, b), rule)} <=> IsSubject(rule, s, F, b)
           /\ \A s : IsSubject(rule, s, F, b) =>
                /\ {f \in TypedFacts(Visible(F, b), rule) : f.entity = s /\ f.attribute = rule.attribute}
                     = Constrained(rule, s, F, b)
                /\ CountOf(TypedFacts(Visible(F, b), rule), s, rule) = Cardinality(Constrained(rule, s, F, b))
<1>1. PICK T : T = TypedFacts(Visible(F, b), rule)
  OBVIOUS
<1>2. \A s : IsSubject(rule, s, F, b) <=> \E g \in F : g.entity = s /\ ValidAt(g, b) /\ g.entityType = rule.entityType
  BY DEF IsSubject, FactsOf
<1>3. \A f, s : f \in FactsOf(F, b, s) <=> f \in F /\ f.entity = s /\ ValidAt(f, b)
  BY DEF FactsOf
<1>4. \A f : f \in T <=> f \in F /\ ValidAt(f, b) /\ IsSubject(rule, f.entity, F, b)
  BY <1>1, <1>2 DEF TypedFacts, FactsOfEntities, FactsOfType, Visible
<1>5. \A f : f \in T <=> f \in FactsOf(F, b, f.entity) /\ IsSubject(rule, f.entity, F, b)
  BY <1>3, <1>4
<1>6. ASSUME NEW s PROVE s \in {f.entity : f \in T} <=> IsSubject(rule, s, F, b)
  BY <1>2, <1>4
<1>7. ASSUME NEW s, IsSubject(rule, s, F, b)
      PROVE  {f \in T : f.entity = s /\ f.attribute = rule.attribute} = Constrained(rule, s, F, b)
  BY <1>3, <1>4, <1>7 DEF Constrained
<1>8. \A s : IsSubject(rule, s, F, b) => CountOf(T, s, rule) = Cardinality(Constrained(rule, s, F, b))
  BY <1>7 DEF CountOf
<1>. QED
  BY <1>1, <1>5, <1>6, <1>7, <1>8

LEMMA ConstrainedFinite ==
    ASSUME NEW F, FactsOK(F), NEW rule, NEW s, NEW b
    PROVE  /\ IsFiniteSet(Constrained(rule, s, F, b)) /\ Cardinality(Constrained(rule, s, F, b)) \in Nat
           /\ (Cardinality(Constrained(rule, s, F, b)) = 0 <=> Constrained(rule, s, F, b) = {})
           /\ \A f \in Constrained(rule, s, F, b) : Plain(f.value) /\ f.entity = s /\ f \in FactsOf(F, b, s)
                                                    /\ f.attribute = rule.attribute
<1>1. PICK C : C = Constrained(rule, s, F, b)
  OBVIOUS
<1>2. C \in SUBSET F
  BY <1>1 DEF Constrained, FactsOf
<1>3. IsFiniteSet(C)
  BY <1>2, FS_Subset DEF FactsOK
<1>4. Cardinality(C) \in Nat /\ (Cardinality(C) = 0 <=> C = {})
  BY <1>3, FS_CardinalityType, FS_EmptySet
<1>5. \A f \in C : Plain(f.value) /\ f.entity = s /\ f \in FactsOf(F, b, s) /\ f.attribute = rule.attribute
  BY <1>1 DEF Constrained, FactsOf, FactsOK
<1>. QED
  BY <1>1, <1>3, <1>4, <1>5

LEMMA Two ==
    ASSUME NEW C, IsFiniteSet(C), NEW s \in C
    PROVE  Cardinality(C) >= 2 <=> \E t \in C : t # s
<1>1. Cardinality(C) \in Nat
  BY FS_CardinalityType
<1>2. Cardinality(C) # 0
  BY FS_EmptySet
<1>3. Cardinality(C) = 1 <=> \E x : C = {x}
  BY FS_Singleton
<1>4. (\E x : C = {x}) <=> ~ \E t \in C : t # s
  <2>1. ASSUME ~ \E t \in C : t # s PROVE C = {s}
    BY <2>1
  <2>. QED
    BY <2>1
<1>. QED
  BY <1>1, <1>2, <1>3, <1>4

LEMMA EntitiesFinite ==
    ASSUME NEW S, IsFiniteSet(S)
    PROVE  IsFiniteSet({f.entity : f \in S})
<1>1. PICK T : T = {f.entity : f \in S}
  OBVIOUS
<1>2. PICK g : g = [x \in S |-> x.entity]
  OBVIOUS
<1>3. g \in Surjection(S, T)
  BY <1>1, <1>2 DEF Surjection
<1>4. IsFiniteSet(T)
  BY <1>3, FS_Surjection
<1>. QED
  BY <1>1, <1>4

Claims(F, b, rule) == {f \in TypedFacts(Visible(F, b), rule) : f.attribute = rule.attribute}

Claimants(F, b, rule, key) == {f.entity : f \in {g \in Claims(F, b, rule) : valueKey(g) = key}}

LEMMA ClaimsIn ==
    ASSUME NEW F, FactsOK(F), NEW b, NEW rule
    PROVE  /\ \A f : f \in Claims(F, b, rule) <=>
                       f \in Constrained(rule, f.entity, F, b) /\ IsSubject(rule, f.entity, F, b)
           /\ \A key, s : s \in Claimants(F, b, rule, key) <=>
                            \E g \in Claims(F, b, rule) : valueKey(g) = key /\ g.entity = s
           /\ \A key : IsFiniteSet(Claimants(F, b, rule, key))
<1>1. PICK C : C = Claims(F, b, rule)
  OBVIOUS
<1>2. \A f : f \in C <=> f \in FactsOf(F, b, f.entity) /\ IsSubject(rule, f.entity, F, b) /\ f.attribute = rule.attribute
  BY <1>1, TypedIn DEF Claims
<1>3. \A f : f \in Constrained(rule, f.entity, F, b) <=> f \in FactsOf(F, b, f.entity) /\ f.attribute = rule.attribute
  BY DEF Constrained
<1>4. IsFiniteSet(C)
  <2>1. C \in SUBSET F
    BY <1>2 DEF FactsOf
  <2>. QED
    BY <2>1, FS_Subset DEF FactsOK
<1>5. ASSUME NEW key PROVE IsFiniteSet(Claimants(F, b, rule, key))
  <2>1. PICK G : G = {g \in C : valueKey(g) = key}
    OBVIOUS
  <2>2. IsFiniteSet(G)
    BY <1>4, <2>1, FS_Subset
  <2>3. IsFiniteSet({f.entity : f \in G})
    BY <2>2, EntitiesFinite
  <2>. QED
    BY <1>1, <2>1, <2>3 DEF Claimants
<1>6. \A key, s : s \in Claimants(F, b, rule, key) <=> \E g \in C : valueKey(g) = key /\ g.entity = s
  BY <1>1 DEF Claimants
<1>. QED
  BY <1>1, <1>2, <1>3, <1>5, <1>6

LEMMA UniqueIn ==
    ASSUME NEW F, NEW b, NEW rule
    PROVE  \A v : v \in UniqueViolations(Visible(F, b), rule) <=>
             \E f \in Claims(F, b, rule) :
                /\ Cardinality(Claimants(F, b, rule, valueKey(f))) >= 2
                /\ v = Violation(rule, f.entity, Cardinality(Claimants(F, b, rule, valueKey(f))), valueKey(f))
BY DEF UniqueViolations, Claims, Claimants

LEMMA ViolationFields ==
    ASSUME NEW rule, NEW s, NEW n, NEW k
    PROVE  /\ Violation(rule, s, n, k).rule = rule /\ Violation(rule, s, n, k).subject = s
           /\ Violation(rule, s, n, k).actual = n /\ Violation(rule, s, n, k).identity = k
BY DEF Violation

\* A rule that does not hold for s has a violation of s.
LEMMA BrokenIsFound ==
    ASSUME NEW F, FactsOK(F), NEW rule, RuleOK(rule), NEW s, NEW b, ~HoldsFor(rule, s, F, b)
    PROVE  \E v \in OfRule(Visible(F, b), rule) :
             /\ v.rule = rule /\ v.subject = s
             /\ rule.tag = "Cardinality" => v.actual = Cardinality(Constrained(rule, s, F, b))
<1>1. PICK T : T = TypedFacts(Visible(F, b), rule)
  OBVIOUS
<1>2. PICK C : C = Constrained(rule, s, F, b)
  OBVIOUS
<1>3. IsSubject(rule, s, F, b)
  BY DEF HoldsFor
<1>4. s \in {f.entity : f \in T} /\ CountOf(T, s, rule) = Cardinality(C)
  BY <1>1, <1>2, <1>3, TypedIn
<1>5. IsFiniteSet(C) /\ Cardinality(C) \in Nat /\ (Cardinality(C) = 0 <=> C = {})
      /\ \A f \in C : Plain(f.value) /\ f.entity = s /\ f \in FactsOf(F, b, s) /\ f.attribute = rule.attribute
  BY <1>2, ConstrainedFinite
<1>6. CASE rule.tag = "Required"
  <2>1. Cardinality(C) = 0
    BY <1>2, <1>3, <1>5, <1>6 DEF HoldsFor
  <2>2. Violation(rule, s, 0, None) \in RequiredViolations(Visible(F, b), rule)
    BY <1>1, <1>4, <2>1 DEF RequiredViolations
  <2>. QED
    BY <1>6, <2>2, ViolationFields DEF OfRule
<1>7. CASE rule.tag = "Cardinality"
  <2>1. ~(Cardinality(C) <= rule.max)
    BY <1>2, <1>3, <1>7 DEF HoldsFor
  <2>2. Cardinality(C) > rule.max
    BY <1>5, <1>7, <2>1 DEF RuleOK
  <2>3. Violation(rule, s, CountOf(T, s, rule), None) \in CardinalityViolations(Visible(F, b), rule)
    BY <1>1, <1>4, <2>2 DEF CardinalityViolations
  <2>. QED
    BY <1>2, <1>4, <1>7, <2>3, ViolationFields DEF OfRule
<1>8. CASE rule.tag = "Unique"
  <2>1. ~UniqueFor(rule, s, F, b)
    BY <1>3, <1>8 DEF HoldsFor
  <2>a. PICK t \in EntityIds \ {s} : /\ IsSubject(rule, t, F, b)
                                   /\ \E f \in C, g \in Constrained(rule, t, F, b) : valuesEqual(f.value, g.value)
    BY <1>2, <2>1 DEF UniqueFor
  <2>b. PICK f \in C, g \in Constrained(rule, t, F, b) : valuesEqual(f.value, g.value)
    BY <2>a
  <2>2. IsSubject(rule, t, F, b) /\ valuesEqual(f.value, g.value) /\ t # s
    BY <2>a, <2>b
  <2>3. Plain(g.value) /\ g.entity = t
    BY <2>2, ConstrainedFinite
  <2>4. valueKey(f) = valueKey(g)
    BY <1>5, <2>2, <2>3, PlainKeys
  <2>5. f \in Claims(F, b, rule) /\ g \in Claims(F, b, rule)
    BY <1>2, <1>3, <1>5, <2>2, <2>3, ClaimsIn
  <2>6. PICK K : K = Claimants(F, b, rule, valueKey(f))
    OBVIOUS
  <2>7. s \in K /\ t \in K /\ IsFiniteSet(K)
    BY <1>5, <2>2, <2>3, <2>4, <2>5, <2>6, ClaimsIn
  <2>8. Cardinality(K) >= 2
    BY <2>2, <2>7, Two
  <2>9. Violation(rule, f.entity, Cardinality(K), valueKey(f)) \in UniqueViolations(Visible(F, b), rule)
    BY <2>5, <2>6, <2>8, UniqueIn
  <2>. QED
    BY <1>5, <1>8, <2>2, <2>9, ViolationFields DEF OfRule
<1>9. CASE rule.tag = "ReferenceTarget"
  <2>1. ~ReferencesFor(rule, s, F, b)
    BY <1>3, <1>9 DEF HoldsFor
  <2>2. PICK f \in C : ~(f.value.type = "ref" /\ \E g \in FactsOf(F, b, f.value.value) : g.entityType = rule.target)
    BY <1>2, <2>1 DEF ReferencesFor
  <2>3. f \in T /\ f.attribute = rule.attribute /\ f.entity = s
    BY <1>1, <1>3, <1>5, <2>2, TypedIn
  <2>4. ~(f.value.type = "ref" /\ f.value.value \in {g.entity : g \in FactsOfType(Visible(F, b), rule.target)})
    BY <2>2 DEF FactsOf, FactsOfType, Visible
  <2>5. Violation(rule, f.entity, 1, valueKey(f)) \in ReferenceViolations(Visible(F, b), rule)
    BY <1>1, <2>3, <2>4 DEF ReferenceViolations
  <2>. QED
    BY <1>9, <2>3, <2>5, ViolationFields DEF OfRule
<1>. QED
  BY <1>6, <1>7, <1>8, <1>9 DEF RuleOK

\* A violation is of a rule that does not hold for its subject.
LEMMA FoundIsBroken ==
    ASSUME NEW F, FactsOK(F), NEW rule, RuleOK(rule), Named(F, rule), NEW b,
           NEW v \in OfRule(Visible(F, b), rule)
    PROVE  /\ v.rule = rule
           /\ ~HoldsFor(rule, v.subject, F, b)
           /\ rule.tag = "Cardinality" => v.actual = Cardinality(Constrained(rule, v.subject, F, b))
<1>1. PICK T : T = TypedFacts(Visible(F, b), rule)
  OBVIOUS
<1>2. PICK s : s = v.subject
  OBVIOUS
<1>3. PICK C : C = Constrained(rule, s, F, b)
  OBVIOUS
<1>4. IsSubject(rule, s, F, b) => CountOf(T, s, rule) = Cardinality(C)
  BY <1>1, <1>3, TypedIn
<1>5. IsFiniteSet(C) /\ Cardinality(C) \in Nat /\ (Cardinality(C) = 0 <=> C = {})
      /\ \A f \in C : Plain(f.value) /\ f.entity = s /\ f \in FactsOf(F, b, s) /\ f.attribute = rule.attribute
  BY <1>3, ConstrainedFinite
<1>6. CASE rule.tag = "Required"
  <2>1. PICK t \in {f.entity : f \in T} : CountOf(T, t, rule) = 0 /\ v = Violation(rule, t, 0, None)
    BY <1>1, <1>6 DEF OfRule, RequiredViolations
  <2>2. t = s /\ v.rule = rule
    BY <1>2, <2>1, ViolationFields
  <2>3. IsSubject(rule, s, F, b)
    BY <1>1, <2>1, <2>2, TypedIn
  <2>4. C = {}
    BY <1>4, <1>5, <2>1, <2>2, <2>3
  <2>. QED
    BY <1>2, <1>3, <1>6, <2>2, <2>3, <2>4 DEF HoldsFor
<1>7. CASE rule.tag = "Cardinality"
  <2>1. PICK t \in {f.entity : f \in T} : CountOf(T, t, rule) > rule.max /\ v = Violation(rule, t, CountOf(T, t, rule), None)
    BY <1>1, <1>7 DEF OfRule, CardinalityViolations
  <2>2. t = s /\ v.rule = rule /\ v.actual = CountOf(T, t, rule)
    BY <1>2, <2>1, ViolationFields
  <2>3. IsSubject(rule, s, F, b)
    BY <1>1, <2>1, <2>2, TypedIn
  <2>4. v.actual = Cardinality(C) /\ ~(Cardinality(C) <= rule.max)
    BY <1>4, <1>5, <1>7, <2>1, <2>2, <2>3 DEF RuleOK
  <2>. QED
    BY <1>2, <1>3, <1>7, <2>2, <2>3, <2>4 DEF HoldsFor
<1>8. CASE rule.tag = "Unique"
  <2>1. PICK f \in Claims(F, b, rule) :
            /\ Cardinality(Claimants(F, b, rule, valueKey(f))) >= 2
            /\ v = Violation(rule, f.entity, Cardinality(Claimants(F, b, rule, valueKey(f))), valueKey(f))
    BY <1>8, UniqueIn DEF OfRule
  <2>2. f.entity = s /\ v.rule = rule
    BY <1>2, <2>1, ViolationFields
  <2>3. f \in C /\ IsSubject(rule, s, F, b)
    BY <1>3, <2>1, <2>2, ClaimsIn
  <2>4. PICK K : K = Claimants(F, b, rule, valueKey(f))
    OBVIOUS
  <2>5. s \in K /\ IsFiniteSet(K) /\ Cardinality(K) >= 2
    BY <2>1, <2>2, <2>4, ClaimsIn
  <2>6. PICK t \in K : t # s
    BY <2>5, Two
  <2>7. PICK g \in Claims(F, b, rule) : valueKey(g) = valueKey(f) /\ g.entity = t
    BY <2>4, <2>6, ClaimsIn
  <2>8. g \in Constrained(rule, t, F, b) /\ IsSubject(rule, t, F, b)
    BY <2>7, ClaimsIn
  <2>9. t \in EntityIds
    BY <2>8 DEF IsSubject, FactsOf, Named
  <2>10. Plain(f.value) /\ Plain(g.value)
    BY <1>5, <2>3, <2>8, ConstrainedFinite
  <2>11. valuesEqual(f.value, g.value)
    BY <2>7, <2>10, PlainKeys
  <2>12. ~UniqueFor(rule, s, F, b)
    BY <1>3, <2>3, <2>6, <2>8, <2>9, <2>11 DEF UniqueFor
  <2>. QED
    BY <1>2, <1>8, <2>2, <2>3, <2>12 DEF HoldsFor
<1>9. CASE rule.tag = "ReferenceTarget"
  <2>1. PICK f \in T : /\ f.attribute = rule.attribute
                       /\ ~(f.value.type = "ref" /\ f.value.value \in {g.entity : g \in FactsOfType(Visible(F, b), rule.target)})
                       /\ v = Violation(rule, f.entity, 1, valueKey(f))
    BY <1>1, <1>9 DEF OfRule, ReferenceViolations
  <2>2. f.entity = s /\ v.rule = rule
    BY <1>2, <2>1, ViolationFields
  <2>3. f \in FactsOf(F, b, s) /\ IsSubject(rule, s, F, b)
    BY <1>1, <2>1, <2>2, TypedIn
  <2>4. f \in C
    BY <1>3, <2>1, <2>3 DEF Constrained
  <2>5. ~(f.value.type = "ref" /\ \E g \in FactsOf(F, b, f.value.value) : g.entityType = rule.target)
    BY <2>1 DEF FactsOf, FactsOfType, Visible
  <2>6. ~ReferencesFor(rule, s, F, b)
    BY <1>3, <2>4, <2>5 DEF ReferencesFor
  <2>. QED
    BY <1>2, <1>9, <2>2, <2>3, <2>6 DEF HoldsFor
<1>. QED
  BY <1>6, <1>7, <1>8, <1>9 DEF RuleOK

LEMMA FoundNames ==
    ASSUME NEW V, NEW rule, NEW v \in OfRule(V, rule)
    PROVE  v.rule = rule
<1>1. \E s, n, k : v = Violation(rule, s, n, k)
  BY DEF OfRule, RequiredViolations, CardinalityViolations, UniqueViolations, ReferenceViolations
<1>. QED
  BY <1>1, ViolationFields

-----------------------------------------------------------------------------
(* What decides a rule for an entity: the facts of each entity. *)

\* The facts of every entity are the same.
SameFacts(F, a, G, b) == \A s : FactsOf(F, a, s) = FactsOf(G, b, s)

LEMMA SameFactsSameRules ==
    ASSUME NEW F, NEW a, NEW G, NEW b, SameFacts(F, a, G, b), NEW rule, NEW s
    PROVE  /\ HoldsFor(rule, s, F, a) <=> HoldsFor(rule, s, G, b)
           /\ Constrained(rule, s, F, a) = Constrained(rule, s, G, b)
<1>1. \A t : IsSubject(rule, t, F, a) <=> IsSubject(rule, t, G, b)
  BY DEF SameFacts, IsSubject
<1>2. \A t : Constrained(rule, t, F, a) = Constrained(rule, t, G, b)
  BY DEF SameFacts, Constrained
<1>3. UniqueFor(rule, s, F, a) <=> UniqueFor(rule, s, G, b)
  BY <1>1, <1>2 DEF UniqueFor
<1>4. ReferencesFor(rule, s, F, a) <=> ReferencesFor(rule, s, G, b)
  BY <1>2 DEF ReferencesFor, SameFacts
<1>. QED
  BY <1>1, <1>2, <1>3, <1>4 DEF HoldsFor

\* L holds all facts of F that the rule is about.
Relevant(L, F, rule) ==
    /\ L \subseteq F
    /\ \A f, g \in F : g.entityType = rule.entityType /\ f.entity = g.entity => f \in L
    /\ rule.tag = "ReferenceTarget" => \A f \in F : f.entityType = rule.target => f \in L

LEMMA CoveredDecides ==
    ASSUME NEW L, NEW F, NEW rule, RuleOK(rule), Relevant(L, F, rule), NEW s, NEW at
    PROVE  /\ HoldsFor(rule, s, L, at) <=> HoldsFor(rule, s, F, at)
           /\ IsSubject(rule, s, F, at) => Constrained(rule, s, L, at) = Constrained(rule, s, F, at)
<1>1. \A f, t : /\ f \in FactsOf(L, at, t) <=> f \in L /\ f.entity = t /\ ValidAt(f, at)
                /\ f \in FactsOf(F, at, t) <=> f \in F /\ f.entity = t /\ ValidAt(f, at)
  BY DEF FactsOf
<1>2. \A t : IsSubject(rule, t, L, at) <=> IsSubject(rule, t, F, at)
  BY <1>1 DEF IsSubject, Relevant
<1>3. ASSUME NEW t, IsSubject(rule, t, F, at) PROVE FactsOf(L, at, t) = FactsOf(F, at, t)
  <2>1. PICK g \in F : g.entity = t /\ g.entityType = rule.entityType
    BY <1>1, <1>3 DEF IsSubject
  <2>2. \A f : f \in FactsOf(L, at, t) <=> f \in FactsOf(F, at, t)
    BY <1>1, <2>1 DEF Relevant
  <2>. QED
    BY <2>2
<1>4. \A t : IsSubject(rule, t, F, at) => Constrained(rule, t, L, at) = Constrained(rule, t, F, at)
  BY <1>3 DEF Constrained
<1>5. IsSubject(rule, s, F, at) => (UniqueFor(rule, s, L, at) <=> UniqueFor(rule, s, F, at))
  BY <1>2, <1>4 DEF UniqueFor
<1>6. rule.tag = "ReferenceTarget" => \A x : (\E g \in FactsOf(L, at, x) : g.entityType = rule.target)
                                          <=> (\E g \in FactsOf(F, at, x) : g.entityType = rule.target)
  BY <1>1 DEF Relevant
<1>7. IsSubject(rule, s, F, at) /\ rule.tag = "ReferenceTarget"
        => (ReferencesFor(rule, s, L, at) <=> ReferencesFor(rule, s, F, at))
  BY <1>4, <1>6 DEF ReferencesFor
<1>8. CASE rule.tag \in {"Required", "Cardinality", "Unique"}
  BY <1>2, <1>4, <1>5, <1>8 DEF HoldsFor
<1>9. CASE rule.tag = "ReferenceTarget"
  BY <1>2, <1>4, <1>7, <1>9 DEF HoldsFor
<1>. QED
  BY <1>4, <1>8, <1>9 DEF RuleOK

LEMMA PendingFields ==
    ASSUME NEW op, NEW k, NEW now, NEW p, p = PendingFact(op, k, now)
    PROVE  /\ p.id = 0 - k /\ p.entity = op.entity /\ p.attribute = op.attribute /\ p.value = op.value
           /\ p.entityType = op.entityType /\ p.validTo = op.validTo
           /\ p.validFrom = (IF op.validFrom = None THEN now ELSE op.validFrom)
BY DEF PendingFact

\* loadRelevantFacts loads what the rules are about, before and after.
LEMMA LoadIsRelevant ==
    ASSUME NEW rules, NEW rule \in rules, NEW ops, NEW B
    PROVE  Relevant(loadRelevantFacts(rules, ops, B), B, rule)
<1>1. PICK L : L = loadRelevantFacts(rules, ops, B)
  OBVIOUS
<1>2. L \subseteq B
  BY <1>1 DEF loadRelevantFacts
<1>3. ASSUME NEW f \in B, NEW g \in B, g.entityType = rule.entityType, f.entity = g.entity PROVE f \in L
  BY <1>1, <1>3 DEF loadRelevantFacts
<1>4. ASSUME rule.tag = "ReferenceTarget", NEW f \in B, f.entityType = rule.target PROVE f \in L
  BY <1>1, <1>4 DEF loadRelevantFacts
<1>. QED
  BY <1>1, <1>2, <1>3, <1>4 DEF Relevant

LEMMA ProjectedIsRelevant ==
    ASSUME NEW rules, NEW rule \in rules, NEW ops, DOMAIN ops = 1..Len(ops), NEW B, NEW now
    PROVE  Relevant(Projected(loadRelevantFacts(rules, ops, B), ops, now, Len(ops)),
                  Projected(B, ops, now, Len(ops)), rule)
<1>1. PICK L : L = loadRelevantFacts(rules, ops, B)
  OBVIOUS
<1>2. PICK P : P = Pending(ops, now, Len(ops))
  OBVIOUS
<1>3. PICK Q : Q = Projected(L, ops, now, Len(ops))
  OBVIOUS
<1>4. PICK A : A = Projected(B, ops, now, Len(ops))
  OBVIOUS
<1>5. /\ \A f : f \in Q <=> f \in P \/ (f \in L /\ Survives(f, ops, 1, Len(ops)))
      /\ \A f : f \in A <=> f \in P \/ (f \in B /\ Survives(f, ops, 1, Len(ops)))
  BY <1>2, <1>3, <1>4 DEF Projected
<1>6. Relevant(L, B, rule)
  BY <1>1, LoadIsRelevant
<1>7. Q \subseteq A
  BY <1>5, <1>6 DEF Relevant
<1>8. ASSUME NEW f \in B, NEW g \in P, g.entityType = rule.entityType, f.entity = g.entity PROVE f \in L
  <2>1. PICK k \in 1..Len(ops) : ops[k].op = "assert" /\ g = PendingFact(ops[k], k, now)
    BY <1>2, <1>8, PendingIn
  <2>2. g.entity = ops[k].entity /\ g.entityType = ops[k].entityType
    BY <2>1, PendingFields
  <2>3. k \in AssertIndices(ops)
    BY <2>1 DEF AssertIndices
  <2>. QED
    BY <1>1, <1>8, <2>2, <2>3 DEF loadRelevantFacts
<1>9. ASSUME NEW f \in A, NEW g \in A, g.entityType = rule.entityType, f.entity = g.entity PROVE f \in Q
  BY <1>5, <1>6, <1>8, <1>9 DEF Relevant
<1>10. ASSUME rule.tag = "ReferenceTarget", NEW f \in A, f.entityType = rule.target PROVE f \in Q
  BY <1>5, <1>6, <1>10 DEF Relevant
<1>. QED
  BY <1>1, <1>3, <1>4, <1>7, <1>9, <1>10 DEF Relevant

\* Between two boundaries nothing starts or ends: an instant at which some
\* fact is valid sees what the last boundary before it sees.
LEMMA BoundaryBelow ==
    ASSUME NEW F, FactsOK(F), NEW at \in Nat, NEW e \in F, ValidAt(e, at)
    PROVE  \E b \in Boundaries(F) : \A f \in F : ValidAt(f, at) <=> ValidAt(f, b)
<1>1. PICK D : D = {x \in Boundaries(F) : x \in Nat /\ x <= at}
  OBVIOUS
<1>2. PICK S : S = {at - x : x \in D}
  OBVIOUS
<1>3. S \in SUBSET Nat
  BY <1>1, <1>2
<1>4. \A f \in F : f.validFrom \in Nat /\ f.validFrom \in Boundaries(F)
  BY DEF FactsOK, Boundaries
<1>5. \A f \in F : f.validTo # None => f.validTo \in Nat /\ f.validTo \in Boundaries(F)
  BY DEF FactsOK, Boundaries
<1>6. e.validFrom \in D
  BY <1>1, <1>4 DEF ValidAt
<1>7. S # {}
  BY <1>2, <1>6
<1>8. PICK m \in S : \A y \in S : m <= y
  BY <1>3, <1>7, LeastOf
<1>9. PICK b \in D : m = at - b
  BY <1>2, <1>8
<1>10. b \in Boundaries(F) /\ b \in Nat /\ b <= at
  BY <1>1, <1>9
<1>11. ASSUME NEW x \in D PROVE x <= b
  <2>1. at - b <= at - x /\ x \in Nat
    BY <1>1, <1>2, <1>8, <1>9
  <2>. QED
    BY <1>10, <2>1
<1>12. ASSUME NEW x \in Boundaries(F), x \in Nat PROVE x <= at <=> x <= b
  <2>1. x <= at => x \in D
    BY <1>1, <1>12
  <2>. QED
    BY <1>10, <1>11, <1>12, <2>1
<1>13. ASSUME NEW f \in F PROVE ValidAt(f, at) <=> ValidAt(f, b)
  <2>1. f.validFrom <= at <=> f.validFrom <= b
    BY <1>4, <1>12
  <2>2. f.validTo # None => (f.validTo > at <=> f.validTo > b)
    <3>1. f.validTo # None => (f.validTo <= at <=> f.validTo <= b) /\ f.validTo \in Nat
      BY <1>5, <1>12
    <3>. QED
      BY <1>10, <3>1
  <2>. QED
    BY <2>1, <2>2 DEF ValidAt
<1>. QED
  BY <1>10, <1>13

LEMMA SameValidity ==
    ASSUME NEW F, NEW a, NEW b, \A f \in F : ValidAt(f, a) <=> ValidAt(f, b)
    PROVE  SameFacts(F, a, F, b)
BY DEF SameFacts, FactsOf

\* A transaction that newlyViolated passes breaks no rule in the projection
\* of all live facts, at any instant.
LEMMA EnforcedKeeps ==
    ASSUME NEW rules, \A r \in rules : RuleOK(r), NEW rule \in rules,
           NEW ops, Len(ops) \in Nat, DOMAIN ops = 1..Len(ops), \A i \in 1..Len(ops) : ops[i].op \in OpTags,
           NEW B, NEW now, FactsOK(B), FactsOK(Projected(B, ops, now, Len(ops))), Named(B, rule),
           newlyViolated(loadRelevantFacts(rules, ops, B), ops, rules, now) = {},
           NEW s, NEW at \in Nat
    PROVE  \/ HoldsFor(rule, s, Projected(B, ops, now, Len(ops)), at)
           \/ BrokenNoWorse(rule, s, B, Projected(B, ops, now, Len(ops)), at)
<1>1. PICK L : L = loadRelevantFacts(rules, ops, B)
  OBVIOUS
<1>2. PICK Q : Q = Projected(L, ops, now, Len(ops))
  OBVIOUS
<1>3. PICK A : A = Projected(B, ops, now, Len(ops))
  OBVIOUS
<1>4. Relevant(L, B, rule) /\ Relevant(Q, A, rule) /\ RuleOK(rule)
  BY <1>1, <1>2, <1>3, LoadIsRelevant, ProjectedIsRelevant
<1>5. project(L, ops, now) = Q
  BY <1>2, ProjectIsProjected
<1>6. FactsOK(L) /\ FactsOK(Q) /\ FactsOK(L \cup Q)
  <2>1. L \subseteq B /\ Q \subseteq A
    BY <1>4 DEF Relevant
  <2>2. IsFiniteSet(L) /\ IsFiniteSet(Q)
    BY <1>3, <2>1, FS_Subset DEF FactsOK
  <2>3. IsFiniteSet(L \cup Q)
    BY <2>2, FS_Union
  <2>. QED
    BY <1>3, <2>1, <2>2, <2>3 DEF FactsOK
<1>7. Named(L, rule)
  BY <1>4 DEF Named, Relevant
<1> SUFFICES ASSUME ~HoldsFor(rule, s, A, at) PROVE BrokenNoWorse(rule, s, B, A, at)
  BY <1>3
<1>8. ~HoldsFor(rule, s, Q, at) /\ IsSubject(rule, s, A, at) /\ IsSubject(rule, s, Q, at)
  <2>1. ~HoldsFor(rule, s, Q, at)
    BY <1>4, CoveredDecides
  <2>. QED
    BY <2>1 DEF HoldsFor
<1>9. PICK e \in L \cup Q : ValidAt(e, at)
  BY <1>8 DEF IsSubject, FactsOf
<1>10. PICK b \in Boundaries(L \cup Q) : \A f \in L \cup Q : ValidAt(f, at) <=> ValidAt(f, b)
  BY <1>6, <1>9, BoundaryBelow
<1>11. SameFacts(L, at, L, b) /\ SameFacts(Q, at, Q, b)
  BY <1>10, SameValidity
<1>12. ~HoldsFor(rule, s, Q, b) /\ Constrained(rule, s, Q, b) = Constrained(rule, s, A, at)
  <2>1. Constrained(rule, s, Q, at) = Constrained(rule, s, A, at)
    BY <1>4, <1>8, CoveredDecides
  <2>. QED
    BY <1>8, <1>11, <2>1, SameFactsSameRules
<1>13. PICK v \in OfRule(Visible(Q, b), rule) :
             /\ v.rule = rule /\ v.subject = s
             /\ rule.tag = "Cardinality" => v.actual = Cardinality(Constrained(rule, s, Q, b))
  BY <1>4, <1>6, <1>12, BrokenIsFound
<1>14. v \in evaluateFacts(Q, rules, b)
  BY <1>13, Evaluated
<1>15. ~Worsened(evaluateFacts(L, rules, b), v)
  BY <1>1, <1>5, <1>10, <1>14 DEF newlyViolated
<1>16. PICK u \in evaluateFacts(L, rules, b) : u.rule = v.rule /\ u.subject = v.subject /\ v.actual <= u.actual
  BY <1>15 DEF Worsened
<1>17. u \in OfRule(Visible(L, b), rule)
  <2>1. PICK r \in rules : u \in OfRule(Visible(L, b), r)
    BY <1>16, Evaluated
  <2>2. u.rule = r
    BY <2>1, FoundNames
  <2>. QED
    BY <1>13, <1>16, <2>1, <2>2
<1>18. /\ ~HoldsFor(rule, s, L, b)
       /\ rule.tag = "Cardinality" => u.actual = Cardinality(Constrained(rule, s, L, b))
  BY <1>4, <1>6, <1>7, <1>13, <1>16, <1>17, FoundIsBroken
<1>19. ~HoldsFor(rule, s, B, at) /\ Constrained(rule, s, L, b) = Constrained(rule, s, B, at)
  <2>1. ~HoldsFor(rule, s, L, at) /\ Constrained(rule, s, L, at) = Constrained(rule, s, L, b)
    BY <1>11, <1>18, SameFactsSameRules
  <2>2. ~HoldsFor(rule, s, B, at)
    BY <1>4, <2>1, CoveredDecides
  <2>3. IsSubject(rule, s, B, at)
    BY <2>2 DEF HoldsFor
  <2>. QED
    BY <1>4, <2>1, <2>2, <2>3, CoveredDecides
<1>20. rule.tag = "Cardinality" =>
         Cardinality(Constrained(rule, s, A, at)) <= Cardinality(Constrained(rule, s, B, at))
  BY <1>12, <1>13, <1>16, <1>18, <1>19
<1>. QED
  BY <1>19, <1>20 DEF BrokenNoWorse

-----------------------------------------------------------------------------
(* The projection and the buffer: the same facts, but for the ids. *)

SameFields(f, g) ==
    /\ f.entity = g.entity /\ f.attribute = g.attribute /\ f.value = g.value
    /\ f.entityType = g.entityType /\ f.validFrom = g.validFrom /\ f.validTo = g.validTo

\* g maps the facts of F to those of A one to one; a fact that the
\* transaction did not assert keeps its id.
Reflects(g, F, A, changes) ==
    /\ \A x : x \in A <=> \E f \in F : g[f] = x
    /\ \A f, e \in F : g[f] = g[e] => f = e
    /\ \A f \in F : SameFields(f, g[f])
    /\ \A f \in F : g[f].id = f.id \/ (<<"assert", f.id>> \in changes /\ g[f].id \notin TripleIds)

LEMMA ReflectsItself ==
    ASSUME NEW F, NEW changes
    PROVE  \E g : Reflects(g, F, F, changes)
<1>1. PICK g : g = [f \in F |-> f]
  OBVIOUS
<1>2. \A f \in F : g[f] = f
  BY <1>1
<1>. QED
  BY <1>2 DEF Reflects, SameFields

LEMMA ReflectsAdded ==
    ASSUME NEW g, NEW F, NEW A, NEW changes, Reflects(g, F, A, changes),
           NEW n, n \notin F, NEW p, p \notin A, SameFields(n, p), p.id \notin TripleIds
    PROVE  \E h : Reflects(h, F \cup {n}, A \cup {p}, changes \cup {<<"assert", n.id>>})
<1>1. PICK h : h = [f \in F \cup {n} |-> IF f = n THEN p ELSE g[f]]
  OBVIOUS
<1>2. h[n] = p /\ \A f \in F : h[f] = g[f] /\ g[f] \in A
  BY <1>1 DEF Reflects
<1>3. \A x : x \in A \cup {p} <=> \E f \in F \cup {n} : h[f] = x
  BY <1>2 DEF Reflects
<1>4. \A f, e \in F \cup {n} : h[f] = h[e] => f = e
  BY <1>2 DEF Reflects
<1>5. \A f \in F \cup {n} : SameFields(f, h[f])
  BY <1>2 DEF Reflects
<1>6. \A f \in F \cup {n} : h[f].id = f.id \/ (<<"assert", f.id>> \in changes \cup {<<"assert", n.id>>} /\ h[f].id \notin TripleIds)
  BY <1>2 DEF Reflects
<1>. QED
  BY <1>3, <1>4, <1>5, <1>6 DEF Reflects

LEMMA ReflectsKept ==
    ASSUME NEW g, NEW F, NEW A, NEW changes, Reflects(g, F, A, changes),
           NEW E \in SUBSET F, NEW C \in SUBSET A, \A f \in F : f \in E <=> g[f] \in C,
           NEW more
    PROVE  Reflects(g, E, C, changes \cup more)
<1>1. \A x : x \in C <=> \E f \in E : g[f] = x
  BY DEF Reflects
<1>. QED
  BY <1>1 DEF Reflects

LEMMA ReflectsRules ==
    ASSUME NEW g, NEW F, NEW A, NEW changes, Reflects(g, F, A, changes), IsFiniteSet(F),
           NEW rule, NEW s, NEW at
    PROVE  /\ HoldsFor(rule, s, F, at) <=> HoldsFor(rule, s, A, at)
           /\ Cardinality(Constrained(rule, s, F, at)) = Cardinality(Constrained(rule, s, A, at))
<1>1. \A f \in F : /\ g[f] \in A /\ SameFields(f, g[f])
                   /\ ValidAt(f, at) <=> ValidAt(g[f], at)
  BY DEF Reflects, SameFields, ValidAt
<1>2. \A x \in A : \E f \in F : g[f] = x
  BY DEF Reflects
<1>3. ASSUME NEW t, NEW f \in F
      PROVE  /\ f \in FactsOf(F, at, t) <=> g[f] \in FactsOf(A, at, t)
             /\ f \in Constrained(rule, t, F, at) <=> g[f] \in Constrained(rule, t, A, at)
  BY <1>1 DEF FactsOf, Constrained, SameFields
<1>4. \A t : /\ FactsOf(F, at, t) \subseteq F /\ FactsOf(A, at, t) \subseteq A
             /\ Constrained(rule, t, F, at) \subseteq F /\ Constrained(rule, t, A, at) \subseteq A
  BY DEF FactsOf, Constrained
<1>5. ASSUME NEW t, NEW type
      PROVE  (\E f \in FactsOf(F, at, t) : f.entityType = type) <=> (\E f \in FactsOf(A, at, t) : f.entityType = type)
  BY <1>1, <1>2, <1>3, <1>4 DEF SameFields
<1>6. \A t : IsSubject(rule, t, F, at) <=> IsSubject(rule, t, A, at)
  BY <1>5 DEF IsSubject
<1>7. \A t : /\ \A f \in Constrained(rule, t, F, at) : \E x \in Constrained(rule, t, A, at) : x.value = f.value
             /\ \A x \in Constrained(rule, t, A, at) : \E f \in Constrained(rule, t, F, at) : x.value = f.value
  BY <1>1, <1>2, <1>3, <1>4 DEF SameFields
<1>8. Constrained(rule, s, F, at) = {} <=> Constrained(rule, s, A, at) = {}
  BY <1>7
<1>9. UniqueFor(rule, s, F, at) <=> UniqueFor(rule, s, A, at)
  <2>1. ASSUME NEW t
        PROVE  (\A f \in Constrained(rule, s, F, at), e \in Constrained(rule, t, F, at) : ~ valuesEqual(f.value, e.value))
            <=> (\A f \in Constrained(rule, s, A, at), e \in Constrained(rule, t, A, at) : ~ valuesEqual(f.value, e.value))
    BY <1>7
  <2>. QED
    BY <1>6, <2>1 DEF UniqueFor
<1>10. ReferencesFor(rule, s, F, at) <=> ReferencesFor(rule, s, A, at)
  <2>1. \A x : (\E f \in FactsOf(F, at, x) : f.entityType = rule.target)
           <=> (\E f \in FactsOf(A, at, x) : f.entityType = rule.target)
    BY <1>5
  <2>. QED
    BY <1>7, <2>1 DEF ReferencesFor
<1>11. Cardinality(Constrained(rule, s, F, at)) = Cardinality(Constrained(rule, s, A, at))
  <2>1. PICK S : S = Constrained(rule, s, F, at)
    OBVIOUS
  <2>2. PICK T : T = Constrained(rule, s, A, at)
    OBVIOUS
  <2>3. PICK h : h = [f \in S |-> g[f]]
    OBVIOUS
  <2>4. S \subseteq F /\ T \subseteq A /\ \A f \in F : f \in S <=> g[f] \in T
    BY <1>3, <1>4, <2>1, <2>2
  <2>5. h \in [S -> T] /\ \A f \in S : h[f] = g[f]
    BY <2>3, <2>4
  <2>6. \A f, e \in S : h[f] = h[e] => f = e
    BY <2>4, <2>5 DEF Reflects
  <2>7. \A x \in T : \E f \in S : h[f] = x
    BY <1>2, <2>4, <2>5
  <2>8. h \in Bijection(S, T)
    BY <2>5, <2>6, <2>7 DEF Bijection, Injection, Surjection, IsInjective
  <2>9. IsFiniteSet(S)
    BY <2>4, FS_Subset
  <2>10. Cardinality(S) = Cardinality(T)
    BY <2>8, <2>9, FS_Bijection DEF ExistsBijection
  <2>. QED
    BY <2>1, <2>2, <2>10
<1>. QED
  BY <1>6, <1>8, <1>9, <1>10, <1>11 DEF HoldsFor

LEMMA ReflectsFacts ==
    ASSUME NEW g, NEW F, NEW A, NEW changes, Reflects(g, F, A, changes), FactsOK(F)
    PROVE  FactsOK(A)
<1>1. \A x \in A : \E f \in F : SameFields(f, x)
  BY DEF Reflects
<1>2. PICK h : h = [f \in F |-> g[f]]
  OBVIOUS
<1>3. h \in Surjection(F, A)
  BY <1>2 DEF Reflects, Surjection
<1>4. IsFiniteSet(A)
  BY <1>3, FS_Surjection DEF FactsOK
<1>. QED
  BY <1>1, <1>4 DEF FactsOK, SameFields

-----------------------------------------------------------------------------
(* The facts of a store. *)

FactAt(d, i) ==
    [ id |-> i, entity |-> d[i].entity, attribute |-> d[i].attribute,
      value |-> d[i].value, entityType |-> d[i].entityType,
      validFrom |-> d[i].validFrom, validTo |-> d[i].validTo ]

LEMMA FactsAre ==
    ASSUME NEW d
    PROVE  /\ \A f : f \in LiveFacts(d) <=> \E i \in LiveIds(d) : f = FactAt(d, i)
           /\ \A i : FactAt(d, i).id = i /\ SameFields(d[i], FactAt(d, i))
           /\ \A f \in LiveFacts(d) : f.id \in LiveIds(d) /\ f = FactAt(d, f.id) /\ SameFields(d[f.id], f)
<1>1. \A f : f \in LiveFacts(d) <=> \E i \in LiveIds(d) : f = FactAt(d, i)
  BY DEF LiveFacts, FactAt
<1>2. \A i : FactAt(d, i).id = i /\ SameFields(d[i], FactAt(d, i))
  BY DEF FactAt, SameFields
<1>. QED
  BY <1>1, <1>2

\* No value is one whose encoding and equality may differ.
PlainValues == \A v \in Values : Plain(v)

\* No caller's entity has the id of a transaction record.
EntitiesApart == EntityIds \cap Positions = {}

LEMMA StoreFactsOK ==
    ASSUME PlainValues, NEW s \in Stores, IsFiniteSet(Ids(s.datoms))
    PROVE  FactsOK(LiveFacts(s.datoms))
<1>1. PICK d : d = s.datoms
  OBVIOUS
<1>2. \A i \in Ids(d) : d[i] \in Datoms
  BY <1>1, StoreParts
<1>3. \A f \in LiveFacts(d) : f.id \in Ids(d) /\ f = FactAt(d, f.id) /\ SameFields(d[f.id], f)
  BY FactsAre DEF LiveIds
<1>4. ASSUME NEW f \in LiveFacts(d)
      PROVE  Plain(f.value) /\ f.validFrom \in Nat /\ (f.validTo = None \/ f.validTo \in Nat)
  <2>1. d[f.id] \in DatomFields
    BY <1>2, <1>3 DEF Datoms
  <2>2. /\ d[f.id].value \in Values \cup JournalValues
        /\ d[f.id].validFrom \in Instants /\ d[f.id].validTo \in Instants \cup {None}
    BY <2>1 DEF DatomFields
  <2>3. Plain(d[f.id].value)
    BY <2>2 DEF PlainValues, Plain, JournalValues
  <2>4. f.value = d[f.id].value /\ f.validFrom = d[f.id].validFrom /\ f.validTo = d[f.id].validTo
    BY <1>3 DEF SameFields
  <2>5. Plain(f.value)
    BY <2>3, <2>4 DEF Plain
  <2>6. f.validFrom \in Nat /\ (f.validTo = None \/ f.validTo \in Nat)
    BY <2>2, <2>4, BoundAssumption
  <2>. QED
    BY <2>5, <2>6
<1>5. IsFiniteSet(LiveFacts(d))
  <2>1. PICK h : h = [i \in LiveIds(d) |-> FactAt(d, i)]
    OBVIOUS
  <2>2. h \in Surjection(LiveIds(d), LiveFacts(d))
    BY <2>1, FactsAre DEF Surjection
  <2>3. IsFiniteSet(LiveIds(d))
    BY <1>1, FS_Subset DEF LiveIds
  <2>. QED
    BY <2>2, <2>3, FS_Surjection
<1>. QED
  BY <1>1, <1>4, <1>5 DEF FactsOK

\* Facts that are no journal records are about a caller's entity.
EntitiesNamed(d) == \A i \in Ids(d) : d[i].entityType = TransactionType \/ d[i].entity \in EntityIds

\* What transact decided on the projection is decided on what it writes.
EnforceInv ==
    /\ IsFiniteSet(Ids(store.datoms)) /\ IsFiniteSet(Ids(buffer.datoms))
    /\ EntitiesNamed(store.datoms) /\ EntitiesNamed(buffer.datoms)
    /\ tx # NoTx =>
         /\ Enforced(tx.req, tx.instant)
         /\ \E g : Reflects(g, LiveFacts(buffer.datoms),
                            Projected(LiveFacts(store.datoms), tx.req.ops, tx.instant, tx.done), tx.changes)

\* A transaction does not name an id that it draws itself.
IdsUnforeseen == Running("retract") => <<"assert", Op.id>> \notin tx.changes

LEMMA EnforceInit == Init => EnforceInv
<1> SUFFICES ASSUME Init PROVE EnforceInv
  OBVIOUS
<1>1. Ids(store.datoms) = {} /\ Ids(buffer.datoms) = {} /\ tx = NoTx
  BY DEF Init, NoStore, Ids
<1>. QED
  BY <1>1, FS_EmptySet DEF EnforceInv, EntitiesNamed

LEMMA BeginEnforce ==
    ASSUME IInv, EnforceInv, NEW c, NEW req, NEW now, Begin(c, req, now)
    PROVE  EnforceInv'
<1>1. /\ tx' = [client |-> c, req |-> req, instant |-> now, done |-> 0, changes |-> {}]
      /\ store' = store
      /\ buffer' = [store EXCEPT
                    !.position = store.position + 1,
                    !.receipts = [k \in CommandIds |->
                        IF k = req.command THEN store.position + 1 ELSE store.receipts[k]]]
  BY DEF Begin
<1>2. buffer'.datoms = store.datoms
  BY <1>1 DEF IInv, TypeOK, Stores
<1>3. Enforced(req, now)
  <2>1. Refusal(req, now) = None
    BY DEF Begin
  <2>2. None \notin {"WriteError", "CommandAlreadyCommitted", "TransactionConflict", "ConstraintViolation"}
    BY Sentinel DEF Tags
  <2>. QED
    BY <2>1, <2>2, Zenon DEF Refusal
<1>4. tx'.req = req /\ tx'.instant = now /\ tx'.done = 0
  BY <1>1
<1>5. Enforced(tx.req, tx.instant)'
  BY <1>1, <1>3, <1>4 DEF Enforced
<1>6. PICK B : B = LiveFacts(store.datoms)
  OBVIOUS
<1>7. PICK ch : ch = tx'.changes
  OBVIOUS
<1>8. PICK g : Reflects(g, B, B, ch)
  BY ReflectsItself
<1>9. LiveFacts(buffer.datoms)' = B /\ LiveFacts(store.datoms)' = B
  BY <1>1, <1>2, <1>6
<1>10. Projected(B, req.ops, now, 0) = B
  BY ProjectedStart
<1>11. (\E h : Reflects(h, LiveFacts(buffer.datoms),
                        Projected(LiveFacts(store.datoms), tx.req.ops, tx.instant, tx.done), tx.changes))'
  BY <1>4, <1>7, <1>8, <1>9, <1>10
<1>. QED
  BY <1>1, <1>2, <1>5, <1>11 DEF EnforceInv

LEMMA AbortEnforce ==
    ASSUME EnforceInv, NEW tag, Abort(tag)
    PROVE  EnforceInv'
BY DEF EnforceInv, Abort

LEMMA CommitEnforce ==
    ASSUME IInv, EnforceInv, Commit
    PROVE  EnforceInv'
<1>1. tx' = NoTx /\ buffer' = store'
  BY CommitShape
<1>2. /\ \A i \in Ids(buffer.datoms) : i \in Ids(store'.datoms) /\ store'.datoms[i] = buffer.datoms[i]
      /\ \A i \in Ids(store'.datoms) \ Ids(buffer.datoms) : store'.datoms[i].entityType = TransactionType
  BY CommitFacts
<1>3. EntitiesNamed(store'.datoms)
  BY <1>2 DEF EnforceInv, EntitiesNamed
<1>4. IsFiniteSet(Ids(store'.datoms))
  <2>1. CASE ~ tx.req.journaled
    BY <2>1 DEF Commit, EnforceInv
  <2>2. CASE tx.req.journaled
    <3>1. store'.datoms = Journaled(buffer.datoms)
      BY <2>2 DEF Commit, IInv, TypeOK, Stores
    <3>2. Ids(store'.datoms) \subseteq Ids(buffer.datoms) \cup {FreshId(buffer.datoms)}
      <4>1. buffer.datoms \in DatomMaps
        BY BufferParts DEF Commit
      <4>2. \A i \in TripleIds \ {FreshId(buffer.datoms)} : store'.datoms[i] = buffer.datoms[i]
        BY <3>1, <4>1 DEF Journaled, DatomMaps
      <4>. QED
        BY <4>2 DEF Ids
    <3>3. IsFiniteSet(Ids(buffer.datoms) \cup {FreshId(buffer.datoms)})
      BY FS_AddElement DEF EnforceInv
    <3>. QED
      BY <3>2, <3>3, FS_Subset
  <2>. QED
    BY <2>1, <2>2
<1>. QED
  BY <1>1, <1>3, <1>4 DEF EnforceInv

LEMMA OpsOf ==
    ASSUME IInv, tx # NoTx
    PROVE  /\ DOMAIN tx.req.ops = 1..Len(tx.req.ops) /\ Len(tx.req.ops) \in Nat
           /\ \A i \in 1..Len(tx.req.ops) : /\ tx.req.ops[i] \in AssertOps \cup RetractOps \cup PatternOps
                                            /\ tx.req.ops[i].op \in OpTags
<1>1. tx.req.ops \in Seq(AssertOps \cup RetractOps \cup PatternOps)
  BY TransactionParts DEF IInv, Request
<1>2. \A o \in AssertOps \cup RetractOps \cup PatternOps : o.op \in OpTags
  BY DEF AssertOps, RetractOps, PatternOps, OpTags
<1>. QED
  BY <1>1, <1>2

\* The projection after one operation more.
LEMMA OneMore ==
    ASSUME IInv, NEW kind, Running(kind), NEW datoms, NEW changes, Proceed(datoms, changes)
    PROVE  Projected(LiveFacts(store.datoms), tx.req.ops, tx.instant, tx.done)'
             = Applied(Projected(LiveFacts(store.datoms), tx.req.ops, tx.instant, tx.done), Op, tx.done + 1, tx.instant)
<1>1. /\ tx # NoTx /\ store' = store /\ tx'.req = tx.req /\ tx'.done = tx.done + 1 /\ tx'.instant = tx.instant
  BY ProceedDone
<1>2. tx.done \in Nat /\ tx.done < Len(tx.req.ops)
  BY <1>1, TransactionParts DEF IInv, Running
<1>3. PICK n : n = tx.done + 1
  OBVIOUS
<1>4. PICK ops : ops = tx.req.ops
  OBVIOUS
<1>5. PICK B : B = LiveFacts(store.datoms)
  OBVIOUS
<1>6. PICK now : now = tx.instant
  OBVIOUS
<1>7. n \in Nat /\ n # 0 /\ n - 1 = tx.done /\ n \in 1..Len(ops) /\ Op = ops[n]
  BY <1>1, <1>2, <1>3, <1>4, OpsOf DEF Op
<1>8. ops[n].op \in {"assert", "retract", "retract-pattern"}
  BY <1>1, <1>4, <1>7, OpsOf DEF OpTags
<1>9. Projected(B, ops, now, n) = Applied(Projected(B, ops, now, n - 1), ops[n], n, now)
  BY <1>7, <1>8, ProjectedNext
<1>10. Projected(LiveFacts(store.datoms), tx.req.ops, tx.instant, tx.done)' = Projected(B, ops, now, n)
  BY <1>1, <1>3, <1>4, <1>5, <1>6
<1>. QED
  BY <1>3, <1>4, <1>5, <1>6, <1>7, <1>9, <1>10

LEMMA SameEnforced ==
    ASSUME IInv, EnforceInv, NEW kind, Running(kind), NEW datoms, NEW changes, Proceed(datoms, changes)
    PROVE  Enforced(tx.req, tx.instant)'
<1>1. /\ tx # NoTx /\ store' = store /\ tx'.req = tx.req /\ tx'.instant = tx.instant
  BY ProceedDone
<1>. QED
  BY <1>1 DEF EnforceInv, Enforced

\* Pending facts have ids of their own.
LEMMA PendingIsNew ==
    ASSUME NEW F, \A f \in F : f.id \in Nat, NEW ops, NEW now, NEW n \in Nat, NEW op
    PROVE  /\ PendingFact(op, n + 1, now) \notin Projected(F, ops, now, n)
           /\ PendingFact(op, n + 1, now).id \notin Nat
<1>1. PICK p : p = PendingFact(op, n + 1, now)
  OBVIOUS
<1>2. p.id = 0 - (n + 1)
  BY <1>1, PendingFields
<1>3. \A f \in Pending(ops, now, n) : \E k \in 1..n : f.id = 0 - k
  <2>1. TAKE f \in Pending(ops, now, n)
  <2>2. PICK k \in 1..n : f = PendingFact(ops[k], k, now)
    BY PendingIn
  <2>3. f.id = 0 - k
    BY <2>2, PendingFields
  <2>. QED
    BY <2>3
<1>4. p \notin F /\ p.id \notin Nat
  BY <1>2
<1>5. p \notin Pending(ops, now, n)
  BY <1>2, <1>3
<1>. QED
  BY <1>1, <1>4, <1>5 DEF Projected

LEMMA AssertEnforce ==
    ASSUME IInv, EnforceInv, ApplyAssert
    PROVE  EnforceInv'
<1> DEFINE id == FreshId(buffer.datoms)
           datom == tripleInputToDatom(Op, tx.instant, buffer.position)
           D == [buffer.datoms EXCEPT ![id] = datom]
<1>1. Running("assert") /\ Proceed(D, {<<"assert", id>>})
  BY DEF ApplyAssert
<1>2. id \in TripleIds /\ buffer.datoms[id] = NoDatom
  BY DEF ApplyAssert, FreshId
<1>3. PICK i : i = id
  OBVIOUS
<1>4. PICK e : e = datom
  OBVIOUS
<1>5. PICK old : old = buffer.datoms
  OBVIOUS
<1>6. PICK new : new = D
  OBVIOUS
<1>7. PICK now : now = tx.instant
  OBVIOUS
<1>8. new = [old EXCEPT ![i] = e] /\ i \in TripleIds /\ old[i] = NoDatom /\ Proceed(new, {<<"assert", i>>})
  BY <1>1, <1>2, <1>3, <1>4, <1>5, <1>6
<1> HIDE DEF id, datom, D
<1>9. /\ tx # NoTx /\ store' = store /\ buffer'.datoms = new /\ tx'.req = tx.req /\ tx'.instant = tx.instant
      /\ tx'.done = tx.done + 1
  BY <1>1, <1>8, ProceedDone
<1>10. tx'.changes = tx.changes \cup {<<"assert", i>>}
  BY <1>8, <1>9, TransactionParts DEF Proceed, IInv, Transactions
<1>11. old \in DatomMaps /\ buffer.position \in Positions
  BY <1>5, <1>9, BufferParts
<1>12. Op \in AssertOps
  BY <1>1, OpShape DEF IInv, RetractOps, PatternOps, Running
<1>13. e \in Datoms /\ e.retractedAt = None
  BY <1>1, <1>4, <1>11, AssertedDatom DEF IInv, datom
<1>14. PICK p : p = PendingFact(Op, tx.done + 1, now)
  OBVIOUS
<1>15. SameFields(e, p)
  BY <1>4, <1>7, <1>14 DEF datom, tripleInputToDatom, PendingFact, SameFields
<1>16. new[i] = e /\ \A j \in TripleIds \ {i} : new[j] = old[j]
  BY <1>8, <1>11 DEF DatomMaps
<1>17. i \notin Ids(old) /\ Ids(new) = Ids(old) \cup {i} /\ LiveIds(new) = LiveIds(old) \cup {i}
  <2>1. i \notin Ids(old) /\ Ids(new) = Ids(old) \cup {i}
    BY <1>8, <1>13, <1>16, DatomParts DEF Ids
  <2>. QED
    BY <1>13, <1>16, <2>1 DEF LiveIds, Live, Ids
<1>18. PICK n : n = FactAt(new, i)
  OBVIOUS
<1>19. n.id = i /\ SameFields(n, p) /\ n \notin LiveFacts(old)
  <2>1. n.id = i /\ SameFields(new[i], n)
    BY <1>18, FactsAre
  <2>2. SameFields(n, p)
    BY <1>15, <1>16, <2>1 DEF SameFields
  <2>3. \A f \in LiveFacts(old) : f.id \in Ids(old)
    BY FactsAre DEF LiveIds
  <2>. QED
    BY <1>17, <2>1, <2>2, <2>3
<1>20. LiveFacts(new) = LiveFacts(old) \cup {n}
  <2>1. \A j \in LiveIds(old) : FactAt(new, j) = FactAt(old, j)
    BY <1>16, <1>17 DEF LiveIds, Ids, FactAt
  <2>2. \A f : f \in LiveFacts(new) <=> f \in LiveFacts(old) \cup {n}
    BY <1>17, <1>18, <2>1, FactsAre
  <2>. QED
    BY <2>2
<1>21. PICK A : A = Projected(LiveFacts(store.datoms), tx.req.ops, tx.instant, tx.done)
  OBVIOUS
<1>22. \A f \in LiveFacts(store.datoms) : f.id \in Nat
  BY FactsAre, BoundAssumption DEF LiveIds, Ids
<1>23. tx.done \in Nat
  BY <1>9, TransactionParts DEF IInv
<1>24. p \notin A /\ p.id \notin TripleIds
  BY <1>7, <1>14, <1>21, <1>22, <1>23, PendingIsNew, BoundAssumption
<1>25. Projected(LiveFacts(store.datoms), tx.req.ops, tx.instant, tx.done)' = A \cup {p}
  <2>1. Op.op = "assert"
    BY <1>1 DEF Running
  <2>. QED
    BY <1>1, <1>7, <1>8, <1>14, <1>21, <2>1, OneMore DEF Applied
<1>26. PICK ch : ch = tx.changes
  OBVIOUS
<1>27. PICK g : Reflects(g, LiveFacts(old), A, ch)
  BY <1>5, <1>9, <1>21, <1>26 DEF EnforceInv
<1>28. PICK h : Reflects(h, LiveFacts(old) \cup {n}, A \cup {p}, ch \cup {<<"assert", n.id>>})
  BY <1>19, <1>24, <1>27, ReflectsAdded
<1>29. (\E x : Reflects(x, LiveFacts(buffer.datoms),
                        Projected(LiveFacts(store.datoms), tx.req.ops, tx.instant, tx.done), tx.changes))'
  BY <1>9, <1>10, <1>19, <1>20, <1>25, <1>26, <1>28
<1>30. Enforced(tx.req, tx.instant)'
  BY <1>1, <1>8, SameEnforced
<1>31. IsFiniteSet(Ids(new)) /\ EntitiesNamed(new)
  <2>1. IsFiniteSet(Ids(old)) /\ EntitiesNamed(old)
    BY <1>5 DEF EnforceInv
  <2>2. IsFiniteSet(Ids(new))
    BY <1>17, <2>1, FS_AddElement
  <2>3. e.entity \in EntityIds
    BY <1>4, <1>12 DEF datom, tripleInputToDatom, AssertOps
  <2>. QED
    BY <1>16, <1>17, <2>1, <2>2, <2>3 DEF EntitiesNamed, Ids
<1>. QED
  BY <1>9, <1>29, <1>30, <1>31 DEF EnforceInv

\* The facts a retraction removes are those the projection removes.
LEMMA RetractEnforce ==
    ASSUME IInv, EnforceInv, NEW kind, Running(kind), kind # "assert", NEW ids \in SUBSET LiveIds(buffer.datoms),
           Proceed(Retracted(ids), {"retract"} \X ids),
           \A g : Reflects(g, LiveFacts(buffer.datoms),
                           Projected(LiveFacts(store.datoms), tx.req.ops, tx.instant, tx.done), tx.changes)
                    => \A f \in LiveFacts(buffer.datoms) : f.id \in ids <=> Removes(Op, g[f])
    PROVE  EnforceInv'
<1>1. /\ tx # NoTx /\ store' = store /\ tx'.req = tx.req /\ tx'.done = tx.done + 1
      /\ Ids(buffer'.datoms) = Ids(buffer.datoms)
      /\ LiveIds(buffer'.datoms) = LiveIds(buffer.datoms) \ ids
      /\ \A i \in TripleIds \ ids : buffer'.datoms[i] = buffer.datoms[i]
      /\ \A i \in ids : /\ i \in TripleIds
                        /\ buffer'.datoms[i].entity = buffer.datoms[i].entity
                        /\ buffer'.datoms[i].entityType = buffer.datoms[i].entityType
  BY RetractMarks
<1>2. tx'.changes = tx.changes \cup ({"retract"} \X ids)
  BY <1>1, TransactionParts DEF Proceed, IInv, Transactions
<1>3. PICK old : old = buffer.datoms
  OBVIOUS
<1>4. PICK new : new = buffer'.datoms
  OBVIOUS
<1>5. PICK A : A = Projected(LiveFacts(store.datoms), tx.req.ops, tx.instant, tx.done)
  OBVIOUS
<1>6. PICK op : op = Op
  OBVIOUS
<1>7. PICK ch : ch = tx.changes
  OBVIOUS
<1>8. PICK g : Reflects(g, LiveFacts(old), A, ch)
  BY <1>1, <1>3, <1>5, <1>7 DEF EnforceInv
<1>9. \A f \in LiveFacts(old) : f.id \in ids <=> Removes(op, g[f])
  BY <1>3, <1>5, <1>6, <1>7, <1>8
<1>10. \A f : f \in LiveFacts(new) <=> f \in LiveFacts(old) /\ f.id \notin ids
  <2>1. LiveIds(new) = LiveIds(old) \ ids
    BY <1>1, <1>3, <1>4
  <2>2. \A j \in LiveIds(new) : FactAt(new, j) = FactAt(old, j)
    BY <1>1, <1>3, <1>4, <2>1 DEF LiveIds, Ids, FactAt
  <2>. QED
    BY <2>1, <2>2, FactsAre
<1>11. PICK C : C = {x \in A : ~Removes(op, x)}
  OBVIOUS
<1>12. op.op # "assert"
  BY <1>6 DEF Running
<1>13. Projected(LiveFacts(store.datoms), tx.req.ops, tx.instant, tx.done)' = C
  BY <1>5, <1>6, <1>11, <1>12, OneMore DEF Applied
<1>14. /\ LiveFacts(new) \in SUBSET LiveFacts(old) /\ C \in SUBSET A
       /\ \A f \in LiveFacts(old) : f \in LiveFacts(new) <=> g[f] \in C
  BY <1>8, <1>9, <1>10, <1>11 DEF Reflects
<1>15. PICK more : more = {"retract"} \X ids
  OBVIOUS
<1>16. Reflects(g, LiveFacts(new), C, ch \cup more)
  BY <1>8, <1>14, ReflectsKept
<1>17. (\E x : Reflects(x, LiveFacts(buffer.datoms),
                        Projected(LiveFacts(store.datoms), tx.req.ops, tx.instant, tx.done), tx.changes))'
  BY <1>2, <1>4, <1>7, <1>13, <1>15, <1>16
<1>18. Enforced(tx.req, tx.instant)'
  BY SameEnforced
<1>19. EntitiesNamed(new)
  <2>1. \A i \in Ids(old) : new[i].entity = old[i].entity /\ new[i].entityType = old[i].entityType
    BY <1>1, <1>3, <1>4 DEF Ids
  <2>. QED
    BY <1>1, <1>3, <1>4, <2>1 DEF EnforceInv, EntitiesNamed
<1>. QED
  BY <1>1, <1>4, <1>17, <1>18, <1>19 DEF EnforceInv

LEMMA SamePattern ==
    ASSUME PlainValues, NEW op \in PatternOps, NEW d, Plain(d.value), NEW f, SameFields(d, f)
    PROVE  patternMatches(f, op) <=> matchesPattern(d, op) /\ op.entityType \in {None, d.entityType}
<1>1. op.value = None \/ Plain(op.value)
  BY DEF PatternOps, PlainValues
<1>2. f.entity = d.entity /\ f.attribute = d.attribute /\ f.value = d.value /\ f.entityType = d.entityType
  BY DEF SameFields
<1>3. CASE op.value = None
  BY <1>2, <1>3 DEF patternMatches, matchesPattern
<1>4. CASE op.value # None
  <2>1. valueKey(f) = <<d.value.type, d.value.value>>
    BY <1>2 DEF valueKey, CanonicalEncoding, Plain
  <2>2. CanonicalEncoding(op.value) = <<op.value.type, op.value.value>>
    BY <1>1, <1>4 DEF CanonicalEncoding, Plain
  <2>3. valuesEqual(d.value, op.value) <=> d.value.type = op.value.type /\ d.value.value = op.value.value
    BY <1>1, <1>4 DEF valuesEqual, Plain
  <2>4. valueKey(f) = CanonicalEncoding(op.value) <=> valuesEqual(d.value, op.value)
    BY <2>1, <2>2, <2>3
  <2>. QED
    BY <1>2, <1>4, <2>4 DEF patternMatches, matchesPattern
<1>. QED
  BY <1>3, <1>4

LEMMA ApplyRetractEnforce ==
    ASSUME IInv, EnforceInv, IdsUnforeseen, ApplyRetract
    PROVE  EnforceInv'
<1> DEFINE ids == {Op.id} \cap LiveIds(buffer.datoms)
<1>1. Running("retract") /\ Proceed(Retracted(ids), {"retract"} \X ids) /\ Op.op = "retract"
  BY DEF ApplyRetract, Running
<1>2. <<"assert", Op.id>> \notin tx.changes /\ Op.id \in TripleIds
  <2>1. Op \in RetractOps
    BY <1>1, OpShape DEF IInv, AssertOps, PatternOps
  <2>. QED
    BY <1>1, <2>1 DEF IdsUnforeseen, RetractOps
<1>3. ASSUME NEW g, NEW A, Reflects(g, LiveFacts(buffer.datoms), A, tx.changes),
             NEW f \in LiveFacts(buffer.datoms)
      PROVE  f.id \in ids <=> Removes(Op, g[f])
  <2>1. f.id \in LiveIds(buffer.datoms) /\ f.id \in TripleIds
    BY FactsAre DEF LiveIds, Ids
  <2>2. g[f].id = f.id \/ (<<"assert", f.id>> \in tx.changes /\ g[f].id \notin TripleIds)
    BY <1>3 DEF Reflects
  <2>3. Removes(Op, g[f]) <=> g[f].id = Op.id
    BY <1>1 DEF Removes
  <2>. QED
    BY <1>2, <2>1, <2>2, <2>3
<1>4. ids \in SUBSET LiveIds(buffer.datoms)
  OBVIOUS
<1> HIDE DEF ids
<1>. QED
  BY <1>1, <1>3, <1>4, RetractEnforce

LEMMA ApplyPatternEnforce ==
    ASSUME PlainValues, IInv, EnforceInv, ApplyRetractPattern
    PROVE  EnforceInv'
<1>1. /\ Running("retract-pattern") /\ Proceed(Retracted(PatternIds), {"retract"} \X PatternIds)
      /\ Op.op = "retract-pattern" /\ tx # NoTx
  BY DEF ApplyRetractPattern, Running
<1>2. Op \in PatternOps
  BY <1>1, OpShape DEF IInv, AssertOps, RetractOps
<1>3. PatternIds \in SUBSET LiveIds(buffer.datoms)
  BY DEF PatternIds, ScanIds
<1>4. FactsOK(LiveFacts(buffer.datoms))
  BY StoreFactsOK DEF IInv, TypeOK, EnforceInv
<1>5. ASSUME NEW g, NEW A, Reflects(g, LiveFacts(buffer.datoms), A, tx.changes),
             NEW f \in LiveFacts(buffer.datoms)
      PROVE  f.id \in PatternIds <=> Removes(Op, g[f])
  <2>1. f.id \in LiveIds(buffer.datoms) /\ SameFields(buffer.datoms[f.id], f)
    BY FactsAre
  <2>2. SameFields(f, g[f])
    BY <1>5 DEF Reflects
  <2>3. SameFields(buffer.datoms[f.id], g[f])
    BY <2>1, <2>2 DEF SameFields
  <2>4. Plain(buffer.datoms[f.id].value)
    BY <1>4, <2>1 DEF FactsOK, SameFields, Plain
  <2>5. PICK op : op = Op
    OBVIOUS
  <2>6. PICK d : d = buffer.datoms[f.id]
    OBVIOUS
  <2>7. PICK x : x = g[f]
    OBVIOUS
  <2>8. patternMatches(x, op) <=> matchesPattern(d, op) /\ op.entityType \in {None, d.entityType}
    BY <1>2, <2>3, <2>4, <2>5, <2>6, <2>7, SamePattern
  <2>9. f.id \in PatternIds <=> matchesPattern(d, op) /\ op.entityType \in {None, d.entityType}
    BY <2>1, <2>5, <2>6 DEF PatternIds, ScanIds
  <2>10. Removes(op, x) <=> patternMatches(x, op)
    BY <1>1, <2>5 DEF Removes
  <2>. QED
    BY <2>5, <2>7, <2>8, <2>9, <2>10
<1>. QED
  BY <1>1, <1>3, <1>5, RetractEnforce

LEMMA EnforceNext ==
    ASSUME PlainValues
    PROVE  IInv /\ EnforceInv /\ IdsUnforeseen /\ [Next]_vars => EnforceInv'
<1> SUFFICES ASSUME IInv, EnforceInv, IdsUnforeseen, [Next]_vars PROVE EnforceInv'
  OBVIOUS
<1>1. ASSUME NEW c \in Clients, NEW req \in Requests, NEW now \in Instants, Begin(c, req, now)
      PROVE  EnforceInv'
  BY <1>1, BeginEnforce
<1>2. ASSUME NEW c \in Clients, NEW req \in Requests, NEW now \in Instants, Refuse(c, req, now)
      PROVE  EnforceInv'
  <2>1. UNCHANGED <<store, buffer, tx>>
    BY <1>2 DEF Refuse
  <2>. QED
    BY <2>1 DEF EnforceInv, Enforced
<1>3. CASE ApplyAssert
  BY <1>3, AssertEnforce
<1>4. CASE ApplyRetract
  BY <1>4, ApplyRetractEnforce
<1>5. CASE ApplyRetractPattern
  BY <1>5, ApplyPatternEnforce
<1>6. CASE RefuseRetract \/ RefuseRetractPattern \/ Interrupt
  <2>1. \E tag : Abort(tag)
    BY <1>6 DEF RefuseRetract, RefuseRetractPattern, Interrupt
  <2>. QED
    BY <2>1, AbortEnforce
<1>7. CASE Commit
  BY <1>7, CommitEnforce
<1>8. CASE UNCHANGED vars
  BY <1>8 DEF vars, EnforceInv, Enforced
<1>. QED
  BY <1>1, <1>2, <1>3, <1>4, <1>5, <1>6, <1>7, <1>8 DEF Next, Step

\* Facts of other entities take nothing from a rule: they can only be
\* targets of references.
LEMMA ForeignFacts ==
    ASSUME NEW F, NEW G, F \subseteq G, \A f \in G : f \notin F => f.entity \notin EntityIds,
           NEW rule, RuleOK(rule), NEW s \in EntityIds, NEW at
    PROVE  /\ HoldsFor(rule, s, F, at) => HoldsFor(rule, s, G, at)
           /\ Constrained(rule, s, F, at) = Constrained(rule, s, G, at)
<1>1. \A t \in EntityIds : FactsOf(F, at, t) = FactsOf(G, at, t)
  BY DEF FactsOf
<1>2. \A t \in EntityIds : /\ IsSubject(rule, t, F, at) <=> IsSubject(rule, t, G, at)
                           /\ Constrained(rule, t, F, at) = Constrained(rule, t, G, at)
  BY <1>1 DEF IsSubject, Constrained
<1>3. UniqueFor(rule, s, F, at) => UniqueFor(rule, s, G, at)
  BY <1>2 DEF UniqueFor
<1>4. \A x : FactsOf(F, at, x) \subseteq FactsOf(G, at, x)
  BY DEF FactsOf
<1>5. ReferencesFor(rule, s, F, at) => ReferencesFor(rule, s, G, at)
  BY <1>2, <1>4 DEF ReferencesFor
<1>. QED
  BY <1>2, <1>3, <1>5 DEF HoldsFor

\* A commit adds at most its record to the facts of the buffer.
LEMMA CommitAddsRecord ==
    ASSUME EntitiesApart, IInv, Commit
    PROVE  /\ LiveFacts(buffer.datoms) \subseteq LiveFacts(store'.datoms)
           /\ \A f \in LiveFacts(store'.datoms) : f \notin LiveFacts(buffer.datoms) => f.entity \notin EntityIds
<1>1. PICK old : old = buffer.datoms
  OBVIOUS
<1>2. PICK new : new = store'.datoms
  OBVIOUS
<1>3. buffer.position \in Positions
  BY BufferParts DEF Commit
<1>4. /\ \A i \in Ids(old) : i \in Ids(new) /\ new[i] = old[i]
      /\ \A i \in Ids(new) \ Ids(old) : new[i].entity \notin EntityIds
  BY <1>1, <1>2, <1>3, CommitFacts DEF EntitiesApart
<1>5. \A i \in Ids(old) : /\ i \in LiveIds(old) <=> i \in LiveIds(new)
                          /\ FactAt(old, i) = FactAt(new, i)
  BY <1>4 DEF LiveIds, FactAt
<1>6. \A i \in LiveIds(old) : i \in Ids(old)
  BY DEF LiveIds
<1>7. LiveFacts(old) \subseteq LiveFacts(new)
  BY <1>5, <1>6, FactsAre
<1>8. ASSUME NEW f \in LiveFacts(new), f \notin LiveFacts(old) PROVE f.entity \notin EntityIds
  <2>1. f.id \in LiveIds(new) /\ f = FactAt(new, f.id) /\ SameFields(new[f.id], f) /\ f.id \in Ids(new)
    BY FactsAre DEF LiveIds
  <2>2. f.id \notin Ids(old)
    BY <1>5, <1>8, <2>1, FactsAre
  <2>. QED
    BY <1>4, <2>1, <2>2 DEF SameFields
<1>. QED
  BY <1>1, <1>2, <1>7, <1>8

\* Journal records are not about a caller's entity.
LEMMA RecordsApart ==
    ASSUME EntitiesApart, NEW t \in Stores, StoreSound(t), NEW f \in LiveFacts(t.datoms),
           f.entityType = TransactionType
    PROVE  f.entity \notin EntityIds
<1>1. f.id \in Ids(t.datoms) /\ SameFields(t.datoms[f.id], f)
  BY FactsAre DEF LiveIds
<1>2. f.id \in RecordIds(t.datoms)
  BY <1>1 DEF RecordIds, SameFields
<1>3. t.datoms[f.id].entity = t.datoms[f.id].recordedPosition
  BY <1>2 DEF StoreSound, JournalTrue, RecordTrue
<1>4. t.datoms[f.id].recordedPosition \in Positions
  BY <1>1, StoreParts, DatomParts
<1>. QED
  BY <1>1, <1>3, <1>4 DEF EntitiesApart, SameFields

LEMMA CommitKeepsRules ==
    ASSUME PlainValues, EntitiesApart, \A r \in Rules : RuleOK(r), IInv, IInv', EnforceInv, Commit,
           NEW rule \in tx.req.rules, NEW s \in EntityIds, NEW at \in Instants
    PROVE  \/ HoldsFor(rule, s, LiveFacts(store'.datoms), at)
           \/ BrokenNoWorse(rule, s, LiveFacts(store.datoms), LiveFacts(store'.datoms), at)
<1>1. tx # NoTx /\ tx.done = Len(tx.req.ops)
  BY DEF Commit
<1>2. tx.req.rules \subseteq Rules /\ at \in Nat
  BY <1>1, TransactionParts, BoundAssumption DEF IInv, Request
<1>3. RuleOK(rule) /\ \A r \in tx.req.rules : RuleOK(r)
  BY <1>2
<1>4. PICK B : B = LiveFacts(store.datoms)
  OBVIOUS
<1>5. PICK F : F = LiveFacts(buffer.datoms)
  OBVIOUS
<1>6. PICK G : G = LiveFacts(store'.datoms)
  OBVIOUS
<1>7. F \subseteq G /\ \A f \in G : f \notin F => f.entity \notin EntityIds
  BY <1>5, <1>6, CommitAddsRecord
<1>8. CASE rule.entityType = TransactionType
  <2>1. store' \in Stores /\ StoreSound(store')
    BY DEF IInv, TypeOK
  <2>2. PICK t : t = store'
    OBVIOUS
  <2>3. \A f \in G : f.entityType = TransactionType => f.entity \notin EntityIds
    BY <1>6, <2>1, <2>2, RecordsApart
  <2>4. ~IsSubject(rule, s, G, at)
    BY <1>8, <2>3 DEF IsSubject, FactsOf
  <2>. QED
    BY <1>6, <2>4 DEF HoldsFor
<1>9. CASE rule.entityType # TransactionType
  <2>1. PICK ops : ops = tx.req.ops
    OBVIOUS
  <2>2. PICK now : now = tx.instant
    OBVIOUS
  <2>3. PICK rules : rules = tx.req.rules
    OBVIOUS
  <2>4. PICK A : A = Projected(B, ops, now, Len(ops))
    OBVIOUS
  <2>5. PICK ch : ch = tx.changes
    OBVIOUS
  <2>6. PICK g : Reflects(g, F, A, ch)
    BY <1>1, <1>4, <1>5, <2>1, <2>2, <2>4, <2>5 DEF EnforceInv
  <2>7. FactsOK(B) /\ FactsOK(F)
    BY <1>4, <1>5, StoreFactsOK DEF IInv, TypeOK, EnforceInv
  <2>8. FactsOK(A) /\ IsFiniteSet(F)
    BY <2>6, <2>7, ReflectsFacts DEF FactsOK
  <2>9. Named(B, rule)
    <3>1. \A f \in B : f.id \in Ids(store.datoms) /\ SameFields(store.datoms[f.id], f)
      BY <1>4, FactsAre DEF LiveIds
    <3>. QED
      BY <1>9, <3>1 DEF Named, EnforceInv, EntitiesNamed, SameFields
  <2>10. newlyViolated(loadRelevantFacts(rules, ops, B), ops, rules, now) = {}
    BY <1>1, <1>4, <2>1, <2>2, <2>3 DEF EnforceInv, Enforced
  <2>11. /\ Len(ops) \in Nat /\ DOMAIN ops = 1..Len(ops)
         /\ \A i \in 1..Len(ops) : ops[i].op \in OpTags
    BY <1>1, <2>1, OpsOf
  <2>12. rule \in rules /\ \A r \in rules : RuleOK(r)
    BY <1>3, <2>3
  <2>13. HoldsFor(rule, s, A, at) \/ BrokenNoWorse(rule, s, B, A, at)
    BY <1>2, <2>4, <2>7, <2>8, <2>9, <2>10, <2>11, <2>12, EnforcedKeeps
  <2>14. /\ HoldsFor(rule, s, F, at) <=> HoldsFor(rule, s, A, at)
         /\ Cardinality(Constrained(rule, s, F, at)) = Cardinality(Constrained(rule, s, A, at))
    BY <2>6, <2>8, ReflectsRules
  <2>15. HoldsFor(rule, s, F, at) \/ BrokenNoWorse(rule, s, B, F, at)
    BY <2>13, <2>14 DEF BrokenNoWorse
  <2>16. /\ HoldsFor(rule, s, F, at) => HoldsFor(rule, s, G, at)
         /\ Constrained(rule, s, F, at) = Constrained(rule, s, G, at)
    BY <1>3, <1>7, ForeignFacts
  <2>17. HoldsFor(rule, s, G, at) \/ BrokenNoWorse(rule, s, B, G, at)
    BY <2>15, <2>16 DEF BrokenNoWorse
  <2>. QED
    BY <1>4, <1>6, <2>17
<1>. QED
  BY <1>8, <1>9

\* Enforcement keeps its promise (EnforcedRulesKept) although it decides on
\* a projection of the operations, on the facts loadRelevantFacts selects and
\* at their boundaries only: whatever the rules, requests and clocks, a commit
\* under a rule breaks it for no entity at any instant.  The values are ones
\* that CanonicalJson and valuesEqual tell apart alike, entities are no
\* transactions, and a transaction names no id that it draws itself.
THEOREM EnforcementKeepsRules ==
    ASSUME PlainValues, EntitiesApart, \A r \in Rules : RuleOK(r)
    PROVE  Spec /\ []IdsUnforeseen => EnforcedRulesKept
<1> DEFINE Kept == \A rule \in Rules, s \in EntityIds, at \in Instants :
          CommitsUnder(rule) =>
            LET before == LiveFacts(store.datoms)  after == LiveFacts(store'.datoms)
            IN  HoldsFor(rule, s, after, at) \/ BrokenNoWorse(rule, s, before, after, at)
<1>1. IInv /\ IInv' /\ EnforceInv /\ [Next]_vars => [Kept]_vars
  <2> SUFFICES ASSUME IInv, IInv', EnforceInv, [Next]_vars,
                      NEW rule \in Rules, NEW s \in EntityIds, NEW at \in Instants, CommitsUnder(rule)
               PROVE  \/ HoldsFor(rule, s, LiveFacts(store'.datoms), at)
                      \/ BrokenNoWorse(rule, s, LiveFacts(store.datoms), LiveFacts(store'.datoms), at)
    OBVIOUS
  <2>1. Commit
    BY OnlyCommitWrites DEF CommitsUnder
  <2>. QED
    BY <2>1, CommitKeepsRules DEF CommitsUnder
<1>2. Init => EnforceInv
  BY EnforceInit
<1>3. IInv /\ EnforceInv /\ IdsUnforeseen /\ [Next]_vars => EnforceInv'
  BY EnforceNext
<1>4. EnforcedRulesKept <=> [][Kept]_vars
  BY DEF EnforcedRulesKept
<1> HIDE DEF Kept
<1>. QED
  BY <1>1, <1>2, <1>3, <1>4, Invariance, PTL DEF Spec

=============================================================================
