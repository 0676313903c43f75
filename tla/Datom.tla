------------------------------- MODULE Datom -------------------------------
(***************************************************************************)
(* Facts of the triple store and the pure functions on them.               *)
(*                                                                         *)
(* A datom is one fact (entity, attribute, value) of an entity type, with  *)
(* its two time axes: the recorded axis (recordedAt / recordedPosition     *)
(* when a transaction asserted it, retractedAt / retractedPosition when a  *)
(* later one retracted it) and the valid axis [validFrom, validTo).        *)
(* Transaction identifiers are fresh per attempt, so a committed           *)
(* transaction is named by its commit position; createdBy carries no       *)
(* decision of the store and is left out.                                  *)
(***************************************************************************)
EXTENDS Integers, Sequences, FiniteSets

CONSTANT None       \* null / undefined / Option.none of the code

(***************************************************************************)
(* Values are records tagged with their type, as in Value.ts.  A blob has  *)
(* its content hash (value) and descriptive fields (info); json its text   *)
(* and its canonical form; a sealed value a blind token, or None, and a    *)
(* ciphertext.  All the other types compare by `value`.                    *)
(***************************************************************************)
valuesEqual(a, b) ==
    /\ a.type = b.type
    /\ CASE a.type = "json"   -> a.text = b.text
         [] a.type = "sealed" ->
              IF a.blind # None \/ b.blind # None THEN a.blind = b.blind
                                                  ELSE a.ciphertext = b.ciphertext
         [] OTHER             -> a.value = b.value

\* None in a pattern field is "any".
matchesPattern(datom, pattern) ==
    /\ pattern.entity \in {None, datom.entity}
    /\ pattern.attribute \in {None, datom.attribute}
    /\ pattern.value = None \/ valuesEqual(datom.value, pattern.value)

\* A fact is live when no transaction retracted it, whatever its valid time.
Live(datom) == datom.retractedAt = None

ValidAt(fact, validAt) ==
    /\ fact.validFrom <= validAt
    /\ fact.validTo = None \/ fact.validTo > validAt

\* Faulty form: retractions are cut by instant only, like a basis without a
\* position.
RecordedVisible_Bug(datom, basis) ==
    /\ basis.recordedPosition # None => datom.recordedPosition <= basis.recordedPosition
    /\ basis.recordedAt # None => datom.recordedAt <= basis.recordedAt
    /\ \/ datom.retractedAt = None
       \/ basis.recordedAt # None /\ datom.retractedAt > basis.recordedAt

(***************************************************************************)
(* The recorded half of visibleAt.  A basis gives a commit position, an    *)
(* instant, both, or neither (the latest state).                           *)
(***************************************************************************)
RecordedVisible(datom, basis) ==
    IF basis.recordedPosition # None
    THEN /\ datom.recordedPosition <= basis.recordedPosition
         /\ basis.recordedAt = None \/ datom.recordedAt <= basis.recordedAt
         /\ \/ datom.retractedAt = None
            \/ basis.recordedAt # None /\ datom.retractedAt > basis.recordedAt
            \/ datom.retractedPosition > basis.recordedPosition
    ELSE IF basis.recordedAt = None
         THEN datom.retractedAt = None
         ELSE /\ datom.recordedAt <= basis.recordedAt
              /\ datom.retractedAt = None \/ datom.retractedAt > basis.recordedAt

visibleAt(datom, basis) ==
    RecordedVisible(datom, basis) /\ ValidAt(datom, basis.validAt)

\* resolveTemporalBasis: an omitted valid instant is the reader's clock.
resolveTemporalBasis(recordedAt, validAt, now) ==
    [ recordedAt |-> recordedAt, recordedPosition |-> None,
      validAt |-> IF validAt = None THEN now ELSE validAt ]

\* An assertion's datom: validFrom defaults to the transaction's instant.
tripleInputToDatom(input, recordedAt, recordedPosition) ==
    [ entity |-> input.entity, attribute |-> input.attribute,
      value |-> input.value, entityType |-> input.entityType,
      recordedAt |-> recordedAt, recordedPosition |-> recordedPosition,
      validFrom |-> IF input.validFrom = None THEN recordedAt ELSE input.validFrom,
      validTo |-> input.validTo,
      retractedAt |-> None, retractedPosition |-> None ]

\* Faulty form: the position of the retraction is forgotten.
RetractedDatom_Bug(datom, at, position) == [datom EXCEPT !.retractedAt = at]

\* The rewritten META record of a retraction.
RetractedDatom(datom, at, position) ==
    [datom EXCEPT !.retractedAt = at, !.retractedPosition = position]

=============================================================================
