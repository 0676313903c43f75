----------------------------- MODULE Constraint -----------------------------
(***************************************************************************)
(* Portable graph-constraint rules and their evaluation against the        *)
(* post-state a transaction would produce.  A rule is a record             *)
(*   [tag, entityType, attribute, max, target]                             *)
(* with tag Required, Cardinality (max), Unique or ReferenceTarget         *)
(* (target, an entity type).  A fact is a datom record with its triple id. *)
(* Lists of the code whose order carries no decision are sets here.        *)
(***************************************************************************)
EXTENDS Datom

FactsOfType(facts, type) == {f \in facts : f.entityType = type}

FactsOfEntities(facts, entities) == {f \in facts : f.entity \in entities}

\* The indices of the assert operations.
AssertIndices(ops) == {i \in DOMAIN ops : ops[i].op = "assert"}

(***************************************************************************)
(* The facts enforcement reads: rows of the source types, every row of the *)
(* entities they or the transaction's assertions name, and the rows of the *)
(* reference targets' types.                                               *)
(***************************************************************************)
loadRelevantFacts(rules, ops, live) ==
    LET sourceTypes == {r.entityType : r \in rules}
        targetTypes == {r.target : r \in {q \in rules : q.tag = "ReferenceTarget"}}
        sourceIds   == {f.entity : f \in {g \in live : g.entityType \in sourceTypes}}
                         \cup {ops[i].entity : i \in
                               {j \in AssertIndices(ops) : ops[j].entityType \in sourceTypes}}
    IN  {f \in live : \/ f.entityType \in sourceTypes
                      \/ f.entity \in sourceIds
                      \/ f.entityType \in targetTypes}

(***************************************************************************)
(* CanonicalJson.encode of a value: json by canonical form, a blob with    *)
(* its descriptive fields, a sealed value as the whole envelope.           *)
(***************************************************************************)
CanonicalEncoding(value) ==
    CASE value.type = "json" -> <<"json", value.canonical>>
      [] value.type = "blob" -> <<"blob", value.value, value.info>>
      [] value.type = "sealed" -> <<"sealed-envelope", value.blind, value.ciphertext>>
      [] OTHER -> <<value.type, value.value>>

\* A value's identity for uniqueness: sealed values by blind token only.
valueKey(fact) ==
    IF fact.value.type = "sealed"
    THEN IF fact.value.blind = None THEN <<"sealed-unblinded", fact.id>>
                                    ELSE <<"sealed", fact.value.blind>>
    ELSE CanonicalEncoding(fact.value)

Violation(rule, subject, actual, identity) ==
    [rule |-> rule, subject |-> subject, actual |-> actual, identity |-> identity]

\* Facts that can count for a rule: those of the rule's visible subjects.
TypedFacts(visible, rule) ==
    FactsOfEntities(visible, {f.entity : f \in FactsOfType(visible, rule.entityType)})

CountOf(typed, subject, rule) ==
    Cardinality({f \in typed : f.entity = subject /\ f.attribute = rule.attribute})

RequiredViolations(visible, rule) ==
    LET typed == TypedFacts(visible, rule)
    IN  {Violation(rule, s, 0, None) :
            s \in {t \in {f.entity : f \in typed} : CountOf(typed, t, rule) = 0}}

CardinalityViolations(visible, rule) ==
    LET typed == TypedFacts(visible, rule)
    IN  {Violation(rule, s, CountOf(typed, s, rule), None) :
            s \in {t \in {f.entity : f \in typed} : CountOf(typed, t, rule) > rule.max}}

UniqueViolations(visible, rule) ==
    LET claims == {f \in TypedFacts(visible, rule) : f.attribute = rule.attribute}
        claimants(key) == {f.entity : f \in {g \in claims : valueKey(g) = key}}
    IN  {Violation(rule, f.entity, Cardinality(claimants(valueKey(f))), valueKey(f)) :
            f \in {g \in claims : Cardinality(claimants(valueKey(g))) >= 2}}

ReferenceViolations(visible, rule) ==
    LET targets == {f.entity : f \in FactsOfType(visible, rule.target)}
    IN  {Violation(rule, f.entity, 1, valueKey(f)) :
            f \in {g \in TypedFacts(visible, rule) :
                     /\ g.attribute = rule.attribute
                     /\ ~ (g.value.type = "ref" /\ g.value.value \in targets)}}

\* Every violation of the rules by the facts valid at one instant.
evaluateFacts(facts, rules, validAt) ==
    LET visible == {f \in facts : ValidAt(f, validAt)}
    IN  UNION {CASE r.tag = "Required"    -> RequiredViolations(visible, r)
                 [] r.tag = "Cardinality" -> CardinalityViolations(visible, r)
                 [] r.tag = "Unique"      -> UniqueViolations(visible, r)
                 [] OTHER                 -> ReferenceViolations(visible, r) : r \in rules}

\* Which projected facts a retract-pattern operation takes away.
patternMatches(fact, pattern) ==
    /\ pattern.entity \in {None, fact.entity}
    /\ pattern.attribute \in {None, fact.attribute}
    /\ pattern.entityType \in {None, fact.entityType}
    /\ pattern.value # None => valueKey(fact) = CanonicalEncoding(pattern.value)

\* The fact an assertion adds to the projection; its pending identity is
\* negative, so it is no triple id.
PendingFact(op, index, instant) ==
    [ id |-> 0 - index, entity |-> op.entity,
      attribute |-> op.attribute, value |-> op.value, entityType |-> op.entityType,
      validFrom |-> IF op.validFrom = None THEN instant ELSE op.validFrom,
      validTo |-> op.validTo ]

(***************************************************************************)
(* The facts after the operations, computed without writing: the           *)
(* operations are folded over the current facts in their order.            *)
(***************************************************************************)
project(current, ops, instant) ==
    LET after[i \in 0..Len(ops)] ==
          IF i = 0 THEN current
          ELSE LET op == ops[i] IN
               CASE op.op = "retract" -> {f \in after[i - 1] : f.id # op.id}
                 [] op.op = "retract-pattern" ->
                      {f \in after[i - 1] : ~ patternMatches(f, op)}
                 [] OTHER -> after[i - 1] \cup {PendingFact(op, i, instant)}
    IN  after[Len(ops)]

\* Faulty form: interval ends are not sampled.
Boundaries_Bug(facts) == {f.validFrom : f \in facts}

Boundaries(facts) ==
    {f.validFrom : f \in facts} \cup ({f.validTo : f \in facts} \ {None})

\* v is new or worse after: no violation of the same identity was as large.
Worsened(before, v) ==
    ~ \E u \in before : /\ u.rule = v.rule /\ u.subject = v.subject
                        /\ u.identity = v.identity /\ v.actual <= u.actual

(***************************************************************************)
(* Violations a transaction introduces or worsens at some valid-time       *)
(* boundary of its pre- or post-state.                                     *)
(***************************************************************************)
newlyViolated(current, ops, rules, instant) ==
    LET projected == project(current, ops, instant)
    IN  UNION {{v \in evaluateFacts(projected, rules, at) :
                  Worsened(evaluateFacts(current, rules, at), v)} :
               at \in Boundaries(current \cup projected)}

=============================================================================
