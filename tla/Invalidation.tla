---------------------------- MODULE Invalidation ----------------------------
(***************************************************************************)
(* What a Datalog query reads, and which changes invalidate it: the        *)
(* dependencies extracted from a query, the three-level invalidation       *)
(* check, and the topics under which TopicTree files a query so that only  *)
(* candidate queries are checked.                                          *)
(*                                                                         *)
(* A query is a record: `where` a set of clauses, `rules` a set of         *)
(* [name, body] with body a set of clauses, and `optional` the attributes  *)
(* of its optionalProjection.  A clause is a pattern (entity and attribute *)
(* position; the value position selects no dependency), a `not` or an `or` *)
(* over patterns, a rule application with its constant arguments, or a     *)
(* predicate.  A change is what a ChangeEvent says of one fact.            *)
(***************************************************************************)
EXTENDS Naturals, FiniteSets

CONSTANTS
    Var,          \* a variable in a clause position
    Wildcard,     \* WILDCARD_TOPIC
    NoType,       \* extractEntityType / inferEntityTypeFromId found none
    TypeOf,       \* attribute -> the namespace between its ":" and "/"
    PrefixOf      \* entity id -> the text before its first ":", or NoType

\* extractEntityType: Attribute admits only ":ns/name", so it is never null.
extractEntityType(attribute) == TypeOf[attribute]

inferEntityTypeFromId(entity) == PrefixOf[entity]

\* Change events carry an operation too; it never decides a dependency.
Touches(pattern, change) ==
    /\ pattern.attribute \in {Var, change.attribute}
    /\ pattern.entity \in {Var, change.entity}

-----------------------------------------------------------------------------
(* Dependency extraction. *)

\* Clauses processed for one clause: itself, or those inside a not / an or.
Inside(clause) == IF clause.kind \in {"not", "or"} THEN clause.inner ELSE {clause}

ProcessedIn(clauses) == UNION {Inside(c) : c \in clauses}

Applications(clauses) == {c \in ProcessedIn(clauses) : c.kind = "rule"}

BodiesOf(query, names) == UNION {r.body : r \in {s \in query.rules : s.name \in names}}

\* Rule names applied by `where`, or by the body of an expanded rule: each
\* body is walked once (expandedRules), so as many rounds as rules suffice.
ExpandedRules(query) ==
    LET round[n \in Nat] ==
          IF n = 0 THEN {c.name : c \in Applications(query.where)}
          ELSE round[n - 1]
                 \cup {c.name : c \in Applications(BodiesOf(query, round[n - 1]))}
    IN  round[Cardinality(query.rules)]

\* Every clause processClause sees.
Processed(query) ==
    ProcessedIn(query.where) \cup ProcessedIn(BodiesOf(query, ExpandedRules(query)))

Patterns(query) == {c \in Processed(query) : c.kind = "pattern"}

\* Constant arguments of the rule applications.
RuleConstants(query) ==
    UNION {c.args : c \in {d \in Processed(query) : d.kind = "rule"}}

\* Faulty form: a type is bound or unbound, whichever pattern came last.
Unbound_Bug(fixed) == {}

\* Types read through a pattern whose entity is a variable.
Unbound(fixed) == {extractEntityType(p.attribute) : p \in {q \in fixed : q.entity = Var}}

extractDependencies(query) ==
    LET patterns == Patterns(query)
        fixed    == {p \in patterns : p.attribute # Var}
        bound    == {p \in patterns : p.entity # Var}
    IN  [ attributes         |-> {p.attribute : p \in fixed},
          entityTypes        |-> {extractEntityType(p.attribute) : p \in fixed},
          hasDynamicAttributes |-> fixed # patterns,
          boundEntityIds     |-> {p.entity : p \in bound} \cup RuleConstants(query),
          boundEntityTypes   |->
              {extractEntityType(p.attribute) : p \in fixed \cap bound}
                \cup ({inferEntityTypeFromId(x) : x \in RuleConstants(query)} \ {NoType}),
          unboundEntityTypes |-> Unbound(fixed) ]

-----------------------------------------------------------------------------
(* The invalidation check, for one change and for a batch. *)

EntityTypeLevel(deps, change) ==
    deps.entityTypes = {} \/ extractEntityType(change.attribute) \in deps.entityTypes

AttributeLevel(deps, change) ==
    \/ deps.hasDynamicAttributes \/ deps.attributes = {}
    \/ change.attribute \in deps.attributes

\* Only a type whose every pattern is bound is narrowed to the bound ids.
EntityIdLevel(deps, change) ==
    LET type == extractEntityType(change.attribute)
    IN  (/\ deps.boundEntityIds # {}
         /\ type \in deps.boundEntityTypes
         /\ type \notin deps.unboundEntityTypes)
            => change.entity \in deps.boundEntityIds

\* The changes that affect a query with these dependencies.
checkInvalidation(deps, changes) ==
    IF deps.attributes = {} /\ deps.entityTypes = {}
      THEN IF deps.hasDynamicAttributes THEN changes ELSE {}
      ELSE {c \in changes : /\ EntityTypeLevel(deps, c)
                            /\ AttributeLevel(deps, c)
                            /\ EntityIdLevel(deps, c)}

isAffectedByChange(deps, change) == checkInvalidation(deps, {change}) # {}

-----------------------------------------------------------------------------
(* Topics. *)

topicsFor(deps) ==
    LET named   == {<<extractEntityType(a), a>> : a \in deps.attributes}
        dynamic == IF ~deps.hasDynamicAttributes THEN {}
                   ELSE {<<t, Wildcard>> : t \in IF deps.entityTypes = {} THEN {Wildcard}
                                                                  ELSE deps.entityTypes}
    IN  IF named \cup dynamic = {} THEN {<<Wildcard, Wildcard>>} ELSE named \cup dynamic

\* Faulty form: queries filed under no type are not looked up.
candidateTopics_Bug(change) ==
    {<<extractEntityType(change.attribute), change.attribute>>,
     <<extractEntityType(change.attribute), Wildcard>>}

\* Topics of the tree in which findCandidateSubscriptions looks for a change.
candidateTopics(change) ==
    {<<extractEntityType(change.attribute), change.attribute>>,
     <<extractEntityType(change.attribute), Wildcard>>, <<Wildcard, Wildcard>>}

\* The keys FdbSubscriptions bumps for the changes of an event ...
fdbSubscriptionKeysForEvent(changes) ==
    {<<"global", Wildcard>>} \cup {<<"attr", c.attribute>> : c \in changes}
        \cup {<<"entity", c.entity>> : c \in changes}
        \cup {<<"type", extractEntityType(c.attribute)>> : c \in changes}

\* ... and those it watches for a query.
fdbSubscriptionKeysForDependencies(deps) ==
    LET named == {<<"attr", a>> : a \in deps.attributes}
                   \cup {<<"type", t>> : t \in deps.entityTypes}
                   \cup {<<"entity", e>> : e \in deps.boundEntityIds}
    IN  IF deps.hasDynamicAttributes \/ named = {}
          THEN named \cup {<<"global", Wildcard>>} ELSE named

-----------------------------------------------------------------------------
(* What the check promises. *)

\* A change that some evaluation of the query may see: one that a pattern of
\* the query, wherever it stands, or its optional projection reads.
Reads(query, change) ==
    \/ \E p \in Patterns(query) : Touches(p, change)
    \/ change.attribute \in query.optional

\* The class of queries whose dependencies are complete: dynamic attributes
\* are not mixed with named ones, and no attribute is projected on the side.
Uniform(query) ==
    /\ query.optional = {}
    /\ \/ \A p \in Patterns(query) : p.attribute = Var
       \/ \A p \in Patterns(query) : p.attribute # Var

\* The check finds every change the query reads.
NoFalseNegative(query, change) ==
    Reads(query, change) => isAffectedByChange(extractDependencies(query), change)

\* The tree leads to every query the check would find affected, and a bump
\* reaches a watched key for every change a pattern of the query reads.
NarrowingSafe(query, change) ==
    LET deps == extractDependencies(query)
    IN  /\ isAffectedByChange(deps, change) => topicsFor(deps) \cap candidateTopics(change) # {}
        /\ (\E p \in Patterns(query) : Touches(p, change)) =>
              fdbSubscriptionKeysForDependencies(deps)
                \cap fdbSubscriptionKeysForEvent({change}) # {}

=============================================================================
