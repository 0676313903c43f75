-------------------------- MODULE MCSubscriptions --------------------------
(* A small instance of the subscription services: three attributes of two   *)
(* entity types, two entities, two connections, two writers.                *)
EXTENDS Subscriptions, TLC

CONSTANTS alice, bob, name, age, size, emp, dept, f1, f2, q1, q2, s1, s2, reach,
          qAlice, qAll, qSizes, c1, c2, d1, w1, w2, h1, h2

MCTypeOf == name :> emp @@ age :> emp @@ size :> dept
MCPrefixOf == alice :> emp @@ bob :> NoType
MCAttributeOf == f1 :> name @@ f2 :> name

Pattern(e, at) == [kind |-> "pattern", entity |-> e, attribute |-> at]
Not(p) == [kind |-> "not", inner |-> {p}]
Or(p, q) == [kind |-> "or", inner |-> {p, q}]
Apply(args) == [kind |-> "rule", name |-> reach, args |-> args]
Query(where) == [where |-> where, rules |-> {}, optional |-> {}]

MCQueries == {qAlice, qAll, qSizes}
MCTextOf == qAlice :> Query({Pattern(alice, name)}) @@ qAll :> Query({Pattern(Var, Var)})
         @@ qSizes :> Query({Pattern(Var, size), Not(Pattern(alice, name))})

MCChanges == [operation : {"assert", "retract"}, entity : {alice, bob}, attribute : {name, age, size}]
MCEvents == {{ch \in MCChanges : ch.entity = alice /\ ch.attribute = name /\ ch.operation = "assert"},
             {ch \in MCChanges : ch.entity = bob /\ ch.attribute = size}}
MCAttachments == {{}, {[id |-> q1, query |-> qAll]}}
MCBatches == {{f1}, {f1, f2}, {f2}}
MCOwnIds == w1 :> {s1} @@ w2 :> {s2}

\* Queries of one or two clauses, plain, under not or or, or with a rule that
\* applies itself; with and without a projected attribute.
Shapes == {Pattern(e, at) : e \in {Var, alice}, at \in {Var, name, size}}
Clauses == Shapes \cup {Not(p) : p \in Shapes} \cup {Or(Pattern(bob, name), p) : p \in Shapes}
               \cup {Apply({}), Apply({alice}), [kind |-> "predicate"]}
Bodies == {{Pattern(Var, name), Apply({})}, {Pattern(bob, size)}, {Pattern(alice, Var)}}
MCQueryFamily ==
    {[where |-> {p, c}, rules |-> {[name |-> reach, body |-> b]}, optional |-> o] :
        p \in Shapes, c \in Clauses, b \in Bodies, o \in {{}, {size}}}

\* The keys of a query on the names of alice, and what events bump of them.
MCKeys == fdbSubscriptionKeysForDependencies(extractDependencies(Query({Pattern(Var, name)})))
MCSignals == {fdbSubscriptionKeysForEvent({ch}) \cap MCKeys : ch \in MCChanges}

=============================================================================
