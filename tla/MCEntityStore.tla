--------------------------- MODULE MCEntityStore ---------------------------
(* A small instance of EntityStore: two entities, one exposed attribute and *)
(* one unexposed, a REST caller, a lister and a writer of its own facts.    *)
EXTENDS EntityStore

CONSTANTS w1, e1, e2, a, h, txa, T, txT

Str(x) == [type |-> "string", value |-> x]

MCValues == {Str("u"), Str("v")}

MCEntityOrder == [e \in EntityIds |-> IF e = e1 THEN 1 ELSE 2]

MCBodies == {{[attribute |-> a, value |-> Str("v")]}}

Add(e, at, from, to) ==
    [op |-> "assert", entity |-> e, attribute |-> at, value |-> Str("u"), entityType |-> T,
     validFrom |-> from, validTo |-> to]

Plain(ops) == [ops |-> ops, system |-> FALSE, journaled |-> FALSE, command |-> None,
               live |-> {}, states |-> {}, rules |-> {}]

\* A fact on the exposed attribute in the place of the first, which may not be
\* there, and one on the other attribute that starts later.
MCRequests == { Plain(<<[op |-> "retract", id |-> 1], Add(e1, a, None, None)>>),
                Plain(<<Add(e1, h, 2, None)>>) }

\* Only facts valid from the first instant, one of them expired at the second.
ExpiringRequests == {Plain(<<Add(e1, a, 1, None)>>), Plain(<<Add(e1, h, 1, 2)>>)}

=============================================================================
