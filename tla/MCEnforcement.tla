--------------------------- MODULE MCEnforcement ---------------------------
(* An instance of Triples for enforcement: two entities of type T with a    *)
(* unique, required, single-valued attribute and a reference to a U,        *)
(* written with and without enforcement.                                    *)
EXTENDS Triples

CONSTANTS e1, e2, a, r, txa, T, U, txT

Str(x) == [type |-> "string", value |-> x]
Ref(e) == [type |-> "ref", value |-> e]

MCValues == {Str("u"), Str("v"), Ref(e2)}

Rule(tag) == [tag |-> tag, entityType |-> T, attribute |-> IF tag = "ReferenceTarget" THEN r ELSE a,
              max |-> 1, target |-> U]

MCRules == {Rule(tag) : tag \in {"Required", "Cardinality", "Unique", "ReferenceTarget"}}

Add(e, at, v, t, from, to) ==
    [op |-> "assert", entity |-> e, attribute |-> at, value |-> v, entityType |-> t,
     validFrom |-> from, validTo |-> to]

Pattern(e, at, v, t) ==
    [op |-> "retract-pattern", entity |-> e, attribute |-> at, value |-> v, entityType |-> t]

Call(ops, rules) == [ops |-> ops, system |-> FALSE, journaled |-> FALSE, command |-> None,
                     live |-> {}, states |-> {}, rules |-> rules]

\* Facts that start at 1 or 2 and end at 2, at 3 or never.
Operations ==
    { Add(e1, a, Str("u"), T, 1, None), Add(e1, a, Str("u"), T, 1, 2),
      Add(e1, a, Str("v"), T, 2, None), Add(e2, a, Str("u"), T, None, 3),
      Add(e2, a, Str("u"), U, 1, 2), Add(e1, r, Ref(e2), T, 1, None),
      Pattern(e1, a, Str("u"), None), Pattern(e2, None, None, U),
      [op |-> "retract", id |-> 1] }

Asserts == {o \in Operations : o.op = "assert"}

\* Unenforced writes set a state up; the two-step calls retract and assert
\* again, or follow a short-lived fact with a successor.
MCRequests ==
    {Call(<<o>>, {}) : o \in Asserts}
      \cup {Call(<<o>>, MCRules) : o \in Operations}
      \cup {Call(<<o, p>>, MCRules) : o \in Operations \ Asserts,
                                     p \in {Add(e1, a, Str("v"), T, 2, None)}}
      \cup {Call(<<o, p>>, MCRules) : o \in {Add(e1, a, Str("u"), T, 1, 2)}, p \in Asserts}

=============================================================================
