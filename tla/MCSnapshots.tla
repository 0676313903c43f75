---------------------------- MODULE MCSnapshots ----------------------------
(* Two writers on PostgreSQL (or one adapter that serialises them), two    *)
(* entities, a future-dated fact, two JSON values, a compare-and-retract,  *)
(* a pattern over both entities, an observed entity state and a command    *)
(* sent twice.                                                             *)
EXTENDS Snapshots, TLC

F1 == [e |-> "e1", a |-> "a", v |-> <<"string", "x">>, from |-> 1, to |-> 9]
F2 == [e |-> "e2", a |-> "a", v |-> <<"json", "y">>, from |-> 3, to |-> 4]
F3 == [e |-> "e1", a |-> "b", v |-> <<"json", "z">>, from |-> Null, to |-> 2]

MCFacts == {F1, F2, F3}

Template(kind, ops) == [kind |-> kind, ops |-> ops, cmd |-> Null, live |-> FALSE,
                        observe |-> Null, journal |-> TRUE]

Asserts(f) == [op |-> "assert", fact |-> f]
Retract    == [op |-> "retract"]
Pattern(p) == [op |-> "retract-pattern", pattern |-> p]

AnyJson == [e |-> Null, a |-> Null, v |-> <<"json", "z">>]

MCTemplates ==
    {[Template("transact", <<Asserts(F1), Asserts(F2)>>) EXCEPT !.cmd = "c"],
     [Template("transact", <<Retract, Asserts(F1)>>) EXCEPT !.live = TRUE],
     [Template("assert", <<Asserts(F3)>>) EXCEPT !.observe = [e |-> "e1"]],
     Template("retractByPattern", <<Pattern(AnyJson)>>)}

WriterSymmetry == Permutations(Writers)
=============================================================================
