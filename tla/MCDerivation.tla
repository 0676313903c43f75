---------------------------- MODULE MCDerivation ----------------------------
(* Two materializers of two revisions of one definition, of which only the *)
(* first has a negation; due now, done later, and an expiring due fact.    *)
EXTENDS Derivation, TLC

D1 == [id |-> "d1", positive |-> "due", negative |-> "done"]
D2 == [id |-> "d2", positive |-> "due", negative |-> None]

MCDefinitions == {D1, D2}

MCFactInputs ==
    {[e |-> "e1", a |-> "due", from |-> 1, to |-> 3],
     [e |-> "e1", a |-> "done", from |-> 2, to |-> 9]}

MCOverlays == {{}, {[content |-> 101, e |-> "e2", a |-> "due", from |-> None, to |-> 9]}}

MaterializerSymmetry == Permutations(Materializers)
=============================================================================
