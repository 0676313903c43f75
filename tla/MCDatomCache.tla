---------------------------- MODULE MCDatomCache ----------------------------
(* A small instance of DatomCache: one fact after another is asserted and    *)
(* retracted by two writers while two fibers read.                           *)
EXTENDS DatomCache, TLC

CONSTANTS r1, r2, w1, w2, e1, a, txa, T, txT

MCValues == {[type |-> "string", value |-> "u"]}

Plain(ops) == [ops |-> ops, system |-> FALSE, journaled |-> FALSE, command |-> None,
               live |-> {}, states |-> {}, rules |-> {}]

MCRequests ==
    { Plain(<<[op |-> "assert", entity |-> e1, attribute |-> a, entityType |-> T,
               value |-> [type |-> "string", value |-> "u"],
               validFrom |-> None, validTo |-> None]>>),
      Plain(<<[op |-> "retract", id |-> 1]>>),
      Plain(<<[op |-> "retract-pattern", entity |-> e1, attribute |-> None,
               value |-> None, entityType |-> T]>>) }

Symmetry == Permutations(Readers) \cup Permutations(Clients)

=============================================================================
