----------------------------- MODULE MCTriples -----------------------------
(* A small instance of Triples for TLC: one user entity and one reserved,  *)
(* and transact calls that reach every check and every kind of operation.  *)
EXTENDS Triples

CONSTANTS e1, sys, a, txa, T, sysT, txT, c1, c2, badc

Str(x) == [type |-> "string", value |-> x]

MCValues == {Str("u"), Str("v")}

Assert(e, at, v, t, from, to) ==
    [op |-> "assert", entity |-> e, attribute |-> at, value |-> v, entityType |-> t,
     validFrom |-> from, validTo |-> to]

AssertU == Assert(e1, a, Str("u"), T, None, None)
AssertV == Assert(e1, a, Str("v"), T, None, None)

Retract(i) == [op |-> "retract", id |-> i]

Pattern(e, v, t) ==
    [op |-> "retract-pattern", entity |-> e, attribute |-> None, value |-> v, entityType |-> t]

Plain(ops) == [ops |-> ops, system |-> FALSE, journaled |-> TRUE, command |-> None,
               live |-> {}, states |-> {}, rules |-> {}]

MCRequests ==
    { Plain(<<AssertU>>),
      \* an idempotent command, with an invalid twin
      [Plain(<<AssertU>>) EXCEPT !.command = c1],
      [Plain(<<AssertV>>) EXCEPT !.command = badc],
      \* assert, then retract by pattern what the same transaction wrote
      Plain(<<AssertV, Pattern(e1, None, None)>>),
      \* the same id twice: the second retract finds it retracted
      Plain(<<Retract(1), Retract(1)>>),
      \* compare-and-retract under TripleLive, with a malformed twin
      [Plain(<<Retract(1), AssertV>>) EXCEPT !.live = {1}, !.command = c1],
      [Plain(<<AssertV>>) EXCEPT !.live = {1}],
      \* replace under EntityState
      [Plain(<<Retract(1), AssertV>>) EXCEPT !.states = {[entity |-> e1, ids |-> {1}]}],
      \* patterns: everything, by value, by journal type, by transaction entity
      Plain(<<Pattern(None, None, None)>>), Plain(<<Pattern(None, Str("u"), T)>>),
      Plain(<<Pattern(None, None, txT)>>), Plain(<<Pattern(1, None, None)>>),
      \* a fact valid only in [1, 2), then a retract of a journal fact
      Plain(<<Assert(e1, a, Str("u"), None, 1, 2), Retract(2)>>),
      \* reserved writes: refused to users, allowed to system callers
      Plain(<<Assert(sys, a, Str("u"), sysT, None, None)>>),
      [Plain(<<Assert(sys, a, Str("u"), sysT, None, None), Pattern(sys, Str("u"), None)>>)
         EXCEPT !.system = TRUE, !.journaled = FALSE, !.command = c2] }

=============================================================================
