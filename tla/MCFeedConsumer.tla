--------------------------- MODULE MCFeedConsumer ---------------------------
(* A small instance of FeedConsumer: two workers of one consumer and an      *)
(* application client that appends to the feed.                              *)
EXTENDS FeedConsumer, TLC

CONSTANTS w1, w2, app, e1, ck, a, nm, ps, txa, T, ckT, txT, init, consumer

Name == [type |-> "string", value |-> consumer]

MCValues == {Name} \cup {Number(n) : n \in 0..MaxPosition}

MCRequests ==
    {[ops |-> <<[op |-> "retract-pattern", entity |-> e1, attribute |-> None,
                 value |-> None, entityType |-> None]>>, system |-> FALSE, journaled |-> TRUE,
      command |-> None, live |-> {}, states |-> {}, rules |-> {}]}

\* Triple ids drawn in commit order, as one process does.
InOrder == [i \in TripleIds |-> i]

\* No step and no property reads what an appender was told.
WithoutAppenders == <<store, buffer, tx, job, processed, [w \in Workers |-> result[w]]>>

Symmetry == Permutations(Workers)

=============================================================================
