------------------------------ MODULE Versions ------------------------------
(***************************************************************************)
(* What the Triples service promises its callers, without saying how: the  *)
(* database is an append-only list of versions, each the set of facts      *)
(* recorded as current after one more commit; a call is answered           *)
(* "Committed" in the very step that appends its version; that step may    *)
(* instead leave the caller in doubt (a timeout, or no answer yet), and    *)
(* any other answer leaves the versions alone; a command identity is       *)
(* consumed by at most one commit.                                         *)
(***************************************************************************)
EXTENDS Integers, Sequences

CONSTANTS Callers, Commands, Failures, Doubts, Nothing

VARIABLES
    versions,   \* versions[p + 1]: the facts after the first p commits
    claims,     \* the position each command committed at, or Nothing
    answers     \* the last answer to each caller; Nothing while it waits

vvars == <<versions, claims, answers>>

Init == /\ versions = <<{}>>
        /\ claims = [c \in Commands |-> Nothing]
        /\ answers = [c \in Callers |-> Nothing]

Answer(c, a) == answers' = [answers EXCEPT ![c] = a]

\* One more version; all the earlier ones stay what they were.
Appended == /\ Len(versions') = Len(versions) + 1
            /\ \A p \in 1..Len(versions) : versions'[p] = versions[p]

Claimed(k) == /\ claims[k] = Nothing
              /\ claims' = [claims EXCEPT ![k] = Len(versions)]

Commit(c) == /\ Appended
             /\ UNCHANGED claims \/ \E k \in Commands : Claimed(k)
             /\ \E a \in {"Committed"} \cup Doubts : Answer(c, a)

\* A call starts, or fails without a trace.
StartOrFail(c) == /\ \E a \in Failures \cup {Nothing} : Answer(c, a)
                  /\ UNCHANGED <<versions, claims>>

Next == \E c \in Callers : Commit(c) \/ StartOrFail(c)

Spec == Init /\ [][Next]_vvars

=============================================================================
