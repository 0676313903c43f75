--------------------------- MODULE ChangeEmission ---------------------------
(***************************************************************************)
(* ChangeEmissionCapability around a store: the five write methods of      *)
(* makeWriteInterceptors, each a sequence of calls on the inner store      *)
(* (whose transactions are atomic, see Triples) followed by one emission,  *)
(* interleaved with the other writers.  An emitter's failure is swallowed. *)
(*                                                                         *)
(*   live    ids of the live facts;  used  ids ever asserted               *)
(*   call    per writer, the call in progress and its local state;         *)
(*           `raced` (history) the facts its read could not show it        *)
(*   silent  (history) changes committed by calls that ended without       *)
(*           announcing them;  untrue  changes announced that had not been *)
(*           committed                                                     *)
(***************************************************************************)
EXTENDS Naturals

CONSTANTS
    Writers,
    FactIds,
    AttributeOf,     \* of each fact; a triple id is never reused
    Batches          \* sets of facts one assertBatch or transact writes

ASSUME EmissionAssumption == Batches \subseteq SUBSET FactIds

VARIABLES live, used, call, silent, untrue

evars == <<live, used, call, silent, untrue>>

Resting == [phase |-> "idle", method |-> "none", ids |-> {}, read |-> {},
            wrote |-> {}, raced |-> {}]

EmissionInit == /\ live = {} /\ used = {} /\ silent = {} /\ untrue = {}
                /\ call = [w \in Writers |-> Resting]

\* A change names the entity and the attribute of its fact.
Asserted(ids) == {<<"assert", i>> : i \in ids}

Retracted(ids) == {<<"retract", i>> : i \in ids}

To(w, record) == call' = [call EXCEPT ![w] = record]

\* Facts committed while another call is between its read and its write.
Race(w, ids) ==
    [v \in Writers |-> IF v # w /\ call[v].phase = "read"
                         THEN [call[v] EXCEPT !.raced = @ \cup ids] ELSE call[v]]

-----------------------------------------------------------------------------
(* The calls on the inner store. *)

\* assert and assertBatch: the inputs name the changes.
AssertBatch(w, ids) ==
    /\ call[w].phase = "idle" /\ ids \cap used = {}
    /\ live' = live \cup ids /\ used' = used \cup ids
    /\ call' = [Race(w, ids) EXCEPT ![w] =
                  [Resting EXCEPT !.phase = "emit", !.method = "assert",
                                  !.wrote = Asserted(ids), !.read = Asserted(ids)]]
    /\ UNCHANGED <<silent, untrue>>

\* retract: get first; a failing get is caught and stands for no triple.
RetractReads(w, id) ==
    /\ call[w].phase = "idle" /\ id \in used
    /\ \E read \in {Retracted({id}), {}} :
         To(w, [Resting EXCEPT !.phase = "read", !.method = "retract", !.ids = {id},
                               !.read = read, !.raced = IF read = {} THEN {id} ELSE {}])
    /\ UNCHANGED <<live, used, silent, untrue>>

\* Faulty form: the retracted triples are taken from a pattern on all facts.
MatchedFacts_Bug(a) == {i \in FactIds : AttributeOf[i] = a}

\* inner.match of the pattern
MatchedFacts(a) == {i \in live : AttributeOf[i] = a}

\* retractByPattern: match first, in a call of its own
PatternReads(w, a) ==
    /\ call[w].phase = "idle"
    /\ To(w, [Resting EXCEPT !.phase = "read", !.method = "pattern",
                             !.ids = {i \in FactIds : AttributeOf[i] = a},
                             !.read = Retracted(MatchedFacts(a))])
    /\ UNCHANGED <<live, used, silent, untrue>>

\* inner.retract / inner.retractByPattern.  A retraction of a fact already
\* gone announces it again; a pattern that retracts nothing stays quiet.
Retract(w) ==
    /\ call[w].phase = "read"
    /\ LET gone == live \cap call[w].ids
       IN  /\ live' = live \ gone
           /\ IF gone = {} /\ call[w].method = "pattern" THEN To(w, Resting)
              ELSE To(w, [call[w] EXCEPT !.phase = "emit", !.wrote = Retracted(gone)])
    /\ UNCHANGED <<used, silent, untrue>>

\* transact: facts of `ids` asserted, facts of `gone` retracted, atomically.
Transact(w, ids, gone) ==
    /\ call[w].phase = "idle" /\ ids \cap used = {} /\ gone \subseteq live
    /\ live' = (live \ gone) \cup ids /\ used' = used \cup ids
    /\ call' = [Race(w, ids) EXCEPT ![w] =
                  [Resting EXCEPT !.phase = "record", !.method = "transact",
                                  !.wrote = Asserted(ids) \cup Retracted(gone)]]
    /\ UNCHANGED <<silent, untrue>>

\* inner.transaction(txId): the committed record names every change.
RecordedChanges(wrote) == wrote

ReadRecord(w) ==
    /\ call[w].phase = "record"
    /\ To(w, [call[w] EXCEPT !.phase = "emit", !.read = RecordedChanges(call[w].wrote)])
    /\ UNCHANGED <<live, used, silent, untrue>>

\* A record that cannot be read fails the committed call, unannounced.
RecordLost(w) ==
    /\ call[w].phase = "record"
    /\ silent' = silent \cup {[method |-> "lost", change |-> c] : c \in call[w].wrote}
    /\ To(w, Resting)
    /\ UNCHANGED <<live, used, untrue>>

\* onEvent, and the call returns.
Announce(w) ==
    /\ call[w].phase = "emit"
    /\ LET unsaid == call[w].wrote \ (call[w].read \cup Retracted(call[w].raced))
       IN  silent' = silent \cup {[method |-> call[w].method, change |-> c] : c \in unsaid}
    /\ untrue' = untrue \cup {c \in call[w].read :
                                IF c[1] = "assert" THEN c[2] \notin used
                                ELSE c[2] \in live \/ c[2] \notin used}
    /\ To(w, Resting)
    /\ UNCHANGED <<live, used>>

EmissionNext ==
    \E w \in Writers :
        \/ \E ids \in Batches : AssertBatch(w, ids)
        \/ \E id \in FactIds : RetractReads(w, id)
        \/ \E a \in {AttributeOf[i] : i \in FactIds} : PatternReads(w, a)
        \/ Retract(w)
        \/ \E ids \in Batches, gone \in SUBSET live : Transact(w, ids, gone)
        \/ ReadRecord(w)
        \/ RecordLost(w)
        \/ Announce(w)

-----------------------------------------------------------------------------
(* Properties. *)

\* Every change a write committed is announced when it returns, except the
\* retraction of a fact that another call asserted between this call's read
\* and its write, or that a failed read hid; only a transaction whose record
\* cannot be read back after the commit goes unannounced as a whole.
OnlyLostRecordsAreSilent == \A x \in silent : x.method = "lost"

\* No announcement is of something that has not happened: subscribers never
\* hear of a retraction of a fact that is still there, although the facts
\* were read before they were retracted and other writers came between.
AnnouncementsTrue == untrue = {}

\* Subscribers hear of every change, and of nothing else.
AnnouncementsExact == OnlyLostRecordsAreSilent /\ AnnouncementsTrue

=============================================================================
