----------------------------- MODULE Derivation -----------------------------
(***************************************************************************)
(* Derivations and their materialization.  A definition is a structural    *)
(* query: an entity is a candidate when a fact of its positive attribute   *)
(* is visible and none of its negated attribute is (None: no negation).    *)
(* Evaluation, its provenance and its temporal boundary are separate reads *)
(* of a store others write; a run is one atomic transaction.               *)
(*                                                                         *)
(*   facts     the facts of the definitions' attributes, with the commit   *)
(*             positions that recorded and retracted them (0: live)        *)
(*   position  the store's commit position; a materialization takes one    *)
(*   runs      the facts of the stored runs, by the transaction that wrote *)
(*             them: [id, pos, members]; two writers may store one run     *)
(*   job       what each materializer has read so far                      *)
(***************************************************************************)
EXTENDS Integers, FiniteSets, FiniteSetsExt

CONSTANTS
    Definitions,     \* [id, positive, negative], all of one name
    FactInputs,      \* what a writer may assert: [e, a, from, to]
    Materializers, None,
    ValidTimes,      \* the valid instants a caller pins
    Forever,         \* an open end: later than every boundary
    MaxPosition,
    Overlays         \* assertions of a preview: [content, e, a, from, to]

\* A definition is known by the hash of its content; None is no attribute.
ASSUME DerivationAssumption ==
    /\ \A d, e \in Definitions : d.id = e.id => d = e
    /\ \A d \in Definitions : d.positive # None
    /\ \A f \in FactInputs : f.a # None /\ f.from \in Nat /\ f.to \in Nat
    /\ ValidTimes \subseteq Nat /\ Forever \in Nat

VARIABLES facts, position, runs, job

vars == <<facts, position, runs, job>>

Idle == [at |-> "idle"]

Live(fs) == {f \in fs : f.gone = 0}

Visible(fs, valid) == {f \in Live(fs) : f.from <= valid /\ f.to > valid}

(* The dependencies discovered from the query.                             *)
Dependencies(d) == {d.positive, d.negative} \ {None}

OfDefinition(fs, d) == {f \in fs : f.a \in Dependencies(d)}

-----------------------------------------------------------------------------
(* queryAll, the sources of the answered rows and the next boundary.       *)
Answer(fs, d, valid) ==
    {f.e : f \in {g \in Visible(fs, valid) : g.a = d.positive}}
        \ {f.e : f \in {g \in Visible(fs, valid) : g.a = d.negative}}

sourcesForRow(fs, d, valid, e) == {f \in Visible(fs, valid) : f.a = d.positive /\ f.e = e}

Edges_Bug(f) == {f.to}

Edges(f) == {f.from, f.to}

temporalBoundaryFromJournal(fs, d, valid) ==
    Min({t \in UNION {Edges(f) : f \in Live(OfDefinition(fs, d))} : t > valid} \cup {Forever})

(* A candidate's revision commits to its result and its sources.           *)
candidateFrom(fs, d, valid, e) ==
    [id |-> e, definition |-> d.id, sources |-> {f.id : f \in sourcesForRow(fs, d, valid, e)}]

evaluate(fs, d, valid) ==
    [candidates |-> {candidateFrom(fs, d, valid, e) : e \in Answer(fs, d, valid)},
     next       |-> temporalBoundaryFromJournal(fs, d, valid)]

reconcile(before, after) ==
    LET ids(cs) == {c.id : c \in cs} IN
    [added     |-> {c \in after : c.id \notin ids(before)},
     removed   |-> {c \in before : c.id \notin ids(after)},
     unchanged |-> before \cap after,
     changed   |-> {c \in after \ before : c.id \in ids(before)}]

(* Latest position that changed a fact the definition depends on.          *)
currentSourcePosition(d) ==
    Max({IF f.gone > 0 THEN f.gone ELSE f.rec : f \in OfDefinition(facts, d)} \cup {0})

-----------------------------------------------------------------------------
(***************************************************************************)
(* loadRuns: the facts of a run entity, whichever transactions asserted    *)
(* them; its candidates are read once each and their revisions must hash   *)
(* to the run's id.  The id is the body, as a content hash is.             *)
(***************************************************************************)
RunIds == {r.id : r \in runs}

Members(id) == [c \in UNION {r.members : r \in {q \in runs : q.id = id}} |->
                    Cardinality({r \in runs : r.id = id /\ c \in r.members})]

candidateEntities(id) == {<<c, 1>> : c \in DOMAIN Members(id)}

Verified(id) ==
    /\ Cardinality(candidateEntities(id)) = Cardinality(id.candidates)
    /\ {m[1] : m \in candidateEntities(id)} = id.candidates

materializationPosition(id) == Min({r.pos : r \in {q \in runs : q.id = id}})

latestRunForName(ids) ==
    {i \in ids : \A j \in ids : materializationPosition(j) <= materializationPosition(i)}

Ahead_Bug(i, j) == materializationPosition(i) >= materializationPosition(j)

Ahead(i, j) ==
    \/ i.source > j.source
    \/ i.source = j.source /\ materializationPosition(i) >= materializationPosition(j)

latestRunForDefinition(ids, d) ==
    LET mine == {i \in ids : i.definition = d.id}
    IN  {i \in mine : \A j \in mine : Ahead(i, j)}

(* `current`: the head's candidates and whether they are current.          *)
current(d, valid) ==
    LET head == latestRunForDefinition(RunIds, d)
        any  == IF head # {} THEN head ELSE latestRunForName(RunIds)
    IN  IF any = {} THEN [status |-> "unmaterialized", candidates |-> {}]
        ELSE LET run == CHOOSE i \in any : TRUE IN
             [status |-> IF /\ run.definition = d.id
                            /\ run.source = currentSourcePosition(d)
                            /\ run.valid = valid
                         THEN "current" ELSE "stale",
              candidates |-> run.candidates]

-----------------------------------------------------------------------------
(* materialize, read by read.                                              *)
Start(m, d, valid) ==
    /\ job[m].at = "idle" /\ position < MaxPosition
    /\ job' = [job EXCEPT ![m] = [at |-> "source", d |-> d, valid |-> valid, source |-> 0,
                                  answer |-> {}, next |-> 0, found |-> {}]]
    /\ UNCHANGED <<facts, position, runs>>

(***************************************************************************)
(* The source position is read before the evaluation.  (With it, the       *)
(* latest run of the name is read, which only the reconciliation returned  *)
(* to the caller depends on.)                                              *)
(***************************************************************************)
ReadSource(m) ==
    /\ job[m].at = "source"
    /\ job' = [job EXCEPT ![m].at = "query",
                          ![m].source = currentSourcePosition(job[m].d)]
    /\ UNCHANGED <<facts, position, runs>>

(* evaluate: the rows, the boundary, then the sources of every row.        *)
QueryAll(m) ==
    /\ job[m].at = "query"
    /\ job' = [job EXCEPT ![m].at = "boundary", ![m].answer = Answer(facts, job[m].d, job[m].valid)]
    /\ UNCHANGED <<facts, position, runs>>

ReadBoundary(m) ==
    /\ job[m].at = "boundary"
    /\ job' = [job EXCEPT ![m].at = "sources",
                          ![m].next = temporalBoundaryFromJournal(facts, job[m].d, job[m].valid)]
    /\ UNCHANGED <<facts, position, runs>>

ReadSources(m) ==
    /\ job[m].at = "sources"
    /\ job' = [job EXCEPT ![m].at = "existing",
                          ![m].answer = {},
                          ![m].found = {candidateFrom(facts, job[m].d, job[m].valid, e) : e \in job[m].answer}]
    /\ UNCHANGED <<facts, position, runs>>

runBody(j) ==
    [definition |-> j.d.id, source |-> j.source, valid |-> j.valid, candidates |-> j.found,
     next |-> j.next]

(* Does the run entity exist?  The write that follows does not check again.*)
ReadExisting(m) ==
    /\ job[m].at = "existing"
    /\ job' = [job EXCEPT ![m] = IF runBody(job[m]) \in RunIds THEN Idle ELSE [@ EXCEPT !.at = "commit"]]
    /\ UNCHANGED <<facts, position, runs>>

TransactRun(m) ==
    /\ job[m].at = "commit" /\ position < MaxPosition
    /\ position' = position + 1
    /\ runs' = runs \cup {[id |-> runBody(job[m]), pos |-> position + 1, members |-> job[m].found]}
    /\ job' = [job EXCEPT ![m] = Idle]
    /\ UNCHANGED facts

(* A read fails, or the caller goes away: nothing was written.             *)
Interrupted(m) ==
    /\ job[m].at # "idle"
    /\ job' = [job EXCEPT ![m] = Idle]
    /\ UNCHANGED <<facts, position, runs>>

-----------------------------------------------------------------------------
(* Other writers of the store.                                             *)
Assert1(f) ==
    /\ position < MaxPosition
    /\ position' = position + 1
    /\ facts' = facts \cup {[id |-> position + 1, e |-> f.e, a |-> f.a, from |-> f.from, to |-> f.to,
                             rec |-> position + 1, gone |-> 0]}
    /\ UNCHANGED <<runs, job>>

Retract1(f) ==
    /\ position < MaxPosition
    /\ position' = position + 1
    /\ facts' = (facts \ {f}) \cup {[f EXCEPT !.gone = position + 1]}
    /\ UNCHANGED <<runs, job>>

Init ==
    /\ facts = {} /\ position = 0 /\ runs = {}
    /\ job = [m \in Materializers |-> Idle]

Next ==
    \/ \E f \in FactInputs : Assert1(f)
    \/ \E f \in Live(facts) : Retract1(f)
    \/ \E m \in Materializers, d \in Definitions, v \in ValidTimes : Start(m, d, v)
    \/ \E m \in Materializers : position < MaxPosition /\
          \/ ReadSource(m) \/ QueryAll(m) \/ ReadBoundary(m)
          \/ ReadSources(m) \/ ReadExisting(m) \/ TransactRun(m) \/ Interrupted(m)

Spec == Init /\ [][Next]_vars

-----------------------------------------------------------------------------
(***************************************************************************)
(* Overlays: the visible base facts of the dependencies without the hidden *)
(* ones, with the hypothetical ones, evaluated in a fresh memory store.    *)
(* The boundary is computed from the copied facts.                         *)
(***************************************************************************)
visibleBase_Bug(d, valid, hide) == Visible(OfDefinition(facts, d), valid)

visibleBase(d, valid, hide) == {f \in Visible(OfDefinition(facts, d), valid) : f.id \notin hide}

overlayBoundary(base, asserts, valid) ==
    Min({t \in {f.to : f \in base} \cup UNION {{f.from, f.to} : f \in asserts} : t > valid}
        \cup {Forever})

Hypothetical(f, valid) ==
    [id |-> f.content, e |-> f.e, a |-> f.a, from |-> IF f.from = None THEN valid ELSE f.from,
     to |-> f.to, rec |-> 0, gone |-> 0]

evaluateOverlay(d, valid, asserts, hide) ==
    LET base == visibleBase(d, valid, hide)
        hyp  == {Hypothetical(f, valid) : f \in asserts}
    IN  [candidates |-> evaluate(base \cup hyp, d, valid).candidates,
         next       |-> overlayBoundary(base, hyp, valid)]

(* The store as if the overlay had been committed.                         *)
Patched(d, valid, asserts, hide) ==
    {f \in facts : f.id \notin hide} \cup {Hypothetical(f, valid) : f \in asserts}

OverlayCases ==
    {c \in Definitions \X ValidTimes \X Overlays \X SUBSET {f.id : f \in facts} :
        /\ \A f \in c[3] : f.a \in Dependencies(c[1])
        /\ c[4] \subseteq {f.id : f \in Visible(OfDefinition(facts, c[1]), c[2])}}

-----------------------------------------------------------------------------
(* Properties.                                                             *)

(***************************************************************************)
(* A run labelled with the source position of now holds what an evaluation *)
(* now would answer, and goes on holding at every instant before its next  *)
(* boundary: whatever was written between the reads of materialize, a run  *)
(* that `current` calls current is right, and no wakeup is missed.         *)
(***************************************************************************)
CurrentRunIsTrue ==
    \A id \in RunIds, d \in Definitions :
        (id.definition = d.id /\ id.source = currentSourcePosition(d)) =>
            /\ id.candidates = evaluate(facts, d, id.valid).candidates
            /\ \A v \in id.valid..(id.next - 1) : Answer(facts, d, v) = Answer(facts, d, id.valid)

(***************************************************************************)
(* Every stored run verifies when loaded, also after two materializers     *)
(* that both found it missing have written it twice.                       *)
(***************************************************************************)
RunsVerify == \A id \in RunIds : Verified(id)

\* A run that is served as current is right, and can be served.
RunsAreTrue == CurrentRunIsTrue /\ RunsVerify

(***************************************************************************)
(* "Concurrent writers cannot ... make an older source position current    *)
(* merely by committing later" (Materialization.ts:4): the head of a       *)
(* definition never goes back to an older source position.                 *)
(***************************************************************************)
HeadNeverRegresses ==
    [][runs' # runs => \A d \in Definitions :
         \A i \in latestRunForDefinition(RunIds, d), j \in latestRunForDefinition(RunIds, d)' :
             i.source <= j.source]_vars

(***************************************************************************)
(* A preview answers what the store would answer with its assertions made  *)
(* and its retractions done (checked for every store, when no              *)
(* materialization is under way: a preview does not see them).             *)
(***************************************************************************)
OverlayAgrees ==
    [][(facts' # facts /\ job = [m \in Materializers |-> Idle]) =>
        \A c \in OverlayCases' :
            evaluateOverlay(c[1], c[2], c[3], c[4])'.candidates
                = evaluate(Patched(c[1], c[2], c[3], c[4])', c[1], c[2]).candidates]_vars

=============================================================================
