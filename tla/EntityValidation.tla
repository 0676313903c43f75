-------------------------- MODULE EntityValidation --------------------------
(***************************************************************************)
(* EntityValidation: revalidate projects every entity of the deployed      *)
(* schemas onto immutable results, moves one head per subject to its       *)
(* latest result and a checkpoint to the run, all in one transaction; and  *)
(* currentInvalid, which reports the last results as current or stale.     *)
(* Both read the store in many calls with other writers in between.        *)
(*                                                                         *)
(* `history` holds the subjects' values and the deployed snapshot after    *)
(* each transaction that is not a validation; its length is the latest     *)
(* source position.  A result stands for its content id.  Head and         *)
(* checkpoint facts carry the transaction that asserted them as their id.  *)
(***************************************************************************)
EXTENDS Naturals, Sequences, FiniteSets

CONSTANTS
    Validators, Subjects, Values, Absent, Snapshots,
    Malformed,        \* snapshots whose schemas or constraints do not parse
    Accepts,          \* pairs <<snapshot, value>> the entity schema accepts
    Unique,           \* snapshots with a Unique constraint on the value
    Overlap,          \* whether two validations of the ref may run at once
    MaxWrites, MaxRuns

\* The store starts on a snapshot that parses.
ASSUME ValidationAssumption == \E s \in Snapshots : s \notin Malformed

VARIABLES history, heads, checkpoint, results, validator, reader, runs

validationVars == <<history, heads, checkpoint, results, validator, reader, runs>>

IdleValidator == [pc |-> "idle"]

World == history[Len(history)]

Position == Len(history)

Live(world) == {s \in Subjects : world.value[s] # Absent}

\* GraphConstraint.evaluate of the Unique rule: who else uses the value.
Sharing(world, snapshot) ==
    [s \in Subjects |->
       IF snapshot \in Unique /\ s \in Live(world)
         THEN {t \in Live(world) \ {s} : world.value[t] = world.value[s]}
         ELSE {}]

\* What is wrong with one body under one snapshot: the schema's issues, then
\* the graph's, one for each subject that shares the value.
validationIssues(snapshot, body) == IF <<snapshot, body>> \in Accepts THEN {} ELSE {"schema"}

Issues(snapshot, body, shared) ==
    ({"code"} \X validationIssues(snapshot, body)) \cup ({"shared"} \X shared)

Result(subject, snapshot, body, shared) ==
    [subject |-> subject, snapshot |-> snapshot, state |-> body,
     issues |-> Issues(snapshot, body, shared), valid |-> Issues(snapshot, body, shared) = {}]

\* The subjects that break the deployed configuration.
Invalid(world) ==
    {s \in Live(world) :
       ~Result(s, world.target, world.value[s], Sharing(world, world.target)[s]).valid}

-----------------------------------------------------------------------------
(* Other writers: entity facts and deployments. *)

WriteValue(s, v) ==
    /\ Position <= MaxWrites
    /\ v # World.value[s]
    /\ history' = Append(history, [World EXCEPT !.value[s] = v])
    /\ UNCHANGED <<heads, checkpoint, results, validator, reader, runs>>

Deploy(snapshot) ==
    /\ Position <= MaxWrites
    /\ snapshot # World.target
    /\ history' = Append(history, [World EXCEPT !.target = snapshot])
    /\ UNCHANGED <<heads, checkpoint, results, validator, reader, runs>>

-----------------------------------------------------------------------------
(* revalidate *)

Step(v, record) ==
    /\ validator' = [validator EXCEPT ![v] = record]
    /\ UNCHANGED <<history, heads, checkpoint, results, reader, runs>>

\* resolveRef, and the definitions of the snapshot it names
Begin(v) ==
    /\ validator[v] = IdleValidator
    /\ runs < MaxRuns
    /\ Overlap \/ \A u \in Validators : validator[u] = IdleValidator
    /\ runs' = runs + 1
    /\ validator' = [validator EXCEPT ![v] = [pc |-> "position", snapshot |-> World.target]]
    /\ UNCHANGED <<history, heads, checkpoint, results, reader>>

\* latestSourcePosition; then parseDefinition and GraphConstraint.collect,
\* which fail on a malformed snapshot.
ReadPosition(v) ==
    /\ validator[v].pc = "position"
    /\ Step(v, IF validator[v].snapshot \in Malformed THEN IdleValidator
               ELSE [pc |-> "graph", snapshot |-> validator[v].snapshot, position |-> Position])

\* GraphConstraint.evaluate
ReadGraph(v) ==
    /\ validator[v].pc = "graph"
    /\ Step(v, [pc |-> "heads", snapshot |-> validator[v].snapshot,
                position |-> validator[v].position,
                shared |-> Sharing(World, validator[v].snapshot)])

ReadHeads(v) ==
    /\ validator[v].pc = "heads"
    /\ Step(v, [pc |-> "checkpoint", snapshot |-> validator[v].snapshot,
                position |-> validator[v].position, shared |-> validator[v].shared,
                heads |-> heads])

\* The checkpoint, then the subjects of the schema's entity type.
ReadCheckpoint(v) ==
    /\ validator[v].pc = "checkpoint"
    /\ Step(v, [pc |-> "subjects", snapshot |-> validator[v].snapshot,
                position |-> validator[v].position, shared |-> validator[v].shared,
                heads |-> validator[v].heads, checkpoint |-> checkpoint])

ReadSubjects(v) ==
    /\ validator[v].pc = "subjects"
    /\ Step(v, [pc |-> "bodies", snapshot |-> validator[v].snapshot,
                position |-> validator[v].position, shared |-> validator[v].shared,
                heads |-> validator[v].heads, checkpoint |-> validator[v].checkpoint,
                left |-> Live(World), found |-> {}])

\* entity(subject): one body at a time; the order is not material.
ReadBody(v) ==
    /\ validator[v].pc = "bodies" /\ validator[v].left # {}
    /\ LET s == CHOOSE s \in validator[v].left : TRUE
       IN  Step(v, [validator[v] EXCEPT
                      !.left = @ \ {s},
                      !.found = @ \cup {Result(s, validator[v].snapshot, World.value[s],
                                               validator[v].shared[s])}])

-----------------------------------------------------------------------------

\* The heads of the subjects whose result moved, and of those no longer there.
RetractedHeads(call) ==
    {h \in call.heads :
       \/ h.result.subject \notin {r.subject : r \in call.found}
       \/ \A r \in call.found :
            r.subject = h.result.subject =>
                \A g \in call.heads : g.result # r}

\* The results whose subject has no head on them yet.
MovedResults(call) == {r \in call.found : \A h \in call.heads : h.result # r}

\* The results no earlier run recorded; each carries its violations.
NewResults(call) == call.found \ results

\* Faulty form: the run claims the position reached when it is written.
Run_Bug(call) == [snapshot |-> call.snapshot, position |-> Position, results |-> call.found]

Run(call) == [snapshot |-> call.snapshot, position |-> call.position, results |-> call.found]

CheckpointIsCurrent(call) == \E k \in call.checkpoint : k.run = Run(call)

\* The preconditions of the transaction.
TripleLive(call) ==
    /\ RetractedHeads(call) \subseteq heads
    /\ CheckpointIsCurrent(call) \/ call.checkpoint \subseteq checkpoint

\* The transaction, unless there is nothing to write.
Commit(v) ==
    /\ validator[v].pc = "bodies" /\ validator[v].left = {}
    /\ validator' = [validator EXCEPT ![v] = IdleValidator]
    /\ LET call == validator[v]
       IN  IF TripleLive(call)
             THEN /\ heads' = (heads \ RetractedHeads(call))
                                \cup {[result |-> r, by |-> <<v, runs>>] : r \in MovedResults(call)}
                  /\ checkpoint' = IF CheckpointIsCurrent(call) THEN checkpoint
                                   ELSE (checkpoint \ call.checkpoint)
                                          \cup {[run |-> Run(call), by |-> <<v, runs>>]}
                  /\ results' = results \cup NewResults(call)
             ELSE UNCHANGED <<heads, checkpoint, results>>
    /\ UNCHANGED <<history, reader, runs>>

-----------------------------------------------------------------------------
(* currentInvalid: four reads, in this order. *)

AskCheckpoint ==
    /\ reader.pc \in {"idle", "answered"}
    /\ reader' = [pc |-> "ref", checkpoint |-> checkpoint]
    /\ UNCHANGED <<history, heads, checkpoint, results, validator, runs>>

AskRef ==
    /\ reader.pc = "ref"
    /\ reader' = [pc |-> "invalid", checkpoint |-> reader.checkpoint, target |-> World.target]
    /\ UNCHANGED <<history, heads, checkpoint, results, validator, runs>>

\* lastInvalidQuery
AskInvalid ==
    /\ reader.pc = "invalid"
    /\ reader' = [pc |-> "position", checkpoint |-> reader.checkpoint, target |-> reader.target,
                  invalid |-> {h.result.subject : h \in {g \in heads : ~g.result.valid}}]
    /\ UNCHANGED <<history, heads, checkpoint, results, validator, runs>>

\* latestSourcePosition, and the answer.  Of several checkpoint facts the
\* first is used; which one that is, is left open.
Answer ==
    /\ reader.pc = "position"
    /\ LET reply(status, invalid) ==
             reader' = [pc |-> "answered", status |-> status, invalid |-> invalid, position |-> Position]
       IN  IF reader.checkpoint = {} THEN reply("unvalidated", {})
           ELSE \E k, l \in reader.checkpoint :
                  reply(IF k.run.snapshot = reader.target /\ l.run.position = Position
                          THEN "current" ELSE "stale", reader.invalid)
    /\ UNCHANGED <<history, heads, checkpoint, results, validator, runs>>

\* The two reads of the record of all results.
everInvalid == {r.subject : r \in {x \in results : ~x.valid}}

violations(subject) ==
    UNION {{<<r, issue>> : issue \in r.issues} : r \in {x \in results : x.subject = subject}}

-----------------------------------------------------------------------------

ValidationInit ==
    /\ history = <<[value |-> [x \in Subjects |-> Absent],
                    target |-> CHOOSE s \in Snapshots \ Malformed : TRUE]>>
    /\ heads = {} /\ checkpoint = {} /\ results = {}
    /\ validator = [v \in Validators |-> IdleValidator]
    /\ reader = [pc |-> "idle"]
    /\ runs = 0

ValidationNext ==
    \/ \E s \in Subjects, x \in Values \cup {Absent} : WriteValue(s, x)
    \/ \E s \in Snapshots : Deploy(s)
    \/ \E v \in Validators : \/ Begin(v) \/ ReadPosition(v) \/ ReadGraph(v) \/ ReadHeads(v)
                             \/ ReadCheckpoint(v) \/ ReadSubjects(v) \/ ReadBody(v) \/ Commit(v)
    \/ AskCheckpoint \/ AskRef \/ AskInvalid \/ Answer

ValidationSpec == ValidationInit /\ [][ValidationNext]_validationVars

\* "Stale results are never presented as current": an answer with status
\* current lists exactly the entities that are invalid, at the position it
\* names, under the configuration deployed there; and each entity an answer
\* lists, current or stale, has its violations on record.
CurrentIsTrue ==
    reader.pc = "answered" =>
        /\ reader.status = "current" => reader.invalid = Invalid(history[reader.position])
        /\ reader.invalid \subseteq everInvalid
        /\ \A s \in reader.invalid : violations(s) # {}

=============================================================================
