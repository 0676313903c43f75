-------------------------- MODULE DerivationProofs --------------------------
(***************************************************************************)
(* Machine-checked theorems about materialization: a run labelled with the *)
(* source position of now is right although its reads saw different        *)
(* stores, every stored run verifies, the head of a definition never       *)
(* regresses, and a preview answers what the patched store would.          *)
(***************************************************************************)
EXTENDS Derivation, FiniteSetTheorems, WellFoundedInduction, TLAPS

-----------------------------------------------------------------------------
(* What an evaluation depends on. *)

DepVisible(fs, d, valid) == {f \in Visible(fs, valid) : f.a \in Dependencies(d)}

Named(fs) == \A f \in fs : f.a # None

\* An evaluation only looks at the visible facts of the dependencies.
LEMMA EvaluationLocal ==
    ASSUME NEW A, NEW B, Named(A), Named(B), NEW d \in Definitions, NEW v, NEW w,
           DepVisible(A, d, v) = DepVisible(B, d, w)
    PROVE  /\ Answer(A, d, v) = Answer(B, d, w)
           /\ \A e : candidateFrom(A, d, v, e) = candidateFrom(B, d, w, e)
           /\ evaluate(A, d, v).candidates = evaluate(B, d, w).candidates
<1>1. d.positive # None /\ d.positive \in Dependencies(d)
  BY DerivationAssumption DEF Dependencies
<1>2. \A a \in {d.positive, d.negative} :
        {f \in Visible(A, v) : f.a = a} = {f \in Visible(B, w) : f.a = a}
  BY <1>1 DEF DepVisible, Dependencies, Named, Visible, Live
<1>3. \A e : sourcesForRow(A, d, v, e) = sourcesForRow(B, d, w, e)
  BY <1>2 DEF sourcesForRow
<1>4. Answer(A, d, v) = Answer(B, d, w)
  BY <1>2 DEF Answer
<1>5. \A e : candidateFrom(A, d, v, e) = candidateFrom(B, d, w, e)
  BY <1>3 DEF candidateFrom
<1>6. QED
  BY <1>4, <1>5 DEF evaluate

LEMMA SameFactsSameAnswer ==
    ASSUME NEW A, NEW B, Named(A), Named(B), NEW d \in Definitions,
           OfDefinition(A, d) = OfDefinition(B, d), NEW valid
    PROVE  /\ Answer(A, d, valid) = Answer(B, d, valid)
           /\ evaluate(A, d, valid).candidates = evaluate(B, d, valid).candidates
           /\ temporalBoundaryFromJournal(A, d, valid) = temporalBoundaryFromJournal(B, d, valid)
<1>1. DepVisible(A, d, valid) = DepVisible(B, d, valid)
  BY DEF DepVisible, OfDefinition, Visible, Live
<1>2. QED
  BY <1>1, EvaluationLocal DEF temporalBoundaryFromJournal

-----------------------------------------------------------------------------
(* Previews. *)

\* The copied store shows the dependencies what the patched store shows them.
Copied(fs, d, valid, hide) == {f \in Visible(OfDefinition(fs, d), valid) : f.id \notin hide}

Kept(fs, hide) == {f \in fs : f.id \notin hide}

Hypotheses(asserts, valid) == {Hypothetical(f, valid) : f \in asserts}

LEMMA PreviewSees ==
    ASSUME NEW fs, Named(fs), NEW d \in Definitions, NEW valid, NEW asserts, NEW hide,
           \A f \in asserts : f.a \in Dependencies(d)
    PROVE  evaluate(Copied(fs, d, valid, hide) \cup Hypotheses(asserts, valid), d, valid).candidates
             = evaluate(Kept(fs, hide) \cup Hypotheses(asserts, valid), d, valid).candidates
<1> DEFINE base == Copied(fs, d, valid, hide)
           hyp == Hypotheses(asserts, valid)
           kept == Kept(fs, hide)
<1>1. \A f \in hyp : f.a \in Dependencies(d) /\ f.a # None
  BY DEF Hypotheses, Hypothetical, Dependencies
<1>2. base \subseteq fs /\ kept \subseteq fs
  BY DEF Copied, Kept, Visible, Live, OfDefinition
<1>3. Named(base \cup hyp) /\ Named(kept \cup hyp)
  <2> HIDE DEF base, hyp, kept
  <2>1. QED
    BY <1>1, <1>2 DEF Named
<1>4. DepVisible(base, d, valid) = DepVisible(kept, d, valid)
  BY DEF DepVisible, Copied, Kept, Visible, Live, OfDefinition
<1> HIDE DEF base, hyp, kept
<1>5. DepVisible(base \cup hyp, d, valid) = DepVisible(kept \cup hyp, d, valid)
  BY <1>4 DEF DepVisible, Visible, Live
<1>6. evaluate(base \cup hyp, d, valid).candidates = evaluate(kept \cup hyp, d, valid).candidates
  BY <1>3, <1>5, EvaluationLocal
<1>7. QED
  BY <1>6 DEF base, hyp, kept

-----------------------------------------------------------------------------
(***************************************************************************)
(* The inductive invariant.  The source position was read before anything  *)
(* else; as long as it is still the definition's, no fact of the           *)
(* dependencies has changed since, so that each later read is what a read  *)
(* now would give.  Once one has changed, the source position is higher    *)
(* than any that was read and never comes back.                            *)
(***************************************************************************)
Entities == {f.e : f \in FactInputs}

FactRecords == [ id : Nat, e : Entities, a : {f.a : f \in FactInputs}, from : Nat, to : Nat,
                 rec : Nat, gone : Nat ]

Candidates == [ id : Entities, definition : {d.id : d \in Definitions}, sources : SUBSET Nat ]

Jobs == [ at : {"source", "query", "boundary", "sources", "existing", "commit"},
          d : Definitions, valid : ValidTimes, source : Nat, answer : SUBSET Entities,
          next : Nat, found : SUBSET Candidates ]

Stamp(f) == IF f.gone > 0 THEN f.gone ELSE f.rec

FactsSound == /\ facts \subseteq FactRecords /\ IsFiniteSet(facts)
              /\ \A f \in facts : f.rec <= position /\ f.gone <= position

JobSound(j) ==
    /\ j.source <= position
    /\ IsFiniteSet(j.answer) /\ IsFiniteSet(j.found)
    /\ j.source = currentSourcePosition(j.d) =>
         /\ j.at \in {"boundary", "sources"} => j.answer = Answer(facts, j.d, j.valid)
         /\ j.at \in {"sources", "existing", "commit"} =>
              j.next = temporalBoundaryFromJournal(facts, j.d, j.valid)
         /\ j.at \in {"existing", "commit"} =>
              j.found = evaluate(facts, j.d, j.valid).candidates

RunSound(r) ==
    /\ r.members = r.id.candidates /\ IsFiniteSet(r.members)
    /\ r.id.source \in Nat /\ r.id.source <= position /\ r.id.valid \in Nat
    /\ \A d \in Definitions :
         r.id.definition = d.id /\ r.id.source = currentSourcePosition(d) =>
            /\ r.id.candidates = evaluate(facts, d, r.id.valid).candidates
            /\ r.id.next = temporalBoundaryFromJournal(facts, d, r.id.valid)

DerivationInv ==
    /\ position \in Nat
    /\ FactsSound
    /\ \A d \in Definitions : currentSourcePosition(d) \in 0..position
    /\ job \in [Materializers -> Jobs \cup {Idle}]
    /\ \A m \in Materializers : job[m] # Idle => JobSound(job[m])
    /\ \A r \in runs : RunSound(r)

\* Facts and runs are named and kept apart from what is under way.
LEMMA FactsNamed == ASSUME FactsSound PROVE Named(facts)
BY DerivationAssumption DEF FactsSound, FactRecords, Named

LEMMA JobUnderWay ==
    ASSUME DerivationInv, NEW m \in Materializers, job[m].at # "idle"
    PROVE  job[m] \in Jobs /\ JobSound(job[m])
<1>1. job[m] # Idle
  BY DEF Idle
<1>2. QED
  BY <1>1 DEF DerivationInv

LEMMA IdleIsNoJob == Idle \notin Jobs
<1>1. \A j \in Jobs : j.at # "idle"
  BY DEF Jobs
<1>2. Idle.at = "idle"
  BY DEF Idle
<1>3. QED
  BY <1>1, <1>2

\* The greatest of numbers one of which bounds them.
LEMMA MaxOf ==
    ASSUME NEW S \in SUBSET Nat, NEW m \in S, \A y \in S : y <= m
    PROVE  Max(S) = m
<1>1. \E x \in S : \A y \in S : x >= y
  OBVIOUS
<1>2. PICK x : x = Max(S) /\ x \in S /\ \A y \in S : x >= y
  BY <1>1 DEF Max
<1>3. x \in Nat /\ m \in Nat /\ x >= m /\ x <= m
  BY <1>2
<1>4. QED
  BY <1>2, <1>3

LEMMA DerivationStart == Init => DerivationInv
<1> SUFFICES ASSUME Init PROVE DerivationInv
  OBVIOUS
<1>1. position = 0 /\ facts = {} /\ runs = {} /\ IsFiniteSet(facts)
  BY FS_EmptySet DEF Init
<1>2. ASSUME NEW d \in Definitions PROVE currentSourcePosition(d) = 0
  <2>1. {IF f.gone > 0 THEN f.gone ELSE f.rec : f \in OfDefinition(facts, d)} \cup {0} = {0}
    BY <1>1 DEF OfDefinition
  <2>2. Max({0}) = 0
    BY MaxOf
  <2>3. QED
    BY <2>1, <2>2 DEF currentSourcePosition
<1>3. job \in [Materializers -> Jobs \cup {Idle}] /\ \A m \in Materializers : job[m] = Idle
  BY DEF Init
<1>4. QED
  BY <1>1, <1>2, <1>3 DEF DerivationInv, FactsSound

-----------------------------------------------------------------------------
(* A fact of the dependencies that changes raises the source position. *)

\* What a write of fact g, instead of the facts in `old`, does at p.
LEMMA WriteRaises ==
    ASSUME DerivationInv, NEW old \in SUBSET facts, NEW g \in FactRecords,
           \A f \in old : f.a = g.a,
           facts' = (facts \ old) \cup {g}, position' = position + 1,
           Stamp(g) = position + 1, g.rec <= position + 1, g.gone <= position + 1
    PROVE  /\ position' \in Nat /\ FactsSound'
           /\ \A d \in Definitions :
                \/ /\ currentSourcePosition(d)' = currentSourcePosition(d)
                   /\ \A v : /\ Answer(facts', d, v) = Answer(facts, d, v)
                             /\ evaluate(facts', d, v).candidates = evaluate(facts, d, v).candidates
                             /\ temporalBoundaryFromJournal(facts', d, v)
                                  = temporalBoundaryFromJournal(facts, d, v)
                \/ currentSourcePosition(d)' = position + 1
<1>1. position \in Nat /\ position' \in Nat /\ FactsSound
  BY DEF DerivationInv
<1>2. FactsSound'
  <2>1. IsFiniteSet(facts \ old)
    BY <1>1, FS_Subset DEF FactsSound
  <2>2. IsFiniteSet(facts')
    BY <2>1, FS_AddElement
  <2>3. facts' \subseteq FactRecords
    BY <1>1 DEF FactsSound
  <2>4. ASSUME NEW f \in facts' PROVE f.rec <= position' /\ f.gone <= position'
    <3>1. f \in FactRecords /\ (f \in facts \/ f = g)
      BY <2>3
    <3>2. CASE f \in facts
      <4>1. f.rec <= position /\ f.gone <= position /\ f.rec \in Nat /\ f.gone \in Nat
        BY <1>1, <3>1, <3>2 DEF FactsSound, FactRecords
      <4>2. QED
        BY <1>1, <4>1
    <3>3. CASE f = g
      BY <3>3
    <3>4. QED
      BY <3>1, <3>2, <3>3
  <2>5. QED
    BY <2>2, <2>3, <2>4 DEF FactsSound
<1>3. Named(facts) /\ Named(facts')
  <2>1. Named(facts)
    BY <1>1, FactsNamed
  <2>2. g.a # None
    BY DerivationAssumption DEF FactRecords
  <2>3. QED
    BY <2>1, <2>2 DEF Named
<1>4. ASSUME NEW d \in Definitions, g.a \notin Dependencies(d)
      PROVE  OfDefinition(facts', d) = OfDefinition(facts, d)
  BY <1>4 DEF OfDefinition
<1>5. ASSUME NEW d \in Definitions, g.a \in Dependencies(d)
      PROVE  currentSourcePosition(d)' = position + 1
  <2> DEFINE S == {Stamp(f) : f \in OfDefinition(facts', d)} \cup {0}
  <2>1. \A f \in facts' : f \in FactRecords /\ f.rec <= position + 1 /\ f.gone <= position + 1
    BY <1>2 DEF FactsSound
  <2>2. \A f \in facts' : Stamp(f) \in Nat /\ Stamp(f) <= position + 1
    BY <1>1, <2>1 DEF Stamp, FactRecords
  <2>3. position + 1 \in S
    BY <1>5 DEF OfDefinition
  <2>4. S \in SUBSET Nat /\ \A y \in S : y <= position + 1
    BY <1>1, <2>2 DEF OfDefinition
  <2>5. Max(S) = position + 1
    <3> HIDE DEF S
    <3>1. QED
      BY <2>3, <2>4, MaxOf
  <2>6. QED
    BY <2>5 DEF currentSourcePosition, Stamp
<1>6. ASSUME NEW d \in Definitions, OfDefinition(facts', d) = OfDefinition(facts, d)
      PROVE  /\ currentSourcePosition(d)' = currentSourcePosition(d)
             /\ \A v : /\ Answer(facts', d, v) = Answer(facts, d, v)
                       /\ evaluate(facts', d, v).candidates = evaluate(facts, d, v).candidates
                       /\ temporalBoundaryFromJournal(facts', d, v)
                            = temporalBoundaryFromJournal(facts, d, v)
  <2>1. currentSourcePosition(d)' = currentSourcePosition(d)
    BY <1>6 DEF currentSourcePosition
  <2>2. PICK A, B : A = facts' /\ B = facts
    OBVIOUS
  <2>3. \A v : /\ Answer(A, d, v) = Answer(B, d, v)
               /\ evaluate(A, d, v).candidates = evaluate(B, d, v).candidates
               /\ temporalBoundaryFromJournal(A, d, v) = temporalBoundaryFromJournal(B, d, v)
    BY <1>3, <1>6, <2>2, SameFactsSameAnswer
  <2>4. QED
    BY <2>1, <2>2, <2>3
<1>7. QED
  BY <1>1, <1>2, <1>4, <1>5, <1>6

\* So a write leaves jobs and runs sound.
LEMMA WriteKeeps ==
    ASSUME DerivationInv, NEW old \in SUBSET facts, NEW g \in FactRecords,
           \A f \in old : f.a = g.a,
           facts' = (facts \ old) \cup {g}, position' = position + 1,
           Stamp(g) = position + 1, g.rec <= position + 1, g.gone <= position + 1,
           UNCHANGED <<runs, job>>
    PROVE  DerivationInv'
<1> DEFINE Same(d) == /\ currentSourcePosition(d)' = currentSourcePosition(d)
                      /\ \A v : /\ Answer(facts', d, v) = Answer(facts, d, v)
                                /\ evaluate(facts', d, v).candidates
                                     = evaluate(facts, d, v).candidates
                                /\ temporalBoundaryFromJournal(facts', d, v)
                                     = temporalBoundaryFromJournal(facts, d, v)
<1>1. /\ position \in Nat /\ position' = position + 1 /\ FactsSound'
      /\ \A d \in Definitions : Same(d) \/ currentSourcePosition(d)' = position + 1
  BY WriteRaises DEF DerivationInv
<1> HIDE DEF Same
<1>2. ASSUME NEW j \in Jobs, JobSound(j) PROVE JobSound(j)'
  <2>1. j.d \in Definitions /\ j.source \in Nat /\ j.source <= position
    BY <1>2 DEF Jobs, JobSound
  <2>2. j.source <= position' /\ j.source # position + 1
    BY <1>1, <2>1
  <2>3. CASE Same(j.d)
    <3>1. /\ currentSourcePosition(j.d)' = currentSourcePosition(j.d)
          /\ Answer(facts', j.d, j.valid) = Answer(facts, j.d, j.valid)
          /\ evaluate(facts', j.d, j.valid).candidates = evaluate(facts, j.d, j.valid).candidates
          /\ temporalBoundaryFromJournal(facts', j.d, j.valid)
               = temporalBoundaryFromJournal(facts, j.d, j.valid)
      BY <2>3 DEF Same
    <3>2. QED
      BY <1>2, <2>2, <3>1 DEF JobSound
  <2>4. CASE currentSourcePosition(j.d)' = position + 1
    BY <1>2, <2>2, <2>4 DEF JobSound
  <2>5. QED
    BY <1>1, <2>1, <2>3, <2>4
<1>3. ASSUME NEW r \in runs PROVE RunSound(r)'
  <2>1. RunSound(r)
    BY DEF DerivationInv
  <2>2. ASSUME NEW d \in Definitions, r.id.definition = d.id,
               r.id.source = currentSourcePosition(d)'
        PROVE  /\ r.id.candidates = evaluate(facts', d, r.id.valid).candidates
               /\ r.id.next = temporalBoundaryFromJournal(facts', d, r.id.valid)
    <3>1. CASE Same(d)
      BY <2>1, <2>2, <3>1 DEF RunSound, Same
    <3>2. CASE currentSourcePosition(d)' = position + 1
      BY <1>1, <2>1, <2>2, <3>2 DEF RunSound
    <3>3. QED
      BY <1>1, <3>1, <3>2
  <2>3. r.id.source <= position'
    BY <1>1, <2>1 DEF RunSound
  <2>4. QED
    BY <2>1, <2>2, <2>3 DEF RunSound
<1>4. \A d \in Definitions : currentSourcePosition(d)' \in 0..position'
  BY <1>1 DEF DerivationInv, Same
<1>5. \A m \in Materializers : job'[m] # Idle => JobSound(job[m])'
  BY <1>2 DEF DerivationInv
<1>6. QED
  BY <1>1, <1>3, <1>4, <1>5 DEF DerivationInv, JobSound

-----------------------------------------------------------------------------
(* The reads of a materializer. *)

\* Numbers have a least one.
LEMMA MinIsLeast ==
    ASSUME NEW S \in SUBSET Nat, S # {}
    PROVE  Min(S) \in S /\ \A y \in S : Min(S) <= y
<1> DEFINE T == {0..x : x \in S}
           R == StrictSubsetOrdering(Nat)
<1>1. IsWellFoundedOn(R, FiniteSubsetsOf(Nat))
  BY FS_StrictSubsetOrderingWellFounded
<1>2. T \subseteq FiniteSubsetsOf(Nat) /\ T # {}
  <2>1. \A x \in S : 0..x \subseteq Nat /\ IsFiniteSet(0..x)
    BY FS_Interval
  <2>2. QED
    BY <2>1 DEF FiniteSubsetsOf
<1>3. PICK U \in T : \A V \in T : ~ (<<V, U>> \in R)
  BY <1>1, <1>2, WFMin
<1>4. PICK x \in S : U = 0..x
  BY <1>3
<1>5. ASSUME NEW y \in S PROVE x <= y
  <2> SUFFICES ASSUME y < x PROVE FALSE
    OBVIOUS
  <2>1. 0..y \subseteq 0..x /\ 0..y # 0..x /\ 0..x \subseteq Nat /\ 0..y \subseteq Nat
    <3>1. x \in 0..x /\ x \notin 0..y
      OBVIOUS
    <3>2. QED
      BY <3>1
  <2>2. <<0..y, 0..x>> \in R
    BY <2>1 DEF StrictSubsetOrdering
  <2>3. QED
    BY <1>3, <1>4, <2>2
<1>6. QED
  BY <1>5 DEF Min

LEMMA FiniteImage ==
    ASSUME NEW S, IsFiniteSet(S), NEW g, DOMAIN g = S, NEW T, T \subseteq {g[x] : x \in S}
    PROVE  IsFiniteSet(T)
<1> DEFINE W == {g[x] : x \in S}
           h == [x \in S |-> g[x]]
<1>1. h \in Surjection(S, W)
  BY DEF Surjection
<1>2. IsFiniteSet(W)
  <2> HIDE DEF h, W
  <2>1. QED
    BY <1>1, FS_Surjection
<1>3. QED
  BY <1>2, FS_Subset

LEMMA AnswersTyped ==
    ASSUME FactsSound, NEW d \in Definitions, NEW valid
    PROVE  /\ Answer(facts, d, valid) \subseteq Entities
           /\ IsFiniteSet(Answer(facts, d, valid))
<1> DEFINE g == [f \in facts |-> f.e]
<1>1. DOMAIN g = facts /\ Answer(facts, d, valid) \subseteq {g[f] : f \in facts}
  BY DEF Answer, Visible, Live
<1>2. \A f \in facts : f.e \in Entities
  BY DEF FactsSound, FactRecords
<1>3. Answer(facts, d, valid) \subseteq Entities
  BY <1>2 DEF Answer, Visible, Live
<1> HIDE DEF g
<1>4. IsFiniteSet(Answer(facts, d, valid))
  BY <1>1, FiniteImage DEF FactsSound
<1>5. QED
  BY <1>3, <1>4

LEMMA CandidatesTyped ==
    ASSUME FactsSound, NEW d \in Definitions, NEW valid, NEW answer \in SUBSET Entities,
           IsFiniteSet(answer)
    PROVE  LET found == {candidateFrom(facts, d, valid, e) : e \in answer}
           IN  found \subseteq Candidates /\ IsFiniteSet(found)
<1> DEFINE g == [e \in answer |-> candidateFrom(facts, d, valid, e)]
           found == {candidateFrom(facts, d, valid, e) : e \in answer}
<1>1. DOMAIN g = answer /\ found \subseteq {g[e] : e \in answer}
  OBVIOUS
<1>2. found \subseteq Candidates
  <2>1. ASSUME NEW e \in answer PROVE candidateFrom(facts, d, valid, e) \in Candidates
    <3>1. PICK ids : ids = {f.id : f \in sourcesForRow(facts, d, valid, e)}
      OBVIOUS
    <3>2. ids \subseteq Nat
      BY <3>1 DEF sourcesForRow, Visible, Live, FactsSound, FactRecords
    <3>3. candidateFrom(facts, d, valid, e) = [id |-> e, definition |-> d.id, sources |-> ids]
      BY <3>1 DEF candidateFrom
    <3>4. QED
      BY <3>2, <3>3 DEF Candidates
  <2>2. QED
    BY <2>1
<1> HIDE DEF g, found
<1>3. IsFiniteSet(found)
  BY <1>1, FiniteImage
<1>4. QED
  BY <1>2, <1>3 DEF found

\* The boundaries that matter, and the least of them.
LEMMA BoundaryIsNext ==
    ASSUME FactsSound, NEW d \in Definitions, NEW valid \in Nat
    PROVE  LET next == temporalBoundaryFromJournal(facts, d, valid)
           IN  /\ next \in Nat
               /\ \A f \in Live(OfDefinition(facts, d)) :
                     /\ f.from > valid => next <= f.from
                     /\ f.to > valid => next <= f.to
<1> DEFINE S == {t \in UNION {Edges(f) : f \in Live(OfDefinition(facts, d))} : t > valid}
                  \cup {Forever}
<1>1. \A f \in Live(OfDefinition(facts, d)) : f.from \in Nat /\ f.to \in Nat
  BY DEF Live, OfDefinition, FactsSound, FactRecords
<1>2. S \in SUBSET Nat /\ S # {}
  BY <1>1, DerivationAssumption DEF Edges
<1>3. \A f \in Live(OfDefinition(facts, d)) :
        (f.from > valid => f.from \in S) /\ (f.to > valid => f.to \in S)
  BY DEF Edges
<1>4. temporalBoundaryFromJournal(facts, d, valid) = Min(S)
  BY DEF temporalBoundaryFromJournal
<1> HIDE DEF S
<1>5. Min(S) \in S /\ \A y \in S : Min(S) <= y
  BY <1>2, MinIsLeast
<1>6. QED
  BY <1>2, <1>3, <1>4, <1>5

\* Nothing of the dependencies starts or ends before the next boundary.
LEMMA AnswerHoldsUntilBoundary ==
    ASSUME FactsSound, NEW d \in Definitions, NEW valid \in Nat, NEW next,
           next = temporalBoundaryFromJournal(facts, d, valid), NEW v \in valid..(next - 1)
    PROVE  Answer(facts, d, v) = Answer(facts, d, valid)
<1>1. /\ next \in Nat
      /\ \A f \in Live(OfDefinition(facts, d)) :
            (f.from > valid => next <= f.from) /\ (f.to > valid => next <= f.to)
  BY BoundaryIsNext
<1>2. v \in Int /\ valid <= v /\ v < next
  BY <1>1
<1>3. ASSUME NEW f \in Live(OfDefinition(facts, d))
      PROVE  (f.from <= v /\ f.to > v) <=> (f.from <= valid /\ f.to > valid)
  <2>1. f.from \in Nat /\ f.to \in Nat
    BY DEF Live, OfDefinition, FactsSound, FactRecords
  <2>2. (f.from > valid => next <= f.from) /\ (f.to > valid => next <= f.to)
    BY <1>1
  <2>3. QED
    BY <1>1, <1>2, <2>1, <2>2
<1>4. DepVisible(facts, d, v) = DepVisible(facts, d, valid)
  BY <1>3 DEF DepVisible, Visible, Live, OfDefinition
<1>5. QED
  BY <1>4, FactsNamed, EvaluationLocal

\* A step of one materializer that writes nothing.
LEMMA JobMoves ==
    ASSUME DerivationInv, NEW m \in Materializers, NEW j \in Jobs \cup {Idle},
           j # Idle => JobSound(j), job' = [job EXCEPT ![m] = j],
           UNCHANGED <<facts, position, runs>>
    PROVE  DerivationInv'
<1>1. /\ job' \in [Materializers -> Jobs \cup {Idle}] /\ job'[m] = j
      /\ \A n \in Materializers \ {m} : job'[n] = job[n]
  BY DEF DerivationInv
<1>2. \A n \in Materializers : job'[n] # Idle => JobSound(job'[n])
  BY <1>1 DEF DerivationInv
<1>3. QED
  BY <1>1, <1>2 DEF DerivationInv, FactsSound, JobSound, RunSound, currentSourcePosition

LEMMA StartKeeps ==
    ASSUME DerivationInv, NEW m \in Materializers, NEW d \in Definitions, NEW v \in ValidTimes,
           Start(m, d, v)
    PROVE  DerivationInv'
<1>1. PICK j : j = [at |-> "source", d |-> d, valid |-> v, source |-> 0, answer |-> {},
                    next |-> 0, found |-> {}]
  OBVIOUS
<1>2. j \in Jobs
  BY <1>1 DEF Jobs
<1>3. j.at = "source" /\ j.source = 0 /\ j.answer = {} /\ j.found = {}
  BY <1>1
<1>4. JobSound(j)
  BY <1>3, FS_EmptySet DEF JobSound, DerivationInv
<1>5. QED
  BY <1>1, <1>2, <1>4, JobMoves DEF Start

LEMMA ReadSourceKeeps ==
    ASSUME DerivationInv, NEW m \in Materializers, ReadSource(m)
    PROVE  DerivationInv'
<1>1. job[m].at = "source" /\ job[m] \in Jobs /\ JobSound(job[m])
  BY JobUnderWay DEF ReadSource
<1>2. PICK k, s : k = job[m] /\ s = currentSourcePosition(k.d)
  OBVIOUS
<1>3. PICK j : j = [k EXCEPT !.at = "query", !.source = s]
  OBVIOUS
<1>4. s \in Nat /\ s <= position
  BY <1>1, <1>2 DEF DerivationInv, Jobs
<1>5. /\ j \in Jobs /\ j.at = "query" /\ j.source = s /\ j.d = k.d
      /\ j.answer = k.answer /\ j.found = k.found
  BY <1>1, <1>2, <1>3, <1>4 DEF Jobs
<1>6. JobSound(j)
  BY <1>1, <1>2, <1>4, <1>5 DEF JobSound
<1>7. job' = [job EXCEPT ![m] = j]
  BY <1>2, <1>3 DEF ReadSource, DerivationInv
<1>8. QED
  BY <1>5, <1>6, <1>7, JobMoves DEF ReadSource

LEMMA QueryAllKeeps ==
    ASSUME DerivationInv, NEW m \in Materializers, QueryAll(m)
    PROVE  DerivationInv'
<1>1. job[m].at = "query" /\ job[m] \in Jobs /\ JobSound(job[m])
  BY JobUnderWay DEF QueryAll
<1>2. PICK k, a : k = job[m] /\ a = Answer(facts, k.d, k.valid)
  OBVIOUS
<1>3. PICK j : j = [k EXCEPT !.at = "boundary", !.answer = a]
  OBVIOUS
<1>4. a \subseteq Entities /\ IsFiniteSet(a)
  BY <1>1, <1>2, AnswersTyped DEF DerivationInv, Jobs
<1>5. /\ j \in Jobs /\ j.at = "boundary" /\ j.source = k.source /\ j.d = k.d
      /\ j.valid = k.valid /\ j.answer = a /\ j.found = k.found
  BY <1>1, <1>2, <1>3, <1>4 DEF Jobs
<1>6. JobSound(j)
  BY <1>1, <1>2, <1>4, <1>5 DEF JobSound
<1>7. job' = [job EXCEPT ![m] = j]
  BY <1>2, <1>3 DEF QueryAll, DerivationInv
<1>8. QED
  BY <1>5, <1>6, <1>7, JobMoves DEF QueryAll

LEMMA ReadBoundaryKeeps ==
    ASSUME DerivationInv, NEW m \in Materializers, ReadBoundary(m)
    PROVE  DerivationInv'
<1>1. job[m].at = "boundary" /\ job[m] \in Jobs /\ JobSound(job[m])
  BY JobUnderWay DEF ReadBoundary
<1>2. PICK k, n : k = job[m] /\ n = temporalBoundaryFromJournal(facts, k.d, k.valid)
  OBVIOUS
<1>3. PICK j : j = [k EXCEPT !.at = "sources", !.next = n]
  OBVIOUS
<1>4. n \in Nat
  <2>1. k.d \in Definitions /\ k.valid \in Nat
    BY <1>1, <1>2, DerivationAssumption DEF Jobs
  <2>2. QED
    BY <1>2, <2>1, BoundaryIsNext DEF DerivationInv
<1>5. /\ j \in Jobs /\ j.at = "sources" /\ j.source = k.source /\ j.d = k.d
      /\ j.valid = k.valid /\ j.answer = k.answer /\ j.found = k.found /\ j.next = n
  BY <1>1, <1>2, <1>3, <1>4 DEF Jobs
<1>6. JobSound(j)
  BY <1>1, <1>2, <1>5 DEF JobSound
<1>7. job' = [job EXCEPT ![m] = j]
  BY <1>2, <1>3 DEF ReadBoundary, DerivationInv
<1>8. QED
  BY <1>5, <1>6, <1>7, JobMoves DEF ReadBoundary

LEMMA ReadSourcesKeeps ==
    ASSUME DerivationInv, NEW m \in Materializers, ReadSources(m)
    PROVE  DerivationInv'
<1>1. job[m].at = "sources" /\ job[m] \in Jobs /\ JobSound(job[m])
  BY JobUnderWay DEF ReadSources
<1>2. PICK k, found : /\ k = job[m]
                      /\ found = {candidateFrom(facts, k.d, k.valid, e) : e \in k.answer}
  OBVIOUS
<1>3. PICK j : j = [k EXCEPT !.at = "existing", !.answer = {}, !.found = found]
  OBVIOUS
<1>4. found \subseteq Candidates /\ IsFiniteSet(found)
  <2>1. k.d \in Definitions /\ k.answer \in SUBSET Entities /\ IsFiniteSet(k.answer)
    BY <1>1, <1>2 DEF Jobs, JobSound
  <2>2. QED
    BY <1>2, <2>1, CandidatesTyped DEF DerivationInv
<1>5. /\ j \in Jobs /\ j.at = "existing" /\ j.source = k.source /\ j.d = k.d
      /\ j.valid = k.valid /\ j.answer = {} /\ j.found = found /\ j.next = k.next
  BY <1>1, <1>2, <1>3, <1>4 DEF Jobs
<1>6. k.answer = Answer(facts, k.d, k.valid) => found = evaluate(facts, k.d, k.valid).candidates
  BY <1>2 DEF evaluate
<1>7. JobSound(j)
  BY <1>1, <1>2, <1>4, <1>5, <1>6, FS_EmptySet DEF JobSound
<1>8. job' = [job EXCEPT ![m] = j]
  BY <1>2, <1>3 DEF ReadSources, DerivationInv
<1>9. QED
  BY <1>5, <1>7, <1>8, JobMoves DEF ReadSources

LEMMA ReadExistingKeeps ==
    ASSUME DerivationInv, NEW m \in Materializers, ReadExisting(m)
    PROVE  DerivationInv'
<1>1. job[m].at = "existing" /\ job[m] \in Jobs /\ JobSound(job[m])
  BY JobUnderWay DEF ReadExisting
<1>2. PICK k : k = job[m]
  OBVIOUS
<1>3. PICK j : j = [k EXCEPT !.at = "commit"]
  OBVIOUS
<1>4. /\ j \in Jobs /\ j.at = "commit" /\ j.source = k.source /\ j.d = k.d
      /\ j.valid = k.valid /\ j.answer = k.answer /\ j.found = k.found /\ j.next = k.next
  BY <1>1, <1>2, <1>3 DEF Jobs
<1>5. JobSound(j)
  BY <1>1, <1>2, <1>4 DEF JobSound
<1>6. job' = [job EXCEPT ![m] = j] \/ job' = [job EXCEPT ![m] = Idle]
  BY <1>2, <1>3 DEF ReadExisting, DerivationInv
<1>7. QED
  BY <1>4, <1>5, <1>6, JobMoves DEF ReadExisting

\* A run that is written takes a position of its own; it is as right as the
\* reads that made it.
LEMMA TransactRunKeeps ==
    ASSUME DerivationInv, NEW m \in Materializers, TransactRun(m)
    PROVE  DerivationInv'
<1>1. job[m].at = "commit" /\ job[m] \in Jobs /\ JobSound(job[m])
  BY JobUnderWay DEF TransactRun
<1>2. PICK j, body, r : /\ j = job[m] /\ body = runBody(j)
                        /\ r = [id |-> body, pos |-> position + 1, members |-> j.found]
  OBVIOUS
<1>3. /\ position \in Nat /\ position' = position + 1 /\ facts' = facts
      /\ runs' = runs \cup {r} /\ job' = [job EXCEPT ![m] = Idle]
  BY <1>2 DEF TransactRun, DerivationInv
<1>4. /\ body.definition = j.d.id /\ body.source = j.source /\ body.valid = j.valid
      /\ body.candidates = j.found /\ body.next = j.next
      /\ r.id = body /\ r.members = j.found
  BY <1>2 DEF runBody
<1>5. /\ j.d \in Definitions /\ j.valid \in Nat /\ j.source \in Nat /\ j.source <= position
      /\ IsFiniteSet(j.found)
  BY <1>1, <1>2, DerivationAssumption DEF Jobs, JobSound
<1>6. ASSUME NEW d \in Definitions, j.d.id = d.id, j.source = currentSourcePosition(d)
      PROVE  /\ j.found = evaluate(facts, d, j.valid).candidates
             /\ j.next = temporalBoundaryFromJournal(facts, d, j.valid)
  <2>1. j.d = d
    BY <1>5, <1>6, DerivationAssumption
  <2>2. QED
    BY <1>1, <1>2, <1>6, <2>1 DEF JobSound
<1>7. RunSound(r)
  BY <1>4, <1>5, <1>6 DEF RunSound
<1>8. ASSUME NEW q, RunSound(q) PROVE RunSound(q)'
  <2>1. q.id.source <= position'
    BY <1>3, <1>8 DEF RunSound
  <2>2. \A d \in Definitions : currentSourcePosition(d)' = currentSourcePosition(d)
    BY <1>3 DEF currentSourcePosition
  <2>3. QED
    BY <1>3, <1>8, <2>1, <2>2 DEF RunSound
<1>9. ASSUME NEW k \in Jobs, JobSound(k) PROVE JobSound(k)'
  <2>1. k.source <= position' /\ k.d \in Definitions
    BY <1>3, <1>9 DEF JobSound, Jobs
  <2>2. currentSourcePosition(k.d)' = currentSourcePosition(k.d)
    BY <1>3 DEF currentSourcePosition
  <2>3. QED
    BY <1>3, <1>9, <2>1, <2>2 DEF JobSound
<1>10. /\ job' \in [Materializers -> Jobs \cup {Idle}]
       /\ \A n \in Materializers : job'[n] # Idle => job'[n] = job[n]
  BY <1>3 DEF DerivationInv
<1>11. \A n \in Materializers : job'[n] # Idle => JobSound(job[n])'
  <2>1. TAKE n \in Materializers
  <2>2. HAVE job'[n] # Idle
  <2>3. PICK k : k = job[n]
    OBVIOUS
  <2>4. k \in Jobs /\ JobSound(k) /\ job'[n] = k
    BY <1>10, <2>2, <2>3 DEF DerivationInv
  <2>5. JobSound(k)'
    BY <1>9, <2>4
  <2>6. QED
    BY <2>4, <2>5 DEF JobSound
<1>12. FactsSound' /\ \A d \in Definitions : currentSourcePosition(d)' \in 0..position'
  <2>1. \A f \in facts : f.rec \in Nat /\ f.gone \in Nat /\ f.rec <= position /\ f.gone <= position
    BY DEF DerivationInv, FactsSound, FactRecords
  <2>2. FactsSound'
    BY <1>3, <2>1 DEF DerivationInv, FactsSound
  <2>3. \A d \in Definitions : currentSourcePosition(d)' = currentSourcePosition(d)
    BY <1>3 DEF currentSourcePosition
  <2>4. QED
    BY <1>3, <2>2, <2>3 DEF DerivationInv
<1>13. QED
  BY <1>3, <1>7, <1>8, <1>10, <1>11, <1>12 DEF DerivationInv, JobSound

LEMMA AssertKeeps ==
    ASSUME DerivationInv, NEW f \in FactInputs, Assert1(f)
    PROVE  DerivationInv'
<1>1. PICK g : g = [id |-> position + 1, e |-> f.e, a |-> f.a, from |-> f.from, to |-> f.to,
                    rec |-> position + 1, gone |-> 0]
  OBVIOUS
<1>2. position \in Nat /\ g \in FactRecords
  BY <1>1, DerivationAssumption DEF DerivationInv, FactRecords, Entities
<1>3. g.rec = position + 1 /\ g.gone = 0 /\ Stamp(g) = position + 1
  BY <1>1 DEF Stamp
<1>4. PICK old : old = {}
  OBVIOUS
<1>5. /\ old \in SUBSET facts /\ \A h \in old : h.a = g.a
      /\ facts' = (facts \ old) \cup {g} /\ position' = position + 1 /\ UNCHANGED <<runs, job>>
  BY <1>1, <1>4 DEF Assert1
<1>6. g.rec <= position + 1 /\ g.gone <= position + 1
  BY <1>2, <1>3
<1>7. QED
  BY <1>2, <1>3, <1>5, <1>6, WriteKeeps

LEMMA RetractKeeps ==
    ASSUME DerivationInv, NEW f \in Live(facts), Retract1(f)
    PROVE  DerivationInv'
<1>1. PICK g : g = [f EXCEPT !.gone = position + 1]
  OBVIOUS
<1>2. /\ f \in facts /\ f \in FactRecords /\ position \in Nat
      /\ f.rec \in Nat /\ f.rec <= position
  BY DEF Live, DerivationInv, FactsSound, FactRecords
<1>3. g \in FactRecords /\ g.rec = f.rec /\ g.gone = position + 1 /\ g.a = f.a
  BY <1>1, <1>2 DEF FactRecords
<1>4. Stamp(g) = position + 1 /\ g.rec <= position + 1 /\ g.gone <= position + 1
  BY <1>2, <1>3 DEF Stamp
<1>5. PICK old : old = {f}
  OBVIOUS
<1>6. /\ old \in SUBSET facts /\ \A h \in old : h.a = g.a
      /\ facts' = (facts \ old) \cup {g} /\ position' = position + 1 /\ UNCHANGED <<runs, job>>
  BY <1>1, <1>2, <1>3, <1>5 DEF Retract1
<1>7. QED
  BY <1>3, <1>4, <1>6, WriteKeeps

LEMMA DerivationInvariance == Spec => []DerivationInv
<1>1. DerivationInv /\ [Next]_vars => DerivationInv'
  <2> SUFFICES ASSUME DerivationInv, [Next]_vars PROVE DerivationInv'
    OBVIOUS
  <2>1. CASE UNCHANGED vars
    BY <2>1 DEF vars, DerivationInv, FactsSound, JobSound, RunSound, currentSourcePosition
  <2>2. CASE \E f \in FactInputs : Assert1(f)
    BY <2>2, AssertKeeps
  <2>3. CASE \E f \in Live(facts) : Retract1(f)
    BY <2>3, RetractKeeps
  <2>4. CASE \E m \in Materializers, d \in Definitions, v \in ValidTimes : Start(m, d, v)
    BY <2>4, StartKeeps
  <2>5. CASE \E m \in Materializers : Interrupted(m)
    BY <2>5, JobMoves DEF Interrupted
  <2>6. CASE \E m \in Materializers :
               \/ ReadSource(m) \/ QueryAll(m) \/ ReadBoundary(m)
               \/ ReadSources(m) \/ ReadExisting(m) \/ TransactRun(m)
    BY <2>6, ReadSourceKeeps, QueryAllKeeps, ReadBoundaryKeeps, ReadSourcesKeeps,
       ReadExistingKeeps, TransactRunKeeps
  <2>7. QED
    BY <2>1, <2>2, <2>3, <2>4, <2>5, <2>6 DEF Next
<1>2. QED
  BY <1>1, DerivationStart, PTL DEF Spec

-----------------------------------------------------------------------------
(* The theorems. *)

\* A stored run verifies: its entities are its candidates, each read once.
LEMMA StoredRunsVerify ==
    ASSUME DerivationInv, NEW id \in RunIds
    PROVE  Verified(id)
<1> DEFINE S == UNION {r.members : r \in {q \in runs : q.id = id}}
           T == candidateEntities(id)
           g == [c \in S |-> <<c, 1>>]
<1>1. PICK r \in runs : r.id = id
  BY DEF RunIds
<1>2. S = id.candidates /\ IsFiniteSet(S)
  BY <1>1 DEF DerivationInv, RunSound
<1>3. T = {<<c, 1>> : c \in S}
  BY DEF candidateEntities, Members
<1> HIDE DEF S, T
<1>4. g \in Bijection(S, T)
  <2>1. g \in [S -> T] /\ \A t \in T : \E c \in S : g[c] = t
    BY <1>3
  <2>2. \A b, c \in S : g[b] = g[c] => b = c
    OBVIOUS
  <2>3. QED
    BY <2>1, <2>2 DEF Bijection, Injection, Surjection, IsInjective
<1>5. Cardinality(T) = Cardinality(S)
  BY <1>2, <1>4, FS_Bijection DEF ExistsBijection
<1>6. {t[1] : t \in T} = S
  <2>1. \A t \in T : t[1] \in S
    BY <1>3
  <2>2. \A c \in S : <<c, 1>> \in T /\ <<c, 1>>[1] = c
    BY <1>3
  <2>3. \A c \in S : \E t \in T : t[1] = c
    BY <2>2
  <2>4. QED
    BY <2>1, <2>3
<1>7. QED
  BY <1>2, <1>5, <1>6 DEF Verified, T

\* For any number of materializers, definitions and facts, whatever is
\* written between the reads of materialize: a run labelled with the
\* definition's present source position holds what an evaluation now would
\* answer and goes on holding until its next boundary, and every stored run
\* verifies when it is loaded (Materialization.materialize, loadRuns).
THEOREM CurrentRunsAreTrue == Spec => []RunsAreTrue
<1>1. ASSUME DerivationInv PROVE CurrentRunIsTrue
  <2>1. SUFFICES ASSUME NEW id \in RunIds, NEW d \in Definitions, id.definition = d.id,
                        id.source = currentSourcePosition(d)
                 PROVE  /\ id.candidates = evaluate(facts, d, id.valid).candidates
                        /\ \A v \in id.valid..(id.next - 1) :
                              Answer(facts, d, v) = Answer(facts, d, id.valid)
    BY DEF CurrentRunIsTrue
  <2>2. PICK r \in runs : r.id = id
    BY DEF RunIds
  <2>3. /\ id.candidates = evaluate(facts, d, id.valid).candidates /\ id.valid \in Nat
        /\ id.next = temporalBoundaryFromJournal(facts, d, id.valid)
    BY <1>1, <2>1, <2>2 DEF DerivationInv, RunSound
  <2>4. QED
    BY <1>1, <2>3, AnswerHoldsUntilBoundary DEF DerivationInv
<1>2. ASSUME DerivationInv PROVE RunsVerify
  BY <1>2, StoredRunsVerify DEF RunsVerify
<1>3. DerivationInv => RunsAreTrue
  BY <1>1, <1>2 DEF RunsAreTrue
<1>4. QED
  BY <1>3, DerivationInvariance, PTL

\* A writer that commits late with an older source position never becomes the
\* head of its definition (Materialization.ts:4, latestRunForDefinition).
THEOREM HeadsNeverRegress == Spec => HeadNeverRegresses
<1> DEFINE NoRegress == runs' # runs => \A d \in Definitions :
             \A i \in latestRunForDefinition(RunIds, d), j \in latestRunForDefinition(RunIds, d)' :
                 i.source <= j.source
<1>1. ASSUME DerivationInv, DerivationInv', [Next]_vars PROVE [NoRegress]_vars
  <2>1. SUFFICES ASSUME NEW d \in Definitions, NEW i \in latestRunForDefinition(RunIds, d),
                        NEW j \in latestRunForDefinition(RunIds, d)'
                 PROVE  i.source <= j.source
    OBVIOUS
  <2>2. RunIds \subseteq RunIds'
    <3>1. runs \subseteq runs'
      BY <1>1 DEF Next, vars, Assert1, Retract1, Start, ReadSource, QueryAll, ReadBoundary,
         ReadSources, ReadExisting, TransactRun, Interrupted
    <3>2. QED
      BY <3>1 DEF RunIds
  <2>3. i \in RunIds /\ i.definition = d.id /\ i.source \in Nat
    BY <1>1 DEF latestRunForDefinition, RunIds, DerivationInv, RunSound
  <2>4. Ahead(j, i)'
    BY <2>2, <2>3 DEF latestRunForDefinition
  <2>5. j.source > i.source \/ j.source = i.source
    BY <2>4 DEF Ahead
  <2>6. j.source \in Nat
    BY <1>1 DEF latestRunForDefinition, RunIds, DerivationInv, RunSound
  <2>7. QED
    BY <2>3, <2>5, <2>6
<1>2. QED
  BY <1>1, DerivationInvariance, PTL DEF Spec, HeadNeverRegresses

\* A preview answers what the store would answer with its assertions made and
\* its retractions done, for every store that writers can leave
\* (evaluateOverlay).
THEOREM PreviewsAgree == Spec => OverlayAgrees
<1> DEFINE Agree == (facts' # facts /\ job = [m \in Materializers |-> Idle]) =>
             \A c \in OverlayCases' :
                 evaluateOverlay(c[1], c[2], c[3], c[4])'.candidates
                     = evaluate(Patched(c[1], c[2], c[3], c[4])', c[1], c[2]).candidates
<1>1. ASSUME DerivationInv' PROVE Agree
  <2>1. SUFFICES ASSUME NEW c \in OverlayCases'
                 PROVE  evaluateOverlay(c[1], c[2], c[3], c[4])'.candidates
                          = evaluate(Patched(c[1], c[2], c[3], c[4])', c[1], c[2]).candidates
    OBVIOUS
  <2>2. c[1] \in Definitions /\ \A f \in c[3] : f.a \in Dependencies(c[1])
    BY DEF OverlayCases
  <2>3. PICK fs : fs = facts'
    OBVIOUS
  <2>4. Named(fs)
    BY <1>1, <2>3, DerivationAssumption DEF DerivationInv, Named, FactsSound, FactRecords
  <2>5. PICK d, v, as, hide : d = c[1] /\ v = c[2] /\ as = c[3] /\ hide = c[4]
    OBVIOUS
  <2>6. evaluate(Copied(fs, d, v, hide) \cup Hypotheses(as, v), d, v).candidates
          = evaluate(Kept(fs, hide) \cup Hypotheses(as, v), d, v).candidates
    BY <2>2, <2>4, <2>5, PreviewSees
  <2>7. evaluateOverlay(d, v, as, hide)'.candidates
          = evaluate(Copied(fs, d, v, hide) \cup Hypotheses(as, v), d, v).candidates
    BY <2>3 DEF evaluateOverlay, visibleBase, Copied, Hypotheses
  <2>8. Patched(d, v, as, hide)' = Kept(fs, hide) \cup Hypotheses(as, v)
    BY <2>3 DEF Patched, Kept, Hypotheses
  <2>9. QED
    BY <2>5, <2>6, <2>7, <2>8
<1>2. QED
  BY <1>1, DerivationInvariance, PTL DEF Spec, OverlayAgrees

=============================================================================
