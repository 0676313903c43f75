------------------------ MODULE ConfigurationProofs ------------------------
(***************************************************************************)
(* Proofs about the configuration store and entity validation.             *)
(*                                                                         *)
(* The store (StoreStaysWhole): every state of the log holds the trees its *)
(* snapshots name, the revisions they pin and the snapshots its refs point *)
(* to, and only grows; so a writer that decided on a torn or stale load    *)
(* decided on a part of what is persisted, and writes what was missing.    *)
(*                                                                         *)
(* Validation (CurrentAnswersAreTrue): a run whose position is still the   *)
(* latest and whose snapshot is still deployed read one world throughout,  *)
(* and a run at the position of an earlier one was begun after it.         *)
(***************************************************************************)
EXTENDS ConfigStore, EntityValidation, FiniteSetTheorems, WellFoundedInduction, TLAPS

-----------------------------------------------------------------------------
(* The inductive invariant of the configuration store. *)

IsStore(s) ==
    s = [objects |-> s.objects, valid |-> s.valid, schemas |-> s.schemas,
         revisions |-> s.revisions, snapshots |-> s.snapshots, seq |-> s.seq]

IsFacts(f) ==
    f = [objects |-> f.objects, valid |-> f.valid, schemas |-> f.schemas,
         revisions |-> f.revisions, snapshots |-> f.snapshots, targets |-> f.targets,
         firstMoves |-> f.firstMoves, lastMove |-> f.lastMove]

\* A revision names the slots its closure covers.
RevisionOK(r) == r.seq \in Nat /\ r.id.deps = {d[1] : d \in r.id.closure.deps}

RowsOK(f) ==
    /\ IsFiniteSet(f.revisions) /\ IsFiniteSet(f.snapshots)
    /\ \A row \in f.revisions : RevisionOK(row.body)
    /\ \A row \in f.snapshots : row.body.seq \in Nat

\* The whole tree of every snapshot is stored, and refs point to snapshots.
TreesStored(f) ==
    \A row \in f.snapshots :
        {Root(row.body.id.root)} \cup {Node(n) : n \in row.body.id.root} \subseteq f.objects

TargetsStored(f) == \A t \in f.targets : \E row \in f.snapshots : row.body.id = t.snapshot

PinsClosed(pins) ==
    \A p \in pins : p.closure.deps = {<<q.slot, q.cid>> : q \in {r \in pins : r.slot \in p.deps}}

PinsOK(f) ==
    \A row \in f.snapshots :
        /\ {p.cid : p \in row.body.id.pins} = row.body.id.root
        /\ row.body.id.pins \subseteq {r.body.id : r \in f.revisions}
        /\ PinsClosed(row.body.id.pins)

\* One target for each first move, of distinct transactions, the last move's
\* the newest.
TargetsOK(f, n) ==
    /\ IsFiniteSet(f.targets) /\ Cardinality(f.targets) = f.firstMoves
    /\ \A t \in f.targets : t.at \in 1..n
    /\ \A t, u \in f.targets : t.at = u.at => t = u
    /\ f.lastMove # NoRow => f.lastMove \in f.targets /\ \A t \in f.targets : t.at <= f.lastMove.at

FactsOK(f, n) ==
    /\ IsFacts(f) /\ RowsOK(f) /\ TreesStored(f) /\ TargetsStored(f) /\ PinsOK(f) /\ TargetsOK(f, n)

Grows(f, g) ==
    /\ f.objects \subseteq g.objects /\ f.revisions \subseteq g.revisions
    /\ f.snapshots \subseteq g.snapshots

LogOK(l) ==
    /\ l \in Seq({l[i] : i \in DOMAIN l}) /\ Len(l) >= 1
    /\ \A i \in 1..Len(l) : FactsOK(l[i], i) /\ Grows(l[i], l[Len(l)])

ReadsOK(reads, n) ==
    /\ reads \in Seq(1..n) /\ Len(reads) \in 1..5
    /\ \A i, j \in 1..Len(reads) : i <= j => reads[i] <= reads[j]

\* What a call holds at each of its stages.
LoadingOK(k) ==
    /\ k = [pc |-> "load", request |-> k.request, reads |-> k.reads]
    /\ k.request \in Requests
    /\ ReadsOK(k.reads, Len(log))

WritingOK(k) ==
    /\ k = [pc |-> k.pc, request |-> k.request, reads |-> k.reads, current |-> k.current]
    /\ k.request \in Requests /\ k.request.op # "load"
    /\ ReadsOK(k.reads, Len(log)) /\ Len(k.reads) = 5
    /\ ~Refused(k.request, Loaded(k.reads))

StoreCallOK(k) ==
    /\ k.pc \in {"idle", "load", "current", "write", "done", "loaded", "corrupt", "refused", "conflict"}
    /\ k.pc = "load" => LoadingOK(k)
    /\ k.pc \in {"current", "write"} => WritingOK(k)
    /\ k.pc = "corrupt" => k.reads[1] < k.reads[5]

StoreInv ==
    /\ LogOK(log)
    /\ call = [c \in Callers |-> call[c]]
    /\ \A c \in Callers : StoreCallOK(call[c])

-----------------------------------------------------------------------------
(* Counting up: least numbers, greatest ranks, and recursive functions. *)

LEMMA LeastNumber ==
    ASSUME NEW S \in SUBSET Nat, S # {}
    PROVE  \E x \in S : \A y \in S : x <= y
<1> DEFINE T == {0..x : x \in S}
           R == StrictSubsetOrdering(Nat)
<1>1. IsWellFoundedOn(R, FiniteSubsetsOf(Nat))
  BY FS_StrictSubsetOrderingWellFounded
<1>2. T \subseteq FiniteSubsetsOf(Nat) /\ T # {}
  <2>1. \A x \in S : 0..x \subseteq Nat /\ IsFiniteSet(0..x)
    BY FS_Interval
  <2>. QED
    BY <2>1 DEF FiniteSubsetsOf
<1>3. PICK U \in T : \A V \in T : ~ (<<V, U>> \in R)
  BY <1>1, <1>2, WFMin
<1>4. PICK x \in S : U = 0..x
  BY <1>3
<1>5. ASSUME NEW y \in S, y < x PROVE FALSE
  <2>1. x \in 0..x /\ x \notin 0..y /\ 0..y \subseteq 0..x /\ 0..x \subseteq Nat
    BY <1>5
  <2>2. <<0..y, 0..x>> \in R
    BY <2>1 DEF StrictSubsetOrdering
  <2>. QED
    BY <1>3, <1>4, <2>2
<1>. QED
  BY <1>5

\* A set of numbers with 0 that contains the successor of each of its
\* members below n contains all numbers up to n.
LEMMA CountUp ==
    ASSUME NEW n \in Nat, NEW S, 0 \in S, \A i \in 1..n : i - 1 \in S => i \in S
    PROVE  \A i \in 0..n : i \in S
<1> DEFINE B == {i \in 0..n : i \notin S}
<1> SUFFICES ASSUME B # {} PROVE FALSE
  OBVIOUS
<1>1. B \in SUBSET Nat
  OBVIOUS
<1>2. PICK m \in B : \A y \in B : m <= y
  <2>. HIDE DEF B
  <2>. QED
    BY <1>1, LeastNumber
<1>3. m \in 1..n /\ m - 1 \in 0..n /\ m - 1 \notin B
  BY <1>2
<1>. QED
  BY <1>3

\* A finite set has an element of the greatest rank.
LEMMA GreatestRank ==
    ASSUME NEW S, IsFiniteSet(S), S # {}, NEW f, \A x \in S : f[x] \in Nat
    PROVE  \E m \in S : \A y \in S : f[m] >= f[y]
<1> DEFINE Above(x) == {y \in S : f[y] > f[x]}
           T == {Above(x) : x \in S}
           R == StrictSubsetOrdering(S)
<1>1. IsWellFoundedOn(R, FiniteSubsetsOf(S))
  BY FS_StrictSubsetOrderingWellFounded
<1>2. T \subseteq FiniteSubsetsOf(S) /\ T # {}
  <2>1. \A U : U \subseteq S => IsFiniteSet(U)
    BY FS_Subset
  <2>. QED
    BY <2>1 DEF FiniteSubsetsOf
<1>3. PICK U \in T : \A V \in T : ~ (<<V, U>> \in R)
  BY <1>1, <1>2, WFMin
<1>4. PICK x \in S : U = Above(x)
  BY <1>3
<1>5. ASSUME NEW y \in S, f[y] > f[x] PROVE FALSE
  <2>1. \A z \in S : f[z] > f[y] => f[z] > f[x]
    BY <1>5
  <2>2. Above(y) \subseteq Above(x) /\ y \in Above(x) /\ y \notin Above(y)
    BY <1>5, <2>1
  <2>3. <<Above(y), Above(x)>> \in R
    BY <2>2 DEF StrictSubsetOrdering
  <2>. QED
    BY <1>3, <1>4, <2>3
<1>. QED
  BY <1>5

LEMMA GreatestNumber ==
    ASSUME NEW S \in SUBSET Nat, IsFiniteSet(S), S # {}
    PROVE  \E m \in S : \A y \in S : y <= m
<1> DEFINE id == [x \in S |-> x]
<1>1. \A x \in S : id[x] = x /\ id[x] \in Nat
  OBVIOUS
<1> HIDE DEF id
<1>2. PICK m \in S : \A y \in S : id[m] >= id[y]
  BY <1>1, GreatestRank
<1>. QED
  BY <1>1, <1>2

-----------------------------------------------------------------------------
(* What a release records. *)

\* f is commit's loop over the first n slots.
Loop(f, n, store, release) ==
    f = [i \in 0..n |-> IF i = 0 THEN [store |-> store, pins |-> {}]
                        ELSE RecordSlot(f[i - 1], SlotOrder[i], release)]

\* RecordAll follows its recursion.
LEMMA RecordAllRuns ==
    ASSUME NEW store, NEW release
    PROVE  \E f : Loop(f, Len(SlotOrder), store, release) /\ RecordAll(store, release) = f[Len(SlotOrder)]
<1> DEFINE base == [store |-> store, pins |-> {}]
           Runs(f, n) == f = [i \in 0..n |-> IF i = 0 THEN base
                                             ELSE RecordSlot(f[i - 1], SlotOrder[i], release)]
           S == {n \in Nat : \E f : Runs(f, n)}
<1>1. Len(SlotOrder) \in Nat
  BY ConfigAssumption
<1>2. 0 \in S
  <2>1. PICK f : f = [i \in 0..0 |-> base]
    OBVIOUS
  <2>2. Runs(f, 0)
    BY <2>1
  <2>. QED
    BY <2>2
<1>3. ASSUME NEW n \in 1..Len(SlotOrder), n - 1 \in S PROVE n \in S
  <2>1. PICK f : Runs(f, n - 1)
    BY <1>3
  <2>2. PICK g : g = [i \in 0..n |-> IF i = n THEN RecordSlot(f[n - 1], SlotOrder[n], release) ELSE f[i]]
    OBVIOUS
  <2>3. \A i \in 0..n : i # n => i \in 0..(n - 1) /\ g[i] = f[i]
    BY <1>1, <2>2
  <2>4. n \in 0..n /\ n # 0 /\ n - 1 \in 0..n /\ n - 1 # n
    BY <1>1
  <2>5. g[n] = RecordSlot(g[n - 1], SlotOrder[n], release)
    <3>1. g[n - 1] = f[n - 1]
      BY <2>3, <2>4
    <3>. QED
      BY <2>2, <2>4, <3>1
  <2>6. ASSUME NEW i \in 0..n, i # n
        PROVE  g[i] = IF i = 0 THEN base ELSE RecordSlot(g[i - 1], SlotOrder[i], release)
    <3>1. f[i] = IF i = 0 THEN base ELSE RecordSlot(f[i - 1], SlotOrder[i], release)
      BY <2>1, <2>3, <2>6
    <3>2. i # 0 => i - 1 \in 0..n /\ i - 1 # n
      BY <1>1, <2>6
    <3>. QED
      BY <2>3, <2>6, <3>1, <3>2
  <2>7. Runs(g, n)
    BY <2>2, <2>4, <2>5, <2>6
  <2>. QED
    BY <1>1, <2>7
<1>4. Len(SlotOrder) \in S
  <2>1. Len(SlotOrder) \in 0..Len(SlotOrder)
    BY <1>1
  <2>. HIDE DEF S
  <2>. QED
    BY <1>1, <1>2, <1>3, <2>1, CountUp
<1>5. \E f : Runs(f, Len(SlotOrder))
  BY <1>4
<1>. QED
  BY <1>5 DEF RecordAll, Loop

LEMMA AtSlot ==
    ASSUME NEW release, NEW s \in Slots(release)
    PROVE  At(release, s) \in release /\ At(release, s).slot = s
<1>1. \E o \in release : o.slot = s
  BY DEF Slots
<1>. QED
  BY <1>1 DEF At

\* transitiveDeps stays among the slots of a release without dangling refs.
LEMMA DepsInRelease ==
    ASSUME NEW release, IsFiniteSet(release), ~DanglingRef(release), NEW object \in release
    PROVE  transitiveDeps(object, release) \subseteq Slots(release)
<1> DEFINE N == Cardinality(release)
           More(X) == X \cup UNION {At(release, s).refs : s \in X}
           Reaches(f, n) == f = [i \in 0..n |-> IF i = 0 THEN object.refs ELSE More(f[i - 1])]
           S == {n \in Nat : \E f : Reaches(f, n)}
<1>1. N \in Nat
  BY FS_CardinalityType
<1>. HIDE DEF N
<1>2. 0 \in S
  <2>1. PICK f : f = [i \in 0..0 |-> object.refs]
    OBVIOUS
  <2>2. Reaches(f, 0)
    BY <2>1
  <2>. QED
    BY <2>2
<1>3. ASSUME NEW n \in 1..N, n - 1 \in S PROVE n \in S
  <2>. HIDE DEF More
  <2>1. PICK f : Reaches(f, n - 1)
    BY <1>3
  <2>2. PICK g : g = [i \in 0..n |-> IF i = n THEN More(f[n - 1]) ELSE f[i]]
    OBVIOUS
  <2>3. \A i \in 0..n : i # n => i \in 0..(n - 1) /\ g[i] = f[i]
    BY <1>1, <2>2
  <2>4. n \in 0..n /\ n # 0 /\ n - 1 \in 0..n /\ n - 1 # n
    BY <1>1
  <2>5. g[n] = More(g[n - 1])
    <3>1. g[n - 1] = f[n - 1]
      BY <2>3, <2>4
    <3>. QED
      BY <2>2, <2>4, <3>1
  <2>6. ASSUME NEW i \in 0..n, i # n PROVE g[i] = IF i = 0 THEN object.refs ELSE More(g[i - 1])
    <3>1. f[i] = IF i = 0 THEN object.refs ELSE More(f[i - 1])
      BY <2>1, <2>3, <2>6
    <3>2. i # 0 => i - 1 \in 0..n /\ i - 1 # n
      BY <1>1, <2>6
    <3>. QED
      BY <2>3, <2>6, <3>1, <3>2
  <2>7. Reaches(g, n)
    BY <2>2, <2>4, <2>5, <2>6
  <2>. QED
    BY <1>1, <2>7
<1>4. N \in S
  <2>1. N \in 0..N
    BY <1>1
  <2>. HIDE DEF S
  <2>. QED
    BY <1>1, <1>2, <1>3, <2>1, CountUp
<1>5. \E f : Reaches(f, N)
  BY <1>4
<1>6. PICK f : Reaches(f, N) /\ transitiveDeps(object, release) = f[N] \ {object.slot}
  BY <1>5 DEF transitiveDeps, N
<1>7. \A i \in 0..N : f[i] \subseteq Slots(release)
  <2> DEFINE P == {n \in 0..N : f[n] \subseteq Slots(release)}
  <2>1. 0 \in P
    BY <1>1, <1>6 DEF DanglingRef
  <2>2. ASSUME NEW n \in 1..N, n - 1 \in P PROVE n \in P
    <3>1. f[n] = More(f[n - 1]) /\ f[n - 1] \subseteq Slots(release) /\ n \in 0..N
      BY <1>1, <1>6, <2>2
    <3>2. \A s \in f[n - 1] : At(release, s).refs \subseteq Slots(release)
      BY <3>1, AtSlot DEF DanglingRef
    <3>. QED
      BY <3>1, <3>2
  <2>. HIDE DEF P
  <2>3. \A i \in 0..N : i \in P
    BY <1>1, <2>1, <2>2, CountUp
  <2>. QED
    BY <2>3 DEF P
<1>8. N \in 0..N
  BY <1>1
<1>. QED
  BY <1>6, <1>7, <1>8

\* The newest revision of a slot, when it has one.
LEMMA TipIsRevision ==
    ASSUME NEW store, NEW slot, IsFiniteSet(store.revisions),
           \A r \in store.revisions : r.seq \in Nat, tipOf(store, slot) # NoParent
    PROVE  tipOf(store, slot) \in store.revisions /\ tipOf(store, slot).id.slot = slot
<1> DEFINE H == {r \in store.revisions : r.id.slot = slot}
<1>1. H # {} /\ tipOf(store, slot) = CHOOSE r \in H : \A q \in H : r.seq >= q.seq
  BY DEF tipOf
<1>2. IsFiniteSet(H) /\ \A r \in H : r.seq \in Nat
  BY FS_Subset
<1>3. \A r \in H : r \in store.revisions /\ r.id.slot = slot
  OBVIOUS
<1>. HIDE DEF H
<1>4. PICK f : f = [r \in H |-> r.seq]
  OBVIOUS
<1>5. \A r \in H : f[r] = r.seq /\ f[r] \in Nat
  BY <1>2, <1>4
<1>6. PICK m \in H : \A y \in H : f[m] >= f[y]
  BY <1>1, <1>2, <1>5, GreatestRank
<1>7. \E r \in H : \A q \in H : r.seq >= q.seq
  BY <1>5, <1>6
<1>8. tipOf(store, slot) \in H
  BY <1>1, <1>7
<1>. QED
  BY <1>3, <1>8

\* A pin is a revision of an object of the release with its closure there.
PinOf(p, o, release) ==
    /\ p.slot = o.slot /\ p.cid = o.cid
    /\ p.closure = closureId(o, release) /\ p.deps = transitiveDeps(o, release)

\* What is known of the store after some slots: it grew, and what is in it.
Recorded(store, before) ==
    /\ IsStore(store)
    /\ before.objects \subseteq store.objects /\ before.revisions \subseteq store.revisions
    /\ IsFiniteSet(store.revisions) /\ \A r \in store.revisions : RevisionOK(r)
    /\ store.seq \in Nat

StoreFields == {"objects", "valid", "schemas", "revisions", "snapshots", "seq"}

LEMMA StoreByFields ==
    ASSUME NEW s
    PROVE  s = [x \in StoreFields |-> s[x]] <=> IsStore(s)
<1>1. ASSUME s = [x \in StoreFields |-> s[x]] PROVE IsStore(s)
  BY <1>1 DEF StoreFields, IsStore
<1>2. ASSUME IsStore(s) PROVE s = [x \in StoreFields |-> s[x]]
  <2>1. DOMAIN s = StoreFields
    BY <1>2 DEF StoreFields, IsStore
  <2>. QED
    BY <1>2, <2>1 DEF IsStore
<1>. QED
  BY <1>1, <1>2

LEMMA WithNodesFields ==
    ASSUME NEW store, IsStore(store), NEW object
    PROVE  /\ IsStore(WithNodes(store, object))
           /\ WithNodes(store, object).objects = store.objects \cup {Node(n[1]) : n \in object.nodes}
           /\ WithNodes(store, object).revisions = store.revisions
           /\ WithNodes(store, object).snapshots = store.snapshots
           /\ WithNodes(store, object).seq = store.seq
<1> DEFINE typed == {n \in object.nodes : n[2] # NoSchema}
<1>1. PICK a, b, c : /\ a = store.objects \cup {Node(n[1]) : n \in object.nodes}
                     /\ b = store.valid \cup typed
                     /\ c = store.schemas \cup {n[2] : n \in typed}
  OBVIOUS
<1>2. PICK next : next = [store EXCEPT !.objects = a, !.valid = b, !.schemas = c]
  OBVIOUS
<1>3. WithNodes(store, object) = next
  BY <1>1, <1>2 DEF WithNodes
<1>4. DOMAIN store = StoreFields
  BY DEF IsStore, StoreFields
<1>5. next = [x \in StoreFields |-> next[x]]
  BY <1>2, <1>4
<1>6. /\ next.objects = a /\ next.revisions = store.revisions
      /\ next.snapshots = store.snapshots /\ next.seq = store.seq
  BY <1>2, <1>4 DEF StoreFields
<1>. QED
  BY <1>1, <1>3, <1>5, <1>6, StoreByFields

LEMMA ClosureNamesDeps ==
    ASSUME NEW object, NEW release
    PROVE  {d[1] : d \in closureId(object, release).deps} = transitiveDeps(object, release)
<1>1. PICK T : T = transitiveDeps(object, release)
  OBVIOUS
<1>2. closureId(object, release).deps = {<<s, At(release, s).cid>> : s \in T}
  BY <1>1 DEF closureId
<1>3. {d[1] : d \in {<<s, At(release, s).cid>> : s \in T}} = T
  <2> DEFINE D == {<<s, At(release, s).cid>> : s \in T}
  <2>1. \A d \in D : d[1] \in T
    OBVIOUS
  <2>2. ASSUME NEW s \in T PROVE \E d \in D : d[1] = s
    <3>1. PICK d : d = <<s, At(release, s).cid>>
      OBVIOUS
    <3>2. d \in D /\ d[1] = s
      BY <3>1
    <3>. QED
      BY <3>2
  <2>. HIDE DEF D
  <2>3. {d[1] : d \in D} = T
    BY <2>1, <2>2
  <2>. QED
    BY <2>3 DEF D
<1>. QED
  BY <1>1, <1>2, <1>3

\* One object of a release: the store grows by its nodes and at most one
\* revision, and the id it pins is of a stored revision of that object.
LEMMA RecordStep ==
    ASSUME NEW store, NEW before, NEW release, NEW object, Recorded(store, before),
           \E n \in object.nodes : n[1] = object.cid
    PROVE  /\ Recorded(Record(store, object, release).store, before)
           /\ store.objects \subseteq Record(store, object, release).store.objects
           /\ store.revisions \subseteq Record(store, object, release).store.revisions
           /\ Node(object.cid) \in Record(store, object, release).store.objects
           /\ PinOf(Record(store, object, release).id, object, release)
           /\ \E q \in Record(store, object, release).store.revisions :
                q.id = Record(store, object, release).id
<1>1. PICK rec : rec = Record(store, object, release)
  OBVIOUS
<1>2. PICK with : with = WithNodes(store, object)
  OBVIOUS
<1>3. /\ IsStore(with) /\ with.objects = store.objects \cup {Node(n[1]) : n \in object.nodes}
      /\ with.revisions = store.revisions /\ with.seq = store.seq
  BY <1>2, WithNodesFields DEF Recorded
<1>4. Node(object.cid) \in with.objects /\ store.objects \subseteq with.objects
  BY <1>3
<1>5. Recorded(with, before)
  BY <1>3, <1>4 DEF Recorded
<1>6. CASE Unchanged(store, object, release)
  <2>1. PICK tip : tip = tipOf(store, object.slot)
    OBVIOUS
  <2>2. rec = [store |-> with, id |-> tip.id]
    BY <1>1, <1>2, <1>6, <2>1 DEF Record
  <2>3. tip # NoParent /\ tip.id.cid = object.cid /\ tip.id.closure = closureId(object, release)
    BY <1>6, <2>1 DEF Unchanged
  <2>4. tip \in store.revisions /\ tip.id.slot = object.slot
    BY <2>1, <2>3, TipIsRevision DEF Recorded, RevisionOK
  <2>5. tip.id.deps = transitiveDeps(object, release)
    BY <2>3, <2>4, ClosureNamesDeps DEF Recorded, RevisionOK
  <2>6. rec.store = with /\ rec.id = tip.id
    BY <2>2
  <2>7. PinOf(rec.id, object, release)
    BY <2>3, <2>4, <2>5, <2>6 DEF PinOf
  <2>. QED
    BY <1>1, <1>3, <1>4, <1>5, <2>4, <2>6, <2>7
<1>7. CASE ~Unchanged(store, object, release)
  <2>1. PICK r : r = Revision(store, object, release)
    OBVIOUS
  <2>2. PICK next : next = [with EXCEPT !.revisions = with.revisions \cup {r}, !.seq = r.seq]
    OBVIOUS
  <2>3. rec = [store |-> next, id |-> r.id]
    BY <1>1, <1>2, <1>7, <2>1, <2>2 DEF Record
  <2>4. rec.store = next /\ rec.id = r.id
    BY <2>3
  <2>5. DOMAIN with = StoreFields
    BY <1>3 DEF IsStore, StoreFields
  <2>6. next = [x \in StoreFields |-> next[x]]
    BY <2>2, <2>5
  <2>7. next.objects = with.objects /\ next.revisions = with.revisions \cup {r} /\ next.seq = r.seq
    BY <2>2, <2>5 DEF StoreFields
  <2>8. /\ r.seq = store.seq + 1
        /\ r.id.slot = object.slot /\ r.id.cid = object.cid
        /\ r.id.closure = closureId(object, release)
        /\ r.id.deps = transitiveDeps(object, release)
    BY <2>1 DEF Revision
  <2>9. RevisionOK(r)
    BY <2>8, ClosureNamesDeps DEF RevisionOK, Recorded
  <2>10. IsFiniteSet(next.revisions)
    <3>1. PICK R : R = with.revisions
      OBVIOUS
    <3>2. IsFiniteSet(R)
      BY <1>5, <3>1 DEF Recorded
    <3>3. IsFiniteSet(R \cup {r})
      BY <3>2, FS_AddElement
    <3>. QED
      BY <2>7, <3>1, <3>3
  <2>11. IsStore(next)
    BY <2>6, StoreByFields
  <2>12. Recorded(next, before)
    BY <1>5, <2>7, <2>9, <2>10, <2>11 DEF Recorded, RevisionOK
  <2>13. PinOf(rec.id, object, release)
    BY <2>4, <2>8 DEF PinOf
  <2>. QED
    BY <1>1, <1>3, <1>4, <2>4, <2>7, <2>12, <2>13
<1>. QED
  BY <1>6, <1>7

\* After the first i slots: what they filled is stored and pinned.
Progress(d, i, before, release) ==
    /\ Recorded(d.store, before)
    /\ \A j \in 1..i : SlotOrder[j] \in Slots(release) =>
         /\ Node(At(release, SlotOrder[j]).cid) \in d.store.objects
         /\ \E p \in d.pins : PinOf(p, At(release, SlotOrder[j]), release)
    /\ \A p \in d.pins :
         /\ \E o \in release : PinOf(p, o, release)
         /\ \E r \in d.store.revisions : r.id = p

LEMMA SlotStep ==
    ASSUME NEW d, NEW i \in 1..Len(SlotOrder), NEW before, NEW release, Progress(d, i - 1, before, release),
           \A o \in release : \E n \in o.nodes : n[1] = o.cid
    PROVE  Progress(RecordSlot(d, SlotOrder[i], release), i, before, release)
<1>0. i \in Nat /\ i # 0 /\ \A j \in 1..i : j \in 1..(i - 1) \/ j = i
  BY ConfigAssumption
<1>1. CASE SlotOrder[i] \notin Slots(release)
  <2>1. RecordSlot(d, SlotOrder[i], release) = d
    BY <1>1 DEF RecordSlot
  <2>. QED
    BY <1>0, <1>1, <2>1 DEF Progress
<1>2. CASE SlotOrder[i] \in Slots(release)
  <2>1. PICK o : o = At(release, SlotOrder[i])
    OBVIOUS
  <2>2. o \in release
    BY <1>2, <2>1, AtSlot
  <2>3. PICK r : r = Record(d.store, o, release)
    OBVIOUS
  <2>4. PICK e : e = [store |-> r.store, pins |-> d.pins \cup {r.id}]
    OBVIOUS
  <2>5. RecordSlot(d, SlotOrder[i], release) = e
    BY <1>2, <2>1, <2>3, <2>4 DEF RecordSlot
  <2>6. e.store = r.store /\ e.pins = d.pins \cup {r.id}
    BY <2>4
  <2>7. /\ Recorded(r.store, before)
        /\ d.store.objects \subseteq r.store.objects /\ d.store.revisions \subseteq r.store.revisions
        /\ Node(o.cid) \in r.store.objects
        /\ PinOf(r.id, o, release)
        /\ \E q \in r.store.revisions : q.id = r.id
    BY <2>2, <2>3, RecordStep DEF Progress
  <2>8. ASSUME NEW j \in 1..i, SlotOrder[j] \in Slots(release)
        PROVE  /\ Node(At(release, SlotOrder[j]).cid) \in e.store.objects
               /\ \E p \in e.pins : PinOf(p, At(release, SlotOrder[j]), release)
    <3>1. CASE j = i
      BY <2>1, <2>6, <2>7, <3>1
    <3>2. CASE j \in 1..(i - 1)
      BY <2>6, <2>7, <2>8, <3>2 DEF Progress
    <3>. QED
      BY <1>0, <3>1, <3>2
  <2>9. ASSUME NEW p \in e.pins
        PROVE  (\E x \in release : PinOf(p, x, release)) /\ (\E q \in e.store.revisions : q.id = p)
    <3>1. CASE p = r.id
      BY <2>2, <2>6, <2>7, <3>1
    <3>2. CASE p \in d.pins
      BY <2>6, <2>7, <3>2 DEF Progress
    <3>. QED
      BY <2>6, <3>1, <3>2
  <2>. QED
    BY <2>5, <2>6, <2>7, <2>8, <2>9 DEF Progress
<1>. QED
  BY <1>1, <1>2

LEMMA RecordAllDone ==
    ASSUME NEW store, NEW release, Recorded(store, store),
           \A o \in release : \E n \in o.nodes : n[1] = o.cid
    PROVE  Progress(RecordAll(store, release), Len(SlotOrder), store, release)
<1>1. PICK f : Loop(f, Len(SlotOrder), store, release) /\ RecordAll(store, release) = f[Len(SlotOrder)]
  BY RecordAllRuns
<1>2. Len(SlotOrder) \in Nat
  BY ConfigAssumption
<1> DEFINE S == {i \in 0..Len(SlotOrder) : Progress(f[i], i, store, release)}
<1>3. 0 \in S
  <2>1. f[0].store = store /\ f[0].pins = {}
    BY <1>1, <1>2 DEF Loop
  <2>2. Progress(f[0], 0, store, release)
    BY <2>1 DEF Progress
  <2>. QED
    BY <1>2, <2>2
<1>4. ASSUME NEW i \in 1..Len(SlotOrder), i - 1 \in S PROVE i \in S
  <2>1. i \in 0..Len(SlotOrder) /\ i # 0
    BY <1>2
  <2>2. f[i] = RecordSlot(f[i - 1], SlotOrder[i], release)
    BY <1>1, <2>1 DEF Loop
  <2>3. Progress(f[i], i, store, release)
    BY <1>4, <2>2, SlotStep
  <2>. QED
    BY <2>1, <2>3
<1>5. Len(SlotOrder) \in 0..Len(SlotOrder)
  BY <1>2
<1>6. Len(SlotOrder) \in S
  <2>. HIDE DEF S
  <2>. QED
    BY <1>2, <1>3, <1>4, <1>5, CountUp
<1>. QED
  BY <1>1, <1>6

\* Without duplicates a slot has one object.
LEMMA OnePerSlot ==
    ASSUME NEW release, IsFiniteSet(release), ~DuplicateObject(release)
    PROVE  \A o, q \in release : o.slot = q.slot => o = q
<1>1. PICK f : f = [o \in release |-> o.slot]
  OBVIOUS
<1>2. f \in Surjection(release, Slots(release))
  BY <1>1 DEF Surjection, Slots
<1>3. f \in Injection(release, Slots(release))
  BY <1>2, FS_Surjection DEF DuplicateObject
<1>4. \A o, q \in release : f[o] = f[q] => o = q
  BY <1>1, <1>3 DEF Injection, IsInjective
<1>. QED
  BY <1>1, <1>4

\* A release as the store accepts it.
ReleaseOK(release) ==
    /\ IsFiniteSet(release) /\ ~DuplicateObject(release) /\ ~DanglingRef(release)
    /\ \A o \in release :
         /\ \E i \in DOMAIN SlotOrder : SlotOrder[i] = o.slot
         /\ \E n \in o.nodes : n[1] = o.cid

\* The pins of a release are one for each object, closed over the release.
LEMMA PinsOfRelease ==
    ASSUME NEW release, ReleaseOK(release), NEW pins,
           \A o \in release : \E p \in pins : PinOf(p, o, release),
           \A p \in pins : \E o \in release : PinOf(p, o, release)
    PROVE  {p.cid : p \in pins} = {o.cid : o \in release} /\ PinsClosed(pins)
<1>1. {p.cid : p \in pins} = {o.cid : o \in release}
  BY DEF PinOf
<1>2. ASSUME NEW p \in pins
      PROVE  p.closure.deps = {<<q.slot, q.cid>> : q \in {r \in pins : r.slot \in p.deps}}
  <2>1. PICK o \in release : PinOf(p, o, release)
    OBVIOUS
  <2>2. PICK T : T = transitiveDeps(o, release)
    OBVIOUS
  <2>3. T \subseteq Slots(release)
    BY <2>2, DepsInRelease DEF ReleaseOK
  <2>4. p.deps = T /\ p.closure.deps = {<<s, At(release, s).cid>> : s \in T}
    BY <2>1, <2>2 DEF PinOf, closureId
  <2> DEFINE among == {r \in pins : r.slot \in T}
             left == {<<s, At(release, s).cid>> : s \in T}
             right == {<<q.slot, q.cid>> : q \in among}
  <2>5. ASSUME NEW s \in T PROVE \E q \in among : q.slot = s /\ q.cid = At(release, s).cid
    <3>1. At(release, s) \in release /\ At(release, s).slot = s
      BY <2>3, AtSlot
    <3>2. PICK q \in pins : PinOf(q, At(release, s), release)
      BY <3>1
    <3>. QED
      BY <3>1, <3>2 DEF PinOf
  <2>6. ASSUME NEW q \in among PROVE q.slot \in T /\ q.cid = At(release, q.slot).cid
    <3>1. PICK x \in release : PinOf(q, x, release)
      OBVIOUS
    <3>2. q.slot \in Slots(release) /\ x.slot = q.slot /\ x.cid = q.cid
      BY <3>1 DEF PinOf, Slots
    <3>3. At(release, q.slot) \in release /\ At(release, q.slot).slot = q.slot
      BY <3>2, AtSlot
    <3>4. At(release, q.slot) = x
      BY <3>2, <3>3, OnePerSlot DEF ReleaseOK
    <3>. QED
      BY <3>2, <3>4
  <2>7. left \subseteq right
    <3>. HIDE DEF among
    <3>. QED
      BY <2>5
  <2>8. right \subseteq left
    <3>. HIDE DEF among
    <3>. QED
      BY <2>6
  <2>. QED
    BY <2>4, <2>7, <2>8
<1>. QED
  BY <1>1, <1>2 DEF PinsClosed

\* A calculated store with a snapshot whose tree it holds, and whose pins
\* are stored, closed revisions.
Whole(after, id, before) ==
    /\ Recorded(after, before)
    /\ {Root(id.root)} \cup {Node(c) : c \in id.root} \subseteq after.objects
    /\ {p.cid : p \in id.pins} = id.root
    /\ \A p \in id.pins : \E r \in after.revisions : r.id = p
    /\ PinsClosed(id.pins)

\* What commit calculates from a store and a release.
LEMMA CommitResult ==
    ASSUME NEW store, Recorded(store, store), NEW label, NEW release, ReleaseOK(release)
    PROVE  \E after, id, n :
             /\ commit(store, label, release) = [store |-> after, snapshot |-> [id |-> id, seq |-> n]]
             /\ n \in Nat /\ Whole(after, id, store)
<1>1. PICK last : last = RecordAll(store, release)
  OBVIOUS
<1>2. Progress(last, Len(SlotOrder), store, release)
  BY <1>1, RecordAllDone DEF ReleaseOK
<1> DEFINE parents == {s \in store.snapshots : \A t \in store.snapshots : s.seq >= t.seq}
<1>3. PICK parent : parent = IF parents = {} THEN NoParent ELSE (CHOOSE s \in parents : TRUE).id
  OBVIOUS
<1>4. PICK id : id = [label |-> label, root |-> {o.cid : o \in release}, pins |-> last.pins,
                      parent |-> parent]
  OBVIOUS
<1>5. PICK n : n = last.store.seq + 1
  OBVIOUS
<1>6. PICK snapshot : snapshot = [id |-> id, seq |-> n]
  OBVIOUS
<1>7. snapshot.id = id /\ snapshot.seq = n /\ id.root = {o.cid : o \in release} /\ id.pins = last.pins
  BY <1>4, <1>6
<1>8. PICK objects, snapshots : /\ objects = last.store.objects \cup {Root(id.root)}
                                /\ snapshots = last.store.snapshots \cup {snapshot}
  OBVIOUS
<1>9. PICK after : after = [last.store EXCEPT !.objects = objects, !.snapshots = snapshots, !.seq = n]
  OBVIOUS
<1>10. commit(store, label, release) = [store |-> after, snapshot |-> snapshot]
  BY <1>1, <1>3, <1>4, <1>5, <1>6, <1>7, <1>8, <1>9 DEF commit
<1>11. Recorded(last.store, store)
  BY <1>2 DEF Progress
<1>12. DOMAIN last.store = StoreFields
  BY <1>11 DEF Recorded, IsStore, StoreFields
<1>13. after = [x \in StoreFields |-> after[x]]
  BY <1>9, <1>12
<1>14. after.objects = objects /\ after.revisions = last.store.revisions /\ after.seq = n
  BY <1>9, <1>12 DEF StoreFields
<1>15. IsStore(after)
  BY <1>13, StoreByFields
<1>16. n \in Nat
  BY <1>5, <1>11 DEF Recorded
<1>17. Recorded(after, store)
  BY <1>8, <1>11, <1>14, <1>15, <1>16 DEF Recorded
<1>18. ASSUME NEW o \in release
       PROVE  Node(o.cid) \in last.store.objects /\ \E p \in last.pins : PinOf(p, o, release)
  <2>1. PICK i \in DOMAIN SlotOrder : SlotOrder[i] = o.slot
    BY DEF ReleaseOK
  <2>2. o.slot \in Slots(release) /\ i \in 1..Len(SlotOrder)
    BY <2>1, ConfigAssumption DEF Slots
  <2>3. At(release, o.slot) = o
    BY <2>2, AtSlot, OnePerSlot DEF ReleaseOK
  <2>. QED
    BY <1>2, <2>1, <2>2, <2>3 DEF Progress
<1>19. \A p \in last.pins : (\E o \in release : PinOf(p, o, release)) /\ \E r \in last.store.revisions : r.id = p
  BY <1>2 DEF Progress
<1>20. {p.cid : p \in last.pins} = {o.cid : o \in release} /\ PinsClosed(last.pins)
  BY <1>18, <1>19, PinsOfRelease
<1>21. {Root(id.root)} \cup {Node(c) : c \in id.root} \subseteq after.objects
  <2>1. \A c \in id.root : Node(c) \in last.store.objects
    BY <1>7, <1>18
  <2>. QED
    BY <1>8, <1>14, <2>1
<1>22. Whole(after, id, store)
  BY <1>7, <1>14, <1>17, <1>19, <1>20, <1>21 DEF Whole
<1>. QED
  BY <1>6, <1>10, <1>16, <1>22

-----------------------------------------------------------------------------
(* What a load assembles, and what a transaction leaves. *)

LEMMA ItemOfSeq ==
    ASSUME NEW X, NEW s \in Seq(X), NEW i \in 1..Len(s)
    PROVE  s[i] \in X
OBVIOUS

\* The place in the log each of the reads saw.
LEMMA ReadInLog ==
    ASSUME NEW n, NEW reads, ReadsOK(reads, n), NEW i \in 1..Len(reads)
    PROVE  reads[i] \in 1..n
<1>1. reads \in Seq(1..n)
  BY DEF ReadsOK
<1>. QED
  BY <1>1, ItemOfSeq

LEMMA FiniteImage ==
    ASSUME NEW S, IsFiniteSet(S), NEW f
    PROVE  IsFiniteSet({f[x] : x \in S})
<1>1. PICK T : T = {f[x] : x \in S}
  OBVIOUS
<1>2. PICK g : g = [x \in S |-> f[x]]
  OBVIOUS
<1>3. g \in Surjection(S, T)
  BY <1>1, <1>2 DEF Surjection
<1>4. IsFiniteSet(T)
  BY <1>3, FS_Surjection
<1>. QED
  BY <1>1, <1>4

\* The bodies of rows of which the latest are kept.
LEMMA LatestBodies ==
    ASSUME NEW rows, IsFiniteSet(rows), \A row \in rows : row.body.seq \in Nat, NEW bodies,
           bodies = {r.body : r \in latest(rows)}
    PROVE  /\ IsFiniteSet(bodies) /\ \A b \in bodies : \E row \in rows : row.body = b
           /\ IsFiniteSet({b.seq : b \in bodies}) /\ {b.seq : b \in bodies} \subseteq Nat
<1>1. PICK kept : kept = latest(rows)
  OBVIOUS
<1>2. kept \subseteq rows /\ IsFiniteSet(kept)
  BY <1>1, FS_Subset DEF latest
<1>3. PICK f : f = [r \in kept |-> r.body]
  OBVIOUS
<1>4. {f[r] : r \in kept} = bodies
  BY <1>1, <1>3
<1>5. IsFiniteSet(bodies)
  <2>1. IsFiniteSet({f[r] : r \in kept})
    BY <1>2, FiniteImage
  <2>. QED
    BY <1>4, <2>1
<1>6. \A b \in bodies : \E row \in rows : row.body = b
  BY <1>1, <1>2
<1>7. PICK g : g = [b \in bodies |-> b.seq]
  OBVIOUS
<1>8. {g[b] : b \in bodies} = {b.seq : b \in bodies}
  BY <1>7
<1>9. IsFiniteSet({g[b] : b \in bodies})
  BY <1>5, FiniteImage
<1>10. IsFiniteSet({b.seq : b \in bodies})
  BY <1>8, <1>9
<1>11. {b.seq : b \in bodies} \subseteq Nat
  BY <1>6
<1>. QED
  BY <1>5, <1>6, <1>10, <1>11

\* The store a writer decides on is part of what is persisted.
LEMMA LoadedStore ==
    ASSUME LogOK(log), NEW reads, ReadsOK(reads, Len(log)), Len(reads) = 5
    PROVE  /\ Recorded(Loaded(reads), Loaded(reads))
           /\ Loaded(reads).objects \subseteq Facts.objects
           /\ \A r \in Loaded(reads).revisions : \E row \in Facts.revisions : row.body = r
           /\ \A s \in Loaded(reads).snapshots : \E row \in Facts.snapshots : row.body = s
<1>1. reads[1] \in 1..Len(log) /\ reads[3] \in 1..Len(log) /\ reads[4] \in 1..Len(log)
  <2>1. 1 \in 1..Len(reads) /\ 3 \in 1..Len(reads) /\ 4 \in 1..Len(reads)
    OBVIOUS
  <2>. QED
    BY <2>1, ReadInLog
<1>2. PICK f1, f3, f4 : f1 = log[reads[1]] /\ f3 = log[reads[3]] /\ f4 = log[reads[4]]
  OBVIOUS
<1>3. /\ RowsOK(f3) /\ RowsOK(f4)
      /\ Grows(f1, Facts) /\ Grows(f3, Facts) /\ Grows(f4, Facts)
  BY <1>1, <1>2 DEF LogOK, FactsOK, Facts
<1>4. PICK revisions, snapshots : /\ revisions = {r.body : r \in latest(f3.revisions)}
                                  /\ snapshots = {s.body : s \in latest(f4.snapshots)}
  OBVIOUS
<1>5. PICK R : R = f3.revisions
  OBVIOUS
<1>6. /\ IsFiniteSet(revisions) /\ \A b \in revisions : \E row \in R : row.body = b
      /\ IsFiniteSet({b.seq : b \in revisions}) /\ {b.seq : b \in revisions} \subseteq Nat
  <2>1. IsFiniteSet(R) /\ (\A row \in R : row.body.seq \in Nat) /\ revisions = {r.body : r \in latest(R)}
    BY <1>3, <1>4, <1>5 DEF RowsOK, RevisionOK
  <2>. QED
    BY <2>1, LatestBodies
<1>7. PICK S : S = f4.snapshots
  OBVIOUS
<1>8. /\ \A b \in snapshots : \E row \in S : row.body = b
      /\ IsFiniteSet({b.seq : b \in snapshots}) /\ {b.seq : b \in snapshots} \subseteq Nat
  <2>1. IsFiniteSet(S) /\ (\A row \in S : row.body.seq \in Nat) /\ snapshots = {r.body : r \in latest(S)}
    BY <1>3, <1>4, <1>7 DEF RowsOK
  <2>. QED
    BY <2>1, LatestBodies
<1>9. PICK seqs : seqs = {0} \cup {r.seq : r \in revisions} \cup {s.seq : s \in snapshots}
  OBVIOUS
<1>10. PICK n : n = CHOOSE x \in seqs : \A m \in seqs : m <= x
  OBVIOUS
<1>11. n \in Nat
  <2>1. PICK A, B : A = {r.seq : r \in revisions} /\ B = {s.seq : s \in snapshots}
    OBVIOUS
  <2>2. IsFiniteSet({0}) /\ IsFiniteSet(A) /\ IsFiniteSet(B) /\ A \subseteq Nat /\ B \subseteq Nat
    BY <1>6, <1>8, <2>1, FS_Singleton
  <2>3. IsFiniteSet({0} \cup A)
    BY <2>2, FS_Union
  <2>4. IsFiniteSet(({0} \cup A) \cup B)
    BY <2>2, <2>3, FS_Union
  <2>5. IsFiniteSet(seqs) /\ seqs \in SUBSET Nat /\ seqs # {}
    BY <1>9, <2>1, <2>2, <2>4
  <2>6. \E x \in seqs : \A m \in seqs : m <= x
    BY <2>5, GreatestNumber
  <2>. QED
    BY <1>10, <2>5, <2>6
<1>12. PICK store : store = [objects |-> f1.objects, valid |-> f1.valid,
                             schemas |-> log[reads[2]].schemas, revisions |-> revisions,
                             snapshots |-> snapshots, seq |-> n]
  OBVIOUS
<1>13. Loaded(reads) = store
  BY <1>2, <1>4, <1>9, <1>10, <1>12 DEF Loaded
<1>14. /\ store.objects = f1.objects /\ store.revisions = revisions /\ store.snapshots = snapshots
       /\ store.seq = n /\ IsStore(store)
  BY <1>12 DEF IsStore
<1>15. \A r \in revisions : RevisionOK(r)
  BY <1>3, <1>5, <1>6 DEF RowsOK
<1>16. Recorded(store, store)
  BY <1>6, <1>11, <1>14, <1>15 DEF Recorded
<1>17. store.objects \subseteq Facts.objects
  BY <1>3, <1>14 DEF Grows
<1>18. \A r \in store.revisions : \E row \in Facts.revisions : row.body = r
  BY <1>3, <1>5, <1>6, <1>14 DEF Grows
<1>19. \A r \in store.snapshots : \E row \in Facts.snapshots : row.body = r
  BY <1>3, <1>7, <1>8, <1>14 DEF Grows
<1>. QED
  BY <1>13, <1>16, <1>17, <1>18, <1>19

FactFields == {"objects", "valid", "schemas", "revisions", "snapshots", "targets", "firstMoves",
               "lastMove"}

LEMMA FactsByFields ==
    ASSUME NEW f
    PROVE  /\ f = [x \in FactFields |-> f[x]] => IsFacts(f)
           /\ IsFacts(f) => DOMAIN f = FactFields
BY DEF FactFields, IsFacts

\* What commit asserts, field by field.
LEMMA WrittenFields ==
    ASSUME NEW f, IsFacts(f), NEW before, NEW result, NEW at,
           NEW g, g = Written(f, before, result, at)
    PROVE  /\ IsFacts(g)
           /\ g.objects = f.objects \cup (result.store.objects \ before.objects)
           /\ g.revisions = f.revisions \cup {[body |-> b, at |-> at] :
                                                b \in result.store.revisions \ before.revisions}
           /\ g.snapshots = f.snapshots \cup {[body |-> result.snapshot, at |-> at]}
           /\ g.targets = f.targets /\ g.firstMoves = f.firstMoves /\ g.lastMove = f.lastMove
<1> DEFINE after == result.store
           rows(bodies) == {[body |-> b, at |-> at] : b \in bodies}
<1>1. PICK a, b, c, d, e :
        /\ a = f.objects \cup (after.objects \ before.objects)
        /\ b = f.valid \cup (after.valid \ before.valid)
        /\ c = f.schemas \cup (after.schemas \ before.schemas)
        /\ d = f.revisions \cup rows(after.revisions \ before.revisions)
        /\ e = f.snapshots \cup rows({result.snapshot})
  OBVIOUS
<1>2. g = [f EXCEPT !.objects = a, !.valid = b, !.schemas = c, !.revisions = d, !.snapshots = e]
  BY <1>1 DEF Written, NewObjects
<1>3. DOMAIN f = FactFields
  BY FactsByFields
<1>4. g = [x \in FactFields |-> g[x]]
  BY <1>2, <1>3
<1>5. /\ g.objects = a /\ g.revisions = d /\ g.snapshots = e
      /\ g.targets = f.targets /\ g.firstMoves = f.firstMoves /\ g.lastMove = f.lastMove
  BY <1>2, <1>3 DEF FactFields
<1>6. rows({result.snapshot}) = {[body |-> result.snapshot, at |-> at]}
  OBVIOUS
<1>. QED
  BY <1>1, <1>4, <1>5, <1>6, FactsByFields

LEMMA MovedFields ==
    ASSUME NEW f, IsFacts(f), NEW name, NEW snapshot, NEW current, NEW at,
           NEW g, g = Moved(f, name, snapshot, current, at)
    PROVE  /\ IsFacts(g)
           /\ g.objects = f.objects /\ g.revisions = f.revisions /\ g.snapshots = f.snapshots
           /\ g.targets = (f.targets \ {current}) \cup {[ref |-> name, snapshot |-> snapshot, at |-> at]}
           /\ g.firstMoves = f.firstMoves + (IF current = NoRow THEN 1 ELSE 0)
           /\ g.lastMove = [ref |-> name, snapshot |-> snapshot, at |-> at]
<1>1. PICK t : t = [ref |-> name, snapshot |-> snapshot, at |-> at]
  OBVIOUS
<1>2. PICK a, b : /\ a = (f.targets \ {current}) \cup {t}
                  /\ b = f.firstMoves + (IF current = NoRow THEN 1 ELSE 0)
  OBVIOUS
<1>3. g = [f EXCEPT !.targets = a, !.firstMoves = b, !.lastMove = t]
  BY <1>1, <1>2 DEF Moved
<1>4. DOMAIN f = FactFields
  BY FactsByFields
<1>5. g = [x \in FactFields |-> g[x]]
  BY <1>3, <1>4
<1>6. /\ g.objects = f.objects /\ g.revisions = f.revisions /\ g.snapshots = f.snapshots
      /\ g.targets = a /\ g.firstMoves = b /\ g.lastMove = t
  BY <1>3, <1>4 DEF FactFields
<1>. QED
  BY <1>1, <1>2, <1>5, <1>6, FactsByFields

LEMMA FactsLater ==
    ASSUME NEW f, NEW n \in Nat, FactsOK(f, n)
    PROVE  FactsOK(f, n + 1)
<1>1. \A t \in f.targets : t.at \in 1..(n + 1)
  BY DEF FactsOK, TargetsOK
<1>. QED
  BY <1>1 DEF FactsOK, TargetsOK

\* A commit on a store that is part of the persisted one keeps it whole.
LEMMA FactsWritten ==
    ASSUME NEW f, NEW n \in Nat, FactsOK(f, n), NEW before, NEW after, NEW id, NEW seq \in Nat,
           NEW at, Whole(after, id, before),
           before.objects \subseteq f.objects,
           \A r \in before.revisions : \E row \in f.revisions : row.body = r,
           NEW g, g = Written(f, before, [store |-> after, snapshot |-> [id |-> id, seq |-> seq]], at)
    PROVE  FactsOK(g, n) /\ Grows(f, g) /\ \E row \in g.snapshots : row.body.id = id
<1>1. PICK row : row = [body |-> [id |-> id, seq |-> seq], at |-> at]
  OBVIOUS
<1>2. PICK new : new = {[body |-> b, at |-> at] : b \in after.revisions \ before.revisions}
  OBVIOUS
<1>3. /\ IsFacts(g)
      /\ g.objects = f.objects \cup (after.objects \ before.objects)
      /\ g.revisions = f.revisions \cup new
      /\ g.snapshots = f.snapshots \cup {row}
      /\ g.targets = f.targets /\ g.firstMoves = f.firstMoves /\ g.lastMove = f.lastMove
  <2>1. PICK result : result = [store |-> after, snapshot |-> [id |-> id, seq |-> seq]]
    OBVIOUS
  <2>2. result.store = after /\ result.snapshot = [id |-> id, seq |-> seq]
    BY <2>1
  <2>3. g = Written(f, before, result, at) /\ IsFacts(f)
    BY <2>1 DEF FactsOK
  <2>4. /\ IsFacts(g)
        /\ g.objects = f.objects \cup (result.store.objects \ before.objects)
        /\ g.revisions = f.revisions \cup {[body |-> b, at |-> at] :
                                             b \in result.store.revisions \ before.revisions}
        /\ g.snapshots = f.snapshots \cup {[body |-> result.snapshot, at |-> at]}
        /\ g.targets = f.targets /\ g.firstMoves = f.firstMoves /\ g.lastMove = f.lastMove
    BY ONLY <2>3, WrittenFields
  <2>. QED
    BY <1>1, <1>2, <2>2, <2>4
<1>4. row.body.id = id /\ row.body.seq = seq
  BY <1>1
<1>5. Grows(f, g)
  BY <1>3 DEF Grows
<1>6. after.objects \subseteq g.objects
  BY <1>3
<1>7. \A r \in after.revisions : \E x \in g.revisions : x.body = r
  <2>1. ASSUME NEW r \in after.revisions PROVE \E x \in g.revisions : x.body = r
    <3>1. CASE r \in before.revisions
      BY <1>3, <3>1
    <3>2. CASE r \notin before.revisions
      <4>1. PICK x : x = [body |-> r, at |-> at]
        OBVIOUS
      <4>2. x \in new /\ x.body = r
        BY <1>2, <3>2, <4>1
      <4>. QED
        BY <1>3, <4>2
    <3>. QED
      BY <3>1, <3>2
  <2>. QED
    BY <2>1
<1>8. RowsOK(g)
  <2>1. IsFiniteSet(new)
    <3>1. PICK fresh : fresh = after.revisions \ before.revisions
      OBVIOUS
    <3>2. IsFiniteSet(fresh)
      BY <3>1, FS_Subset DEF Whole, Recorded
    <3>3. PICK h : h = [b \in fresh |-> [body |-> b, at |-> at]]
      OBVIOUS
    <3>4. {h[b] : b \in fresh} = new
      BY <1>2, <3>1, <3>3
    <3>5. IsFiniteSet({h[b] : b \in fresh})
      BY <3>2, FiniteImage
    <3>. QED
      BY <3>4, <3>5
  <2>2. PICK R, S : R = f.revisions /\ S = f.snapshots
    OBVIOUS
  <2>3. IsFiniteSet(R) /\ IsFiniteSet(S)
    BY <2>2 DEF FactsOK, RowsOK
  <2>4. IsFiniteSet(R \cup new) /\ IsFiniteSet(S \cup {row})
    BY <2>1, <2>3, FS_Union, FS_AddElement
  <2>5. \A x \in new : x.body \in after.revisions
    BY <1>2
  <2>6. \A x \in g.revisions : RevisionOK(x.body)
    BY <1>3, <2>5 DEF FactsOK, RowsOK, Whole, Recorded
  <2>7. \A x \in g.snapshots : x.body.seq \in Nat
    BY <1>3, <1>4 DEF FactsOK, RowsOK
  <2>. QED
    BY <1>3, <2>2, <2>4, <2>6, <2>7 DEF RowsOK
<1>9. TreesStored(g)
  <2>1. \A x \in f.snapshots :
          {Root(x.body.id.root)} \cup {Node(m) : m \in x.body.id.root} \subseteq g.objects
    BY <1>5 DEF FactsOK, TreesStored, Grows
  <2>2. {Root(row.body.id.root)} \cup {Node(m) : m \in row.body.id.root} \subseteq g.objects
    BY <1>4, <1>6 DEF Whole
  <2>. QED
    BY <1>3, <2>1, <2>2 DEF TreesStored
<1>10. TargetsStored(g)
  BY <1>3 DEF FactsOK, TargetsStored
<1>11. PinsOK(g)
  <2>1. ASSUME NEW x \in f.snapshots
        PROVE  /\ {p.cid : p \in x.body.id.pins} = x.body.id.root
               /\ x.body.id.pins \subseteq {r.body.id : r \in g.revisions}
               /\ PinsClosed(x.body.id.pins)
    <3>1. x.body.id.pins \subseteq {r.body.id : r \in f.revisions}
      BY DEF FactsOK, PinsOK
    <3>2. {r.body.id : r \in f.revisions} \subseteq {r.body.id : r \in g.revisions}
      BY <1>5 DEF Grows
    <3>. QED
      BY <3>1, <3>2 DEF FactsOK, PinsOK
  <2>2. /\ {p.cid : p \in id.pins} = id.root
        /\ id.pins \subseteq {r.body.id : r \in g.revisions}
        /\ PinsClosed(id.pins)
    BY <1>7 DEF Whole
  <2>3. ASSUME NEW x \in g.snapshots
        PROVE  /\ {p.cid : p \in x.body.id.pins} = x.body.id.root
               /\ x.body.id.pins \subseteq {r.body.id : r \in g.revisions}
               /\ PinsClosed(x.body.id.pins)
    <3>1. CASE x \in f.snapshots
      BY <2>1, <3>1
    <3>2. CASE x = row
      BY <1>4, <2>2, <3>2
    <3>. QED
      BY <1>3, <3>1, <3>2
  <2>. QED
    BY <2>3 DEF PinsOK
<1>12. TargetsOK(g, n)
  BY <1>3 DEF FactsOK, TargetsOK
<1>. QED
  BY <1>3, <1>4, <1>5, <1>8, <1>9, <1>10, <1>11, <1>12 DEF FactsOK

\* A move replaces the target it read by one of its own transaction.
LEMMA FactsMoved ==
    ASSUME NEW f, NEW n \in Nat, FactsOK(f, n), NEW name, NEW snapshot, NEW current,
           \E row \in f.snapshots : row.body.id = snapshot,
           current = NoRow \/ current \in f.targets,
           NEW g, g = Moved(f, name, snapshot, current, n + 1)
    PROVE  FactsOK(g, n + 1) /\ Grows(f, g)
<1>1. PICK t : t = [ref |-> name, snapshot |-> snapshot, at |-> n + 1]
  OBVIOUS
<1>2. t.at = n + 1 /\ t.snapshot = snapshot
  BY <1>1
<1>3. /\ IsFacts(g)
      /\ g.objects = f.objects /\ g.revisions = f.revisions /\ g.snapshots = f.snapshots
      /\ g.targets = (f.targets \ {current}) \cup {t}
      /\ g.firstMoves = f.firstMoves + (IF current = NoRow THEN 1 ELSE 0)
      /\ g.lastMove = t
  <2>1. PICK at : at = n + 1
    OBVIOUS
  <2>. QED
    BY <1>1, <2>1, MovedFields DEF FactsOK
<1>4. Grows(f, g)
  BY <1>3 DEF Grows
<1>5. RowsOK(g) /\ TreesStored(g) /\ PinsOK(g)
  BY <1>3 DEF FactsOK, RowsOK, TreesStored, PinsOK
<1>6. TargetsStored(g)
  BY <1>2, <1>3 DEF FactsOK, TargetsStored
<1>7. PICK T : T = f.targets
  OBVIOUS
<1>8. /\ IsFiniteSet(T) /\ Cardinality(T) = f.firstMoves /\ Cardinality(T) \in Nat
      /\ \A x \in T : x.at \in 1..n
      /\ \A x, u \in T : x.at = u.at => x = u
  BY <1>7, FS_CardinalityType DEF FactsOK, TargetsOK
<1>9. NoRow \notin T /\ t \notin T
  BY <1>2, <1>8 DEF NoRow
<1>10. \A x \in g.targets : x.at \in 1..(n + 1) /\ x.at <= n + 1
  BY <1>2, <1>3, <1>7, <1>8
<1>11. \A x, u \in g.targets : x.at = u.at => x = u
  <2>1. \A x \in T : x.at # t.at
    BY <1>2, <1>8
  <2>. QED
    BY <1>3, <1>7, <1>8, <2>1
<1>12. IsFiniteSet(g.targets) /\ Cardinality(g.targets) = g.firstMoves
  <2>1. CASE current = NoRow
    <3>1. g.targets = T \cup {t} /\ g.firstMoves = f.firstMoves + 1
      BY <1>3, <1>7, <1>9, <2>1
    <3>2. IsFiniteSet(T \cup {t}) /\ Cardinality(T \cup {t}) = Cardinality(T) + 1
      BY <1>8, <1>9, FS_AddElement
    <3>. QED
      BY <1>8, <3>1, <3>2
  <2>2. CASE current # NoRow
    <3>1. PICK U : U = T \ {current}
      OBVIOUS
    <3>2. current \in T /\ t \notin U
      BY <1>7, <1>9, <2>2, <3>1
    <3>3. IsFiniteSet(U) /\ Cardinality(U) = Cardinality(T) - 1
      BY <1>8, <3>1, <3>2, FS_RemoveElement
    <3>4. IsFiniteSet(U \cup {t}) /\ Cardinality(U \cup {t}) = Cardinality(U) + 1
      BY <3>2, <3>3, FS_AddElement
    <3>5. g.targets = U \cup {t} /\ g.firstMoves = f.firstMoves + 0
      BY <1>3, <1>7, <2>2, <3>1
    <3>6. Cardinality(U \cup {t}) = Cardinality(T)
      BY <1>8, <3>3, <3>4
    <3>7. f.firstMoves + 0 = Cardinality(T)
      BY <1>8
    <3>. QED
      BY <3>4, <3>5, <3>6, <3>7
  <2>. QED
    BY <2>1, <2>2
<1>13. TargetsOK(g, n + 1)
  BY <1>2, <1>3, <1>10, <1>11, <1>12 DEF TargetsOK
<1>. QED
  BY <1>3, <1>4, <1>5, <1>6, <1>13 DEF FactsOK

\* A transaction appends facts that hold all that went before.
LEMMA AppendFacts ==
    ASSUME NEW l, LogOK(l), NEW f, FactsOK(f, Len(l) + 1), Grows(l[Len(l)], f)
    PROVE  /\ LogOK(Append(l, f))
           /\ Len(Append(l, f)) = Len(l) + 1 /\ Len(l) \in Nat
           /\ \A i \in 1..Len(l) : Append(l, f)[i] = l[i]
           /\ Append(l, f)[Len(l) + 1] = f
<1>1. PICK X : X = {l[i] : i \in DOMAIN l}
  OBVIOUS
<1>2. l \in Seq(X)
  BY <1>1 DEF LogOK
<1>3. l \in Seq(X \cup {f}) /\ Len(l) \in Nat /\ DOMAIN l = 1..Len(l)
  <2>1. \A i \in 1..Len(l) : l[i] \in X \cup {f}
    BY <1>2, ItemOfSeq
  <2>. QED
    BY <1>2, <2>1
<1>4. PICK m : m = Append(l, f)
  OBVIOUS
<1>5. m \in Seq(X \cup {f}) /\ Len(m) = Len(l) + 1 /\ DOMAIN m = 1..(Len(l) + 1)
  BY <1>3, <1>4
<1>6. (\A i \in 1..Len(l) : m[i] = l[i]) /\ m[Len(l) + 1] = f
  BY <1>3, <1>4
<1>7. {m[i] : i \in DOMAIN m} = X \cup {f}
  <2>1. ASSUME NEW i \in DOMAIN m PROVE m[i] \in X \cup {f}
    BY <1>5, ItemOfSeq
  <2>2. ASSUME NEW x \in X \cup {f} PROVE \E i \in DOMAIN m : m[i] = x
    <3>1. CASE x = f
      <4>1. Len(l) + 1 \in DOMAIN m
        BY <1>3, <1>5
      <4>. QED
        BY <1>6, <3>1, <4>1
    <3>2. CASE x \in X
      <4>1. PICK i \in 1..Len(l) : l[i] = x
        BY <1>1, <1>3, <3>2
      <4>2. i \in DOMAIN m
        BY <1>3, <1>5
      <4>. QED
        BY <1>6, <4>1, <4>2
    <3>. QED
      BY <3>1, <3>2
  <2>. QED
    BY <2>1, <2>2
<1>8. ASSUME NEW i \in 1..Len(m) PROVE FactsOK(m[i], i) /\ Grows(m[i], m[Len(m)])
  <2>1. CASE i = Len(l) + 1
    BY <1>5, <1>6, <2>1 DEF Grows
  <2>2. CASE i \in 1..Len(l)
    BY <1>5, <1>6, <2>2 DEF LogOK, Grows
  <2>. QED
    BY <1>3, <1>5, <2>1, <2>2
<1>9. m \in Seq({m[i] : i \in DOMAIN m})
  BY <1>5, <1>7
<1>10. LogOK(m)
  BY <1>3, <1>5, <1>8, <1>9 DEF LogOK
<1>. QED
  BY <1>3, <1>4, <1>5, <1>6, <1>10

-----------------------------------------------------------------------------
(* The steps of load, commit and setRef. *)

LEMMA LoadedSame ==
    ASSUME NEW reads, \A i \in 1..5 : log'[reads[i]] = log[reads[i]]
    PROVE  Loaded(reads)' = Loaded(reads)
<1>1. /\ log'[reads[1]] = log[reads[1]] /\ log'[reads[2]] = log[reads[2]]
      /\ log'[reads[3]] = log[reads[3]] /\ log'[reads[4]] = log[reads[4]]
  OBVIOUS
<1>. QED
  BY <1>1 DEF Loaded

LEMMA RefusedSame ==
    ASSUME NEW request, NEW reads, Loaded(reads)' = Loaded(reads)
    PROVE  Refused(request, Loaded(reads))' <=> Refused(request, Loaded(reads))
BY DEF Refused, Named

\* What a call holds stays right when a transaction is appended.
LEMMA CallLater ==
    ASSUME NEW k, StoreCallOK(k), Len(log) \in Nat, Len(log)' = Len(log) + 1,
           \A i \in 1..Len(log) : log'[i] = log[i]
    PROVE  StoreCallOK(k)'
<1>1. ASSUME ReadsOK(k.reads, Len(log)) PROVE ReadsOK(k.reads, Len(log)')
  <2>1. k.reads \in Seq(1..Len(log)) /\ 1..Len(log) \subseteq 1..Len(log)'
    BY <1>1 DEF ReadsOK
  <2>2. k.reads \in Seq(1..Len(log)')
    BY <2>1
  <2>. QED
    BY <1>1, <2>2 DEF ReadsOK
<1>2. k.pc = "load" => LoadingOK(k)'
  BY <1>1 DEF StoreCallOK, LoadingOK
<1>3. ASSUME k.pc \in {"current", "write"} PROVE WritingOK(k)'
  <2>1. WritingOK(k)
    BY <1>3 DEF StoreCallOK
  <2>2. \A i \in 1..5 : k.reads[i] \in 1..Len(log)
    BY <2>1, ReadInLog DEF WritingOK
  <2>3. Loaded(k.reads)' = Loaded(k.reads)
    BY <2>2, LoadedSame
  <2>4. ~Refused(k.request, Loaded(k.reads))'
    BY <2>1, <2>3, RefusedSame DEF WritingOK
  <2>. QED
    BY <1>1, <2>1, <2>4 DEF WritingOK
<1>. QED
  BY <1>2, <1>3 DEF StoreCallOK

LEMMA CallStays ==
    ASSUME NEW k, StoreCallOK(k), log' = log
    PROVE  StoreCallOK(k)'
<1>1. \A i \in 1..5 : log'[k.reads[i]] = log[k.reads[i]]
  OBVIOUS
<1>2. Refused(k.request, Loaded(k.reads))' <=> Refused(k.request, Loaded(k.reads))
  BY <1>1, LoadedSame, RefusedSame
<1>. QED
  BY <1>2 DEF StoreCallOK, LoadingOK, WritingOK

\* One caller moves to a record that is right, without a write.
LEMMA CallMoves ==
    ASSUME StoreInv, NEW c \in Callers, NEW k, call' = [call EXCEPT ![c] = k], log' = log,
           StoreCallOK(k)
    PROVE  StoreInv'
<1>1. call = [x \in Callers |-> call[x]]
  BY DEF StoreInv
<1>2. call' = [x \in Callers |-> call'[x]] /\ \A x \in Callers : call'[x] = IF x = c THEN k ELSE call[x]
  BY <1>1
<1>3. ASSUME NEW x \in Callers PROVE StoreCallOK(call[x])'
  <2>1. PICK r : r = call'[x]
    OBVIOUS
  <2>2. StoreCallOK(r)
    BY <1>2, <2>1 DEF StoreInv
  <2>3. StoreCallOK(r)'
    BY <2>2, CallStays
  <2>. QED
    BY <2>1, <2>3
<1>4. LogOK(log)'
  BY DEF StoreInv
<1>. QED
  BY <1>2, <1>3, <1>4 DEF StoreInv

LEMMA StartPreserves ==
    ASSUME StoreInv, NEW c \in Callers, Start(c)
    PROVE  StoreInv'
<1>1. PICK request \in Requests :
        call' = [call EXCEPT ![c] = [pc |-> "load", request |-> request, reads |-> <<Len(log)>>]]
  BY DEF Start
<1>2. PICK k : k = [pc |-> "load", request |-> request, reads |-> <<Len(log)>>]
  OBVIOUS
<1>3. Len(log) \in Nat /\ Len(log) >= 1
  BY DEF StoreInv, LogOK
<1>4. ReadsOK(<<Len(log)>>, Len(log))
  BY <1>3 DEF ReadsOK
<1>5. StoreCallOK(k)
  BY <1>2, <1>4 DEF StoreCallOK, LoadingOK
<1>. QED
  BY <1>1, <1>2, <1>5, CallMoves DEF Start

LEMMA NextReadPreserves ==
    ASSUME StoreInv, NEW c \in Callers, Read(c)
    PROVE  StoreInv'
<1>1. PICK k : k = call[c]
  OBVIOUS
<1>2. StoreCallOK(k) /\ k.pc = "load" /\ Len(k.reads) < 5
  BY <1>1 DEF StoreInv, Read
<1>3. LoadingOK(k)
  BY <1>2 DEF StoreCallOK
<1>4. PICK n : n = Len(log)
  OBVIOUS
<1>5. n \in Nat /\ n >= 1 /\ n \in 1..n
  BY <1>4 DEF StoreInv, LogOK
<1>6. PICK reads : reads = Append(k.reads, n)
  OBVIOUS
<1>7. PICK old : old = k.reads
  OBVIOUS
<1>8. old \in Seq(1..n) /\ Len(old) \in 1..4 /\ \A i, j \in 1..Len(old) : i <= j => old[i] <= old[j]
  <2>1. ReadsOK(old, n) /\ Len(old) < 5
    BY <1>2, <1>3, <1>4, <1>7 DEF LoadingOK
  <2>2. PICK m : m = Len(old)
    OBVIOUS
  <2>3. m \in 1..5 /\ m < 5
    BY <2>1, <2>2 DEF ReadsOK
  <2>4. Len(old) \in 1..4
    BY <2>2, <2>3
  <2>. QED
    BY <2>1, <2>4 DEF ReadsOK
<1>9. /\ reads \in Seq(1..n) /\ Len(reads) = Len(old) + 1
      /\ \A i \in 1..Len(old) : reads[i] = old[i]
      /\ reads[Len(old) + 1] = n
  BY <1>5, <1>6, <1>7, <1>8
<1>10. \A i \in 1..Len(old) : old[i] \in 1..n
  BY <1>8, ItemOfSeq
<1>11. ReadsOK(reads, n)
  <2>1. Len(reads) \in 1..5
    BY <1>8, <1>9
  <2>2. ASSUME NEW i \in 1..Len(reads), NEW j \in 1..Len(reads), i <= j PROVE reads[i] <= reads[j]
    <3>1. CASE j \in 1..Len(old)
      <4>1. i \in 1..Len(old)
        BY <1>8, <2>2, <3>1
      <4>. QED
        BY <1>8, <1>9, <2>2, <3>1, <4>1
    <3>2. CASE j = Len(old) + 1
      <4>1. reads[j] = n
        BY <1>9, <3>2
      <4>2. i \in 1..Len(old) \/ i = Len(old) + 1
        BY <1>8, <1>9
      <4>3. reads[i] \in 1..n
        BY <1>5, <1>9, <1>10, <4>2
      <4>. QED
        BY <1>5, <4>1, <4>3
    <3>3. j \in 1..Len(old) \/ j = Len(old) + 1
      BY <1>8, <1>9
    <3>. QED
      BY <3>1, <3>2, <3>3
  <2>. QED
    BY <1>9, <2>1, <2>2 DEF ReadsOK
<1>12. PICK next : next = [pc |-> "load", request |-> k.request, reads |-> reads]
  OBVIOUS
<1>13. [k EXCEPT !.reads = reads] = next
  <2>1. k = [pc |-> "load", request |-> k.request, reads |-> k.reads]
    BY <1>3 DEF LoadingOK
  <2>. QED
    BY <1>12, <2>1
<1>14. call' = [call EXCEPT ![c] = next]
  BY <1>1, <1>4, <1>6, <1>13 DEF Read, StoreInv
<1>15. StoreCallOK(next)
  BY <1>3, <1>4, <1>11, <1>12 DEF StoreCallOK, LoadingOK
<1>. QED
  BY <1>14, <1>15, CallMoves DEF Read

\* Reads that saw one transaction find no corruption.
LEMMA TogetherSound ==
    ASSUME LogOK(log), NEW reads, NEW m \in 1..Len(log), reads[1] = m, reads[4] = m, reads[5] = m
    PROVE  ~Corrupt(reads)
<1>1. PICK f : f = log[m]
  OBVIOUS
<1>2. TreesStored(f) /\ TargetsStored(f)
  BY <1>1 DEF LogOK, FactsOK
<1>. QED
  BY <1>1, <1>2 DEF Corrupt, TreesStored, TargetsStored

LEMMA DecidePreserves ==
    ASSUME StoreInv, NEW c \in Callers, Decide(c)
    PROVE  StoreInv'
<1>1. PICK k : k = call[c]
  OBVIOUS
<1>2. StoreCallOK(k) /\ k.pc = "load" /\ Len(k.reads) = 5 /\ LogOK(log)
  BY <1>1 DEF StoreInv, Decide
<1>3. LoadingOK(k)
  BY <1>2 DEF StoreCallOK
<1>4. CASE Corrupt(k.reads) /\ Return(c, "corrupt")
  <2>1. PICK next : next = [pc |-> "corrupt", reads |-> k.reads]
    OBVIOUS
  <2>2. \A i \in 1..5 : k.reads[i] \in 1..Len(log)
    BY <1>2, <1>3, ReadInLog DEF LoadingOK
  <2>3. k.reads[1] <= k.reads[4] /\ k.reads[4] <= k.reads[5]
    BY <1>2, <1>3 DEF LoadingOK, ReadsOK
  <2>4. k.reads[1] < k.reads[5]
    <3>1. SUFFICES ASSUME ~(k.reads[1] < k.reads[5]) PROVE FALSE
      OBVIOUS
    <3>2. k.reads[4] = k.reads[1] /\ k.reads[5] = k.reads[1]
      BY <2>2, <2>3, <3>1
    <3>. QED
      BY <1>2, <1>4, <2>2, <3>2, TogetherSound
  <2>5. StoreCallOK(next)
    BY <2>1, <2>4 DEF StoreCallOK
  <2>. QED
    BY <1>1, <1>4, <2>1, <2>5, CallMoves DEF Return
<1>5. CASE Return(c, "loaded") \/ Return(c, "refused")
  <2>1. PICK outcome \in {"loaded", "refused"} : Return(c, outcome)
    BY <1>5
  <2>2. PICK next : next = [pc |-> outcome, reads |-> call[c].reads]
    OBVIOUS
  <2>3. StoreCallOK(next)
    BY <2>2 DEF StoreCallOK
  <2>. QED
    BY <2>1, <2>2, <2>3, CallMoves DEF Return
<1>6. CASE /\ k.request.op # "load" /\ ~Refused(k.request, Loaded(k.reads))
           /\ call' = [call EXCEPT ![c] =
                [ pc |-> IF k.request.ref = NoRef THEN "write" ELSE "current",
                  request |-> k.request, reads |-> k.reads, current |-> NoRow ]]
           /\ UNCHANGED <<log, calls>>
  <2>1. PICK pc : pc = IF k.request.ref = NoRef THEN "write" ELSE "current"
    OBVIOUS
  <2>2. PICK next : next = [pc |-> pc, request |-> k.request, reads |-> k.reads, current |-> NoRow]
    OBVIOUS
  <2>3. pc \in {"write", "current"}
    BY <2>1
  <2>4. next.pc = pc /\ next.request = k.request /\ next.reads = k.reads /\ next.current = NoRow
    BY <2>2
  <2>5. WritingOK(next)
    BY <1>2, <1>3, <1>6, <2>2, <2>4 DEF WritingOK, LoadingOK
  <2>6. StoreCallOK(next)
    BY <2>3, <2>4, <2>5 DEF StoreCallOK
  <2>. QED
    BY <1>6, <2>1, <2>2, <2>6, CallMoves
<1>. QED
  BY <1>1, <1>4, <1>5, <1>6 DEF Decide

LEMMA CurrentRefPreserves ==
    ASSUME StoreInv, NEW c \in Callers, CurrentRef(c)
    PROVE  StoreInv'
<1>1. PICK k : k = call[c]
  OBVIOUS
<1>2. StoreCallOK(k) /\ k.pc = "current"
  BY <1>1 DEF StoreInv, CurrentRef
<1>3. WritingOK(k)
  BY <1>2 DEF StoreCallOK
<1>4. PICK t : t = latestTarget(Facts, k.request.ref)
  OBVIOUS
<1>5. PICK next : next = [pc |-> "write", request |-> k.request, reads |-> k.reads, current |-> t]
  OBVIOUS
<1>6. [k EXCEPT !.pc = "write", !.current = t] = next
  <2>1. DOMAIN k = {"pc", "request", "reads", "current"}
    BY <1>3 DEF WritingOK
  <2>2. PICK e : e = [k EXCEPT !.pc = "write", !.current = t]
    OBVIOUS
  <2>3. e = [x \in {"pc", "request", "reads", "current"} |-> e[x]]
    BY <2>1, <2>2
  <2>4. e.pc = "write" /\ e.current = t /\ e.request = k.request /\ e.reads = k.reads
    BY <2>1, <2>2
  <2>5. e = next
    BY <1>5, <2>3, <2>4
  <2>. QED
    BY <2>2, <2>5
<1>7. call' = [call EXCEPT ![c] = next]
  BY <1>1, <1>4, <1>6 DEF CurrentRef, StoreInv
<1>8. WritingOK(next) /\ next.pc = "write"
  BY <1>3, <1>5 DEF WritingOK
<1>9. StoreCallOK(next)
  BY <1>8 DEF StoreCallOK
<1>. QED
  BY <1>7, <1>9, CallMoves DEF CurrentRef

LEMMA FinishPreserves ==
    ASSUME StoreInv, NEW c \in Callers, Finish(c)
    PROVE  StoreInv'
<1>1. StoreCallOK(IdleCall)
  BY DEF StoreCallOK, IdleCall
<1>. QED
  BY <1>1, CallMoves DEF Finish

\* The facts a transaction leaves hold what went before and are whole.
LEMMA WriteLeaves ==
    ASSUME StoreInv, NEW c \in Callers, Write(c), RefUnmoved(call[c].current)
    PROVE  \E f : /\ log' = Append(log, f) /\ FactsOK(f, Len(log) + 1) /\ Grows(Facts, f)
                  /\ call' = [call EXCEPT ![c] = [pc |-> "done", reads |-> call[c].reads]]
<1>1. PICK k : k = call[c]
  OBVIOUS
<1>2. StoreCallOK(k) /\ k.pc = "write" /\ LogOK(log)
  BY <1>1 DEF StoreInv, Write
<1>3. WritingOK(k)
  BY <1>2 DEF StoreCallOK
<1>4. PICK request, before, current :
        request = k.request /\ before = Loaded(k.reads) /\ current = k.current
  OBVIOUS
<1>5. PICK n, old : n = Len(log) /\ old = Facts
  OBVIOUS
<1>6. n \in Nat /\ FactsOK(old, n)
  <2>1. Len(log) \in Nat /\ Len(log) \in 1..Len(log)
    BY <1>2 DEF LogOK
  <2>. QED
    BY <1>2, <1>5, <2>1 DEF LogOK, Facts
<1>7. current = NoRow \/ current \in old.targets
  BY <1>1, <1>4, <1>5 DEF RefUnmoved
<1>8. /\ Recorded(before, before) /\ before.objects \subseteq old.objects
      /\ \A r \in before.revisions : \E row \in old.revisions : row.body = r
      /\ \A s \in before.snapshots : \E row \in old.snapshots : row.body = s
  BY <1>2, <1>3, <1>4, <1>5, LoadedStore DEF WritingOK
<1>9. call' = [call EXCEPT ![c] = [pc |-> "done", reads |-> call[c].reads]]
  BY DEF Write
<1>10. request \in Requests /\ request.op # "load" /\ ~Refused(request, before)
  BY <1>3, <1>4 DEF WritingOK
<1>11. CASE request.op = "commit"
  <2>1. PICK label, release : label = request.label /\ release = request.release
    OBVIOUS
  <2>2. ReleaseOK(release)
    BY <1>10, <1>11, <2>1, ConfigAssumption DEF ReleaseOK, Refused
  <2>3. PICK after, id, seq :
          /\ commit(before, label, release) = [store |-> after, snapshot |-> [id |-> id, seq |-> seq]]
          /\ seq \in Nat /\ Whole(after, id, before)
    BY <1>8, <2>2, CommitResult
  <2>4. PICK result : result = [store |-> after, snapshot |-> [id |-> id, seq |-> seq]]
    OBVIOUS
  <2>5. result = commit(before, label, release) /\ result.snapshot.id = id
    BY <2>3, <2>4
  <2>6. PICK g : g = Written(old, before, result, n + 1)
    OBVIOUS
  <2>7. FactsOK(g, n) /\ Grows(old, g) /\ \E row \in g.snapshots : row.body.id = id
    <3>1. PICK at : at = n + 1
      OBVIOUS
    <3>2. g = Written(old, before, [store |-> after, snapshot |-> [id |-> id, seq |-> seq]], at)
      BY <2>4, <2>6, <3>1
    <3>. QED
      BY <1>6, <1>8, <2>3, <3>2, FactsWritten
  <2>8. g.targets = old.targets
    BY <1>6, <2>6, WrittenFields DEF FactsOK
  <2>9. PICK f : f = IF request.ref = NoRef THEN g ELSE Moved(g, request.ref, id, current, n + 1)
    OBVIOUS
  <2>10. log' = Append(log, f)
    BY <1>1, <1>4, <1>5, <1>11, <2>1, <2>5, <2>6, <2>9 DEF Write
  <2>11. FactsOK(f, n + 1) /\ Grows(old, f)
    <3>1. CASE request.ref = NoRef
      BY <1>6, <2>7, <2>9, <3>1, FactsLater
    <3>2. CASE request.ref # NoRef
      <4>1. PICK name : name = request.ref
        OBVIOUS
      <4>2. f = Moved(g, name, id, current, n + 1)
        BY <2>9, <3>2, <4>1
      <4>3. FactsOK(f, n + 1) /\ Grows(g, f)
        BY <1>6, <1>7, <2>7, <2>8, <4>2, FactsMoved
      <4>. QED
        BY <2>7, <4>3 DEF Grows
    <3>. QED
      BY <3>1, <3>2
  <2>. QED
    BY <1>5, <1>9, <2>10, <2>11
<1>12. CASE request.op = "setRef"
  <2>1. PICK named : named \in Named(request, before) /\ named = CHOOSE s \in Named(request, before) : TRUE
    BY <1>10, <1>12 DEF Refused
  <2>2. \E row \in old.snapshots : row.body.id = named.id
    BY <1>8, <2>1 DEF Named
  <2>3. PICK f : f = IF request.ref = NoRef THEN old ELSE Moved(old, request.ref, named.id, current, n + 1)
    OBVIOUS
  <2>4. log' = Append(log, f)
    BY <1>1, <1>4, <1>5, <1>12, <2>1, <2>3 DEF Write
  <2>5. FactsOK(f, n + 1) /\ Grows(old, f)
    <3>1. CASE request.ref = NoRef
      BY <1>6, <2>3, <3>1, FactsLater DEF Grows
    <3>2. CASE request.ref # NoRef
      <4>1. PICK name, id : name = request.ref /\ id = named.id
        OBVIOUS
      <4>2. f = Moved(old, name, id, current, n + 1)
        BY <2>3, <3>2, <4>1
      <4>. QED
        BY <1>6, <1>7, <2>2, <4>1, <4>2, FactsMoved
    <3>. QED
      BY <3>1, <3>2
  <2>. QED
    BY <1>5, <1>9, <2>4, <2>5
<1>. QED
  BY <1>10, <1>11, <1>12, ConfigAssumption

LEMMA TransactionPreserves ==
    ASSUME StoreInv, NEW c \in Callers, Write(c)
    PROVE  StoreInv'
<1>1. CASE ~RefUnmoved(call[c].current)
  <2>1. PICK next : next = [pc |-> "conflict", reads |-> call[c].reads]
    OBVIOUS
  <2>2. StoreCallOK(next)
    BY <2>1 DEF StoreCallOK
  <2>. QED
    BY <1>1, <2>1, <2>2, CallMoves DEF Write, Return
<1>2. CASE RefUnmoved(call[c].current)
  <2>1. PICK f : /\ log' = Append(log, f) /\ FactsOK(f, Len(log) + 1) /\ Grows(Facts, f)
                 /\ call' = [call EXCEPT ![c] = [pc |-> "done", reads |-> call[c].reads]]
    BY <1>2, WriteLeaves
  <2>2. PICK next : next = [pc |-> "done", reads |-> call[c].reads]
    OBVIOUS
  <2>3. LogOK(log) /\ call = [x \in Callers |-> call[x]]
    BY DEF StoreInv
  <2>4. /\ LogOK(log') /\ Len(log') = Len(log) + 1 /\ Len(log) \in Nat
        /\ \A i \in 1..Len(log) : log'[i] = log[i]
    <3>1. PICK l : l = log
      OBVIOUS
    <3>2. LogOK(l) /\ FactsOK(f, Len(l) + 1) /\ Grows(l[Len(l)], f)
      BY <2>1, <2>3, <3>1 DEF Facts
    <3>3. /\ LogOK(Append(l, f)) /\ Len(Append(l, f)) = Len(l) + 1 /\ Len(l) \in Nat
          /\ \A i \in 1..Len(l) : Append(l, f)[i] = l[i]
      BY <3>2, AppendFacts
    <3>. QED
      BY <2>1, <3>1, <3>3
  <2>5. call' = [x \in Callers |-> call'[x]] /\ \A x \in Callers : call'[x] = IF x = c THEN next ELSE call[x]
    BY <2>1, <2>2, <2>3
  <2>6. ASSUME NEW x \in Callers PROVE StoreCallOK(call[x])'
    <3>1. PICK r : r = call'[x]
      OBVIOUS
    <3>2. StoreCallOK(r)
      <4>1. StoreCallOK(next)
        BY <2>2 DEF StoreCallOK
      <4>. QED
        BY <2>5, <3>1, <4>1 DEF StoreInv
    <3>3. StoreCallOK(r)'
      BY <2>4, <3>2, CallLater
    <3>. QED
      BY <3>1, <3>3
  <2>. QED
    BY <2>4, <2>5, <2>6 DEF StoreInv
<1>. QED
  BY <1>1, <1>2

-----------------------------------------------------------------------------

LEMMA StoreInitially == ConfigInit => StoreInv
<1> SUFFICES ASSUME ConfigInit PROVE StoreInv
  OBVIOUS
<1>1. PICK f : f = NoFacts
  OBVIOUS
<1>2. /\ IsFacts(f) /\ f.revisions = {} /\ f.snapshots = {} /\ f.targets = {}
      /\ f.firstMoves = 0 /\ f.lastMove = NoRow
  BY <1>1 DEF NoFacts, IsFacts
<1>3. IsFiniteSet({}) /\ Cardinality({}) = 0
  BY FS_EmptySet
<1>4. FactsOK(f, 1)
  BY <1>2, <1>3 DEF FactsOK, RowsOK, TreesStored, TargetsStored, PinsOK, TargetsOK
<1>5. log = <<f>>
  BY <1>1 DEF ConfigInit
<1>6. LogOK(log)
  <2>1. Len(log) = 1 /\ log[1] = f /\ DOMAIN log = 1..1
    BY <1>5
  <2>2. {log[i] : i \in DOMAIN log} = {f}
    BY <2>1
  <2>3. log \in Seq({f})
    BY <1>5
  <2>4. \A i \in 1..Len(log) : i = 1
    BY <2>1
  <2>. QED
    BY <1>4, <2>1, <2>2, <2>3, <2>4 DEF LogOK, Grows
<1>7. \A c \in Callers : StoreCallOK(call[c])
  BY DEF ConfigInit, IdleCall, StoreCallOK
<1>. QED
  BY <1>6, <1>7 DEF StoreInv, ConfigInit

LEMMA StoreStep == StoreInv /\ [ConfigNext]_configVars => StoreInv'
<1> SUFFICES ASSUME StoreInv, [ConfigNext]_configVars PROVE StoreInv'
  OBVIOUS
<1>1. CASE UNCHANGED configVars
  <2>1. log' = log /\ call' = call
    BY <1>1 DEF configVars
  <2>2. ASSUME NEW c \in Callers PROVE StoreCallOK(call[c])'
    <3>1. PICK k : k = call[c]
      OBVIOUS
    <3>2. StoreCallOK(k)'
      BY <2>1, <3>1, CallStays DEF StoreInv
    <3>. QED
      BY <2>1, <3>1, <3>2
  <2>. QED
    BY <2>1, <2>2 DEF StoreInv
<1>2. ASSUME NEW c \in Callers,
             Start(c) \/ Read(c) \/ Decide(c) \/ CurrentRef(c) \/ Write(c) \/ Finish(c)
      PROVE  StoreInv'
  BY <1>2, StartPreserves, NextReadPreserves, DecidePreserves, CurrentRefPreserves, TransactionPreserves,
     FinishPreserves
<1>. QED
  BY <1>1, <1>2 DEF ConfigNext

LEMMA StoreImplies == StoreInv => StoreWhole
<1> SUFFICES ASSUME StoreInv PROVE StoreWhole
  OBVIOUS
<1>1. Len(log) \in Nat /\ Len(log) \in 1..Len(log) /\ LogOK(log)
  BY DEF StoreInv, LogOK
<1>2. FactsOK(Facts, Len(log))
  BY <1>1 DEF LogOK, Facts
<1>3. CorruptMeansTorn
  <2>1. PICK reads : reads = [i \in 1..5 |-> Len(log)]
    OBVIOUS
  <2>2. reads[1] = Len(log) /\ reads[4] = Len(log) /\ reads[5] = Len(log)
    BY <2>1
  <2>3. ~Corrupt(reads)
    BY <1>1, <2>2, TogetherSound
  <2>. QED
    BY <2>1, <2>3 DEF CorruptMeansTorn, StoreInv, StoreCallOK
<1>4. ClosurePinned
  BY <1>2 DEF ClosurePinned, FactsOK, PinsOK, PinsClosed
<1>5. MovesSerialised
  <2>1. PICK f, m : f = Facts /\ m = Facts.lastMove
    OBVIOUS
  <2>2. TargetsOK(f, Len(log)) /\ m = f.lastMove
    BY <1>2, <2>1 DEF FactsOK
  <2>3. ASSUME m # NoRow PROVE latestTarget(f, m.ref) = m
    <3> DEFINE live == {t \in f.targets : t.ref = m.ref}
    <3>1. m \in live /\ \A u \in live : u.at <= m.at
      BY <2>2, <2>3 DEF TargetsOK
    <3>2. \A t, u \in live : t.at \in Nat /\ (t.at = u.at => t = u)
      BY <1>1, <2>2 DEF TargetsOK
    <3>3. latestTarget(f, m.ref) = CHOOSE t \in live : \A u \in live : u.at <= t.at
      BY <3>1 DEF latestTarget
    <3>. HIDE DEF live
    <3>4. PICK t : t = CHOOSE x \in live : \A u \in live : u.at <= x.at
      OBVIOUS
    <3>5. t \in live /\ \A u \in live : u.at <= t.at
      BY <3>1, <3>4
    <3>6. t = m
      BY <3>1, <3>2, <3>5
    <3>. QED
      BY <3>3, <3>4, <3>6
  <2>. QED
    BY <2>1, <2>2, <2>3 DEF MovesSerialised, TargetsOK
<1>. QED
  BY <1>3, <1>4, <1>5 DEF StoreWhole

\* However loads, publishes and moves of refs interleave, and whatever torn
\* or stale store a writer decided on, the persisted store is whole: a load
\* at one moment finds no corruption, each snapshot pins stored revisions of
\* exactly its objects, closed over the snapshot, and moves of a ref are
\* serialised.
THEOREM StoreStaysWhole == ConfigSpec => []StoreWhole
<1>1. ConfigInit => StoreInv
  BY StoreInitially
<1>2. StoreInv /\ [ConfigNext]_configVars => StoreInv'
  BY StoreStep
<1>3. StoreInv => StoreWhole
  BY StoreImplies
<1>. QED
  BY <1>1, <1>2, <1>3, PTL DEF ConfigSpec

-----------------------------------------------------------------------------
(* The inductive invariant of entity validation. *)

Latest(h) == h[Len(h)]

Worlds == [value : [Subjects -> Values \cup {Absent}], target : Snapshots]

\* What revalidate records for a subject when every read sees one world.
TrueResult(w, s) == Result(s, w.target, w.value[s], Sharing(w, w.target)[s])

TrueResults(w) == {TrueResult(w, s) : s \in Live(w)}

\* Nothing was written since the position was read, and the snapshot is the
\* deployed one: the reads made since then saw one world.
Fresh(snapshot, position, h) == position = Len(h) /\ snapshot = Latest(h).target

Distinct(rs) == \A r, q \in rs : r.subject = q.subject => r = q

Judged(rs) == \A r \in rs : r.valid <=> r.issues = {}

Projected(hs) == {g.result : g \in hs}

Flagged(rs) == {r.subject : r \in {x \in rs : ~x.valid}}

\* The checkpoint names the run the heads come from.
CheckpointOK(h, hs, ck) ==
    \/ ck = {} /\ hs = {}
    \/ \E k \in ck :
         /\ ck = {k}
         /\ k.run.position \in 1..Len(h)
         /\ Projected(hs) = k.run.results
         /\ Distinct(k.run.results)
         /\ Fresh(k.run.snapshot, k.run.position, h) => k.run.results = TrueResults(Latest(h))

BodiesOK(job, h) ==
    /\ job = [pc |-> "bodies", snapshot |-> job.snapshot, position |-> job.position,
               shared |-> job.shared, heads |-> job.heads, checkpoint |-> job.checkpoint,
               left |-> job.left, found |-> job.found]
    /\ Distinct(job.found) /\ Judged(job.found)
    /\ \A r \in job.found : r.subject \notin job.left
    /\ Fresh(job.snapshot, job.position, h) =>
         /\ job.left \subseteq Live(Latest(h))
         /\ job.found = {TrueResult(Latest(h), s) : s \in Live(Latest(h)) \ job.left}

\* What a run of revalidate holds at each of its stages.
CallOK(job, h, hs, ck) ==
    /\ job.pc \in {"idle", "position", "graph", "heads", "checkpoint", "subjects", "bodies"}
    /\ job.pc = "idle" => job = IdleValidator
    /\ job.pc # "idle" => \A k \in ck : k.run.position = Len(h) => job.snapshot = Latest(h).target
    /\ job.pc \in {"graph", "heads", "checkpoint", "subjects", "bodies"} =>
         job.position \in 1..Len(h) /\ \A k \in ck : k.run.position <= job.position
    /\ job.pc \in {"heads", "checkpoint", "subjects", "bodies"} =>
         (Fresh(job.snapshot, job.position, h) =>
            job.shared = Sharing(Latest(h), Latest(h).target))
    /\ job.pc \in {"checkpoint", "subjects", "bodies"} => job.heads = hs
    /\ job.pc \in {"subjects", "bodies"} => job.checkpoint = ck
    /\ job.pc = "bodies" => BodiesOK(job, h)

\* The run a reader holds was followed by runs at the same or a later
\* position; one at the same position was begun after it was written.
Followed(k, h, ck) ==
    /\ k.run.position \in 1..Len(h)
    /\ \E c \in ck :
         /\ k.run.position <= c.run.position
         /\ k.run.position = Len(h) => c.run = k.run \/ c.run.snapshot = Latest(h).target

ReaderOK(r, h, ck, rs) ==
    /\ r.pc \in {"idle", "ref", "invalid", "position", "answered"}
    /\ r.pc \in {"ref", "invalid", "position"} => \A k, l \in r.checkpoint : k = l
    /\ r.pc \in {"ref", "invalid"} => \A k \in r.checkpoint : Followed(k, h, ck)
    /\ r.pc = "invalid" =>
         \A k \in r.checkpoint : k.run.position = Len(h) => r.target = Latest(h).target
    /\ r.pc = "position" =>
         /\ \A k \in r.checkpoint :
              /\ k.run.position \in 1..Len(h)
              /\ Fresh(k.run.snapshot, k.run.position, h) /\ k.run.snapshot = r.target => 
                    r.invalid = Invalid(Latest(h))
              /\ k.run.position = Len(h) => r.target = Latest(h).target
         /\ r.invalid \subseteq Flagged(rs)
    /\ r.pc = "answered" =>
         /\ r.position \in 1..Len(h)
         /\ r.status = "current" => r.invalid = Invalid(h[r.position])
         /\ r.invalid \subseteq Flagged(rs)

RecordOK(hs, rs) == Projected(hs) \subseteq rs /\ Judged(rs)

\* One validation of a ref runs at a time.
OneCall(vs) ==
    /\ vs = [v \in Validators |-> vs[v]]
    /\ \A u, v \in Validators : vs[u].pc # "idle" /\ vs[v].pc # "idle" => u = v

ValidationInv ==
    /\ history \in Seq(Worlds) /\ Len(history) >= 1
    /\ CheckpointOK(history, heads, checkpoint)
    /\ RecordOK(heads, results)
    /\ OneCall(validator)
    /\ \A v \in Validators : CallOK(validator[v], history, heads, checkpoint)
    /\ ReaderOK(reader, history, checkpoint, results)

-----------------------------------------------------------------------------

LEMMA AppendHistory ==
    ASSUME NEW h \in Seq(Worlds), NEW w \in Worlds
    PROVE  /\ Append(h, w) \in Seq(Worlds)
           /\ Len(h) \in Nat
           /\ Len(Append(h, w)) = Len(h) + 1
           /\ \A i \in 1..Len(h) : Append(h, w)[i] = h[i]
           /\ Latest(Append(h, w)) = w
BY DEF Latest

\* The heads that report an invalid result are the invalid subjects of a
\* world when they project the true results of that world.
LEMMA InvalidOfTrue ==
    ASSUME NEW w, NEW hs, Projected(hs) = TrueResults(w)
    PROVE  {g.result.subject : g \in {x \in hs : ~x.result.valid}} = Invalid(w)
<1> DEFINE reported == {g.result.subject : g \in {x \in hs : ~x.result.valid}}
<1>0. \A s : TrueResult(w, s).subject = s
  BY DEF TrueResult, Result
<1>1. ASSUME NEW s \in reported PROVE s \in Invalid(w)
  <2>1. PICK g \in hs : ~g.result.valid /\ g.result.subject = s
    OBVIOUS
  <2>2. g.result \in TrueResults(w)
    BY DEF Projected
  <2>3. PICK t \in Live(w) : g.result = TrueResult(w, t)
    BY <2>2 DEF TrueResults
  <2>4. t = s
    BY <2>1, <2>3, <1>0
  <2>. QED
    BY <2>1, <2>3, <2>4 DEF Invalid, TrueResult
<1>2. ASSUME NEW s \in Invalid(w) PROVE s \in reported
  <2>1. s \in Live(w) /\ ~TrueResult(w, s).valid
    BY DEF Invalid, TrueResult
  <2>2. TrueResult(w, s) \in Projected(hs)
    BY <2>1 DEF TrueResults
  <2>3. PICK g \in hs : g.result = TrueResult(w, s)
    BY <2>2 DEF Projected
  <2>. QED
    BY <2>1, <2>3, <1>0
<1>. QED
  BY <1>1, <1>2

\* The transaction leaves exactly the results of the run under the heads.
LEMMA HeadsAfter ==
    ASSUME NEW job, NEW mark, Distinct(job.found), Distinct(Projected(job.heads))
    PROVE  Projected((job.heads \ RetractedHeads(job))
                       \cup {[result |-> r, by |-> mark] : r \in MovedResults(job)}) = job.found
<1> DEFINE kept == job.heads \ RetractedHeads(job)
           moved == {[result |-> r, by |-> mark] : r \in MovedResults(job)}
<1>1. ASSUME NEW g \in kept PROVE g.result \in job.found
  <2>1. g \in job.heads /\ g \notin RetractedHeads(job)
    OBVIOUS
  <2>2. PICK r \in job.found : r.subject = g.result.subject /\ \E f \in job.heads : f.result = r
    BY <2>1 DEF RetractedHeads
  <2>3. r \in Projected(job.heads) /\ g.result \in Projected(job.heads)
    BY <2>1, <2>2 DEF Projected
  <2>. QED
    BY <2>2, <2>3 DEF Distinct
<1>2. \A g \in moved : g.result \in job.found
  BY DEF MovedResults
<1>3. ASSUME NEW r \in job.found PROVE \E g \in kept \cup moved : g.result = r
  <2>1. CASE r \in MovedResults(job)
    <3>1. PICK g : g = [result |-> r, by |-> mark]
      OBVIOUS
    <3>2. g \in moved /\ g.result = r
      BY <2>1, <3>1
    <3>. QED
      BY <3>2
  <2>2. CASE r \notin MovedResults(job)
    <3>1. PICK g \in job.heads : g.result = r
      BY <2>2 DEF MovedResults
    <3>2. g \notin RetractedHeads(job)
      BY <3>1 DEF RetractedHeads
    <3>. QED
      BY <3>1, <3>2
  <2>. QED
    BY <2>1, <2>2
<1>. QED
  <2>. HIDE DEF kept, moved
  <2>1. Projected(kept \cup moved) = job.found
    BY <1>1, <1>2, <1>3 DEF Projected
  <2>. QED
    BY <2>1 DEF kept, moved

\* A write makes no run at an earlier position fresh.
LEMMA CheckpointAppend ==
    ASSUME NEW h \in Seq(Worlds), NEW w \in Worlds, NEW hs, NEW ck, CheckpointOK(h, hs, ck)
    PROVE  CheckpointOK(Append(h, w), hs, ck)
<1>1. CASE ck = {} /\ hs = {}
  BY <1>1 DEF CheckpointOK
<1>2. CASE ~(ck = {} /\ hs = {})
  <2>1. PICK k \in ck : /\ ck = {k}
                        /\ k.run.position \in 1..Len(h)
                        /\ Projected(hs) = k.run.results
                        /\ Distinct(k.run.results)
    BY <1>2 DEF CheckpointOK
  <2>2. k.run.position \in 1..Len(Append(h, w)) /\ k.run.position # Len(Append(h, w))
    BY <2>1, AppendHistory
  <2>. QED
    BY <2>1, <2>2 DEF CheckpointOK, Fresh
<1>. QED
  BY <1>1, <1>2

LEMMA CallAppend ==
    ASSUME NEW h \in Seq(Worlds), NEW w \in Worlds, NEW hs, NEW ck, NEW job,
           CheckpointOK(h, hs, ck), CallOK(job, h, hs, ck)
    PROVE  CallOK(job, Append(h, w), hs, ck)
<1> DEFINE h2 == Append(h, w)
<1>1. Len(h2) = Len(h) + 1 /\ Len(h) \in Nat
  BY AppendHistory
<1>2. \A k \in ck : k.run.position # Len(h2)
  BY <1>1 DEF CheckpointOK
<1> HIDE DEF h2
<1>3. job.pc \in {"graph", "heads", "checkpoint", "subjects", "bodies"} =>
        job.position \in 1..Len(h2) /\ job.position # Len(h2)
  BY <1>1 DEF CallOK
<1>4. job.pc = "bodies" => BodiesOK(job, h2)
  BY <1>3 DEF CallOK, BodiesOK, Fresh
<1>5. CallOK(job, h2, hs, ck)
  BY <1>1, <1>2, <1>3, <1>4 DEF CallOK, Fresh
<1>. QED
  BY <1>5 DEF h2

LEMMA ReaderAppend ==
    ASSUME NEW h \in Seq(Worlds), NEW w \in Worlds, NEW ck, NEW r, NEW rs, NEW hs,
           CheckpointOK(h, hs, ck), ReaderOK(r, h, ck, rs)
    PROVE  ReaderOK(r, Append(h, w), ck, rs)
<1> DEFINE h2 == Append(h, w)
<1>1. Len(h2) = Len(h) + 1 /\ Len(h) \in Nat /\ \A i \in 1..Len(h) : h2[i] = h[i]
  BY AppendHistory
<1> HIDE DEF h2
<1>2. ASSUME NEW k, Followed(k, h, ck) PROVE Followed(k, h2, ck)
  BY <1>1, <1>2 DEF Followed
<1>3. ASSUME NEW k, Followed(k, h, ck) PROVE k.run.position # Len(h2)
  BY <1>1, <1>3 DEF Followed
<1>4. ASSUME r.pc \in {"ref", "invalid"} PROVE ReaderOK(r, h2, ck, rs)
  BY <1>2, <1>3, <1>4 DEF ReaderOK
<1>5. ASSUME r.pc = "position" PROVE ReaderOK(r, h2, ck, rs)
  BY <1>1, <1>5 DEF ReaderOK, Fresh
<1>6. ASSUME r.pc = "answered" PROVE ReaderOK(r, h2, ck, rs)
  <2>1. r.position \in 1..Len(h2) /\ h2[r.position] = h[r.position]
    BY <1>1, <1>6 DEF ReaderOK
  <2>. QED
    BY <2>1, <1>6 DEF ReaderOK
<1>7. ASSUME r.pc = "idle" PROVE ReaderOK(r, h2, ck, rs)
  BY <1>7 DEF ReaderOK
<1>8. r.pc \in {"idle", "ref", "invalid", "position", "answered"}
  BY DEF ReaderOK
<1>9. ReaderOK(r, h2, ck, rs)
  BY <1>4, <1>5, <1>6, <1>7, <1>8
<1>. QED
  BY <1>9 DEF h2

-----------------------------------------------------------------------------

\* A transaction of another writer.
LEMMA WritePreserves ==
    ASSUME ValidationInv, NEW w \in Worlds, history' = Append(history, w),
           UNCHANGED <<heads, checkpoint, results, validator, reader, runs>>
    PROVE  ValidationInv'
<1>1. history' \in Seq(Worlds) /\ Len(history') >= 1
  BY AppendHistory DEF ValidationInv
<1>2. CheckpointOK(Append(history, w), heads, checkpoint)
  BY CheckpointAppend DEF ValidationInv
<1>3. ASSUME NEW v \in Validators PROVE CallOK(validator[v], Append(history, w), heads, checkpoint)
  BY CallAppend DEF ValidationInv
<1>4. ReaderOK(reader, Append(history, w), checkpoint, results)
  BY ReaderAppend DEF ValidationInv
<1>. QED
  BY <1>1, <1>2, <1>3, <1>4 DEF ValidationInv

LEMMA WorldIsLatest ==
    ASSUME ValidationInv
    PROVE  World = Latest(history) /\ World \in Worlds /\ Position = Len(history) /\ Position \in Nat \ {0}
BY DEF World, Latest, Position, ValidationInv

LEMMA WriteValuePreserves ==
    ASSUME ValidationInv, NEW s \in Subjects, NEW x \in Values \cup {Absent}, WriteValue(s, x)
    PROVE  ValidationInv'
<1>1. PICK w : w = [World EXCEPT !.value[s] = x]
  OBVIOUS
<1>2. World.value \in [Subjects -> Values \cup {Absent}]
  BY WorldIsLatest DEF Worlds
<1>3. w \in Worlds
  BY <1>1, <1>2, WorldIsLatest DEF Worlds
<1>. QED
  BY <1>1, <1>3, WritePreserves DEF WriteValue

LEMMA DeployPreserves ==
    ASSUME ValidationInv, NEW s \in Snapshots, Deploy(s)
    PROVE  ValidationInv'
<1>1. PICK w : w = [World EXCEPT !.target = s]
  OBVIOUS
<1>2. w \in Worlds
  BY <1>1, WorldIsLatest DEF Worlds
<1>. QED
  BY <1>1, <1>2, WritePreserves DEF Deploy

\* One validator moves to a record that is right for its stage.
LEMMA MovePreserves ==
    ASSUME ValidationInv, NEW v \in Validators, NEW record,
           validator' = [validator EXCEPT ![v] = record],
           \A u \in Validators : u # v => validator[u].pc = "idle",
           CallOK(record, history, heads, checkpoint),
           UNCHANGED <<history, heads, checkpoint, results, reader>>
    PROVE  ValidationInv'
<1>1. validator = [u \in Validators |-> validator[u]]
  BY DEF ValidationInv, OneCall
<1>2. \A u \in Validators : validator'[u] = IF u = v THEN record ELSE validator[u]
  BY <1>1
<1>3. validator' = [u \in Validators |-> validator'[u]]
  BY <1>1
<1>4. OneCall(validator')
  BY <1>2, <1>3 DEF OneCall
<1>5. \A u \in Validators : CallOK(validator'[u], history, heads, checkpoint)
  BY <1>2 DEF ValidationInv
<1>. QED
  BY <1>4, <1>5 DEF ValidationInv

LEMMA StepPreserves ==
    ASSUME ValidationInv, NEW v \in Validators, NEW record, validator[v].pc # "idle",
           Step(v, record), CallOK(record, history, heads, checkpoint)
    PROVE  ValidationInv'
<1>1. \A u \in Validators : u # v => validator[u].pc = "idle"
  BY DEF ValidationInv, OneCall
<1>. QED
  BY <1>1, MovePreserves DEF Step

LEMMA BeginPreserves ==
    ASSUME ValidationInv, NEW v \in Validators, ~Overlap, Begin(v)
    PROVE  ValidationInv'
<1>1. PICK record : record = [pc |-> "position", snapshot |-> World.target]
  OBVIOUS
<1>2. \A u \in Validators : validator[u].pc = "idle"
  BY DEF Begin, IdleValidator
<1>3. CallOK(record, history, heads, checkpoint)
  BY <1>1, WorldIsLatest DEF CallOK
<1>. QED
  BY <1>1, <1>2, <1>3, MovePreserves DEF Begin

LEMMA IdleOK ==
    ASSUME NEW h, NEW hs, NEW ck
    PROVE  CallOK(IdleValidator, h, hs, ck)
BY DEF CallOK, IdleValidator

\* The run committed last is at no later position than the latest.
LEMMA CheckpointPosition ==
    ASSUME ValidationInv
    PROVE  \A k \in checkpoint : k.run.position \in 1..Len(history)
BY DEF ValidationInv, CheckpointOK

LEMMA ReadPositionPreserves ==
    ASSUME ValidationInv, NEW v \in Validators, ReadPosition(v)
    PROVE  ValidationInv'
<1>1. validator[v].pc = "position" /\ CallOK(validator[v], history, heads, checkpoint)
  BY DEF ReadPosition, ValidationInv
<1>2. CASE validator[v].snapshot \in Malformed
  BY <1>1, <1>2, IdleOK, StepPreserves DEF ReadPosition
<1>3. CASE validator[v].snapshot \notin Malformed
  <2>1. PICK record : record = [pc |-> "graph", snapshot |-> validator[v].snapshot, position |-> Position]
    OBVIOUS
  <2>2. CallOK(record, history, heads, checkpoint)
    BY <1>1, <2>1, WorldIsLatest, CheckpointPosition DEF CallOK
  <2>. QED
    BY <1>1, <1>3, <2>1, <2>2, StepPreserves DEF ReadPosition
<1>. QED
  BY <1>2, <1>3

LEMMA ReadGraphPreserves ==
    ASSUME ValidationInv, NEW v \in Validators, ReadGraph(v)
    PROVE  ValidationInv'
<1>1. validator[v].pc = "graph" /\ CallOK(validator[v], history, heads, checkpoint)
  BY DEF ReadGraph, ValidationInv
<1>2. PICK record : record = [pc |-> "heads", snapshot |-> validator[v].snapshot,
                              position |-> validator[v].position,
                              shared |-> Sharing(World, validator[v].snapshot)]
  OBVIOUS
<1>3. CallOK(record, history, heads, checkpoint)
  BY <1>1, <1>2, WorldIsLatest DEF CallOK, Fresh
<1>. QED
  BY <1>1, <1>2, <1>3, StepPreserves DEF ReadGraph

LEMMA ReadHeadsPreserves ==
    ASSUME ValidationInv, NEW v \in Validators, ReadHeads(v)
    PROVE  ValidationInv'
<1>1. validator[v].pc = "heads" /\ CallOK(validator[v], history, heads, checkpoint)
  BY DEF ReadHeads, ValidationInv
<1>2. PICK record : record = [pc |-> "checkpoint", snapshot |-> validator[v].snapshot,
                              position |-> validator[v].position, shared |-> validator[v].shared,
                              heads |-> heads]
  OBVIOUS
<1>3. CallOK(record, history, heads, checkpoint)
  BY <1>1, <1>2 DEF CallOK
<1>. QED
  BY <1>1, <1>2, <1>3, StepPreserves DEF ReadHeads

LEMMA ReadCheckpointPreserves ==
    ASSUME ValidationInv, NEW v \in Validators, ReadCheckpoint(v)
    PROVE  ValidationInv'
<1>1. validator[v].pc = "checkpoint" /\ CallOK(validator[v], history, heads, checkpoint)
  BY DEF ReadCheckpoint, ValidationInv
<1>2. PICK record : record = [pc |-> "subjects", snapshot |-> validator[v].snapshot,
                              position |-> validator[v].position, shared |-> validator[v].shared,
                              heads |-> validator[v].heads, checkpoint |-> checkpoint]
  OBVIOUS
<1>3. CallOK(record, history, heads, checkpoint)
  BY <1>1, <1>2 DEF CallOK
<1>. QED
  BY <1>1, <1>2, <1>3, StepPreserves DEF ReadCheckpoint

LEMMA ReadSubjectsPreserves ==
    ASSUME ValidationInv, NEW v \in Validators, ReadSubjects(v)
    PROVE  ValidationInv'
<1>1. validator[v].pc = "subjects" /\ CallOK(validator[v], history, heads, checkpoint)
  BY DEF ReadSubjects, ValidationInv
<1>2. PICK record : record = [pc |-> "bodies", snapshot |-> validator[v].snapshot,
                              position |-> validator[v].position, shared |-> validator[v].shared,
                              heads |-> validator[v].heads,
                              checkpoint |-> validator[v].checkpoint,
                              left |-> Live(World), found |-> {}]
  OBVIOUS
<1>3. BodiesOK(record, history)
  BY <1>2, WorldIsLatest DEF BodiesOK, Distinct, Judged
<1>4. CallOK(record, history, heads, checkpoint)
  BY <1>1, <1>2, <1>3 DEF CallOK
<1>. QED
  BY <1>1, <1>2, <1>4, StepPreserves DEF ReadSubjects

LEMMA ResultJudged ==
    ASSUME NEW s, NEW p, NEW body, NEW shared
    PROVE  /\ Result(s, p, body, shared).subject = s
           /\ Result(s, p, body, shared).valid <=> Result(s, p, body, shared).issues = {}
BY DEF Result

LEMMA BodyRecord ==
    ASSUME NEW job, NEW left, NEW found,
           job = [pc |-> "bodies", snapshot |-> job.snapshot, position |-> job.position,
                   shared |-> job.shared, heads |-> job.heads, checkpoint |-> job.checkpoint,
                   left |-> job.left, found |-> job.found]
    PROVE  [job EXCEPT !.left = left, !.found = found] =
             [pc |-> "bodies", snapshot |-> job.snapshot, position |-> job.position,
              shared |-> job.shared, heads |-> job.heads, checkpoint |-> job.checkpoint,
              left |-> left, found |-> found]
<1> DEFINE names == {"pc", "snapshot", "position", "shared", "heads", "checkpoint", "left", "found"}
           next == [job EXCEPT !.left = left, !.found = found]
<1>1. DOMAIN job = names
  OBVIOUS
<1>2. job.pc = "bodies"
  OBVIOUS
<1>3. next = [x \in names |-> next[x]]
  BY <1>1
<1>4. \A x \in names : next[x] = IF x = "left" THEN left ELSE IF x = "found" THEN found ELSE job[x]
  BY <1>1
<1>. HIDE DEF next
<1>5. next = [pc |-> "bodies", snapshot |-> job.snapshot, position |-> job.position,
              shared |-> job.shared, heads |-> job.heads, checkpoint |-> job.checkpoint,
              left |-> left, found |-> found]
  BY <1>2, <1>3, <1>4
<1>. QED
  BY <1>5 DEF next

LEMMA ReadBodyPreserves ==
    ASSUME ValidationInv, NEW v \in Validators, ReadBody(v)
    PROVE  ValidationInv'
<1>1. validator[v].pc = "bodies" /\ CallOK(validator[v], history, heads, checkpoint)
  BY DEF ReadBody, ValidationInv
<1>2. PICK job : job = validator[v]
  OBVIOUS
<1>3. BodiesOK(job, history) /\ CallOK(job, history, heads, checkpoint) /\ job.pc = "bodies"
  BY <1>1, <1>2 DEF CallOK
<1>4. PICK s : s \in job.left /\ s = CHOOSE x \in job.left : TRUE
  BY <1>2 DEF ReadBody
<1>5. PICK r : r = Result(s, job.snapshot, World.value[s], job.shared[s])
  OBVIOUS
<1>6. PICK record : record = [pc |-> "bodies", snapshot |-> job.snapshot, position |-> job.position,
                              shared |-> job.shared, heads |-> job.heads,
                              checkpoint |-> job.checkpoint,
                              left |-> job.left \ {s}, found |-> job.found \cup {r}]
  OBVIOUS
<1>7. record = [job EXCEPT !.left = @ \ {s}, !.found = @ \cup {r}]
  <2>1. PICK left, found : left = job.left \ {s} /\ found = job.found \cup {r}
    OBVIOUS
  <2>2. job = [pc |-> "bodies", snapshot |-> job.snapshot, position |-> job.position,
                shared |-> job.shared, heads |-> job.heads, checkpoint |-> job.checkpoint,
                left |-> job.left, found |-> job.found]
    BY <1>3 DEF BodiesOK
  <2>3. [job EXCEPT !.left = left, !.found = found] =
          [pc |-> "bodies", snapshot |-> job.snapshot, position |-> job.position,
           shared |-> job.shared, heads |-> job.heads, checkpoint |-> job.checkpoint,
           left |-> left, found |-> found]
    BY ONLY <2>2, BodyRecord
  <2>. QED
    BY <1>6, <2>1, <2>3
<1>8. r.subject = s /\ (r.valid <=> r.issues = {})
  BY <1>5, ResultJudged
<1>9. Distinct(record.found) /\ Judged(record.found) /\ \A q \in record.found : q.subject \notin record.left
  <2>1. \A q \in job.found : q.subject # s
    BY <1>3, <1>4 DEF BodiesOK
  <2>2. Distinct(job.found) /\ Judged(job.found) /\ \A q \in job.found : q.subject \notin job.left
    BY <1>3 DEF BodiesOK
  <2>. QED
    BY <1>6, <1>8, <2>1, <2>2 DEF Distinct, Judged
<1>10. ASSUME Fresh(job.snapshot, job.position, history)
       PROVE  /\ record.left \subseteq Live(Latest(history))
              /\ record.found = {TrueResult(Latest(history), t) : t \in Live(Latest(history)) \ record.left}
  <2>1. PICK w : w = Latest(history)
    OBVIOUS
  <2>2. job.shared = Sharing(w, w.target) /\ job.snapshot = w.target /\ World = w
    BY <1>3, <1>10, <2>1, WorldIsLatest DEF CallOK, Fresh
  <2>3. r = TrueResult(w, s)
    BY <1>5, <2>2 DEF TrueResult
  <2>4. job.left \subseteq Live(w) /\ job.found = {TrueResult(w, t) : t \in Live(w) \ job.left}
    BY <1>3, <1>10, <2>1 DEF BodiesOK
  <2>5. Live(w) \ record.left = (Live(w) \ job.left) \cup {s}
    BY <1>4, <1>6, <2>4
  <2>6. record.found = {TrueResult(w, t) : t \in Live(w) \ record.left}
    BY <1>6, <2>3, <2>4, <2>5
  <2>. QED
    BY <1>6, <2>1, <2>4, <2>6
<1>11. BodiesOK(record, history)
  <2>1. record.snapshot = job.snapshot /\ record.position = job.position
    BY <1>6
  <2>2. record = [pc |-> "bodies", snapshot |-> record.snapshot, position |-> record.position,
                  shared |-> record.shared, heads |-> record.heads, checkpoint |-> record.checkpoint,
                  left |-> record.left, found |-> record.found]
    BY <1>6
  <2>. QED
    BY <1>9, <1>10, <2>1, <2>2 DEF BodiesOK
<1>12. CallOK(record, history, heads, checkpoint)
  BY <1>3, <1>6, <1>11 DEF CallOK
<1>13. Step(v, record)
  BY <1>2, <1>4, <1>5, <1>7 DEF ReadBody
<1>. QED
  BY <1>1, <1>12, <1>13, StepPreserves

-----------------------------------------------------------------------------

\* The transaction writes the run of the job to the checkpoint, and its
\* results to the heads and to the record.
LEMMA CommitWrites ==
    ASSUME ValidationInv, NEW v \in Validators, Commit(v), TripleLive(validator[v])
    PROVE  /\ \E k \in checkpoint' : checkpoint' = {k} /\ k.run = Run(validator[v])
           /\ Projected(heads') = validator[v].found
           /\ results' = results \cup validator[v].found
<1>1. PICK job : job = validator[v]
  OBVIOUS
<1>2. job.pc = "bodies" /\ CallOK(job, history, heads, checkpoint)
  BY <1>1 DEF Commit, ValidationInv
<1>3. job.heads = heads /\ job.checkpoint = checkpoint /\ Distinct(job.found)
  BY <1>2 DEF CallOK, BodiesOK
<1>4. checkpoint = {} \/ \E k \in checkpoint : checkpoint = {k}
  BY DEF ValidationInv, CheckpointOK
<1>5. \E k \in checkpoint' : checkpoint' = {k} /\ k.run = Run(job)
  <2>1. CASE CheckpointIsCurrent(job)
    <3>1. checkpoint' = checkpoint
      BY <1>1, <2>1 DEF Commit
    <3>. QED
      BY <1>3, <1>4, <2>1, <3>1 DEF CheckpointIsCurrent
  <2>2. CASE ~CheckpointIsCurrent(job)
    <3>1. PICK k : k = [run |-> Run(job), by |-> <<v, runs>>]
      OBVIOUS
    <3>2. checkpoint' = (checkpoint \ job.checkpoint) \cup {k}
      BY <1>1, <2>2, <3>1 DEF Commit
    <3>3. checkpoint' = {k} /\ k.run = Run(job)
      BY <1>3, <3>1, <3>2
    <3>. QED
      BY <3>3
  <2>. QED
    BY <2>1, <2>2
<1>6. Projected(heads') = job.found
  <2>1. Distinct(Projected(heads))
    BY DEF ValidationInv, CheckpointOK, Distinct, Projected
  <2>2. PICK mark : mark = <<v, runs>>
    OBVIOUS
  <2>3. heads' = (job.heads \ RetractedHeads(job))
                    \cup {[result |-> r, by |-> mark] : r \in MovedResults(job)}
    BY <1>1, <1>3, <2>2 DEF Commit
  <2>. QED
    BY <1>3, <2>1, <2>3, HeadsAfter
<1>7. results' = results \cup job.found
  BY <1>1 DEF Commit, NewResults
<1>. QED
  BY <1>1, <1>5, <1>6, <1>7

LEMMA CommitPreserves ==
    ASSUME ValidationInv, NEW v \in Validators, Commit(v)
    PROVE  ValidationInv'
<1>1. PICK job : job = validator[v]
  OBVIOUS
<1>2. job.pc = "bodies" /\ CallOK(job, history, heads, checkpoint) /\ job.left = {}
  BY <1>1 DEF Commit, ValidationInv
<1>3. \A u \in Validators : u # v => validator[u].pc = "idle"
  BY <1>1, <1>2 DEF ValidationInv, OneCall
<1>4. validator' = [validator EXCEPT ![v] = IdleValidator] /\ UNCHANGED <<history, reader>>
  BY DEF Commit
<1>5. CASE ~TripleLive(job)
  <2>1. UNCHANGED <<heads, checkpoint, results>>
    BY <1>1, <1>5 DEF Commit
  <2>. QED
    BY <1>3, <1>4, <2>1, IdleOK, MovePreserves
<1>6. CASE TripleLive(job)
  <2>1. PICK k : checkpoint' = {k} /\ k.run = Run(job)
    BY <1>1, <1>6, CommitWrites
  <2>2. Projected(heads') = job.found /\ results' = results \cup job.found
    BY <1>1, <1>6, CommitWrites
  <2>3. /\ k.run.snapshot = job.snapshot
        /\ k.run.position = job.position
        /\ k.run.results = job.found
    BY <2>1 DEF Run
  <2>4. BodiesOK(job, history) /\ job.position \in 1..Len(history)
    BY <1>2 DEF CallOK
  <2>5. CheckpointOK(history', heads', checkpoint')
    <3>1. Fresh(job.snapshot, job.position, history) => job.found = TrueResults(Latest(history))
      BY <1>2, <2>4 DEF BodiesOK, TrueResults
    <3>2. k.run.position \in 1..Len(history') /\ Distinct(k.run.results) /\ k \in checkpoint'
      BY <1>4, <2>1, <2>3, <2>4 DEF BodiesOK
    <3>3. Fresh(k.run.snapshot, k.run.position, history') => k.run.results = TrueResults(Latest(history'))
      BY <1>4, <2>3, <3>1
    <3>. QED
      BY <2>1, <2>2, <2>3, <3>2, <3>3 DEF CheckpointOK
  <2>6. RecordOK(heads', results')
    <3>1. Judged(results) /\ Judged(job.found)
      BY <2>4 DEF ValidationInv, RecordOK, BodiesOK
    <3>. QED
      BY <2>2, <3>1 DEF RecordOK, Judged
  <2>7. ASSUME NEW u \in Validators PROVE validator'[u] = IdleValidator
    <3>1. u # v => validator[u] = IdleValidator
      BY <1>3 DEF ValidationInv, CallOK
    <3>. QED
      BY <1>4, <3>1 DEF ValidationInv, OneCall
  <2>8. validator' = [u \in Validators |-> validator'[u]]
    BY <1>4 DEF ValidationInv, OneCall
  <2>9. OneCall(validator')
    BY <2>7, <2>8 DEF OneCall, IdleValidator
  <2>10. ASSUME NEW u \in Validators PROVE CallOK(validator'[u], history', heads', checkpoint')
    BY <2>7, IdleOK
  <2>11. ReaderOK(reader, history, checkpoint', results')
    <3>1. Flagged(results) \subseteq Flagged(results')
      BY <2>2 DEF Flagged
    <3>2. ASSUME NEW j, Followed(j, history, checkpoint) PROVE Followed(j, history, checkpoint')
      <4>1. PICK c \in checkpoint :
                 /\ j.run.position <= c.run.position
                 /\ j.run.position = Len(history) => c.run = j.run \/ c.run.snapshot = Latest(history).target
        BY <3>2 DEF Followed
      <4>2. /\ j.run.position \in 1..Len(history)
            /\ c.run.position \in 1..Len(history)
            /\ c.run.position <= job.position
            /\ c.run.position = Len(history) => job.snapshot = Latest(history).target
        BY <1>2, <3>2, <4>1, CheckpointPosition DEF CallOK, Followed
      <4>3. j.run.position <= k.run.position
        BY <2>3, <2>4, <4>1, <4>2
      <4>4. j.run.position = Len(history) => k.run.snapshot = Latest(history).target
        BY <2>3, <2>4, <4>1, <4>2
      <4>. QED
        BY <2>1, <4>2, <4>3, <4>4 DEF Followed
    <3>3. ReaderOK(reader, history, checkpoint, results)
      BY DEF ValidationInv
    <3>. QED
      BY <3>1, <3>2, <3>3 DEF ReaderOK
  <2>. QED
    BY <1>4, <2>5, <2>6, <2>9, <2>10, <2>11 DEF ValidationInv
<1>. QED
  BY <1>5, <1>6

-----------------------------------------------------------------------------
(* The reads of currentInvalid. *)

LEMMA ReadPreserves ==
    ASSUME ValidationInv, UNCHANGED <<history, heads, checkpoint, results, validator, runs>>,
           ReaderOK(reader', history, checkpoint, results)
    PROVE  ValidationInv'
BY DEF ValidationInv

LEMMA AskCheckpointPreserves ==
    ASSUME ValidationInv, AskCheckpoint
    PROVE  ValidationInv'
<1>1. reader' = [pc |-> "ref", checkpoint |-> checkpoint]
  BY DEF AskCheckpoint
<1>2. \A k \in checkpoint : Followed(k, history, checkpoint)
  BY CheckpointPosition DEF Followed
<1>3. \A k, l \in checkpoint : k = l
  BY DEF ValidationInv, CheckpointOK
<1>4. ReaderOK(reader', history, checkpoint, results)
  BY <1>1, <1>2, <1>3 DEF ReaderOK
<1>. QED
  BY <1>4, ReadPreserves DEF AskCheckpoint

LEMMA AskRefPreserves ==
    ASSUME ValidationInv, AskRef
    PROVE  ValidationInv'
<1>1. reader' = [pc |-> "invalid", checkpoint |-> reader.checkpoint, target |-> World.target]
  BY DEF AskRef
<1>2. reader.pc = "ref" /\ ReaderOK(reader, history, checkpoint, results)
  BY DEF AskRef, ValidationInv
<1>3. ReaderOK(reader', history, checkpoint, results)
  BY <1>1, <1>2, WorldIsLatest DEF ReaderOK
<1>. QED
  BY <1>3, ReadPreserves DEF AskRef

LEMMA AskInvalidPreserves ==
    ASSUME ValidationInv, AskInvalid
    PROVE  ValidationInv'
<1>1. PICK invalid : invalid = {h.result.subject : h \in {g \in heads : ~g.result.valid}}
  OBVIOUS
<1>2. reader' = [pc |-> "position", checkpoint |-> reader.checkpoint, target |-> reader.target,
                 invalid |-> invalid]
  BY <1>1 DEF AskInvalid
<1>3. reader.pc = "invalid" /\ ReaderOK(reader, history, checkpoint, results)
  BY DEF AskInvalid, ValidationInv
<1>4. invalid \subseteq Flagged(results)
  <2>1. \A g \in heads : g.result \in results
    BY DEF ValidationInv, RecordOK, Projected
  <2>. QED
    BY <1>1, <2>1 DEF Flagged
<1>5. ASSUME NEW k \in reader.checkpoint
      PROVE  /\ k.run.position \in 1..Len(history)
             /\ Fresh(k.run.snapshot, k.run.position, history) /\ k.run.snapshot = reader.target =>
                   invalid = Invalid(Latest(history))
             /\ k.run.position = Len(history) => reader.target = Latest(history).target
  <2>1. Followed(k, history, checkpoint)
    BY <1>3 DEF ReaderOK
  <2>2. ASSUME Fresh(k.run.snapshot, k.run.position, history) PROVE invalid = Invalid(Latest(history))
    <3>1. PICK c \in checkpoint :
             /\ k.run.position <= c.run.position
             /\ k.run.position = Len(history) => c.run = k.run \/ c.run.snapshot = Latest(history).target
      BY <2>1 DEF Followed
    <3>2. c.run.position = Len(history) /\ c.run.snapshot = Latest(history).target
      BY <2>2, <3>1, CheckpointPosition DEF Fresh
    <3>3. Projected(heads) = TrueResults(Latest(history))
      BY <3>2 DEF ValidationInv, CheckpointOK, Fresh
    <3>. QED
      BY <1>1, <3>3, InvalidOfTrue
  <2>. QED
    BY <1>3, <2>1, <2>2 DEF Followed, ReaderOK
<1>6. ReaderOK(reader', history, checkpoint, results)
  BY <1>2, <1>3, <1>4, <1>5 DEF ReaderOK
<1>. QED
  BY <1>6, ReadPreserves DEF AskInvalid

LEMMA AnswerPreserves ==
    ASSUME ValidationInv, Answer
    PROVE  ValidationInv'
<1>1. reader.pc = "position" /\ ReaderOK(reader, history, checkpoint, results)
  BY DEF Answer, ValidationInv
<1>2. ReaderOK(reader', history, checkpoint, results)
  <2>1. CASE reader.checkpoint = {}
    <3>1. reader' = [pc |-> "answered", status |-> "unvalidated", invalid |-> {}, position |-> Position]
      BY <2>1 DEF Answer
    <3>. QED
      BY <3>1, WorldIsLatest DEF ReaderOK
  <2>2. CASE reader.checkpoint # {}
    <3>1. PICK k \in reader.checkpoint, l \in reader.checkpoint :
             reader' = [pc |-> "answered",
                        status |-> IF k.run.snapshot = reader.target /\ l.run.position = Position
                                     THEN "current" ELSE "stale",
                        invalid |-> reader.invalid, position |-> Position]
      BY <2>2 DEF Answer
    <3>2. k = l
      BY <1>1 DEF ReaderOK
    <3>3. k.run.snapshot = reader.target /\ l.run.position = Position => reader.invalid = Invalid(Latest(history))
      BY <1>1, <3>2, WorldIsLatest DEF ReaderOK, Fresh
    <3>4. history[Position] = Latest(history)
      BY WorldIsLatest DEF World, Position
    <3>5. reader.invalid \subseteq Flagged(results)
      BY <1>1 DEF ReaderOK
    <3>6. /\ reader'.pc = "answered" /\ reader'.position = Position /\ reader'.invalid = reader.invalid
          /\ reader'.status = "current" => k.run.snapshot = reader.target /\ l.run.position = Position
      BY <3>1
    <3>. QED
      BY <3>3, <3>4, <3>5, <3>6, WorldIsLatest DEF ReaderOK
  <2>. QED
    BY <2>1, <2>2
<1>. QED
  BY <1>2, ReadPreserves DEF Answer

-----------------------------------------------------------------------------

LEMMA ValidationInitially == ValidationInit => ValidationInv
<1> SUFFICES ASSUME ValidationInit PROVE ValidationInv
  OBVIOUS
<1>1. PICK w : w = [value |-> [x \in Subjects |-> Absent],
                    target |-> CHOOSE s \in Snapshots \ Malformed : TRUE]
  OBVIOUS
<1>2. w \in Worlds
  <2>1. w.target \in Snapshots
    BY <1>1, ValidationAssumption
  <2>. QED
    BY <1>1, <2>1 DEF Worlds
<1>3. history = <<w>>
  BY <1>1 DEF ValidationInit
<1>4. history \in Seq(Worlds) /\ Len(history) >= 1
  BY <1>2, <1>3
<1>5. CheckpointOK(history, heads, checkpoint) /\ RecordOK(heads, results)
  BY DEF ValidationInit, CheckpointOK, RecordOK, Projected, Judged
<1>6. OneCall(validator) /\ \A v \in Validators : CallOK(validator[v], history, heads, checkpoint)
  BY IdleOK DEF ValidationInit, OneCall, IdleValidator
<1>7. ReaderOK(reader, history, checkpoint, results)
  BY DEF ValidationInit, ReaderOK
<1>. QED
  BY <1>4, <1>5, <1>6, <1>7 DEF ValidationInv

LEMMA ValidationStep ==
    ASSUME ~Overlap
    PROVE  ValidationInv /\ [ValidationNext]_validationVars => ValidationInv'
<1> SUFFICES ASSUME ValidationInv, [ValidationNext]_validationVars PROVE ValidationInv'
  OBVIOUS
<1>1. CASE UNCHANGED validationVars
  BY <1>1 DEF ValidationInv, validationVars
<1>2. ASSUME NEW s \in Subjects, NEW x \in Values \cup {Absent}, WriteValue(s, x) PROVE ValidationInv'
  BY <1>2, WriteValuePreserves
<1>3. ASSUME NEW s \in Snapshots, Deploy(s) PROVE ValidationInv'
  BY <1>3, DeployPreserves
<1>4. ASSUME NEW v \in Validators,
             Begin(v) \/ ReadPosition(v) \/ ReadGraph(v) \/ ReadHeads(v) \/ ReadCheckpoint(v)
               \/ ReadSubjects(v) \/ ReadBody(v) \/ Commit(v)
      PROVE  ValidationInv'
  BY <1>4, BeginPreserves, ReadPositionPreserves, ReadGraphPreserves, ReadHeadsPreserves,
     ReadCheckpointPreserves, ReadSubjectsPreserves, ReadBodyPreserves, CommitPreserves
<1>5. ASSUME AskCheckpoint \/ AskRef \/ AskInvalid \/ Answer PROVE ValidationInv'
  BY <1>5, AskCheckpointPreserves, AskRefPreserves, AskInvalidPreserves, AnswerPreserves
<1>. QED
  BY <1>1, <1>2, <1>3, <1>4, <1>5 DEF ValidationNext

LEMMA ValidationImplies == ValidationInv => CurrentIsTrue
<1> SUFFICES ASSUME ValidationInv, reader.pc = "answered"
             PROVE  /\ reader.status = "current" => reader.invalid = Invalid(history[reader.position])
                    /\ reader.invalid \subseteq everInvalid
                    /\ \A s \in reader.invalid : violations(s) # {}
  BY DEF CurrentIsTrue
<1>1. /\ reader.status = "current" => reader.invalid = Invalid(history[reader.position])
      /\ reader.invalid \subseteq Flagged(results)
  BY DEF ValidationInv, ReaderOK
<1>2. everInvalid = Flagged(results)
  BY DEF everInvalid, Flagged
<1>3. ASSUME NEW s \in reader.invalid PROVE violations(s) # {}
  <2>1. PICK r \in results : ~r.valid /\ r.subject = s
    BY <1>1 DEF Flagged
  <2>2. PICK issue : issue \in r.issues
    BY <2>1 DEF ValidationInv, RecordOK, Judged
  <2>3. <<r, issue>> \in violations(s)
    BY <2>1, <2>2 DEF violations
  <2>. QED
    BY <2>3
<1>. QED
  BY <1>1, <1>2, <1>3

\* An answer of currentInvalid with status current lists exactly the
\* entities that are invalid at the position it names, under the
\* configuration deployed there, and every entity an answer lists has its
\* violations on record, for any numbers of entities, snapshots, writers and
\* runs, when the validations of a ref do not overlap.
THEOREM CurrentAnswersAreTrue ==
    ASSUME ~Overlap
    PROVE  ValidationSpec => []CurrentIsTrue
<1>1. ValidationInit => ValidationInv
  BY ValidationInitially
<1>2. ValidationInv /\ [ValidationNext]_validationVars => ValidationInv'
  BY ValidationStep
<1>3. ValidationInv => CurrentIsTrue
  BY ValidationImplies
<1>. QED
  BY <1>1, <1>2, <1>3, PTL DEF ValidationSpec

=============================================================================
