-------------------------- MODULE SnapshotsProofs --------------------------
(***************************************************************************)
(* Proofs about the SQL Triples service and the entity snapshots.          *)
(*                                                                         *)
(* Three invariants, one upon the other.  RowInv: a transaction under the  *)
(* lock on the counter writes rows at the next position and nobody else    *)
(* is writing.  JournalInv: the marks on the rows and the records of the   *)
(* journal tell the same history.  ProjectionInv: every snapshot, and      *)
(* every read about to become one, is the truth of a journaled position,   *)
(* and no commit changes the truth of an earlier one.                      *)
(***************************************************************************)
EXTENDS Snapshots, FiniteSetTheorems, WellFoundedInduction, TLAPS

-----------------------------------------------------------------------------
(* The rows and the calls that write them. *)

RequestOK(q) ==
    /\ q = [kind |-> q.kind, ops |-> q.ops, cmd |-> q.cmd, live |-> q.live,
            observe |-> q.observe, journal |-> q.journal]
    /\ q.ops \in Seq({q.ops[i] : i \in DOMAIN q.ops})
    /\ \A i \in DOMAIN q.ops : q.ops[i].op = "assert" => q.ops[i].fact \in Facts
    /\ \E t \in Templates : q.journal = t.journal

Unretracted(r) == r.retAt = Null /\ r.retPos = Null /\ r.retTx = Null

RowOK(r, n, m) ==
    /\ r = [id |-> r.id, e |-> r.e, a |-> r.a, v |-> r.v, from |-> r.from, to |-> r.to,
            recAt |-> r.recAt, recPos |-> r.recPos, tx |-> r.tx,
            retAt |-> r.retAt, retPos |-> r.retPos, retTx |-> r.retTx]
    /\ r.from \in Int /\ r.to \in Int
    /\ r.recAt \in Int /\ r.recPos \in 1..n /\ r.tx \in 1..m /\ r.id[1] = r.tx
    /\ \/ Unretracted(r)
       \/ r.retAt \in Int /\ r.retPos \in r.recPos..n /\ r.retTx \in 1..m

DistinctIds(rs) == \A r, q \in rs : r.id = q.id => r = q

RowsOK ==
    /\ position \in Nat /\ began \in Nat
    /\ IsFiniteSet(rows) /\ DistinctIds(rows)
    /\ \A r \in rows : RowOK(r, position, began)

\* An open transaction has written nothing yet that others see; its id is
\* its own, and while it holds the counter its position is the next one.
OpenOK(c) ==
    /\ c = [at |-> c.at, req |-> c.req, tx |-> c.tx, now |-> c.now, pos |-> c.pos,
            new |-> {}, gone |-> {}, changes |-> {}]
    /\ RequestOK(c.req) /\ c.tx \in 1..began /\ c.now \in Int
    /\ c.at = "run" => c.pos = position + 1
    /\ \A r \in rows : r.tx # c.tx

CallsOK ==
    /\ call = [w \in Writers |-> call[w]]
    /\ \A w \in Writers :
         /\ call[w].at \in {"idle", "claim", "position", "run", "committed"}
         /\ Open(w) => OpenOK(call[w])
    /\ \A v, w \in Writers : v # w =>
         /\ ~(Holds(v) /\ Holds(w))
         /\ Open(v) /\ Open(w) => call[v].tx # call[w].tx

PlansOK ==
    /\ plan = [w \in Writers |-> plan[w]]
    /\ \A w \in Writers :
         /\ plan[w].at \in {"none", "ready", "project", "failed"}
         /\ plan[w].at = "ready" => RequestOK(plan[w].req)
         /\ plan[w].at = "project" =>
              plan[w] = [at |-> "project", tx |-> plan[w].tx, time |-> plan[w].time,
                         todo |-> plan[w].todo, read |-> plan[w].read]

RowInv == RowsOK /\ CallsOK /\ PlansOK

\* What the operations so far have made of the call c0: rows of its own, and
\* rows that were live until it retracted them; changes lists them all.
Change(op, r) == [op |-> op, id |-> r.id, e |-> r.e, a |-> r.a]

NewOK(c) ==
    /\ IsFiniteSet(c.new) /\ DistinctIds(c.new)
    /\ \A r \in c.new :
         /\ RowOK(r, c.pos, c.tx) /\ Unretracted(r)
         /\ r.tx = c.tx /\ r.recPos = c.pos /\ r.recAt = c.now
         /\ \E k \in Nat : r.id = <<c.tx, k>> /\ k < Cardinality(c.new)

LoopOK(c, c0) ==
    /\ c = [at |-> c.at, req |-> c0.req, tx |-> c0.tx, now |-> c0.now, pos |-> c0.pos,
            new |-> c.new, gone |-> c.gone, changes |-> c.changes]
    /\ NewOK(c)
    /\ \A i \in c.gone : \E r \in rows \cup c.new : r.id = i /\ Unretracted(r)
    /\ c.changes = {Change("assert", r) : r \in c.new}
                   \cup {Change("retract", r) : r \in {q \in rows \cup c.new : q.id \in c.gone}}

-----------------------------------------------------------------------------
(* The journal and the rows say the same. *)

\* Every call is journaled: all but the checkpoint's own writes are.
Journaled == \A t \in Templates : t.journal

JournalOK ==
    /\ IsFiniteSet(journal)
    /\ \A j \in journal :
         /\ j = [tx |-> j.tx, pos |-> j.pos, at |-> j.at, changes |-> j.changes]
         /\ j.tx \in 1..began /\ j.pos \in 1..position /\ j.at \in Int
    /\ \A j, k \in journal : j.tx = k.tx \/ j.pos = k.pos => j = k
    /\ \A w \in Writers : Open(w) => \A j \in journal : j.tx # call[w].tx

Asserts(j, r) == j.tx = r.tx /\ j.pos = r.recPos /\ j.at = r.recAt /\ Change("assert", r) \in j.changes

Retracts(j, r) == j.tx = r.retTx /\ j.pos = r.retPos /\ j.at = r.retAt /\ Change("retract", r) \in j.changes

MarksOK ==
    /\ \A r \in rows : \E j \in journal : Asserts(j, r)
    /\ \A r \in rows : r.retPos # Null => \E j \in journal : Retracts(j, r)
    /\ \A j \in journal : \A ch \in j.changes : \E r \in rows :
         \/ ch = Change("assert", r) /\ r.recPos = j.pos
         \/ ch = Change("retract", r) /\ r.retPos = j.pos

JournalInv == JournalOK /\ MarksOK

-----------------------------------------------------------------------------
(* Projections. *)

SnapOK(s) ==
    /\ s = [e |-> s.e, tx |-> s.tx, pos |-> s.pos, time |-> s.time, state |-> s.state]
    /\ s.tx \in 1..began /\ s.time \in Int
    /\ s.state = [a \in DOMAIN s.state |-> s.state[a]]
    /\ \/ \E j \in journal : j.tx = s.tx /\ j.pos = s.pos /\ j.at = s.time /\ s.state = Truth(s.e, j.pos)
       \/ s.pos = Null /\ \A j \in journal : j.tx # s.tx

SnapsOK ==
    /\ IsFiniteSet(snaps)
    /\ \A s \in snaps : SnapOK(s)
    /\ \A s, q \in snaps : s.tx = q.tx => s.time = q.time /\ (s.e = q.e => s = q)
    /\ \A w \in Writers : Open(w) => \A s \in snaps : s.tx # call[w].tx

FillOK ==
    /\ fill.at \in {"none", "run"}
    /\ fill.at = "run" =>
         /\ fill = [at |-> "run", done |-> fill.done, tx |-> fill.tx, time |-> fill.time, todo |-> fill.todo]
         /\ fill.tx \in 1..began /\ fill.time \in Int
         /\ \A j \in journal : j.tx # fill.tx
         /\ \A s \in snaps : s.tx = fill.tx => s.time = fill.time
         /\ \A w \in Writers : Open(w) => fill.tx # call[w].tx

ReadOK(p) ==
    /\ p.read = [e |-> p.read.e, state |-> p.read.state] /\ p.read.e \in p.todo
    /\ p.read.state = [a \in DOMAIN p.read.state |-> p.read.state[a]]
    /\ \E j \in journal : j.tx = p.tx /\ p.read.state = Truth(p.read.e, j.pos)

ProjectOK(p, c) ==
    /\ c.at = "committed"
    /\ \E j \in journal : j.tx = p.tx /\ j.at = p.time
    /\ p.read # Null => ReadOK(p)
    /\ c.kind # "retractByPattern" => p.tx = c.tx /\ \A ch \in c.changes : ch.e \in p.todo \/ snapAt(ch.e, c.tx) # {}

ProjectionInv ==
    /\ SnapsOK /\ FillOK
    /\ \A w \in Writers :
         /\ plan[w].at = "project" => ProjectOK(plan[w], call[w])
         /\ call[w].at = "committed" => \E j \in journal : j.tx = call[w].tx /\ j.at = call[w].now

AllInv == RowInv /\ JournalInv /\ ProjectionInv

-----------------------------------------------------------------------------
(* Counting. *)

\* A set of numbers has a least one.
LEMMA LeastNumber ==
    ASSUME NEW S \in SUBSET Nat, S # {}
    PROVE  \E x \in S : \A y \in S : x <= y
<1> DEFINE T == {0..x : x \in S}
           R == StrictSubsetOrdering(Nat)
<1>1. IsWellFoundedOn(R, FiniteSubsetsOf(Nat))
  BY FS_StrictSubsetOrderingWellFounded
<1>2. T \subseteq FiniteSubsetsOf(Nat) /\ T # {}
  <2>1. \A x \in S : 0..x \subseteq Nat /\ IsFiniteSet(0..x)
    BY FS_Interval
  <2>. QED
    BY <2>1 DEF FiniteSubsetsOf
<1>3. PICK U \in T : \A V \in T : ~ (<<V, U>> \in R)
  BY <1>1, <1>2, WFMin
<1>4. PICK x \in S : U = 0..x
  BY <1>3
<1>5. ASSUME NEW y \in S, y < x PROVE FALSE
  <2>1. x \in 0..x /\ x \notin 0..y /\ 0..y \subseteq 0..x /\ 0..x \subseteq Nat
    BY <1>5
  <2>2. <<0..y, 0..x>> \in R
    BY <2>1 DEF StrictSubsetOrdering
  <2>. QED
    BY <1>3, <1>4, <2>2
<1>. QED
  BY <1>5

\* A set of numbers with 0 that contains the successor of each of its
\* members below n contains all numbers up to n.
LEMMA CountUp ==
    ASSUME NEW n \in Nat, NEW S, 0 \in S, \A i \in 1..n : i - 1 \in S => i \in S
    PROVE  \A i \in 0..n : i \in S
<1> DEFINE B == {i \in 0..n : i \notin S}
<1> SUFFICES ASSUME B # {} PROVE FALSE
  OBVIOUS
<1>1. B \in SUBSET Nat
  OBVIOUS
<1>2. PICK m \in B : \A y \in B : m <= y
  <2>. HIDE DEF B
  <2>. QED
    BY <1>1, LeastNumber
<1>3. m \in 1..n /\ m - 1 \in 0..n /\ m - 1 \notin B
  BY <1>2
<1>. QED
  BY <1>3

\* A finite set has an element of the greatest rank.
LEMMA GreatestRank ==
    ASSUME NEW S, IsFiniteSet(S), S # {}, NEW f, \A x \in S : f[x] \in Nat
    PROVE  \E m \in S : \A y \in S : f[m] >= f[y]
<1> DEFINE Above(x) == {y \in S : f[y] > f[x]}
           T == {Above(x) : x \in S}
           R == StrictSubsetOrdering(S)
<1>1. IsWellFoundedOn(R, FiniteSubsetsOf(S))
  BY FS_StrictSubsetOrderingWellFounded
<1>2. T \subseteq FiniteSubsetsOf(S) /\ T # {}
  <2>1. \A U : U \subseteq S => IsFiniteSet(U)
    BY FS_Subset
  <2>. QED
    BY <2>1 DEF FiniteSubsetsOf
<1>3. PICK U \in T : \A V \in T : ~ (<<V, U>> \in R)
  BY <1>1, <1>2, WFMin
<1>4. PICK x \in S : U = Above(x)
  BY <1>3
<1>5. ASSUME NEW y \in S, f[y] > f[x] PROVE FALSE
  <2>1. \A z \in S : f[z] > f[y] => f[z] > f[x]
    BY <1>5
  <2>2. Above(y) \subseteq Above(x) /\ y \in Above(x) /\ y \notin Above(y)
    BY <1>5, <2>1
  <2>3. <<Above(y), Above(x)>> \in R
    BY <2>2 DEF StrictSubsetOrdering
  <2>. QED
    BY <1>3, <1>4, <2>3
<1>. QED
  BY <1>5

\* A finite set of numbers has a greatest one.
LEMMA GreatestNumber ==
    ASSUME NEW S \in SUBSET Nat, IsFiniteSet(S), S # {}
    PROVE  \E m \in S : \A y \in S : y <= m
<1> DEFINE id == [x \in S |-> x]
<1>1. \A x \in S : id[x] = x /\ id[x] \in Nat
  OBVIOUS
<1> HIDE DEF id
<1>2. PICK m \in S : \A y \in S : id[m] >= id[y]
  BY <1>1, GreatestRank
<1>. QED
  BY <1>1, <1>2

-----------------------------------------------------------------------------
(* The operations of a transaction. *)

\* f is the loop over the operations of c.
Loop(f, n, c) ==
    f = [i \in 0..n |-> IF i = 0 THEN c ELSE ApplyOp(f[i - 1], c.req.ops[i])]

\* Operations follows its recursion.
LEMMA OperationsRun ==
    ASSUME NEW c, Len(c.req.ops) \in Nat
    PROVE  \E f : Loop(f, Len(c.req.ops), c) /\ Operations(c) = f[Len(c.req.ops)]
<1> DEFINE Runs(f, n) == f = [i \in 0..n |-> IF i = 0 THEN c ELSE ApplyOp(f[i - 1], c.req.ops[i])]
           S == {n \in Nat : \E f : Runs(f, n)}
<1>1. Len(c.req.ops) \in Nat
  OBVIOUS
<1>2. 0 \in S
  <2>1. PICK f : f = [i \in 0..0 |-> c]
    OBVIOUS
  <2>2. Runs(f, 0)
    BY <2>1
  <2>. QED
    BY <2>2
<1>3. ASSUME NEW n \in 1..Len(c.req.ops), n - 1 \in S PROVE n \in S
  <2>1. PICK f : Runs(f, n - 1)
    BY <1>3
  <2>2. PICK g : g = [i \in 0..n |-> IF i = n THEN ApplyOp(f[n - 1], c.req.ops[n]) ELSE f[i]]
    OBVIOUS
  <2>3. \A i \in 0..n : i # n => i \in 0..(n - 1) /\ g[i] = f[i]
    BY <1>1, <2>2
  <2>4. n \in 0..n /\ n # 0 /\ n - 1 \in 0..n /\ n - 1 # n
    BY <1>1
  <2>5. g[n] = ApplyOp(g[n - 1], c.req.ops[n])
    <3>1. g[n - 1] = f[n - 1]
      BY <2>3, <2>4
    <3>. QED
      BY <2>2, <2>4, <3>1
  <2>6. ASSUME NEW i \in 0..n, i # n
        PROVE  g[i] = IF i = 0 THEN c ELSE ApplyOp(g[i - 1], c.req.ops[i])
    <3>1. f[i] = IF i = 0 THEN c ELSE ApplyOp(f[i - 1], c.req.ops[i])
      BY <2>1, <2>3, <2>6
    <3>2. i # 0 => i - 1 \in 0..n /\ i - 1 # n
      BY <1>1, <2>6
    <3>. QED
      BY <2>3, <2>6, <3>1, <3>2
  <2>7. Runs(g, n)
    BY <2>2, <2>4, <2>5, <2>6
  <2>. QED
    BY <1>1, <2>7
<1>4. Len(c.req.ops) \in S
  <2>1. Len(c.req.ops) \in 0..Len(c.req.ops)
    BY <1>1
  <2>. HIDE DEF S
  <2>. QED
    BY <1>1, <1>2, <1>3, <2>1, CountUp
<1>5. \E f : Runs(f, Len(c.req.ops))
  BY <1>4
<1>. QED
  BY <1>5 DEF Operations, Loop

\* The call that holds the counter, and what its operations have made of it.
Holder(c0) == /\ OpenOK(c0) /\ c0.at = "run"

LEMMA HolderNumbers ==
    ASSUME RowsOK, NEW c0, Holder(c0)
    PROVE  /\ c0.pos = position + 1 /\ c0.pos \in Nat /\ c0.tx \in Nat /\ c0.tx <= began
           /\ c0.now \in Int /\ c0.pos # Null /\ c0.tx # Null /\ c0.now # Null
  BY SqlAssumption DEF RowsOK, Holder, OpenOK

\* Ids are distinct over the committed and the new rows.
LEMMA IdsDistinct ==
    ASSUME RowsOK, NEW c0, Holder(c0), NEW c, LoopOK(c, c0)
    PROVE  DistinctIds(rows \cup c.new)
<1>1. c.tx = c0.tx
  BY DEF LoopOK
<1>2. \A r \in rows : r.id[1] # c0.tx
  BY DEF RowsOK, RowOK, Holder, OpenOK
<1>3. \A r \in c.new : r.id[1] = c0.tx
  BY <1>1 DEF LoopOK, NewOK, RowOK
<1>4. DistinctIds(rows) /\ DistinctIds(c.new)
  BY DEF RowsOK, LoopOK, NewOK
<1>. QED
  BY <1>2, <1>3, <1>4 DEF DistinctIds

\* The live rows a transaction sees are the unretracted ones it has not
\* retracted itself.
LEMMA LiveRows ==
    ASSUME RowsOK, NEW c0, Holder(c0), NEW c, LoopOK(c, c0), NEW r \in Live(Overlay(c))
    PROVE  r \in rows \cup c.new /\ Unretracted(r) /\ r.id \notin c.gone
<1>1. c.pos = c0.pos /\ c.pos # Null
  BY HolderNumbers DEF LoopOK
<1>2. PICK q \in rows \cup c.new :
        r = IF q.id \in c.gone THEN [q EXCEPT !.retAt = c.now, !.retPos = c.pos, !.retTx = c.tx] ELSE q
  BY DEF Live, Overlay
<1>3. r.retPos = Null
  BY DEF Live
<1>4. q.retPos = Null => Unretracted(q)
  <2>1. CASE q \in rows
    BY <2>1, SqlAssumption DEF RowsOK, RowOK, Unretracted
  <2>2. CASE q \in c.new
    BY <2>2 DEF LoopOK, NewOK
  <2>. QED
    BY <2>1, <2>2
<1>5. q.id \notin c.gone
  <2>. SUFFICES ASSUME q.id \in c.gone PROVE FALSE
    OBVIOUS
  <2>1. r = [q EXCEPT !.retAt = c.now, !.retPos = c.pos, !.retTx = c.tx]
    BY <1>2
  <2>2. q = [id |-> q.id, e |-> q.e, a |-> q.a, v |-> q.v, from |-> q.from, to |-> q.to,
            recAt |-> q.recAt, recPos |-> q.recPos, tx |-> q.tx,
            retAt |-> q.retAt, retPos |-> q.retPos, retTx |-> q.retTx]
    BY DEF RowsOK, RowOK, LoopOK, NewOK
  <2>3. r.retPos = c.pos
    BY <2>1, <2>2
  <2>. QED
    BY <1>1, <1>3, <2>3
<1>6. r = q
  BY <1>2, <1>5
<1>. QED
  BY <1>3, <1>4, <1>5, <1>6

Fields == {"at", "req", "tx", "now", "pos", "new", "gone", "changes"}

\* Retracting live rows keeps the loop's invariant.
LEMMA RetractRowsOK ==
    ASSUME RowsOK, NEW c0, Holder(c0), NEW c, LoopOK(c, c0), NEW rs, rs \subseteq Live(Overlay(c))
    PROVE  LoopOK(RetractRows(c, rs), c0) /\ RetractRows(c, rs).at = c.at
<1>1. PICK d : d = RetractRows(c, rs)
  OBVIOUS
<1>2. PICK g : g = c.gone \cup {r.id : r \in rs}
  OBVIOUS
<1>3. PICK h : h = c.changes \cup {Change("retract", r) : r \in rs}
  OBVIOUS
<1>4. d = [c EXCEPT !.gone = g, !.changes = h]
  BY <1>1, <1>2, <1>3 DEF RetractRows, Change
<1>5. c = [at |-> c.at, req |-> c0.req, tx |-> c0.tx, now |-> c0.now, pos |-> c0.pos,
           new |-> c.new, gone |-> c.gone, changes |-> c.changes]
  BY DEF LoopOK
<1>6. d = [at |-> c.at, req |-> c0.req, tx |-> c0.tx, now |-> c0.now, pos |-> c0.pos,
           new |-> c.new, gone |-> g, changes |-> h]
  <2>1. DOMAIN c = Fields
    BY <1>5 DEF Fields
  <2>2. d = [x \in Fields |-> d[x]]
    BY <1>4, <2>1
  <2>3. /\ d.at = c.at /\ d.req = c.req /\ d.tx = c.tx /\ d.now = c.now /\ d.pos = c.pos
        /\ d.new = c.new /\ d.gone = g /\ d.changes = h
    BY <1>4, <2>1 DEF Fields
  <2>4. c.req = c0.req /\ c.tx = c0.tx /\ c.now = c0.now /\ c.pos = c0.pos
    BY <1>5
  <2>. QED
    BY <2>2, <2>3, <2>4 DEF Fields
<1>7. /\ d.at = c.at /\ d.new = c.new /\ d.gone = g /\ d.changes = h
      /\ d.pos = c0.pos /\ d.tx = c0.tx /\ d.now = c0.now
      /\ c.pos = c0.pos /\ c.tx = c0.tx /\ c.now = c0.now
  BY <1>5, <1>6
<1>8. \A r \in rs : r \in rows \cup c.new /\ Unretracted(r) /\ r.id \notin c.gone
  BY LiveRows
<1>9. NewOK(d)
  BY <1>7 DEF LoopOK, NewOK
<1>10. \A i \in d.gone : \E r \in rows \cup d.new : r.id = i /\ Unretracted(r)
  BY <1>2, <1>7, <1>8 DEF LoopOK
<1>11. {q \in rows \cup c.new : q.id \in g} = {q \in rows \cup c.new : q.id \in c.gone} \cup rs
  <2>1. \A q \in rows \cup c.new : q.id \in {r.id : r \in rs} => q \in rs
    BY <1>8, IdsDistinct DEF DistinctIds
  <2>. QED
    BY <1>2, <1>8, <2>1
<1>12. d.changes = {Change("assert", r) : r \in d.new}
                   \cup {Change("retract", r) : r \in {q \in rows \cup d.new : q.id \in d.gone}}
  <2>1. c.changes = {Change("assert", r) : r \in c.new}
                    \cup {Change("retract", r) : r \in {q \in rows \cup c.new : q.id \in c.gone}}
    BY DEF LoopOK
  <2>2. PICK A : A = {q \in rows \cup c.new : q.id \in c.gone}
    OBVIOUS
  <2>3. {Change("retract", r) : r \in A \cup rs}
          = {Change("retract", r) : r \in A} \cup {Change("retract", r) : r \in rs}
    OBVIOUS
  <2>. QED
    BY <1>3, <1>7, <1>11, <2>1, <2>2, <2>3
<1>. QED
  BY <1>1, <1>6, <1>7, <1>9, <1>10, <1>12 DEF LoopOK

\* So does inserting a row.
LEMMA InsertOK ==
    ASSUME RowsOK, NEW c0, Holder(c0), NEW c, LoopOK(c, c0), NEW op, op.fact \in Facts
    PROVE  LoopOK(flushAssertBatch(c, op), c0) /\ flushAssertBatch(c, op).at = c.at
<1>1. PICK d : d = flushAssertBatch(c, op)
  OBVIOUS
<1>2. PICK row : row = insert(c, op.fact)
  OBVIOUS
<1>3. PICK n : n = c.new \cup {row}
  OBVIOUS
<1>4. PICK h : h = c.changes \cup {Change("assert", row)}
  OBVIOUS
<1>5. d = [c EXCEPT !.new = n, !.changes = h]
  BY <1>1, <1>2, <1>3, <1>4 DEF flushAssertBatch, Change
<1>6. c = [at |-> c.at, req |-> c0.req, tx |-> c0.tx, now |-> c0.now, pos |-> c0.pos,
           new |-> c.new, gone |-> c.gone, changes |-> c.changes]
  BY DEF LoopOK
<1>7. d = [at |-> c.at, req |-> c0.req, tx |-> c0.tx, now |-> c0.now, pos |-> c0.pos,
           new |-> n, gone |-> c.gone, changes |-> h]
  <2>1. DOMAIN c = Fields
    BY <1>6 DEF Fields
  <2>2. d = [x \in Fields |-> d[x]]
    BY <1>5, <2>1
  <2>3. /\ d.at = c.at /\ d.req = c.req /\ d.tx = c.tx /\ d.now = c.now /\ d.pos = c.pos
        /\ d.new = n /\ d.gone = c.gone /\ d.changes = h
    BY <1>5, <2>1 DEF Fields
  <2>4. c.req = c0.req /\ c.tx = c0.tx /\ c.now = c0.now /\ c.pos = c0.pos
    BY <1>6
  <2>. QED
    BY <2>2, <2>3, <2>4 DEF Fields
<1>8. /\ d.at = c.at /\ d.new = n /\ d.gone = c.gone /\ d.changes = h
      /\ d.pos = c0.pos /\ d.tx = c0.tx /\ d.now = c0.now
      /\ c.pos = c0.pos /\ c.tx = c0.tx /\ c.now = c0.now
  BY <1>6, <1>7
<1>9. c0.pos \in Nat /\ c0.pos >= 1 /\ c0.tx \in Nat /\ c0.tx >= 1 /\ c0.now \in Int
  BY HolderNumbers DEF RowsOK, Holder, OpenOK
<1>10. PICK k : k = Cardinality(c.new)
  OBVIOUS
<1>11. IsFiniteSet(c.new) /\ k \in Nat
  BY <1>10, FS_CardinalityType DEF LoopOK, NewOK
<1>12. /\ row.id = <<c0.tx, k>> /\ row.e = op.fact.e /\ row.a = op.fact.a
       /\ row.tx = c0.tx /\ row.recPos = c0.pos /\ row.recAt = c0.now
       /\ Unretracted(row)
  BY <1>2, <1>8, <1>10 DEF insert, Unretracted
<1>13. RowOK(row, c0.pos, c0.tx)
  <2>1. row.from \in Int /\ row.to \in Int
    BY <1>2, <1>8, <1>9, SqlAssumption DEF insert
  <2>2. row.id[1] = c0.tx
    BY <1>12
  <2>3. row = [id |-> row.id, e |-> row.e, a |-> row.a, v |-> row.v, from |-> row.from, to |-> row.to,
            recAt |-> row.recAt, recPos |-> row.recPos, tx |-> row.tx,
            retAt |-> row.retAt, retPos |-> row.retPos, retTx |-> row.retTx]
    BY <1>2 DEF insert
  <2>. QED
    BY <1>9, <1>12, <2>1, <2>2, <2>3 DEF RowOK
<1>14. \A r \in c.new : r.id # row.id
  <2>1. \A r \in c.new : \E i \in Nat : r.id = <<c0.tx, i>> /\ i < k
    BY <1>8, <1>10 DEF LoopOK, NewOK
  <2>. QED
    BY <1>11, <1>12, <2>1
<1>15. row \notin c.new
  BY <1>14
<1>16. IsFiniteSet(n) /\ Cardinality(n) = k + 1
  BY <1>3, <1>10, <1>11, <1>15, FS_AddElement
<1>17. NewOK(d)
  <2>1. DistinctIds(n)
    BY <1>3, <1>14 DEF LoopOK, NewOK, DistinctIds
  <2>2. \A r \in c.new :
         /\ RowOK(r, c0.pos, c0.tx) /\ Unretracted(r)
         /\ r.tx = c0.tx /\ r.recPos = c0.pos /\ r.recAt = c0.now
         /\ \E i \in Nat : r.id = <<c0.tx, i>> /\ i < k
    BY <1>8, <1>10 DEF LoopOK, NewOK
  <2>3. \A r \in n : \E i \in Nat : r.id = <<c0.tx, i>> /\ i < k + 1
    BY <1>3, <1>11, <1>12, <2>2
  <2>4. \A r \in n : RowOK(r, c0.pos, c0.tx) /\ Unretracted(r)
                     /\ r.tx = c0.tx /\ r.recPos = c0.pos /\ r.recAt = c0.now
    BY <1>3, <1>12, <1>13, <2>2
  <2>. QED
    BY <1>8, <1>16, <2>1, <2>3, <2>4 DEF NewOK
<1>18. \A i \in d.gone : \E r \in rows \cup d.new : r.id = i /\ Unretracted(r)
  BY <1>3, <1>8 DEF LoopOK
<1>19. row.id \notin c.gone
  <2>1. \A r \in rows : r.id # row.id
    <3>1. \A r \in rows : r.id[1] # c0.tx
      BY DEF RowsOK, RowOK, Holder, OpenOK
    <3>. QED
      BY <1>12, <3>1
  <2>. QED
    BY <1>14, <2>1 DEF LoopOK
<1>20. {q \in rows \cup n : q.id \in c.gone} = {q \in rows \cup c.new : q.id \in c.gone}
  BY <1>3, <1>19
<1>21. d.changes = {Change("assert", r) : r \in d.new}
                   \cup {Change("retract", r) : r \in {q \in rows \cup d.new : q.id \in d.gone}}
  <2>1. c.changes = {Change("assert", r) : r \in c.new}
                    \cup {Change("retract", r) : r \in {q \in rows \cup c.new : q.id \in c.gone}}
    BY DEF LoopOK
  <2>2. {Change("assert", r) : r \in n} = {Change("assert", r) : r \in c.new} \cup {Change("assert", row)}
    BY <1>3
  <2>. QED
    BY <1>4, <1>8, <1>20, <2>1, <2>2
<1>. QED
  BY <1>1, <1>7, <1>8, <1>17, <1>18, <1>21 DEF LoopOK

\* Every operation keeps it.
LEMMA ApplyOpOK ==
    ASSUME RowsOK, NEW c0, Holder(c0), NEW c, LoopOK(c, c0), NEW op,
           op.op = "assert" => op.fact \in Facts
    PROVE  LoopOK(ApplyOp(c, op), c0)
<1>1. CASE c.at = "conflict"
  BY <1>1 DEF ApplyOp
<1>2. CASE c.at # "conflict" /\ op.op = "assert"
  BY <1>2, InsertOK DEF ApplyOp
<1>3. CASE c.at # "conflict" /\ op.op = "retract"
  <2>1. PICK hit : hit = {r \in Live(Overlay(c)) : r.id = op.id}
    OBVIOUS
  <2>2. hit \subseteq Live(Overlay(c))
    BY <2>1
  <2>3. LoopOK(RetractRows(c, hit), c0)
    BY <2>2, RetractRowsOK
  <2>4. LoopOK([c EXCEPT !.at = "conflict"], c0)
    <3>1. PICK d : d = [c EXCEPT !.at = "conflict"]
      OBVIOUS
    <3>2. c = [at |-> c.at, req |-> c0.req, tx |-> c0.tx, now |-> c0.now, pos |-> c0.pos,
           new |-> c.new, gone |-> c.gone, changes |-> c.changes]
      BY DEF LoopOK
    <3>3. d = [at |-> "conflict", req |-> c0.req, tx |-> c0.tx, now |-> c0.now, pos |-> c0.pos,
           new |-> c.new, gone |-> c.gone, changes |-> c.changes]
      BY <3>1, <3>2
    <3>4. /\ d.at = "conflict" /\ d.new = c.new /\ d.gone = c.gone /\ d.changes = c.changes
          /\ d.pos = c.pos /\ d.tx = c.tx /\ d.now = c.now
      BY <3>2, <3>3
    <3>5. NewOK(d)
      BY <3>4 DEF LoopOK, NewOK
    <3>. QED
      BY <3>1, <3>3, <3>4, <3>5 DEF LoopOK
  <2>5. ApplyOp(c, op) = RetractOne(c, op)
    BY <1>3 DEF ApplyOp
  <2>. QED
    BY <2>1, <2>3, <2>4, <2>5 DEF RetractOne
<1>4. CASE c.at # "conflict" /\ op.op # "assert" /\ op.op # "retract"
  <2>1. query(Live(Overlay(c)), op.pattern) \subseteq Live(Overlay(c))
    BY DEF query
  <2>. QED
    BY <1>4, <2>1, RetractRowsOK DEF ApplyOp
<1>. QED
  BY <1>1, <1>2, <1>3, <1>4

\* And so all of them together.
LEMMA OperationsOK ==
    ASSUME RowsOK, NEW c0, Holder(c0)
    PROVE  LoopOK(Operations(c0), c0)
<1> DEFINE n == Len(c0.req.ops)
<1>1. RequestOK(c0.req)
  BY DEF Holder, OpenOK
<1>2. n \in Nat /\ DOMAIN c0.req.ops = 1..n
  BY <1>1 DEF RequestOK
<1>3. PICK f : Loop(f, n, c0) /\ Operations(c0) = f[n]
  BY <1>2, OperationsRun
<1>4. LoopOK(c0, c0)
  <2>1. c0 = [at |-> c0.at, req |-> c0.req, tx |-> c0.tx, now |-> c0.now, pos |-> c0.pos,
              new |-> {}, gone |-> {}, changes |-> {}]
    BY DEF Holder, OpenOK
  <2>2. c0.new = {} /\ c0.gone = {} /\ c0.changes = {}
    BY <2>1
  <2>3. NewOK(c0)
    BY <2>2, FS_EmptySet DEF NewOK, DistinctIds
  <2>. QED
    BY <2>1, <2>2, <2>3 DEF LoopOK
<1> DEFINE S == {i \in 0..n : LoopOK(f[i], c0)}
<1>5. 0 \in S
  BY <1>2, <1>3, <1>4 DEF Loop
<1>6. ASSUME NEW i \in 1..n, i - 1 \in S PROVE i \in S
  <2>1. f[i] = ApplyOp(f[i - 1], c0.req.ops[i])
    <3>1. f = [k \in 0..n |-> IF k = 0 THEN c0 ELSE ApplyOp(f[k - 1], c0.req.ops[k])]
      BY <1>3 DEF Loop
    <3>2. i \in 0..n /\ i # 0
      BY <1>2
    <3>. HIDE DEF n
    <3>. QED
      BY <3>1, <3>2
  <2>2. c0.req.ops[i].op = "assert" => c0.req.ops[i].fact \in Facts
    BY <1>1, <1>2 DEF RequestOK
  <2>3. LoopOK(f[i - 1], c0)
    BY <1>6
  <2>4. LoopOK(ApplyOp(f[i - 1], c0.req.ops[i]), c0)
    BY <2>2, <2>3, ApplyOpOK
  <2>. QED
    BY <1>2, <2>1, <2>4
<1>7. n \in S
  <2>1. n \in 0..n
    BY <1>2
  <2>. HIDE DEF S, n
  <2>. QED
    BY <1>2, <1>5, <1>6, <2>1, CountUp
<1>. QED
  BY <1>3, <1>7

-----------------------------------------------------------------------------
(* What a commit makes of the rows. *)

SameFact(q, r) ==
    /\ q = [id |-> r.id, e |-> r.e, a |-> r.a, v |-> r.v, from |-> r.from, to |-> r.to,
            recAt |-> r.recAt, recPos |-> r.recPos, tx |-> r.tx,
            retAt |-> q.retAt, retPos |-> q.retPos, retTx |-> q.retTx]

\* The row r after the transaction c.
Became(q, r, c) ==
    /\ SameFact(q, r)
    /\ r.id \in c.gone => Unretracted(r) /\ q.retAt = c.now /\ q.retPos = c.pos /\ q.retTx = c.tx
    /\ r.id \notin c.gone => q = r

RowFields == {"id", "e", "a", "v", "from", "to", "recAt", "recPos", "tx", "retAt", "retPos", "retTx"}

Mark(r, x, y, z) == [r EXCEPT !.retAt = x, !.retPos = y, !.retTx = z]

LEMMA MarkedRow ==
    ASSUME NEW r, NEW n, NEW m, RowOK(r, n, m), NEW x, NEW y, NEW z,
           NEW q, q = Mark(r, x, y, z)
    PROVE  SameFact(q, r) /\ q.retAt = x /\ q.retPos = y /\ q.retTx = z
<1>1. r = [id |-> r.id, e |-> r.e, a |-> r.a, v |-> r.v, from |-> r.from, to |-> r.to,
            recAt |-> r.recAt, recPos |-> r.recPos, tx |-> r.tx,
            retAt |-> r.retAt, retPos |-> r.retPos, retTx |-> r.retTx]
  BY DEF RowOK
<1>2. DOMAIN r = RowFields
  BY <1>1 DEF RowFields
<1>3. q = [f \in RowFields |-> q[f]]
  BY <1>2 DEF Mark
<1>4. /\ q.id = r.id /\ q.e = r.e /\ q.a = r.a /\ q.v = r.v /\ q.from = r.from /\ q.to = r.to
      /\ q.recAt = r.recAt /\ q.recPos = r.recPos /\ q.tx = r.tx
      /\ q.retAt = x /\ q.retPos = y /\ q.retTx = z
  BY <1>2 DEF RowFields, Mark
<1>. QED
  BY <1>3, <1>4 DEF RowFields, SameFact

LEMMA OverlayRows ==
    ASSUME RowsOK, NEW c0, Holder(c0), NEW c, LoopOK(c, c0)
    PROVE  /\ \A q \in Overlay(c) : \E r \in rows \cup c.new : Became(q, r, c)
           /\ \A r \in rows \cup c.new : \E q \in Overlay(c) : Became(q, r, c)
<1>1. ASSUME NEW r \in rows \cup c.new, NEW q,
             q = IF r.id \in c.gone THEN [r EXCEPT !.retAt = c.now, !.retPos = c.pos, !.retTx = c.tx] ELSE r
      PROVE  Became(q, r, c)
  <2>1. PICK n, m : RowOK(r, n, m)
    BY DEF RowsOK, LoopOK, NewOK
  <2>2. CASE r.id \in c.gone
    <3>1. PICK x, y, z : x = c.now /\ y = c.pos /\ z = c.tx
      OBVIOUS
    <3>2. q = Mark(r, x, y, z)
      BY <1>1, <2>2, <3>1 DEF Mark
    <3>3. SameFact(q, r) /\ q.retAt = x /\ q.retPos = y /\ q.retTx = z
      BY ONLY <2>1, <3>2, MarkedRow
    <3>4. Unretracted(r)
      BY <2>2, IdsDistinct DEF LoopOK, DistinctIds
    <3>. QED
      BY <2>2, <3>1, <3>3, <3>4 DEF Became
  <2>3. CASE r.id \notin c.gone
    <3>1. q = r
      BY <1>1, <2>3
    <3>2. SameFact(q, r)
      BY <2>1, <3>1 DEF SameFact, RowOK
    <3>. QED
      BY <2>3, <3>1, <3>2 DEF Became
  <2>. QED
    BY <2>2, <2>3
<1>2. ASSUME NEW q \in Overlay(c) PROVE \E r \in rows \cup c.new : Became(q, r, c)
  <2>1. PICK r \in rows \cup c.new :
          q = IF r.id \in c.gone THEN [r EXCEPT !.retAt = c.now, !.retPos = c.pos, !.retTx = c.tx] ELSE r
    BY DEF Overlay
  <2>. QED
    BY <2>1, <1>1
<1>3. ASSUME NEW r \in rows \cup c.new PROVE \E q \in Overlay(c) : Became(q, r, c)
  <2>1. PICK q :
          q = IF r.id \in c.gone THEN [r EXCEPT !.retAt = c.now, !.retPos = c.pos, !.retTx = c.tx] ELSE r
    OBVIOUS
  <2>2. q \in Overlay(c)
    BY <2>1 DEF Overlay
  <2>. QED
    BY <2>1, <2>2, <1>1
<1>. QED
  BY <1>2, <1>3

LEMMA FiniteImage ==
    ASSUME NEW S, IsFiniteSet(S), NEW f
    PROVE  IsFiniteSet({f[x] : x \in S})
<1>1. PICK T : T = {f[x] : x \in S}
  OBVIOUS
<1>2. PICK g : g = [x \in S |-> f[x]]
  OBVIOUS
<1>3. g \in Surjection(S, T)
  BY <1>1, <1>2 DEF Surjection
<1>4. IsFiniteSet(T)
  BY <1>3, FS_Surjection
<1>. QED
  BY <1>1, <1>4

\* The committed rows are as sound as the ones they come from.
LEMMA CommittedRowsOK ==
    ASSUME RowsOK, NEW c0, Holder(c0), NEW c, LoopOK(c, c0),
           rows' = Overlay(c), position' = c.pos, began' = began
    PROVE  RowsOK' /\ \A q \in rows' : (\E r \in rows : r.tx = q.tx) \/ q.tx = c0.tx
<1>1. /\ c.pos = position + 1 /\ c.tx = c0.tx /\ c.now = c0.now /\ c.now \in Int
      /\ c.tx \in 1..began /\ position \in Nat /\ began \in Nat
  BY HolderNumbers DEF LoopOK, RowsOK, Holder, OpenOK
<1>2. IsFiniteSet(rows')
  <2>1. IsFiniteSet(rows \cup c.new)
    BY FS_Union DEF RowsOK, LoopOK, NewOK
  <2>2. PICK U : U = rows \cup c.new
    OBVIOUS
  <2>3. PICK f : f = [r \in U |->
          IF r.id \in c.gone THEN [r EXCEPT !.retAt = c.now, !.retPos = c.pos, !.retTx = c.tx] ELSE r]
    OBVIOUS
  <2>4. Overlay(c) = {f[r] : r \in U}
    <3>1. \A r \in U : f[r] = IF r.id \in c.gone
                              THEN [r EXCEPT !.retAt = c.now, !.retPos = c.pos, !.retTx = c.tx] ELSE r
      BY <2>3
    <3>. QED
      BY <2>2, <3>1, Zenon DEF Overlay
  <2>. QED
    BY <2>1, <2>2, <2>4, FiniteImage
<1>3. DistinctIds(rows')
  <2>1. ASSUME NEW p \in Overlay(c), NEW q \in Overlay(c), p.id = q.id PROVE p = q
    <3>1. PICK r \in rows \cup c.new : Became(p, r, c)
      BY OverlayRows
    <3>2. PICK s \in rows \cup c.new : Became(q, s, c)
      BY OverlayRows
    <3>3. p.id = r.id /\ q.id = s.id
      BY <3>1, <3>2 DEF Became, SameFact
    <3>4. r = s
      BY <2>1, <3>3, IdsDistinct DEF DistinctIds
    <3>5. CASE r.id \in c.gone
      BY <3>1, <3>2, <3>4, <3>5 DEF Became, SameFact
    <3>6. CASE r.id \notin c.gone
      BY <3>1, <3>2, <3>4, <3>6 DEF Became
    <3>. QED
      BY <3>5, <3>6
  <2>. QED
    BY <2>1 DEF DistinctIds
<1>4. ASSUME NEW q \in Overlay(c)
      PROVE  RowOK(q, c.pos, began) /\ ((\E r \in rows : r.tx = q.tx) \/ q.tx = c0.tx)
  <2>1. PICK r \in rows \cup c.new : Became(q, r, c)
    BY OverlayRows
  <2>2. /\ r.from \in Int /\ r.to \in Int /\ r.recAt \in Int /\ r.recPos \in 1..c.pos
        /\ r.tx \in 1..began /\ r.id[1] = r.tx
        /\ \/ Unretracted(r)
           \/ r.retAt \in Int /\ r.retPos \in r.recPos..c.pos /\ r.retTx \in 1..began
        /\ r \in rows \/ r.tx = c0.tx
    <3>1. CASE r \in rows
      <4>1. RowOK(r, position, began)
        BY <3>1 DEF RowsOK
      <4>2. 1..position \subseteq 1..c.pos
        BY <1>1
      <4>3. r.recPos \in 1..position
        BY <4>1 DEF RowOK
      <4>4. r.recPos..position \subseteq r.recPos..c.pos
        BY <1>1, <4>3
      <4>. QED
        BY <3>1, <4>1, <4>2, <4>4 DEF RowOK
    <3>2. CASE r \in c.new
      <4>1. RowOK(r, c.pos, c.tx) /\ Unretracted(r) /\ r.tx = c.tx
        BY <3>2 DEF LoopOK, NewOK
      <4>. QED
        BY <1>1, <4>1 DEF RowOK
    <3>. QED
      BY <3>1, <3>2
  <2>3. /\ q.from = r.from /\ q.to = r.to /\ q.recAt = r.recAt /\ q.recPos = r.recPos
        /\ q.tx = r.tx /\ q.id = r.id
        /\ q = [id |-> q.id, e |-> q.e, a |-> q.a, v |-> q.v, from |-> q.from, to |-> q.to,
                recAt |-> q.recAt, recPos |-> q.recPos, tx |-> q.tx,
                retAt |-> q.retAt, retPos |-> q.retPos, retTx |-> q.retTx]
    BY <2>1 DEF Became, SameFact
  <2>4. \/ Unretracted(q)
        \/ q.retAt \in Int /\ q.retPos \in q.recPos..c.pos /\ q.retTx \in 1..began
    <3>1. CASE r.id \in c.gone
      <4>1. q.retAt = c.now /\ q.retPos = c.pos /\ q.retTx = c.tx
        BY <2>1, <3>1 DEF Became
      <4>2. c.pos \in r.recPos..c.pos
        BY <1>1, <2>2
      <4>. QED
        BY <1>1, <2>3, <4>1, <4>2
    <3>2. CASE r.id \notin c.gone
      BY <2>1, <2>2, <3>2 DEF Became
    <3>. QED
      BY <3>1, <3>2
  <2>. QED
    BY <2>2, <2>3, <2>4 DEF RowOK
<1>. QED
  BY <1>1, <1>2, <1>3, <1>4 DEF RowsOK

-----------------------------------------------------------------------------
(* Requests are well formed. *)

LEMMA TemplateOK ==
    ASSUME NEW t \in Templates
    PROVE  RequestOK(t)
BY SqlAssumption DEF RequestOK

ReqFields == {"kind", "ops", "cmd", "live", "observe", "journal"}

LEMMA RequestsOK ==
    ASSUME NEW q \in Requests
    PROVE  RequestOK(q) /\ RequestOK(Observed(q))
<1>1. RequestOK(q)
  <2>1. CASE q \in Templates
    BY <2>1, TemplateOK
  <2>2. CASE q \notin Templates
    <3>1. PICK t \in Templates, r \in rows :
            q = [t EXCEPT !.ops = [i \in DOMAIN t.ops |->
                   IF t.ops[i].op = "retract" THEN [op |-> "retract", id |-> r.id] ELSE t.ops[i]]]
      BY <2>2 DEF Requests
    <3>2. PICK os : os = [i \in DOMAIN t.ops |->
                   IF t.ops[i].op = "retract" THEN [op |-> "retract", id |-> r.id] ELSE t.ops[i]]
      OBVIOUS
    <3>3. RequestOK(t)
      BY TemplateOK
    <3>4. q = [t EXCEPT !.ops = os]
      BY <3>1, <3>2
    <3>5. q = [kind |-> t.kind, ops |-> os, cmd |-> t.cmd, live |-> t.live,
               observe |-> t.observe, journal |-> t.journal]
      BY <3>3, <3>4 DEF RequestOK
    <3>6. q.ops = os /\ q.journal = t.journal
      BY <3>5
    <3>7. os \in Seq({os[i] : i \in DOMAIN os})
      <4>1. PICK n \in Nat : DOMAIN t.ops = 1..n
        BY <3>3 DEF RequestOK
      <4>2. DOMAIN os = 1..n /\ os = [i \in 1..n |-> os[i]]
        BY <3>2, <4>1
      <4>. QED
        BY <4>2
    <3>8. \A i \in DOMAIN os : os[i].op = "assert" => os[i].fact \in Facts
      <4>1. ASSUME NEW i \in DOMAIN os, os[i].op = "assert" PROVE os[i].fact \in Facts
        <5>1. i \in DOMAIN t.ops
          BY <3>2
        <5>2. t.ops[i].op = "retract" => os[i].op = "retract"
          BY <3>2, <5>1
        <5>3. os[i] = t.ops[i]
          BY <3>2, <4>1, <5>1, <5>2
        <5>. QED
          BY <3>3, <4>1, <5>1, <5>3 DEF RequestOK
      <4>. QED
        BY <4>1
    <3>. QED
      BY <3>5, <3>6, <3>7, <3>8 DEF RequestOK
  <2>. QED
    BY <2>1, <2>2
<1>2. RequestOK(Observed(q))
  <2>1. CASE q.observe = Null
    BY <1>1, <2>1 DEF Observed
  <2>2. CASE q.observe # Null
    <3>1. PICK o : Observed(q) = [q EXCEPT !.observe = o]
      BY <2>2 DEF Observed
    <3>2. Observed(q) = [kind |-> q.kind, ops |-> q.ops, cmd |-> q.cmd, live |-> q.live,
               observe |-> o, journal |-> q.journal]
      BY <1>1, <3>1 DEF RequestOK
    <3>3. PICK z : z = Observed(q)
      OBVIOUS
    <3>4. z.kind = q.kind /\ z.ops = q.ops /\ z.cmd = q.cmd /\ z.live = q.live /\ z.observe = o /\ z.journal = q.journal
      BY <3>2, <3>3
    <3>5. z = [kind |-> z.kind, ops |-> z.ops, cmd |-> z.cmd, live |-> z.live,
               observe |-> z.observe, journal |-> z.journal]
      BY <3>2, <3>3, <3>4
    <3>6. RequestOK(z)
      BY <1>1, <3>4, <3>5 DEF RequestOK
    <3>. QED
      BY <3>3, <3>6
  <2>. QED
    BY <2>1, <2>2
<1>. QED
  BY <1>1, <1>2

-----------------------------------------------------------------------------
(* The invariant of rows and calls. *)

OpenStage == {"claim", "position", "run"}

\* A change of one call that leaves the committed rows alone.
LEMMA CallMoves ==
    ASSUME RowsOK, CallsOK, NEW w \in Writers, NEW k, call' = [call EXCEPT ![w] = k],
           rows' = rows, position' = position, began' \in Nat, began' >= began,
           k.at \in {"idle", "claim", "position", "run", "committed"},
           k.at \in OpenStage => OpenOK(k)',
           \A v \in Writers \ {w} : k.at \in OpenStage /\ Open(v) =>
               k.tx # call[v].tx /\ ~(k.at = "run" /\ Holds(v))
    PROVE  RowsOK' /\ CallsOK'
<1>1. RowsOK'
  <2>1. \A r \in rows : RowOK(r, position, began')
    BY DEF RowsOK, RowOK
  <2>. QED
    BY <2>1 DEF RowsOK
<1>2. call' = [v \in Writers |-> call'[v]] /\ call'[w] = k /\ \A v \in Writers \ {w} : call'[v] = call[v]
  BY DEF CallsOK
<1>3. ASSUME NEW v \in Writers \ {w} PROVE Open(v) => OpenOK(call[v])'
  <2>1. call[v]' = call[v]
    BY <1>2
  <2>2. Open(v) => OpenOK(call[v])
    BY DEF CallsOK
  <2>. QED
    BY <2>1, <2>2 DEF OpenOK, RowsOK
<1>4. ASSUME NEW v \in Writers
      PROVE  /\ call'[v].at \in {"idle", "claim", "position", "run", "committed"}
             /\ Open(v)' => OpenOK(call[v])'
  <2>1. CASE v = w
    BY <1>2, <2>1 DEF Open, OpenStage
  <2>2. CASE v # w
    BY <1>2, <1>3, <2>2 DEF Open, CallsOK
  <2>. QED
    BY <2>1, <2>2
<1>5. ASSUME NEW u \in Writers, NEW v \in Writers, u # v
      PROVE  ~(Holds(u)' /\ Holds(v)') /\ (Open(u)' /\ Open(v)' => call'[u].tx # call'[v].tx)
  <2>1. CASE u # w /\ v # w
    BY <1>2, <1>5, <2>1 DEF Open, Holds, CallsOK
  <2>2. CASE u = w
    BY <1>2, <1>5, <2>2 DEF Open, Holds, OpenStage
  <2>3. CASE v = w
    BY <1>2, <1>5, <2>3 DEF Open, Holds, OpenStage
  <2>. QED
    BY <2>1, <2>2, <2>3
<1>. QED
  BY <1>1, <1>2, <1>4, <1>5 DEF CallsOK

LEMMA CallEnds ==
    ASSUME RowsOK, CallsOK, NEW w \in Writers, call' = [call EXCEPT ![w] = Idle],
           rows' = rows, position' = position, began' = began
    PROVE  RowsOK' /\ CallsOK'
<1>1. PICK k : k = Idle
  OBVIOUS
<1>2. k.at = "idle" /\ call' = [call EXCEPT ![w] = k]
  BY <1>1 DEF Idle
<1>3. k.at \notin OpenStage
  BY <1>2 DEF OpenStage
<1>4. began' \in Nat /\ began' >= began
  BY DEF RowsOK
<1>. QED
  BY <1>2, <1>3, <1>4, CallMoves

LEMMA CallsStay ==
    ASSUME RowsOK, CallsOK, call' = call, rows' = rows, position' = position,
           began' \in Nat, began' >= began
    PROVE  RowsOK' /\ CallsOK'
<1>1. RowsOK'
  <2>1. \A r \in rows : RowOK(r, position, began')
    BY DEF RowsOK, RowOK
  <2>. QED
    BY <2>1 DEF RowsOK
<1>2. \A v \in Writers : Open(v) => OpenOK(call[v])'
  BY DEF CallsOK, OpenOK, RowsOK
<1>. QED
  BY <1>1, <1>2 DEF CallsOK, Open, Holds

PlanOK(p) ==
    /\ p.at \in {"none", "ready", "project", "failed"}
    /\ p.at = "ready" => RequestOK(p.req)
    /\ p.at = "project" => p = [at |-> "project", tx |-> p.tx, time |-> p.time, todo |-> p.todo, read |-> p.read]

LEMMA PlanMoves ==
    ASSUME PlansOK, NEW w \in Writers, NEW p, PlanOK(p), plan' = [plan EXCEPT ![w] = p]
    PROVE  PlansOK'
<1>1. plan' = [v \in Writers |-> plan'[v]] /\ plan'[w] = p /\ \A v \in Writers \ {w} : plan'[v] = plan[v]
  BY DEF PlansOK
<1>2. \A v \in Writers : PlanOK(plan'[v])
  BY <1>1 DEF PlansOK, PlanOK
<1>. QED
  BY <1>1, <1>2 DEF PlansOK, PlanOK

\* The plan of a call that ended is dropped, any other is kept.
LEMMA PlanKept ==
    ASSUME PlansOK, NEW w \in Writers,
           plan' = [plan EXCEPT ![w] = IF call'[w] = Idle THEN NoPlan ELSE @]
    PROVE  PlansOK'
<1>1. PICK p : p = IF call'[w] = Idle THEN NoPlan ELSE plan[w]
  OBVIOUS
<1>2. PlanOK(p)
  BY <1>1 DEF PlansOK, PlanOK, NoPlan
<1>3. plan' = [plan EXCEPT ![w] = p]
  BY <1>1
<1>. QED
  BY <1>2, <1>3, PlanMoves

LEMMA BeginRows ==
    ASSUME RowsOK, CallsOK, NEW w \in Writers, NEW req, RequestOK(req), NEW now \in Instants, Begin(w, req, now)
    PROVE  RowsOK' /\ CallsOK'
<1>1. CASE validatePreconditions(req)
  <2>1. PICK k : k = [at |-> "claim", req |-> req, tx |-> began + 1, now |-> now, pos |-> 0,
                      new |-> {}, gone |-> {}, changes |-> {}]
    OBVIOUS
  <2>2. /\ call' = [call EXCEPT ![w] = k] /\ began' = began + 1 /\ rows' = rows /\ position' = position
        /\ journal' = journal
    BY <1>1, <2>1 DEF Begin
  <2>3. began \in Nat /\ now \in Int
    BY SqlAssumption DEF RowsOK
  <2>4. k.at = "claim" /\ k.tx = began + 1 /\ k.req = req /\ k.now = now
    BY <2>1
  <2>5. OpenOK(k)'
    <3>1. \A r \in rows : r.tx \in Int /\ r.tx <= began
      BY <2>3 DEF RowsOK, RowOK
    <3>2. k = [at |-> k.at, req |-> k.req, tx |-> k.tx, now |-> k.now, pos |-> k.pos,
               new |-> {}, gone |-> {}, changes |-> {}]
      BY <2>1
    <3>3. \A r \in rows : r.tx # k.tx
      BY <2>3, <2>4, <3>1
    <3>4. k.tx \in 1..began' /\ k.now \in Int
      BY <2>2, <2>3, <2>4
    <3>. QED
      BY <2>2, <2>4, <3>2, <3>3, <3>4 DEF OpenOK
  <2>6. \A v \in Writers \ {w} : Open(v) => k.tx # call[v].tx
    <3>1. \A v \in Writers : Open(v) => call[v].tx \in Int /\ call[v].tx <= began
      BY <2>3 DEF CallsOK, OpenOK
    <3>. QED
      BY <2>3, <2>4, <3>1
  <2>7. k.at # "run" /\ began' \in Nat /\ began' >= began
    BY <2>2, <2>3, <2>4
  <2>. QED
    BY <2>2, <2>4, <2>5, <2>6, <2>7, CallMoves
<1>2. CASE ~validatePreconditions(req)
  <2>1. call' = [call EXCEPT ![w] = Idle] /\ rows' = rows /\ position' = position /\ began' = began
    BY <1>2 DEF Begin, Rollback
  <2>. QED
    BY <2>1, CallEnds
<1>. QED
  BY <1>1, <1>2

LEMMA ClaimRows ==
    ASSUME RowsOK, CallsOK, NEW w \in Writers, Claim(w)
    PROVE  RowsOK' /\ CallsOK'
<1>0. call[w].at = "claim" /\ rows' = rows /\ position' = position /\ began' = began
  BY DEF Claim
<1>1. CASE \E r \in receipts : r[1] = call[w].req.cmd
  BY <1>0, <1>1, CallEnds DEF Claim, Rollback
<1>2. CASE ~ \E r \in receipts : r[1] = call[w].req.cmd
  <2>1. call' = [call EXCEPT ![w].at = "position"]
    BY <1>2 DEF Claim
  <2>2. OpenOK(call[w]) /\ Open(w)
    BY <1>0 DEF CallsOK, Open
  <2>3. PICK c : c = call[w]
    OBVIOUS
  <2>4. PICK k : k = [c EXCEPT !.at = "position"]
    OBVIOUS
  <2>5. call' = [call EXCEPT ![w] = k]
    BY <2>1, <2>3, <2>4
  <2>6. c = [at |-> c.at, req |-> c.req, tx |-> c.tx, now |-> c.now, pos |-> c.pos,
            new |-> {}, gone |-> {}, changes |-> {}]
    BY <2>2, <2>3 DEF OpenOK
  <2>7. k = [at |-> "position", req |-> c.req, tx |-> c.tx, now |-> c.now, pos |-> c.pos,
            new |-> {}, gone |-> {}, changes |-> {}]
    BY <2>4, <2>6
  <2>8. k.at = "position" /\ k.req = c.req /\ k.tx = c.tx /\ k.now = c.now
    BY <2>7
  <2>9. OpenOK(k)'
    BY <1>0, <2>2, <2>3, <2>7, <2>8 DEF OpenOK
  <2>10. \A v \in Writers \ {w} : Open(v) => k.tx # call[v].tx
    BY <2>2, <2>3, <2>8 DEF CallsOK
  <2>11. began' \in Nat /\ began' >= began /\ k.at # "run"
    BY <1>0, <2>8 DEF RowsOK
  <2>. QED
    BY <1>0, <2>5, <2>8, <2>9, <2>10, <2>11, CallMoves
<1>. QED
  BY <1>1, <1>2

LEMMA PositionRows ==
    ASSUME RowsOK, CallsOK, NEW w \in Writers, nextCommitPosition(w)
    PROVE  RowsOK' /\ CallsOK'
<1>1. /\ call[w].at = "position" /\ rows' = rows /\ position' = position /\ began' = began
      /\ \A v \in Writers : ~Holds(v)
      /\ call' = [call EXCEPT ![w].at = "run", ![w].pos = position + 1]
  BY DEF nextCommitPosition, CounterFree
<1>2. OpenOK(call[w]) /\ Open(w)
  BY <1>1 DEF CallsOK, Open
<1>3. PICK c : c = call[w]
  OBVIOUS
<1>4. PICK p : p = position + 1
  OBVIOUS
<1>5. PICK k : k = [c EXCEPT !.at = "run", !.pos = p]
  OBVIOUS
<1>6. call' = [call EXCEPT ![w] = k]
  BY <1>1, <1>3, <1>4, <1>5 DEF CallsOK
<1>7. c = [at |-> c.at, req |-> c.req, tx |-> c.tx, now |-> c.now, pos |-> c.pos,
            new |-> {}, gone |-> {}, changes |-> {}]
  BY <1>2, <1>3 DEF OpenOK
<1>8. k = [at |-> "run", req |-> c.req, tx |-> c.tx, now |-> c.now, pos |-> p,
            new |-> {}, gone |-> {}, changes |-> {}]
  <2>1. DOMAIN c = Fields
    BY <1>7 DEF Fields
  <2>2. k = [x \in Fields |-> k[x]]
    BY <1>5, <2>1
  <2>3. /\ k.at = "run" /\ k.req = c.req /\ k.tx = c.tx /\ k.now = c.now /\ k.pos = p
        /\ k.new = c.new /\ k.gone = c.gone /\ k.changes = c.changes
    BY <1>5, <2>1 DEF Fields
  <2>4. c.new = {} /\ c.gone = {} /\ c.changes = {}
    BY <1>7
  <2>. QED
    BY <2>2, <2>3, <2>4 DEF Fields
<1>9. k.at = "run" /\ k.req = c.req /\ k.tx = c.tx /\ k.now = c.now /\ k.pos = p
  BY <1>8
<1>10. OpenOK(k)'
  BY <1>1, <1>2, <1>3, <1>4, <1>8, <1>9 DEF OpenOK
<1>11. \A v \in Writers \ {w} : Open(v) => k.tx # call[v].tx
  BY <1>2, <1>3, <1>9 DEF CallsOK
<1>12. began' \in Nat /\ began' >= began
  BY <1>1 DEF RowsOK
<1>13. k.at \in {"idle", "claim", "position", "run", "committed"}
  BY <1>9
<1>14. \A v \in Writers \ {w} : k.at \in OpenStage /\ Open(v) =>
               k.tx # call[v].tx /\ ~(k.at = "run" /\ Holds(v))
  BY <1>1, <1>11
<1>15. rows' = rows /\ position' = position
  BY <1>1
<1>. QED
  BY <1>6, <1>10, <1>12, <1>13, <1>14, <1>15, CallMoves

\* What Run does when it commits: c is what the operations made of the call.
Commits(w, c) ==
    /\ Holder(call[w]) /\ LoopOK(c, call[w])
    /\ rows' = Overlay(c) /\ position' = c.pos /\ began' = began
    /\ journal' = journal \cup metadataInputs(c)
    /\ call' = [call EXCEPT ![w] = Outcome(c)]

LEMMA RunCases ==
    ASSUME RowsOK, CallsOK, NEW w \in Writers, Run(w)
    PROVE  \/ Commits(w, Operations(call[w]))
           \/ /\ call' = [call EXCEPT ![w] = Idle]
              /\ UNCHANGED <<rows, position, journal, began>>
<1>1. Holder(call[w])
  BY DEF Run, CallsOK, Open, Holder
<1>2. LoopOK(Operations(call[w]), call[w])
  BY <1>1, OperationsOK
<1>3. CASE ObservedState(w) /\ Operations(call[w]).at # "conflict"
  BY <1>1, <1>2, <1>3 DEF Run, Commits
<1>4. CASE ~(ObservedState(w) /\ Operations(call[w]).at # "conflict")
  BY <1>4 DEF Run, Rollback
<1>. QED
  BY <1>3, <1>4

LEMMA CommitRowsAndCalls ==
    ASSUME RowsOK, CallsOK, NEW w \in Writers, NEW c, Commits(w, c)
    PROVE  RowsOK' /\ CallsOK'
<1>1. PICK c0 : c0 = call[w]
  OBVIOUS
<1>2. /\ Holder(c0) /\ LoopOK(c, c0) /\ rows' = Overlay(c) /\ position' = c.pos /\ began' = began
      /\ call' = [call EXCEPT ![w] = Outcome(c)]
  BY <1>1 DEF Commits
<1>3. RowsOK' /\ \A q \in rows' : (\E r \in rows : r.tx = q.tx) \/ q.tx = c0.tx
  BY <1>2, CommittedRowsOK
<1>4. PICK k : k = Outcome(c)
  OBVIOUS
<1>5. k.at \in {"idle", "committed"}
  BY <1>4 DEF Outcome, Idle
<1>6. call' = [v \in Writers |-> call'[v]] /\ call'[w] = k /\ \A v \in Writers \ {w} : call'[v] = call[v]
  BY <1>2, <1>4 DEF CallsOK
<1>7. Holds(w) /\ Open(w)
  BY <1>1, <1>2 DEF Holder, Holds, Open
<1>8. ASSUME NEW v \in Writers \ {w}, Open(v) PROVE OpenOK(call[v])'
  <2>1. PICK d : d = call[v]
    OBVIOUS
  <2>2. OpenOK(d) /\ d.tx # c0.tx /\ d.at # "run"
    BY <1>1, <1>7, <1>8, <2>1 DEF CallsOK, Holds
  <2>3. \A q \in rows' : q.tx # d.tx
    BY <1>3, <2>2 DEF OpenOK
  <2>4. OpenOK(d)'
    BY <1>2, <2>2, <2>3 DEF OpenOK
  <2>5. call[v]' = d
    BY <1>6, <2>1
  <2>. QED
    BY <2>4, <2>5 DEF OpenOK
<1>9. ASSUME NEW v \in Writers
      PROVE  /\ call'[v].at \in {"idle", "claim", "position", "run", "committed"}
             /\ Open(v)' => OpenOK(call[v])'
  <2>1. CASE v = w
    BY <1>5, <1>6, <2>1 DEF Open
  <2>2. CASE v # w
    BY <1>6, <1>8, <2>2 DEF Open, CallsOK
  <2>. QED
    BY <2>1, <2>2
<1>10. ASSUME NEW u \in Writers, NEW v \in Writers, u # v
       PROVE  ~(Holds(u)' /\ Holds(v)') /\ (Open(u)' /\ Open(v)' => call'[u].tx # call'[v].tx)
  <2>1. CASE u # w /\ v # w
    BY <1>6, <1>10, <2>1 DEF Open, Holds, CallsOK
  <2>2. CASE u = w \/ v = w
    BY <1>5, <1>6, <1>10, <2>2 DEF Open, Holds
  <2>. QED
    BY <2>1, <2>2
<1>. QED
  BY <1>3, <1>6, <1>9, <1>10 DEF CallsOK

LEMMA TransactRows ==
    ASSUME RowsOK, CallsOK, NEW w \in Writers, TransactStep(w)
    PROVE  RowsOK' /\ CallsOK'
<1>1. CASE Claim(w)
  BY <1>1, ClaimRows
<1>2. CASE nextCommitPosition(w)
  BY <1>2, PositionRows
<1>3. CASE Run(w)
  <2>1. CASE Commits(w, Operations(call[w]))
    <3>1. PICK c : c = Operations(call[w])
      OBVIOUS
    <3>2. Commits(w, c)
      BY <2>1, <3>1
    <3>. QED
      BY <3>2, CommitRowsAndCalls
  <2>2. CASE call' = [call EXCEPT ![w] = Idle] /\ UNCHANGED <<rows, position, journal, began>>
    BY <2>2, CallEnds
  <2>. QED
    BY <1>3, <2>1, <2>2, RunCases
<1>4. CASE Abort(w)
  BY <1>4, CallEnds DEF Abort, Rollback
<1>. QED
  BY <1>1, <1>2, <1>3, <1>4 DEF TransactStep

\* The invariant of the rows holds initially.
LEMMA RowInit ==
    Init => RowInv
<1> SUFFICES ASSUME Init PROVE RowInv
  OBVIOUS
<1>1. rows = {} /\ position = 0 /\ began = 0 /\ call = [w \in Writers |-> Idle]
      /\ plan = [w \in Writers |-> NoPlan]
  BY DEF Init, SqlInit
<1>2. RowsOK
  BY <1>1, FS_EmptySet DEF RowsOK, DistinctIds
<1>3. \A w \in Writers : call[w].at = "idle" /\ plan[w].at = "none"
  BY <1>1 DEF Idle, NoPlan
<1>4. CallsOK
  BY <1>1, <1>3 DEF CallsOK, Open, Holds
<1>5. PlansOK
  BY <1>1, <1>3 DEF PlansOK
<1>. QED
  BY <1>2, <1>4, <1>5 DEF RowInv

\* Every step preserves the invariant of the rows.
LEMMA RowNext ==
    RowInv /\ [Next]_vars => RowInv'
<1> SUFFICES ASSUME RowInv, [Next]_vars PROVE RowInv'
  OBVIOUS
<1>0. RowsOK /\ CallsOK /\ PlansOK /\ began \in Nat
  BY DEF RowInv, RowsOK
<1>1. ASSUME NEW w \in Writers, NEW t \in Requests, NEW now \in Instants, Read(w, Observed(t), now)
      PROVE  RowInv'
  <2>1. PICK req : req = Observed(t)
    OBVIOUS
  <2>2. RequestOK(req)
    BY <2>1, RequestsOK
  <2>3. Read(w, req, now)
    BY <1>1, <2>1
  <2>4. PICK an, en : plan' = [plan EXCEPT ![w] = [at |-> "ready", req |-> req, anchor |-> an, ents |-> en]]
    <3>1. CASE req.kind = "retractByPattern"
      BY <2>3, <3>1 DEF Read
    <3>2. CASE req.kind # "retractByPattern"
      BY <2>3, <3>2 DEF Read
    <3>. QED
      BY <3>1, <3>2
  <2>5. PICK p : p = [at |-> "ready", req |-> req, anchor |-> an, ents |-> en]
    OBVIOUS
  <2>6. PlanOK(p)
    BY <2>2, <2>5 DEF PlanOK
  <2>7. PlansOK'
    BY <1>0, <2>4, <2>5, <2>6, PlanMoves
  <2>8. UNCHANGED <<rows, position, began, call>>
    BY <2>3 DEF Read, svars
  <2>9. RowsOK' /\ CallsOK'
    BY <1>0, <2>8, CallsStay
  <2>. QED
    BY <2>7, <2>9 DEF RowInv
<1>2. ASSUME NEW w \in Writers, NEW now \in Instants, Write(w, now) PROVE RowInv'
  <2>1. CASE /\ plan[w].at = "ready"
             /\ Begin(w, plan[w].req, now)
             /\ plan' = [plan EXCEPT ![w] = IF call'[w] = Idle THEN NoPlan ELSE @]
    <3>1. PICK req : req = plan[w].req
      OBVIOUS
    <3>2. RequestOK(req)
      BY <1>0, <2>1, <3>1 DEF PlansOK
    <3>3. RowsOK' /\ CallsOK'
      BY <1>0, <2>1, <3>1, <3>2, BeginRows
    <3>. QED
      BY <1>0, <2>1, <3>3, PlanKept DEF RowInv
  <2>2. ASSUME NEW req \in Templates, plan[w].at = "none", Begin(w, req, now),
               plan' = [plan EXCEPT ![w] = IF call'[w] = Idle THEN NoPlan
                                ELSE [at |-> "ready", req |-> req, anchor |-> Null, ents |-> {}]]
        PROVE  RowInv'
    <3>1. RequestOK(req)
      BY TemplateOK
    <3>2. RowsOK' /\ CallsOK'
      BY <1>0, <2>2, <3>1, BeginRows
    <3>3. PICK p : p = IF call'[w] = Idle THEN NoPlan
                       ELSE [at |-> "ready", req |-> req, anchor |-> Null, ents |-> {}]
      OBVIOUS
    <3>4. PlanOK(p)
      <4>1. CASE call'[w] = Idle
        BY <3>3, <4>1 DEF PlanOK, NoPlan
      <4>2. CASE call'[w] # Idle
        BY <3>1, <3>3, <4>2 DEF PlanOK
      <4>. QED
        BY <4>1, <4>2
    <3>5. PlansOK'
      BY <1>0, <2>2, <3>3, <3>4, PlanMoves
    <3>. QED
      BY <3>2, <3>5 DEF RowInv
  <2>. QED
    BY <1>2, <2>1, <2>2 DEF Write
<1>3. ASSUME NEW w \in Writers, Working(w) PROVE RowInv'
  <2>1. RowsOK' /\ CallsOK'
    BY <1>0, <1>3, TransactRows DEF Working
  <2>2. PlansOK'
    BY <1>0, <1>3, PlanKept DEF Working
  <2>. QED
    BY <2>1, <2>2 DEF RowInv
<1>4. ASSUME NEW w \in Writers, NEW p, PlanOK(p), plan' = [plan EXCEPT ![w] = p],
             UNCHANGED <<rows, position, began, call>>
      PROVE  RowInv'
  <2>1. RowsOK' /\ CallsOK'
    BY <1>0, <1>4, CallsStay
  <2>2. PlansOK'
    BY <1>0, <1>4, PlanMoves
  <2>. QED
    BY <2>1, <2>2 DEF RowInv
<1>5. \A tx, time, ents : PlanOK([at |-> "project", tx |-> tx, time |-> time, todo |-> ents, read |-> Null])
  BY DEF PlanOK
<1>6. PlanOK([at |-> "failed"])
  BY DEF PlanOK
<1>7. ASSUME NEW w \in Writers, AfterCommit(w) PROVE RowInv'
  <2>1. UNCHANGED <<rows, position, began, call>>
    BY <1>7 DEF AfterCommit, svars
  <2>2. PICK p : PlanOK(p) /\ plan' = [plan EXCEPT ![w] = p]
    <3>1. \/ \E tx, time, ents : Projecting(w, tx, time, ents)
          \/ plan' = [plan EXCEPT ![w] = [at |-> "failed"]]
      <4>1. CASE call[w].kind = "retractByPattern" /\ plan[w].anchor = Null
        BY <1>7, <4>1 DEF AfterCommit
      <4>2. CASE call[w].kind = "retractByPattern" /\ plan[w].anchor # Null
        BY <1>7, <4>2 DEF AfterCommit
      <4>3. CASE call[w].kind # "retractByPattern"
        BY <1>7, <4>3 DEF AfterCommit
      <4>. QED
        BY <4>1, <4>2, <4>3
    <3>2. ASSUME NEW tx, NEW time, NEW ents, Projecting(w, tx, time, ents)
          PROVE  \E p : PlanOK(p) /\ plan' = [plan EXCEPT ![w] = p]
      <4>1. PICK p : p = [at |-> "project", tx |-> tx, time |-> time, todo |-> ents, read |-> Null]
        OBVIOUS
      <4>2. PlanOK(p) /\ plan' = [plan EXCEPT ![w] = p]
        BY <1>5, <3>2, <4>1 DEF Projecting
      <4>. QED
        BY <4>2
    <3>. QED
      BY <1>6, <3>1, <3>2
  <2>. QED
    BY <1>4, <2>1, <2>2
<1>8. ASSUME NEW w \in Writers, ReadHistory(w) PROVE RowInv'
  <2>1. UNCHANGED <<rows, position, began, call>>
    BY <1>8 DEF ReadHistory, svars
  <2>2. PICK x : plan' = [plan EXCEPT ![w].read = x]
    BY <1>8 DEF ReadHistory
  <2>3. PICK q : q = plan[w]
    OBVIOUS
  <2>4. q = [at |-> "project", tx |-> q.tx, time |-> q.time, todo |-> q.todo, read |-> q.read]
    BY <1>0, <1>8, <2>3 DEF ReadHistory, PlansOK
  <2>5. PICK p : p = [q EXCEPT !.read = x]
    OBVIOUS
  <2>6. p = [at |-> "project", tx |-> q.tx, time |-> q.time, todo |-> q.todo, read |-> x]
    BY <2>4, <2>5
  <2>7. PlanOK(p)
    BY <2>6 DEF PlanOK
  <2>8. plan' = [plan EXCEPT ![w] = p]
    BY <2>2, <2>3, <2>5
  <2>. QED
    BY <1>4, <2>1, <2>7, <2>8
<1>9. ASSUME NEW w \in Writers, Insert(w) PROVE RowInv'
  <2>1. UNCHANGED <<rows, position, began, call>>
    BY <1>9 DEF Insert, svars
  <2>2. PICK q : q = plan[w]
    OBVIOUS
  <2>3. q = [at |-> "project", tx |-> q.tx, time |-> q.time, todo |-> q.todo, read |-> q.read]
    BY <1>0, <1>9, <2>2 DEF Insert, PlansOK
  <2>4. PICK d : d = q.todo \ {q.read.e}
    OBVIOUS
  <2>5. plan' = [plan EXCEPT ![w].todo = d, ![w].read = Null]
    BY <1>9, <2>2, <2>4 DEF Insert
  <2>6. PICK p : p = [q EXCEPT !.todo = d, !.read = Null]
    OBVIOUS
  <2>7. DOMAIN q = {"at", "tx", "time", "todo", "read"}
    BY <2>3
  <2>8. p = [y \in {"at", "tx", "time", "todo", "read"} |-> p[y]]
    BY <2>6, <2>7
  <2>9. p.at = "project"
    BY <2>3, <2>6, <2>7
  <2>10. p = [at |-> "project", tx |-> p.tx, time |-> p.time, todo |-> p.todo, read |-> p.read]
    BY <2>8, <2>9
  <2>11. PlanOK(p)
    BY <2>9, <2>10 DEF PlanOK
  <2>12. plan' = [plan EXCEPT ![w] = p]
    BY <1>0, <2>2, <2>5, <2>6 DEF PlansOK
  <2>. QED
    BY <1>4, <2>1, <2>11, <2>12
<1>10. ASSUME NEW w \in Writers, ProjectionFails(w) PROVE RowInv'
  <2>1. PICK p : p = [at |-> "failed"]
    OBVIOUS
  <2>. QED
    BY <1>4, <1>6, <1>10, <2>1 DEF ProjectionFails, svars
<1>11. ASSUME NEW w \in Writers, Return(w) PROVE RowInv'
  <2>1. RowsOK' /\ CallsOK'
    BY <1>0, <1>11, CallEnds DEF Return
  <2>2. PICK p : p = NoPlan
    OBVIOUS
  <2>3. PlanOK(p)
    BY <2>2 DEF PlanOK, NoPlan
  <2>4. PlansOK'
    BY <1>0, <1>11, <2>2, <2>3, PlanMoves DEF Return
  <2>. QED
    BY <2>1, <2>4 DEF RowInv
<1>12. ASSUME UNCHANGED <<rows, position, call, plan>>, began' \in Nat, began' >= began PROVE RowInv'
  <2>1. RowsOK' /\ CallsOK'
    BY <1>0, <1>12, CallsStay
  <2>2. PlansOK'
    BY <1>0, <1>12 DEF PlansOK
  <2>. QED
    BY <2>1, <2>2 DEF RowInv
<1>13. ASSUME NEW now \in Instants, BackfillStart(now) PROVE RowInv'
  BY <1>0, <1>12, <1>13 DEF BackfillStart
<1>14. CASE BackfillEntity \/ BackfillEnd \/ UNCHANGED vars
  <2>1. UNCHANGED <<rows, position, call, plan, began>>
    BY <1>14 DEF BackfillEntity, BackfillEnd, vars, svars
  <2>. QED
    BY <1>0, <1>12, <2>1
<1>. QED
  BY <1>1, <1>2, <1>3, <1>7, <1>8, <1>9, <1>10, <1>11, <1>13, <1>14 DEF Next

-----------------------------------------------------------------------------
(* The steps, by what they do to the committed state. *)

\* A transaction is open under the id it had, or under a new one.
OpensFresh ==
    /\ began' \in {began, began + 1}
    /\ \A w \in Writers : Open(w)' =>
         \/ Open(w) /\ call'[w].tx = call[w].tx
         \/ began' = began + 1 /\ call'[w].tx = began + 1

LEMMA BeginFresh ==
    ASSUME CallsOK, NEW w \in Writers, NEW req, NEW now, Begin(w, req, now)
    PROVE  OpensFresh /\ UNCHANGED <<rows, position, journal>>
<1>1. CASE validatePreconditions(req)
  <2>1. PICK k : k = [at |-> "claim", req |-> req, tx |-> began + 1, now |-> now, pos |-> 0,
                      new |-> {}, gone |-> {}, changes |-> {}]
    OBVIOUS
  <2>2. call' = [call EXCEPT ![w] = k] /\ began' = began + 1 /\ UNCHANGED <<rows, position, journal>>
    BY <1>1, <2>1 DEF Begin
  <2>3. call'[w] = k /\ \A v \in Writers \ {w} : call'[v] = call[v]
    BY <2>2 DEF CallsOK
  <2>4. k.tx = began + 1
    BY <2>1
  <2>. QED
    BY <2>2, <2>3, <2>4 DEF OpensFresh, Open
<1>2. CASE ~validatePreconditions(req)
  <2>1. call' = [call EXCEPT ![w] = Idle] /\ began' = began /\ UNCHANGED <<rows, position, journal>>
    BY <1>2 DEF Begin, Rollback
  <2>2. call'[w] = Idle /\ \A v \in Writers \ {w} : call'[v] = call[v]
    BY <2>1 DEF CallsOK
  <2>. QED
    BY <2>1, <2>2 DEF OpensFresh, Open, Idle
<1>. QED
  BY <1>1, <1>2

LEMMA OneCallEnds ==
    ASSUME CallsOK, NEW w \in Writers, NEW k, k.at \notin OpenStage,
           call' = [call EXCEPT ![w] = k], began' = began
    PROVE  OpensFresh
<1>1. call'[w] = k /\ \A v \in Writers \ {w} : call'[v] = call[v]
  BY DEF CallsOK
<1>. QED
  BY <1>1 DEF OpensFresh, Open, OpenStage

LEMMA TransactFresh ==
    ASSUME RowsOK, CallsOK, NEW w \in Writers, TransactStep(w)
    PROVE  /\ OpensFresh
           /\ \/ UNCHANGED <<rows, position, journal>> /\ call'[w].at # "committed"
              \/ \E c : Commits(w, c)
<1> PICK k : k = Idle
  OBVIOUS
<1>0. k.at = "idle" /\ k.at \notin OpenStage
  BY DEF Idle, OpenStage
<1>1. CASE Claim(w)
  <2>1. CASE \E r \in receipts : r[1] = call[w].req.cmd
    <3>1. call' = [call EXCEPT ![w] = k] /\ began' = began /\ UNCHANGED <<rows, position, journal>>
      BY <1>1, <2>1 DEF Claim, Rollback
    <3>2. call'[w] = k
      BY <3>1 DEF CallsOK
    <3>. QED
      BY <1>0, <3>1, <3>2, OneCallEnds
  <2>2. CASE ~ \E r \in receipts : r[1] = call[w].req.cmd
    <3>1. /\ call' = [call EXCEPT ![w].at = "position"] /\ began' = began
          /\ UNCHANGED <<rows, position, journal>> /\ call[w].at = "claim"
      BY <1>1, <2>2 DEF Claim
    <3>2. OpenOK(call[w]) /\ Open(w)
      BY <3>1 DEF CallsOK, Open
    <3>3. call'[w].tx = call[w].tx /\ call'[w].at = "position"
          /\ \A v \in Writers \ {w} : call'[v] = call[v]
      BY <3>1, <3>2 DEF CallsOK, OpenOK
    <3>. QED
      BY <3>1, <3>2, <3>3 DEF OpensFresh, Open
  <2>. QED
    BY <2>1, <2>2
<1>2. CASE nextCommitPosition(w)
  <2>1. /\ call' = [call EXCEPT ![w].at = "run", ![w].pos = position + 1] /\ began' = began
        /\ UNCHANGED <<rows, position, journal>> /\ call[w].at = "position"
    BY <1>2 DEF nextCommitPosition
  <2>2. OpenOK(call[w]) /\ Open(w)
    BY <2>1 DEF CallsOK, Open
  <2>3. call'[w].tx = call[w].tx /\ call'[w].at = "run"
        /\ \A v \in Writers \ {w} : call'[v] = call[v]
    BY <2>1, <2>2 DEF CallsOK, OpenOK
  <2>. QED
    BY <2>1, <2>2, <2>3 DEF OpensFresh, Open
<1>3. CASE Run(w)
  <2>1. CASE Commits(w, Operations(call[w]))
    <3>1. PICK c : c = Operations(call[w])
      OBVIOUS
    <3>2. Commits(w, c)
      BY <2>1, <3>1
    <3>3. PICK o : o = Outcome(c)
      OBVIOUS
    <3>4. o.at \notin OpenStage
      BY <3>3 DEF Outcome, Idle, OpenStage
    <3>. QED
      BY <3>2, <3>3, <3>4, OneCallEnds DEF Commits
  <2>2. CASE call' = [call EXCEPT ![w] = Idle] /\ UNCHANGED <<rows, position, journal, began>>
    <3>1. call'[w] = k /\ call' = [call EXCEPT ![w] = k]
      BY <2>2 DEF CallsOK
    <3>. QED
      BY <1>0, <2>2, <3>1, OneCallEnds
  <2>. QED
    BY <1>3, <2>1, <2>2, RunCases
<1>4. CASE Abort(w)
  <2>1. call' = [call EXCEPT ![w] = k] /\ began' = began /\ UNCHANGED <<rows, position, journal>>
    BY <1>4 DEF Abort, Rollback
  <2>2. call'[w] = k
    BY <2>1 DEF CallsOK
  <2>. QED
    BY <1>0, <2>1, <2>2, OneCallEnds
<1>. QED
  BY <1>1, <1>2, <1>3, <1>4 DEF TransactStep

\* Only a commit changes the rows, the counter or the journal.
LEMMA NextShape ==
    ASSUME RowInv, [Next]_vars
    PROVE  /\ OpensFresh
           /\ \/ UNCHANGED <<rows, position, journal>>
              \/ \E w \in Writers : Working(w) /\ \E c : Commits(w, c)
<1>0. RowsOK /\ CallsOK
  BY DEF RowInv
<1>1. ASSUME UNCHANGED <<call, began>> PROVE OpensFresh
  BY <1>1 DEF OpensFresh, Open
<1>2. ASSUME NEW w \in Writers, NEW t, NEW now, Read(w, t, now) PROVE UNCHANGED <<rows, position, journal, call, began>>
  BY <1>2 DEF Read, svars
<1>3. ASSUME NEW w \in Writers, NEW now, Write(w, now) PROVE OpensFresh /\ UNCHANGED <<rows, position, journal>>
  <2>1. PICK req : Begin(w, req, now)
    BY <1>3 DEF Write
  <2>. QED
    BY <1>0, <2>1, BeginFresh
<1>4. ASSUME NEW w \in Writers, Working(w)
      PROVE  OpensFresh /\ (UNCHANGED <<rows, position, journal>> \/ \E c : Commits(w, c))
  BY <1>0, <1>4, TransactFresh DEF Working
<1>5. ASSUME NEW w \in Writers, AfterCommit(w) \/ ReadHistory(w) \/ Insert(w) \/ ProjectionFails(w)
      PROVE UNCHANGED <<rows, position, journal, call, began>>
  BY <1>5 DEF AfterCommit, ReadHistory, Insert, ProjectionFails, svars
<1>6. ASSUME NEW w \in Writers, Return(w) PROVE OpensFresh /\ UNCHANGED <<rows, position, journal>>
  <2>1. PICK k : k = Idle
    OBVIOUS
  <2>2. k.at \notin OpenStage
    BY <2>1 DEF Idle, OpenStage
  <2>. QED
    BY <1>0, <1>6, <2>1, <2>2, OneCallEnds DEF Return
<1>7. ASSUME NEW now, BackfillStart(now) PROVE OpensFresh /\ UNCHANGED <<rows, position, journal>>
  BY <1>7 DEF BackfillStart, OpensFresh, Open
<1>8. CASE BackfillEntity \/ BackfillEnd \/ UNCHANGED vars
  <2>1. UNCHANGED <<rows, position, journal, call, began>>
    BY <1>8 DEF BackfillEntity, BackfillEnd, vars, svars
  <2>. QED
    BY <1>1, <2>1
<1>. QED
  BY <1>1, <1>2, <1>3, <1>4, <1>5, <1>6, <1>7, <1>8 DEF Next

-----------------------------------------------------------------------------
(* Reads pinned at a position repeat. *)

\* A commit changes nothing that a basis at an earlier position sees.
LEMMA PinnedIds ==
    ASSUME RowsOK, NEW w \in Writers, NEW c, Commits(w, c), NEW b, b.pos \in 0..position
    PROVE  {r.id : r \in temporalConditions(rows', b)} = {r.id : r \in temporalConditions(rows, b)}
<1>1. PICK c0 : c0 = call[w]
  OBVIOUS
<1>2. Holder(c0) /\ LoopOK(c, c0) /\ rows' = Overlay(c)
  BY <1>1 DEF Commits
<1>3. c.pos = position + 1 /\ position \in Nat /\ Null \notin Int
  BY <1>2, HolderNumbers, SqlAssumption DEF LoopOK, RowsOK
<1>4. \A r \in c.new : r.recPos = position + 1
  BY <1>2, <1>3 DEF LoopOK, NewOK
<1>5. ASSUME NEW q \in temporalConditions(rows', b)
      PROVE  \E r \in temporalConditions(rows, b) : r.id = q.id
  <2>1. q \in Overlay(c) /\ q.recPos <= b.pos /\ q.recAt <= b.at
        /\ (q.retPos = Null \/ q.retPos > b.pos \/ q.retAt > b.at) /\ q.from <= b.valid /\ q.to > b.valid
    BY <1>2, <1>5 DEF temporalConditions
  <2>2. PICK r \in rows \cup c.new : Became(q, r, c)
    BY <1>2, <2>1, OverlayRows
  <2>3. q.id = r.id /\ q.recPos = r.recPos /\ q.recAt = r.recAt /\ q.from = r.from /\ q.to = r.to
    BY <2>2 DEF Became, SameFact
  <2>4. r \in rows
    BY <1>3, <1>4, <2>1, <2>3
  <2>5. r.retPos = Null \/ r.retPos > b.pos \/ r.retAt > b.at
    BY <2>1, <2>2 DEF Became, Unretracted
  <2>. QED
    BY <2>1, <2>3, <2>4, <2>5 DEF temporalConditions
<1>6. ASSUME NEW r \in temporalConditions(rows, b)
      PROVE  \E q \in temporalConditions(rows', b) : q.id = r.id
  <2>1. r \in rows /\ r.recPos <= b.pos /\ r.recAt <= b.at
        /\ (r.retPos = Null \/ r.retPos > b.pos \/ r.retAt > b.at) /\ r.from <= b.valid /\ r.to > b.valid
    BY <1>6 DEF temporalConditions
  <2>2. PICK q \in Overlay(c) : Became(q, r, c)
    BY <1>2, <2>1, OverlayRows
  <2>3. q.id = r.id /\ q.recPos = r.recPos /\ q.recAt = r.recAt /\ q.from = r.from /\ q.to = r.to
    BY <2>2 DEF Became, SameFact
  <2>4. q.retPos = Null \/ q.retPos > b.pos \/ q.retAt > b.at
    BY <1>3, <2>1, <2>2 DEF Became
  <2>. QED
    BY <1>2, <2>1, <2>2, <2>3, <2>4 DEF temporalConditions
<1>. QED
  BY <1>5, <1>6

(***************************************************************************)
(* Reads pinned at a position repeat: whatever commits, a basis at or      *)
(* below the committed position sees the same facts, for any number of     *)
(* writers at read committed.  The lock of the counter row makes positions *)
(* visible in their order.                                                 *)
(***************************************************************************)
\* Pages of a cursor are pages of one state (PinnedReadsRepeat): what a basis
\* at a committed position sees is fixed, for every writer, adapter and
\* template.  What makes it so is the lock that nextCommitPosition takes.
THEOREM PinnedReadsAreStable == Spec => PinnedReadsRepeat
<1> DEFINE Same == rows' # rows => \A p \in 0..position, t \in Instants :
              LET b == [pos |-> p, at |-> t, valid |-> t] IN
              {r.id : r \in temporalConditions(rows', b)} = {r.id : r \in temporalConditions(rows, b)}
<1>1. RowInv /\ [Next]_vars => [Same]_vars
  <2> SUFFICES ASSUME RowInv, [Next]_vars, rows' # rows, NEW p \in 0..position, NEW t \in Instants
               PROVE  {r.id : r \in temporalConditions(rows', [pos |-> p, at |-> t, valid |-> t])}
                        = {r.id : r \in temporalConditions(rows, [pos |-> p, at |-> t, valid |-> t])}
    OBVIOUS
  <2>1. PICK w \in Writers : \E c : Commits(w, c)
    BY NextShape
  <2>2. PICK c : Commits(w, c)
    BY <2>1
  <2>3. PICK b : b = [pos |-> p, at |-> t, valid |-> t]
    OBVIOUS
  <2>4. b.pos \in 0..position /\ RowsOK
    BY <2>3 DEF RowInv
  <2>5. {r.id : r \in temporalConditions(rows', b)} = {r.id : r \in temporalConditions(rows, b)}
    BY <2>2, <2>4, PinnedIds
  <2>. QED
    BY <2>3, <2>5
<1>. HIDE DEF Same
<1>2. Spec => [][Same]_vars
  BY <1>1, RowInit, RowNext, PTL DEF Spec
<1>. QED
  BY <1>2 DEF Same, PinnedReadsRepeat

-----------------------------------------------------------------------------
(* The journal says what the rows say. *)

\* The journal record of a commit.
Record(c) == [tx |-> c.tx, pos |-> c.pos, at |-> c.now, changes |-> c.changes]

LEMMA CommitJournals ==
    ASSUME Journaled, NEW w \in Writers, NEW c, Commits(w, c)
    PROVE  journal' = journal \cup {Record(c)} /\ c.req.journal
<1>1. OpenOK(call[w]) /\ c.req = call[w].req
  BY DEF Commits, Holder, LoopOK
<1>2. c.req.journal
  BY <1>1 DEF OpenOK, RequestOK, Journaled
<1>. QED
  BY <1>2 DEF Commits, metadataInputs, Record

LEMMA JournalStays ==
    ASSUME RowsOK, JournalInv, UNCHANGED <<rows, position, journal>>, OpensFresh
    PROVE  JournalInv'
<1>0. began \in Nat
  BY DEF RowsOK
<1>1. began' \in Nat /\ began' >= began
  BY <1>0 DEF OpensFresh
<1>2. \A j \in journal : j.tx \in 1..began'
  BY <1>0, <1>1 DEF JournalInv, JournalOK
<1>3. \A w \in Writers : Open(w)' => \A j \in journal : j.tx # call'[w].tx
  BY <1>0 DEF JournalInv, JournalOK, OpensFresh
<1>4. JournalOK'
  BY <1>2, <1>3 DEF JournalInv, JournalOK
<1>5. MarksOK'
  BY DEF JournalInv, MarksOK
<1>. QED
  BY <1>4, <1>5 DEF JournalInv

LEMMA CommitJournalOK ==
    ASSUME Journaled, RowsOK, CallsOK, JournalOK, NEW w \in Writers, NEW c, Commits(w, c), OpensFresh
    PROVE  JournalOK'
<1>1. PICK c0 : c0 = call[w]
  OBVIOUS
<1>2. Holder(c0) /\ LoopOK(c, c0) /\ position' = c.pos /\ began' = began
  BY <1>1 DEF Commits
<1>3. /\ c.pos = position + 1 /\ position \in Nat /\ c.tx = c0.tx /\ c.tx \in 1..began
      /\ c.now \in Int /\ began \in Nat
  BY <1>2, HolderNumbers DEF LoopOK, RowsOK, Holder, OpenOK
<1>4. PICK k : k = Record(c)
  OBVIOUS
<1>5. journal' = journal \cup {k}
  BY <1>4, CommitJournals
<1>6. /\ k = [tx |-> k.tx, pos |-> k.pos, at |-> k.at, changes |-> k.changes]
      /\ k.tx = c.tx /\ k.pos = c.pos /\ k.at = c.now
  BY <1>4 DEF Record
<1>7. IsFiniteSet(journal')
  BY <1>5, FS_AddElement DEF JournalOK
<1>8. \A j \in journal : j.tx # c.tx /\ j.pos # c.pos /\ j.pos \in 1..c.pos
  <2>1. Open(w)
    BY <1>1, <1>2 DEF Open, Holder
  <2>2. \A j \in journal : j.tx # c.tx /\ j.pos \in 1..position
    BY <1>1, <1>3, <2>1 DEF JournalOK
  <2>. QED
    BY <1>3, <2>2
<1>9. \A j \in journal' :
         /\ j = [tx |-> j.tx, pos |-> j.pos, at |-> j.at, changes |-> j.changes]
         /\ j.tx \in 1..began /\ j.pos \in 1..c.pos /\ j.at \in Int
  <2>1. k.pos \in 1..c.pos
    BY <1>3, <1>6
  <2>. QED
    BY <1>3, <1>5, <1>6, <1>8, <2>1 DEF JournalOK
<1>10. \A i, j \in journal' : i.tx = j.tx \/ i.pos = j.pos => i = j
  BY <1>5, <1>6, <1>8 DEF JournalOK
<1>11. ASSUME NEW v \in Writers, Open(v)' PROVE \A j \in journal' : j.tx # call'[v].tx
  <2>1. began' # began + 1
    BY <1>2, <1>3
  <2>2. Open(v) /\ call'[v].tx = call[v].tx
    BY <1>11, <2>1 DEF OpensFresh
  <2>3. v # w
    <3>1. call'[w] = Outcome(c)
      BY DEF CallsOK, Commits
    <3>2. ~Open(w)'
      BY <3>1 DEF Open, Outcome, Idle
    <3>. QED
      BY <1>11, <3>2
  <2>4. Open(w)
    BY <1>1, <1>2 DEF Open, Holder
  <2>5. call[v].tx # c0.tx
    BY <1>1, <2>2, <2>3, <2>4 DEF CallsOK
  <2>. QED
    BY <1>3, <1>5, <1>6, <2>2, <2>5 DEF JournalOK
<1>. QED
  BY <1>2, <1>7, <1>9, <1>10, <1>11 DEF JournalOK

LEMMA CommitMarksOK ==
    ASSUME Journaled, RowsOK, JournalOK, MarksOK, NEW w \in Writers, NEW c, Commits(w, c)
    PROVE  MarksOK'
<1>1. PICK c0 : c0 = call[w]
  OBVIOUS
<1>2. Holder(c0) /\ LoopOK(c, c0) /\ rows' = Overlay(c)
  BY <1>1 DEF Commits
<1>3. PICK k : k = Record(c)
  OBVIOUS
<1>4. journal' = journal \cup {k} /\ k \in journal'
  BY <1>3, CommitJournals
<1>5. k.tx = c.tx /\ k.pos = c.pos /\ k.at = c.now /\ k.changes = c.changes
  BY <1>3 DEF Record
<1>6. c.changes = {Change("assert", r) : r \in c.new}
                  \cup {Change("retract", r) : r \in {q \in rows \cup c.new : q.id \in c.gone}}
  BY <1>2 DEF LoopOK
<1>7. Null \notin Int
  BY SqlAssumption
<1>8. \A q, r : Became(q, r, c) => \A op : Change(op, q) = Change(op, r)
  BY DEF Became, SameFact, Change
<1>9. ASSUME NEW q \in rows' PROVE \E j \in journal' : Asserts(j, q)
  <2>1. PICK r \in rows \cup c.new : Became(q, r, c)
    BY <1>2, OverlayRows
  <2>2. q.tx = r.tx /\ q.recPos = r.recPos /\ q.recAt = r.recAt
    BY <2>1 DEF Became, SameFact
  <2>3. CASE r \in rows
    <3>1. PICK j \in journal : Asserts(j, r)
      BY <2>3 DEF MarksOK
    <3>2. Asserts(j, q)
      BY <1>8, <2>1, <2>2, <3>1 DEF Asserts
    <3>. QED
      BY <1>4, <3>2
  <2>4. CASE r \in c.new
    <3>1. r.tx = c.tx /\ r.recPos = c.pos /\ r.recAt = c.now
      BY <1>2, <2>4 DEF LoopOK, NewOK
    <3>2. Change("assert", r) \in c.changes
      BY <1>6, <2>4
    <3>3. Asserts(k, q)
      BY <1>5, <1>8, <2>1, <2>2, <3>1, <3>2 DEF Asserts
    <3>. QED
      BY <1>4, <3>3
  <2>. QED
    BY <2>3, <2>4
<1>10. ASSUME NEW q \in rows', q.retPos # Null PROVE \E j \in journal' : Retracts(j, q)
  <2>1. PICK r \in rows \cup c.new : Became(q, r, c)
    BY <1>2, OverlayRows
  <2>2. CASE r.id \in c.gone
    <3>1. q.retAt = c.now /\ q.retPos = c.pos /\ q.retTx = c.tx
      BY <2>1, <2>2 DEF Became
    <3>2. Change("retract", r) \in c.changes
      BY <1>6, <2>2
    <3>3. Retracts(k, q)
      BY <1>5, <1>8, <2>1, <3>1, <3>2 DEF Retracts
    <3>. QED
      BY <1>4, <3>3
  <2>3. CASE r.id \notin c.gone
    <3>1. q = r
      BY <2>1, <2>3 DEF Became
    <3>2. r \in rows
      BY <1>2, <1>10, <3>1 DEF LoopOK, NewOK, Unretracted
    <3>3. PICK j \in journal : Retracts(j, q)
      BY <1>10, <3>1, <3>2 DEF MarksOK
    <3>. QED
      BY <1>4, <3>3
  <2>. QED
    BY <2>2, <2>3
<1>11. ASSUME NEW j \in journal', NEW ch \in j.changes
       PROVE  \E q \in rows' : \/ ch = Change("assert", q) /\ q.recPos = j.pos
                               \/ ch = Change("retract", q) /\ q.retPos = j.pos
  <2>1. CASE j \in journal
    <3>1. PICK r \in rows : \/ ch = Change("assert", r) /\ r.recPos = j.pos
                            \/ ch = Change("retract", r) /\ r.retPos = j.pos
      BY <2>1 DEF MarksOK
    <3>2. PICK q \in Overlay(c) : Became(q, r, c)
      BY <1>2, OverlayRows
    <3>3. j.pos # Null
      BY <1>7, <2>1 DEF JournalOK
    <3>4. CASE r.id \in c.gone
      <4>1. r.retPos = Null
        BY <3>2, <3>4 DEF Became, Unretracted
      <4>2. ch = Change("assert", r) /\ r.recPos = j.pos
        BY <3>1, <3>3, <4>1
      <4>3. q.recPos = r.recPos
        BY <3>2 DEF Became, SameFact
      <4>. QED
        BY <1>2, <1>8, <3>2, <4>2, <4>3
    <3>5. CASE r.id \notin c.gone
      BY <1>2, <3>1, <3>2, <3>5 DEF Became
    <3>. QED
      BY <3>4, <3>5
  <2>2. CASE j = k
    <3>1. CASE ch \in {Change("assert", r) : r \in c.new}
      <4>1. PICK r \in c.new : ch = Change("assert", r)
        BY <3>1
      <4>2. PICK q \in Overlay(c) : Became(q, r, c)
        BY <1>2, OverlayRows
      <4>3. q.recPos = r.recPos /\ r.recPos = c.pos
        BY <1>2, <4>2 DEF Became, SameFact, LoopOK, NewOK
      <4>. QED
        BY <1>2, <1>5, <1>8, <2>2, <4>1, <4>2, <4>3
    <3>2. CASE ch \in {Change("retract", r) : r \in {q \in rows \cup c.new : q.id \in c.gone}}
      <4>1. PICK r \in rows \cup c.new : r.id \in c.gone /\ ch = Change("retract", r)
        BY <3>2
      <4>2. PICK q \in Overlay(c) : Became(q, r, c)
        BY <1>2, OverlayRows
      <4>3. q.retPos = c.pos
        BY <4>1, <4>2 DEF Became
      <4>. QED
        BY <1>2, <1>5, <1>8, <2>2, <4>1, <4>2, <4>3
    <3>. QED
      BY <1>5, <1>6, <1>11, <2>2, <3>1, <3>2
  <2>. QED
    BY <1>4, <2>1, <2>2
<1>. QED
  BY <1>9, <1>10, <1>11 DEF MarksOK

\* The invariant of the journal holds initially.
LEMMA JournalInit ==
    Init => JournalInv
<1> SUFFICES ASSUME Init PROVE JournalInv
  OBVIOUS
<1>1. rows = {} /\ journal = {}
  BY DEF Init, SqlInit
<1>. QED
  BY <1>1, FS_EmptySet DEF JournalInv, JournalOK, MarksOK

\* Every step preserves the invariant of the journal.
LEMMA JournalNext ==
    ASSUME Journaled
    PROVE  RowInv /\ JournalInv /\ [Next]_vars => JournalInv'
<1> SUFFICES ASSUME RowInv, JournalInv, [Next]_vars PROVE JournalInv'
  OBVIOUS
<1>0. RowsOK /\ CallsOK /\ JournalOK /\ MarksOK /\ OpensFresh
  BY NextShape DEF RowInv, JournalInv
<1>1. CASE UNCHANGED <<rows, position, journal>>
  BY <1>0, <1>1, JournalStays
<1>2. ASSUME NEW w \in Writers, NEW c, Commits(w, c) PROVE JournalInv'
  <2>1. JournalOK'
    BY <1>0, <1>2, CommitJournalOK
  <2>2. MarksOK'
    BY <1>0, <1>2, CommitMarksOK
  <2>. QED
    BY <2>1, <2>2 DEF JournalInv
<1>. QED
  BY <1>1, <1>2, NextShape

-----------------------------------------------------------------------------
(* dependencyState is sound. *)

\* Max of a finite set of integers is its greatest element.
LEMMA GreatestInt ==
    ASSUME NEW S \in SUBSET Int, IsFiniteSet(S), S # {}
    PROVE  Max(S) \in S /\ \A y \in S : y <= Max(S)
<1>1. PICK z \in S : TRUE
  OBVIOUS
<1> DEFINE U == {x \in S : x >= z}
           f == [x \in U |-> x - z]
<1>2. IsFiniteSet(U) /\ U # {}
  BY FS_Subset
<1>3. \A x \in U : f[x] \in Nat /\ f[x] = x - z
  OBVIOUS
<1>4. \E m \in U : \A y \in U : f[m] >= f[y]
  <2>. HIDE DEF U, f
  <2>. QED
    BY <1>2, <1>3, GreatestRank
<1>5. PICK m \in U : \A y \in U : f[m] >= f[y]
  BY <1>4
<1>6. \A y \in S : m >= y
  <2>1. \A y \in U : m >= y
    BY <1>3, <1>5
  <2>2. \A y \in S : y \notin U => m >= y
    OBVIOUS
  <2>. QED
    BY <2>1, <2>2
<1>7. m \in S
  OBVIOUS
<1>8. Max(S) \in S /\ \A y \in S : Max(S) >= y
  BY <1>6, <1>7 DEF Max
<1>. QED
  BY <1>8

\* Min of a finite set of integers is its least element.
LEMMA LeastInt ==
    ASSUME NEW S \in SUBSET Int, IsFiniteSet(S), S # {}
    PROVE  Min(S) \in S /\ \A y \in S : Min(S) <= y
<1>1. PICK z \in S : TRUE
  OBVIOUS
<1> DEFINE U == {x \in S : x <= z}
           f == [x \in U |-> z - x]
<1>2. IsFiniteSet(U) /\ U # {}
  BY FS_Subset
<1>3. \A x \in U : f[x] \in Nat /\ f[x] = z - x
  OBVIOUS
<1>4. \E m \in U : \A y \in U : f[m] >= f[y]
  <2>. HIDE DEF U, f
  <2>. QED
    BY <1>2, <1>3, GreatestRank
<1>5. PICK m \in U : \A y \in U : f[m] >= f[y]
  BY <1>4
<1>6. \A y \in S : m <= y
  <2>1. \A y \in U : m <= y
    BY <1>3, <1>5
  <2>2. \A y \in S : y \notin U => m <= y
    OBVIOUS
  <2>. QED
    BY <2>1, <2>2
<1>7. m \in S
  OBVIOUS
<1>. QED
  BY <1>6, <1>7 DEF Min

\* The source of the answer is the last commit that changed the attribute.
LEMMA SourceIsLastChange ==
    ASSUME RowsOK, JournalInv, NEW a, NEW p \in 0..position
    PROVE  Max({SourceOf(r, p) : r \in {q \in rows : q.a \in {a}}} \cup {0}) = ChangedBy(a, p)
<1>0. Null \notin Int /\ position \in Nat /\ p \in Nat /\ 0..p \subseteq Int
  <2>1. position \in Nat
    BY DEF RowsOK
  <2>2. p \in Nat
    BY <2>1
  <2>. QED
    BY <2>1, <2>2, SqlAssumption
<1>1. PICK A : A = {SourceOf(r, p) : r \in {q \in rows : q.a \in {a}}} \cup {0}
  OBVIOUS
<1>2. PICK B : B = {j.pos : j \in {k \in journal : k.pos <= p /\ \E ch \in k.changes : ch.a = a}} \cup {0}
  OBVIOUS
<1>3. A \subseteq 0..p /\ IsFiniteSet(A)
  <2>1. \A r \in rows : SourceOf(r, p) \in 0..p
    <3>. SUFFICES ASSUME NEW r \in rows PROVE SourceOf(r, p) \in 0..p
      OBVIOUS
    <3>1. r.recPos \in 1..position /\ (r.retPos = Null \/ r.retPos \in r.recPos..position)
      BY DEF RowsOK, RowOK, Unretracted
    <3>. QED
      BY <1>0, <3>1 DEF SourceOf
  <2>2. A \subseteq 0..p
    BY <1>1, <2>1
  <2>3. IsFiniteSet(0..p)
    BY FS_Interval
  <2>. QED
    BY <2>2, <2>3, FS_Subset
<1>4. B \subseteq 0..p /\ IsFiniteSet(B)
  <2>1. B \subseteq 0..p
    BY <1>2 DEF JournalInv, JournalOK
  <2>2. IsFiniteSet(0..p)
    BY FS_Interval
  <2>. QED
    BY <2>1, <2>2, FS_Subset
<1>5. ASSUME NEW r \in rows, r.a = a PROVE SourceOf(r, p) \in B
  <2>1. r.recPos \in 1..position /\ (r.retPos = Null \/ r.retPos \in r.recPos..position)
    BY DEF RowsOK, RowOK, Unretracted
  <2>2. CASE r.recPos > p
    <3>1. SourceOf(r, p) = 0
      BY <1>0, <2>1, <2>2 DEF SourceOf
    <3>2. 0 \in B
      BY <1>2
    <3>. QED
      BY <3>1, <3>2
  <2>3. CASE r.recPos <= p /\ r.retPos # Null /\ r.retPos <= p
    <3>1. PICK j \in journal : Retracts(j, r)
      BY <2>3 DEF JournalInv, MarksOK
    <3>2. j.pos = r.retPos /\ \E ch \in j.changes : ch.a = a
      BY <1>5, <3>1 DEF Retracts, Change
    <3>3. SourceOf(r, p) = r.retPos
      BY <1>0, <2>1, <2>3 DEF SourceOf
    <3>. QED
      BY <1>2, <2>3, <3>2, <3>3
  <2>4. CASE r.recPos <= p /\ ~(r.retPos # Null /\ r.retPos <= p)
    <3>1. PICK j \in journal : Asserts(j, r)
      BY DEF JournalInv, MarksOK
    <3>2. j.pos = r.recPos /\ \E ch \in j.changes : ch.a = a
      BY <1>5, <3>1 DEF Asserts, Change
    <3>3. SourceOf(r, p) = r.recPos
      BY <1>0, <2>1, <2>4 DEF SourceOf
    <3>. QED
      BY <1>2, <2>4, <3>2, <3>3
  <2>5. r.recPos > p \/ r.recPos <= p
    BY <1>0, <2>1
  <2>. QED
    BY ONLY <2>2, <2>3, <2>4, <2>5
<1>6. ASSUME NEW j \in journal, j.pos <= p, NEW ch \in j.changes, ch.a = a
      PROVE  \E x \in A : j.pos <= x
  <2>1. PICK r \in rows : \/ ch = Change("assert", r) /\ r.recPos = j.pos
                          \/ ch = Change("retract", r) /\ r.retPos = j.pos
    BY DEF JournalInv, MarksOK
  <2>2. r.a = a
    BY <1>6, <2>1 DEF Change
  <2>3. r.recPos \in 1..position /\ (r.retPos = Null \/ r.retPos \in r.recPos..position) /\ j.pos \in 1..position
    BY DEF RowsOK, RowOK, Unretracted, JournalInv, JournalOK
  <2>4. SourceOf(r, p) >= j.pos
    <3>1. CASE r.recPos = j.pos
      BY <1>0, <1>6, <2>3, <3>1 DEF SourceOf
    <3>2. CASE r.retPos = j.pos
      BY <1>0, <1>6, <2>3, <3>2 DEF SourceOf
    <3>. QED
      BY <2>1, <3>1, <3>2
  <2>5. SourceOf(r, p) \in A
    BY <1>1, <2>2
  <2>6. SourceOf(r, p) \in Int
    BY <1>0, <1>3, <2>5
  <2>. QED
    BY <2>3, <2>4, <2>5, <2>6
<1>7. Max(A) \in A /\ \A y \in A : y <= Max(A)
  <2>1. A \in SUBSET Int /\ A # {}
    BY <1>0, <1>1, <1>3
  <2>. QED
    BY <1>3, <2>1, GreatestInt
<1>8. Max(B) \in B /\ \A y \in B : y <= Max(B)
  <2>1. B \in SUBSET Int /\ B # {}
    BY <1>0, <1>2, <1>4
  <2>. QED
    BY <1>4, <2>1, GreatestInt
<1>9. A \subseteq B
  BY <1>1, <1>2, <1>5
<1>10. \A y \in B : \E x \in A : y <= x
  <2>. SUFFICES ASSUME NEW y \in B PROVE \E x \in A : y <= x
    OBVIOUS
  <2>1. CASE y = 0
    BY <1>1, <2>1
  <2>2. CASE y # 0
    <3>1. PICK j \in journal : y = j.pos /\ j.pos <= p /\ \E ch \in j.changes : ch.a = a
      BY <1>2, <2>2
    <3>. QED
      BY <1>6, <3>1
  <2>. QED
    BY <2>1, <2>2
<1>11. Max(A) = Max(B)
  <2>1. Max(A) \in Int /\ Max(B) \in Int /\ A \subseteq Int
    BY <1>0, <1>3, <1>4, <1>7, <1>8
  <2>2. Max(A) <= Max(B)
    BY <1>7, <1>8, <1>9
  <2>3. Max(B) <= Max(A)
    <3>1. PICK x \in A : Max(B) <= x
      BY <1>8, <1>10
    <3>2. x <= Max(A)
      BY <1>7
    <3>. QED
      BY <2>1, <3>1, <3>2
  <2>. QED
    BY <2>1, <2>2, <2>3
<1>. QED
  BY <1>1, <1>2, <1>11 DEF ChangedBy

LEMMA NeverIsInt ==
    Never \in Int
<1>1. PICK T : T = {f.to : f \in Facts}
  OBVIOUS
<1>2. PICK g : g = [f \in Facts |-> f.to]
  OBVIOUS
<1>3. T = {g[f] : f \in Facts}
  BY <1>1, <1>2
<1>4. IsFiniteSet(T)
  BY <1>3, FiniteImage, SqlAssumption
<1>5. T \in SUBSET Int /\ T # {}
  BY <1>1, SqlAssumption
<1>6. Max(T) \in T
  BY <1>4, <1>5, GreatestInt
<1>. QED
  BY <1>1, <1>5, <1>6 DEF Never

\* The boundaries of the facts seen have a least one.
LEMMA NextBoundary ==
    ASSUME RowsOK, NEW seen, seen \subseteq rows, NEW t \in Int,
           NEW B, B = (UNION {Boundaries(q, t) : q \in seen}) \cup {Never}
    PROVE  Min(B) \in Int /\ \A y \in B : y \in Int /\ Min(B) <= y
<1>1. \A q \in rows : q.from \in Int /\ q.to \in Int
  BY DEF RowsOK, RowOK
<1>2. IsFiniteSet(seen)
  BY FS_Subset DEF RowsOK
<1>3. PICK f, g : f = [q \in seen |-> q.from] /\ g = [q \in seen |-> q.to]
  OBVIOUS
<1>4. IsFiniteSet({f[q] : q \in seen}) /\ IsFiniteSet({g[q] : q \in seen})
  BY <1>2, FiniteImage
<1>5. PICK F, G : F = {f[q] : q \in seen} /\ G = {g[q] : q \in seen}
  OBVIOUS
<1>6. IsFiniteSet(F) /\ IsFiniteSet(G)
  BY <1>4, <1>5
<1>7. PICK H : H = F \cup G
  OBVIOUS
<1>8. IsFiniteSet(H)
  BY <1>6, <1>7, FS_Union
<1>9. IsFiniteSet(H \cup {Never})
  BY <1>8, FS_AddElement
<1>10. \A q \in seen : Boundaries(q, t) \subseteq H
  BY <1>3, <1>5, <1>7 DEF Boundaries
<1>a. PICK bs : bs = {Boundaries(q, t) : q \in seen}
  OBVIOUS
<1>b. \A y : y \in B <=> y = Never \/ \E q \in seen : y \in Boundaries(q, t)
  <2>1. B = (UNION bs) \cup {Never}
    BY <1>a
  <2>2. \A y : y \in B <=> y = Never \/ \E b \in bs : y \in b
    BY ONLY <2>1
  <2>3. \A b : b \in bs <=> \E q \in seen : b = Boundaries(q, t)
    BY ONLY <1>a
  <2>. QED
    BY ONLY <2>2, <2>3
<1>11. \A y \in B : y \in H \cup {Never}
  BY ONLY <1>10, <1>b
<1>12. B \subseteq H \cup {Never}
  BY ONLY <1>11
<1>13. IsFiniteSet(B)
  BY ONLY <1>9, <1>12, FS_Subset
<1>14. H \subseteq Int
  BY <1>1, <1>3, <1>5, <1>7
<1>15. B \in SUBSET Int
  BY ONLY <1>11, <1>14, NeverIsInt
<1>16. B # {}
  BY ONLY <1>b
<1>17. Min(B) \in B /\ \A y \in B : Min(B) <= y
  BY ONLY <1>13, <1>15, <1>16, LeastInt
<1>. QED
  BY ONLY <1>15, <1>17

\* The validity of a seen fact does not change before the next boundary.
LEMMA ValidUntilNext ==
    ASSUME RowsOK, NEW seen, seen \subseteq rows, NEW t \in Int, NEW v \in Int, v >= t,
           NEW B, B = (UNION {Boundaries(q, t) : q \in seen}) \cup {Never},
           v < Min(B), NEW r \in seen
    PROVE  (r.from <= v /\ r.to > v) <=> (r.from <= t /\ r.to > t)
<1>1. Min(B) \in Int /\ \A y \in B : y \in Int /\ Min(B) <= y
  BY NextBoundary
<1>2. \A y \in Boundaries(r, t) : y \in B
  OBVIOUS
<1>3. \A y \in Boundaries(r, t) : v < y
  <2>. SUFFICES ASSUME NEW y \in Boundaries(r, t) PROVE v < y
    OBVIOUS
  <2>1. y \in Int /\ Min(B) <= y
    BY ONLY <1>1, <1>2, y \in Boundaries(r, t)
  <2>. QED
    BY ONLY <1>1, <2>1, v < Min(B), v \in Int
<1>4. r.from \in Int /\ r.to \in Int
  BY DEF RowsOK, RowOK
<1>5. r.from > t => v < r.from
  BY <1>3 DEF Boundaries
<1>6. r.from <= t /\ r.to > t => v < r.to
  BY <1>3, <1>4 DEF Boundaries
<1>. QED
  BY ONLY <1>4, <1>5, <1>6, t \in Int, v \in Int, v >= t

DependencyOK(a, p, t) ==
    \E d \in {dependencyState({a}, [pos |-> p, valid |-> t])} :
        /\ d.source = ChangedBy(a, p)
        /\ \A v \in t..(d.next - 1) :
             \A r \in rows : (r.a = a /\ r.recPos <= p /\ (r.retPos = Null \/ r.retPos > p))
                              => ((r.from <= v /\ r.to > v) <=> (r.from <= t /\ r.to > t))

LEMMA DependencyStateOK ==
    ASSUME RowsOK, JournalInv, NEW a, NEW p \in 0..position, NEW t \in Instants
    PROVE  DependencyOK(a, p, t)
<1>1. PICK b : b = [pos |-> p, valid |-> t]
  OBVIOUS
<1>2. PICK d : d = dependencyState({a}, b)
  OBVIOUS
<1>3. PICK of : of = {r \in rows : r.a \in {a}}
  OBVIOUS
<1>4. PICK seen : seen = {r \in of : r.recPos <= p /\ (r.retPos = Null \/ r.retPos > p)}
  OBVIOUS
<1>5. b.pos = p /\ b.valid = t
  BY <1>1
<1>6. /\ d.source = Max({SourceOf(r, p) : r \in of} \cup {0})
      /\ d.next = Min((UNION {Boundaries(r, t) : r \in seen}) \cup {Never})
  BY <1>2, <1>3, <1>4, <1>5 DEF dependencyState
<1>7. d.source = ChangedBy(a, p)
  BY <1>3, <1>6, SourceIsLastChange
<1>a. PICK B : B = (UNION {Boundaries(q, t) : q \in seen}) \cup {Never}
  OBVIOUS
<1>b. t \in Int /\ seen \subseteq rows
  BY <1>3, <1>4, SqlAssumption
<1>c. d.next \in Int /\ d.next = Min(B)
  <2>1. Min(B) \in Int
    BY <1>a, <1>b, NextBoundary
  <2>. QED
    BY <1>6, <1>a, <2>1
<1>8. ASSUME NEW v \in t..(d.next - 1), NEW r \in rows,
             r.a = a /\ r.recPos <= p /\ (r.retPos = Null \/ r.retPos > p)
      PROVE  (r.from <= v /\ r.to > v) <=> (r.from <= t /\ r.to > t)
  <2>1. r \in seen
    BY <1>3, <1>4, <1>8
  <2>2. v \in Int /\ v >= t /\ v < Min(B)
    BY <1>b, <1>c
  <2>. QED
    BY <1>a, <1>b, <2>1, <2>2, ValidUntilNext
<1>. QED
  BY <1>1, <1>2, <1>7, <1>8 DEF DependencyOK

(***************************************************************************)
(* dependencyState is sound: for any number of writers, the position it    *)
(* names is that of the last journaled commit that changed a fact of the   *)
(* attribute, and until its boundary the validity of the facts it saw does *)
(* not change.                                                             *)
(***************************************************************************)
\* dependencyState names the last commit that changed a fact of an attribute,
\* and no such fact starts or stops being valid before its next boundary
\* (DependencyStateSound), when every call is journaled.
THEOREM DependencyStatesAreSound ==
    ASSUME Journaled
    PROVE  Spec => DependencyStateSound
<1> DEFINE Sound == rows' # rows =>
        \A a \in {f.a : f \in Facts}, p \in 0..position', t \in Instants :
            \E d \in {dependencyState({a}, [pos |-> p, valid |-> t])'} :
                /\ d.source = ChangedBy(a, p)'
                /\ \A v \in t..(d.next - 1) :
                     \A r \in rows' : (r.a = a /\ r.recPos <= p /\ (r.retPos = Null \/ r.retPos > p))
                                      => ((r.from <= v /\ r.to > v) <=> (r.from <= t /\ r.to > t))
           Good == \A a \in {f.a : f \in Facts}, t \in Instants : \A p \in 0..position : DependencyOK(a, p, t)
<1>1. RowInv /\ JournalInv => Good
  BY DependencyStateOK DEF RowInv
<1>2. Good' => [Sound]_vars
  BY DEF DependencyOK
<1>. HIDE DEF Sound, Good
<1>3. Spec => [][Sound]_vars
  BY <1>1, <1>2, RowInit, RowNext, JournalInit, JournalNext, PTL DEF Spec
<1>. QED
  BY <1>3, PTL DEF Sound, DependencyStateSound

-----------------------------------------------------------------------------
(* Attribute maps. *)

\* Rows with distinct ids are as many as their ids.
LEMMA CardIds ==
    ASSUME NEW A, IsFiniteSet(A), DistinctIds(A), NEW I, I = {r.id : r \in A}
    PROVE  Cardinality(A) = Cardinality(I)
<1>1. PICK f : f = [r \in A |-> r.id]
  OBVIOUS
<1>2. f \in Bijection(A, I)
  <2>1. f \in [A -> I]
    BY <1>1
  <2>2. \A r, q \in A : f[r] = f[q] => r = q
    BY <1>1 DEF DistinctIds
  <2>3. \A i \in I : \E r \in A : f[r] = i
    BY <1>1
  <2>. QED
    BY <2>1, <2>2, <2>3 DEF Bijection, Injection, Surjection, IsInjective
<1>3. ExistsBijection(A, I)
  BY <1>2 DEF ExistsBijection
<1>. QED
  BY <1>3, FS_Bijection

Alike(r, s) == r.id = s.id /\ r.a = s.a /\ r.v = s.v

\* Only ids, attributes and values count.
LEMMA SameMap ==
    ASSUME NEW R, IsFiniteSet(R), DistinctIds(R), NEW S, IsFiniteSet(S), DistinctIds(S),
           \A r \in R : \E s \in S : Alike(r, s),
           \A s \in S : \E r \in R : Alike(r, s)
    PROVE  triplesToAttributeMap(R) = triplesToAttributeMap(S)
<1> DEFINE Vals(T, a) == {r.v : r \in {q \in T : q.a = a}}
           Count(T, a, v) == Cardinality({r \in T : r.a = a /\ r.v = v})
<1>1. {r.a : r \in R} = {s.a : s \in S}
  BY DEF Alike
<1>2. \A a : Vals(R, a) = Vals(S, a)
  <2>. SUFFICES ASSUME NEW a PROVE Vals(R, a) = Vals(S, a)
    OBVIOUS
  <2>1. \A x : x \in Vals(R, a) <=> \E r \in R : r.a = a /\ r.v = x
    OBVIOUS
  <2>2. \A x : x \in Vals(S, a) <=> \E r \in S : r.a = a /\ r.v = x
    OBVIOUS
  <2>3. \A x : (\E r \in R : r.a = a /\ r.v = x) <=> (\E r \in S : r.a = a /\ r.v = x)
    BY DEF Alike
  <2>. HIDE DEF Vals
  <2>. QED
    BY <2>1, <2>2, <2>3
<1>3. ASSUME NEW a, NEW v PROVE Count(R, a, v) = Count(S, a, v)
  <2>1. PICK A, B : A = {r \in R : r.a = a /\ r.v = v} /\ B = {r \in S : r.a = a /\ r.v = v}
    OBVIOUS
  <2>2. IsFiniteSet(A) /\ IsFiniteSet(B)
    BY <2>1, FS_Subset
  <2>3. DistinctIds(A) /\ DistinctIds(B)
    BY <2>1 DEF DistinctIds
  <2>4. PICK I : I = {r.id : r \in A}
    OBVIOUS
  <2>5. I = {r.id : r \in B}
    BY <2>1, <2>4 DEF Alike
  <2>6. Cardinality(A) = Cardinality(I) /\ Cardinality(B) = Cardinality(I)
    BY <2>2, <2>3, <2>4, <2>5, CardIds
  <2>. QED
    BY <2>1, <2>6
<1>4. PICK D : D = {r.a : r \in R}
  OBVIOUS
<1>5. triplesToAttributeMap(R) = [a \in D |-> [v \in Vals(R, a) |-> Count(R, a, v)]]
  BY <1>4 DEF triplesToAttributeMap
<1>6. triplesToAttributeMap(S) = [a \in D |-> [v \in Vals(S, a) |-> Count(S, a, v)]]
  BY <1>1, <1>4 DEF triplesToAttributeMap
<1>. HIDE DEF Vals, Count
<1>7. \A a : [v \in Vals(R, a) |-> Count(R, a, v)] = [v \in Vals(S, a) |-> Count(S, a, v)]
  BY <1>2, <1>3
<1>. QED
  BY <1>5, <1>6, <1>7

-----------------------------------------------------------------------------
(* The truth at a position, read off the rows. *)

LiveAt(e, p) == {r \in rows : r.e = e /\ r.recPos <= p /\ (r.retPos = Null \/ r.retPos > p)}

\* What the journal says was live at p is what the marks on the rows say.
LEMMA TruthIsLive ==
    ASSUME RowsOK, JournalInv, NEW e, NEW p \in Nat
    PROVE  Truth(e, p) = triplesToAttributeMap(LiveAt(e, p))
<1> DEFINE js == {j \in journal : j.pos <= p}
           chs == UNION {j.changes : j \in js}
           asserted == {ch.id : ch \in {x \in chs : x.op = "assert" /\ x.e = e}}
           retracted == {ch.id : ch \in {x \in chs : x.op = "retract" /\ x.e = e}}
<1>0. Null \notin Int
  BY SqlAssumption
<1>1. TruthIds(e, p) = asserted \ retracted
  BY DEF TruthIds
<1>2. \A ch : ch \in chs <=> \E j \in journal : j.pos <= p /\ ch \in j.changes
  OBVIOUS
<1>3. \A i : i \in asserted <=> \E ch \in chs : ch.op = "assert" /\ ch.e = e /\ ch.id = i
  OBVIOUS
<1>4. \A i : i \in retracted <=> \E ch \in chs : ch.op = "retract" /\ ch.e = e /\ ch.id = i
  OBVIOUS
<1>. HIDE DEF chs, asserted, retracted
<1>5. \A op, r : Change(op, r).op = op /\ Change(op, r).id = r.id /\ Change(op, r).e = r.e
  BY DEF Change
<1>6. ASSUME NEW r \in rows
      PROVE  /\ r.recPos \in Nat
             /\ r.retPos = Null \/ r.retPos \in Nat
  BY DEF RowsOK, RowOK, Unretracted
<1>7. ASSUME NEW r \in rows PROVE r.id \in asserted <=> r.e = e /\ r.recPos <= p
  <2>1. ASSUME r.id \in asserted PROVE r.e = e /\ r.recPos <= p
    <3>1. PICK ch \in chs : ch.op = "assert" /\ ch.e = e /\ ch.id = r.id
      BY <1>3, <2>1
    <3>2. PICK j \in journal : j.pos <= p /\ ch \in j.changes
      BY <1>2, <3>1
    <3>3. PICK q \in rows : \/ ch = Change("assert", q) /\ q.recPos = j.pos
                            \/ ch = Change("retract", q) /\ q.retPos = j.pos
      BY <3>2 DEF JournalInv, MarksOK
    <3>4. ch = Change("assert", q) /\ q.recPos = j.pos
      BY <1>5, <3>1, <3>3
    <3>5. q = r
      BY <1>5, <3>1, <3>4 DEF RowsOK, DistinctIds
    <3>. QED
      BY <1>5, <3>1, <3>2, <3>4, <3>5
  <2>2. ASSUME r.e = e, r.recPos <= p PROVE r.id \in asserted
    <3>1. PICK j \in journal : Asserts(j, r)
      BY DEF JournalInv, MarksOK
    <3>2. j.pos <= p /\ Change("assert", r) \in j.changes
      BY <2>2, <3>1 DEF Asserts
    <3>3. Change("assert", r) \in chs
      BY <1>2, <3>2
    <3>. QED
      BY <1>3, <1>5, <2>2, <3>3
  <2>. QED
    BY <2>1, <2>2
<1>8. ASSUME NEW r \in rows, r.e = e PROVE r.id \in retracted <=> r.retPos # Null /\ r.retPos <= p
  <2>1. ASSUME r.id \in retracted PROVE r.retPos # Null /\ r.retPos <= p
    <3>1. PICK ch \in chs : ch.op = "retract" /\ ch.e = e /\ ch.id = r.id
      BY <1>4, <2>1
    <3>2. PICK j \in journal : j.pos <= p /\ ch \in j.changes
      BY <1>2, <3>1
    <3>3. PICK q \in rows : \/ ch = Change("assert", q) /\ q.recPos = j.pos
                            \/ ch = Change("retract", q) /\ q.retPos = j.pos
      BY <3>2 DEF JournalInv, MarksOK
    <3>4. ch = Change("retract", q) /\ q.retPos = j.pos
      BY <1>5, <3>1, <3>3
    <3>5. q = r
      BY <1>5, <3>1, <3>4 DEF RowsOK, DistinctIds
    <3>6. j.pos \in Int
      BY <3>2 DEF JournalInv, JournalOK
    <3>. QED
      BY <1>0, <3>2, <3>4, <3>5, <3>6
  <2>2. ASSUME r.retPos # Null, r.retPos <= p PROVE r.id \in retracted
    <3>1. PICK j \in journal : Retracts(j, r)
      BY <2>2 DEF JournalInv, MarksOK
    <3>2. j.pos <= p /\ Change("retract", r) \in j.changes
      BY <2>2, <3>1 DEF Retracts
    <3>3. Change("retract", r) \in chs
      BY <1>2, <3>2
    <3>. QED
      BY <1>4, <1>5, <1>8, <3>3
  <2>. QED
    BY <2>1, <2>2
<1>9. {r \in rows : r.id \in TruthIds(e, p)} = LiveAt(e, p)
  <2>1. ASSUME NEW r \in rows
        PROVE  r.id \in TruthIds(e, p)
                 <=> r.e = e /\ r.recPos <= p /\ (r.retPos = Null \/ r.retPos > p)
    <3>1. r.retPos # Null => (r.retPos <= p <=> ~(r.retPos > p))
      BY <1>6
    <3>. QED
      BY <1>1, <1>7, <1>8, <3>1
  <2>. QED
    BY <2>1 DEF LiveAt
<1>. QED
  BY <1>9 DEF Truth

\* The same as a fact about a state,
LEMMA TruthNow ==
    RowsOK /\ JournalInv => \A e : \A p \in Nat : Truth(e, p) = triplesToAttributeMap(LiveAt(e, p))
BY TruthIsLive

\* and about the state after a step.
LEMMA TruthThen ==
    ASSUME RowsOK', JournalInv'
    PROVE  \A e : \A p \in Nat : Truth(e, p)' = triplesToAttributeMap(LiveAt(e, p))'
<1>1. (RowsOK /\ JournalInv => \A e : \A p \in Nat : Truth(e, p) = triplesToAttributeMap(LiveAt(e, p)))'
  BY TruthNow, PTL
<1>. QED
  BY <1>1

\* The position of a journaled transaction is that of its record.
LEMMA PositionOf ==
    ASSUME JournalOK, NEW j \in journal
    PROVE  Position(j.tx) = j.pos /\ j.pos # Null
<1>1. PICK tx : tx = j.tx
  OBVIOUS
<1>2. \A k \in journal : k.tx = tx => k = j
  BY <1>1 DEF JournalOK
<1>3. (CHOOSE k \in journal : k.tx = tx) = j
  BY <1>1, <1>2
<1>4. Position(tx) = j.pos
  BY <1>1, <1>3 DEF Position
<1>5. j.pos # Null
  BY SqlAssumption DEF JournalOK
<1>. QED
  BY <1>1, <1>4, <1>5

\* materialize cuts the history exactly at the position of its basis.
LEMMA ReconstructExact ==
    ASSUME RowsOK, JournalInv, NEW j \in journal, NEW tx, tx = j.tx, NEW e, NEW t
    PROVE  Reconstruct(e, tx, t) = LiveAt(e, j.pos)
<1>0. JournalOK /\ MarksOK /\ Null \notin Int
  BY SqlAssumption DEF JournalInv
<1>1. {k \in journal : k.tx = tx} = {j}
  BY <1>0 DEF JournalOK
<1>2. Reconstruct(e, tx, t) = exactCommitBasis(e, j)
  BY <1>1 DEF Reconstruct
<1>3. ASSUME NEW r \in rows
      PROVE  /\ ByBasis(Position(r.tx), r.recAt, r.tx, j) <=> r.recPos <= j.pos
             /\ (r.retAt # Null /\ ByBasis(Position(r.retTx), r.retAt, r.retTx, j))
                  <=> (r.retPos # Null /\ r.retPos <= j.pos)
  <2>1. PICK k \in journal : Asserts(k, r)
    BY <1>0 DEF MarksOK
  <2>2. Position(r.tx) = r.recPos /\ r.recPos # Null
    <3>1. Position(k.tx) = k.pos /\ k.pos # Null
      BY <1>0, PositionOf
    <3>. QED
      BY <2>1, <3>1 DEF Asserts
  <2>3. r.retPos # Null <=> r.retAt # Null
    BY <1>0 DEF RowsOK, RowOK, Unretracted
  <2>4. ASSUME r.retPos # Null PROVE Position(r.retTx) = r.retPos
    <3>1. PICK i \in journal : Retracts(i, r)
      BY <1>0, <2>4 DEF MarksOK
    <3>2. Position(i.tx) = i.pos
      BY <1>0, PositionOf
    <3>. QED
      BY <3>1, <3>2 DEF Retracts
  <2>. QED
    BY <2>2, <2>3, <2>4 DEF ByBasis
<1>4. ASSUME NEW r \in rows PROVE r.retPos # Null => (r.retPos <= j.pos <=> ~(r.retPos > j.pos))
  <2>1. r.retPos = Null \/ r.retPos \in Int
    BY DEF RowsOK, RowOK, Unretracted
  <2>2. j.pos \in Int
    BY <1>0 DEF JournalOK
  <2>. QED
    BY <2>1, <2>2
<1>5. exactCommitBasis(e, j) = LiveAt(e, j.pos)
  <2>1. \A r \in rows : ~(r.retAt # Null /\ ByBasis(Position(r.retTx), r.retAt, r.retTx, j))
                          <=> (r.retPos = Null \/ r.retPos > j.pos)
    BY <1>3, <1>4
  <2>. QED
    BY <1>3, <2>1 DEF exactCommitBasis, LiveAt
<1>. QED
  BY <1>2, <1>5

\* A commit leaves the truth at every earlier position alone.
LEMMA TruthStable ==
    ASSUME RowsOK, JournalInv, RowsOK', JournalInv', NEW w \in Writers, NEW c, Commits(w, c),
           NEW e, NEW p \in 0..position
    PROVE  Truth(e, p)' = Truth(e, p)
<1>1. PICK c0 : c0 = call[w]
  OBVIOUS
<1>2. Holder(c0) /\ LoopOK(c, c0) /\ rows' = Overlay(c)
  BY <1>1 DEF Commits
<1>3. c.pos = position + 1 /\ position \in Nat /\ p \in Nat
  BY <1>2, HolderNumbers DEF LoopOK, RowsOK
<1>4. \A r \in c.new : r.recPos = position + 1
  BY <1>2, <1>3 DEF LoopOK, NewOK
<1>5. PICK R : R = LiveAt(e, p)
  OBVIOUS
<1>6. PICK S : S = {r \in rows' : r.e = e /\ r.recPos <= p /\ (r.retPos = Null \/ r.retPos > p)}
  OBVIOUS
<1>7. ASSUME NEW s \in S PROVE \E r \in R : Alike(r, s)
  <2>1. s \in Overlay(c) /\ s.e = e /\ s.recPos <= p /\ (s.retPos = Null \/ s.retPos > p)
    BY <1>2, <1>6
  <2>2. PICK r \in rows \cup c.new : Became(s, r, c)
    BY <1>2, <2>1, OverlayRows
  <2>3. s.id = r.id /\ s.a = r.a /\ s.v = r.v /\ s.e = r.e /\ s.recPos = r.recPos
    BY <2>2 DEF Became, SameFact
  <2>4. r \in rows
    BY <1>3, <1>4, <2>1, <2>3
  <2>5. r.retPos = Null \/ r.retPos > p
    BY <2>1, <2>2 DEF Became, Unretracted
  <2>. QED
    BY <1>5, <2>1, <2>3, <2>4, <2>5 DEF LiveAt, Alike
<1>8. ASSUME NEW r \in R PROVE \E s \in S : Alike(r, s)
  <2>1. r \in rows /\ r.e = e /\ r.recPos <= p /\ (r.retPos = Null \/ r.retPos > p)
    BY <1>5 DEF LiveAt
  <2>2. PICK s \in Overlay(c) : Became(s, r, c)
    BY <1>2, <2>1, OverlayRows
  <2>3. s.id = r.id /\ s.a = r.a /\ s.v = r.v /\ s.e = r.e /\ s.recPos = r.recPos
    BY <2>2 DEF Became, SameFact
  <2>4. s.retPos = Null \/ s.retPos > p
    BY <1>3, <2>1, <2>2 DEF Became
  <2>. QED
    BY <1>2, <1>6, <2>1, <2>2, <2>3, <2>4 DEF Alike
<1>9. IsFiniteSet(R) /\ DistinctIds(R)
  BY <1>5, FS_Subset DEF RowsOK, LiveAt, DistinctIds
<1>10. IsFiniteSet(S) /\ DistinctIds(S)
  BY <1>6, FS_Subset DEF RowsOK, DistinctIds
<1>11. triplesToAttributeMap(R) = triplesToAttributeMap(S)
  BY <1>7, <1>8, <1>9, <1>10, SameMap
<1>12. Truth(e, p) = triplesToAttributeMap(R)
  BY <1>3, <1>5, TruthIsLive
<1>13. Truth(e, p)' = triplesToAttributeMap(S)
  <2>1. Truth(e, p)' = triplesToAttributeMap(LiveAt(e, p))'
    BY <1>3, TruthThen
  <2>2. LiveAt(e, p)' = S
    BY <1>6 DEF LiveAt
  <2>3. triplesToAttributeMap(LiveAt(e, p))' = triplesToAttributeMap(LiveAt(e, p)')
    BY DEF triplesToAttributeMap
  <2>. QED
    BY <2>1, <2>2, <2>3
<1>. QED
  BY <1>11, <1>12, <1>13


-----------------------------------------------------------------------------
(* What a step keeps of the history. *)

Kept ==
    /\ \A j \in journal : j \in journal'
    /\ \A j \in journal : \A e : Truth(e, j.pos)' = Truth(e, j.pos)
    /\ \A k \in journal' : k \in journal \/ \E w \in Writers : Open(w) /\ k.tx = call[w].tx

\* No step takes a record back or changes the truth at its position.
LEMMA NextKept ==
    ASSUME Journaled, RowInv, JournalInv, RowInv', JournalInv', [Next]_vars
    PROVE  Kept
<1>1. CASE UNCHANGED <<rows, position, journal>>
  <2>1. \A e : \A p : Truth(e, p)' = Truth(e, p)
    BY <1>1 DEF Truth, TruthIds, triplesToAttributeMap
  <2>. QED
    BY <1>1, <2>1 DEF Kept
<1>2. ASSUME NEW w \in Writers, NEW c, Commits(w, c) PROVE Kept
  <2>1. journal' = journal \cup {Record(c)}
    BY <1>2, CommitJournals
  <2>2. Record(c).tx = call[w].tx /\ Open(w)
    BY <1>2 DEF Record, Commits, LoopOK, Holder, Open
  <2>3. RowsOK /\ RowsOK'
    BY DEF RowInv
  <2>4. \A j \in journal : j.pos \in 0..position
    BY <2>3 DEF JournalInv, JournalOK, RowsOK
  <2>5. ASSUME NEW j \in journal, NEW e PROVE Truth(e, j.pos)' = Truth(e, j.pos)
    <3>1. PICK p : p = j.pos
      OBVIOUS
    <3>2. Truth(e, p)' = Truth(e, p)
      BY <1>2, <2>3, <2>4, <3>1, TruthStable
    <3>. QED
      BY <3>1, <3>2
  <2>. QED
    BY <2>1, <2>2, <2>5 DEF Kept
<1>. QED
  BY <1>1, <1>2, NextShape

-----------------------------------------------------------------------------
(* Snapshots and the backfill under a step. *)

\* A snapshot stays right when later transactions commit.
LEMMA SnapStays ==
    ASSUME Kept, RowsOK, OpensFresh, SnapsOK, NEW s \in snaps
    PROVE  SnapOK(s)'
<1>1. SnapOK(s) /\ \A w \in Writers : Open(w) => s.tx # call[w].tx
  BY DEF SnapsOK
<1>2. s.tx \in 1..began'
  BY <1>1 DEF SnapOK, OpensFresh, RowsOK
<1>3. CASE \E j \in journal : j.tx = s.tx /\ j.pos = s.pos /\ j.at = s.time /\ s.state = Truth(s.e, j.pos)
  <2>1. PICK j \in journal : j.tx = s.tx /\ j.pos = s.pos /\ j.at = s.time /\ s.state = Truth(s.e, j.pos)
    BY <1>3
  <2>2. j \in journal' /\ s.state = Truth(s.e, j.pos)'
    BY <2>1 DEF Kept
  <2>. QED
    BY <1>1, <1>2, <2>1, <2>2 DEF SnapOK
<1>4. CASE s.pos = Null /\ \A j \in journal : j.tx # s.tx
  <2>1. \A j \in journal' : j.tx # s.tx
    BY <1>1, <1>4 DEF Kept
  <2>. QED
    BY <1>1, <1>2, <1>4, <2>1 DEF SnapOK
<1>. QED
  BY <1>1, <1>3, <1>4 DEF SnapOK

LEMMA SnapsStay ==
    ASSUME Kept, RowsOK, OpensFresh, SnapsOK, snaps' = snaps
    PROVE  SnapsOK'
<1>1. \A s \in snaps : SnapOK(s)'
  BY SnapStays
<1>2. \A w \in Writers : Open(w)' => \A s \in snaps : s.tx # call'[w].tx
  <2>1. ASSUME NEW s \in snaps PROVE s.tx # began + 1
    <3>1. SnapOK(s) /\ began \in Nat
      BY DEF SnapsOK, RowsOK
    <3>2. s.tx \in 1..began
      BY <3>1 DEF SnapOK
    <3>. QED
      BY <3>1, <3>2
  <2>. QED
    BY <2>1 DEF SnapsOK, OpensFresh
<1>. QED
  BY <1>1, <1>2 DEF SnapsOK

LEMMA FillStays ==
    ASSUME Kept, RowsOK, OpensFresh, FillOK, UNCHANGED <<snaps, fill>>
    PROVE  FillOK'
<1>1. CASE fill.at = "run"
  <2>1. fill.tx \in 1..began'
    BY <1>1 DEF FillOK, OpensFresh, RowsOK
  <2>2. \A j \in journal' : j.tx # fill.tx
    BY <1>1 DEF FillOK, Kept
  <2>3. \A w \in Writers : Open(w)' => fill.tx # call'[w].tx
    BY <1>1 DEF FillOK, OpensFresh, RowsOK
  <2>. QED
    BY <1>1, <2>1, <2>2, <2>3 DEF FillOK
<1>2. CASE fill.at = "none"
  BY <1>2 DEF FillOK
<1>. QED
  BY <1>1, <1>2 DEF FillOK

\* A right row can be upserted.
LEMMA SnapsAdd ==
    ASSUME Kept, RowsOK, OpensFresh, SnapsOK, UNCHANGED svars, NEW row, SnapOK(row)',
           \A s \in snaps : s.tx = row.tx => s.time = row.time,
           \A w \in Writers : Open(w) => row.tx # call[w].tx,
           snaps' = Upsert(snaps, row)
    PROVE  SnapsOK'
<1>0. UNCHANGED <<call, journal, began, rows>>
  BY DEF svars
<1>1. PICK A : A = {s \in snaps : s.e # row.e \/ s.tx # row.tx}
  OBVIOUS
<1>2. snaps' = A \cup {row} /\ A \subseteq snaps
  BY <1>1 DEF Upsert
<1>3. IsFiniteSet(snaps')
  <2>1. IsFiniteSet(A)
    BY <1>2, FS_Subset DEF SnapsOK
  <2>. QED
    BY <1>2, <2>1, FS_AddElement
<1>4. \A s \in snaps' : SnapOK(s)'
  BY <1>2, SnapStays
<1>5. \A s, q \in snaps' : s.tx = q.tx => s.time = q.time /\ (s.e = q.e => s = q)
  BY <1>1, <1>2 DEF SnapsOK
<1>6. \A w \in Writers : Open(w)' => \A s \in snaps' : s.tx # call'[w].tx
  BY <1>0, <1>2 DEF SnapsOK, Open
<1>. QED
  BY <1>3, <1>4, <1>5, <1>6 DEF SnapsOK

KeysKept == \A e, tx : snapAt(e, tx) # {} => snapAt(e, tx)' # {}

\* An upsert loses no entity and transaction that had a snapshot.
LEMMA UpsertKeys ==
    ASSUME NEW row, snaps' = Upsert(snaps, row)
    PROVE  KeysKept /\ snapAt(row.e, row.tx)' # {}
<1>1. row \in snaps' /\ \A s \in snaps : s \in snaps' \/ (s.e = row.e /\ s.tx = row.tx)
  BY DEF Upsert
<1>2. \A e, tx : snapAt(e, tx)' = {s \in snaps' : s.e = e /\ s.tx = tx}
  BY DEF snapAt
<1>3. ASSUME NEW e, NEW tx, snapAt(e, tx) # {} PROVE snapAt(e, tx)' # {}
  <2>1. PICK s \in snaps : s.e = e /\ s.tx = tx
    BY <1>3 DEF snapAt
  <2>2. s \in snaps' \/ (row.e = e /\ row.tx = tx)
    BY <1>1, <2>1
  <2>. QED
    BY <1>1, <1>2, <2>1, <2>2
<1>. QED
  BY <1>1, <1>2, <1>3 DEF KeysKept

LEMMA SameKeys ==
    ASSUME snaps' = snaps
    PROVE  KeysKept
BY DEF KeysKept, snapAt

-----------------------------------------------------------------------------
(* The writers' plans under a step. *)

WriterOK(p, c) ==
    /\ p.at = "project" => ProjectOK(p, c)
    /\ c.at = "committed" => \E j \in journal : j.tx = c.tx /\ j.at = c.now

\* A projection under way stays right when others write.
LEMMA ProjectStays ==
    ASSUME Kept, KeysKept, NEW p, NEW c, ProjectOK(p, c)
    PROVE  ProjectOK(p, c)'
<1>1. \E j \in journal' : j.tx = p.tx /\ j.at = p.time
  BY DEF ProjectOK, Kept
<1>2. ASSUME p.read # Null PROVE ReadOK(p)'
  <2>1. PICK j \in journal : j.tx = p.tx /\ p.read.state = Truth(p.read.e, j.pos)
    BY <1>2 DEF ProjectOK, ReadOK
  <2>2. j \in journal' /\ p.read.state = Truth(p.read.e, j.pos)'
    BY <2>1 DEF Kept
  <2>. QED
    BY <1>2, <2>1, <2>2 DEF ProjectOK, ReadOK
<1>3. ASSUME c.kind # "retractByPattern", NEW ch \in c.changes
      PROVE  ch.e \in p.todo \/ snapAt(ch.e, c.tx)' # {}
  BY <1>3 DEF ProjectOK, KeysKept
<1>. QED
  BY <1>1, <1>2, <1>3 DEF ProjectOK

LEMMA WriterStays ==
    ASSUME Kept, KeysKept, NEW p, NEW c, WriterOK(p, c)
    PROVE  WriterOK(p, c)'
<1>1. c.at = "committed" => \E j \in journal' : j.tx = c.tx /\ j.at = c.now
  BY DEF WriterOK, Kept
<1>2. p.at = "project" => ProjectOK(p, c)'
  BY ProjectStays DEF WriterOK
<1>. QED
  BY <1>1, <1>2 DEF WriterOK

WritersOK == \A w \in Writers : WriterOK(plan[w], call[w])

LEMMA WritersStay ==
    ASSUME Kept, KeysKept, WritersOK, UNCHANGED <<call, plan>>
    PROVE  WritersOK'
<1>1. ASSUME NEW w \in Writers PROVE WriterOK(plan[w], call[w])'
  <2>1. PICK p, c : p = plan[w] /\ c = call[w]
    OBVIOUS
  <2>2. WriterOK(p, c)'
    BY <2>1, WriterStays DEF WritersOK
  <2>. QED
    BY <2>1, <2>2
<1>. QED
  BY <1>1 DEF WritersOK

LEMMA WriterMoves ==
    ASSUME Kept, KeysKept, WritersOK, NEW w \in Writers,
           \A v \in Writers \ {w} : call'[v] = call[v] /\ plan'[v] = plan[v],
           NEW p, NEW c, p = plan'[w], c = call'[w], WriterOK(p, c)'
    PROVE  WritersOK'
<1>1. ASSUME NEW v \in Writers PROVE WriterOK(plan[v], call[v])'
  <2>1. CASE v = w
    BY <2>1
  <2>2. CASE v # w
    <3>1. PICK q, d : q = plan[v] /\ d = call[v]
      OBVIOUS
    <3>2. WriterOK(q, d)'
      BY <3>1, WriterStays DEF WritersOK
    <3>. QED
      BY <2>2, <3>1, <3>2
  <2>. QED
    BY <2>1, <2>2
<1>. QED
  BY <1>1 DEF WritersOK

-----------------------------------------------------------------------------
(* Every step preserves the projections' invariant. *)

LEMMA ProjectionParts ==
    ProjectionInv <=> SnapsOK /\ FillOK /\ WritersOK
BY DEF ProjectionInv, WritersOK, WriterOK

LEMMA ProjectionPartsNext ==
    ProjectionInv' <=> SnapsOK' /\ FillOK' /\ WritersOK'
BY DEF ProjectionInv, WritersOK, WriterOK

\* A writer that is not projecting and has not just committed owes nothing.
LEMMA NothingOwed ==
    ASSUME NEW p, NEW c, p.at # "project", c.at # "committed"
    PROVE  WriterOK(p, c)'
BY DEF WriterOK

\* The commit leaves the record its projection will start from.
LEMMA WorkingWriters ==
    ASSUME Journaled, RowInv, JournalInv, WritersOK, Kept, KeysKept, NEW w \in Writers, Working(w)
    PROVE  WritersOK'
<1>0. RowsOK /\ CallsOK /\ PlansOK /\ TransactStep(w)
  BY DEF RowInv, Working
<1>1. Open(w) /\ call[w].at # "committed"
  BY <1>0 DEF TransactStep, Claim, nextCommitPosition, Run, Abort, Open
<1>2. plan[w].at # "project"
  BY <1>1 DEF WritersOK, WriterOK, ProjectOK
<1>3. PICK p, c : p = plan'[w] /\ c = call'[w]
  OBVIOUS
<1>4. p.at # "project" /\ \A v \in Writers \ {w} : plan'[v] = plan[v]
  BY <1>0, <1>2, <1>3 DEF Working, PlansOK, NoPlan
<1>5. \A v \in Writers \ {w} : call'[v] = call[v]
  BY <1>0 DEF TransactStep, Claim, nextCommitPosition, Run, Abort, Rollback, CallsOK
<1>6. CASE c.at # "committed"
  BY <1>3, <1>4, <1>5, <1>6, NothingOwed, WriterMoves
<1>7. CASE c.at = "committed"
  <2>1. PICK k : Commits(w, k)
    BY <1>0, <1>3, <1>7, TransactFresh
  <2>2. Record(k) \in journal'
    BY <2>1, CommitJournals
  <2>3. c = Outcome(k)
    BY <1>0, <1>3, <2>1 DEF Commits, CallsOK
  <2>4. c.tx = k.tx /\ c.now = k.now
    BY <1>7, <2>3 DEF Outcome, Idle
  <2>5. Record(k).tx = c.tx /\ Record(k).at = c.now
    BY <2>4 DEF Record
  <2>6. WriterOK(p, c)'
    BY <1>4, <2>2, <2>5 DEF WriterOK
  <2>. QED
    BY <1>3, <1>4, <1>5, <2>6, WriterMoves
<1>. QED
  BY <1>6, <1>7

\* A plan that is about to project starts from a journaled transaction.
LEMMA ProjectingWriter ==
    ASSUME CallsOK, PlansOK, WritersOK, Kept, KeysKept, NEW w \in Writers, call' = call,
           NEW tx, NEW time, NEW ents, Projecting(w, tx, time, ents), call[w].at = "committed",
           \E j \in journal : j.tx = tx /\ j.at = time,
           call[w].kind # "retractByPattern" => tx = call[w].tx /\ \A ch \in call[w].changes : ch.e \in ents
    PROVE  WritersOK'
<1>1. PICK p, c : p = plan'[w] /\ c = call[w]
  OBVIOUS
<1>2. p = [at |-> "project", tx |-> tx, time |-> time, todo |-> ents, read |-> Null]
  BY <1>1 DEF Projecting, PlansOK
<1>3. \A v \in Writers \ {w} : plan'[v] = plan[v]
  BY DEF Projecting, PlansOK
<1>4. p.tx = tx /\ p.time = time /\ p.todo = ents /\ p.read = Null
  BY <1>2
<1>5. ProjectOK(p, c)
  BY <1>1, <1>4 DEF ProjectOK
<1>6. WriterOK(p, c)
  BY <1>1, <1>5 DEF WritersOK, WriterOK
<1>7. WriterOK(p, c)'
  BY <1>6, WriterStays
<1>. QED
  BY <1>1, <1>3, <1>7, WriterMoves

\* The basis of a projection is journaled, its own or the retraction it found.
LEMMA AfterCommitWriters ==
    ASSUME RowInv, JournalInv, WritersOK, Kept, KeysKept, NEW w \in Writers, AfterCommit(w)
    PROVE  WritersOK'
<1>0. RowsOK /\ CallsOK /\ PlansOK /\ call' = call /\ call[w].at = "committed"
  BY DEF RowInv, AfterCommit, svars
<1>1. \E j \in journal : j.tx = call[w].tx /\ j.at = call[w].now
  BY <1>0 DEF WritersOK, WriterOK
<1>2. CASE call[w].kind = "retractByPattern" /\ plan[w].anchor = Null
  <2>1. Projecting(w, call[w].tx, call[w].now, {})
    BY <1>2 DEF AfterCommit
  <2>. QED
    BY <1>0, <1>1, <1>2, <2>1, ProjectingWriter
<1>3. CASE call[w].kind = "retractByPattern" /\ plan[w].anchor # Null
  <2>1. PICK metas : /\ metas = resolveRetractionMeta(plan[w].anchor)
                     /\ IF metas = {} THEN plan' = [plan EXCEPT ![w] = [at |-> "failed"]]
                        ELSE \E m \in metas : Projecting(w, m.tx, m.time, plan[w].ents)
    BY <1>3 DEF AfterCommit
  <2>2. CASE metas = {}
    <3>1. PICK p, c : p = plan'[w] /\ c = call[w]
      OBVIOUS
    <3>2. p.at = "failed" /\ \A v \in Writers \ {w} : plan'[v] = plan[v]
      BY <1>0, <2>1, <2>2, <3>1 DEF PlansOK
    <3>3. WriterOK(p, c)
      BY <3>1, <3>2 DEF WritersOK, WriterOK
    <3>4. WriterOK(p, c)'
      BY <3>3, WriterStays
    <3>. QED
      BY <1>0, <3>1, <3>2, <3>4, WriterMoves
  <2>3. CASE metas # {}
    <3>1. PICK m \in metas : Projecting(w, m.tx, m.time, plan[w].ents)
      BY <2>1, <2>3
    <3>2. PICK r \in rows : r.retTx # Null /\ m = [tx |-> r.retTx, time |-> r.retAt]
      BY <2>1, <3>1 DEF resolveRetractionMeta
    <3>3. r.retPos # Null
      BY <1>0, <3>2, SqlAssumption DEF RowsOK, RowOK, Unretracted
    <3>4. PICK j \in journal : Retracts(j, r)
      BY <3>3 DEF JournalInv, MarksOK
    <3>5. j.tx = m.tx /\ j.at = m.time
      BY <3>2, <3>4 DEF Retracts
    <3>6. PICK tx, time, ents : tx = m.tx /\ time = m.time /\ ents = plan[w].ents
      OBVIOUS
    <3>. QED
      BY <1>0, <1>3, <3>1, <3>5, <3>6, ProjectingWriter
  <2>. QED
    BY <2>2, <2>3
<1>4. CASE call[w].kind # "retractByPattern"
  <2>1. Projecting(w, call[w].tx, call[w].now, TouchedEntities(call[w]))
    BY <1>4 DEF AfterCommit
  <2>2. \A ch \in call[w].changes : ch.e \in TouchedEntities(call[w])
    BY DEF TouchedEntities
  <2>. QED
    BY <1>0, <1>1, <2>1, <2>2, ProjectingWriter
<1>. QED
  BY <1>2, <1>3, <1>4

\* What a projection reads is the truth at the position of its basis.
LEMMA ReadHistoryWriters ==
    ASSUME RowInv, JournalInv, WritersOK, Kept, KeysKept, NEW w \in Writers, ReadHistory(w)
    PROVE  WritersOK'
<1>0. RowsOK /\ CallsOK /\ PlansOK /\ call' = call
  BY DEF RowInv, ReadHistory, svars
<1>1. PICK p, c : p = plan[w] /\ c = call[w]
  OBVIOUS
<1>2. p.at = "project" /\ p.todo # {} /\ ProjectOK(p, c) /\ WriterOK(p, c)
  BY <1>1 DEF ReadHistory, WritersOK, WriterOK
<1>3. p = [at |-> "project", tx |-> p.tx, time |-> p.time, todo |-> p.todo, read |-> p.read]
  BY <1>0, <1>1, <1>2 DEF PlansOK
<1>4. PICK e : e \in p.todo /\ e = CHOOSE x \in p.todo : TRUE
  BY <1>2
<1>5. PICK st : st = triplesToAttributeMap(Reconstruct(e, p.tx, p.time))
  OBVIOUS
<1>6. PICK rd : rd = [e |-> e, state |-> st]
  OBVIOUS
<1>7. plan' = [plan EXCEPT ![w].read = rd]
  BY <1>1, <1>4, <1>5, <1>6 DEF ReadHistory
<1>8. PICK q : q = plan'[w]
  OBVIOUS
<1>9. q = [p EXCEPT !.read = rd] /\ \A v \in Writers \ {w} : plan'[v] = plan[v]
  BY <1>0, <1>1, <1>7, <1>8 DEF PlansOK
<1>10. q = [at |-> "project", tx |-> p.tx, time |-> p.time, todo |-> p.todo, read |-> rd]
  BY <1>3, <1>9
<1>11. PICK j \in journal : j.tx = p.tx /\ j.at = p.time
  BY <1>2 DEF ProjectOK
<1>12. st = Truth(e, j.pos)
  <2>1. PICK tx, t : tx = p.tx /\ t = p.time
    OBVIOUS
  <2>2. Reconstruct(e, tx, t) = LiveAt(e, j.pos)
    BY <1>0, <1>11, <2>1, ReconstructExact
  <2>3. Truth(e, j.pos) = triplesToAttributeMap(LiveAt(e, j.pos))
    <3>1. PICK n : n = j.pos
      OBVIOUS
    <3>2. n \in Nat
      BY <3>1 DEF JournalInv, JournalOK
    <3>. QED
      BY <1>0, <3>1, <3>2, TruthNow
  <2>. QED
    BY <1>5, <2>1, <2>2, <2>3
<1>13. st = [a \in DOMAIN st |-> st[a]]
  BY <1>5 DEF triplesToAttributeMap
<1>14. ReadOK(q)
  BY <1>4, <1>6, <1>10, <1>11, <1>12, <1>13 DEF ReadOK
<1>15. ProjectOK(q, c)
  BY <1>2, <1>10, <1>14 DEF ProjectOK
<1>16. WriterOK(q, c)
  BY <1>2, <1>15 DEF WriterOK
<1>17. WriterOK(q, c)'
  BY <1>16, WriterStays
<1>. QED
  BY <1>0, <1>1, <1>8, <1>9, <1>17, WriterMoves

\* The snapshot a projection writes, however late, is right.
LEMMA InsertKeeps ==
    ASSUME RowInv, JournalInv, SnapsOK, FillOK, WritersOK, Kept, OpensFresh, NEW w \in Writers, Insert(w)
    PROVE  SnapsOK' /\ FillOK' /\ WritersOK'
<1>0. RowsOK /\ CallsOK /\ PlansOK /\ JournalOK /\ UNCHANGED svars /\ UNCHANGED <<call, journal, began, rows, fill>>
  BY DEF RowInv, JournalInv, Insert, svars
<1>1. PICK p, c : p = plan[w] /\ c = call[w]
  OBVIOUS
<1>2. p.at = "project" /\ p.read # Null /\ ProjectOK(p, c) /\ WriterOK(p, c)
  BY <1>1 DEF Insert, WritersOK, WriterOK
<1>3. p = [at |-> "project", tx |-> p.tx, time |-> p.time, todo |-> p.todo, read |-> p.read]
  BY <1>0, <1>1, <1>2 DEF PlansOK
<1>4. PICK j \in journal : j.tx = p.tx /\ j.at = p.time
  BY <1>2 DEF ProjectOK
<1>5. PICK x, st : x = p.read.e /\ st = p.read.state
  OBVIOUS
<1>6. st = [a \in DOMAIN st |-> st[a]] /\ st = Truth(x, j.pos)
  <2>1. ReadOK(p)
    BY <1>2 DEF ProjectOK
  <2>2. PICK k \in journal : k.tx = p.tx /\ p.read.state = Truth(p.read.e, k.pos)
    BY <2>1 DEF ReadOK
  <2>3. k = j
    BY <1>0, <1>4, <2>2 DEF JournalOK
  <2>4. st = [a \in DOMAIN st |-> st[a]]
    BY <1>5, <2>1 DEF ReadOK
  <2>. QED
    BY <1>5, <2>2, <2>3, <2>4
<1>7. Position(p.tx) = j.pos
  BY <1>0, <1>4, PositionOf
<1>8. PICK row : row = [e |-> x, tx |-> j.tx, pos |-> j.pos, time |-> j.at, state |-> st]
  OBVIOUS
<1>9. row.e = x /\ row.tx = j.tx /\ row.pos = j.pos /\ row.time = j.at /\ row.state = st
  BY <1>8
<1>10. snaps' = Upsert(snaps, row)
  BY <1>1, <1>4, <1>5, <1>7, <1>8 DEF Insert
<1>11. SnapOK(row)'
  <2>1. row = [e |-> row.e, tx |-> row.tx, pos |-> row.pos, time |-> row.time, state |-> row.state]
    BY <1>8
  <2>2. row.tx \in 1..began' /\ row.time \in Int
    BY <1>0, <1>9 DEF JournalOK
  <2>3. j \in journal' /\ row.state = Truth(row.e, j.pos)'
    BY <1>6, <1>9 DEF Kept
  <2>. QED
    BY <1>6, <1>9, <2>1, <2>2, <2>3 DEF SnapOK
<1>12. ASSUME NEW s \in snaps, s.tx = row.tx PROVE s.time = row.time
  <2>1. SnapOK(s)
    BY DEF SnapsOK
  <2>2. \E k \in journal : k.tx = s.tx /\ k.at = s.time
    BY <1>4, <1>9, <1>12, <2>1 DEF SnapOK
  <2>. QED
    BY <1>0, <1>9, <1>12, <2>2 DEF JournalOK
<1>13. \A v \in Writers : Open(v) => row.tx # call[v].tx
  BY <1>0, <1>9 DEF JournalOK
<1>14. SnapsOK'
  BY <1>0, <1>10, <1>11, <1>12, <1>13, SnapsAdd
<1>15. FillOK'
  <2>1. \A s \in snaps' : s \in snaps \/ s = row
    BY <1>10 DEF Upsert
  <2>2. CASE fill.at = "run"
    <3>1. \A k \in journal : k.tx # fill.tx
      BY <2>2 DEF FillOK
    <3>2. \A s \in snaps' : s.tx = fill.tx => s.time = fill.time
      BY <1>9, <2>1, <2>2, <3>1 DEF FillOK
    <3>. QED
      BY <1>0, <2>2, <3>2 DEF FillOK, Open
  <2>3. CASE fill.at # "run"
    BY <1>0, <2>3 DEF FillOK
  <2>. QED
    BY <2>2, <2>3
<1>16. KeysKept /\ snapAt(x, p.tx)' # {}
  <2>1. KeysKept /\ snapAt(row.e, row.tx)' # {}
    BY <1>10, UpsertKeys
  <2>2. PICK tx : tx = p.tx
    OBVIOUS
  <2>3. row.e = x /\ row.tx = tx
    BY <1>4, <1>9, <2>2
  <2>4. snapAt(x, tx)' # {}
    BY <2>1, <2>3 DEF snapAt
  <2>. QED
    BY <2>1, <2>2, <2>4
<1>17. WritersOK'
  <2>1. PICK d : d = p.todo \ {x}
    OBVIOUS
  <2>2. plan' = [plan EXCEPT ![w].todo = d, ![w].read = Null]
    BY <1>1, <1>5, <2>1 DEF Insert
  <2>3. PICK q : q = plan'[w]
    OBVIOUS
  <2>4. q = [p EXCEPT !.todo = d, !.read = Null] /\ \A v \in Writers \ {w} : plan'[v] = plan[v]
    BY <1>0, <1>1, <2>2, <2>3 DEF PlansOK
  <2>5. DOMAIN p = {"at", "tx", "time", "todo", "read"}
    BY <1>3
  <2>6. q.tx = p.tx /\ q.time = p.time /\ q.todo = d /\ q.read = Null /\ q.at = "project"
    BY <1>2, <2>4, <2>5
  <2>7. ProjectOK(p, c)'
    BY <1>2, <1>16, ProjectStays
  <2>8. ASSUME c.kind # "retractByPattern", NEW ch \in c.changes
        PROVE  ch.e \in q.todo \/ snapAt(ch.e, c.tx)' # {}
    <3>1. p.tx = c.tx /\ (ch.e \in p.todo \/ snapAt(ch.e, c.tx)' # {})
      BY <2>7, <2>8 DEF ProjectOK
    <3>2. CASE ch.e = x
      BY <1>16, <3>1, <3>2
    <3>3. CASE ch.e # x
      BY <2>1, <2>6, <3>1, <3>3
    <3>. QED
      BY <3>2, <3>3
  <2>9. ProjectOK(q, c)'
    BY <2>6, <2>7, <2>8 DEF ProjectOK
  <2>10. WriterOK(p, c)'
    BY <1>2, <1>16, WriterStays
  <2>11. WriterOK(q, c)'
    BY <2>9, <2>10 DEF WriterOK
  <2>. QED
    BY <1>0, <1>1, <1>16, <2>3, <2>4, <2>11, WriterMoves
<1>. QED
  BY <1>14, <1>15, <1>17

\* A backfill writes under an id that no transaction has.
LEMMA BackfillEntityKeeps ==
    ASSUME RowInv, JournalInv, SnapsOK, FillOK, WritersOK, Kept, OpensFresh, BackfillEntity
    PROVE  SnapsOK' /\ FillOK' /\ WritersOK'
<1>0. RowsOK /\ UNCHANGED svars /\ UNCHANGED <<call, journal, began, rows, plan>>
  BY DEF RowInv, BackfillEntity, svars
<1>1. fill.at = "run"
  BY DEF BackfillEntity
<1>2. PICK f : f = fill
  OBVIOUS
<1>3. /\ f = [at |-> "run", done |-> f.done, tx |-> f.tx, time |-> f.time, todo |-> f.todo]
      /\ f.tx \in 1..began /\ f.time \in Int
      /\ \A j \in journal : j.tx # f.tx
      /\ \A s \in snaps : s.tx = f.tx => s.time = f.time
      /\ \A w \in Writers : Open(w) => f.tx # call[w].tx
  BY <1>1, <1>2 DEF FillOK
<1>4. PICK e : e = CHOOSE x \in f.todo : TRUE
  OBVIOUS
<1>5. PICK st : st = triplesToAttributeMap(matchAt(e, f.time))
  OBVIOUS
<1>6. PICK row : row = [e |-> e, tx |-> f.tx, pos |-> Null, time |-> f.time, state |-> st]
  OBVIOUS
<1>7. row.tx = f.tx /\ row.pos = Null /\ row.time = f.time /\ row.state = st
  BY <1>6
<1>8. snaps' = Upsert(snaps, row) /\ fill' = [f EXCEPT !.todo = f.todo \ {e}]
  BY <1>2, <1>4, <1>5, <1>6 DEF BackfillEntity
<1>9. SnapOK(row)'
  <2>1. row = [e |-> row.e, tx |-> row.tx, pos |-> row.pos, time |-> row.time, state |-> row.state]
    BY <1>6
  <2>2. st = [a \in DOMAIN st |-> st[a]]
    BY <1>5 DEF triplesToAttributeMap
  <2>3. row.tx \in 1..began' /\ row.time \in Int /\ \A j \in journal' : j.tx # row.tx
    BY <1>0, <1>3, <1>7
  <2>. QED
    BY <1>7, <2>1, <2>2, <2>3 DEF SnapOK
<1>10. SnapsOK'
  BY <1>0, <1>3, <1>7, <1>8, <1>9, SnapsAdd
<1>11. FillOK'
  <2>1. PICK d : d = f.todo \ {e}
    OBVIOUS
  <2>2. PICK g : g = fill'
    OBVIOUS
  <2>3. g = [at |-> "run", done |-> f.done, tx |-> f.tx, time |-> f.time, todo |-> d]
    <3>1. g = [f EXCEPT !.todo = d]
      BY <1>8, <2>1, <2>2
    <3>2. f = [at |-> "run", done |-> f.done, tx |-> f.tx, time |-> f.time, todo |-> f.todo]
      BY <1>3
    <3>. QED
      BY ONLY <3>1, <3>2
  <2>4. g = [at |-> "run", done |-> g.done, tx |-> g.tx, time |-> g.time, todo |-> g.todo]
        /\ g.tx = f.tx /\ g.time = f.time /\ g.at = "run"
    BY <2>3
  <2>5. \A s \in snaps' : s.tx = f.tx => s.time = f.time
    BY <1>3, <1>7, <1>8 DEF Upsert
  <2>. QED
    BY <1>0, <1>3, <2>2, <2>4, <2>5 DEF FillOK, Open
<1>12. WritersOK'
  BY <1>0, <1>8, UpsertKeys, WritersStay
<1>. QED
  BY <1>10, <1>11, <1>12

LEMMA BackfillStartKeeps ==
    ASSUME RowInv, JournalInv, SnapsOK, FillOK, WritersOK, Kept, OpensFresh, NEW now \in Instants, BackfillStart(now)
    PROVE  SnapsOK' /\ FillOK' /\ WritersOK'
<1>0. RowsOK /\ CallsOK /\ JournalOK /\ UNCHANGED <<call, journal, rows, snaps, plan>> /\ began' = began + 1 /\ began \in Nat
  BY DEF RowInv, JournalInv, BackfillStart, RowsOK
<1>1. PICK g : g = fill'
  OBVIOUS
<1>2. PICK n : n = fill.done + 1
  OBVIOUS
<1>3. PICK d : d = Missing
  OBVIOUS
<1>4. g = [at |-> "run", done |-> n, tx |-> began + 1, time |-> now, todo |-> d]
  BY <1>1, <1>2, <1>3 DEF BackfillStart
<1>5. /\ g = [at |-> "run", done |-> g.done, tx |-> g.tx, time |-> g.time, todo |-> g.todo]
      /\ g.tx = began + 1 /\ g.time = now /\ g.at = "run"
  BY <1>4
<1>6. g.tx \in 1..began' /\ g.time \in Int
  BY <1>0, <1>5, SqlAssumption
<1>7. \A j \in journal : j.tx # began + 1
  BY <1>0 DEF JournalOK
<1>8. ASSUME NEW s \in snaps PROVE s.tx # began + 1
  <2>1. SnapOK(s)
    BY DEF SnapsOK
  <2>2. s.tx \in 1..began
    BY <2>1 DEF SnapOK
  <2>. QED
    BY <1>0, <2>2
<1>9. ASSUME NEW v \in Writers, Open(v) PROVE call[v].tx # began + 1
  <2>1. OpenOK(call[v])
    BY <1>0, <1>9 DEF CallsOK
  <2>2. call[v].tx \in 1..began
    BY <2>1 DEF OpenOK
  <2>. QED
    BY <1>0, <2>2
<1>10. FillOK'
  BY <1>0, <1>1, <1>5, <1>6, <1>7, <1>8, <1>9 DEF FillOK, Open
<1>. QED
  BY <1>0, <1>10, SnapsStay, SameKeys, WritersStay

\* The invariant of the projections holds initially.
LEMMA ProjectionInit ==
    Init => ProjectionInv
<1> SUFFICES ASSUME Init PROVE ProjectionInv
  OBVIOUS
<1>1. snaps = {} /\ fill.at = "none" /\ plan = [w \in Writers |-> NoPlan] /\ call = [w \in Writers |-> Idle]
  BY DEF Init, SqlInit
<1>2. \A w \in Writers : plan[w].at = "none" /\ call[w].at = "idle"
  BY <1>1 DEF NoPlan, Idle
<1>3. SnapsOK /\ FillOK
  BY <1>1, FS_EmptySet DEF SnapsOK, FillOK
<1>. QED
  BY <1>2, <1>3 DEF ProjectionInv

\* Every step preserves the invariant of the projections.
LEMMA ProjectionNext ==
    ASSUME Journaled
    PROVE  RowInv /\ JournalInv /\ ProjectionInv /\ RowInv' /\ JournalInv' /\ [Next]_vars => ProjectionInv'
<1> SUFFICES ASSUME RowInv, JournalInv, ProjectionInv, RowInv', JournalInv', [Next]_vars
             PROVE  SnapsOK' /\ FillOK' /\ WritersOK'
  BY ProjectionPartsNext
<1>0. /\ RowsOK /\ CallsOK /\ PlansOK /\ SnapsOK /\ FillOK /\ WritersOK /\ Kept /\ OpensFresh
  BY ProjectionParts, NextKept, NextShape DEF RowInv
<1>1. ASSUME UNCHANGED <<snaps, fill>>, WritersOK' PROVE SnapsOK' /\ FillOK' /\ WritersOK'
  BY <1>0, <1>1, SnapsStay, FillStays
\* One writer moves to a state in which it owes nothing.
<1>2. ASSUME UNCHANGED <<snaps, fill>>, NEW w \in Writers,
             \A v \in Writers \ {w} : call'[v] = call[v] /\ plan'[v] = plan[v],
             plan'[w].at # "project", call'[w].at # "committed"
      PROVE  SnapsOK' /\ FillOK' /\ WritersOK'
  <2>1. PICK p, c : p = plan'[w] /\ c = call'[w]
    OBVIOUS
  <2>2. WriterOK(p, c)'
    BY <1>2, <2>1, NothingOwed
  <2>3. WritersOK'
    BY <1>0, <1>2, <2>1, <2>2, SameKeys, WriterMoves
  <2>. QED
    BY <1>1, <1>2, <2>3
<1>3. ASSUME NEW w \in Writers, NEW t, NEW now, Read(w, t, now) PROVE SnapsOK' /\ FillOK' /\ WritersOK'
  <2>1. UNCHANGED <<snaps, fill, call>> /\ call[w].at = "idle"
    BY <1>3 DEF Read, svars
  <2>2. plan'[w].at = "ready" /\ \A v \in Writers \ {w} : plan'[v] = plan[v]
    BY <1>0, <1>3 DEF Read, PlansOK
  <2>. QED
    BY <1>2, <2>1, <2>2
<1>4. ASSUME NEW w \in Writers, NEW now, Write(w, now) PROVE SnapsOK' /\ FillOK' /\ WritersOK'
  <2>1. UNCHANGED <<snaps, fill>>
    BY <1>4 DEF Write
  <2>2. PICK req : Begin(w, req, now)
    BY <1>4 DEF Write
  <2>3. call'[w].at \in {"idle", "claim"} /\ \A v \in Writers \ {w} : call'[v] = call[v]
    BY <1>0, <2>2 DEF Begin, Rollback, Idle, CallsOK
  <2>4. plan'[w].at # "project" /\ \A v \in Writers \ {w} : plan'[v] = plan[v]
    BY <1>0, <1>4 DEF Write, PlansOK, NoPlan
  <2>. QED
    BY <1>2, <2>1, <2>3, <2>4
<1>5. ASSUME NEW w \in Writers, Working(w) PROVE SnapsOK' /\ FillOK' /\ WritersOK'
  <2>1. UNCHANGED <<snaps, fill>>
    BY <1>5 DEF Working
  <2>. QED
    BY <1>0, <1>1, <1>5, <2>1, SameKeys, WorkingWriters
<1>6. ASSUME NEW w \in Writers, AfterCommit(w) PROVE SnapsOK' /\ FillOK' /\ WritersOK'
  <2>1. UNCHANGED <<snaps, fill>>
    BY <1>6 DEF AfterCommit
  <2>. QED
    BY <1>0, <1>1, <1>6, <2>1, SameKeys, AfterCommitWriters
<1>7. ASSUME NEW w \in Writers, ReadHistory(w) PROVE SnapsOK' /\ FillOK' /\ WritersOK'
  <2>1. UNCHANGED <<snaps, fill>>
    BY <1>7 DEF ReadHistory
  <2>. QED
    BY <1>0, <1>1, <1>7, <2>1, SameKeys, ReadHistoryWriters
<1>8. ASSUME NEW w \in Writers, ProjectionFails(w) PROVE SnapsOK' /\ FillOK' /\ WritersOK'
  <2>1. UNCHANGED <<snaps, fill, call>> /\ plan[w].at = "project"
    BY <1>8 DEF ProjectionFails, svars
  <2>2. plan'[w].at = "failed" /\ \A v \in Writers \ {w} : plan'[v] = plan[v]
    BY <1>0, <1>8 DEF ProjectionFails, PlansOK
  <2>3. PICK p, c : p = plan'[w] /\ c = call[w]
    OBVIOUS
  <2>4. WriterOK(p, c)
    BY <1>0, <2>2, <2>3 DEF WritersOK, WriterOK
  <2>5. WriterOK(p, c)'
    BY <1>0, <2>1, <2>4, SameKeys, WriterStays
  <2>6. WritersOK'
    BY <1>0, <2>1, <2>2, <2>3, <2>5, SameKeys, WriterMoves
  <2>. QED
    BY <1>1, <2>1, <2>6
<1>9. ASSUME NEW w \in Writers, Return(w) PROVE SnapsOK' /\ FillOK' /\ WritersOK'
  <2>1. UNCHANGED <<snaps, fill>>
    BY <1>9 DEF Return
  <2>2. plan'[w].at = "none" /\ call'[w].at = "idle"
        /\ \A v \in Writers \ {w} : plan'[v] = plan[v] /\ call'[v] = call[v]
    BY <1>0, <1>9 DEF Return, PlansOK, CallsOK, NoPlan, Idle
  <2>. QED
    BY <1>2, <2>1, <2>2
<1>10. CASE BackfillEnd
  <2>1. UNCHANGED <<snaps, call, plan>> /\ fill'.at = "none"
    BY <1>10 DEF BackfillEnd, svars
  <2>2. FillOK'
    BY <2>1 DEF FillOK
  <2>. QED
    BY <1>0, <2>1, <2>2, SnapsStay, SameKeys, WritersStay
<1>11. CASE UNCHANGED vars
  <2>1. UNCHANGED <<snaps, fill, call, plan>>
    BY <1>11 DEF vars, svars
  <2>. QED
    BY <1>0, <1>1, <2>1, SameKeys, WritersStay
<1>12. ASSUME NEW w \in Writers, Insert(w) PROVE SnapsOK' /\ FillOK' /\ WritersOK'
  BY <1>0, <1>12, InsertKeeps
<1>13. ASSUME NEW now \in Instants, BackfillStart(now) PROVE SnapsOK' /\ FillOK' /\ WritersOK'
  BY <1>0, <1>13, BackfillStartKeeps
<1>14. CASE BackfillEntity
  BY <1>0, <1>14, BackfillEntityKeeps
<1>. QED
  BY <1>3, <1>4, <1>5, <1>6, <1>7, <1>8, <1>9, <1>10, <1>11, <1>12, <1>13, <1>14 DEF Next

\* The three invariants hold together in every state of TriplesLive and its snapshots.
THEOREM SnapshotInvariants ==
    ASSUME Journaled
    PROVE  Spec => []AllInv
<1>1. Init => AllInv
  BY RowInit, JournalInit, ProjectionInit DEF AllInv
<1>2. AllInv /\ [Next]_vars => AllInv'
  <2>1. AllInv /\ [Next]_vars => RowInv' /\ JournalInv'
    BY RowNext, JournalNext DEF AllInv
  <2>. QED
    BY <2>1, ProjectionNext DEF AllInv
<1>. QED
  BY <1>1, <1>2, PTL DEF Spec

LEMMA AreExact ==
    AllInv => ProjectionsExact
<1> SUFFICES ASSUME RowInv, JournalInv, ProjectionInv PROVE SnapshotExact /\ SuccessMeansProjected
  BY DEF ProjectionsExact, AllInv
<1>1. SnapshotExact
  <2>. SUFFICES ASSUME NEW s \in snaps, s.pos # Null PROVE s.state = Truth(s.e, s.pos)
    BY DEF SnapshotExact
  <2>1. SnapOK(s)
    BY DEF ProjectionInv, SnapsOK
  <2>2. PICK j \in journal : j.pos = s.pos /\ s.state = Truth(s.e, j.pos)
    BY <2>1 DEF SnapOK
  <2>. QED
    BY <2>2
<1>2. SuccessMeansProjected
  <2>. SUFFICES ASSUME NEW w \in Writers, plan[w].at = "project", plan[w].todo = {},
                       call[w].kind \in {"transact", "assert", "retract"},
                       NEW ch \in call[w].changes
                PROVE  snapAt(ch.e, call[w].tx) # {}
    BY DEF SuccessMeansProjected, ReturnedProjected
  <2>1. ProjectOK(plan[w], call[w])
    BY DEF ProjectionInv
  <2>. QED
    BY <2>1 DEF ProjectOK
<1>. QED
  BY <1>1, <1>2

\* A snapshot is the state its transaction left, however late materialize
\* ran, and a write that answered has a snapshot of every entity it changed
\* (ProjectionsExact), when every call is journaled.
THEOREM ProjectionsAreExact ==
    ASSUME Journaled
    PROVE  Spec => []ProjectionsExact
BY SnapshotInvariants, AreExact, PTL

-----------------------------------------------------------------------------
(* The newest snapshot of an entity. *)

Numbered(s) == Coalesce(s.pos) \in Nat /\ s.time \in Int /\ s.tx \in Nat

LEMMA SnapNumbers ==
    ASSUME JournalOK, SnapsOK
    PROVE  \A s \in snaps : Numbered(s)
<1> SUFFICES ASSUME NEW s \in snaps PROVE Numbered(s)
  OBVIOUS
<1>1. SnapOK(s)
  BY DEF SnapsOK
<1>2. s.pos = Null \/ s.pos \in Nat
  BY <1>1 DEF SnapOK, JournalOK
<1>3. s.tx \in Nat /\ s.time \in Int
  BY <1>1 DEF SnapOK
<1>. QED
  BY <1>2, <1>3 DEF Numbered, Coalesce

\* Some row of a finite set has none later.
LEMMA SomeNewest ==
    ASSUME NEW ss, IsFiniteSet(ss), ss # {}, \A s \in ss : Numbered(s)
    PROVE  \E m \in ss : \A t \in ss : ~Later(t, m)
<1>1. PICK f : f = [s \in ss |-> Coalesce(s.pos)]
  OBVIOUS
<1>2. \A s \in ss : f[s] \in Nat /\ f[s] = Coalesce(s.pos)
  BY <1>1 DEF Numbered
<1>3. PICK m1 \in ss : \A y \in ss : f[m1] >= f[y]
  BY <1>2, GreatestRank
<1>4. PICK S1 : S1 = {s \in ss : f[s] = f[m1]}
  OBVIOUS
<1>5. S1 \subseteq ss /\ S1 # {} /\ IsFiniteSet(S1)
  BY <1>3, <1>4, FS_Subset
<1>6. PICK g : g = [s \in S1 |-> s.time]
  OBVIOUS
<1>7. PICK T : T = {g[s] : s \in S1}
  OBVIOUS
<1>8. IsFiniteSet(T) /\ T # {} /\ T \in SUBSET Int
  <2>1. IsFiniteSet(T)
    BY <1>5, <1>7, FiniteImage
  <2>. QED
    BY <1>5, <1>6, <1>7, <2>1 DEF Numbered
<1>9. PICK x : x = Max(T)
  OBVIOUS
<1>10. x \in T /\ x \in Int /\ \A y \in T : y <= x
  BY <1>8, <1>9, GreatestInt
<1>11. PICK S2 : S2 = {s \in S1 : s.time = x}
  OBVIOUS
<1>12. S2 \subseteq S1 /\ S2 # {} /\ IsFiniteSet(S2)
  <2>1. S2 # {}
    BY <1>6, <1>7, <1>10, <1>11
  <2>. QED
    BY <1>5, <1>11, <2>1, FS_Subset
<1>13. PICK h : h = [s \in S2 |-> s.tx]
  OBVIOUS
<1>14. \A s \in S2 : h[s] \in Nat /\ h[s] = s.tx
  BY <1>5, <1>12, <1>13 DEF Numbered
<1>15. PICK m \in S2 : \A y \in S2 : h[m] >= h[y]
  BY <1>12, <1>14, GreatestRank
<1>16. m \in ss /\ m \in S1 /\ m.time = x /\ f[m] = f[m1]
  BY <1>4, <1>5, <1>11, <1>12, <1>15
<1>17. ASSUME NEW t \in ss PROVE ~Later(t, m)
  <2>1. Coalesce(t.pos) = f[t] /\ Coalesce(m.pos) = f[m1] /\ f[t] <= f[m1] /\ f[t] \in Nat /\ f[m1] \in Nat
    BY <1>2, <1>3, <1>16
  <2>2. f[t] = f[m1] => t \in S1 /\ t.time \in Int /\ t.time <= x
    <3>1. ASSUME f[t] = f[m1] PROVE t \in S1 /\ g[t] = t.time /\ t.time \in T
      BY <1>4, <1>6, <1>7, <3>1
    <3>. QED
      BY <1>8, <1>10, <3>1
  <2>3. f[t] = f[m1] /\ t.time = x => t.tx \in Nat /\ m.tx \in Nat /\ t.tx <= m.tx
    <3>1. ASSUME f[t] = f[m1], t.time = x PROVE t \in S2
      BY <1>11, <2>2, <3>1
    <3>. QED
      BY <1>14, <1>15, <3>1
  <2>. QED
    BY <1>10, <1>16, <2>1, <2>2, <2>3 DEF Later
<1>. QED
  BY <1>16, <1>17

\* The snapshots of one entity differ in their transactions, so one of any two
\* is later: the anti-join and ORDER BY ... LIMIT 1 find the same row.
LEMMA OneNewest ==
    ASSUME JournalOK, SnapsOK, NEW e, NEW ss, ss \subseteq snaps, \A s \in ss : s.e = e
    PROVE  /\ Latest(ss) = First(ss)
           /\ ss # {} => \E m \in ss : First(ss) = {m} /\ \A t \in ss : ~Later(t, m)
<1>1. CASE ss = {}
  BY <1>1 DEF Latest, First
<1>2. CASE ss # {}
  <2>1. IsFiniteSet(ss) /\ \A s \in ss : Numbered(s)
    BY SnapNumbers, FS_Subset DEF SnapsOK
  <2>2. PICK m \in ss : \A t \in ss : ~Later(t, m)
    BY <1>2, <2>1, SomeNewest
  <2>3. ASSUME NEW s \in ss, \A t \in ss : ~Later(t, s) PROVE s = m
    <3>1. ~Later(m, s) /\ ~Later(s, m)
      BY <2>2, <2>3
    <3>2. s.tx = m.tx
      BY <2>1, <3>1 DEF Later, Numbered
    <3>. QED
      BY <3>2 DEF SnapsOK
  <2>4. (CHOOSE s \in ss : \A t \in ss : ~Later(t, s)) = m
    BY <2>2, <2>3
  <2>5. First(ss) = {m}
    BY <1>2, <2>4 DEF First
  <2>6. Latest(ss) = {m}
    <3>1. Latest(ss) = {s \in ss : \A t \in ss : ~Later(t, s)}
      BY DEF Latest
    <3>. QED
      BY <2>2, <2>3, <3>1
  <2>. QED
    BY <2>2, <2>5, <2>6
<1>. QED
  BY <1>1, <1>2

\* The snapshots of one transaction have its position and its time.
LEMMA SamePosition ==
    ASSUME JournalOK, SnapsOK, NEW s \in snaps, NEW q \in snaps, s.tx = q.tx
    PROVE  s.pos = q.pos /\ s.time = q.time
<1>1. SnapOK(s) /\ SnapOK(q)
  BY DEF SnapsOK
<1>2. s.time = q.time
  BY DEF SnapsOK
<1>3. CASE \E j \in journal : j.tx = s.tx
  <2>1. PICK j \in journal : j.tx = s.tx
    BY <1>3
  <2>2. \E k \in journal : k.tx = s.tx /\ k.pos = s.pos
    BY <1>1, <2>1 DEF SnapOK
  <2>3. \E k \in journal : k.tx = q.tx /\ k.pos = q.pos
    BY <1>1, <2>1 DEF SnapOK
  <2>. QED
    BY <1>2, <2>2, <2>3 DEF JournalOK
<1>4. CASE ~ \E j \in journal : j.tx = s.tx
  BY <1>1, <1>2, <1>4 DEF SnapOK
<1>. QED
  BY <1>3, <1>4

\* The readers of the current snapshot agree.
LEMMA ReadersAgree ==
    ASSUME JournalOK, SnapsOK, NEW e
    PROVE  /\ batchCurrent({e}) = current(e)
           /\ \A t : {s \in checkpoint(t) : s.e = e} = asOf(e, t)
           /\ \A s \in current(e) : e \in findByHash(s.state) /\ findChanged(s.tx) \cap {s} = {}
<1>1. batchCurrent({e}) = current(e)
  <2>1. PICK ss : ss = {s \in snaps : s.e = e}
    OBVIOUS
  <2>2. {s \in snaps : s.e \in {e}} = ss
    BY <2>1
  <2>3. Latest(ss) = First(ss)
    BY <2>1, OneNewest
  <2>. QED
    BY <2>1, <2>2, <2>3 DEF batchCurrent, current
<1>2. ASSUME NEW t PROVE {s \in checkpoint(t) : s.e = e} = asOf(e, t)
  <2>1. PICK ss : ss = {s \in snaps : s.e = e /\ s.time <= t}
    OBVIOUS
  <2>2. {s \in checkpoint(t) : s.e = e} = Latest(ss)
    BY <2>1 DEF checkpoint, Latest
  <2>3. Latest(ss) = First(ss)
    BY <2>1, OneNewest
  <2>. QED
    BY <2>1, <2>2, <2>3 DEF asOf
<1>3. ASSUME NEW s \in current(e) PROVE e \in findByHash(s.state) /\ findChanged(s.tx) \cap {s} = {}
  <2>1. PICK ss : ss = {x \in snaps : x.e = e}
    OBVIOUS
  <2>2. Latest(ss) = First(ss) /\ s \in First(ss)
    BY <1>3, <2>1, OneNewest DEF current
  <2>3. s \in snaps /\ s.e = e /\ s \in Latest(snaps)
    BY <2>1, <2>2 DEF Latest
  <2>4. e \in findByHash(s.state)
    BY <2>3 DEF findByHash
  <2>5. PICK since : since = {x \in snaps : x.tx = s.tx}
    OBVIOUS
  <2>6. s \in since
    BY <2>3, <2>5
  <2>7. PICK q : q = (CHOOSE x \in since : TRUE) /\ q \in since
    BY <2>6
  <2>8. q.pos = s.pos /\ q.time = s.time
    BY <2>3, <2>5, <2>7, SamePosition
  <2>9. ASSUME s \in findChanged(s.tx) PROVE FALSE
    <3>1. findChanged(s.tx) = {x \in Latest(snaps) :
              Later(x, [e |-> x.e, tx |-> s.tx, pos |-> q.pos, time |-> q.time])}
      BY <2>5, <2>6, <2>7 DEF findChanged
    <3>2. PICK b : b = [e |-> s.e, tx |-> s.tx, pos |-> q.pos, time |-> q.time]
      OBVIOUS
    <3>3. Later(s, b)
      BY <2>9, <3>1, <3>2
    <3>4. b.pos = s.pos /\ b.time = s.time /\ b.tx = s.tx
      BY <2>8, <3>2
    <3>5. Numbered(s)
      BY <2>3, SnapNumbers
    <3>. QED
      BY <3>3, <3>4, <3>5 DEF Later, Numbered
  <2>. QED
    BY <2>4, <2>9
<1>. QED
  BY <1>1, <1>2, <1>3

\* Positions after the last change of an entity have the same truth about it.
LEMMA TruthSettled ==
    ASSUME JournalOK, NEW e, NEW p \in Nat, p <= position, position \in Nat,
           \A j \in journal : (\E ch \in j.changes : ch.e = e) => j.pos <= p
    PROVE  Truth(e, p) = Truth(e, position)
<1> DEFINE chs(n) == UNION {j.changes : j \in {k \in journal : k.pos <= n}}
           of(n, op) == {ch.id : ch \in {x \in chs(n) : x.op = op /\ x.e = e}}
<1>1. \A n : \A ch : ch \in chs(n) <=> \E j \in journal : j.pos <= n /\ ch \in j.changes
  OBVIOUS
<1>2. \A ch : ch.e = e => (ch \in chs(p) <=> ch \in chs(position))
  <2>1. ASSUME NEW ch, ch.e = e, ch \in chs(p) PROVE ch \in chs(position)
    <3>1. PICK j \in journal : j.pos <= p /\ ch \in j.changes
      BY <1>1, <2>1
    <3>2. j.pos <= position
      BY <3>1 DEF JournalOK
    <3>. QED
      BY <1>1, <3>1, <3>2
  <2>2. ASSUME NEW ch, ch.e = e, ch \in chs(position) PROVE ch \in chs(p)
    <3>1. PICK j \in journal : j.pos <= position /\ ch \in j.changes
      BY <1>1, <2>2
    <3>2. j.pos <= p
      BY <2>2, <3>1
    <3>. QED
      BY <1>1, <3>1, <3>2
  <2>. QED
    BY <2>1, <2>2
<1>3. \A n : TruthIds(e, n) = of(n, "assert") \ of(n, "retract")
  BY DEF TruthIds
<1>4. \A op : of(p, op) = of(position, op)
  <2>. HIDE DEF chs
  <2>. QED
    BY <1>2
<1>. HIDE DEF of
<1>5. TruthIds(e, p) = TruthIds(e, position)
  BY <1>3, <1>4
<1>. QED
  BY <1>5 DEF Truth

\* When every commit that changed e is projected, the newest is the present.
LEMMA NewestIsTruth ==
    ASSUME RowsOK, JournalOK, SnapsOK, NEW e, NEW j0 \in journal, \E ch \in j0.changes : ch.e = e,
           \A j \in journal : (\E ch \in j.changes : ch.e = e) => snapAt(e, j.tx) # {}
    PROVE  {s.state : s \in current(e)} = {Truth(e, position)}
<1>0. Null \notin Int /\ position \in Nat
  BY SqlAssumption DEF RowsOK
<1>1. PICK ss : ss = {s \in snaps : s.e = e}
  OBVIOUS
\* Every commit that changed e has a snapshot at its position.
<1>2. ASSUME NEW j \in journal, \E ch \in j.changes : ch.e = e
      PROVE  \E s \in ss : s.pos = j.pos
  <2>1. PICK s \in snaps : s.e = e /\ s.tx = j.tx
    BY <1>2 DEF snapAt
  <2>2. SnapOK(s)
    BY DEF SnapsOK
  <2>3. \E k \in journal : k.tx = s.tx /\ k.pos = s.pos
    BY <2>1, <2>2 DEF SnapOK
  <2>4. s.pos = j.pos
    BY <2>1, <2>3 DEF JournalOK
  <2>. QED
    BY <1>1, <2>1, <2>4
<1>3. PICK m \in ss : First(ss) = {m} /\ \A t \in ss : ~Later(t, m)
  <2>1. ss # {}
    BY <1>2
  <2>. QED
    BY <1>1, <2>1, OneNewest
<1>4. Coalesce(m.pos) \in Nat
  BY <1>1, <1>3, SnapNumbers DEF Numbered
<1>5. ASSUME NEW j \in journal, \E ch \in j.changes : ch.e = e
      PROVE  j.pos \in 1..position /\ j.pos <= Coalesce(m.pos)
  <2>1. PICK s \in ss : s.pos = j.pos
    BY <1>2, <1>5
  <2>2. j.pos \in 1..position /\ j.pos # Null
    BY <1>0 DEF JournalOK
  <2>3. Coalesce(s.pos) = j.pos
    BY <2>1, <2>2 DEF Coalesce
  <2>4. ~(Coalesce(s.pos) > Coalesce(m.pos))
    BY <1>3, <2>1 DEF Later
  <2>. QED
    BY <1>0, <1>4, <2>2, <2>3, <2>4
<1>6. m.pos # Null
  BY <1>0, <1>4, <1>5 DEF Coalesce
<1>7. Coalesce(m.pos) = m.pos /\ m.pos \in Nat
  BY <1>4, <1>6 DEF Coalesce
<1>8. SnapOK(m)
  BY <1>1, <1>3 DEF SnapsOK
<1>9. PICK k \in journal : k.pos = m.pos /\ m.state = Truth(m.e, k.pos)
  BY <1>6, <1>8 DEF SnapOK
<1>10. m.e = e /\ m.pos <= position
  BY <1>0, <1>1, <1>3, <1>9 DEF JournalOK
<1>11. PICK p : p = m.pos
  OBVIOUS
<1>12. Truth(e, p) = Truth(e, position)
  BY <1>0, <1>5, <1>7, <1>10, <1>11, TruthSettled
<1>13. m.state = Truth(e, position)
  BY <1>9, <1>10, <1>11, <1>12
<1>14. current(e) = {m}
  BY <1>1, <1>3 DEF current
<1>. QED
  BY <1>13, <1>14

Graph(s) == {<<a, s.state[a]>> : a \in DOMAIN s.state}

Keys(ps) == {p[1] : p \in ps}

LEMMA GraphKeys ==
    ASSUME NEW s
    PROVE  Keys(Graph(s)) = DOMAIN s.state
<1>1. ASSUME NEW a \in DOMAIN s.state PROVE a \in Keys(Graph(s))
  <2>1. PICK x : x = <<a, s.state[a]>>
    OBVIOUS
  <2>2. x \in Graph(s) /\ x[1] = a
    BY <2>1 DEF Graph
  <2>. QED
    BY <2>2 DEF Keys
<1>2. ASSUME NEW a \in Keys(Graph(s)) PROVE a \in DOMAIN s.state
  <2>1. PICK x \in Graph(s) : a = x[1]
    BY <1>2 DEF Keys
  <2>2. PICK b \in DOMAIN s.state : x = <<b, s.state[b]>>
    BY <2>1 DEF Graph
  <2>. QED
    BY <2>1, <2>2
<1>. QED
  BY <1>1, <1>2

\* The diff of two snapshots is empty exactly when they are equal.
LEMMA DiffIsEmpty ==
    ASSUME SnapsOK, NEW e, NEW s \in snaps, NEW q \in snaps, s.e = e, q.e = e
    PROVE  s.state = q.state <=> diff(e, s.tx, q.tx) = [added |-> {}, removed |-> {}, changed |-> {}]
<1>1. PICK old, new : old = Graph(s) /\ new = Graph(q)
  OBVIOUS
<1>2. snapAt(e, s.tx) = {s} /\ snapAt(e, q.tx) = {q}
  BY DEF SnapsOK, snapAt
<1>3. diff(e, s.tx, q.tx) = [added   |-> Keys(new) \ Keys(old),
                             removed |-> Keys(old) \ Keys(new),
                             changed |-> Keys(new \ old) \cap Keys(old)]
  <2>1. UNION {{<<a, x.state[a]>> : a \in DOMAIN x.state} : x \in {s}} = old
    BY <1>1 DEF Graph
  <2>2. UNION {{<<a, x.state[a]>> : a \in DOMAIN x.state} : x \in {q}} = new
    BY <1>1 DEF Graph
  <2>. QED
    BY <1>2, <2>1, <2>2 DEF diff, Keys
<1>4. Keys(old) = DOMAIN s.state /\ Keys(new) = DOMAIN q.state
  BY <1>1, GraphKeys
<1>5. ASSUME s.state = q.state PROVE old = new
  BY <1>1, <1>5 DEF Graph
<1>6. ASSUME Keys(new) \ Keys(old) = {}, Keys(old) \ Keys(new) = {}, Keys(new \ old) \cap Keys(old) = {}
      PROVE  s.state = q.state
  <2>1. DOMAIN s.state = DOMAIN q.state
    BY <1>4, <1>6
  <2>2. ASSUME NEW a \in DOMAIN q.state PROVE s.state[a] = q.state[a]
    <3>1. PICK x : x = <<a, q.state[a]>>
      OBVIOUS
    <3>2. x \in new /\ x[1] = a
      BY <1>1, <3>1 DEF Graph
    <3>3. x \in old
      <4>1. ASSUME x \notin old PROVE FALSE
        <5>1. a \in Keys(new \ old)
          BY <3>2, <4>1 DEF Keys
        <5>. QED
          BY <1>4, <1>6, <2>1, <5>1
      <4>. QED
        BY <4>1
    <3>4. PICK b \in DOMAIN s.state : x = <<b, s.state[b]>>
      BY <1>1, <3>3 DEF Graph
    <3>. QED
      BY <3>1, <3>4
  <2>3. s.state = [a \in DOMAIN s.state |-> s.state[a]] /\ q.state = [a \in DOMAIN q.state |-> q.state[a]]
    <3>1. SnapOK(s) /\ SnapOK(q)
      BY DEF SnapsOK
    <3>. QED
      BY <3>1 DEF SnapOK
  <2>. QED
    BY <2>1, <2>2, <2>3
<1>7. ASSUME old = new PROVE Keys(new \ old) = {}
  BY <1>7 DEF Keys
<1>8. ASSUME NEW A, NEW B, NEW C
      PROVE  [added |-> A, removed |-> B, changed |-> C] = [added |-> {}, removed |-> {}, changed |-> {}]
               <=> A = {} /\ B = {} /\ C = {}
  OBVIOUS
<1>. QED
  BY <1>3, <1>5, <1>6, <1>7, <1>8

LEMMA IsNewest ==
    AllInv => CurrentIsNewest
<1> SUFFICES ASSUME RowInv, JournalInv, ProjectionInv, NEW e \in {s.e : s \in snaps}
             PROVE  /\ batchCurrent({e}) = current(e)
                    /\ \A t \in Instants : {s \in checkpoint(t) : s.e = e} = asOf(e, t)
                    /\ \A s \in current(e) : e \in findByHash(s.state) /\ findChanged(s.tx) \cap {s} = {}
                    /\ ((\E j \in journal : \E ch \in j.changes : ch.e = e)
                        /\ \A j \in journal : (\E ch \in j.changes : ch.e = e) => snapAt(e, j.tx) # {})
                         => {s.state : s \in current(e)} = {Truth(e, position)}
                    /\ \A s, q \in {x \in snaps : x.e = e} :
                         s.state = q.state <=> diff(e, s.tx, q.tx) = [added |-> {}, removed |-> {}, changed |-> {}]
  BY DEF CurrentIsNewest, AllInv
<1>0. RowsOK /\ JournalOK /\ SnapsOK
  BY DEF RowInv, JournalInv, ProjectionInv
<1>1. /\ batchCurrent({e}) = current(e)
      /\ \A t \in Instants : {s \in checkpoint(t) : s.e = e} = asOf(e, t)
      /\ \A s \in current(e) : e \in findByHash(s.state) /\ findChanged(s.tx) \cap {s} = {}
  BY <1>0, ReadersAgree
<1>2. ASSUME \E j \in journal : \E ch \in j.changes : ch.e = e,
             \A j \in journal : (\E ch \in j.changes : ch.e = e) => snapAt(e, j.tx) # {}
      PROVE  {s.state : s \in current(e)} = {Truth(e, position)}
  BY <1>0, <1>2, NewestIsTruth
<1>3. ASSUME NEW s \in {x \in snaps : x.e = e}, NEW q \in {x \in snaps : x.e = e}
      PROVE  s.state = q.state <=> diff(e, s.tx, q.tx) = [added |-> {}, removed |-> {}, changed |-> {}]
  BY <1>0, <1>3, DiffIsEmpty
<1>. QED
  BY <1>1, <1>2, <1>3

\* The current snapshot of an entity is its newest, all readers of
\* entity_snapshots agree on it, and once every commit that touched the
\* entity is projected it is the entity's live facts (CurrentIsNewest).
THEOREM CurrentSnapshotsAreNewest ==
    ASSUME Journaled
    PROVE  Spec => []CurrentIsNewest
BY SnapshotInvariants, IsNewest, PTL
=============================================================================
