------------------------------ MODULE Snapshots ------------------------------
(***************************************************************************)
(* Entity snapshots over the SQL Triples service: the capability that      *)
(* projects the changed entities after every write                         *)
(* (makeEntitySnapshotsCapability), the writer (materialize, backfill) and *)
(* the readers of entity_snapshots (makeSnapshotService).                  *)
(*                                                                         *)
(*   snaps  the rows of entity_snapshots joined with their blobs; `state`  *)
(*          is the canonical attribute map, which the hash stands for      *)
(*   plan   what the wrapper of each writer's call knows: the read before  *)
(*          the write, then the entities it still has to project           *)
(*   fill   the backfill in progress                                       *)
(***************************************************************************)
EXTENDS SqlTriples

CONSTANTS MaxBackfills

VARIABLES snaps, plan, fill

vars == <<svars, snaps, plan, fill>>

NoPlan == [at |-> "none"]

(* The attribute map: the multiset of values per attribute, not their ids. *)
triplesToAttributeMap(rs) ==
    [a \in {r.a : r \in rs} |->
        [v \in {r.v : r \in {q \in rs : q.a = a}} |->
            Cardinality({r \in rs : r.a = a /\ r.v = v})]]

Position(tx) == IF \E j \in journal : j.tx = tx
                THEN (CHOOSE j \in journal : j.tx = tx).pos ELSE Null

(***************************************************************************)
(* materialize, per entity: with a journaled basis, the facts created and  *)
(* not retracted by its position; instants and ids only order transactions *)
(* that have no position.  Without one, a match at the given time.         *)
(***************************************************************************)
ByBasis_Bug(pos, at, tx, b) == at < b.at \/ (at = b.at /\ tx <= b.tx)

ByBasis(pos, at, tx, b) ==
    IF pos # Null THEN pos <= b.pos ELSE at < b.at \/ (at = b.at /\ tx <= b.tx)

exactCommitBasis(e, b) ==
    {r \in rows : /\ r.e = e
                  /\ ByBasis(Position(r.tx), r.recAt, r.tx, b)
                  /\ ~(r.retAt # Null /\ ByBasis(Position(r.retTx), r.retAt, r.retTx, b))}

matchAt(e, t) ==
    {r \in rows : /\ r.e = e /\ r.recAt <= t /\ (r.retAt = Null \/ r.retAt > t)
                  /\ r.from <= t /\ r.to > t}

Reconstruct(e, tx, t) ==
    LET js == {j \in journal : j.tx = tx} IN
    IF js # {} THEN exactCommitBasis(e, CHOOSE j \in js : TRUE) ELSE matchAt(e, t)

(* ON CONFLICT(entity_id, tx_id) DO UPDATE.                                *)
Upsert(ss, row) == {s \in ss : s.e # row.e \/ s.tx # row.tx} \cup {row}

-----------------------------------------------------------------------------
(* The reads of entity_snapshots.                                          *)
Coalesce(p) == IF p = Null THEN 0 ELSE p

Later_Bug(s, t) == s.time > t.time \/ (s.time = t.time /\ s.tx > t.tx)

Later(s, t) ==
    \/ Coalesce(s.pos) > Coalesce(t.pos)
    \/ Coalesce(s.pos) = Coalesce(t.pos) /\ s.time > t.time
    \/ Coalesce(s.pos) = Coalesce(t.pos) /\ s.time = t.time /\ s.tx > t.tx

(* The first row of ORDER BY ... DESC LIMIT 1.                             *)
First(ss) == IF ss = {} THEN {} ELSE {CHOOSE s \in ss : \A t \in ss : ~Later(t, s)}

(* The correlated anti-join: no later row of the same entity.              *)
Latest(ss) == {s \in ss : ~\E t \in ss : t.e = s.e /\ Later(t, s)}

current(e) == First({s \in snaps : s.e = e})

snapAt(e, tx) == {s \in snaps : s.e = e /\ s.tx = tx}

asOf(e, t) == First({s \in snaps : s.e = e /\ s.time <= t})

batchCurrent(es) == Latest({s \in snaps : s.e \in es})

findByHash(h) == {s.e : s \in {q \in Latest(snaps) : q.state = h}}

checkpoint(t) == Latest({s \in snaps : s.time <= t})

(* diffAttributes: the attributes added, removed and changed.              *)
diff(e, fromTx, toTx) ==
    LET attrs(tx) == UNION {{<<a, s.state[a]>> : a \in DOMAIN s.state} : s \in snapAt(e, tx)}
        keys(ps) == {p[1] : p \in ps}
        old == attrs(fromTx)
        new == attrs(toTx)
    IN  [added   |-> keys(new) \ keys(old),
         removed |-> keys(old) \ keys(new),
         changed |-> keys(new \ old) \cap keys(old)]

findChanged(tx) ==
    LET since == {s \in snaps : s.tx = tx} IN
    IF since = {} THEN Latest(snaps)
    ELSE {s \in Latest(snaps) :
            Later(s, [e |-> s.e, tx |-> tx, pos |-> (CHOOSE q \in since : TRUE).pos,
                      time |-> (CHOOSE q \in since : TRUE).time])}

-----------------------------------------------------------------------------
(* The capability.                                                         *)

(* What retract and retractByPattern read before they write: match takes   *)
(* the default basis, so it sees only the facts valid now.                 *)
ValidNow(rs, now) == {r \in rs : r.from <= now /\ r.to > now}

(* A retraction names an id the caller has read, an observed entity state  *)
(* is what it read: those calls, and retractByPattern, read first.         *)
ReadsFirst(req) == req.observe # Null \/ \E i \in DOMAIN req.ops : req.ops[i].op # "assert"

Read(w, req, now) ==
    LET matched == ValidNow(query(Live(rows), req.ops[1].pattern), now) IN
    /\ plan[w].at = "none" /\ call[w].at = "idle" /\ ReadsFirst(req)
    /\ began < MaxTx
    /\ IF req.kind = "retractByPattern"
       THEN \E anchor \in IF matched = {} THEN {Null} ELSE matched :
              plan' = [plan EXCEPT ![w] = [at |-> "ready", req |-> req, anchor |-> anchor,
                                           ents |-> {r.e : r \in matched}]]
       ELSE plan' = [plan EXCEPT ![w] = [at |-> "ready", req |-> req, anchor |-> Null, ents |-> {}]]
    /\ UNCHANGED <<svars, snaps, fill>>

Write(w, now) ==
    /\ call[w].at = "idle"
    /\ \/ /\ plan[w].at = "ready"
          /\ Begin(w, plan[w].req, now)
          /\ plan' = [plan EXCEPT ![w] = IF call'[w] = Idle THEN NoPlan ELSE @]
       \/ \E req \in {t \in Templates : ~ReadsFirst(t)} :
            /\ plan[w].at = "none"
            /\ Begin(w, req, now)
            /\ plan' = [plan EXCEPT ![w] = IF call'[w] = Idle THEN NoPlan
                                ELSE [at |-> "ready", req |-> req, anchor |-> Null, ents |-> {}]]
    /\ UNCHANGED <<snaps, fill>>

Working(w) ==
    /\ TransactStep(w)
    /\ plan' = [plan EXCEPT ![w] = IF call'[w] = Idle THEN NoPlan ELSE @]
    /\ UNCHANGED <<snaps, fill>>

(* resolveRetractionMeta: the transaction that retracted the anchor, which *)
(* need not be the caller's own.                                           *)
resolveRetractionMeta(anchor) ==
    {[tx |-> r.retTx, time |-> r.retAt] : r \in {q \in rows : q.id = anchor.id /\ q.retTx # Null}}

Projecting(w, tx, time, ents) ==
    plan' = [plan EXCEPT ![w] = [at |-> "project", tx |-> tx, time |-> time, todo |-> ents,
                                 read |-> Null]]

(* The entities a transact projects: those of the committed record.        *)
TouchedEntities(c) == {ch.e : ch \in c.changes}

AfterCommit(w) ==
    LET c == call[w]
        p == plan[w]
    IN
    /\ c.at = "committed" /\ p.at = "ready"
    /\ CASE c.kind = "retractByPattern" /\ p.anchor = Null ->
                Projecting(w, c.tx, c.now, {})
         [] c.kind = "retractByPattern" /\ p.anchor # Null ->
              \E metas \in {resolveRetractionMeta(p.anchor)} :
                IF metas = {} THEN plan' = [plan EXCEPT ![w] = [at |-> "failed"]]
                ELSE \E m \in metas : Projecting(w, m.tx, m.time, p.ents)
         [] OTHER -> Projecting(w, c.tx, c.now, TouchedEntities(c))
    /\ UNCHANGED <<svars, snaps, fill>>

ReadHistory(w) ==
    LET p == plan[w] IN
    /\ p.at = "project" /\ p.read = Null /\ p.todo # {}
    /\ LET e == CHOOSE x \in p.todo : TRUE IN
         plan' = [plan EXCEPT ![w].read =
                    [e |-> e, state |-> triplesToAttributeMap(Reconstruct(e, p.tx, p.time))]]
    /\ UNCHANGED <<svars, snaps, fill>>

Insert(w) ==
    LET p == plan[w] IN
    /\ p.at = "project" /\ p.read # Null
    /\ snaps' = Upsert(snaps, [e |-> p.read.e, tx |-> p.tx, pos |-> Position(p.tx),
                               time |-> p.time, state |-> p.read.state])
    /\ plan' = [plan EXCEPT ![w].todo = @ \ {p.read.e}, ![w].read = Null]
    /\ UNCHANGED <<svars, fill>>

(* mapMaterializeError: the facts stay, the caller gets a WriteError.      *)
ProjectionFails(w) ==
    /\ plan[w].at = "project" /\ plan[w].todo # {} /\ plan[w].read = Null
    /\ plan' = [plan EXCEPT ![w] = [at |-> "failed"]]
    /\ UNCHANGED <<svars, snaps, fill>>

(* The call returns, as a success or as an error, and the writer goes on.  *)
Returns(w) ==
    \/ plan[w].at = "failed"
    \/ plan[w].at = "project" /\ plan[w].todo = {}

Return(w) ==
    /\ Returns(w)
    /\ plan' = [plan EXCEPT ![w] = NoPlan]
    /\ call' = [call EXCEPT ![w] = Idle]
    /\ UNCHANGED <<adapter, rows, position, receipts, journal, began, snaps, fill>>

-----------------------------------------------------------------------------
(* backfill: entities with a live fact and no snapshot, under a transaction*)
(* id that is never journaled; reads and inserts entity by entity.         *)
Missing == {r.e : r \in Live(rows)} \ {s.e : s \in snaps}

BackfillStart(now) ==
    /\ fill.at = "none" /\ fill.done < MaxBackfills
    /\ began < MaxTx /\ Missing # {}
    /\ began' = began + 1
    /\ fill' = [at |-> "run", done |-> fill.done + 1, tx |-> began + 1, time |-> now, todo |-> Missing]
    /\ UNCHANGED <<adapter, rows, position, receipts, journal, call, snaps, plan>>

BackfillEntity ==
    /\ fill.at = "run" /\ fill.todo # {}
    /\ LET e == CHOOSE x \in fill.todo : TRUE IN
         /\ snaps' = Upsert(snaps, [e |-> e, tx |-> fill.tx, pos |-> Null, time |-> fill.time,
                                    state |-> triplesToAttributeMap(matchAt(e, fill.time))])
         /\ fill' = [fill EXCEPT !.todo = @ \ {e}]
    /\ UNCHANGED <<svars, plan>>

BackfillEnd ==
    /\ fill.at = "run" /\ fill.todo = {}
    /\ fill' = [at |-> "none", done |-> fill.done]
    /\ UNCHANGED <<svars, snaps, plan>>

-----------------------------------------------------------------------------
Requests ==
    LET named(t, id) == [t EXCEPT !.ops = [i \in DOMAIN @ |->
                           IF @[i].op = "retract" THEN [op |-> "retract", id |-> id] ELSE @[i]]]
    IN  {t \in Templates : \A i \in DOMAIN t.ops : t.ops[i].op # "retract"}
        \cup {named(t, r.id) : t \in {t \in Templates : \E i \in DOMAIN t.ops : t.ops[i].op = "retract"},
                               r \in rows}

Observed(t) ==
    IF t.observe = Null THEN t
    ELSE [t EXCEPT !.observe = [e |-> t.observe.e, ids |-> {r.id : r \in {q \in Live(rows) : q.e = t.observe.e}}]]

Init ==
    /\ SqlInit
    /\ snaps = {} /\ plan = [w \in Writers |-> NoPlan] /\ fill = [at |-> "none", done |-> 0]

Next ==
    \/ \E w \in Writers, t \in Requests, now \in Instants : Read(w, Observed(t), now)
    \/ \E w \in Writers, now \in Instants : Write(w, now)
    \/ \E w \in Writers : \/ Working(w) \/ AfterCommit(w) \/ ReadHistory(w) \/ Insert(w)
                          \/ ProjectionFails(w) \/ Return(w)
    \/ \E now \in Instants : BackfillStart(now)
    \/ BackfillEntity \/ BackfillEnd

Spec == Init /\ [][Next]_vars

-----------------------------------------------------------------------------
(* Properties.                                                             *)

(* What the journal says was live after position p, from its changes.      *)
TruthIds(e, p) ==
    LET js == {j \in journal : j.pos <= p}
        of(op) == {ch.id : ch \in {x \in UNION {j.changes : j \in js} : x.op = op /\ x.e = e}}
    IN  of("assert") \ of("retract")

Truth(e, p) == triplesToAttributeMap({r \in rows : r.id \in TruthIds(e, p)})

(***************************************************************************)
(* A snapshot of a journaled transaction is the entity as that transaction *)
(* left it, however late the projection ran and whatever committed in      *)
(* between ("so a later writer cannot be mislabeled as part" of it,        *)
(* SnapshotService.ts:84): materialize cuts the history by position.       *)
(***************************************************************************)
SnapshotExact ==
    \A s \in snaps : s.pos # Null => s.state = Truth(s.e, s.pos)

(***************************************************************************)
(* Once every commit that touched an entity is projected, in whatever      *)
(* order the projections ran, its current snapshot is its live facts and   *)
(* all readers agree on it: a late projection of an older commit, a        *)
(* backfill or a clock that stepped back never outranks the newest.  The   *)
(* diff of two snapshots is empty exactly when they are equal.             *)
(***************************************************************************)
CurrentIsNewest ==
    \A e \in {s.e : s \in snaps} :
        /\ batchCurrent({e}) = current(e)
        /\ \A t \in Instants : {s \in checkpoint(t) : s.e = e} = asOf(e, t)
        /\ \A s \in current(e) : e \in findByHash(s.state) /\ findChanged(s.tx) \cap {s} = {}
        /\ ((\E j \in journal : \E ch \in j.changes : ch.e = e)
            /\ \A j \in journal : (\E ch \in j.changes : ch.e = e) => snapAt(e, j.tx) # {})
             => {s.state : s \in current(e)} = {Truth(e, position)}
        /\ \A s, q \in {x \in snaps : x.e = e} :
             s.state = q.state <=> diff(e, s.tx, q.tx) = [added |-> {}, removed |-> {}, changed |-> {}]

(***************************************************************************)
(* A write that returns success left a snapshot of every entity it changed *)
(* ("Snapshot transaction wrappers use the committed journal's actual      *)
(* changes"): transact, assert and retract.                                *)
(***************************************************************************)
ReturnedProjected(kinds) ==
    \A w \in Writers :
        (/\ plan[w].at = "project" /\ plan[w].todo = {}
         /\ call[w].kind \in kinds /\ call[w].journal)
        => \A ch \in call[w].changes : snapAt(ch.e, call[w].tx) # {}

SuccessMeansProjected == ReturnedProjected({"transact", "assert", "retract"})

\* What projections leave behind: each snapshot is the state its transaction
\* left, and a write that answered has all of its own.
ProjectionsExact == SnapshotExact /\ SuccessMeansProjected

(***************************************************************************)
(* Reads pinned at a position repeat: no commit changes what a basis at or *)
(* below the committed position sees, so the pages of one cursor are pages *)
(* of one state.  On PostgreSQL only the lock on the counter makes it so.  *)
(***************************************************************************)
PinnedReadsRepeat ==
    [][rows' # rows => \A p \in 0..position, t \in Instants :
         LET b == [pos |-> p, at |-> t, valid |-> t] IN
         {r.id : r \in temporalConditions(rows', b)} = {r.id : r \in temporalConditions(rows, b)}]_vars

(***************************************************************************)
(* dependencyState names the last commit that changed a fact of the        *)
(* attributes, and no fact of them starts or stops being valid before its  *)
(* next boundary.                                                          *)
(***************************************************************************)
ChangedBy(a, p) ==
    Max({j.pos : j \in {k \in journal : k.pos <= p /\ \E ch \in k.changes : ch.a = a}} \cup {0})

DependencyStateSound ==
    [][rows' # rows =>
        \A a \in {f.a : f \in Facts}, p \in 0..position', t \in Instants :
            \E d \in {dependencyState({a}, [pos |-> p, valid |-> t])'} :
                /\ d.source = ChangedBy(a, p)'
                /\ \A v \in t..(d.next - 1) :
                     \A r \in rows' : (r.a = a /\ r.recPos <= p /\ (r.retPos = Null \/ r.retPos > p))
                                      => ((r.from <= v /\ r.to > v) <=> (r.from <= t /\ r.to > t))]_vars
=============================================================================
