----------------------------- MODULE SqlTriples -----------------------------
(***************************************************************************)
(* The Triples service over a SQL adapter (TriplesLive).  On PostgreSQL    *)
(* two transactions run at once at read committed: what keeps them apart   *)
(* is the row of triplex_commit_position, which nextCommitPosition locks   *)
(* until the transaction ends.  SQLite has one connection and a Durable    *)
(* Object runs the whole transaction synchronously, so there the next      *)
(* transaction begins when the last one ended.                             *)
(*                                                                         *)
(*   adapter   the storage adapter of this database                        *)
(*   rows      the committed rows of `triples`                             *)
(*   position  the committed value of triplex_commit_position              *)
(*   receipts  the committed command receipts, <<command, transaction>>    *)
(*   journal   the committed transaction records (the :_tx/* facts)        *)
(*   began     transaction ids drawn so far (monotonic ULIDs)              *)
(*   call      what each writer is doing                                   *)
(***************************************************************************)
EXTENDS Integers, Sequences, FiniteSets, FiniteSetsExt

CONSTANTS
    Writers,      \* fibers that write, one call at a time
    Adapters,     \* subset of {"postgres", "sqlite", "cloudflare"}
    Templates,    \* the calls: [kind, ops, cmd, live, observe, journal]
    Facts,        \* what a template may assert: [e, a, v, from, to]
    Instants,     \* readings of the runtime's clock; it may step back
    MaxTx,        \* bound on the transactions begun
    Null          \* SQL's NULL, an absent option

ASSUME SqlAssumption ==
    /\ Null \notin Int /\ Instants \subseteq Int
    /\ IsFiniteSet(Facts) /\ Facts # {}
    /\ \A f \in Facts : f.from \in Int \cup {Null} /\ f.to \in Int
    /\ \A t \in Templates :
         /\ t = [kind |-> t.kind, ops |-> t.ops, cmd |-> t.cmd, live |-> t.live,
                 observe |-> t.observe, journal |-> t.journal]
         /\ t.ops \in Seq({t.ops[i] : i \in DOMAIN t.ops})
         /\ \A i \in DOMAIN t.ops : t.ops[i].op = "assert" => t.ops[i].fact \in Facts

VARIABLES adapter, rows, position, receipts, journal, began, call

svars == <<adapter, rows, position, receipts, journal, began, call>>

Idle == [at |-> "idle"]

Live(rs) == {r \in rs : r.retPos = Null}

(***************************************************************************)
(* The value conditions of `query`: a string, reference, number, boolean,  *)
(* datetime or sealed value is compared, a JSON value only by its type;    *)
(* PostgreSQL compares a blob's hash, the SQLite adapters only its type.   *)
(***************************************************************************)
ByTypeOnly(v) == v[1] = "json" \/ (v[1] = "blob" /\ adapter # "postgres")

query(rs, p) ==
    {r \in rs : /\ p.e \in {Null, r.e}
                /\ p.a \in {Null, r.a}
                /\ p.v = Null \/ p.v = r.v \/ (ByTypeOnly(p.v) /\ p.v[1] = r.v[1])}

(***************************************************************************)
(* The rows a basis sees: a pinned position, the recorded time when one is *)
(* given with it, and the valid time.                                      *)
(***************************************************************************)
temporalConditions(rs, b) ==
    {r \in rs : /\ r.recPos <= b.pos
                /\ r.recAt <= b.at
                /\ r.retPos = Null \/ r.retPos > b.pos \/ r.retAt > b.at
                /\ r.from <= b.valid /\ r.to > b.valid}

(* Every adapter's dependencyState at a pinned position.                   *)
SourceOf_Bug(r, p) ==
    CASE r.recPos > p -> 0
      [] r.recPos <= p /\ r.retPos # Null -> r.retPos
      [] OTHER -> r.recPos

SourceOf(r, p) ==
    CASE r.recPos > p -> 0
      [] r.recPos <= p /\ r.retPos # Null /\ r.retPos <= p -> r.retPos
      [] OTHER -> r.recPos

Boundaries(r, valid) ==
    IF r.from > valid THEN {r.from} ELSE IF r.to > valid THEN {r.to} ELSE {}

Never == Max({f.to : f \in Facts})

dependencyState(attributes, b) ==
    LET of   == {r \in rows : r.a \in attributes}
        seen == {r \in of : r.recPos <= b.pos /\ (r.retPos = Null \/ r.retPos > b.pos)}
    IN  [source |-> Max({SourceOf(r, b.pos) : r \in of} \cup {0}),
         next   |-> Min((UNION {Boundaries(r, b.valid) : r \in seen}) \cup {Never})]

-----------------------------------------------------------------------------
(* A transaction reads the committed rows and its own writes.              *)
Overlay(c) ==
    {IF r.id \in c.gone THEN [r EXCEPT !.retAt = c.now, !.retPos = c.pos, !.retTx = c.tx] ELSE r :
        r \in rows \cup c.new}

Open(w) == call[w].at \in {"claim", "position", "run"}

Holds(w) == call[w].at = "run"

(* ROLLBACK: nothing was applied; the caller gets the error.               *)
Rollback(w) == call' = [call EXCEPT ![w] = Idle]

(***************************************************************************)
(* withTransaction: a live precondition without a retraction of its id is  *)
(* refused before anything is written.                                     *)
(***************************************************************************)
validatePreconditions(req) ==
    req.live => \E i \in 1..Len(req.ops) : req.ops[i].op = "retract"

MayBegin(w) == adapter = "postgres" \/ \A v \in Writers : ~Open(v)

(* `transact` until its first statement: checks, transaction id, clock.    *)
Begin(w, req, now) ==
    /\ MayBegin(w)
    /\ began < MaxTx
    /\ IF validatePreconditions(req)
       THEN /\ began' = began + 1
            /\ call' = [call EXCEPT ![w] =
                 [at |-> "claim", req |-> req, tx |-> began + 1, now |-> now, pos |-> 0,
                  new |-> {}, gone |-> {}, changes |-> {}]]
       ELSE Rollback(w) /\ UNCHANGED began
    /\ UNCHANGED <<adapter, rows, position, receipts, journal>>

(***************************************************************************)
(* claimCommand: the insert waits for another transaction that holds the   *)
(* same key uncommitted, and then either finds its receipt or inserts.     *)
(***************************************************************************)
ClaimBlocked(w) ==
    \E v \in Writers \ {w} : /\ call[v].at \in {"position", "run"}
                             /\ call[v].req.cmd = call[w].req.cmd

Claim(w) ==
    LET cmd == call[w].req.cmd IN
    /\ call[w].at = "claim"
    /\ cmd = Null \/ ~ClaimBlocked(w)
    /\ IF \E r \in receipts : r[1] = cmd
       THEN Rollback(w)
       ELSE call' = [call EXCEPT ![w].at = "position"]
    /\ UNCHANGED <<adapter, rows, position, receipts, journal, began>>

(* nextCommitPosition: the upsert of the counter locks its row.            *)
CounterFree_Bug(w) == TRUE

CounterFree(w) == \A v \in Writers : ~Holds(v)

nextCommitPosition(w) ==
    /\ call[w].at = "position"
    /\ CounterFree(w)
    /\ call' = [call EXCEPT ![w].at = "run", ![w].pos = position + 1]
    /\ UNCHANGED <<adapter, rows, position, receipts, journal, began>>

(* The entity-state preconditions, after the position.                     *)
ObservedState(w) ==
    LET o == call[w].req.observe IN
    o = Null \/ {r.id : r \in {r \in Live(rows) : r.e = o.e}} = o.ids

(***************************************************************************)
(* The operations, in order.  Consecutive asserts are flushed together     *)
(* before the next retraction and at the end: nothing reads between them,  *)
(* so each is inserted when its turn comes.                                *)
(***************************************************************************)
insert(c, f) ==
    [id |-> <<c.tx, Cardinality(c.new)>>, e |-> f.e, a |-> f.a, v |-> f.v,
     from |-> IF f.from = Null THEN c.now ELSE f.from, to |-> f.to,
     recAt |-> c.now, recPos |-> c.pos, tx |-> c.tx,
     retAt |-> Null, retPos |-> Null, retTx |-> Null]

flushAssertBatch(c, op) ==
    LET row == insert(c, op.fact)
    IN  [c EXCEPT !.new = @ \cup {row},
                  !.changes = @ \cup {[op |-> "assert", id |-> row.id, e |-> row.e, a |-> row.a]}]

RetractRows(c, rs) ==
    [c EXCEPT !.gone = @ \cup {r.id : r \in rs},
              !.changes = @ \cup {[op |-> "retract", id |-> r.id, e |-> r.e, a |-> r.a] : r \in rs}]

(* adapter.retract answers whether the row was live.                       *)
RetractOne(c, op) ==
    LET hit == {r \in Live(Overlay(c)) : r.id = op.id}
    IN  IF hit = {} /\ c.req.live THEN [c EXCEPT !.at = "conflict"] ELSE RetractRows(c, hit)

ApplyOp(c, op) ==
    CASE c.at = "conflict" -> c
      [] c.at # "conflict" /\ op.op = "assert" -> flushAssertBatch(c, op)
      [] c.at # "conflict" /\ op.op = "retract" -> RetractOne(c, op)
      [] OTHER -> RetractRows(c, query(Live(Overlay(c)), op.pattern))

(* What the transaction has become after all its operations.               *)
Operations(c) ==
    LET after[i \in 0..Len(c.req.ops)] ==
          IF i = 0 THEN c ELSE ApplyOp(after[i - 1], c.req.ops[i])
    IN  after[Len(c.req.ops)]

(***************************************************************************)
(* The end of the transaction: the journal record, unless suppressed, and  *)
(* COMMIT.  `retract` fails the call afterwards when nothing was retracted.*)
(***************************************************************************)
metadataInputs(c) ==
    IF c.req.journal
    THEN {[tx |-> c.tx, pos |-> c.pos, at |-> c.now, changes |-> c.changes]}
    ELSE {}

Outcome(c) ==
    IF c.req.kind = "retract" /\ c.gone = {} THEN Idle
    ELSE [at |-> "committed", kind |-> c.req.kind, tx |-> c.tx, now |-> c.now,
          journal |-> c.req.journal, changes |-> c.changes]

(***************************************************************************)
(* What runs under the lock.  Every statement reads the committed rows and *)
(* the transaction's own writes, which nobody else sees before COMMIT, so  *)
(* one step stands for the preconditions, the operations and the commit.   *)
(***************************************************************************)
Run(w) ==
    /\ call[w].at = "run"
    /\ \E c \in {Operations(call[w])} :
         IF ObservedState(w) /\ c.at # "conflict"
         THEN /\ rows' = Overlay(c)
              /\ position' = c.pos
              /\ receipts' = receipts \cup (IF c.req.cmd = Null THEN {} ELSE {<<c.req.cmd, c.tx>>})
              /\ journal' = journal \cup metadataInputs(c)
              /\ call' = [call EXCEPT ![w] = Outcome(c)]
         ELSE Rollback(w) /\ UNCHANGED <<rows, position, receipts, journal>>
    /\ UNCHANGED <<adapter, began>>

(* A statement fails, the connection is lost or the process stops.         *)
Abort(w) ==
    /\ Open(w)
    /\ Rollback(w)
    /\ UNCHANGED <<adapter, rows, position, receipts, journal, began>>

TransactStep(w) ==
    \/ Claim(w) \/ nextCommitPosition(w) \/ Run(w) \/ Abort(w)

SqlInit ==
    /\ adapter \in Adapters
    /\ rows = {} /\ position = 0 /\ receipts = {} /\ journal = {} /\ began = 0
    /\ call = [w \in Writers |-> Idle]
=============================================================================
