---------------------------- MODULE QueryService ----------------------------
(***************************************************************************)
(* queryAll and queryPage of the two Triples services over their engines,  *)
(* with writers at work between the pages of a reader.                     *)
(*                                                                         *)
(*   facts   [id, e, a, v, tx, rec, gone]: rec and gone are the commit     *)
(*           positions that asserted and retracted the fact (0: live)      *)
(*   pos     the store's commit position                                   *)
(*   reader  a caller that reads page after page: the rows it has, the     *)
(*           cursor it was handed (None at the start) and what became of   *)
(*           its last request                                              *)
(***************************************************************************)
EXTENDS KvDatalog, SqlDatalog, Hexastore

CONSTANTS
    FactInputs,      \* [e, a, v]: what a writer asserts
    Batches,         \* sets of them: what the store holds at first
    MaxPos,
    Queries,         \* what is asked of every store
    Permuted,        \* pairs of queries: one conjunction, written in two orders
    PagedQueries,    \* what the reader pages through
    TextBytes,       \* the UTF-8 bytes of each text
    TypeOf,          \* per entity, the text of its type, if it has one
    None

VARIABLES facts, pos, reader

vars == <<facts, pos, reader>>

Engines == {"kv"} \cup Dialects

(* The facts a temporal basis shows.                                       *)
applyTemporalBasis_Bug(fs, at) == {f \in fs : f.gone = 0}

applyTemporalBasis(fs, at) == {f \in fs : f.rec <= at /\ (f.gone = 0 \/ f.gone > at)}

Current == applyTemporalBasis(facts, pos)

execute(engine, q, fs) ==
    IF engine = "kv" THEN KvQuery(q, fs) ELSE SqlQuery(q, fs, engine)

executePage(engine, w, fs, cursor) ==
    IF engine = "kv" THEN KvWrapped(w, fs, cursor) ELSE compileWrapped(w, fs, cursor, engine)

-----------------------------------------------------------------------------
(* A limit or an offset is a boundary: its order is completed as well.     *)
stableInner(q) ==
    IF q.limit = 0 /\ q.offset = 0 THEN q
    ELSE [q EXCEPT !.order = normalizePaginationOrder(q.find, q.order)]

wrapDatalogQuery(q, filters, order, size) ==
    [inner |-> q, filters |-> filters, order |-> order, limit |-> size]

(* The query a page stands for, and the one asked: a row more.             *)
logicalQuery(w) ==
    [w EXCEPT !.inner = stableInner(w.inner), !.order = normalizePaginationOrder(w.inner.find, w.order)]

queryFingerprint(w, basis) == <<logicalQuery(w), basis>>

(* A cursor is refused with another query, page size, order or basis.      *)
preparePagination(w, cursor) ==
    IF cursor = None THEN {[basis |-> pos, values |-> <<>>]}
    ELSE {c \in {cursor} : c.print = queryFingerprint(w, c.basis)}

finishPagination(w, basis, rows) ==
    IF Len(rows) <= w.limit THEN [rows |-> rows, next |-> None]
    ELSE LET lw   == logicalQuery(w)
             last == rows[w.limit]
         IN  [rows |-> SubSeq(rows, 1, w.limit),
              next |-> [basis |-> basis, print |-> queryFingerprint(w, basis),
                        values |-> [i \in DOMAIN lw.order |-> last[lw.order[i][1]]]]]

queryPage(engine, w, p) ==
    LET lw == logicalQuery(w) IN
    finishPagination(w, p.basis,
        executePage(engine, [lw EXCEPT !.limit = w.limit + 1], applyTemporalBasis(facts, p.basis), p.values))

-----------------------------------------------------------------------------
Recorded(batch, at) ==
    LET inputs == SetToSeq(batch) IN
    {[id |-> <<at, i>>, e |-> inputs[i].e, a |-> inputs[i].a, v |-> inputs[i].v,
      tx |-> 90 + at, rec |-> at, gone |-> 0] : i \in DOMAIN inputs}

(* Writers: what they do before the reader starts is the initial store.    *)
Transact(f) ==
    /\ reader.at = "paging" /\ pos < MaxPos
    /\ pos' = pos + 1
    /\ facts' = facts \cup Recorded({f}, pos + 1)
    /\ UNCHANGED reader

Retract(f) ==
    /\ reader.at = "paging" /\ pos < MaxPos
    /\ pos' = pos + 1
    /\ facts' = (facts \ {f}) \cup {[f EXCEPT !.gone = pos + 1]}
    /\ UNCHANGED reader

(* The reader asks for its first page, or for the next one with the cursor *)
(* it holds; a continuation may also name the wrong query, by mistake.     *)
Page(engine, w) ==
    /\ assertWrappedQuery(w)
    /\ \/ reader.at = "idle"
       \/ reader.at = "paging" /\ reader.engine = engine
    /\ LET prepared == preparePagination(w, reader.next) IN
       IF prepared = {} THEN reader' = [reader EXCEPT !.at = "refused"]
       ELSE \E p \in prepared : \E page \in {queryPage(engine, w, p)} :
              reader' = [at |-> IF page.next = None THEN "done" ELSE "paging",
                         engine |-> engine,
                         query |-> IF reader.at = "idle" THEN w ELSE reader.query,
                         basis |-> p.basis,
                         rows |-> reader.rows \o page.rows,
                         next |-> page.next]
    /\ UNCHANGED <<facts, pos>>

Init ==
    /\ pos = 1
    /\ \E b \in Batches : facts = Recorded(b, 1)
    /\ reader = [at |-> "idle", engine |-> None, query |-> None, basis |-> 0, rows |-> <<>>, next |-> None]

Next ==
    \/ \E f \in FactInputs : Transact(f)
    \/ \E f \in Current : Retract(f)
    \/ \E engine \in Engines, w \in PagedQueries : Page(engine, w)

Spec == Init /\ [][Next]_vars

-----------------------------------------------------------------------------
(* Properties.                                                             *)
SingleValued(q, fs) ==
    \A x \in Range(q.optional.fields) :
        \A f, g \in fs : (f.a = x[1] /\ g.a = x[1] /\ f.e = g.e) => f.v = g.v

(***************************************************************************)
(* Every query the preflight accepts has one answer, whatever the engine   *)
(* and its dialect: joins across scalar families, negation with local      *)
(* variables, disjunction, rules, duplicates under aggregates, limits.     *)
(* (The optional field of an attribute with several values is any of them.)*)
(***************************************************************************)
EnginesAgree ==
    reader.at = "idle" => \A q \in Queries :
        (assertDatalogQuery(q) /\ SingleValued(q, Current)) =>
            Cardinality({execute(engine, stableInner(q), Current) : engine \in Engines}) = 1

(***************************************************************************)
(* Conjunctions are clause-order independent (docs/datalog.md:150): one    *)
(* where-list in two orders has one answer on each engine.                 *)
(***************************************************************************)
ClauseOrderIrrelevant ==
    reader.at = "idle" => \A p \in Permuted, engine \in Engines :
        Cardinality({execute(engine, q, Current) : q \in Range(p)}) = 1

(***************************************************************************)
(* The pages a reader has been given are, in order and without gap or      *)
(* repetition, the answer to its query at the first page's commit          *)
(* position, whatever was asserted or retracted since; and all of it at    *)
(* the end.                                                                *)
(***************************************************************************)
PagesFormAnswer ==
    reader.at \notin {"idle"} =>
        \E whole \in {executePage("kv", [logicalQuery(reader.query) EXCEPT !.limit = 0],
                                  applyTemporalBasis(facts, reader.basis), <<>>)} :
            /\ IsPrefix(reader.rows, whole)
            /\ reader.at = "done" => reader.rows = whole

(***************************************************************************)
(* The scans under the key-value engine.                                   *)
(***************************************************************************)
tripleInputToDatom(f) ==
    [tripleId |-> f.id, entity |-> TextBytes[f.e], attribute |-> TextBytes[f.a],
     value |-> IF f.v[1] \in Textual THEN <<f.v[1], TextBytes[f.v[2]]>> ELSE f.v,
     txId |-> TextBytes[f.tx], recordedAt |-> f.rec, recordedPosition |-> f.rec,
     createdBy |-> <<>>, entityType |-> [i \in DOMAIN TypeOf[f.e] |-> TextBytes[TypeOf[f.e][i]]],
     validFrom |-> f.rec, validTo |-> <<>>,
     retractedAt |-> <<>>, retractTxId |-> <<>>, retractedPosition |-> <<>>]

Optional(S) == {<<>>} \cup {<<x>> : x \in S}

ScanPatterns(ds) ==
    [entity : Optional({d.entity : d \in ds}), attribute : Optional({d.attribute : d \in ds}),
     value : Optional({d.value : d \in ds})]

\* A pattern scan misses no live datom and returns no other, and a type scan
\* neither, although texts hold 0 bytes and are prefixes of one another.
ScansAnswerPatterns(kv, ds) ==
    /\ \A p \in ScanPatterns(ds) : scanCollect(kv, p) = {d \in ds : matchesScan(d, p)}
    /\ \A t \in UNION {ToSet(d.entityType) : d \in ds} :
          getByEntityType(kv, t) = {d \in ds : d.entityType = <<t>>}

\* A META record is read back as it was written, whatever it leaves out.
RecordsRoundTrip(ds) ==
    \A d \in ds :
      \A by \in Optional({d.entity}), at, to, n \in Optional({7}), tx \in Optional({d.txId}) :
        LET x == [d EXCEPT !.createdBy = by, !.retractedAt = at, !.validTo = to,
                           !.retractedPosition = n, !.retractTxId = tx]
        IN  deserializeDatom(serializeDatom(x)) = x

\* A transaction scans what the store would hold once its buffer is applied:
\* a new datom, the retraction of the others and a deleted type key.
TransactionsSeeTheirWrites(ds) ==
    \A d \in ds :
        LET kv     == UNION {assertEntries(x) : x \in ds \ {d}}
            buffer == assertEntries(d)
                        \cup {MetaEntry([x EXCEPT !.retractedAt = <<7>>]) : x \in ds \ {d}}
                        \cup {<<w[1], Deleted>> : w \in UNION {TypeEntries(x) : x \in ds \ {d}}}
        IN  \A p \in {patternToScan(q) : q \in ScanPatterns({d})}
                       \cup {[start |-> <<TypePrefix>>, end |-> <<MetaPrefix + 1>>]} :
              txGetRange(kv, buffer, p) = getRange(applyWriteBuffer(kv, buffer), p)

\* Pages of any size, in either direction, add up to the range.
PagesCoverRange(kv) ==
    \A prefix \in ToSet(<<1, 3, MetaPrefix>>), size \in 1..2, reverse \in BOOLEAN :
        LET range == [start |-> <<prefix>>, end |-> <<prefix + 1>>]
        IN  pagedRange(kv, range, size, reverse) = sortedEntries(getRange(kv, range), reverse)

(***************************************************************************)
(* What the engine's joins read is the store: index scans are exact        *)
(* however the keys were built, inside transactions too, and pages of a    *)
(* range neither skip nor repeat an entry.                                 *)
(***************************************************************************)
ScansExact ==
    reader.at = "idle" =>
        LET ds == {tripleInputToDatom(f) : f \in Current}
            kv == UNION {assertEntries(d) : d \in ds}
        IN  /\ kv = UNION {assertBatchStr(d) : d \in ds}
            /\ ScansAnswerPatterns(kv, ds)
            /\ RecordsRoundTrip(ds)
            /\ TransactionsSeeTheirWrites(ds)
            /\ PagesCoverRange(kv)

=============================================================================
