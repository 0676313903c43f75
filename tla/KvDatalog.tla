----------------------------- MODULE KvDatalog -----------------------------
(***************************************************************************)
(* The in-memory engine of the key-value store: contexts (bindings of      *)
(* variables to scalars) are extended clause by clause over index scans.   *)
(* A context keeps the facts it was made of, so that two contexts with the *)
(* same bindings count twice, as they do in the code's arrays.             *)
(*                                                                         *)
(* A fact is [e, a, v, tx, ...]; every operator takes the visible facts.   *)
(***************************************************************************)
EXTENDS Datalog

CONSTANT HashThreshold    \* from how many contexts on a pattern is hash-joined

(* Binding a term to a scalar: no context, or one.                         *)
matchTerm(t, c, b) ==
    IF IsVar(t)
    THEN IF t \in DOMAIN b THEN {x \in {b} : b[t] = c} ELSE {b @@ (t :> c)}
    ELSE {x \in {b} : constantScalar(t) = c}

matchValue(t, v, b) ==
    IF t[1] = "ref" THEN {x \in {b} : v = t} ELSE matchTerm(t, tripleValueToConstant(v), b)

bindDatom(p, f, b) ==
    UNION {UNION {UNION {IF p[5] = NoTerm THEN {b3} ELSE matchTerm(p[5], <<"text", f.tx>>, b3)
                           : b3 \in matchValue(p[4], f.v, b2)}
                    : b2 \in matchTerm(p[3], <<"text", f.a>>, b1)}
             : b1 \in matchTerm(p[2], <<"text", f.e>>, b)}

(* The stored values a bound scalar may be, one exact index scan each.     *)
constantToScanValues(c) ==
    CASE c[1] = "text" -> {<<t, c[2]>> : t \in {"string", "ref", "blob", "json"}}
      [] c[1] = "num"  -> {<<t, c[2]>> : t \in {"number", "datetime"}}
      [] c[1] = "bool" -> {<<"boolean", c[2]>>}
      [] OTHER         -> {c}

resolveTermForScan(t, b) == IF ~IsVar(t) THEN {t} ELSE IF t \in DOMAIN b THEN {b[t]} ELSE {}

(* The facts the scans of a pattern in a context return.                   *)
patternToScanPatterns(p, b, facts) ==
    {f \in facts :
        /\ \A c \in resolveTermForScan(p[2], b) : c[2] = f.e
        /\ \A c \in resolveTermForScan(p[3], b) : c[2] = f.a
        /\ \A c \in resolveTermForScan(p[4], b) : f.v \in constantToScanValues(c)}

HashJoinable(p, ctxs) ==
    /\ Cardinality(ctxs) > HashThreshold
    /\ IsVar(p[2]) /\ ~IsVar(p[3])
    /\ p[2] \in DOMAIN (CHOOSE c \in ctxs : TRUE).b

executePatternHashJoin(p, ctx, facts) ==
    {f \in facts : f.a = p[3][2] /\ f.e = ctx.b[p[2]][2]}

executePattern(p, ctxs, facts) ==
    LET hash == HashJoinable(p, ctxs) IN
    UNION {LET found == IF hash THEN executePatternHashJoin(p, ctx, facts)
                                ELSE patternToScanPatterns(p, ctx.b, facts)
           IN  UNION {{[b |-> b, w |-> Append(ctx.w, f)] : b \in bindDatom(p, f, ctx.b)} : f \in found}
             : ctx \in ctxs}

resolveTerm(t, b) == IF IsVar(t) THEN IF t \in DOMAIN b THEN b[t] ELSE Null ELSE constantScalar(t)

evaluatePredicate(c, b) ==
    LET l == resolveTerm(c[3], b)
        r == resolveTerm(c[4], b)
    IN  /\ l # Null /\ r # Null
        /\ CASE c[2] = "="  -> l = r
             [] c[2] = "!=" -> l # r
             [] OTHER       -> l[1] = "num" /\ r[1] = "num" /\ Compare(c[2], l[2], r[2])

-----------------------------------------------------------------------------
innerClausesMatchContext(cs, ctx, facts) ==
    LET found == FoldLeft(LAMBDA acc, p : executePattern(p, acc, facts), {ctx}, Kinds(cs, "pattern"))
    IN  \E c \in found : \A p \in Range(Kinds(cs, "pred")) : evaluatePredicate(p, c.b)

orAlternativeMatchesContext(c, ctx, facts) ==
    CASE c[1] = "pred" -> evaluatePredicate(c, ctx.b)
      [] c[1] = "not"  -> ~innerClausesMatchContext(c[2], ctx, facts)
      [] OTHER         -> executePattern(c, {ctx}, facts) # {}

(* Rules: binary pairs of identities, to a fixpoint or the depth bound.    *)
ruleHeadVariables(r) ==
    LET ps   == Kinds(r.body, "pattern")
        last == Last(r.body)
    IN  <<ps[1][2], last[4]>>

bindRule(c, pair, b) ==
    UNION {matchTerm(c[4], <<"text", pair[2]>>, b1) : b1 \in matchTerm(c[3], <<"text", pair[1]>>, b)}

applyRulePairs(ctxs, c, pairs) ==
    UNION {UNION {{[b |-> b, w |-> Append(ctx.w, pair)] : b \in bindRule(c, pair, ctx.b)} : pair \in pairs}
             : ctx \in ctxs}

RuleStep(r, pairs, facts) ==
    LET found == FoldLeft(LAMBDA acc, c : IF c[1] = "call" THEN applyRulePairs(acc, c, pairs)
                                          ELSE executePattern(c, acc, facts),
                          {[b |-> <<>>, w |-> <<>>]}, r.body)
        head  == ruleHeadVariables(r)
    IN  {<<c.b[head[1]][2], c.b[head[2]][2]>> :
            c \in {x \in found : x.b[head[1]][1] = "text" /\ x.b[head[2]][1] = "text"}}

deriveRulePairs(rules, name, facts) ==
    LET pairs[k \in 0..(maxDepth(rules, name) + 1)] ==
            IF k = 0 THEN {}
            ELSE LET known == pairs[k - 1] IN
                 known \cup UNION {RuleStep(r, known, facts) : r \in {x \in Range(rules) : x.name = name}}
    IN  pairs[maxDepth(rules, name) + 1]

executeClause(c, ctxs, q, facts) ==
    CASE c[1] = "pattern" -> executePattern(c, ctxs, facts)
      [] c[1] = "call"    -> LET pairs == deriveRulePairs(q.rules, c[2], facts)
                             IN  applyRulePairs(ctxs, c, pairs)
      [] c[1] = "pred"    -> {x \in ctxs : evaluatePredicate(c, x.b)}
      [] c[1] = "not"     -> {x \in ctxs : ~innerClausesMatchContext(c[2], x, facts)}
      [] c[1] = "or"      -> {x \in ctxs : \E a \in Range(c[2]) : orAlternativeMatchesContext(a, x, facts)}

ExecutionOrder_Bug(where) == where

(* Positive relations first, whatever the written order.                   *)
ExecutionOrder(where) ==
    Kinds(where, "pattern") \o Kinds(where, "call") \o Kinds(where, "pred")
        \o Kinds(where, "not") \o Kinds(where, "or")

executeWhere(q, facts) ==
    FoldLeft(LAMBDA acc, c : executeClause(c, acc, q, facts),
             {[b |-> <<>>, w |-> <<>>]}, ExecutionOrder(q.where))

-----------------------------------------------------------------------------
(* count is of distinct values; the others keep duplicates and see only    *)
(* numbers.                                                                *)
computeAggregate(op, src, group) ==
    LET nums == {c \in group : c.b[src][1] = "num"} IN
    IF op = "count" THEN <<"num", Cardinality({c.b[src] : c \in group})>>
    ELSE IF nums = {} THEN Null
    ELSE CASE op = "sum" -> <<"num", MapThenSumSet(LAMBDA c : c.b[src][2], nums)>>
           [] op = "min" -> <<"num", Min({c.b[src][2] : c \in nums})>>
           [] op = "max" -> <<"num", Max({c.b[src][2] : c \in nums})>>

aggregate(q, ctxs) ==
    LET targets == {a[3] : a \in Range(q.aggregate)}
        keys    == {v \in Range(q.find) : v \notin targets /\ \A f \in Range(q.optional.fields) : f[2] # v}
        key(c)  == [v \in keys |-> c.b[v]]
        groups  == IF ctxs = {} /\ keys = {} THEN {<<>>} ELSE {key(c) : c \in ctxs}
    IN  {k @@ [t \in targets |->
                 LET a == CHOOSE x \in Range(q.aggregate) : x[3] = t
                 IN  computeAggregate(a[1], a[2], {c \in ctxs : key(c) = k})] : k \in groups}

actualize(q, ctxs) ==
    {[v \in {x \in Range(q.find) : x \in DOMAIN c.b} |-> c.b[v]] : c \in ctxs}

(* Optional fields: looked up by the row's own projected identity, the     *)
(* first fact of the attribute in index order.                             *)
optionalField(row, q, attribute, facts) ==
    LET found == {f \in facts : <<"text", f.e>> = row[q.optional.row] /\ f.a = attribute}
    IN  IF found = {} THEN Null ELSE tripleValueToConstant((CHOOSE f \in found : TRUE).v)

hydrateOptionalProjection(q, rows, facts) ==
    {row @@ [v \in {f[2] : f \in Range(q.optional.fields)} |->
                IF q.optional.row \notin DOMAIN row THEN Null
                ELSE optionalField(row, q, (CHOOSE f \in Range(q.optional.fields) : f[2] = v)[1], facts)]
        : row \in rows}

applyHaving(q, rows) == {row \in rows : \A h \in Range(q.having) : evaluatePredicate(h, row)}

(* executeQuery: a set of rows, or an ordered subset of it.                *)
Projected(q, ctxs) == IF q.aggregate = <<>> THEN actualize(q, ctxs) ELSE aggregate(q, ctxs)

KvRows(q, facts) ==
    applyHaving(q, hydrateOptionalProjection(q, Projected(q, executeWhere(q, facts)), facts))

KvSort(rows, order) == SetToSortSeq(rows, LAMBDA a, b : Before(a, b, order))

KvLimited(rows, q) ==
    IF q.limit = 0 /\ q.offset = 0 THEN rows
    ELSE Range(applyLimitOffset(KvSort(rows, q.order), q.limit, q.offset))

KvQuery(q, facts) == KvLimited(KvRows(q, facts), q)

-----------------------------------------------------------------------------
(* executeWrappedQuery: filters, order, cursor, limit.                     *)
evaluateWrapperFilter(f, row) ==
    LET v == row[f[1]] IN
    CASE f[2] = "is-null"     -> v = Null
      [] f[2] = "is-not-null" -> v # Null
      [] f[2] = "="           -> v = f[3]
      [] f[2] = "!="          -> v[1] = f[3][1] /\ v # f[3]
      [] OTHER                -> v[1] = f[3][1] /\ v[1] \in {"num", "text"} /\ Compare(f[2], v[2], f[3][2])

applyCursor(rows, order, cursor) ==
    IF cursor = <<>> THEN rows
    ELSE {row \in rows :
            \E i \in DOMAIN order :
                /\ comparePaginationValues(row[order[i][1]], cursor[i], order[i][2]) > 0
                /\ \A j \in 1..(i - 1) :
                     comparePaginationValues(row[order[j][1]], cursor[j], order[j][2]) = 0}

KvWrapped(w, facts, cursor) ==
    LET rows == {row \in KvQuery(w.inner, facts) : \A f \in Range(w.filters) : evaluateWrapperFilter(f, row)}
    IN  applyLimitOffset(KvSort(applyCursor(rows, w.order, cursor), w.order), w.limit, 0)
=============================================================================
