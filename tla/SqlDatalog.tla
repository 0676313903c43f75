----------------------------- MODULE SqlDatalog -----------------------------
(***************************************************************************)
(* The SQL engines: what the compiled statement means.  A row of the join  *)
(* binds a variable to the column of the first pattern (or rule reference) *)
(* that mentions it: a cell <<"value", stored value>>, or an identity      *)
(* <<"id", n>>, which is text.  Conditions compare typed columns, so each  *)
(* names the scalar families it is about; NULL only comes from aggregates, *)
(* optional columns and the ordering of both.                              *)
(***************************************************************************)
EXTENDS Datalog

CONSTANT Dialects     \* subset of {"sqlite", "postgresql"}

ScalarOf(cell) == IF cell[1] = "id" THEN <<"text", cell[2]>> ELSE tripleValueToConstant(cell[2])

compileBindingEquality_Bug(l, r) ==
    IF l[1] = "value" /\ r[1] = "value" THEN l[2] = r[2]
    ELSE ScalarOf(l) = ScalarOf(r)

(* Text with text, numbers with numbers, booleans with booleans; an        *)
(* identity only with text.                                                *)
compileBindingEquality(l, r) ==
    IF l[1] = "value" /\ r[1] = "value"
    THEN Family(l[2][1]) = Family(r[2][1]) /\ l[2][2] = r[2][2]
    ELSE IF l[1] = "value" THEN Family(l[2][1]) = "text" /\ l[2][2] = r[2]
    ELSE IF r[1] = "value" THEN Family(r[2][1]) = "text" /\ r[2][2] = l[2]
    ELSE l[2] = r[2]

compilePatternValueCondition(v, t) ==
    IF t[1] = "ref" THEN v = t ELSE Family(v[1]) = t[1] /\ v[2] = t[2]

compileBindingConstantEquality(cell, t) ==
    LET c == constantScalar(t) IN
    IF cell[1] = "id" THEN c[1] = "text" /\ cell[2] = c[2]
    ELSE Family(cell[2][1]) = c[1] /\ cell[2][2] = c[2]

(* The condition and the binding a term of a pattern adds.                 *)
BindTerm(t, cell, env) ==
    IF ~IsVar(t)
    THEN {x \in {env} : IF cell[1] = "value" THEN compilePatternValueCondition(cell[2], t)
                        ELSE cell[2] = t[2]}
    ELSE IF t \in DOMAIN env THEN {x \in {env} : compileBindingEquality(cell, env[t])}
    ELSE {env @@ (t :> cell)}

PatternCells(p, f) ==
    LET cells == <<<<p[2], <<"id", f.e>>>>, <<p[3], <<"id", f.a>>>>, <<p[4], <<"value", f.v>>>>, <<p[5], <<"id", f.tx>>>>>>
    IN  IF p[5] = NoTerm THEN SubSeq(cells, 1, 3) ELSE cells

BindFact(p, f, env) ==
    FoldLeft(LAMBDA acc, x : UNION {BindTerm(x[1], x[2], e) : e \in acc}, {env}, PatternCells(p, f))

(* A sub-select: its own columns take precedence over the outer ones, once *)
(* compared with them.                                                     *)
compileNotPattern(p, f, env) ==
    UNION {{FoldLeft(LAMBDA acc, x : IF IsVar(x[1]) THEN (x[1] :> x[2]) @@ acc ELSE acc, e, PatternCells(p, f))}
             : e \in BindFact(p, f, env)}

-----------------------------------------------------------------------------
EqualityHolds(l, r, env) ==
    CASE IsVar(l) /\ IsVar(r) -> compileBindingEquality(env[l], env[r])
      [] IsVar(l) /\ ~IsVar(r) -> compileBindingConstantEquality(env[l], r)
      [] ~IsVar(l) /\ IsVar(r) -> compileBindingConstantEquality(env[r], l)
      [] OTHER -> constantScalar(l) = constantScalar(r)

(* A number column, or nothing to compare.                                 *)
orderedTermExpression(t, env) ==
    IF IsVar(t) THEN IF env[t][1] = "value" /\ Family(env[t][2][1]) = "num" THEN {env[t][2][2]} ELSE {}
    ELSE IF t[1] = "num" THEN {t[2]} ELSE {}

compilePredicateCondition(c, env) ==
    CASE c[2] = "="  -> EqualityHolds(c[3], c[4], env)
      [] c[2] = "!=" -> ~EqualityHolds(c[3], c[4], env)
      [] OTHER       -> \E l \in orderedTermExpression(c[3], env), r \in orderedTermExpression(c[4], env) :
                            Compare(c[2], l, r)

Exists(cs, env, facts) ==
    LET found == FoldLeft(LAMBDA acc, p : UNION {UNION {compileNotPattern(p, f, e) : f \in facts} : e \in acc},
                          {env}, Kinds(cs, "pattern"))
    IN  \E e \in found : \A p \in Range(Kinds(cs, "pred")) : compilePredicateCondition(p, e)

compileNotCondition(c, env, facts) == ~Exists(c[2], env, facts)

compileOr(c, env, facts) ==
    \E a \in Range(c[2]) :
        CASE a[1] = "pred" -> compilePredicateCondition(a, env)
          [] a[1] = "not"  -> compileNotCondition(a, env, facts)
          [] OTHER         -> Exists(<<a>>, env, facts)

-----------------------------------------------------------------------------
(***************************************************************************)
(* A rule is a common table expression of rows <<arg1, arg2, depth,        *)
(* derivation>>: each base definition is SELECT DISTINCT, everything else  *)
(* UNION ALL, so a pair derived twice is two rows.  Values are text.       *)
(***************************************************************************)
RuleBind(p, f, env) ==
    IF IsVar(p[4]) /\ Family(f.v[1]) # "text" THEN {} ELSE BindFact(p, f, env)

compileRuleDefinition(r, facts) ==
    LET ps   == Kinds(r.body, "pattern")
        envs == FoldLeft(LAMBDA acc, p : UNION {UNION {RuleBind(p, f, e) : f \in facts} : e \in acc}, {<<>>}, ps)
    IN  {<<ScalarOf(e[ps[1][2]])[2], ScalarOf(e[Last(ps)[4]])[2]>> : e \in envs}

IsRecursive(r) == Kinds(r.body, "call") # <<>>

RuleBase(rules, name, facts) ==
    UNION {{<<x[1], x[2], 0, <<i>>>> : x \in compileRuleDefinition(rules[i], facts)}
             : i \in {j \in DOMAIN rules : rules[j].name = name /\ ~IsRecursive(rules[j])}}

RuleMore(rules, name, rows, facts) ==
    UNION {LET p == Kinds(rules[i].body, "pattern")[1] IN
           {<<fr[1].e, fr[2][2], fr[2][3] + 1, <<i, fr[1].id>> \o fr[2][4]>> :
               fr \in {x \in facts \X rows : /\ Family(x[1].v[1]) = "text" /\ x[1].v[2] = x[2][1]
                                             /\ ~IsVar(p[3]) => x[1].a = p[3][2]}}
             : i \in {j \in DOMAIN rules : rules[j].name = name /\ IsRecursive(rules[j])}}

compileRecursiveCTE(rules, name, facts) ==
    LET level[k \in 0..maxDepth(rules, name)] ==
            IF k = 0 THEN RuleBase(rules, name, facts) ELSE RuleMore(rules, name, level[k - 1], facts)
    IN  UNION {level[k] : k \in 0..maxDepth(rules, name)}

compileRuleApplicationInWhere(c, x, envs) ==
    UNION {UNION {{[env |-> e2, w |-> Append(row.w, x)] :
                     e2 \in BindTerm(c[4], <<"id", x[2]>>, e1)} : e1 \in BindTerm(c[3], <<"id", x[1]>>, row.env)}
             : row \in envs}

-----------------------------------------------------------------------------
(* FROM and JOIN, then WHERE.                                              *)
Joined(q, facts) ==
    LET patterns == FoldLeft(LAMBDA rows, p :
                        UNION {UNION {{[env |-> e, w |-> Append(row.w, f)] : e \in BindFact(p, f, row.env)}
                                         : f \in facts} : row \in rows},
                        {[env |-> <<>>, w |-> <<>>]}, Kinds(q.where, "pattern"))
    IN  FoldLeft(LAMBDA rows, c :
            LET cte == compileRecursiveCTE(q.rules, c[2], facts)
            IN  UNION {compileRuleApplicationInWhere(c, x, rows) : x \in cte},
            patterns, Kinds(q.where, "call"))

Selected(q, facts) ==
    {row \in Joined(q, facts) :
        /\ \A c \in Range(Kinds(q.where, "pred")) : compilePredicateCondition(c, row.env)
        /\ \A c \in Range(Kinds(q.where, "not")) : compileNotCondition(c, row.env, facts)
        /\ \A c \in Range(Kinds(q.where, "or")) : compileOr(c, row.env, facts)}

(* An identity summed as a number: the text has no number in it.           *)
NumericColumn(cell) ==
    IF cell[1] = "id" THEN {0}
    ELSE IF Family(cell[2][1]) = "num" THEN {cell[2][2]} ELSE {}

AggregateColumn(op, src, group) ==
    LET nums == {row \in group : NumericColumn(row.env[src]) # {}}
        num(row) == CHOOSE n \in NumericColumn(row.env[src]) : TRUE
    IN  IF op = "count" THEN <<"num", Cardinality({ScalarOf(row.env[src]) : row \in group})>>
        ELSE IF nums = {} THEN Null
        ELSE CASE op = "sum" -> <<"num", MapThenSumSet(num, nums)>>
               [] op = "min" -> <<"num", Min({num(row) : row \in nums})>>
               [] op = "max" -> <<"num", Max({num(row) : row \in nums})>>

optionalProjectionExpressions(q, env, attribute, facts) ==
    LET found == {f \in facts : <<"text", f.e>> = ScalarOf(env[q.optional.row]) /\ f.a = attribute}
    IN  IF found = {} THEN Null ELSE tripleValueToConstant((CHOOSE f \in found : TRUE).v)

OptionalColumns(q, env, facts) ==
    [v \in {f[2] : f \in Range(q.optional.fields)} |->
        optionalProjectionExpressions(q, env, (CHOOSE f \in Range(q.optional.fields) : f[2] = v)[1], facts)]

(* SELECT DISTINCT, or one row per group; a group's optional columns are   *)
(* those of one of its rows.                                               *)
buildSelectAndGroupBy(q, rows, facts) ==
    LET targets == {a[3] : a \in Range(q.aggregate)}
        keys    == {v \in Range(q.find) : v \notin targets /\ \A f \in Range(q.optional.fields) : f[2] # v}
        key(r)  == [v \in keys |-> ScalarOf(r.env[v])]
        groups  == IF rows = {} /\ keys = {} THEN {<<>>} ELSE {key(r) : r \in rows}
    IN  IF q.aggregate = <<>> THEN {key(r) @@ OptionalColumns(q, r.env, facts) : r \in rows}
        ELSE {LET mine == {r \in rows : key(r) = k} IN
              k @@ [t \in targets |-> LET a == CHOOSE x \in Range(q.aggregate) : x[3] = t
                                      IN  AggregateColumn(a[1], a[2], mine)]
                @@ (IF mine = {} THEN <<>> ELSE OptionalColumns(q, (CHOOSE r \in mine : TRUE).env, facts))
                : k \in groups}

(* HAVING: a comparison with NULL keeps nothing, negated or not; with an   *)
(* aggregate on either side both are compared as numbers.                  *)
buildHavingClause(h, row, q) ==
    LET term(t) == IF IsVar(t) THEN row[t] ELSE constantScalar(t)
        l       == term(h[3])
        r       == term(h[4])
        numeric == \E t \in {h[3], h[4]} : t \in {a[3] : a \in Range(q.aggregate)}
        other   == \E s \in {l, r} : s[1] \notin {"num", "null"}
    IN  CASE h[2] = "="  -> l = r /\ l # Null
          [] h[2] = "!=" -> \/ numeric /\ other
                            \/ l # r /\ l # Null /\ r # Null
          [] OTHER       -> l[1] = "num" /\ r[1] = "num" /\ Compare(h[2], l[2], r[2])

SqlRows(q, facts) ==
    {row \in buildSelectAndGroupBy(q, Selected(q, facts), facts) :
        \A h \in Range(q.having) : buildHavingClause(h, row, q)}

(* ORDER BY of the inner query: a value or optional column by its hidden   *)
(* category, any other by itself, NULL where the dialect puts it.          *)
RawColumns(q) == {a[3] : a \in Range(q.aggregate)}

RawBefore(l, r, dir, dialect) ==
    IF l = Null \/ r = Null
    THEN l # r /\ ((l = Null) <=> ((dialect = "sqlite") <=> (dir = "asc")))
    ELSE IF dir = "asc" THEN l[2] < r[2] ELSE l[2] > r[2]

buildOrderByClause(a, b, q, dialect) ==
    \E i \in DOMAIN q.order :
        LET v == q.order[i][1] IN
        /\ \A j \in 1..(i - 1) : a[q.order[j][1]] = b[q.order[j][1]]
        /\ IF v \in RawColumns(q) THEN RawBefore(a[v], b[v], q.order[i][2], dialect)
           ELSE comparePaginationValues(a[v], b[v], q.order[i][2]) < 0

SqlLimited(rows, q, dialect) ==
    IF q.limit = 0 /\ q.offset = 0 THEN rows
    ELSE Range(applyLimitOffset(SetToSortSeq(rows, LAMBDA a, b : buildOrderByClause(a, b, q, dialect)),
                                q.limit, q.offset))

SqlQuery(q, facts, dialect) == SqlLimited(SqlRows(q, facts), q, dialect)

-----------------------------------------------------------------------------
(* The wrapper: filters on typed columns, keyset, order, limit.            *)
compileFilter(f, row) ==
    LET v == row[f[1]] IN
    CASE f[2] = "is-null"     -> v = Null
      [] f[2] = "is-not-null" -> v # Null
      [] OTHER -> /\ v[1] = f[3][1]
                  /\ CASE f[2] = "=" -> v[2] = f[3][2] [] f[2] = "!=" -> v[2] # f[3][2]
                       [] OTHER -> v[1] # "bool" /\ Compare(f[2], v[2], f[3][2])

(* The sort components of a column: [value, direction], Null a SQL NULL.   *)
sortComponents(s, dir, raw) ==
    LET only(fam) == IF s[1] = fam THEN <<fam, s[2]>> ELSE Null IN
    IF raw THEN << <<<<"num", IF s = Null THEN 1 ELSE 0>>, "asc">>, <<s, dir>> >>
    ELSE << <<<<"num", paginationCategory(s)>>, "asc">>, <<only("num"), dir>>,
            <<only("bool"), dir>>, <<only("text"), dir>> >>

RowComponents(values, order, q) ==
    FoldLeft(LAMBDA acc, i : acc \o sortComponents(values[i], order[i][2], order[i][1] \in RawColumns(q)),
             <<>>, [i \in DOMAIN order |-> i])

(* The rows cs after the cursor us.                                        *)
compileKeysetClause(cs, us) ==
    \E i \in DOMAIN us :
        /\ us[i][1] # Null /\ cs[i][1] # Null
        /\ IF us[i][2] = "asc" THEN cs[i][1][2] > us[i][1][2] ELSE cs[i][1][2] < us[i][1][2]
        /\ \A j \in 1..(i - 1) : cs[j][1] = us[j][1]

(* ORDER BY of the wrapper: the first component in which two rows differ.  *)
ComponentsBefore(x, y) ==
    \E i \in DOMAIN x :
        /\ \A j \in 1..(i - 1) : x[j] = y[j]
        /\ IF x[i][2] = "asc" THEN x[i][1][2] < y[i][1][2] ELSE x[i][1][2] > y[i][1][2]

compileWrapped(w, facts, cursor, dialect) ==
    LET comps(row) == RowComponents([i \in DOMAIN w.order |-> row[w.order[i][1]]], w.order, w.inner)
        rows == {row \in SqlQuery(w.inner, facts, dialect) :
                    /\ \A f \in Range(w.filters) : compileFilter(f, row)
                    /\ cursor # <<>> => compileKeysetClause(comps(row), RowComponents(cursor, w.order, w.inner))}
    IN  applyLimitOffset(SetToSortSeq(rows, LAMBDA a, b : ComponentsBefore(comps(a), comps(b))), w.limit, 0)
=============================================================================
