------------------------------ MODULE Datalog ------------------------------
(***************************************************************************)
(* The query language the engines share: terms, clauses, the preflight     *)
(* every query passes and the total order of results.                      *)
(*                                                                         *)
(* A text, an identity, a number is an integer: only equality and order    *)
(* matter.  A term is a pair: <<"?", x>> a variable, <<"text", n>>,        *)
(* <<"num", n>>, <<"bool", n>> a constant, <<"ref", n>> a typed constant,  *)
(* NoTerm an absent transaction term.  A stored value is <<type, n>>; what *)
(* a query sees of it is the scalar of its family.                         *)
(*                                                                         *)
(* A clause is <<"pattern", e, a, v, tx>>, <<"pred", op, l, r>>,           *)
(* <<"not", clauses>>, <<"or", clauses>> or <<"call", rule, arg1, arg2>>.  *)
(***************************************************************************)
EXTENDS Integers, FiniteSets, SequencesExt

CONSTANT DefaultDepth     \* the recursion depth of a rule without maxDepth

NoTerm == <<"none", 0>>
Null   == <<"null", 0>>

IsVar(t) == t[1] = "?"

Kinds(where, kind) == SelectSeq(where, LAMBDA c : c[1] = kind)

PatternVars(p) == {p[i] : i \in {j \in 2..5 : IsVar(p[j])}}

(* The scalar family of a stored type.                                     *)
Family(type) ==
    IF type \in {"string", "ref", "blob", "json"} THEN "text"
    ELSE IF type \in {"number", "datetime"} THEN "num" ELSE "bool"

tripleValueToConstant(v) == <<Family(v[1]), v[2]>>

(* A typed constant stands for its value outside a pattern's value.        *)
constantScalar(t) == IF t[1] = "ref" THEN <<"text", t[2]>> ELSE t

Ordered == {">", ">=", "<", "<="}

Compare(op, l, r) ==
    CASE op = ">"  -> l > r
      [] op = ">=" -> l >= r
      [] op = "<"  -> l < r
      [] op = "<=" -> l <= r

-----------------------------------------------------------------------------
(* Preflight.                                                              *)
Positive(q) == Range(Kinds(q.where, "pattern")) \cup Range(Kinds(q.where, "call"))

positiveBindings(q) ==
    UNION {IF c[1] = "pattern" THEN PatternVars(c) ELSE {t \in {c[3], c[4]} : IsVar(t)}
             : c \in Positive(q)}

numericBindings(ps) == {p[4] : p \in {p \in ps : IsVar(p[4])}}

validatePredicate(c, bound, numeric) ==
    \A t \in {c[3], c[4]} :
        /\ IsVar(t) => t \in bound
        /\ c[2] \in Ordered => IF IsVar(t) THEN t \in numeric ELSE t[1] = "num"

validateNot(c, bound, numeric) ==
    LET ps == Range(Kinds(c[2], "pattern")) IN
    \A p \in Range(Kinds(c[2], "pred")) :
        validatePredicate(p, bound \cup UNION {PatternVars(x) : x \in ps},
                             numeric \cup numericBindings(ps))

validateFilter(c, bound, numeric) ==
    CASE c[1] = "pred" -> validatePredicate(c, bound, numeric)
      [] c[1] = "not"  -> validateNot(c, bound, numeric)
      [] OTHER         -> TRUE

(* A rule's outputs are its first entity and its last value; a recursive   *)
(* one is a step followed by a call of itself.                             *)
validateRule(r) ==
    LET ps == Kinds(r.body, "pattern")
        cs == Kinds(r.body, "call")
    IN  /\ ps # <<>> /\ IsVar(ps[1][2]) /\ IsVar(Last(ps)[4])
        /\ \A i \in DOMAIN ps : ps[i][5] = NoTerm
        /\ cs # <<>> =>
             /\ r.body = <<ps[1], cs[1]>> /\ cs[1][2] = r.name
             /\ IsVar(cs[1][3]) /\ IsVar(cs[1][4]) /\ ps[1][4] = cs[1][3]

validateRules(rules) ==
    /\ \A r \in Range(rules) : validateRule(r)
    /\ \A r \in Range(rules) : \E b \in Range(rules) : b.name = r.name /\ Kinds(b.body, "call") = <<>>

validateAggregates(q) ==
    LET targets == {a[3] : a \in Range(q.aggregate)} IN
    /\ IsInjective([i \in DOMAIN q.aggregate |-> q.aggregate[i][3]])
    /\ \A a \in Range(q.aggregate) : a[2] \in positiveBindings(q) \ Range(q.find)
    /\ targets \subseteq Range(q.find) \ positiveBindings(q)
    /\ q.having # <<>> => targets # {}

validateOptional(q) ==
    LET targets == {f[2] : f \in Range(q.optional.fields)} IN
    q.optional.fields # <<>> =>
        /\ q.optional.row \in positiveBindings(q)
        /\ IsInjective([i \in DOMAIN q.optional.fields |-> q.optional.fields[i][2]])
        /\ targets \subseteq (Range(q.find) \ positiveBindings(q)) \ {a[3] : a \in Range(q.aggregate)}

(* An aggregate is compared with numbers only.                             *)
validateAggregateEquality(h, aggregates, numeric) ==
    (h[3] \in aggregates \/ h[4] \in aggregates) =>
        \A t \in {h[3], h[4]} : IF IsVar(t) THEN t \in numeric ELSE t[1] = "num"

validateResult(q) ==
    LET aggregates == {a[3] : a \in Range(q.aggregate)}
        optionals  == {f[2] : f \in Range(q.optional.fields)}
        numeric    == Range(q.find) \cap (aggregates \cup numericBindings(Range(Kinds(q.where, "pattern"))))
    IN  /\ IsInjective(q.find)
        /\ Range(q.find) \subseteq positiveBindings(q) \cup aggregates \cup optionals
        /\ \A h \in Range(q.having) :
             /\ validatePredicate(h, Range(q.find) \ optionals, numeric)
             /\ validateAggregateEquality(h, aggregates, numeric)
        /\ \A o \in Range(q.order) : o[1] \in Range(q.find)

assertDatalogQuery(q) ==
    LET bound   == positiveBindings(q)
        numeric == numericBindings(Range(Kinds(q.where, "pattern")))
    IN  /\ validateRules(q.rules)
        /\ Positive(q) # {}
        /\ \A c \in Range(Kinds(q.where, "call")) : \E r \in Range(q.rules) : r.name = c[2]
        /\ \A c \in Range(q.where) : validateFilter(c, bound, numeric)
        /\ \A c \in Range(Kinds(q.where, "or")) :
             c[2] # <<>> /\ \A x \in Range(c[2]) : validateFilter(x, bound, numeric)
        /\ validateAggregates(q) /\ validateOptional(q) /\ validateResult(q)

assertWrappedQuery(w) ==
    /\ assertDatalogQuery(w.inner)
    /\ \A f \in Range(w.filters) : f[1] \in Range(w.inner.find)
    /\ \A o \in Range(w.order) : o[1] \in Range(w.inner.find)

-----------------------------------------------------------------------------
(* The total order of results, and its completion for pages.               *)
paginationCategory(s) ==
    CASE s[1] = "num" -> 0 [] s[1] = "bool" -> 1 [] s[1] = "null" -> 3 [] OTHER -> 2

comparePaginationValues(l, r, dir) ==
    IF paginationCategory(l) # paginationCategory(r)
    THEN paginationCategory(l) - paginationCategory(r)
    ELSE IF dir = "desc" THEN r[2] - l[2] ELSE l[2] - r[2]

(* Does row a come before row b in the order?                              *)
Before(a, b, order) ==
    \E i \in DOMAIN order :
        /\ comparePaginationValues(a[order[i][1]], b[order[i][1]], order[i][2]) < 0
        /\ \A j \in 1..(i - 1) :
             comparePaginationValues(a[order[j][1]], b[order[j][1]], order[j][2]) = 0

normalizePaginationOrder(find, order) ==
    LET first == SelectSeq([i \in DOMAIN order |->
                              <<order[i], \A j \in 1..(i - 1) : order[j][1] # order[i][1]>>],
                           LAMBDA x : x[2])
        kept  == [i \in DOMAIN first |-> first[i][1]]
        rest  == SelectSeq(find, LAMBDA v : \A i \in DOMAIN kept : kept[i][1] # v)
    IN  kept \o [i \in DOMAIN rest |-> <<rest[i], "asc">>]

applyLimitOffset(rows, limit, offset) ==
    SubSeq(rows, offset + 1, IF limit = 0 THEN Len(rows) ELSE Min({Len(rows), offset + limit}))

maxDepth(rules, name) ==
    Max({IF r.maxDepth = 0 THEN DefaultDepth ELSE r.maxDepth : r \in {x \in Range(rules) : x.name = name}})
=============================================================================
