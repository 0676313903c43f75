--------------------------- MODULE MCQueryService ---------------------------
(***************************************************************************)
(* Entities 1..3 (also texts), attributes 11 (of any type), 12 (links),    *)
(* every conjunction of one or two patterns with at most one filter, and   *)
(* chosen queries with rules, aggregates, limits and optional fields.      *)
(***************************************************************************)
EXTENDS QueryService

E == <<"?", "e">>
X == <<"?", "x">>
V == <<"?", "v">>
Y == <<"?", "y">>
N == <<"?", "n">>
O == <<"?", "o">>

T(n) == <<"text", n>>
Num(n) == <<"num", n>>

Pat(e, a, v) == <<"pattern", e, a, v, NoTerm>>

Positives == {Pat(E, T(11), V), Pat(E, T(12), X), Pat(X, T(11), V), Pat(E, T(11), Num(1)),
              Pat(E, T(12), <<"ref", 2>>), <<"pattern", X, Y, V, N>>, Pat(V, T(12), X)}

Filters == {<<"pred", "=", V, X>>, <<"pred", "!=", V, Num(1)>>, <<"pred", ">", V, Num(1)>>,
            <<"not", <<Pat(X, T(11), V)>>>>,
            <<"not", <<Pat(E, T(12), Y), Pat(Y, T(11), N), <<"pred", "<", N, Num(2)>>>>>>,
            <<"or", <<<<"pred", "=", V, Num(1)>>, Pat(E, T(12), T(3)), <<"not", <<Pat(E, T(12), X)>>>>>>>>}

Wheres == {<<p>> : p \in Positives} \cup {<<p, r>> : p, r \in Positives}

Plain == [find |-> <<E>>, where |-> <<>>, rules |-> <<>>, aggregate |-> <<>>, having |-> <<>>, order |-> <<>>,
          limit |-> 0, offset |-> 0, optional |-> [row |-> E, fields |-> <<>>]]

FindOf(w) == SetToSeq(UNION {PatternVars(p) : p \in Range(w)})

(* A sparse product: every pair of patterns, each with one of the filters. *)
Generated ==
    {[Plain EXCEPT !.find = FindOf(w), !.where = w \o f] :
        w \in Wheres, f \in {<<>>}}
    \cup {[Plain EXCEPT !.find = FindOf(<<p, r>>), !.where = <<p, r, f>>] :
        p \in {Pat(E, T(11), V)}, r \in {Pat(E, T(12), X), Pat(X, T(11), V)}, f \in Filters}

Reach == <<[name |-> "reach", body |-> <<Pat(X, T(12), Y)>>, maxDepth |-> 0],
           [name |-> "reach", body |-> <<Pat(X, T(12), V), <<"call", "reach", V, Y>>>>, maxDepth |-> 0]>>

Chosen == {
    [Plain EXCEPT !.find = <<E, X>>, !.where = <<<<"call", "reach", E, X>>>>, !.rules = Reach],
    [Plain EXCEPT !.find = <<E, V>>, !.where = <<Pat(E, T(11), V), <<"call", "reach", T(1), E>>>>, !.rules = Reach],
    [Plain EXCEPT !.find = <<E, N>>, !.where = <<<<"call", "reach", E, X>>>>, !.rules = Reach,
                  !.aggregate = <<<<"count", X, N>>>>],
    [Plain EXCEPT !.find = <<X, N, O>>, !.where = <<Pat(E, T(12), X), Pat(E, T(11), V)>>,
                  !.aggregate = <<<<"sum", V, N>>, <<"count", V, O>>>>],
    [Plain EXCEPT !.find = <<N>>, !.where = <<Pat(E, T(11), V)>>, !.aggregate = <<<<"sum", V, N>>>>],
    [Plain EXCEPT !.find = <<E, N>>, !.where = <<Pat(E, T(11), V)>>, !.aggregate = <<<<"max", V, N>>>>,
                  !.having = <<<<"pred", "!=", N, Num(1)>>>>],
    [Plain EXCEPT !.find = <<V, E>>, !.where = <<Pat(E, T(11), V)>>, !.order = <<<<V, "desc">>>>, !.limit = 1, !.offset = 1],
    [Plain EXCEPT !.find = <<E, O>>, !.where = <<Pat(E, T(12), X)>>, !.optional = [row |-> E, fields |-> <<<<11, O>>>>]]}

MCQueries == Generated \cup Chosen

MCPermuted ==
    {<<[Plain EXCEPT !.find = <<E, V>>, !.where = <<Pat(E, T(11), V), f, Pat(E, T(12), X)>>],
       [Plain EXCEPT !.find = <<E, V>>, !.where = <<f, Pat(E, T(12), X), Pat(E, T(11), V)>>]>> : f \in Filters}

Fact(e, a, v) == [e |-> e, a |-> a, v |-> v]

MCFactInputs == {Fact(1, 11, <<"number", 1>>), Fact(1, 11, <<"datetime", 1>>), Fact(1, 11, <<"string", 2>>),
                 Fact(2, 11, <<"boolean", 1>>), Fact(2, 11, <<"number", 2>>), Fact(3, 11, <<"string", 1>>),
                 Fact(1, 12, <<"ref", 2>>), Fact(2, 12, <<"string", 3>>), Fact(1, 12, <<"ref", 3>>),
                 Fact(3, 12, <<"ref", 1>>)}

MCBatches == {b \in SUBSET MCFactInputs : Cardinality(b) \in 1..4}

MCPaged ==
    {wrapDatalogQuery([Plain EXCEPT !.find = <<E, V>>, !.where = <<Pat(E, T(11), V)>>], <<>>, <<<<V, d>>>>, 1) : d \in {"asc", "desc"}}
    \cup {wrapDatalogQuery([Plain EXCEPT !.find = <<E, O>>, !.where = <<Pat(E, T(12), X)>>,
                                         !.optional = [row |-> E, fields |-> <<<<11, O>>>>]],
                           <<<<E, "!=", T(2)>>>>, <<<<O, "desc">>>>, 1)}

\* Texts with 0 and non-ASCII bytes, each the beginning of the next.
MCTextBytes == (1 :> <<1>>) @@ (2 :> <<1, 0>>) @@ (3 :> <<1, 0, 200>>) @@ (11 :> <<2>>) @@ (12 :> <<2, 0>>)
                 @@ (91 :> <<3>>)

MCTypeOf == (1 :> <<1>>) @@ (2 :> <<2>>) @@ (3 :> <<>>)
=============================================================================
