-------------------------- MODULE MCConfiguration --------------------------
(* Two callers of the config store with releases of an attribute and a form *)
(* that refers to it; validation of two subjects under two snapshots; rules *)
(* that call one another; and a family of types with their values.          *)
EXTENDS Configuration, TLC

Object(slot, cid, type, refs) == [slot |-> slot, cid |-> cid, nodes |-> {<<cid, type>>}, refs |-> refs]
Form(type) == Object("form", "form1", type, {"attr"})
Release(attr, type) == {Object("attr", attr, NoSchema, {}), Form(type)}
Publication(release, ref) == [op |-> "commit", label |-> "l", release |-> release, ref |-> ref]
MCRequests ==
    { Publication(Release("attr1", "t1"), "live"), Publication(Release("attr2", "t2"), "live"),
      Publication(Release("attr2", "t2"), NoRef), Publication({Form("t1")}, NoRef),
      Publication({Form("t1"), Form("t2")}, NoRef),
      [op |-> "setRef", ref |-> "live", nth |-> 1], [op |-> "load"] }
MCSlotOrder == <<"attr", "form">>
MCProvenCompatible == {<<"t1", "t2">>}

MCAccepts == {<<"p1", "a">>, <<"p1", "b">>, <<"p2", "a">>, <<"p1", Absent>>}

MCQuestions == {any(<<rule("r1"), exists(SUBJECT, "b")>>),
                all(<<rule("r2"), before("e1", "b", "instant"), lit(TRUE)>>)}
MCBodies == {not(eq(SUBJECT, "a", 1)), all(<<rule("r2"), before(SUBJECT, "b", "day")>>), rule("r1")}

\* Texts of up to two characters that match patterns p and q, numbers, lists
\* and structs of them.
Text(t, n, matches, date) ==
    [kind |-> "text", text |-> t, length |-> n, matches |-> matches, date |-> date]
Number(n) == [kind |-> "number", value |-> n, integer |-> TRUE]
Texts == {Text("", 0, {}, FALSE), Text("a", 1, {"p"}, FALSE), Text("ab", 2, {"q"}, FALSE),
          Text("cd", 2, {"p", "q"}, FALSE), Text("2020-01-01", 3, {}, TRUE)}
Scalars == Texts \cup {Number(0), Number(1), [kind |-> "number", value |-> 0, integer |-> FALSE],
                       [kind |-> "boolean"]}
MCValueFamily ==
    Scalars \cup {[kind |-> "list", items |-> <<v>>] : v \in Scalars} \cup {[kind |-> "list", items |-> <<>>]}
            \cup {[kind |-> "struct", fields |-> f] : f \in UNION {[d -> Scalars] : d \in SUBSET {"f"}}}

Limit(tag, n) == [tag |-> tag, value |-> n]
Pat(p) == [tag |-> "Pattern", regex |-> p]
Plain == {AnyType, Prim("text"), Prim("date"), Prim("number"), Prim("integer"), Prim("instant"),
          Prim("boolean"), EnumOf({"a"}), EnumOf({"a", "ab"}), RefTo("k")}
Bounded ==
    {Constrained(Prim("text"), c) :
       c \in {{Pat("p")}, {Pat("q")}, {Pat("p"), Pat("q")}, {Limit("MinLength", 1)},
              {Limit("MinLength", 2), Limit("MaxLength", 2)}, {Limit("MaxLength", 1), Pat("p")}}}
      \cup {Constrained(Prim("integer"), {Limit("Min", 1)}),
            Constrained(Constrained(Prim("number"), {Limit("Min", 0)}), {Limit("Max", 0), Limit("Min", 1)}),
            Constrained(ListOf(Prim("text")), {Limit("MaxLength", 0)})}
Simple == Plain \cup Bounded
Field(type, optional) == Struct([f \in {"f"} |-> [type |-> type, optional |-> optional]])
MCTypeFamily ==
    Simple \cup {ListOf(t) : t \in {Prim("text"), Prim("integer"), Prim("number")}}
           \cup {UnionOf({Prim("boolean"), t}) : t \in {Prim("integer"), EnumOf({"a"}), Prim("number")}}
           \cup {Field(t, o) : t \in {Prim("text"), EnumOf({"a"})}, o \in BOOLEAN}
           \cup {Struct([f \in {} |-> AnyType])}
MCPatternRank == "p" :> 1 @@ "q" :> 2

=============================================================================
