----------------------------- MODULE TypeExprs -----------------------------
(***************************************************************************)
(* The type language of configuration objects: which values a type admits  *)
(* (TypeSchema), and the structural comparison of two types on which       *)
(* stored configuration is declared still valid (TypeSubsumption).         *)
(*                                                                         *)
(* A type is a record with its _tag; a struct's fields are a function from *)
(* names to [type, optional].  Equal records are equal canonical texts.    *)
(* A value is a record too: a text has a length, the set of patterns it    *)
(* matches and whether it is an ISO date; a number says whether it is an   *)
(* integer; a list has items and a struct has fields.                      *)
(***************************************************************************)
EXTENDS Integers, Sequences, FiniteSets

AnyType == [tag |-> "Any"]
Prim(name) == [tag |-> "Prim", prim |-> name]
EnumOf(texts) == [tag |-> "Enum", values |-> texts]
RefTo(kind) == [tag |-> "Ref", kind |-> kind]
ListOf(item) == [tag |-> "List", item |-> item]
Struct(fields) == [tag |-> "Struct", fields |-> fields]

\* union: nested members are flattened, equal ones merged, one stands alone.
UnionOf(members) ==
    LET flat == UNION {IF m.tag = "Union" THEN m.members ELSE {m} : m \in members}
    IN  IF Cardinality(flat) = 1 THEN CHOOSE m \in flat : TRUE
        ELSE [tag |-> "Union", members |-> flat]

\* constrained: nested constraints are merged into one set.
Constrained(base, constraints) ==
    IF constraints = {} THEN base
    ELSE IF base.tag = "Constrained"
      THEN [base EXCEPT !.constraints = @ \cup constraints]
      ELSE [tag |-> "Constrained", base |-> base, constraints |-> constraints]

-----------------------------------------------------------------------------
(* TypeSchema: the values a type admits. *)

IsText(v) == v.kind = "text"

PrimAdmits(name, v) ==
    CASE name = "text"    -> IsText(v)
      [] name = "date"    -> IsText(v) /\ v.date
      [] name = "number"  -> v.kind = "number"
      [] name \in {"integer", "instant"} -> v.kind = "number" /\ v.integer
      [] name = "boolean" -> v.kind = "boolean"

SizeOf(v) == IF v.kind = "list" THEN Len(v.items) ELSE v.length

Satisfies(v, c) ==
    CASE c.tag = "Pattern"   -> IsText(v) /\ c.regex \in v.matches
      [] c.tag = "MinLength" -> v.kind \in {"text", "list"} /\ SizeOf(v) >= c.value
      [] c.tag = "MaxLength" -> v.kind \in {"text", "list"} /\ SizeOf(v) <= c.value
      [] c.tag = "Min"       -> v.kind = "number" /\ v.value >= c.value
      [] c.tag = "Max"       -> v.kind = "number" /\ v.value <= c.value

RECURSIVE Admits(_, _)
Admits(type, v) ==
    CASE type.tag = "Any"    -> TRUE
      [] type.tag = "Prim"   -> PrimAdmits(type.prim, v)
      [] type.tag = "Enum"   -> IsText(v) /\ v.text \in type.values
      [] type.tag = "Ref"    -> IsText(v)
      [] type.tag = "List"   -> v.kind = "list" /\ \A i \in 1..Len(v.items) : Admits(type.item, v.items[i])
      [] type.tag = "Struct" ->
           /\ v.kind = "struct"
           /\ DOMAIN v.fields \subseteq DOMAIN type.fields
           /\ \A f \in DOMAIN type.fields :
                IF f \in DOMAIN v.fields THEN Admits(type.fields[f].type, v.fields[f])
                ELSE type.fields[f].optional
      [] type.tag = "Union"  -> \E m \in type.members : Admits(m, v)
      [] type.tag = "Constrained" ->
           Admits(type.base, v) /\ \A c \in type.constraints : Satisfies(v, c)

-----------------------------------------------------------------------------
(* TypeSubsumption: TRUE is a verdict of Identical or Widens. *)

primSubsumes(from, to) == from = to \/ (from = "integer" /\ to = "number")

unwrap(type) == IF type.tag = "Constrained" THEN [base |-> type.base, constraints |-> type.constraints]
                ELSE [base |-> type, constraints |-> {}]

ValuesOf(constraints, tag) == {c.value : c \in {d \in constraints : d.tag = tag}}

\* boundsOf keeps the tightest of repeated bounds, and any one of the
\* patterns: the last in canonical order.
Tightest(values, tag) ==
    IF tag \in {"MinLength", "Min"} THEN CHOOSE x \in values : \A y \in values : x >= y
    ELSE CHOOSE x \in values : \A y \in values : x <= y

CONSTANT PatternRank      \* pattern -> its place in canonical order

LastPattern(constraints) ==
    LET patterns == {c.regex : c \in {d \in constraints : d.tag = "Pattern"}}
    IN  IF patterns = {} THEN {}
        ELSE {CHOOSE p \in patterns : \A q \in patterns : PatternRank[p] >= PatternRank[q]}

\* Faulty form: a bound that `from` lacks counts as met.
BoundMet_Bug(from, to, tag) ==
    LET f == ValuesOf(from, tag)
        t == ValuesOf(to, tag)
    IN  t = {} \/ f = {} \/ (IF tag \in {"MinLength", "Min"}
                               THEN Tightest(f, tag) >= Tightest(t, tag)
                               ELSE Tightest(f, tag) <= Tightest(t, tag))

BoundMet(from, to, tag) ==
    LET f == ValuesOf(from, tag)
        t == ValuesOf(to, tag)
    IN  t = {} \/ (f # {} /\ IF tag \in {"MinLength", "Min"}
                               THEN Tightest(f, tag) >= Tightest(t, tag)
                               ELSE Tightest(f, tag) <= Tightest(t, tag))

boundsSubsume(from, to) ==
    /\ \A tag \in {"MinLength", "MaxLength", "Min", "Max"} : BoundMet(from, to, tag)
    /\ LastPattern(to) = {} \/ LastPattern(to) = LastPattern(from)

RECURSIVE subsumes(_, _)
subsumes(from, to) ==
    LET f == unwrap(from)
        t == unwrap(to)
        fields(s) == DOMAIN s.base.fields
    IN  \/ from = to
        \/ to.tag = "Any"
        \/ /\ from.tag # "Any"
           /\ boundsSubsume(f.constraints, t.constraints)
           /\ CASE f.base.tag = "Union" -> \A m \in f.base.members : subsumes(m, t.base)
                [] f.base.tag # "Union" /\ t.base.tag = "Union" ->
                     \E m \in t.base.members : subsumes(f.base, m)
                [] f.base.tag = "Enum" /\ t.base.tag = "Prim" -> t.base.prim = "text"
                [] f.base.tag = t.base.tag /\ f.base.tag = "Prim" -> primSubsumes(f.base.prim, t.base.prim)
                [] f.base.tag = t.base.tag /\ f.base.tag = "Enum" -> f.base.values \subseteq t.base.values
                [] f.base.tag = t.base.tag /\ f.base.tag = "List" -> subsumes(f.base.item, t.base.item)
                [] f.base.tag = t.base.tag /\ f.base.tag = "Struct" ->
                     /\ fields(f) \subseteq fields(t)
                     /\ \A n \in fields(t) :
                          IF n \in fields(f)
                            THEN /\ f.base.fields[n].optional => t.base.fields[n].optional
                                 /\ subsumes(f.base.fields[n].type, t.base.fields[n].type)
                            ELSE t.base.fields[n].optional
                [] OTHER -> FALSE

\* A verdict of Identical or Widens is a proof: "every value of `from` is
\* valid under `to`".
ProofOfValidity(from, to, values) ==
    subsumes(from, to) => \A v \in values : Admits(from, v) => Admits(to, v)

\* A type that constrains one text by at most one pattern.
OnePattern(type) ==
    type.tag = "Constrained" =>
        Cardinality({c \in type.constraints : c.tag = "Pattern"}) <= 1

=============================================================================
