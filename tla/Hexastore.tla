----------------------------- MODULE Hexastore -----------------------------
(***************************************************************************)
(* The ordered key space under KvTripleStore: a datom is found under its   *)
(* tuple-encoded keys in up to five orders and kept in one META record; a  *)
(* pattern is answered by a range of one of the orders.                    *)
(*                                                                         *)
(* A byte is a number in 0..255, a text the sequence of its UTF-8 bytes, a *)
(* float, a date or a length one cell.  An optional field or pattern       *)
(* component is a sequence of at most one element.  A value is             *)
(* <<type, payload>>: a text, or a number for numbers, dates, booleans.    *)
(* `kv` is the set of pairs <<key, bytes>> that a backend holds.           *)
(***************************************************************************)
EXTENDS Integers, FiniteSets, SequencesExt

Textual == {"string", "ref", "json", "blob", "sealed"}

Tag == [boolean |-> 1, number |-> 2, string |-> 3, ref |-> 4, datetime |-> 5,
        json |-> 6, blob |-> 7, sealed |-> 8, max |-> 255]

tString(s) == <<"string", s>>
tMax       == <<"max", 0>>

escaped(s) == FlattenSeq([i \in DOMAIN s |-> IF s[i] = 0 THEN <<0, 255>> ELSE <<s[i]>>])

\* Faulty form: a 0 byte is not escaped.
encodeString_Bug(s) == s \o <<0, 0>>

encodeString(s) == escaped(s) \o <<0, 0>>

\* Fixed width and order-preserving (the sign flip); -0 is left out.
encodeNumber(n) == <<128 + n>>

encodePart(part) ==
    <<Tag[part[1]]>> \o
    CASE part[1] = "boolean"  -> <<part[2]>>
      [] part[1] = "number"   -> encodeNumber(part[2])
      [] part[1] = "datetime" -> <<part[2]>>
      [] part[1] = "json"     -> <<Len(part[2])>> \o part[2]
      [] part[1] = "max"      -> <<>>
      [] OTHER                -> encodeString(part[2])

encodeTuple(parts) == FlattenSeq([i \in DOMAIN parts |-> encodePart(parts[i])])

\* The fast path of the in-memory backend: keys built as latin1 strings, text
\* character by character unless it leaves ASCII.
encodeStringToStrSlow(s) == FoldLeft(LAMBDA acc, b : acc \o (IF b = 0 THEN <<0, 255>> ELSE <<b>>), <<>>, s) \o <<0, 0>>

encodeStringToStr(s) ==
    IF \E i \in DOMAIN s : s[i] >= 128 THEN encodeStringToStrSlow(s)
    ELSE escaped(s) \o <<0, 0>>

encodePartStr(part) ==
    IF part[1] \in Textual \ {"json"} THEN <<Tag[part[1]]>> \o encodeStringToStr(part[2])
    ELSE encodePart(part)

-----------------------------------------------------------------------------
(* Keys.                                                                   *)
IndexPrefix == [EAVT |-> 1, AEVT |-> 2, AVET |-> 3, VAET |-> 4]
TypePrefix  == 5
MetaPrefix  == 32

\* eavtKey, aevtKey, avetKey, vaetKey: the order of the parts.
KeyParts(index, e, a, v) ==
    CASE index = "EAVT" -> <<e, a, v>>
      [] index = "AEVT" -> <<a, e, v>>
      [] index = "AVET" -> <<a, v, e>>
      [] index = "VAET" -> <<v, a, e>>

DatomParts(d, index) ==
    KeyParts(index, tString(d.entity), tString(d.attribute), d.value) \o <<tString(d.txId), tString(d.tripleId)>>

IndexesOf(d) == {"EAVT", "AEVT", "AVET"} \cup (IF d.value[1] = "ref" THEN {"VAET"} ELSE {})

metaKey(id) == <<MetaPrefix>> \o encodeTuple(<<tString(id)>>)

typeKey(t, id) == <<TypePrefix>> \o encodeTuple(<<tString(t), tString(id)>>)

typePrefixRange(t) == [start |-> <<TypePrefix>> \o encodeTuple(<<tString(t)>>),
                       end   |-> <<TypePrefix>> \o encodeTuple(<<tString(t), tMax>>)]

\* Lexicographic order, a prefix first.
compareLess(a, b) ==
    LET n == IF Len(a) < Len(b) THEN Len(a) ELSE Len(b)
        d == {i \in 1..n : a[i] # b[i]}
    IN  IF d = {} THEN Len(a) < Len(b)
        ELSE LET i == CHOOSE x \in d : \A y \in d : x <= y IN a[i] < b[i]

\* The upper bound of a whole index (its prefix is a single byte).
increment(key) == [key EXCEPT ![Len(key)] = key[Len(key)] + 1]

-----------------------------------------------------------------------------
(* META records.                                                           *)
writeStr(s) == <<Len(s)>> \o s

writeNullableStr(opt) == IF opt = <<>> THEN <<>> ELSE writeStr(opt[1])

ValueTag == [string |-> 0, number |-> 1, boolean |-> 2, datetime |-> 3, ref |-> 4, json |-> 5, blob |-> 6, sealed |-> 7]

writeValue(v) == <<ValueTag[v[1]]>> \o (IF v[1] \in Textual THEN writeStr(v[2]) ELSE <<v[2]>>)

serializeDatom(d) ==
    <<1>> \o writeStr(d.tripleId) \o writeStr(d.entity) \o writeStr(d.attribute) \o writeValue(d.value)
    \o writeStr(d.txId)
    \o <<d.recordedAt, Len(d.createdBy) + 2 * Len(d.retractedAt) + 4 * Len(d.retractTxId) + 8 * Len(d.entityType)>>
    \o writeNullableStr(d.createdBy) \o d.retractedAt
    \o writeNullableStr(d.retractTxId) \o writeNullableStr(d.entityType)
    \o <<d.validFrom, Len(d.validTo)>> \o d.validTo
    \o <<d.recordedPosition, Len(d.retractedPosition)>> \o d.retractedPosition

\* A field read at a cell: what it is, and where the next one starts.
readStr(bytes, at) == <<SubSeq(bytes, at + 1, at + bytes[at]), at + bytes[at] + 1>>

readNum(bytes, at) == <<bytes[at], at + 1>>

readValue(bytes, at) ==
    LET type == CHOOSE t \in DOMAIN ValueTag : ValueTag[t] = bytes[at]
        read == IF type \in Textual THEN readStr(bytes, at + 1) ELSE readNum(bytes, at + 1)
    IN  <<<<type, read[1]>>, read[2]>>

readIf(present, read, at) == IF present THEN <<<<read[1]>>, read[2]>> ELSE <<<<>>, at>>

\* The fields of a record, in order: name, kind, and the bit that says whether
\* it is there.  A marked field has its own mark before it.
Layout == <<<<"tripleId", "str", 0>>, <<"entity", "str", 0>>, <<"attribute", "str", 0>>, <<"value", "value", 0>>,
            <<"txId", "str", 0>>, <<"recordedAt", "num", 0>>, <<"flags", "num", 0>>,
            <<"createdBy", "str", 1>>, <<"retractedAt", "num", 2>>, <<"retractTxId", "str", 4>>,
            <<"entityType", "str", 8>>, <<"validFrom", "num", 0>>, <<"validTo", "marked", 0>>,
            <<"recordedPosition", "num", 0>>, <<"retractedPosition", "marked", 0>>>>

readKind(kind, bytes, at) ==
    CASE kind = "str"    -> readStr(bytes, at)
      [] kind = "num"    -> readNum(bytes, at)
      [] kind = "value"  -> readValue(bytes, at)
      [] kind = "marked" -> readIf(bytes[at] # 0, readNum(bytes, at + 1), at + 1)

readField(f, bytes, fields, at) ==
    IF f[3] = 0 THEN readKind(f[2], bytes, at)
    ELSE readIf((fields.flags \div f[3]) % 2 = 1, readKind(f[2], bytes, at), at)

fieldAdded(name, fields, read) == [fields |-> fields @@ (name :> read[1]), at |-> read[2]]

deserializeDatom(bytes) ==
    LET end == FoldLeft(LAMBDA acc, f : fieldAdded(f[1], acc.fields, readField(f, bytes, acc.fields, acc.at)),
                        [fields |-> <<>>, at |-> 2], Layout)
    IN  [name \in {f[1] : f \in ToSet(Layout)} \ {"flags"} |-> end.fields[name]]

-----------------------------------------------------------------------------
(* Writes.                                                                 *)
MetaEntry(d) == <<metaKey(d.tripleId), serializeDatom(d)>>

TypeEntries(d) == {<<typeKey(t, d.tripleId), d.tripleId>> : t \in ToSet(d.entityType)}

assertEntries(d) ==
    {<<<<IndexPrefix[x]>> \o encodeTuple(DatomParts(d, x)), d.tripleId>> : x \in IndexesOf(d)}
      \cup {MetaEntry(d)} \cup TypeEntries(d)

\* assertBatchStr: the same entries by the string encoders.
assertBatchStr(d) ==
    LET str(prefix, parts) == <<prefix>> \o FlattenSeq([i \in DOMAIN parts |-> encodePartStr(parts[i])])
        id == tString(d.tripleId)
    IN  {<<str(IndexPrefix[x], DatomParts(d, x)), d.tripleId>> : x \in IndexesOf(d)}
          \cup {<<str(MetaPrefix, <<id>>), serializeDatom(d)>>}
          \cup {<<str(TypePrefix, <<tString(t), id>>), d.tripleId>> : t \in ToSet(d.entityType)}

\* A write buffer holds one write per key, the deletion <<key, Deleted>> too.
Deleted == <<>>

applyWriteBuffer(kv, buffer) ==
    {x \in kv : \A w \in buffer : w[1] # x[1]} \cup {w \in buffer : w[2] # Deleted}

-----------------------------------------------------------------------------
(* Ranges, in key order or reversed; the store passes no limit to them.    *)
InRange(key, range) == ~compareLess(key, range.start) /\ compareLess(key, range.end)

sortedEntries(entries, reverse) ==
    LET before(x) == {y \in entries : IF reverse THEN compareLess(x[1], y[1]) ELSE compareLess(y[1], x[1])}
        ranked    == {<<Cardinality(before(x)) + 1, x>> : x \in entries}
    IN  [i \in 1..Cardinality(entries) |-> (CHOOSE r \in ranked : r[1] = i)[2]]

scanPartition(kv, prefix, range) == {x \in kv : x[1][1] = prefix /\ InRange(x[1], range)}

\* InMemoryStore.getRange: one partition, or every one between the bounds.
getRange(kv, range) ==
    IF range.start[1] = range.end[1] THEN scanPartition(kv, range.start[1], range)
    ELSE UNION {scanPartition(kv, p, range) : p \in range.start[1]..range.end[1]}

\* Inside a transaction the write buffer covers the store.
txGetRange(kv, buffer, range) ==
    LET written == {w \in buffer : InRange(w[1], range)}
    IN  {x \in getRange(kv, range) : \A w \in written : w[1] # x[1]} \cup {w \in written : w[2] # Deleted}

\* makePagedRangeStream: pages of `size`, each from just after the last key.
keyAfter(key) == key \o <<0>>

pagedRange(kv, range, size, reverse) ==
    LET page(cur) == LET all == sortedEntries({x \in kv : InRange(x[1], cur)}, reverse)
                     IN  SubSeq(all, 1, IF Len(all) < size THEN Len(all) ELSE size)
        turned(cur) ==
            LET p    == page(cur)
                last == Last(p)[1]
            IN  IF p = <<>> THEN [cur EXCEPT !.more = FALSE]
                ELSE [start |-> IF reverse THEN cur.start ELSE keyAfter(last),
                      end   |-> IF reverse THEN last ELSE cur.end,
                      rows  |-> cur.rows \o p, more |-> Len(p) = size]
        pages[n \in 0..(Cardinality(kv) + 1)] ==
            IF n = 0 THEN [start |-> range.start, end |-> range.end, rows |-> <<>>, more |-> TRUE]
            ELSE LET cur == pages[n - 1] IN IF cur.more THEN turned(cur) ELSE cur
    IN  pages[Cardinality(kv) + 1].rows

-----------------------------------------------------------------------------
(* Scans.                                                                  *)
\* The order whose first columns are bound; VAET holds references only.
selectIndex(p) ==
    IF p.entity # <<>> THEN "EAVT"
    ELSE IF p.attribute # <<>> THEN IF p.value # <<>> THEN "AVET" ELSE "AEVT"
    ELSE IF p.value # <<>> /\ p.value[1][1] = "ref" THEN "VAET"
    ELSE "EAVT"

\* The bound components that lead the order.
prefixParts(p, index) ==
    LET e == [i \in DOMAIN p.entity |-> tString(p.entity[i])]
        a == [i \in DOMAIN p.attribute |-> tString(p.attribute[i])]
    IN  CASE index = "EAVT" -> IF e = <<>> THEN <<>> ELSE IF a = <<>> THEN e ELSE e \o a \o p.value
          [] index = "AVET" -> a \o p.value
          [] index = "AEVT" -> a
          [] index = "VAET" -> p.value

prefixRange(index, parts) ==
    LET prefix == <<IndexPrefix[index]>>
    IN  IF parts = <<>> THEN [start |-> prefix, end |-> increment(prefix)]
        ELSE [start |-> prefix \o encodeTuple(parts), end |-> prefix \o encodeTuple(Append(parts, tMax))]

patternToScan(p) == prefixRange(selectIndex(p), prefixParts(p, selectIndex(p)))

matchesScan(d, p) ==
    /\ \A e \in ToSet(p.entity) : d.entity = e
    /\ \A a \in ToSet(p.attribute) : d.attribute = a
    /\ \A v \in ToSet(p.value) : d.value = v

\* batchFetchMeta, getById: the records of the ids an index range lists.
fetchMeta(kv, entries) ==
    {deserializeDatom(x[2]) : x \in {y \in kv : \E i \in entries : y[1] = metaKey(i[2])}}

scanCollect(kv, p) ==
    {d \in fetchMeta(kv, getRange(kv, patternToScan(p))) : d.retractedAt = <<>> /\ matchesScan(d, p)}

getByEntityType(kv, t) ==
    {d \in fetchMeta(kv, getRange(kv, typePrefixRange(t))) : d.retractedAt = <<>>}

=============================================================================
