------------------------------ MODULE Protobuf ------------------------------
(***************************************************************************)
(* The methods that protoc writes for every message class of bike.pb, for  *)
(* a class given by its tables, and the parts of the protobuf runtime they *)
(* call.  The tables are in ClientMessages and ServerMessages:             *)
(*                                                                         *)
(*   fields      field -> type            the accessors of the class       *)
(*   has         field -> bit             has_x, set_has_x, clear_has_x    *)
(*   SharedCtor  field -> value           what a new object holds          *)
(*   Clear       field -> set of bits     any of them makes Clear reset it *)
(*   read        field -> [number, tag, type]      the cases of the switch *)
(*   needs       set of bits              the mask of IsInitialized        *)
(*   write       sequence of [field, number, type, bit]                    *)
(*   size        [all, required, guarded]          ByteSizeLong            *)
(*   record      the tables of the class of the field "records"            *)
(*                                                                         *)
(* An object is [has, val, unknown]: the has bits that are set, the value  *)
(* of every field, set or not, and the bytes of unknown fields.  A string  *)
(* is the sequence of its bytes, a double its eight bytes.                 *)
(***************************************************************************)
EXTENDS Integers, Sequences, FiniteSets, SequencesExt, Functions

\* The notation of the tables.
Case(number, tag, type) == [number |-> number, tag |-> tag, type |-> type]
Write(field, number, type, bit) ==
  [field |-> field, number |-> number, type |-> type, bit |-> bit]
WriteEach(field, number) ==
  [field |-> field, number |-> number, type |-> "records"]
Writer(fields, has, SharedCtor, Clr, write, size, record) ==
  [fields |-> fields, has |-> has, SharedCtor |-> SharedCtor, Clear |-> Clr,
   write |-> write, size |-> size, record |-> record]
Reader(fields, has, SharedCtor, Clr, read, needs, record) ==
  [fields |-> fields, has |-> has, SharedCtor |-> SharedCtor, Clear |-> Clr,
   read |-> read, needs |-> needs, record |-> record]

\* The types of fields that have a has bit.
Scalars == {"string", "double", "int32", "uint32", "uint64"}

ZeroDouble == [i \in 1 .. 8 |-> 0]

Zero(type) ==
  CASE type \in {"string", "records"} -> <<>>
    [] type = "double" -> ZeroDouble
    [] OTHER -> 0

-----------------------------------------------------------------------------
(***************************************************************************)
(* Objects.                                                                *)
(***************************************************************************)

New(k) == [has |-> {}, val |-> k.SharedCtor, unknown |-> <<>>]

SetField(k, m, f, v) ==
  [m EXCEPT !.has = @ \cup {k.has[f]}, !.val[f] = v]

ClearField(k, m, f) ==
  [m EXCEPT !.has = @ \ {k.has[f]}, !.val[f] = Zero(k.fields[f])]

AddRecord(m, r) == [m EXCEPT !.val.records = Append(@, r)]

ClearRecords(m) == [m EXCEPT !.val.records = <<>>]

\* Mutant of Clear: the has bits are cleared, and no value is.
ClearBits(k, m) == [m EXCEPT !.has = {}, !.unknown = <<>>]

\* A value is reset only if a bit of its group is set, or without a test.
Clear(k, m) ==
  [has |-> {},
   unknown |-> <<>>,
   val |-> [f \in DOMAIN m.val |->
              IF k.Clear[f] = {} \/ k.Clear[f] \cap m.has # {}
                THEN Zero(k.fields[f]) ELSE m.val[f]]]

HasRecords(m) == "records" \in DOMAIN m.val

\* Mutant of IsInitialized: the records are not asked.
IsInitializedAlone(k, m) == k.needs \subseteq m.has

IsInitialized(k, m) ==
  /\ k.needs \subseteq m.has
  /\ HasRecords(m) =>
       \A i \in DOMAIN m.val.records :
         k.record.needs \subseteq m.val.records[i].has

-----------------------------------------------------------------------------
(***************************************************************************)
(* Sizes.                                                                  *)
(***************************************************************************)

Log2(v) == Max({0} \cup {l \in 1 .. 30 : 2^l <= v})

\* VarintSize32SignExtended: a negative int32 is written with 64 bits.
VarintSize(v) == IF v < 0 THEN 10 ELSE (9 * Log2(v) + 73) \div 64

DelimitedSize(n) == n + VarintSize(n)

ValueSize(type, v) ==
  CASE type = "string" -> DelimitedSize(Len(v))
    [] type = "double" -> 8
    [] OTHER -> VarintSize(v)

FieldsSize(m, types, fs) ==
  SumFunction([f \in fs |-> 1 + ValueSize(types[f], m.val[f])])

Present(k, m, fs) == {f \in fs : k.has[f] \in m.has}

RequiredFieldsByteSizeFallback(k, m) ==
  FieldsSize(m, k.size.required, Present(k, m, DOMAIN k.size.required))

\* Mutant of OwnSize: every required field is counted, set or not.
OwnSizeUnmasked(k, m) ==
  Len(m.unknown)
    + FieldsSize(m, k.size.required, DOMAIN k.size.required)
    + FieldsSize(m, k.size.guarded, Present(k, m, DOMAIN k.size.guarded))

\* The size without records.
OwnSize(k, m) ==
  Len(m.unknown)
    + (IF k.size.all \subseteq m.has
         THEN FieldsSize(m, k.size.required, DOMAIN k.size.required)
         ELSE RequiredFieldsByteSizeFallback(k, m))
    + FieldsSize(m, k.size.guarded, Present(k, m, DOMAIN k.size.guarded))

ByteSizeLong(k, m) ==
  OwnSize(k, m)
    + IF HasRecords(m)
        THEN SumFunction(
               [i \in DOMAIN m.val.records |->
                  1 + DelimitedSize(OwnSize(k.record, m.val.records[i]))])
        ELSE 0

-----------------------------------------------------------------------------
(***************************************************************************)
(* Writing.                                                                *)
(***************************************************************************)

\* The i-th group of seven bits of v, from the lowest, 0, on, in 64 bits.
\* Groups from the fifth on are the sign of an int32; the tenth is one bit.
Group(v, i) ==
  IF i <= 4 THEN (v \div 128^i) % 128 ELSE IF i < 9 THEN 127 ELSE 1

VarintLength(v) ==
  IF v < 0 THEN 10 ELSE 1 + Cardinality({i \in 1 .. 4 : v >= 128^i})

Varint(v) ==
  LET n == VarintLength(v)
  IN [i \in 1 .. n |-> Group(v, i - 1) + IF i < n THEN 128 ELSE 0]

WireType(type) ==
  CASE type = "double" -> 1
    [] type \in {"string", "records"} -> 2
    [] OTHER -> 0

WriteTag(number, type) == Varint(8 * number + WireType(type))

Payload(type, v) ==
  CASE type = "string" -> Varint(Len(v)) \o v
    [] type = "double" -> v
    [] OTHER -> Varint(v)

WriteField(m, w) ==
  IF w.bit \in m.has
    THEN WriteTag(w.number, w.type) \o Payload(w.type, m.val[w.field])
    ELSE <<>>

\* SerializeWithCachedSizes of a class without records.
WriteLeaf(k, m) ==
  FlattenSeq([i \in DOMAIN k.write |-> WriteField(m, k.write[i])]) \o m.unknown

\* The cached size of a record is what ByteSizeLong has just computed.
WriteRecord(k, number, r) ==
  WriteTag(number, "records") \o Varint(OwnSize(k.record, r))
    \o WriteLeaf(k.record, r)

WriteRecords(k, m, w) ==
  FlattenSeq([i \in DOMAIN m.val.records |->
                WriteRecord(k, w.number, m.val.records[i])])

SerializeWithCachedSizes(k, m) ==
  FlattenSeq([i \in DOMAIN k.write |->
                LET w == k.write[i]
                IN  IF w.type = "records" THEN WriteRecords(k, m, w)
                                          ELSE WriteField(m, w)])
    \o m.unknown

-----------------------------------------------------------------------------
(***************************************************************************)
(* Reading from position p, with p bytes read before it, up to the limit   *)
(* e.  What is read is a set with one element, or empty if reading fails.  *)
(***************************************************************************)

\* How many bytes the varint at p has.  One byte is the fast path.
ReadVarint(b, p, e) ==
  IF p < e /\ b[p + 1] < 128 THEN {1}
  ELSE {n \in 2 .. 10 : /\ p + n <= e
                        /\ b[p + n] < 128
                        /\ \A i \in 1 .. n - 1 : b[p + i] >= 128}

\* The low 32 bits of a varint of n bytes, read as a signed number.  TLC has
\* no larger numbers: an unsigned value is taken to be less than 2^31.
VarintValue(b, p, n) ==
  IF n = 1 THEN b[p + 1] ELSE
  LET Low == SumFunction([i \in 1 .. Min({n, 4}) |->
                            (b[p + i] % 128) * 128^(i - 1)])
      High == IF n < 5 THEN 0 ELSE ((b[p + 5] + 8) % 16) - 8
  IN  Low + High * 2^28

ReadBytes(b, p, n, e) ==
  {[value |-> SubSeq(b, p + 1, q), next |-> q] :
     q \in {p + n} \cap p .. e}

ReadString(b, p, e) ==
  UNION {ReadBytes(b, p + n, VarintValue(b, p, n), e) : n \in ReadVarint(b, p, e)}

Read(type, b, p, e) ==
  CASE type = "string" -> ReadString(b, p, e)
    [] type = "double" -> ReadBytes(b, p, 8, e)
    [] OTHER -> {[value |-> VarintValue(b, p, n), next |-> p + n] :
                   n \in ReadVarint(b, p, e)}

\* ReadTag: no tag at the limit, where a tag is cut off, and for tag 0.
ReadTag(b, p, e) ==
  {t \in {[tag |-> VarintValue(b, p, n), next |-> p + n] :
            n \in ReadVarint(b, p, e)} : t.tag # 0}

\* The case of the switch a tag goes to; none is `unusual'.
Cases(k, tag) ==
  {f \in DOMAIN k.read : /\ tag <= 127
                         /\ tag \div 8 = k.read[f].number
                         /\ tag % 256 = k.read[f].tag}

\* SkipField: where an unknown field ends.  No writer here makes groups.
SkipField(tag, b, p, e) ==
  {r.next : r \in CASE tag % 8 = 0 -> Read("uint64", b, p, e)
                    [] tag % 8 = 1 -> ReadBytes(b, p, 8, e)
                    [] tag % 8 = 2 -> ReadString(b, p, e)
                    [] tag % 8 = 5 -> ReadBytes(b, p, 4, e)
                    [] OTHER -> {}}

\* PushLimit: a limit beyond the one in force changes nothing.
PushLimit(p, n, e) == Min({p + n, e})
=============================================================================
