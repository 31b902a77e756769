---------------------------- MODULE ProtobufProofs ----------------------------
(***************************************************************************)
(* Sizes and bytes of the protobuf runtime, proved with TLAPS for every    *)
(* value and every table of a class: the size that ByteSizeLong computes   *)
(* by one rule is the number of bytes the writer makes by another, what    *)
(* was written is what Read finds, and the loop of a reader that knows the *)
(* class gets from each part of a message to the next.                     *)
(***************************************************************************)
EXTENDS Protobuf, FoldProofs

Byte == 0 .. 255

-----------------------------------------------------------------------------
(***************************************************************************)
(* Powers of two.                                                          *)
(***************************************************************************)

\* A name, so that the provers do not take a power for arithmetic.
Pow2(l) == 2^l

\* Where another group of seven bits begins.
LEMMA Thresholds ==
  ASSUME NEW l \in 1 .. 30, NEW v \in Nat, Pow2(l) <= v
  PROVE  /\ l >= 7 => v >= 128
         /\ l >= 14 => v >= 16384
         /\ l >= 21 => v >= 2097152
         /\ l >= 28 => v >= 268435456
<1> DEFINE pow == [i \in 1 .. 30 |-> 2^i]
<1>1. /\ pow[1] = 2 /\ pow[2] = 4 /\ pow[3] = 8
      /\ pow[4] = 16 /\ pow[5] = 32 /\ pow[6] = 64
      /\ pow[7] = 128 /\ pow[8] = 256 /\ pow[9] = 512
      /\ pow[10] = 1024 /\ pow[11] = 2048 /\ pow[12] = 4096
      /\ pow[13] = 8192 /\ pow[14] = 16384 /\ pow[15] = 32768
      /\ pow[16] = 65536 /\ pow[17] = 131072 /\ pow[18] = 262144
      /\ pow[19] = 524288 /\ pow[20] = 1048576 /\ pow[21] = 2097152
      /\ pow[22] = 4194304 /\ pow[23] = 8388608 /\ pow[24] = 16777216
      /\ pow[25] = 33554432 /\ pow[26] = 67108864 /\ pow[27] = 134217728
      /\ pow[28] = 268435456 /\ pow[29] = 536870912 /\ pow[30] = 1073741824
  BY SMT
<1>2. pow[l] <= v
  BY Zenon DEF Pow2
<1> HIDE DEF pow
<1> QED
  BY <1>1, <1>2, SMT

\* A set of numbers up to a bound has a largest.
LEMMA MaxIsThere ==
  ASSUME NEW n \in Nat, NEW S \in SUBSET (0 .. n), S # {}
  PROVE  Max(S) \in S /\ \A y \in S : Max(S) >= y
<1> DEFINE HasMax(T) == \E x \in T : \A y \in T : x >= y
           B == {m \in 0 .. n : \A T \in SUBSET (0 .. m) : T # {} => HasMax(T)}
<1>1. 0 \in B
  <2>1. ASSUME NEW T \in SUBSET (0 .. 0), T # {}
        PROVE  HasMax(T)
    <3>1. PICK x \in T : TRUE
      BY <2>1
    <3>2. \A y \in T : y = 0
      OBVIOUS
    <3> QED
      BY <3>1, <3>2
  <2> QED
    BY <2>1
<1>2. ASSUME NEW i \in 1 .. n, i - 1 \in B
      PROVE  i \in B
  <2>1. ASSUME NEW T \in SUBSET (0 .. i), T # {}
        PROVE  HasMax(T)
    <3>1. CASE i \in T
      BY <3>1
    <3>2. CASE i \notin T
      <4>1. T \in SUBSET (0 .. i - 1)
        BY <3>2
      <4> QED
        BY <1>2, <2>1, <4>1
    <3> QED
      BY <3>1, <3>2
  <2> QED
    BY <2>1
<1>3. 0 .. n \subseteq B
  <2> HIDE DEF B
  <2> QED
    BY <1>1, <1>2, UpTo
<1>4. \E x \in S : \A y \in S : x >= y
  <2>1. n \in B
    BY <1>3
  <2> QED
    BY <2>1
<1> QED
  BY <1>4 DEF Max

\* What the highest bit of a number says of its groups of seven.
LEMMA Log2Thresholds ==
  ASSUME NEW v \in Nat
  PROVE  /\ Log2(v) \in 0 .. 30
         /\ Log2(v) >= 7 <=> v >= 128
         /\ Log2(v) >= 14 <=> v >= 16384
         /\ Log2(v) >= 21 <=> v >= 2097152
         /\ Log2(v) >= 28 <=> v >= 268435456
<1> DEFINE S == {0} \cup {l \in 1 .. 30 : Pow2(l) <= v}
<1>1. S \in SUBSET (0 .. 30) /\ S # {}
  OBVIOUS
<1>2. PICK L \in S : L = Log2(v) /\ \A y \in S : L >= y
  <2> HIDE DEF S
  <2>1. Max(S) \in S /\ \A y \in S : Max(S) >= y
    BY <1>1, MaxIsThere
  <2>2. Log2(v) = Max(S)
    BY DEF Log2, S, Pow2
  <2> QED
    BY <2>1, <2>2
<1>3. L \in 0 .. 30
  BY <1>2
<1>4. /\ v >= 128 => 7 \in S
      /\ v >= 16384 => 14 \in S
      /\ v >= 2097152 => 21 \in S
      /\ v >= 268435456 => 28 \in S
  BY 2^7 = 128, 2^14 = 16384, 2^21 = 2097152, 2^28 = 268435456, SMT
     DEF Pow2
<1>5. CASE L = 0
  <2> HIDE DEF S
  <2> QED
    BY <1>2, <1>3, <1>4, <1>5, SMT
<1>6. CASE L # 0
  <2>1. L \in 1 .. 30 /\ Pow2(L) <= v
    BY <1>2, <1>6
  <2>2. /\ L >= 7 => v >= 128
        /\ L >= 14 => v >= 16384
        /\ L >= 21 => v >= 2097152
        /\ L >= 28 => v >= 268435456
    BY <2>1, Thresholds, SMT
  <2> HIDE DEF S
  <2> QED
    BY <1>2, <1>3, <1>4, <2>2, SMT
<1> QED
  BY <1>5, <1>6, SMT

-----------------------------------------------------------------------------
(***************************************************************************)
(* Varints.                                                                *)
(***************************************************************************)

\* The powers that a varint of five bytes is made of.
Pow128 == [i \in 0 .. 4 |-> 128^i]

\* The powers of 128 that matter.
LEMMA Pow128Values ==
  /\ Pow128[0] = 1 /\ Pow128[1] = 128 /\ Pow128[2] = 16384
  /\ Pow128[3] = 2097152 /\ Pow128[4] = 268435456
BY SMT DEF Pow128

\* How many groups of seven bits a number has.
LEMMA GroupsOf ==
  ASSUME NEW v \in Nat
  PROVE  VarintLength(v) = CASE v < 128 -> 1
                             [] 128 <= v /\ v < 16384 -> 2
                             [] 16384 <= v /\ v < 2097152 -> 3
                             [] 2097152 <= v /\ v < 268435456 -> 4
                             [] 268435456 <= v -> 5
<1> DEFINE S == {i \in 1 .. 4 : v >= Pow128[i]}
<1>1. VarintLength(v) = 1 + Cardinality(S)
  <2>1. \A i \in 1 .. 4 : Pow128[i] = 128^i
    <3>1. 1 .. 4 \subseteq 0 .. 4
      BY SMT
    <3> QED
      BY <3>1, Zenon DEF Pow128
  <2>2. S = {i \in 1 .. 4 : v >= 128^i}
    BY <2>1, Zenon
  <2>3. ~(v < 0)
    OBVIOUS
  <2> QED
    BY <2>2, <2>3, Zenon DEF VarintLength
<1>2. ASSUME NEW k \in 0 .. 4
      PROVE  Cardinality(1 .. k) = k
  <2>1. Cardinality(1 .. k) = IF 1 > k THEN 0 ELSE k - 1 + 1
    BY FS_Interval
  <2> QED
    BY <2>1
<1>3. CASE v < 128
  <2>1. S = 1 .. 0
    BY <1>3, Pow128Values, SMT
  <2> QED
    BY <1>1, <1>2, <1>3, <2>1, SMT
<1>4. CASE 128 <= v /\ v < 16384
  <2>1. S = 1 .. 1
    BY <1>4, Pow128Values, SMT
  <2> QED
    BY <1>1, <1>2, <1>4, <2>1, SMT
<1>5. CASE 16384 <= v /\ v < 2097152
  <2>1. S = 1 .. 2
    BY <1>5, Pow128Values, SMT
  <2> QED
    BY <1>1, <1>2, <1>5, <2>1, SMT
<1>6. CASE 2097152 <= v /\ v < 268435456
  <2>1. S = 1 .. 3
    BY <1>6, Pow128Values, SMT
  <2> QED
    BY <1>1, <1>2, <1>6, <2>1, SMT
<1>7. CASE 268435456 <= v
  <2>1. S = 1 .. 4
    BY <1>7, Pow128Values, SMT
  <2>2. VarintLength(v) = 5
    <3> HIDE DEF S
    <3> QED
      BY <1>1, <1>2, <2>1, SMT
  <2> QED
    BY <1>7, <2>2, SMT
<1> QED
  BY <1>3, <1>4, <1>5, <1>6, <1>7, SMT

\* VarintSize32 computes from the highest bit what WriteVarint32 does by its
\* loop; a negative number takes ten bytes in both.
LEMMA VarintSizeIsLength ==
  ASSUME NEW v \in Int
  PROVE  /\ VarintSize(v) = VarintLength(v)
         /\ VarintLength(v) \in 1 .. 10
<1>1. CASE v < 0
  BY <1>1 DEF VarintSize, VarintLength
<1>2. CASE v >= 0
  <2> DEFINE L == Log2(v)
  <2>1. /\ L \in 0 .. 30
        /\ L >= 7 <=> v >= 128
        /\ L >= 14 <=> v >= 16384
        /\ L >= 21 <=> v >= 2097152
        /\ L >= 28 <=> v >= 268435456
    BY <1>2, Log2Thresholds, SMT
  <2>2. VarintSize(v) = (9 * L + 73) \div 64
    BY <1>2, SMT DEF VarintSize
  <2> HIDE DEF L
  <2>3. VarintLength(v) = CASE v < 128 -> 1
                             [] 128 <= v /\ v < 16384 -> 2
                             [] 16384 <= v /\ v < 2097152 -> 3
                             [] 2097152 <= v /\ v < 268435456 -> 4
                             [] 268435456 <= v -> 5
    BY <1>2, GroupsOf, SMT
  <2> QED
    BY <1>2, <2>1, <2>2, <2>3, SMT
<1> QED
  BY <1>1, <1>2

\* A group has seven bits.
LEMMA GroupType ==
  ASSUME NEW v \in Int, NEW i \in Nat
  PROVE  Group(v, i) \in 0 .. 127
<1>1. CASE i <= 4
  <2>1. Group(v, i) = (v \div Pow128[i]) % 128
    <3>1. i \in 0 .. 4
      BY <1>1
    <3>2. Pow128[i] = 128^i
      BY <3>1, Zenon DEF Pow128
    <3> QED
      BY <1>1, <3>2, Zenon DEF Group
  <2>2. Pow128[i] \in Nat /\ Pow128[i] > 0
    BY <1>1, Pow128Values, SMT
  <2> DEFINE q == v \div Pow128[i]
  <2>3. q \in Int
    BY <2>2, SMT
  <2> HIDE DEF q
  <2>4. q % 128 \in 0 .. 127
    BY <2>3
  <2> QED
    BY <2>1, <2>4 DEF q
<1>2. CASE i > 4
  BY <1>2 DEF Group
<1> QED
  BY <1>1, <1>2

\* A function on 1 .. n is a sequence.
LEMMA FunctionIsSeq ==
  ASSUME NEW X, NEW n \in Nat, NEW s \in [1 .. n -> X]
  PROVE  s \in Seq(X) /\ Len(s) = n
OBVIOUS

\* So are the eight bytes of a double.
LEMMA EightIsSeq ==
  ASSUME NEW X, NEW s \in [1 .. 8 -> X]
  PROVE  s \in Seq(X) /\ Len(s) = 8
<1> DEFINE n == 8
<1>1. n \in Nat /\ s \in [1 .. n -> X]
  OBVIOUS
<1> HIDE DEF n
<1>2. s \in Seq(X) /\ Len(s) = n
  BY <1>1, FunctionIsSeq
<1> QED
  BY <1>2 DEF n

\* A varint is a sequence of bytes.
LEMMA VarintType ==
  ASSUME NEW v \in Int
  PROVE  Varint(v) \in Seq(Byte) /\ Len(Varint(v)) = VarintLength(v)
<1> DEFINE n == VarintLength(v)
<1>1. n \in Nat
  BY VarintSizeIsLength
<1>2. Varint(v) = [i \in 1 .. n |-> Group(v, i - 1) + IF i < n THEN 128 ELSE 0]
  BY DEF Varint
<1>3. ASSUME NEW i \in 1 .. n
      PROVE  Group(v, i - 1) + (IF i < n THEN 128 ELSE 0) \in Byte
  <2>1. Group(v, i - 1) \in 0 .. 127
    BY <1>1, i - 1 \in Nat, GroupType
  <2> QED
    BY <2>1 DEF Byte
<1> HIDE DEF n
<1>4. Varint(v) \in [1 .. n -> Byte]
  BY <1>2, <1>3
<1>5. Varint(v) \in Seq(Byte) /\ Len(Varint(v)) = n
  BY <1>1, <1>4, FunctionIsSeq
<1> QED
  BY <1>5 DEF n

-----------------------------------------------------------------------------
(***************************************************************************)
(* Fields.                                                                 *)
(***************************************************************************)

\* What a field of a type may hold at all.
TypeValues(type) ==
  CASE type = "string" -> Seq(Byte)
    [] type = "double" -> [1 .. 8 -> Byte]
    [] OTHER -> Int

\* ValueSize counts the bytes of a value.
LEMMA PayloadSize ==
  ASSUME NEW type \in Scalars, NEW v \in TypeValues(type)
  PROVE  /\ Payload(type, v) \in Seq(Byte)
         /\ Len(Payload(type, v)) = ValueSize(type, v)
         /\ ValueSize(type, v) \in Nat
<1>1. CASE type = "string"
  <2>1. v \in Seq(Byte) /\ Len(v) \in Int
    BY <1>1 DEF TypeValues
  <2> DEFINE b == Varint(Len(v))
  <2>2. /\ b \in Seq(Byte) /\ Len(b) = VarintSize(Len(v))
        /\ VarintSize(Len(v)) \in 1 .. 10
    BY <2>1, VarintType, VarintSizeIsLength
  <2>3. Payload(type, v) = b \o v /\ ValueSize(type, v) = DelimitedSize(Len(v))
    BY <1>1 DEF Payload, ValueSize
  <2> HIDE DEF b
  <2>4. b \o v \in Seq(Byte) /\ Len(b \o v) = Len(b) + Len(v)
    BY <2>1, <2>2, ConcatProperties
  <2> QED
    BY <2>1, <2>2, <2>3, <2>4 DEF DelimitedSize
<1>2. CASE type = "double"
  <2>1. v \in [1 .. 8 -> Byte]
    BY <1>2 DEF TypeValues
  <2>2. v \in Seq(Byte) /\ Len(v) = 8
    BY <2>1, EightIsSeq
  <2> QED
    BY <1>2, <2>2 DEF Payload, ValueSize
<1>3. CASE type \notin {"string", "double"}
  <2>1. v \in Int
    BY <1>3 DEF TypeValues
  <2>2. Payload(type, v) = Varint(v) /\ ValueSize(type, v) = VarintSize(v)
    BY <1>3 DEF Payload, ValueSize
  <2> QED
    BY <2>1, <2>2, VarintType, VarintSizeIsLength
<1> QED
  BY <1>1, <1>2, <1>3

\* The fields of bike.proto have numbers so small that a tag is one byte.
LEMMA TagSize ==
  ASSUME NEW number \in 1 .. 15, NEW type
  PROVE  WriteTag(number, type) \in Seq(Byte) /\ Len(WriteTag(number, type)) = 1
<1> DEFINE v == 8 * number + WireType(type)
<1>1. WireType(type) \in 0 .. 2
  BY DEF WireType
<1>2. v \in Nat /\ v \in Int /\ v < 128
  BY <1>1
<1>3. WriteTag(number, type) = Varint(v)
  BY DEF WriteTag
<1> HIDE DEF v
<1>4. VarintLength(v) = 1
  BY <1>2, GroupsOf, SMT
<1> QED
  BY <1>2, <1>3, <1>4, VarintType

-----------------------------------------------------------------------------
(***************************************************************************)
(* The tables of a class that is written.                                  *)
(***************************************************************************)

\* Every field with a has bit is written once, under a small number, by its
\* own type and if its own bit is set.
WritesFields(k) ==
  /\ k.write \in Seq({k.write[i] : i \in DOMAIN k.write})
  /\ \A i \in DOMAIN k.write :
       LET w == k.write[i]
       IN  /\ w.number \in 1 .. 15
           /\ w.type # "records" =>
                /\ w.field \in DOMAIN k.has
                /\ w.bit = k.has[w.field]
                /\ w.type = k.fields[w.field]
           /\ w.type = "records" => w.field = "records"
  /\ \A i, j \in DOMAIN k.write :
       k.write[i].field = k.write[j].field => i = j
  /\ \A f \in DOMAIN k.has : \E i \in DOMAIN k.write :
       k.write[i].field = f /\ k.write[i].type # "records"

\* Every such field is counted once, required or guarded, by its own type;
\* the required ones all at once only if all their bits are asked for.
CountsFields(k) ==
  /\ DOMAIN k.size.required \cup DOMAIN k.size.guarded = DOMAIN k.has
  /\ DOMAIN k.size.required \cap DOMAIN k.size.guarded = {}
  /\ \A f \in DOMAIN k.size.required :
       k.size.required[f] = k.fields[f] /\ k.has[f] \in k.size.all
  /\ \A f \in DOMAIN k.size.guarded : k.size.guarded[f] = k.fields[f]

HasTables(k) ==
  /\ \A f \in DOMAIN k.has : k.fields[f] \in Scalars
  /\ WritesFields(k)
  /\ CountsFields(k)

\* A class has finitely many fields.
LEMMA FieldsFinite ==
  ASSUME NEW k, HasTables(k), NEW fs, fs \subseteq DOMAIN k.has
  PROVE  IsFiniteSet(fs)
<1> DEFINE n == Len(k.write)
           T == {k.write[i].field : i \in 1 .. n}
           h == [i \in 1 .. n |-> k.write[i].field]
<1>1. n \in Nat /\ DOMAIN k.write = 1 .. n
  BY DEF HasTables, WritesFields
<1>2. h \in Surjection(1 .. n, T)
  BY DEF Surjection
<1>3. IsFiniteSet(T)
  BY <1>1, <1>2, FS_NatSurjection DEF ExistsSurjection
<1>4. DOMAIN k.has \subseteq T
  <2>1. \A f \in DOMAIN k.has : \E i \in DOMAIN k.write : k.write[i].field = f
    BY DEF HasTables, WritesFields
  <2> QED
    BY <1>1, <2>1
<1> HIDE DEF T
<1> QED
  BY <1>3, <1>4, FS_Subset

\* The fields of m with a has bit hold values of their types.
HoldsValues(k, m) ==
  /\ m.unknown \in Seq(Byte)
  /\ \A f \in DOMAIN k.has : m.val[f] \in TypeValues(k.fields[f])

\* What each field takes when it is written.
Taken(k, m) == [f \in DOMAIN k.has |-> 1 + ValueSize(k.fields[f], m.val[f])]

\* What is counted of a field is a number.
LEMMA TakenType ==
  ASSUME NEW k, NEW m, HasTables(k), HoldsValues(k, m)
  PROVE  \A f \in DOMAIN k.has : Taken(k, m)[f] \in Nat
<1> SUFFICES ASSUME NEW f \in DOMAIN k.has
             PROVE  1 + ValueSize(k.fields[f], m.val[f]) \in Nat
  BY DEF Taken
<1>1. k.fields[f] \in Scalars /\ m.val[f] \in TypeValues(k.fields[f])
  BY DEF HasTables, HoldsValues
<1> QED
  BY <1>1, PayloadSize

\* A sum over some of the fields is a sum of what they take.
LEMMA FieldsSizeIsSum ==
  ASSUME NEW k, NEW m, NEW types, NEW fs, HasTables(k),
         fs \subseteq DOMAIN k.has, \A f \in fs : types[f] = k.fields[f]
  PROVE  FieldsSize(m, types, fs) = Sum(Taken(k, m), fs)
<1> DEFINE g == [f \in fs |-> 1 + ValueSize(types[f], m.val[f])]
<1>1. FieldsSize(m, types, fs) = Sum(g, fs)
  BY SumDef DEF FieldsSize
<1>2. IsFiniteSet(fs)
  BY FieldsFinite
<1>3. \A f \in fs : g[f] = Taken(k, m)[f]
  BY DEF Taken
<1> HIDE DEF g
<1>4. Sum(g, fs) = Sum(Taken(k, m), fs)
  BY <1>2, <1>3, SumSame
<1> QED
  BY <1>1, <1>4

\* Whichever way ByteSizeLong takes, it counts the fields that are present.
LEMMA OwnSizeIsSum ==
  ASSUME NEW k, NEW m, HasTables(k), HoldsValues(k, m)
  PROVE  /\ OwnSize(k, m) = Len(m.unknown)
                              + Sum(Taken(k, m), Present(k, m, DOMAIN k.has))
         /\ OwnSize(k, m) \in Int
         /\ Sum(Taken(k, m), Present(k, m, DOMAIN k.has)) \in Int
<1> DEFINE r == DOMAIN k.size.required
           o == DOMAIN k.size.guarded
           g == Taken(k, m)
           P(fs) == Present(k, m, fs)
<1>1. /\ r \cup o = DOMAIN k.has /\ r \cap o = {}
      /\ \A f \in r : k.size.required[f] = k.fields[f]
      /\ \A f \in o : k.size.guarded[f] = k.fields[f]
  BY DEF HasTables, CountsFields
<1>2. /\ P(r) \subseteq r /\ P(o) \subseteq o /\ P(r) \cap P(o) = {}
      /\ P(DOMAIN k.has) = P(r) \cup P(o)
  BY <1>1 DEF Present
<1>3. k.size.all \subseteq m.has => P(r) = r
  BY DEF Present, HasTables, CountsFields
<1>4. FieldsSize(m, k.size.required, P(r)) = Sum(g, P(r))
  <2> HIDE DEF P, r, o
  <2>1. P(r) \subseteq DOMAIN k.has
    BY <1>1, <1>2
  <2>2. \A f \in P(r) : k.size.required[f] = k.fields[f]
    BY <1>1, <1>2
  <2> QED
    BY <2>1, <2>2, FieldsSizeIsSum
<1>5. FieldsSize(m, k.size.guarded, P(o)) = Sum(g, P(o))
  <2> HIDE DEF P, r, o
  <2>1. P(o) \subseteq DOMAIN k.has
    BY <1>1, <1>2
  <2>2. \A f \in P(o) : k.size.guarded[f] = k.fields[f]
    BY <1>1, <1>2
  <2> QED
    BY <2>1, <2>2, FieldsSizeIsSum
<1>6. OwnSize(k, m) = Len(m.unknown) + Sum(g, P(r)) + Sum(g, P(o))
  BY <1>3, <1>4, <1>5 DEF OwnSize, RequiredFieldsByteSizeFallback
<1>7. IsFiniteSet(P(r)) /\ IsFiniteSet(P(o))
  <2> HIDE DEF P, r, o
  <2>1. P(r) \subseteq DOMAIN k.has /\ P(o) \subseteq DOMAIN k.has
    BY <1>1, <1>2
  <2> QED
    BY <2>1, FieldsFinite
<1>8. \A f \in P(r) \cup P(o) : g[f] \in Int
  BY <1>1, <1>2, TakenType
<1> HIDE DEF P, g, r, o
<1>9. Sum(g, P(r) \cup P(o)) = Sum(g, P(r)) + Sum(g, P(o))
  BY <1>2, <1>7, <1>8, SumUnion
<1>10. Sum(g, P(r)) \in Int /\ Sum(g, P(o)) \in Int
  BY <1>7, <1>8, SumType
<1>11. Len(m.unknown) \in Nat
  BY DEF HoldsValues
<1>12. Sum(g, P(DOMAIN k.has)) = Sum(g, P(r)) + Sum(g, P(o))
  BY <1>2, <1>9
<1>13. /\ OwnSize(k, m) = Len(m.unknown) + Sum(g, P(DOMAIN k.has))
       /\ OwnSize(k, m) \in Int /\ Sum(g, P(DOMAIN k.has)) \in Int
  BY <1>6, <1>10, <1>11, <1>12
<1> QED
  BY <1>13 DEF P, g

-----------------------------------------------------------------------------
(***************************************************************************)
(* What is written is as long as what is counted.                          *)
(***************************************************************************)

\* WriteField writes as many bytes as are counted of its field.
LEMMA FieldLength ==
  ASSUME NEW k, NEW m, HasTables(k), HoldsValues(k, m),
         NEW i \in DOMAIN k.write, k.write[i].type # "records"
  PROVE  LET w == k.write[i]
         IN  /\ WriteField(m, w) \in Seq(Byte)
             /\ Len(WriteField(m, w)) = IF k.has[w.field] \in m.has
                                          THEN Taken(k, m)[w.field] ELSE 0
<1> DEFINE w == k.write[i]
<1>1. /\ w.number \in 1 .. 15 /\ w.field \in DOMAIN k.has
      /\ w.bit = k.has[w.field] /\ w.type = k.fields[w.field]
      /\ w.type \in Scalars
  BY DEF HasTables, WritesFields
<1> HIDE DEF w
<1>2. CASE w.bit \in m.has
  <2> DEFINE v == m.val[w.field]
             tag == WriteTag(w.number, w.type)
             load == Payload(w.type, v)
  <2>1. v \in TypeValues(w.type)
    BY <1>1 DEF HoldsValues
  <2>2. tag \in Seq(Byte) /\ Len(tag) = 1
    BY <1>1, TagSize
  <2>3. load \in Seq(Byte) /\ Len(load) = ValueSize(w.type, v)
    BY <1>1, <2>1, PayloadSize
  <2>4. WriteField(m, w) = tag \o load
    BY <1>2 DEF WriteField
  <2>5. Taken(k, m)[w.field] = 1 + ValueSize(w.type, v)
    BY <1>1 DEF Taken
  <2> HIDE DEF v, tag, load
  <2>6. tag \o load \in Seq(Byte) /\ Len(tag \o load) = Len(tag) + Len(load)
    BY <2>2, <2>3, ConcatProperties
  <2>7. /\ WriteField(m, w) \in Seq(Byte)
        /\ Len(WriteField(m, w)) = IF k.has[w.field] \in m.has
                                     THEN Taken(k, m)[w.field] ELSE 0
    BY <1>1, <1>2, <2>2, <2>3, <2>4, <2>5, <2>6
  <2> QED
    BY <2>7 DEF w
<1>3. CASE w.bit \notin m.has
  <2>1. WriteField(m, w) = <<>>
    BY <1>3 DEF WriteField
  <2>2. /\ WriteField(m, w) \in Seq(Byte)
        /\ Len(WriteField(m, w)) = IF k.has[w.field] \in m.has
                                     THEN Taken(k, m)[w.field] ELSE 0
    BY <1>1, <1>3, <2>1
  <2> QED
    BY <2>2 DEF w
<1> QED
  BY <1>2, <1>3

Lists(k) == \E i \in DOMAIN k.write : k.write[i].type = "records"

\* Fields one after the other, and a list of rs bytes where there is one.
LEMMA WrittenLength ==
  ASSUME NEW k, NEW m, HasTables(k), HoldsValues(k, m),
         NEW s \in Seq(Seq(Byte)), Len(s) = Len(k.write), NEW rs \in Int,
         \A i \in DOMAIN k.write :
           IF k.write[i].type = "records" THEN Len(s[i]) = rs
                                          ELSE s[i] = WriteField(m, k.write[i])
  PROVE  Len(FlattenSeq(s)) = Sum(Taken(k, m), Present(k, m, DOMAIN k.has))
                                + IF Lists(k) THEN rs ELSE 0
<1> DEFINE n == Len(k.write)
           g == Taken(k, m)
           there == Present(k, m, DOMAIN k.has)
           F(i) == {f \in there : \E j \in 1 .. i : k.write[j].field = f}
           L(i) == \E j \in 1 .. i : k.write[j].type = "records"
           T(i) == Sum(g, F(i)) + IF L(i) THEN rs ELSE 0
           total == [i \in 0 .. n |-> T(i)]
<1>1. /\ n \in Nat /\ DOMAIN k.write = 1 .. n
      /\ \A i, j \in 1 .. n : k.write[i].field = k.write[j].field => i = j
      /\ \A i \in 1 .. n : k.write[i].type # "records" =>
                              k.write[i].field \in DOMAIN k.has
      /\ \A i \in 1 .. n : k.write[i].type = "records" =>
                              k.write[i].field = "records"
      /\ \A f \in DOMAIN k.has : \E i \in 1 .. n :
           k.write[i].field = f /\ k.write[i].type # "records"
  <2>1. n \in Nat /\ DOMAIN k.write = 1 .. n
    BY DEF HasTables, WritesFields
  <2> HIDE DEF n
  <2>2. \A i, j \in 1 .. n : k.write[i].field = k.write[j].field => i = j
    BY <2>1 DEF HasTables, WritesFields
  <2>3. ASSUME NEW i \in 1 .. n
        PROVE  /\ k.write[i].type # "records" => k.write[i].field \in DOMAIN k.has
               /\ k.write[i].type = "records" => k.write[i].field = "records"
    <3>1. i \in DOMAIN k.write
      BY <2>1
    <3> QED
      BY <3>1 DEF HasTables, WritesFields
  <2>4. \A f \in DOMAIN k.has : \E i \in 1 .. n :
          k.write[i].field = f /\ k.write[i].type # "records"
    BY <2>1 DEF HasTables, WritesFields
  <2> QED
    BY <2>1, <2>2, <2>3, <2>4
<1>2. there \subseteq DOMAIN k.has
      /\ \A f \in DOMAIN k.has : f \in there <=> k.has[f] \in m.has
  BY DEF Present
<1>3. ASSUME NEW i \in 0 .. n
      PROVE  IsFiniteSet(F(i)) /\ Sum(g, F(i)) \in Int
  <2>1. F(i) \subseteq DOMAIN k.has
    BY <1>2
  <2> HIDE DEF F, g
  <2>2. IsFiniteSet(F(i))
    BY <2>1, FieldsFinite
  <2>3. \A f \in F(i) : g[f] \in Int
    BY <2>1, TakenType DEF g
  <2> QED
    BY <2>2, <2>3, SumType
<1>4. T(0) = 0
  <2>1. F(0) = {} /\ ~L(0)
    OBVIOUS
  <2>2. Sum(g, {}) = 0
    BY SumEmpty
  <2> HIDE DEF F, g, L
  <2>3. Sum(g, F(0)) = 0
    BY <2>1, <2>2
  <2> QED
    BY <2>1, <2>3
<1>5. ASSUME NEW i \in 1 .. n
      PROVE  T(i) = T(i - 1) + Len(s[i])
  <2> DEFINE f == k.write[i].field
  <2>0. i - 1 \in 0 .. n /\ i \in 0 .. n /\ i \in DOMAIN k.write
    BY <1>1
  <2>1. \A j : j \in 1 .. i <=> j \in 1 .. i - 1 \/ j = i
    BY <1>1
  <2>2. \A j \in 1 .. i - 1 : j \in 1 .. n /\ k.write[j].field # f
    <3>1. \A j \in 1 .. i - 1 : j \in 1 .. n /\ j # i
      BY <1>1
    <3> QED
      BY <1>1, <3>1
  <2>3. F(i) = F(i - 1) \cup ({f} \cap there) /\ f \notin F(i - 1)
    <3>1. F(i) = F(i - 1) \cup ({f} \cap there)
      BY <2>1
    <3>2. f \notin F(i - 1)
      BY <2>2
    <3> QED
      BY <3>1, <3>2
  <2>4. IsFiniteSet(F(i - 1)) /\ Sum(g, F(i - 1)) \in Int /\ Sum(g, F(i)) \in Int
    BY <1>3, <2>0
  <2>5. CASE k.write[i].type = "records"
    <3>1. f \notin there
      <4>1. \A j \in 1 .. n : k.write[j].type # "records" =>
                                k.write[j].field # f
        BY <1>1, <2>5
      <4> QED
        BY <1>1, <1>2, <4>1
    <3>2. F(i) = F(i - 1)
      <4> HIDE DEF F, there
      <4> QED
        BY <2>3, <3>1
    <3>3. L(i) /\ ~L(i - 1)
      <4>1. L(i)
        BY <2>1, <2>5
      <4>2. \A j \in 1 .. i - 1 : k.write[j].type # "records"
        <5>1. f = "records"
          BY <1>1, <2>5
        <5>2. \A j \in 1 .. i - 1 : k.write[j].field # "records"
          BY <2>2, <5>1
        <5> QED
          BY <1>1, <2>2, <5>2
      <4> QED
        BY <4>1, <4>2
    <3>4. Len(s[i]) = rs
      BY <2>0, <2>5
    <3> HIDE DEF F, L, g
    <3> QED
      BY <2>4, <3>2, <3>3, <3>4
  <2>6. CASE k.write[i].type # "records"
    <3>1. L(i) <=> L(i - 1)
      BY <2>1, <2>6
    <3>2. f \in DOMAIN k.has
      BY <1>1, <2>6
    <3>3. Len(s[i]) = IF f \in there THEN g[f] ELSE 0
      <4>1. s[i] = WriteField(m, k.write[i])
        BY <2>0, <2>6
      <4>2. Len(WriteField(m, k.write[i])) =
              IF k.has[f] \in m.has THEN g[f] ELSE 0
        BY <2>0, <2>6, FieldLength
      <4> QED
        BY <1>2, <3>2, <4>1, <4>2
    <3>4. g[f] \in Int
      BY <3>2, TakenType
    <3>5. CASE f \in there
      <4>1. F(i) = F(i - 1) \cup {f}
        <5> HIDE DEF F, there
        <5> QED
          BY <2>3, <3>5
      <4>2. \A y \in F(i - 1) \cup {f} : g[y] \in Int
        BY <1>2, <3>2, TakenType
      <4> HIDE DEF F, L, g, f, there
      <4>3. Sum(g, F(i - 1) \cup {f}) = g[f] + Sum(g, F(i - 1))
        BY <2>3, <2>4, <4>2, SumAdd
      <4>4. Sum(g, F(i)) = g[f] + Sum(g, F(i - 1)) /\ Len(s[i]) = g[f]
        BY <3>3, <3>5, <4>1, <4>3
      <4> QED
        BY <2>4, <3>1, <3>4, <4>4
    <3>6. CASE f \notin there
      <4> HIDE DEF F, L, g, f, there
      <4>1. F(i) = F(i - 1)
        BY <2>3, <3>6
      <4> QED
        BY <2>4, <3>1, <3>3, <3>6, <4>1
    <3> QED
      BY <3>5, <3>6
  <2> QED
    BY <2>5, <2>6
<1>6. total[0] = 0 /\ \A i \in 1 .. n : total[i] = total[i - 1] + Len(s[i])
  <2>1. \A i \in 0 .. n : total[i] = T(i)
    OBVIOUS
  <2>2. 0 \in 0 .. n /\ \A i \in 1 .. n : i \in 0 .. n /\ i - 1 \in 0 .. n
    BY <1>1
  <2> HIDE DEF T, total, n
  <2> QED
    BY <1>4, <1>5, <2>1, <2>2
<1>7. Len(FlattenSeq(s)) = T(n)
  <2>1. total[n] = T(n)
    BY <1>1
  <2> HIDE DEF total, T
  <2>2. Len(FlattenSeq(s)) = total[Len(s)]
    BY <1>6, FlattenLength
  <2> QED
    BY <2>1, <2>2
<1>8. F(n) = there /\ (L(n) <=> Lists(k))
  <2>1. L(n) <=> Lists(k)
    BY <1>1 DEF Lists
  <2>2. \A f \in there : \E j \in 1 .. n : k.write[j].field = f
    BY <1>1, <1>2
  <2> QED
    BY <2>1, <2>2
<1> HIDE DEF F, L
<1> QED
  BY <1>7, <1>8

\* SerializeWithCachedSizes of a class without records.
LEMMA LeafLength ==
  ASSUME NEW k, NEW m, HasTables(k), HoldsValues(k, m), ~Lists(k)
  PROVE  WriteLeaf(k, m) \in Seq(Byte) /\ Len(WriteLeaf(k, m)) = OwnSize(k, m)
<1> DEFINE n == Len(k.write)
           s == [i \in DOMAIN k.write |-> WriteField(m, k.write[i])]
           size == Sum(Taken(k, m), Present(k, m, DOMAIN k.has))
<1>1. n \in Nat /\ DOMAIN k.write = 1 .. n
  BY DEF HasTables, WritesFields
<1>2. ASSUME NEW i \in DOMAIN k.write
      PROVE  k.write[i].type # "records" /\ s[i] \in Seq(Byte)
  <2>1. k.write[i].type # "records"
    BY DEF Lists
  <2> QED
    BY <2>1, FieldLength
<1>3. s \in Seq(Seq(Byte)) /\ Len(s) = n
  <2>1. s \in [1 .. n -> Seq(Byte)]
    BY <1>1, <1>2
  <2> HIDE DEF s, n
  <2> QED
    BY <1>1, <2>1, FunctionIsSeq
<1>4. \A i \in DOMAIN k.write : s[i] = WriteField(m, k.write[i])
  OBVIOUS
<1>5. WriteLeaf(k, m) = FlattenSeq(s) \o m.unknown
  BY DEF WriteLeaf
<1>6. /\ OwnSize(k, m) = Len(m.unknown) + size
      /\ OwnSize(k, m) \in Int /\ size \in Int
  BY OwnSizeIsSum
<1> HIDE DEF s
<1>7. Len(FlattenSeq(s)) = size + IF Lists(k) THEN 0 ELSE 0
  BY <1>2, <1>3, <1>4, WrittenLength
<1>8. FlattenSeq(s) \in Seq(Byte)
  BY <1>3, FlattenType
<1>9. m.unknown \in Seq(Byte)
  BY DEF HoldsValues
<1>10. /\ FlattenSeq(s) \o m.unknown \in Seq(Byte)
       /\ Len(FlattenSeq(s) \o m.unknown) = Len(FlattenSeq(s)) + Len(m.unknown)
  BY <1>8, <1>9, ConcatProperties
<1>11. Len(FlattenSeq(s)) \in Nat /\ Len(m.unknown) \in Nat
  BY <1>8, <1>9
<1>12. size = Len(FlattenSeq(s))
  <2> HIDE DEF size
  <2> QED
    BY <1>6, <1>7
<1> HIDE DEF size
<1> QED
  BY <1>5, <1>6, <1>10, <1>11, <1>12

\* What a record takes in a list, with its tag and its length.
RecordTaken(k, r) == 1 + DelimitedSize(OwnSize(k.record, r))

\* WriteRecord writes as many bytes as are counted of the record.
LEMMA RecordLength ==
  ASSUME NEW k, NEW r, NEW number \in 1 .. 15,
         HasTables(k.record), ~Lists(k.record), HoldsValues(k.record, r)
  PROVE  /\ WriteRecord(k, number, r) \in Seq(Byte)
         /\ Len(WriteRecord(k, number, r)) = RecordTaken(k, r)
         /\ RecordTaken(k, r) \in Int
<1> DEFINE tag == WriteTag(number, "records")
           n == OwnSize(k.record, r)
           b == Varint(n)
           leaf == WriteLeaf(k.record, r)
<1>1. tag \in Seq(Byte) /\ Len(tag) = 1
  BY TagSize
<1>2. leaf \in Seq(Byte) /\ Len(leaf) = n
  BY LeafLength
<1>3. n \in Int
  BY <1>2
<1>4. /\ b \in Seq(Byte) /\ Len(b) = VarintSize(n) /\ VarintSize(n) \in Int
  <2> HIDE DEF n
  <2> QED
    BY <1>3, VarintType, VarintSizeIsLength
<1>5. WriteRecord(k, number, r) = (tag \o b) \o leaf
  BY DEF WriteRecord
<1>6. RecordTaken(k, r) = 1 + (n + VarintSize(n))
  BY DEF RecordTaken, DelimitedSize
<1> HIDE DEF tag, n, b, leaf
<1>7. tag \o b \in Seq(Byte) /\ Len(tag \o b) = Len(tag) + Len(b)
  BY <1>1, <1>4, ConcatProperties
<1>8. /\ (tag \o b) \o leaf \in Seq(Byte)
      /\ Len((tag \o b) \o leaf) = Len(tag \o b) + Len(leaf)
  BY <1>2, <1>7, ConcatProperties
<1> QED
  BY <1>1, <1>2, <1>3, <1>4, <1>5, <1>6, <1>7, <1>8

\* A list of records of k in m, each with values of their types.
HoldsRecords(k, m) ==
  /\ HasTables(k.record) /\ ~Lists(k.record)
  /\ \E X : /\ m.val.records \in Seq(X)
            /\ \A r \in X : HoldsValues(k.record, r)

ListSize(k, m) ==
  SumFunction([i \in DOMAIN m.val.records |->
                 RecordTaken(k, m.val.records[i])])

\* So does WriteRecords for the list.
LEMMA ListLength ==
  ASSUME NEW k, NEW m, NEW w, w.number \in 1 .. 15, HoldsRecords(k, m)
  PROVE  /\ WriteRecords(k, m, w) \in Seq(Byte)
         /\ Len(WriteRecords(k, m, w)) = ListSize(k, m)
         /\ ListSize(k, m) \in Int
<1> DEFINE rs == m.val.records
           n == Len(rs)
           g == [i \in DOMAIN rs |-> RecordTaken(k, rs[i])]
           s == [i \in DOMAIN rs |-> WriteRecord(k, w.number, rs[i])]
<1>1. /\ n \in Nat /\ DOMAIN rs = 1 .. n
      /\ \A i \in 1 .. n : HoldsValues(k.record, rs[i])
  <2>1. PICK X : rs \in Seq(X) /\ \A r \in X : HoldsValues(k.record, r)
    BY DEF HoldsRecords
  <2>2. n \in Nat /\ DOMAIN rs = 1 .. n /\ \A i \in 1 .. n : rs[i] \in X
    BY <2>1, LenProperties
  <2> QED
    BY <2>1, <2>2
<1>2. ASSUME NEW i \in 1 .. n
      PROVE  /\ s[i] \in Seq(Byte) /\ Len(s[i]) = g[i] /\ g[i] \in Int
  <2>1. i \in DOMAIN rs /\ HoldsValues(k.record, rs[i])
    BY <1>1
  <2>2. s[i] = WriteRecord(k, w.number, rs[i]) /\ g[i] = RecordTaken(k, rs[i])
    BY <2>1
  <2> HIDE DEF s, g, rs
  <2>3. HasTables(k.record) /\ ~Lists(k.record)
    BY DEF HoldsRecords
  <2> QED
    BY <2>1, <2>2, <2>3, RecordLength
<1>3. ListSize(k, m) = Sum(g, 1 .. n)
  BY <1>1, SumDef DEF ListSize
<1>4. s \in Seq(Seq(Byte)) /\ Len(s) = n
  <2>1. s \in [1 .. n -> Seq(Byte)]
    BY <1>1, <1>2
  <2> HIDE DEF s, n
  <2> QED
    BY <1>1, <2>1, FunctionIsSeq
<1>5. WriteRecords(k, m, w) = FlattenSeq(s)
  BY DEF WriteRecords
<1> DEFINE total == [i \in 0 .. n |-> Sum(g, 1 .. i)]
<1> HIDE DEF g, s, n, rs
<1>6. total[0] = 0
  <2>1. 0 \in 0 .. n /\ 1 .. 0 = {}
    BY <1>1
  <2>2. total[0] = Sum(g, {})
    BY <2>1
  <2> QED
    BY <2>2, SumEmpty
<1>7. ASSUME NEW i \in 1 .. n
      PROVE  total[i] = total[i - 1] + Len(s[i])
  <2> DEFINE S == 1 .. i - 1
  <2>1. /\ i \in 0 .. n /\ i - 1 \in 0 .. n /\ i \notin S
        /\ 1 .. i = S \cup {i} /\ S \cup {i} \subseteq 1 .. n
    BY <1>1
  <2>2. total[i] = Sum(g, S \cup {i}) /\ total[i - 1] = Sum(g, S)
    BY <2>1
  <2>3. IsFiniteSet(S)
    BY <1>1, FS_Interval
  <2>4. \A y \in S \cup {i} : g[y] \in Int
    BY <1>2, <2>1
  <2> HIDE DEF S, total
  <2>5. Sum(g, S \cup {i}) = g[i] + Sum(g, S)
    BY <2>1, <2>3, <2>4, SumAdd
  <2>6. Sum(g, S) \in Int
    BY <2>3, <2>4, SumType
  <2> QED
    BY <1>2, <2>2, <2>5, <2>6
<1>8. Len(FlattenSeq(s)) = total[n] /\ FlattenSeq(s) \in Seq(Byte)
  <2> HIDE DEF total
  <2> QED
    BY <1>4, <1>6, <1>7, FlattenLength, FlattenType
<1>9. total[n] = Sum(g, 1 .. n)
  BY <1>1
<1>10. Sum(g, 1 .. n) \in Int
  <2>1. IsFiniteSet(1 .. n)
    BY <1>1, FS_Interval
  <2>2. \A i \in 1 .. n : g[i] \in Int
    BY <1>2
  <2> QED
    BY <2>1, <2>2, SumType
<1> HIDE DEF total
<1> QED
  BY <1>3, <1>5, <1>8, <1>9, <1>10

\* An object that SerializeWithCachedSizes can write.
Writable(k, m) ==
  /\ HasTables(k) /\ HoldsValues(k, m)
  /\ Lists(k) <=> HasRecords(m)
  /\ Lists(k) => HoldsRecords(k, m)

\* The size that ByteSizeLong returns is the number of bytes that
\* SerializeWithCachedSizes writes, for every class with tables that agree
\* (bike.pb.cpp), whatever fields are set and however long their values are.
THEOREM SizeIsLength ==
  ASSUME NEW k, NEW m, Writable(k, m)
  PROVE  /\ SerializeWithCachedSizes(k, m) \in Seq(Byte)
         /\ Len(SerializeWithCachedSizes(k, m)) = ByteSizeLong(k, m)
<1> DEFINE n == Len(k.write)
           S(i) == LET w == k.write[i]
                   IN  IF w.type = "records" THEN WriteRecords(k, m, w)
                                             ELSE WriteField(m, w)
           s == [i \in DOMAIN k.write |-> S(i)]
           size == Sum(Taken(k, m), Present(k, m, DOMAIN k.has))
           rs == IF Lists(k) THEN ListSize(k, m) ELSE 0
<1>1. /\ HasTables(k) /\ HoldsValues(k, m)
      /\ n \in Nat /\ DOMAIN k.write = 1 .. n
  BY DEF Writable, HasTables, WritesFields
<1>2. ASSUME NEW i \in DOMAIN k.write
      PROVE  /\ S(i) \in Seq(Byte)
             /\ IF k.write[i].type = "records" THEN Len(S(i)) = rs
                   ELSE S(i) = WriteField(m, k.write[i])
  <2>1. CASE k.write[i].type = "records"
    <3> DEFINE w == k.write[i]
    <3>1. Lists(k)
      BY <2>1 DEF Lists
    <3>2. w.number \in 1 .. 15
      BY <1>1 DEF HasTables, WritesFields
    <3>3. HoldsRecords(k, m)
      BY <3>1 DEF Writable
    <3> HIDE DEF w
    <3>4. /\ WriteRecords(k, m, w) \in Seq(Byte)
          /\ Len(WriteRecords(k, m, w)) = ListSize(k, m)
      BY <3>2, <3>3, ListLength
    <3>5. S(i) = WriteRecords(k, m, w)
      BY <2>1 DEF w
    <3> HIDE DEF S
    <3> QED
      BY <2>1, <3>1, <3>4, <3>5
  <2>2. CASE k.write[i].type # "records"
    <3>1. S(i) = WriteField(m, k.write[i])
      BY <2>2
    <3>2. WriteField(m, k.write[i]) \in Seq(Byte)
      BY <1>1, <2>2, FieldLength
    <3> HIDE DEF S
    <3> QED
      BY <2>2, <3>1, <3>2
  <2> QED
    BY <2>1, <2>2
<1>3. \A i \in DOMAIN k.write : s[i] = S(i)
  OBVIOUS
<1>4. SerializeWithCachedSizes(k, m) = FlattenSeq(s) \o m.unknown
  BY DEF SerializeWithCachedSizes
<1> HIDE DEF S
<1>5. s \in Seq(Seq(Byte)) /\ Len(s) = n
  <2>1. s \in [1 .. n -> Seq(Byte)]
    BY <1>1, <1>2
  <2> HIDE DEF s, n
  <2> QED
    BY <1>1, <2>1, FunctionIsSeq
<1>6. rs \in Int
  <2>1. CASE Lists(k)
    <3>1. PICK i \in DOMAIN k.write : k.write[i].type = "records"
      BY <2>1 DEF Lists
    <3> HIDE DEF s
    <3>2. rs = Len(S(i)) /\ S(i) \in Seq(Byte)
      BY <1>2, <3>1
    <3> QED
      BY <3>2
  <2> QED
    BY <2>1
<1>7. /\ OwnSize(k, m) = Len(m.unknown) + size
      /\ OwnSize(k, m) \in Int /\ size \in Int
  BY <1>1, OwnSizeIsSum
<1>8. ByteSizeLong(k, m) = OwnSize(k, m) + rs
  BY DEF ByteSizeLong, Writable, ListSize, RecordTaken
<1> HIDE DEF s
<1>9. Len(FlattenSeq(s)) = size + IF Lists(k) THEN rs ELSE 0
  <2>1. \A i \in DOMAIN k.write :
          IF k.write[i].type = "records" THEN Len(s[i]) = rs
                                         ELSE s[i] = WriteField(m, k.write[i])
    BY <1>2, <1>3
  <2> HIDE DEF rs
  <2> QED
    BY <1>1, <1>5, <1>6, <2>1, WrittenLength
<1>10. FlattenSeq(s) \in Seq(Byte) /\ m.unknown \in Seq(Byte)
  BY <1>1, <1>5, FlattenType DEF HoldsValues
<1>11. /\ FlattenSeq(s) \o m.unknown \in Seq(Byte)
       /\ Len(FlattenSeq(s) \o m.unknown) = Len(FlattenSeq(s)) + Len(m.unknown)
  BY <1>10, ConcatProperties
<1>12. Len(m.unknown) \in Nat
  BY <1>10
<1> HIDE DEF size
<1>13. Len(FlattenSeq(s)) = size + rs
  <2>1. ~Lists(k) => rs = 0
    OBVIOUS
  <2> HIDE DEF rs
  <2> QED
    BY <1>6, <1>7, <1>9, <2>1
<1> HIDE DEF rs
<1>14. Len(FlattenSeq(s) \o m.unknown) = ByteSizeLong(k, m)
  <2> DEFINE u == Len(m.unknown)
  <2>1. ByteSizeLong(k, m) = (u + size) + rs
    BY <1>7, <1>8
  <2>2. Len(FlattenSeq(s) \o m.unknown) = (size + rs) + u
    BY <1>11, <1>13
  <2>3. u \in Int
    BY <1>12
  <2> HIDE DEF u
  <2> QED
    BY <1>6, <1>7, <2>1, <2>2, <2>3
<1> QED
  BY <1>4, <1>11, <1>14

-----------------------------------------------------------------------------
(***************************************************************************)
(* A number and its groups of seven bits.                                  *)
(***************************************************************************)

\* A number and its lowest group of seven bits.
LEMMA LowGroup ==
  ASSUME NEW v \in Int
  PROVE  /\ v = 128 * (v \div 128) + (v % 128)
         /\ v \div 128 \in Int /\ v % 128 \in 0 .. 127
BY SMT

\* Each division by 128 takes off a group of seven bits.
LEMMA GroupsOfSeven ==
  ASSUME NEW v \in Int
  PROVE  /\ v \div 16384 = (v \div 128) \div 128
         /\ v \div 2097152 = (v \div 16384) \div 128
         /\ v \div 268435456 = (v \div 2097152) \div 128
<1>1. v \div 16384 = (v \div 128) \div 128
  BY SMT
<1>2. v \div 2097152 = (v \div 16384) \div 128
  BY SMT
<1>3. v \div 268435456 = (v \div 2097152) \div 128
  BY SMT
<1> QED
  BY <1>1, <1>2, <1>3, SMT

\* The lower four groups of a number.
LowGroups(v) ==
  (v % 128) + ((v \div 128) % 128) * 128 + ((v \div 16384) % 128) * 16384
    + ((v \div 2097152) % 128) * 2097152

\* A number is made of its lower four groups and the rest.
LEMMA MadeOfGroups ==
  ASSUME NEW v \in Int
  PROVE  v = LowGroups(v) + (v \div 268435456) * 268435456
<1> DEFINE a == v \div 128
           b == v \div 16384
           c == v \div 2097152
           d == v \div 268435456
<1>1. /\ v = 128 * a + (v % 128) /\ v % 128 \in Int /\ a \in Int
  BY LowGroup, SMT
<1>2. b = a \div 128 /\ c = b \div 128 /\ d = c \div 128
  BY GroupsOfSeven, SMT
<1> HIDE DEF a, b, c, d
<1>3. a = 128 * b + (a % 128) /\ b \in Int /\ a % 128 \in Int
  BY <1>1, <1>2, LowGroup, SMT
<1>4. b = 128 * c + (b % 128) /\ c \in Int /\ b % 128 \in Int
  BY <1>2, <1>3, LowGroup, SMT
<1>5. c = 128 * d + (c % 128) /\ d \in Int /\ c % 128 \in Int
  BY <1>2, <1>4, LowGroup, SMT
<1> DEFINE e == v % 128
           f == a % 128
           g == b % 128
           h == c % 128
<1>6. e \in Int /\ f \in Int /\ g \in Int /\ h \in Int
  BY <1>1, <1>3, <1>4, <1>5
<1>7. v = 128 * a + e /\ a = 128 * b + f /\ b = 128 * c + g /\ c = 128 * d + h
  BY <1>1, <1>3, <1>4, <1>5
<1> HIDE DEF e, f, g, h
<1>8. v = (e + f * 128 + g * 16384 + h * 2097152) + d * 268435456
  BY <1>1, <1>3, <1>4, <1>5, <1>6, <1>7, SMT
<1> QED
  BY <1>8, SMT DEF LowGroups, a, b, c, d, e, f, g, h

\* The rest is four bits with a sign.
LEMMA HighGroup ==
  ASSUME NEW v \in Int, -2147483647 - 1 <= v, v <= 2147483647
  PROVE  LET d == v \div 268435456
         IN  /\ d \in -8 .. 7
             /\ (((d % 128) + 8) % 16) - 8 = d
             /\ (((d % 128) + 128 + 8) % 16) - 8 = d
<1> DEFINE d == v \div 268435456
<1>1. d \in -8 .. 7
  BY SMT
<1> HIDE DEF d
<1>2. /\ (((d % 128) + 8) % 16) - 8 = d
      /\ (((d % 128) + 128 + 8) % 16) - 8 = d
  BY <1>1, SMT
<1> QED
  BY <1>1, <1>2, SMT DEF d

-----------------------------------------------------------------------------
(***************************************************************************)
(* Reading a varint.                                                       *)
(***************************************************************************)

\* The bytes s are those of b behind its first p.
Holds(b, p, s) == \A i \in 1 .. Len(s) : b[p + i] = s[i]

\* The sum of up to four numbers.
LEMMA SumOfFour ==
  ASSUME NEW g, \A i \in 1 .. 4 : g[i] \in Int
  PROVE  /\ Sum(g, 1 .. 2) = g[1] + g[2]
         /\ Sum(g, 1 .. 3) = g[1] + g[2] + g[3]
         /\ Sum(g, 1 .. 4) = g[1] + g[2] + g[3] + g[4]
<1>1. ASSUME NEW i \in 1 .. 4
      PROVE  Sum(g, 1 .. i) = g[i] + Sum(g, 1 .. i - 1)
  <2> DEFINE S == 1 .. i - 1
  <2>1. i \notin S /\ 1 .. i = S \cup {i} /\ S \cup {i} \subseteq 1 .. 4
    OBVIOUS
  <2>2. IsFiniteSet(S)
    BY FS_Interval
  <2>3. \A y \in S \cup {i} : g[y] \in Int
    BY <2>1
  <2> HIDE DEF S
  <2>4. Sum(g, S \cup {i}) = g[i] + Sum(g, S)
    BY <2>1, <2>2, <2>3, SumAdd
  <2> QED
    BY <2>1, <2>4 DEF S
<1>2. Sum(g, 1 .. 0) = 0
  <2>1. 1 .. 0 = {}
    OBVIOUS
  <2> QED
    BY <2>1, SumEmpty
<1>3. Sum(g, 1 .. 1) = g[1]
  <2>1. Sum(g, 1 .. 1) = g[1] + Sum(g, 1 .. 1 - 1)
    BY <1>1
  <2>2. 1 - 1 = 0 /\ g[1] \in Int
    OBVIOUS
  <2> QED
    BY <1>2, <2>1, <2>2
<1>4. Sum(g, 1 .. 2) = g[1] + g[2]
  <2>1. Sum(g, 1 .. 2) = g[2] + Sum(g, 1 .. 2 - 1)
    BY <1>1
  <2>2. 2 - 1 = 1 /\ g[1] \in Int /\ g[2] \in Int
    OBVIOUS
  <2> QED
    BY <1>3, <2>1, <2>2
<1>5. Sum(g, 1 .. 3) = g[1] + g[2] + g[3]
  <2>1. Sum(g, 1 .. 3) = g[3] + Sum(g, 1 .. 3 - 1)
    BY <1>1
  <2>2. 3 - 1 = 2 /\ g[1] \in Int /\ g[2] \in Int /\ g[3] \in Int
    OBVIOUS
  <2> QED
    BY <1>4, <2>1, <2>2
<1>6. Sum(g, 1 .. 4) = g[1] + g[2] + g[3] + g[4]
  <2>1. Sum(g, 1 .. 4) = g[4] + Sum(g, 1 .. 4 - 1)
    BY <1>1
  <2>2. 4 - 1 = 3 /\ g[1] \in Int /\ g[2] \in Int /\ g[3] \in Int /\ g[4] \in Int
    OBVIOUS
  <2> QED
    BY <1>5, <2>1, <2>2
<1> QED
  BY <1>4, <1>5, <1>6

\* The bytes of a varint: only the last is less than 128.
LEMMA VarintBytes ==
  ASSUME NEW b, NEW p \in Nat, NEW v \in Int, Holds(b, p, Varint(v)),
         NEW i \in 1 .. VarintLength(v)
  PROVE  /\ b[p + i] = IF i < VarintLength(v) THEN Group(v, i - 1) + 128
                                             ELSE Group(v, i - 1)
         /\ Group(v, i - 1) \in 0 .. 127
         /\ b[p + i] < 128 <=> i = VarintLength(v)
<1> DEFINE n == VarintLength(v)
<1>1. n \in 1 .. 10 /\ Len(Varint(v)) = n
  BY VarintSizeIsLength, VarintType
<1>2. Varint(v)[i] = Group(v, i - 1) + IF i < n THEN 128 ELSE 0
  BY DEF Varint
<1>3. Group(v, i - 1) \in 0 .. 127
  BY <1>1, i - 1 \in Nat, GroupType
<1>4. b[p + i] = Varint(v)[i]
  BY <1>1 DEF Holds
<1> HIDE DEF n
<1>5. i \in 1 .. n
  BY DEF n
<1> DEFINE G == Group(v, i - 1)
<1> HIDE DEF G
<1>6. CASE i < n
  <2>1. b[p + i] = G + 128 /\ G \in 0 .. 127
    BY <1>2, <1>3, <1>4, <1>6 DEF G
  <2> QED
    BY <1>5, <1>6, <2>1 DEF n, G
<1>7. CASE i = n
  <2>1. b[p + i] = G + 0 /\ G \in 0 .. 127
    BY <1>2, <1>3, <1>4, <1>5, <1>7 DEF G
  <2>2. b[p + i] = G
    BY <2>1
  <2> QED
    BY <1>5, <1>7, <2>1, <2>2 DEF n, G
<1> QED
  BY <1>1, <1>5, <1>6, <1>7

\* What stands where a varint stands is numbers.
LEMMA VarintBytesType ==
  ASSUME NEW b, NEW p \in Nat, NEW v \in Int, Holds(b, p, Varint(v)),
         NEW i \in 1 .. VarintLength(v)
  PROVE  b[p + i] \in Int
<1> DEFINE n == VarintLength(v)  s == Varint(v)
<1>1. s \in Seq(Byte) /\ Len(s) = n
  BY VarintSizeIsLength, VarintType
<1>2. i \in 1 .. n
  OBVIOUS
<1> HIDE DEF s, n
<1>3. s[i] \in Byte
  BY <1>1, <1>2
<1>4. b[p + i] = s[i]
  BY <1>1, <1>2 DEF Holds, s
<1> QED
  BY <1>3, <1>4 DEF Byte

\* ReadVarint finds the end of a varint, unless the limit comes first.
LEMMA VarintIsRead ==
  ASSUME NEW b, NEW p \in Nat, NEW e \in Int, NEW v \in Int,
         Holds(b, p, Varint(v))
  PROVE  ReadVarint(b, p, e) = IF p + VarintLength(v) <= e
                                 THEN {VarintLength(v)} ELSE {}
<1> DEFINE n == VarintLength(v)
<1> SUFFICES ReadVarint(b, p, e) = IF p + n <= e THEN {n} ELSE {}
  OBVIOUS
<1>1. n \in 1 .. 10
  BY VarintSizeIsLength
<1>2. \A i \in 1 .. n : b[p + i] < 128 <=> i = n
  BY VarintBytes
<1>3. \A i \in 1 .. n : i < n => b[p + i] >= 128
  <2> SUFFICES ASSUME NEW i \in 1 .. n, i < n PROVE b[p + i] >= 128
    OBVIOUS
  <2> DEFINE G == Group(v, i - 1)
  <2>1. b[p + i] = IF i < n THEN G + 128 ELSE G
    BY VarintBytes
  <2>2. G \in 0 .. 127
    BY VarintBytes
  <2> HIDE DEF G, n
  <2> QED
    BY <2>1, <2>2
<1> HIDE DEF n
<1>4. b[p + 1] < 128 <=> n = 1
  BY <1>1, <1>2
<1>5. CASE n = 1
  <2>1. CASE p + 1 <= e
    BY <1>4, <1>5, <2>1 DEF ReadVarint
  <2>2. CASE ~(p + 1 <= e)
    <3>1. ReadVarint(b, p, e) = {}
      BY <2>2 DEF ReadVarint
    <3> QED
      BY <1>5, <2>2, <3>1
  <2> QED
    BY <2>1, <2>2
<1>6. CASE n # 1
  <2> DEFINE S == {m \in 2 .. 10 : /\ p + m <= e
                                   /\ b[p + m] < 128
                                   /\ \A i \in 1 .. m - 1 : b[p + i] >= 128}
  <2>1. ReadVarint(b, p, e) = S
    BY <1>4, <1>6 DEF ReadVarint
  <2>2. ASSUME NEW m \in S PROVE m = n
    <3>1. ~(m < n)
      BY <1>1, <1>2
    <3>2. ~(n < m)
      <4>1. ASSUME n < m PROVE FALSE
        <5>1. n \in 1 .. m - 1
          BY <1>1, <4>1
        <5>2. b[p + n] >= 128 /\ b[p + n] < 128
          BY <1>1, <1>2, <5>1
        <5>3. b[p + n] \in Int
          <6>1. n \in 1 .. VarintLength(v)
            BY <1>1 DEF n
          <6> QED
            BY ONLY <6>1, p \in Nat, v \in Int, Holds(b, p, Varint(v)),
                    VarintBytesType
        <5> QED
          BY <5>2, <5>3
      <4> QED
        BY <4>1
    <3> QED
      BY <1>1, <3>1, <3>2
  <2>3. p + n <= e => n \in S
    BY <1>1, <1>2, <1>3, <1>6
  <2>4. S = IF p + n <= e THEN {n} ELSE {}
    BY <2>2, <2>3
  <2> QED
    BY <2>1, <2>4
<1> QED
  BY <1>5, <1>6

\* The smaller of two numbers is one of them.
LEMMA MinOfTwo ==
  ASSUME NEW x \in Int, NEW y \in Int
  PROVE  Min({x, y}) = IF x <= y THEN x ELSE y
BY DEF Min

\* The first four groups of a varint of more than one byte, and the rest.
LEMMA GroupsRead ==
  ASSUME NEW b, NEW p \in Nat, NEW n \in 2 .. 10,
         NEW d, \A i \in 1 .. 4 : d[i] \in Int,
         \A i \in 1 .. n : i <= 4 => b[p + i] % 128 = d[i]
  PROVE  VarintValue(b, p, n) =
           (CASE n = 2 -> d[1] + d[2] * 128
              [] n = 3 -> d[1] + d[2] * 128 + d[3] * 16384
              [] n >= 4 -> d[1] + d[2] * 128 + d[3] * 16384 + d[4] * 2097152)
             + (IF n < 5 THEN 0 ELSE ((b[p + 5] + 8) % 16) - 8) * 268435456
<1> DEFINE k == Min({n, 4})
           g == [i \in 1 .. k |-> (b[p + i] % 128) * 128^(i - 1)]
           h == [i \in 1 .. 4 |-> d[i] * Pow128[i - 1]]
           High == IF n < 5 THEN 0 ELSE ((b[p + 5] + 8) % 16) - 8
<1>1. k = IF n <= 4 THEN n ELSE 4
  BY MinOfTwo
<1>2. \A i \in 1 .. k : g[i] = h[i]
  <2>1. \A i \in 1 .. k : i \in 1 .. 4 /\ i \in 1 .. n /\ i <= 4
    <3> HIDE DEF k
    <3> QED
      BY <1>1
  <2>2. \A i \in 1 .. 4 : Pow128[i - 1] = 128^(i - 1)
    <3>1. \A i \in 1 .. 4 : i - 1 \in 0 .. 4
      OBVIOUS
    <3> QED
      BY <3>1, Zenon DEF Pow128
  <2>3. \A i \in 1 .. k : b[p + i] % 128 = d[i]
    BY <2>1
  <2> HIDE DEF k
  <2> QED
    BY <2>1, <2>2, <2>3, Zenon
<1>3. Sum(g, 1 .. k) = Sum(h, 1 .. k)
  <2>1. IsFiniteSet(1 .. k)
    <3>1. k \in Int
      <4> HIDE DEF k
      <4> QED
        BY <1>1
    <3> HIDE DEF k
    <3> QED
      BY <3>1, FS_Interval
  <2> HIDE DEF g, h, k
  <2> QED
    BY <1>2, <2>1, SumSame
<1>4. VarintValue(b, p, n) = Sum(g, 1 .. k) + High * 2^28
  <2>1. ~(n = 1)
    OBVIOUS
  <2>2. SumFunction(g) = Sum(g, 1 .. k)
    BY SumDef
  <2> QED
    BY <2>1, <2>2, Zenon DEF VarintValue
<1>5. /\ h[1] = d[1] /\ h[2] = d[2] * 128 /\ h[3] = d[3] * 16384
      /\ h[4] = d[4] * 2097152
  <2>1. /\ h[1] = d[1] * Pow128[0] /\ h[2] = d[2] * Pow128[1]
        /\ h[3] = d[3] * Pow128[2] /\ h[4] = d[4] * Pow128[3]
    OBVIOUS
  <2> HIDE DEF h
  <2> QED
    BY <2>1, Pow128Values, SMT
<1>6. \A i \in 1 .. 4 : h[i] \in Int
  <2> HIDE DEF h
  <2> QED
    BY <1>5, SMT
<1>7. /\ Sum(h, 1 .. 2) = h[1] + h[2]
      /\ Sum(h, 1 .. 3) = h[1] + h[2] + h[3]
      /\ Sum(h, 1 .. 4) = h[1] + h[2] + h[3] + h[4]
  <2> HIDE DEF h
  <2> QED
    BY <1>6, SumOfFour
<1>8. 2^28 = 268435456
  BY SMT
<1> HIDE DEF g, h, k, High
<1>9. VarintValue(b, p, n) = Sum(h, 1 .. k) + High * 268435456
  BY <1>3, <1>4, <1>8, SMT
<1>10. Sum(h, 1 .. k) =
         CASE n = 2 -> d[1] + d[2] * 128
           [] n = 3 -> d[1] + d[2] * 128 + d[3] * 16384
           [] n >= 4 -> d[1] + d[2] * 128 + d[3] * 16384 + d[4] * 2097152
  <2>1. CASE n = 2
    BY <1>1, <1>5, <1>7, <2>1, SMT
  <2>2. CASE n = 3
    BY <1>1, <1>5, <1>7, <2>2, SMT
  <2>3. CASE n >= 4
    <3>1. k = 4
      BY <1>1, <2>3
    <3> QED
      BY <1>5, <1>7, <2>3, <3>1, SMT
  <2> QED
    BY <2>1, <2>2, <2>3, SMT
<1> QED
  BY <1>9, <1>10, SMT DEF High

\* Group by its power, as the arithmetic of MadeOfGroups has it.
LEMMA GroupValues ==
  ASSUME NEW v \in Int
  PROVE  /\ Group(v, 0) = v % 128
         /\ Group(v, 1) = (v \div 128) % 128
         /\ Group(v, 2) = (v \div 16384) % 128
         /\ Group(v, 3) = (v \div 2097152) % 128
         /\ Group(v, 4) = (v \div 268435456) % 128
<1>1. \A i \in 0 .. 4 : Group(v, i) = (v \div Pow128[i]) % 128
  <2>1. \A i \in 0 .. 4 : Pow128[i] = 128^i
    BY Zenon DEF Pow128
  <2>2. \A i \in 0 .. 4 : i <= 4
    OBVIOUS
  <2> QED
    BY <2>1, <2>2, Zenon DEF Group
<1>2. v \div 1 = v
  BY SMT
<1>3. /\ Group(v, 0) = (v \div Pow128[0]) % 128
      /\ Group(v, 1) = (v \div Pow128[1]) % 128
      /\ Group(v, 2) = (v \div Pow128[2]) % 128
      /\ Group(v, 3) = (v \div Pow128[3]) % 128
      /\ Group(v, 4) = (v \div Pow128[4]) % 128
  BY <1>1, SMT
<1> QED
  BY <1>2, <1>3, Pow128Values, SMT

\* What an int32, or a length, may be.
Int32 == {v \in Int : -2147483647 <= v + 1 /\ v <= 2147483647}

\* The bounds of a number of 32 bits.
LEMMA Int32Type ==
  ASSUME NEW v \in Int32
  PROVE  v \in Int
BY SMT DEF Int32

\* What CodedInputStream reads of a varint is the number of 32 bits that
\* WriteVarint32SignExtended or WriteVarint32 wrote, negative or not.
THEOREM VarintIsValue ==
  ASSUME NEW b, NEW p \in Nat, NEW v \in Int32, Holds(b, p, Varint(v))
  PROVE  VarintValue(b, p, VarintLength(v)) = v
<1> DEFINE n == VarintLength(v)
           d == [i \in 1 .. 5 |-> Group(v, i - 1)]
           Low2 == d[1] + d[2] * 128
           Low3 == d[1] + d[2] * 128 + d[3] * 16384
           Low4 == d[1] + d[2] * 128 + d[3] * 16384 + d[4] * 2097152
           Rest == v \div 268435456
           Low == CASE n = 2 -> Low2 [] n = 3 -> Low3 [] n >= 4 -> Low4
           High == IF n < 5 THEN 0 ELSE ((b[p + 5] + 8) % 16) - 8
<1> SUFFICES VarintValue(b, p, n) = v
  OBVIOUS
<1>1. v \in Int
  BY Int32Type
<1>2. n \in 1 .. 10
  BY <1>1, VarintSizeIsLength
<1>3. \A i \in 1 .. n : i <= 5 =>
        b[p + i] = IF i < n THEN d[i] + 128 ELSE d[i]
  <2>1. \A i \in 1 .. n : b[p + i] = IF i < n THEN Group(v, i - 1) + 128
                                              ELSE Group(v, i - 1)
    BY <1>1, VarintBytes
  <2> HIDE DEF n
  <2>2. \A i \in 1 .. n : i <= 5 => i \in 1 .. 5
    BY <1>2
  <2> QED
    BY <2>1, <2>2
<1>4. /\ d[1] = Group(v, 0) /\ d[2] = Group(v, 1) /\ d[3] = Group(v, 2)
      /\ d[4] = Group(v, 3) /\ d[5] = Group(v, 4)
  OBVIOUS
<1> HIDE DEF n, d, Low2, Low3, Low4, Rest, Low, High
<1>5. /\ d[1] \in 0 .. 127 /\ d[2] \in 0 .. 127 /\ d[3] \in 0 .. 127
      /\ d[4] \in 0 .. 127 /\ d[5] \in 0 .. 127
  <2>1. /\ Group(v, 0) \in 0 .. 127 /\ Group(v, 1) \in 0 .. 127
        /\ Group(v, 2) \in 0 .. 127 /\ Group(v, 3) \in 0 .. 127
        /\ Group(v, 4) \in 0 .. 127
    <3>1. 0 \in Nat /\ 1 \in Nat /\ 2 \in Nat /\ 3 \in Nat /\ 4 \in Nat
      OBVIOUS
    <3> QED
      BY ONLY <1>1, <3>1, GroupType, Zenon
  <2> QED
    BY ONLY <1>4, <2>1, Zenon
<1>6. /\ d[1] = v % 128
      /\ d[2] = (v \div 128) % 128
      /\ d[3] = (v \div 16384) % 128
      /\ d[4] = (v \div 2097152) % 128
      /\ d[5] = Rest % 128
  BY <1>1, <1>4, GroupValues, SMT DEF Rest
<1>7. /\ v = Low4 + Rest * 268435456
      /\ Low2 \in Int /\ Low3 \in Int /\ Low4 \in Int
      /\ Low2 >= 0 /\ Low3 >= Low2 /\ Low4 >= Low3 /\ Low4 < 268435456
      /\ Low3 >= Low2 + d[3] * 16384 /\ Low4 >= Low3 + d[4] * 2097152
      /\ d[3] = 0 => Low3 = Low2
      /\ d[4] = 0 => Low4 = Low3
  <2>1. v = LowGroups(v) + Rest * 268435456
    BY <1>1, MadeOfGroups, SMT DEF Rest
  <2>2. LowGroups(v) = Low4
    BY <1>6, SMT DEF LowGroups, Low4
  <2>3. v = Low4 + Rest * 268435456
    BY <2>1, <2>2, SMT
  <2> DEFINE d1 == d[1]  d2 == d[2]  d3 == d[3]  d4 == d[4]
  <2>4. d1 \in 0 .. 127 /\ d2 \in 0 .. 127 /\ d3 \in 0 .. 127 /\ d4 \in 0 .. 127
    BY <1>5
  <2>5. /\ Low2 = d1 + d2 * 128 /\ Low3 = d1 + d2 * 128 + d3 * 16384
        /\ Low4 = d1 + d2 * 128 + d3 * 16384 + d4 * 2097152
    BY SMT DEF Low2, Low3, Low4
  <2> HIDE DEF d1, d2, d3, d4
  <2>6. /\ Low2 \in Int /\ Low3 \in Int /\ Low4 \in Int
        /\ Low2 >= 0 /\ Low3 >= Low2 /\ Low4 >= Low3 /\ Low4 < 268435456
    BY <2>4, <2>5, SMT
  <2>7. /\ Low3 >= Low2 + d3 * 16384 /\ Low4 >= Low3 + d4 * 2097152
        /\ d3 = 0 => Low3 = Low2
        /\ d4 = 0 => Low4 = Low3
    BY <2>4, <2>5, SMT
  <2> QED
    BY <2>3, <2>6, <2>7, SMT DEF d3, d4
<1>8. /\ Rest \in -8 .. 7
      /\ (((Rest % 128) + 8) % 16) - 8 = Rest
      /\ (((Rest % 128) + 128 + 8) % 16) - 8 = Rest
  BY <1>1, HighGroup, SMT DEF Rest, Int32
<1>9. n < 5 => v \in Nat /\ Rest = 0
  <2>1. v < 0 => n = 10
    BY DEF n, VarintLength
  <2>2. v >= 268435456 => n = 5
    BY <1>1, GroupsOf, SMT DEF n
  <2>3. v >= 0 /\ v < 268435456 => Rest = 0
    BY <1>1, <1>7, <1>8, SMT
  <2> QED
    BY <1>1, <1>2, <2>1, <2>2, <2>3, SMT
<1>10. CASE n = 1
  <2>1. VarintValue(b, p, n) = b[p + 1]
    BY <1>10 DEF VarintValue
  <2>2. b[p + 1] = d[1]
    BY <1>3, <1>10
  <2>3. v < 128
    BY <1>9, <1>10, GroupsOf, SMT DEF n
  <2>4. v % 128 = v
    BY <1>9, <1>10, <2>3, SMT
  <2> QED
    BY <1>6, <2>1, <2>2, <2>4, SMT
<1>11. CASE n # 1
  <2>1. n \in 2 .. 10
    BY <1>2, <1>11
  <2>2. \A i \in 1 .. 4 : d[i] \in Int
    <3>1. d[1] \in Int /\ d[2] \in Int /\ d[3] \in Int /\ d[4] \in Int
      BY <1>5
    <3> QED
      BY <3>1
  <2>3. \A i \in 1 .. n : i <= 4 => b[p + i] % 128 = d[i]
    <3> SUFFICES ASSUME NEW i \in 1 .. n, i <= 4 PROVE b[p + i] % 128 = d[i]
      OBVIOUS
    <3>1. b[p + i] = (IF i < n THEN d[i] + 128 ELSE d[i])
      BY <1>2, <1>3
    <3>2. d[i] \in 0 .. 127
      <4>1. i \in 1 .. 4
        BY <1>2
      <4> QED
        BY <1>5, <4>1
    <3>3. d[i] % 128 = d[i] /\ (d[i] + 128) % 128 = d[i]
      BY <3>2, SMT
    <3> QED
      BY <3>1, <3>3
  <2>4. VarintValue(b, p, n) = Low + High * 268435456
    BY <2>1, <2>2, <2>3, GroupsRead, SMT DEF Low, Low2, Low3, Low4, High
  <2>5. n >= 5 => High = Rest
    <3>1. ASSUME n >= 5
          PROVE  b[p + 5] = IF 5 < n THEN d[5] + 128 ELSE d[5]
      <4>1. 5 \in 1 .. n
        BY <1>2, <3>1
      <4> QED
        BY <1>3, <4>1
    <3>2. ASSUME n >= 5, 5 < n
          PROVE  High = Rest
      <4>1. b[p + 5] = (Rest % 128) + 128
        BY <1>6, <3>1, <3>2, SMT
      <4>2. High = ((b[p + 5] + 8) % 16) - 8
        BY <1>2, <3>2 DEF High
      <4> QED
        BY <1>8, <4>1, <4>2
    <3>3. ASSUME n >= 5, ~(5 < n)
          PROVE  High = Rest
      <4>1. b[p + 5] = Rest % 128
        BY <1>6, <3>1, <3>3, SMT
      <4>2. High = ((b[p + 5] + 8) % 16) - 8
        BY <1>2, <3>3 DEF High
      <4> QED
        BY <1>8, <4>1, <4>2
    <3> QED
      BY <3>2, <3>3
  <2>6. n < 5 => High = Rest
    BY <1>2, <1>9 DEF High
  <2>7. Low = Low4
    <3>1. CASE n = 2
      <4>1. v < 16384
        BY <1>9, <3>1, GroupsOf, SMT DEF n
      <4>2. d[3] = 0 /\ d[4] = 0
        BY <1>5, <1>7, <1>9, <3>1, <4>1, SMT
      <4> QED
        BY <1>7, <3>1, <4>2, SMT DEF Low
    <3>2. CASE n = 3
      <4>1. v < 2097152
        BY <1>9, <3>2, GroupsOf, SMT DEF n
      <4>2. d[4] = 0
        BY <1>5, <1>7, <1>9, <3>2, <4>1, SMT
      <4> QED
        BY <1>7, <3>2, <4>2, SMT DEF Low
    <3>3. CASE n >= 4
      BY <2>1, <3>3 DEF Low
    <3> QED
      BY <2>1, <3>1, <3>2, <3>3
  <2> QED
    BY <1>2, <1>7, <2>4, <2>5, <2>6, <2>7, SMT
<1> QED
  BY <1>10, <1>11

-----------------------------------------------------------------------------
(***************************************************************************)
(* Reading a field.                                                        *)
(***************************************************************************)

\* What holds one sequence after another holds both.
LEMMA HoldsBoth ==
  ASSUME NEW b, NEW p \in Nat, NEW s \in Seq(Byte), NEW t \in Seq(Byte),
         Holds(b, p, s \o t)
  PROVE  Holds(b, p, s) /\ Holds(b, p + Len(s), t)
<1>1. /\ Len(s) \in Nat /\ Len(t) \in Nat
      /\ Len(s \o t) = Len(s) + Len(t)
      /\ \A i \in 1 .. Len(s) + Len(t) :
           (s \o t)[i] = IF i <= Len(s) THEN s[i] ELSE t[i - Len(s)]
  BY ConcatProperties
<1>2. ASSUME NEW i \in 1 .. Len(s) PROVE b[p + i] = s[i]
  BY <1>1 DEF Holds
<1>3. ASSUME NEW i \in 1 .. Len(t) PROVE b[(p + Len(s)) + i] = t[i]
  <2> DEFINE n == Len(s)
             j == n + i
  <2>1. /\ j \in 1 .. n + Len(t) /\ ~(j <= n) /\ j - n = i
        /\ (p + n) + i = p + j
    BY <1>1
  <2>2. b[p + j] = (s \o t)[j] /\ (s \o t)[j] = t[j - n]
    BY <1>1, <2>1 DEF Holds
  <2> HIDE DEF j, n
  <2>3. b[(p + n) + i] = t[i]
    BY <2>1, <2>2
  <2> QED
    BY <2>3 DEF n
<1> QED
  BY <1>2, <1>3 DEF Holds

\* The bytes of a sequence where it is held.
LEMMA HeldIsSubSeq ==
  ASSUME NEW b \in Seq(Byte), NEW p \in Nat, NEW s \in Seq(Byte),
         Holds(b, p, s), p + Len(s) <= Len(b)
  PROVE  SubSeq(b, p + 1, p + Len(s)) = s
<1> DEFINE n == Len(s)
           q == p + n
           u == SubSeq(b, p + 1, q)
<1>1. n \in Nat /\ q \in Nat /\ p <= q /\ Len(b) \in Nat /\ q <= Len(b)
  OBVIOUS
<1>2. \A i \in p + 1 .. q : b[i] \in Byte
  BY <1>1, ElementOfSeq
<1>3. p + 1 \in Int /\ q \in Int
  BY <1>1
<1>4. /\ u \in Seq(Byte)
      /\ Len(u) = IF p + 1 <= q THEN q - (p + 1) + 1 ELSE 0
      /\ \A i \in 1 .. q - (p + 1) + 1 : u[i] = b[(p + 1) + i - 1]
  BY <1>2, <1>3, SubSeqProperties
<1>5. q - (p + 1) + 1 = n
  BY <1>1
<1>6. Len(u) = n
  <2> HIDE DEF u
  <2> QED
    BY <1>1, <1>4, <1>5
<1>7. \A i \in 1 .. n : u[i] = s[i]
  <2> SUFFICES ASSUME NEW i \in 1 .. n PROVE u[i] = s[i]
    OBVIOUS
  <2>1. (p + 1) + i - 1 = p + i
    BY <1>1
  <2>2. u[i] = b[(p + 1) + i - 1]
    BY <1>4, <1>5
  <2>3. b[p + i] = s[i]
    BY DEF Holds
  <2> QED
    BY <2>1, <2>2, <2>3
<1>8. u \in Seq(Byte) /\ Len(u) = Len(s) /\ \A i \in 1 .. Len(u) : u[i] = s[i]
  BY <1>4, <1>6, <1>7
<1> HIDE DEF u
<1>9. u = s
  BY <1>8, SeqEqual
<1> QED
  BY <1>9 DEF u

\* Reading as many bytes as a sequence has yields the sequence.
LEMMA BytesAreRead ==
  ASSUME NEW b \in Seq(Byte), NEW p \in Nat, NEW e \in 0 .. Len(b),
         NEW s \in Seq(Byte), Holds(b, p, s)
  PROVE  ReadBytes(b, p, Len(s), e) =
           IF p + Len(s) <= e THEN {[value |-> s, next |-> p + Len(s)]} ELSE {}
<1> DEFINE q == p + Len(s)
<1>1. q \in Nat /\ p <= q /\ Len(b) \in Nat
  OBVIOUS
<1>2. CASE q <= e
  <2>1. SubSeq(b, p + 1, q) = s
    <3>1. q <= Len(b)
      BY <1>1, <1>2
    <3> QED
      BY <3>1, HeldIsSubSeq
  <2>2. {q} \cap p .. e = {q}
    BY <1>1, <1>2
  <2> QED
    BY <1>2, <2>1, <2>2 DEF ReadBytes
<1>3. CASE ~(q <= e)
  <2>1. {q} \cap p .. e = {}
    BY <1>1, <1>3
  <2> QED
    BY <1>3, <2>1 DEF ReadBytes
<1> QED
  BY <1>2, <1>3

\* What a field of a type may hold so that VarintValue can tell it.
Readable(type) ==
  CASE type = "string" -> {s \in Seq(Byte) : Len(s) \in Int32}
    [] type = "double" -> [1 .. 8 -> Byte]
    [] OTHER -> Int32

\* A value that can be read back can be written.
LEMMA ReadableType ==
  ASSUME NEW type
  PROVE  Readable(type) \subseteq TypeValues(type)
<1>1. Int32 \subseteq Int
  BY Int32Type
<1> QED
  BY <1>1 DEF Readable, TypeValues

\* ReadPrimitive, ReadString and ReadBytes find the value that was written, and
\* the place behind it, unless the limit comes first: then they fail.
THEOREM PayloadIsRead ==
  ASSUME NEW b \in Seq(Byte), NEW p \in Nat, NEW e \in 0 .. Len(b),
         NEW type \in Scalars, NEW v \in Readable(type),
         Holds(b, p, Payload(type, v))
  PROVE  LET q == p + Len(Payload(type, v))
         IN  Read(type, b, p, e) =
               IF q <= e THEN {[value |-> v, next |-> q]} ELSE {}
<1> DEFINE q == p + Len(Payload(type, v))
<1>1. CASE type = "string"
  <2> DEFINE n == VarintLength(Len(v))
             m == Len(v)
  <2>1. v \in Seq(Byte) /\ m \in Int32 /\ m \in Int /\ m \in Nat
    BY <1>1 DEF Readable
  <2>2. Payload(type, v) = Varint(m) \o v
    BY <1>1 DEF Payload
  <2>3. Varint(m) \in Seq(Byte) /\ Len(Varint(m)) = n /\ n \in 1 .. 10
    BY <2>1, VarintType, VarintSizeIsLength
  <2>4. Holds(b, p, Varint(m)) /\ Holds(b, p + n, v)
    BY <2>1, <2>2, <2>3, HoldsBoth
  <2>5. Len(Varint(m) \o v) = n + m
    BY <2>1, <2>3, ConcatProperties
  <2>6. ReadVarint(b, p, e) = IF p + n <= e THEN {n} ELSE {}
    BY <2>1, <2>4, VarintIsRead
  <2>7. VarintValue(b, p, n) = m
    BY <2>1, <2>4, VarintIsValue
  <2>8. p + n \in Nat
    BY <2>3
  <2>9. ReadBytes(b, p + n, m, e) =
          IF p + n + m <= e THEN {[value |-> v, next |-> p + n + m]} ELSE {}
    BY <2>1, <2>4, <2>8, BytesAreRead
  <2>10. q = p + n + m
    <3>1. Len(Payload(type, v)) = n + m
      BY <2>2, <2>5
    <3> HIDE DEF n, m
    <3> QED
      BY <2>1, <2>3, <3>1
  <2>11. Read(type, b, p, e) =
           UNION {ReadBytes(b, p + i, VarintValue(b, p, i), e) :
                    i \in ReadVarint(b, p, e)}
    BY <1>1 DEF Read, ReadString
  <2> HIDE DEF n, m, q
  <2>12. CASE p + n <= e
    <3>1. Read(type, b, p, e) = ReadBytes(b, p + n, m, e)
      BY <2>6, <2>7, <2>11, <2>12
    <3> QED
      BY <2>9, <2>10, <3>1 DEF q
  <2>13. CASE ~(p + n <= e)
    <3>1. Read(type, b, p, e) = {}
      BY <2>6, <2>11, <2>13
    <3>2. ~(q <= e)
      BY <2>1, <2>3, <2>10, <2>13
    <3> QED
      BY <3>1, <3>2 DEF q
  <2> QED
    BY <2>12, <2>13
<1>2. CASE type = "double"
  <2>1. v \in [1 .. 8 -> Byte]
    BY <1>2 DEF Readable
  <2>2. v \in Seq(Byte) /\ Len(v) = 8
    BY <2>1, EightIsSeq
  <2>3. Payload(type, v) = v /\ Read(type, b, p, e) = ReadBytes(b, p, 8, e)
    BY <1>2 DEF Payload, Read
  <2> QED
    BY <2>2, <2>3, BytesAreRead
<1>3. CASE type \notin {"string", "double"}
  <2> DEFINE n == VarintLength(v)
  <2>1. v \in Int32 /\ v \in Int
    BY <1>3, Int32Type DEF Readable
  <2>2. Payload(type, v) = Varint(v)
    BY <1>3 DEF Payload
  <2>3. Len(Varint(v)) = n
    BY <2>1, VarintType
  <2>4. ReadVarint(b, p, e) = IF p + n <= e THEN {n} ELSE {}
    BY <2>1, <2>2, VarintIsRead
  <2>5. VarintValue(b, p, n) = v
    BY <2>1, <2>2, VarintIsValue
  <2>6. Read(type, b, p, e) = {[value |-> VarintValue(b, p, i), next |-> p + i] :
                                 i \in ReadVarint(b, p, e)}
    BY <1>3 DEF Read
  <2>7. q = p + n
    BY <2>2, <2>3
  <2> HIDE DEF n, q
  <2>8. Read(type, b, p, e) = IF q <= e THEN {[value |-> v, next |-> q]} ELSE {}
    BY <2>4, <2>5, <2>6, <2>7
  <2> QED
    BY <2>8 DEF q
<1> QED
  BY <1>1, <1>2, <1>3

\* The numbers a field may have.
FieldNumbers == {n \in Nat : 1 <= n /\ n <= 268435455}

\* A number of a one-byte tag is one a field may have.
LEMMA ShortNumbers == 1 .. 15 \subseteq FieldNumbers
BY SMT DEF FieldNumbers

\* A number a field may have is a number.
LEMMA FieldNumbersType == FieldNumbers \subseteq Nat
BY SMT DEF FieldNumbers

\* A tag is a number of 32 bits.
LEMMA TagType ==
  ASSUME NEW number \in FieldNumbers, NEW type
  PROVE  8 * number + WireType(type) \in Int32 \ {0}
<1>1. WireType(type) \in 0 .. 2
  BY DEF WireType
<1> QED
  BY <1>1, SMT DEF FieldNumbers, Int32

\* A tag of a number there may be is read, unless the limit comes first.
LEMMA TagIsRead ==
  ASSUME NEW b \in Seq(Byte), NEW p \in Nat, NEW e \in 0 .. Len(b),
         NEW number \in FieldNumbers, NEW type,
         Holds(b, p, WriteTag(number, type))
  PROVE  LET tag == 8 * number + WireType(type)
             q == p + Len(WriteTag(number, type))
         IN  /\ ReadTag(b, p, e) =
                  IF q <= e THEN {[tag |-> tag, next |-> q]} ELSE {}
             /\ WriteTag(number, type) \in Seq(Byte)
             /\ q \in Nat /\ p < q
<1> DEFINE tag == 8 * number + WireType(type)
           n == VarintLength(tag)
<1>1. tag \in Int32 /\ tag \in Int /\ tag # 0
  BY TagType, Int32Type
<1>2. WriteTag(number, type) = Varint(tag)
  BY DEF WriteTag
<1> HIDE DEF tag
<1>3. /\ Varint(tag) \in Seq(Byte) /\ Len(Varint(tag)) = n /\ n \in 1 .. 10
  BY <1>1, VarintType, VarintSizeIsLength
<1>4. ReadVarint(b, p, e) = IF p + n <= e THEN {n} ELSE {}
  BY <1>1, <1>2, VarintIsRead
<1>5. VarintValue(b, p, n) = tag
  BY <1>1, <1>2, VarintIsValue
<1> DEFINE q == p + n
<1>6. q \in Nat /\ p < q
  BY <1>3
<1>7. ReadTag(b, p, e) = IF q <= e THEN {[tag |-> tag, next |-> q]} ELSE {}
  <2> HIDE DEF n
  <2>1. CASE q <= e
    <3>1. ReadVarint(b, p, e) = {n}
      BY <1>4, <2>1
    <3>2. ReadTag(b, p, e) =
            {t \in {[tag |-> VarintValue(b, p, n), next |-> p + n]} : t.tag # 0}
      BY <3>1 DEF ReadTag
    <3> QED
      BY <1>1, <1>5, <2>1, <3>2
  <2>2. CASE ~(q <= e)
    <3>1. ReadVarint(b, p, e) = {}
      BY <1>4, <2>2
    <3> QED
      BY <2>2, <3>1 DEF ReadTag
  <2> QED
    BY <2>1, <2>2
<1>8. q = p + Len(WriteTag(number, type))
  BY <1>2, <1>3
<1> QED
  BY <1>2, <1>3, <1>6, <1>7, <1>8 DEF tag

\* A field that is skipped is skipped as far as it goes.
LEMMA PayloadIsSkipped ==
  ASSUME NEW b \in Seq(Byte), NEW p \in Nat, NEW e \in 0 .. Len(b),
         NEW type \in Scalars, NEW v \in Readable(type),
         Holds(b, p, Payload(type, v)), NEW number \in Nat
  PROVE  LET q == p + Len(Payload(type, v))
         IN  SkipField(8 * number + WireType(type), b, p, e) =
               IF q <= e THEN {q} ELSE {}
<1> DEFINE q == p + Len(Payload(type, v))
           tag == 8 * number + WireType(type)
           r == Read(type, b, p, e)
<1>1. r = IF q <= e THEN {[value |-> v, next |-> q]} ELSE {}
  BY PayloadIsRead
<1>2. tag % 8 = WireType(type)
  <2>1. WireType(type) \in 0 .. 2
    BY DEF WireType
  <2> QED
    BY <2>1
<1>3. SkipField(tag, b, p, e) = {x.next : x \in r}
  <2>1. CASE type = "string"
    <3>1. tag % 8 = 2 /\ r = ReadString(b, p, e)
      BY <1>2, <2>1 DEF WireType, Read
    <3> HIDE DEF tag, r
    <3> QED
      BY <3>1 DEF SkipField
  <2>2. CASE type = "double"
    <3>1. tag % 8 = 1 /\ r = ReadBytes(b, p, 8, e)
      BY <1>2, <2>2 DEF WireType, Read
    <3> HIDE DEF tag, r
    <3> QED
      BY <3>1 DEF SkipField
  <2>3. CASE type \in {"int32", "uint32", "uint64"}
    <3>1. tag % 8 = 0 /\ r = Read("uint64", b, p, e)
      BY <1>2, <2>3 DEF WireType, Read
    <3> HIDE DEF tag, r
    <3> QED
      BY <3>1 DEF SkipField
  <2> QED
    BY <2>1, <2>2, <2>3 DEF Scalars
<1> HIDE DEF tag, r, q
<1>4. SkipField(tag, b, p, e) = IF q <= e THEN {q} ELSE {}
  BY <1>1, <1>3
<1> QED
  BY <1>4 DEF tag, q

-----------------------------------------------------------------------------
(***************************************************************************)
(* The places of the parts of what was written.                            *)
(***************************************************************************)

\* P says where each part of s begins and ends in b.
Places(P, s, b, p) ==
  /\ P \in [0 .. Len(s) -> Nat] /\ P[0] = p
  /\ \A i \in 1 .. Len(s) :
       P[i] = P[i - 1] + Len(s[i]) /\ Holds(b, P[i - 1], s[i])

\* The parts of s fill b from p to q.
Spans(s, b, p, q) == \E P : Places(P, s, b, p) /\ P[Len(s)] = q

\* Parts that were joined are found one behind the other.
LEMMA FlattenSpans ==
  ASSUME NEW b, NEW p \in Nat, NEW s \in Seq(Seq(Byte)),
         Holds(b, p, FlattenSeq(s))
  PROVE  Spans(s, b, p, p + Len(FlattenSeq(s)))
<1> DEFINE n == Len(s)
<1>1. n \in Nat
  OBVIOUS
<1>2. PICK f \in [0 .. n -> Seq(Byte)] :
             /\ f[0] = <<>>
             /\ \A i \in 1 .. n : f[i] = f[i - 1] \o s[i]
             /\ FlattenSeq(s) = f[n]
  BY FlattenParts
<1> DEFINE P == [i \in 0 .. n |-> p + Len(f[i])]
           B == {j \in 0 .. n : Holds(b, p, f[n - j])}
<1>3. \A i \in 1 .. n : s[i] \in Seq(Byte)
  BY ElementOfSeq
<1> HIDE DEF n
<1>4. \A i \in 1 .. n : i \in 0 .. n /\ i - 1 \in 0 .. n
  BY <1>1
<1>5. \A i \in 0 .. n : f[i] \in Seq(Byte) /\ Len(f[i]) \in Nat
  BY <1>2
<1>6. ASSUME NEW i \in 1 .. n, Holds(b, p, f[i])
      PROVE  Holds(b, p, f[i - 1]) /\ Holds(b, P[i - 1], s[i])
  <2>1. /\ f[i - 1] \in Seq(Byte) /\ s[i] \in Seq(Byte)
        /\ f[i] = f[i - 1] \o s[i] /\ P[i - 1] = p + Len(f[i - 1])
    BY <1>2, <1>3, <1>4, <1>5
  <2>2. Holds(b, p, f[i - 1] \o s[i])
    BY <1>6, <2>1
  <2> DEFINE l == f[i - 1]  r == s[i]  q == P[i - 1]
  <2>3. l \in Seq(Byte) /\ r \in Seq(Byte) /\ Holds(b, p, l \o r)
    BY <2>1, <2>2
  <2>4. q = p + Len(l)
    BY <2>1
  <2> HIDE DEF P, l, r, q
  <2>5. Holds(b, p, l) /\ Holds(b, q, r)
    BY <2>3, <2>4, HoldsBoth
  <2> QED
    BY <2>5 DEF l, r, q
<1>7. 0 .. n \subseteq B
  <2>1. 0 \in B
    <3>1. n - 0 = n /\ 0 \in 0 .. n
      BY <1>1
    <3> QED
      BY <1>2, <3>1
  <2>2. ASSUME NEW i \in 1 .. n, i - 1 \in B
        PROVE  i \in B
    <3>1. n - (i - 1) \in 1 .. n /\ n - i = (n - (i - 1)) - 1 /\ i \in 0 .. n
      BY <1>1
    <3>2. Holds(b, p, f[n - (i - 1)])
      BY <2>2
    <3>3. Holds(b, p, f[(n - (i - 1)) - 1])
      BY <1>6, <3>1, <3>2
    <3> QED
      BY <3>1, <3>3
  <2> HIDE DEF B
  <2> QED
    BY <1>1, <2>1, <2>2, UpTo
<1>8. \A i \in 0 .. n : Holds(b, p, f[i])
  <2> SUFFICES ASSUME NEW i \in 0 .. n PROVE Holds(b, p, f[i])
    OBVIOUS
  <2>1. n - i \in 0 .. n /\ n - (n - i) = i
    BY <1>1
  <2>2. n - i \in B
    BY <1>7, <2>1
  <2> QED
    BY <2>1, <2>2
<1>9. P \in [0 .. n -> Nat]
  BY <1>5
<1>10. P[0] = p
  <2>1. Len(f[0]) = 0 /\ 0 \in 0 .. n
    BY <1>1, <1>2
  <2>2. P[0] = p + Len(f[0])
    BY <2>1
  <2> HIDE DEF P
  <2> QED
    BY <2>1, <2>2
<1>11. ASSUME NEW i \in 1 .. n
       PROVE  P[i] = P[i - 1] + Len(s[i]) /\ Holds(b, P[i - 1], s[i])
  <2>1. Holds(b, P[i - 1], s[i])
    BY <1>4, <1>6, <1>8
  <2>2. /\ f[i - 1] \in Seq(Byte) /\ s[i] \in Seq(Byte)
        /\ f[i] = f[i - 1] \o s[i]
        /\ P[i - 1] = p + Len(f[i - 1]) /\ P[i] = p + Len(f[i])
    BY <1>2, <1>3, <1>4, <1>5
  <2> DEFINE l == f[i - 1]  r == s[i]  q == P[i - 1]  t == P[i]
  <2>3. /\ l \in Seq(Byte) /\ r \in Seq(Byte)
        /\ q = p + Len(l) /\ t = p + Len(l \o r)
    BY <2>2
  <2> HIDE DEF P, l, r, q, t
  <2>4. Len(l \o r) = Len(l) + Len(r) /\ Len(l) \in Nat /\ Len(r) \in Nat
    BY <2>3, ConcatProperties
  <2>5. t = q + Len(r)
    BY <2>3, <2>4
  <2> QED
    BY <2>1, <2>5 DEF q, r, t
<1>12. P[n] = p + Len(FlattenSeq(s))
  <2>1. n \in 0 .. n
    BY <1>1
  <2> QED
    BY <1>2, <2>1
<1> HIDE DEF P
<1>13. Places(P, s, b, p)
  BY <1>9, <1>10, <1>11 DEF Places, n
<1> QED
  BY <1>12, <1>13 DEF Spans, n

\* What lies behind what was joined goes on there.
LEMMA SpansJoin ==
  ASSUME NEW b, NEW p \in Nat, NEW q, NEW r, NEW s \in Seq(Seq(Byte)),
         NEW t \in Seq(Seq(Byte)), Spans(s, b, p, q), Spans(t, b, q, r)
  PROVE  Spans(s \o t, b, p, r)
<1>s. PICK P : Places(P, s, b, p) /\ P[Len(s)] = q
  BY DEF Spans
<1>t. PICK Q : Places(Q, t, b, q) /\ Q[Len(t)] = r
  BY DEF Spans
<1> DEFINE m == Len(s)
           n == Len(t)
           u == s \o t
           R == [i \in 0 .. m + n |-> IF i <= m THEN P[i] ELSE Q[i - m]]
<1>1. m \in Nat /\ n \in Nat /\ Len(u) = m + n
  BY ConcatProperties
<1>2. \A i \in 1 .. m + n : u[i] = IF i <= m THEN s[i] ELSE t[i - m]
  BY ConcatProperties
<1>3. /\ P \in [0 .. m -> Nat] /\ P[0] = p
      /\ \A i \in 1 .. m :
           P[i] = P[i - 1] + Len(s[i]) /\ Holds(b, P[i - 1], s[i])
  BY <1>s DEF Places
<1>4. /\ Q \in [0 .. n -> Nat] /\ Q[0] = P[m]
      /\ \A i \in 1 .. n :
           Q[i] = Q[i - 1] + Len(t[i]) /\ Holds(b, Q[i - 1], t[i])
  BY <1>s, <1>t DEF Places
<1> HIDE DEF m, n, u
<1>5. R \in [0 .. m + n -> Nat]
  <2>1. \A i \in 0 .. m + n : IF i <= m THEN i \in 0 .. m ELSE i - m \in 0 .. n
    BY <1>1
  <2> QED
    BY <1>3, <1>4, <2>1
<1>6. R[0] = p /\ R[m + n] = Q[n]
  <2>1. 0 \in 0 .. m + n /\ 0 <= m /\ m + n \in 0 .. m + n
    BY <1>1
  <2>2. R[m + n] = IF m + n <= m THEN P[m + n] ELSE Q[(m + n) - m]
    BY <2>1
  <2>3. (m + n) - m = n /\ (m + n <= m => n = 0 /\ m + n = m)
    BY <1>1
  <2>4. R[0] = P[0]
    BY <2>1
  <2> HIDE DEF R
  <2> QED
    BY <1>3, <1>4, <2>2, <2>3, <2>4
<1>7. ASSUME NEW i \in 1 .. m + n
      PROVE  R[i] = R[i - 1] + Len(u[i]) /\ Holds(b, R[i - 1], u[i])
  <2>1. /\ i \in 0 .. m + n /\ i - 1 \in 0 .. m + n
        /\ R[i] = IF i <= m THEN P[i] ELSE Q[i - m]
        /\ R[i - 1] = IF i - 1 <= m THEN P[i - 1] ELSE Q[(i - 1) - m]
    BY <1>1
  <2> HIDE DEF R
  <2>2. CASE i <= m
    <3>1. i \in 1 .. m /\ i - 1 <= m
      BY <1>1, <2>2
    <3> QED
      BY <1>2, <1>3, <2>1, <2>2, <3>1
  <2>3. CASE ~(i <= m)
    <3> DEFINE j == i - m
    <3>1. j \in 1 .. n /\ (i - 1) - m = j - 1
      BY <1>1, <2>3
    <3>2. R[i] = Q[j] /\ u[i] = t[j]
      BY <1>2, <2>1, <2>3
    <3>3. R[i - 1] = Q[j - 1]
      <4>1. CASE i - 1 <= m
        <5>1. i - 1 = m /\ j - 1 = 0
          BY <1>1, <2>3, <4>1
        <5> QED
          BY <1>4, <2>1, <4>1, <5>1
      <4>2. CASE ~(i - 1 <= m)
        BY <2>1, <3>1, <4>2
      <4> QED
        BY <4>1, <4>2
    <3> HIDE DEF j
    <3> QED
      BY <1>4, <3>1, <3>2, <3>3
  <2> QED
    BY <2>2, <2>3
<1> HIDE DEF R
<1>8. Places(R, u, b, p)
  BY <1>1, <1>5, <1>6, <1>7 DEF Places
<1>9. R[Len(u)] = r
  BY <1>1, <1>6, <1>t DEF n
<1> QED
  BY <1>8, <1>9 DEF Spans, u

\* One part fills its bytes.
LEMMA SpanOfOne ==
  ASSUME NEW b, NEW p \in Nat, NEW s \in Seq(Byte), Holds(b, p, s)
  PROVE  Spans(<<s>>, b, p, p + Len(s))
<1> DEFINE R == [i \in 0 .. 1 |-> IF i = 0 THEN p ELSE p + Len(s)]
<1>1. Len(s) \in Nat
  OBVIOUS
<1>2. R \in [0 .. 1 -> Nat] /\ R[0] = p /\ R[1] = p + Len(s)
  BY <1>1
<1>3. Len(<<s>>) = 1 /\ <<s>>[1] = s
  OBVIOUS
<1> HIDE DEF R
<1>4. ASSUME NEW i \in 1 .. 1
      PROVE  R[i] = R[i - 1] + Len(<<s>>[i]) /\ Holds(b, R[i - 1], <<s>>[i])
  <2>1. i = 1 /\ 1 - 1 = 0
    OBVIOUS
  <2> QED
    BY <1>2, <1>3, <2>1
<1>5. Places(R, <<s>>, b, p)
  BY <1>2, <1>3, <1>4 DEF Places
<1> QED
  BY <1>2, <1>3, <1>5 DEF Spans

-----------------------------------------------------------------------------
(***************************************************************************)
(* The parts of a message: its fields, its records, its unknown fields.    *)
(***************************************************************************)

\* A list is the last that is written of a message that has one.
ListLast(k) ==
  /\ Lists(k) <=> "records" \in DOMAIN k.fields
  /\ \A i \in DOMAIN k.write : k.write[i].type = "records" => i = Len(k.write)

FieldCount(k) == IF Lists(k) THEN Len(k.write) - 1 ELSE Len(k.write)

ListNumber(k) == k.write[Len(k.write)].number

ListOf(k, m) == IF Lists(k) THEN m.val.records ELSE <<>>

FieldParts(k, m) == [i \in 1 .. FieldCount(k) |-> WriteField(m, k.write[i])]

ListParts(k, m) ==
  [i \in 1 .. Len(ListOf(k, m)) |->
     WriteRecord(k, ListNumber(k), ListOf(k, m)[i])]

Parts(k, m) == (FieldParts(k, m) \o ListParts(k, m)) \o <<m.unknown>>

\* What stands last, and what before.
LEMMA FieldsAndList ==
  ASSUME NEW k, HasTables(k), ListLast(k)
  PROVE  /\ Len(k.write) \in Nat /\ DOMAIN k.write = 1 .. Len(k.write)
         /\ FieldCount(k) \in Nat /\ FieldCount(k) <= Len(k.write)
         /\ \A i \in 1 .. FieldCount(k) :
              i \in DOMAIN k.write /\ k.write[i].type # "records"
         /\ Lists(k) => /\ Len(k.write) \in DOMAIN k.write
                        /\ k.write[Len(k.write)].type = "records"
                        /\ ListNumber(k) \in 1 .. 15
<1> DEFINE n == Len(k.write)
<1>1. n \in Nat /\ DOMAIN k.write = 1 .. n
  BY DEF HasTables, WritesFields
<1> HIDE DEF n
<1>2. CASE Lists(k)
  <2>1. PICK i \in DOMAIN k.write : k.write[i].type = "records"
    BY <1>2 DEF Lists
  <2>2. i = n
    BY <2>1 DEF ListLast, n
  <2>3. /\ FieldCount(k) = n - 1 /\ n - 1 \in Nat /\ n - 1 <= n /\ n \in 1 .. n
        /\ \A j \in 1 .. n - 1 : j \in 1 .. n /\ j # n
    BY <1>1, <1>2, <2>1, <2>2 DEF FieldCount, n
  <2>4. \A j \in 1 .. n - 1 : k.write[j].type # "records"
    BY <1>1, <2>3 DEF ListLast, n
  <2>5. ListNumber(k) \in 1 .. 15
    BY <2>1, <2>2 DEF ListNumber, HasTables, WritesFields, n
  <2> QED
    BY <1>1, <2>1, <2>2, <2>3, <2>4, <2>5 DEF n
<1>3. CASE ~Lists(k)
  <2>1. FieldCount(k) = n /\ n <= n
    BY <1>1, <1>3 DEF FieldCount, n
  <2>2. \A j \in DOMAIN k.write : k.write[j].type # "records"
    BY <1>3 DEF Lists
  <2> QED
    BY <1>1, <1>3, <2>1, <2>2 DEF n
<1> QED
  BY <1>2, <1>3

\* Each part is a sequence of bytes.
LEMMA PartsType ==
  ASSUME NEW k, NEW m, Writable(k, m), ListLast(k)
  PROVE  /\ FieldParts(k, m) \in Seq(Seq(Byte))
         /\ Len(FieldParts(k, m)) = FieldCount(k)
         /\ ListParts(k, m) \in Seq(Seq(Byte))
         /\ Len(ListParts(k, m)) = Len(ListOf(k, m))
         /\ <<m.unknown>> \in Seq(Seq(Byte))
         /\ FieldCount(k) \in Nat /\ Len(ListOf(k, m)) \in Nat
<1> DEFINE q == FieldCount(k)
           rs == ListOf(k, m)
           r == Len(rs)
<1>1. HasTables(k) /\ HoldsValues(k, m) /\ q \in Nat
  BY FieldsAndList DEF Writable
<1>2. FieldParts(k, m) \in Seq(Seq(Byte)) /\ Len(FieldParts(k, m)) = q
  <2>1. ASSUME NEW i \in 1 .. q
        PROVE  WriteField(m, k.write[i]) \in Seq(Byte)
    <3>1. i \in DOMAIN k.write /\ k.write[i].type # "records"
      BY <1>1, FieldsAndList
    <3> QED
      BY <1>1, <3>1, FieldLength
  <2> HIDE DEF q
  <2>2. FieldParts(k, m) \in [1 .. q -> Seq(Byte)]
    BY <2>1 DEF FieldParts, q
  <2> QED
    BY <1>1, <2>2, FunctionIsSeq
<1>3. /\ r \in Nat
      /\ ListParts(k, m) \in Seq(Seq(Byte)) /\ Len(ListParts(k, m)) = r
  <2>1. CASE Lists(k)
    <3>1. rs = m.val.records /\ HoldsRecords(k, m)
      BY <2>1 DEF ListOf, Writable
    <3>2. PICK X : rs \in Seq(X) /\ \A x \in X : HoldsValues(k.record, x)
      BY <3>1 DEF HoldsRecords
    <3>3. r \in Nat /\ \A i \in 1 .. r : HoldsValues(k.record, rs[i])
      BY <3>2, LenProperties, ElementOfSeq
    <3>4. ASSUME NEW i \in 1 .. r
          PROVE  WriteRecord(k, ListNumber(k), rs[i]) \in Seq(Byte)
      <4>1. HoldsValues(k.record, rs[i])
        BY <3>3
      <4>2. /\ HasTables(k.record) /\ ~Lists(k.record)
            /\ ListNumber(k) \in 1 .. 15
        BY <1>1, <2>1, <3>1, FieldsAndList DEF HoldsRecords
      <4> DEFINE x == rs[i]  number == ListNumber(k)
      <4> HIDE DEF rs, x, number
      <4>3. WriteRecord(k, number, x) \in Seq(Byte)
        BY <4>1, <4>2, RecordLength DEF x, number
      <4> QED
        BY <4>3 DEF x, number
    <3> HIDE DEF rs, r
    <3>5. ListParts(k, m) \in [1 .. r -> Seq(Byte)]
      BY <3>4 DEF ListParts, rs, r
    <3> QED
      BY <3>3, <3>5, FunctionIsSeq
  <2>2. CASE ~Lists(k)
    <3>1. rs = <<>> /\ r = 0
      BY <2>2 DEF ListOf
    <3> HIDE DEF rs, r
    <3>2. ListParts(k, m) \in [1 .. r -> Seq(Byte)]
      BY <3>1 DEF ListParts, rs, r
    <3> QED
      BY <3>1, <3>2, FunctionIsSeq
  <2> QED
    BY <2>1, <2>2
<1>4. <<m.unknown>> \in Seq(Seq(Byte))
  BY <1>1 DEF HoldsValues
<1> QED
  BY <1>1, <1>2, <1>3, <1>4

\* Which part stands where.
LEMMA PartsAre ==
  ASSUME NEW k, NEW m, Writable(k, m), ListLast(k)
  PROVE  LET q == FieldCount(k)
             r == Len(ListOf(k, m))
             u == Parts(k, m)
         IN  /\ q \in Nat /\ r \in Nat
             /\ u \in Seq(Seq(Byte)) /\ Len(u) = q + r + 1
             /\ \A i \in 1 .. q : u[i] = WriteField(m, k.write[i])
             /\ \A i \in 1 .. r :
                  u[q + i] = WriteRecord(k, ListNumber(k), ListOf(k, m)[i])
             /\ u[q + r + 1] = m.unknown
<1> DEFINE q == FieldCount(k)
           r == Len(ListOf(k, m))
           fs == FieldParts(k, m)
           ls == ListParts(k, m)
           us == <<m.unknown>>
           u == Parts(k, m)
<1>1. /\ fs \in Seq(Seq(Byte)) /\ Len(fs) = q /\ q \in Nat
      /\ ls \in Seq(Seq(Byte)) /\ Len(ls) = r /\ r \in Nat
      /\ us \in Seq(Seq(Byte)) /\ Len(us) = 1 /\ us[1] = m.unknown
  BY PartsType
<1>2. u = (fs \o ls) \o us
  BY DEF Parts
<1>3. /\ \A i \in 1 .. q : fs[i] = WriteField(m, k.write[i])
      /\ \A i \in 1 .. r :
           ls[i] = WriteRecord(k, ListNumber(k), ListOf(k, m)[i])
  BY DEF FieldParts, ListParts
<1> HIDE DEF q, r, fs, ls, us, u
<1>4. /\ fs \o ls \in Seq(Seq(Byte)) /\ Len(fs \o ls) = q + r
      /\ \A i \in 1 .. q + r :
           (fs \o ls)[i] = IF i <= q THEN fs[i] ELSE ls[i - q]
  BY <1>1, ConcatProperties
<1>5. /\ u \in Seq(Seq(Byte)) /\ Len(u) = q + r + 1
      /\ \A i \in 1 .. q + r + 1 :
           u[i] = IF i <= q + r THEN (fs \o ls)[i] ELSE us[i - (q + r)]
  <2> DEFINE v == fs \o ls
             n == q + r
  <2>1. v \in Seq(Seq(Byte)) /\ Len(v) = n
    BY <1>4
  <2>2. us \in Seq(Seq(Byte))
    BY <1>1
  <2>3. v \in Seq(Seq(Byte))
    BY <2>1
  <2> HIDE DEF v, n
  <2>4. /\ v \o us \in Seq(Seq(Byte)) /\ Len(v \o us) = Len(v) + Len(us)
        /\ \A i \in 1 .. Len(v) + Len(us) :
             (v \o us)[i] = IF i <= Len(v) THEN v[i] ELSE us[i - Len(v)]
    BY ONLY <2>2, <2>3, ConcatProperties
  <2> DEFINE w == v \o us
  <2>5. u = w
    BY <1>2 DEF v
  <2> HIDE DEF w
  <2>6. /\ w \in Seq(Seq(Byte)) /\ Len(w) = n + 1
        /\ \A i \in 1 .. n + 1 : w[i] = IF i <= n THEN v[i] ELSE us[i - n]
    BY <1>1, <2>1, <2>4 DEF w
  <2> QED
    BY <2>5, <2>6 DEF v, n
<1>6. ASSUME NEW i \in 1 .. q
      PROVE  u[i] = fs[i]
  <2>1. i \in 1 .. q + r + 1 /\ i \in 1 .. q + r /\ i <= q + r /\ i <= q
    BY <1>1
  <2> QED
    BY <1>4, <1>5, <2>1
<1>7. ASSUME NEW i \in 1 .. r
      PROVE  u[q + i] = ls[i]
  <2>1. /\ q + i \in 1 .. q + r + 1 /\ q + i \in 1 .. q + r /\ q + i <= q + r
        /\ ~(q + i <= q) /\ (q + i) - q = i
    BY <1>1
  <2> QED
    BY <1>4, <1>5, <2>1
<1>8. u[q + r + 1] = m.unknown
  <2>1. /\ q + r + 1 \in 1 .. q + r + 1 /\ ~(q + r + 1 <= q + r)
        /\ (q + r + 1) - (q + r) = 1
    BY <1>1
  <2> QED
    BY <1>1, <1>5, <2>1
<1>9. /\ q \in Nat /\ r \in Nat
      /\ u \in Seq(Seq(Byte)) /\ Len(u) = q + r + 1
      /\ \A i \in 1 .. q : u[i] = WriteField(m, k.write[i])
      /\ \A i \in 1 .. r :
           u[q + i] = WriteRecord(k, ListNumber(k), ListOf(k, m)[i])
      /\ u[q + r + 1] = m.unknown
  BY <1>1, <1>3, <1>5, <1>6, <1>7, <1>8
<1> QED
  BY <1>9 DEF q, r, u

\* What is written of a message is its parts, one behind the other.
LEMMA PartsSpan ==
  ASSUME NEW k, NEW m, Writable(k, m), ListLast(k), NEW b, NEW p \in Nat,
         Holds(b, p, SerializeWithCachedSizes(k, m))
  PROVE  Spans(Parts(k, m), b, p, p + Len(SerializeWithCachedSizes(k, m)))
<1> DEFINE n == Len(k.write)
           q == FieldCount(k)
           s == [i \in DOMAIN k.write |->
                   LET w == k.write[i]
                   IN  IF w.type = "records" THEN WriteRecords(k, m, w)
                                             ELSE WriteField(m, w)]
           fs == FieldParts(k, m)
           ls == ListParts(k, m)
           us == <<m.unknown>>
           z == SerializeWithCachedSizes(k, m)
<1>1. /\ HasTables(k) /\ HoldsValues(k, m)
      /\ n \in Nat /\ DOMAIN k.write = 1 .. n /\ q \in Nat /\ q <= n
  BY FieldsAndList DEF Writable
<1>2. /\ fs \in Seq(Seq(Byte)) /\ Len(fs) = q
      /\ ls \in Seq(Seq(Byte)) /\ us \in Seq(Seq(Byte))
  BY PartsType
<1>3. z = FlattenSeq(s) \o m.unknown
  BY DEF SerializeWithCachedSizes
<1>4. \A i \in 1 .. q : s[i] = fs[i]
  BY FieldsAndList, <1>1 DEF FieldParts
<1>5. Lists(k) => /\ q = n - 1 /\ n \in 1 .. n /\ s[n] = FlattenSeq(ls)
  <2>1. SUFFICES ASSUME Lists(k)
                 PROVE  q = n - 1 /\ n \in 1 .. n /\ s[n] = FlattenSeq(ls)
    OBVIOUS
  <2>2. n \in DOMAIN k.write /\ k.write[n].type = "records"
    BY <1>1, <2>1, FieldsAndList
  <2>3. s[n] = WriteRecords(k, m, k.write[n])
    BY <2>2
  <2>4. DOMAIN m.val.records = 1 .. Len(m.val.records)
    <3>1. PICK X : m.val.records \in Seq(X)
      BY <2>1 DEF Writable, HoldsRecords
    <3> QED
      BY <3>1, LenProperties
  <2>5. WriteRecords(k, m, k.write[n]) = FlattenSeq(ls)
    BY <2>1, <2>4 DEF WriteRecords, ListParts, ListOf, ListNumber
  <2> QED
    BY <1>1, <2>1, <2>2, <2>3, <2>5 DEF FieldCount
<1>6. s \in Seq(Seq(Byte)) /\ Len(s) = n
  <2>1. ASSUME NEW i \in 1 .. n PROVE s[i] \in Seq(Byte)
    <3>1. CASE i \in 1 .. q
      <4>1. fs[i] \in Seq(Byte)
        BY <1>2, <3>1, ElementOfSeq
      <4> HIDE DEF s, fs
      <4> QED
        BY <1>4, <3>1, <4>1
    <3>2. CASE i \notin 1 .. q
      <4>1. Lists(k) /\ i = n
        BY <1>1, <3>2 DEF FieldCount
      <4>2. FlattenSeq(ls) \in Seq(Byte)
        BY <1>2, FlattenType
      <4> HIDE DEF s, ls
      <4> QED
        BY <1>5, <4>1, <4>2
    <3> QED
      BY <3>1, <3>2
  <2>2. s \in [1 .. n -> Seq(Byte)]
    BY <1>1, <2>1
  <2> HIDE DEF s, n
  <2> QED
    BY <1>1, <2>2, FunctionIsSeq
<1>7. m.unknown \in Seq(Byte)
  BY <1>1 DEF HoldsValues
<1> HIDE DEF s, fs, ls, us, z
<1>8. /\ FlattenSeq(s) \in Seq(Byte)
      /\ Len(z) = Len(FlattenSeq(s)) + Len(m.unknown)
  BY <1>3, <1>6, <1>7, FlattenType, ConcatProperties
<1>9. Holds(b, p, FlattenSeq(s)) /\ Holds(b, p + Len(FlattenSeq(s)), m.unknown)
  BY <1>3, <1>7, <1>8, HoldsBoth DEF z
<1> DEFINE x == Len(FlattenSeq(s))
           y == Len(m.unknown)
           e == p + x
<1>10. x \in Nat /\ y \in Nat /\ e \in Nat
  BY <1>7, <1>8
<1>11. Spans(s, b, p, e)
  BY <1>6, <1>9, FlattenSpans
<1> HIDE DEF x, y, e
<1>12. \E a \in Nat : Spans(fs, b, p, a) /\ Spans(ls, b, a, e)
  <2>1. PICK Q : Places(Q, s, b, p) /\ Q[n] = e
    BY <1>6, <1>11 DEF Spans
  <2> DEFINE F == [i \in 0 .. q |-> Q[i]]
             a == Q[q]
  <2>2. /\ Q \in [0 .. n -> Nat] /\ Q[0] = p
        /\ \A i \in 1 .. n : Q[i] = Q[i - 1] + Len(s[i])
                              /\ Holds(b, Q[i - 1], s[i])
    BY <1>6, <2>1 DEF Places
  <2>3. /\ \A i \in 0 .. q : i \in 0 .. n
        /\ \A i \in 1 .. q : i \in 0 .. q /\ i - 1 \in 0 .. q /\ i \in 1 .. n
        /\ 0 \in 0 .. q /\ q \in 0 .. q
    BY <1>1
  <2>4. F \in [0 .. q -> Nat] /\ \A i \in 0 .. q : F[i] = Q[i]
    BY <2>2, <2>3
  <2>5. a \in Nat
    BY <2>2, <2>3
  <2> HIDE DEF F, q, n
  <2>6. Places(F, fs, b, p) /\ F[q] = Q[q]
    BY <1>2, <1>4, <2>2, <2>3, <2>4 DEF Places
  <2>7. Spans(fs, b, p, a)
    BY <1>2, <2>6 DEF Spans
  <2>8. Spans(ls, b, a, e)
    <3>1. CASE Lists(k)
      <4>1. e = a + Len(s[n]) /\ Holds(b, a, s[n])
        <5>1. q = n - 1 /\ n \in 1 .. n
          BY <1>5, <3>1
        <5> QED
          BY <2>1, <2>2, <5>1
      <4>2. Holds(b, a, FlattenSeq(ls)) /\ e = a + Len(FlattenSeq(ls))
        BY <1>5, <3>1, <4>1
      <4> HIDE DEF a
      <4> QED
        BY <1>2, <2>5, <4>2, FlattenSpans
    <3>2. CASE ~Lists(k)
      <4>1. ls = <<>> /\ q = n
        BY <3>2 DEF ls, ListParts, ListOf, FieldCount, q, n
      <4>2. a = e
        BY <2>1, <4>1
      <4> DEFINE L == [i \in 0 .. 0 |-> a]
      <4> HIDE DEF a
      <4>3. Len(<<>>) = 0 /\ L \in [0 .. 0 -> Nat] /\ L[0] = a /\ 1 .. 0 = {}
        BY <2>5
      <4> HIDE DEF L
      <4>4. Places(L, ls, b, a)
        BY <4>1, <4>3 DEF Places
      <4> QED
        BY <4>1, <4>2, <4>3, <4>4 DEF Spans
    <3> QED
      BY <3>1, <3>2
  <2> HIDE DEF a
  <2> QED
    BY <2>5, <2>7, <2>8
<1>13. Spans(fs \o ls, b, p, e)
  BY <1>2, <1>12, SpansJoin
<1>14. Holds(b, e, m.unknown) /\ us = <<m.unknown>>
  BY <1>9 DEF e, x, us
<1>15. Spans(us, b, e, e + y)
  BY <1>7, <1>10, <1>14, SpanOfOne DEF y
<1> DEFINE v == fs \o ls
<1>16. v \in Seq(Seq(Byte)) /\ Spans(v, b, p, e)
  BY <1>2, <1>13, ConcatProperties
<1> HIDE DEF v
<1>17. Spans(v \o us, b, p, e + y)
  BY <1>2, <1>15, <1>16, SpansJoin
<1>18. v \o us = Parts(k, m)
  BY DEF Parts, v, fs, ls, us
<1>19. e + y = p + Len(z)
  <2>1. e = p + x /\ Len(z) = x + y
    BY <1>8 DEF e, x, y
  <2> QED
    BY <1>10, <2>1
<1> QED
  BY <1>17, <1>18, <1>19 DEF z

\* A class without records writes itself as a record of it is written.
LEMMA LeafIsSerialized ==
  ASSUME NEW k, NEW m, ~Lists(k)
  PROVE  WriteLeaf(k, m) = SerializeWithCachedSizes(k, m)
<1> DEFINE s == [i \in DOMAIN k.write |-> WriteField(m, k.write[i])]
           t == [i \in DOMAIN k.write |->
                   LET w == k.write[i]
                   IN  IF w.type = "records" THEN WriteRecords(k, m, w)
                                             ELSE WriteField(m, w)]
<1>1. s = t
  BY DEF Lists
<1> QED
  BY <1>1 DEF WriteLeaf, SerializeWithCachedSizes

-----------------------------------------------------------------------------
(***************************************************************************)
(* The tables of one class on both sides.                                  *)
(***************************************************************************)

Bits(k) == {k.has[f] : f \in DOMAIN k.has}

\* Every field but a list has a bit of its own, and a new object holds the
\* defaults.
HasBits(k) ==
  /\ DOMAIN k.has = DOMAIN k.fields \ {"records"}
  /\ "records" \in DOMAIN k.fields => k.fields["records"] = "records"
  /\ \A f, g \in DOMAIN k.has : k.has[f] = k.has[g] => f = g
  /\ k.SharedCtor = [f \in DOMAIN k.fields |-> Zero(k.fields[f])]

\* The reader r has the fields the writer w has, and a case for each of them
\* with the tag that w writes before it.
Reads(r, w) ==
  /\ r.fields = w.fields /\ r.has = w.has /\ r.SharedCtor = w.SharedCtor
  /\ DOMAIN r.read = DOMAIN r.fields
  /\ \A f, g \in DOMAIN r.read : r.read[f].number = r.read[g].number => f = g
  /\ \A i \in DOMAIN w.write :
       LET x == w.write[i]
       IN  r.read[x.field] =
             Case(x.number, 8 * x.number + WireType(x.type), x.type)

\* Clear resets every field, if it is one of an object that was not touched
\* or of one that has all of its fields set.
Clears(k) == \A f \in DOMAIN k.fields : k.Clear[f] \subseteq Bits(k)

\* A class of three numbers, which is short enough for a length of one byte.
Short(k) ==
  /\ \E f, g, h : DOMAIN k.has = {f, g, h}
  /\ \A f \in DOMAIN k.has : k.fields[f] \in {"int32", "uint32", "uint64"}

Written(w) == HasTables(w) /\ HasBits(w) /\ ListLast(w)

\* The class of a message as its writer w and its reader r were built.
Agree(w, r) ==
  /\ Written(w) /\ Reads(r, w) /\ Clears(r)
  /\ Lists(w) => /\ Written(w.record) /\ Reads(r.record, w.record)
                 /\ ~Lists(w.record) /\ Short(w.record)
                 /\ r.record.needs = Bits(r.record)

\* Its bytes are counted by a length of one byte.
LEMMA ShortSize ==
  ASSUME NEW k, NEW m, HasTables(k), ~Lists(k), Short(k),
         HoldsValues(k, m), m.unknown = <<>>
  PROVE  OwnSize(k, m) \in Nat /\ OwnSize(k, m) \in Int32
<1> DEFINE g == Taken(k, m)
           S == Present(k, m, DOMAIN k.has)
<1>1. OwnSize(k, m) = Len(m.unknown) + Sum(g, S) /\ Sum(g, S) \in Int
  BY OwnSizeIsSum
<1>2. Len(m.unknown) = 0
  OBVIOUS
<1>3. ASSUME NEW f \in DOMAIN k.has
      PROVE  g[f] \in Nat /\ g[f] <= 11
  <2>1. /\ k.fields[f] \in {"int32", "uint32", "uint64"}
        /\ m.val[f] \in TypeValues(k.fields[f])
    BY DEF Short, HoldsValues
  <2>2. m.val[f] \in Int
    BY <2>1 DEF TypeValues
  <2>3. g[f] = 1 + VarintSize(m.val[f])
    BY <2>1 DEF Taken, ValueSize
  <2> DEFINE v == m.val[f]
  <2> HIDE DEF v, g
  <2>4. VarintSize(v) \in 1 .. 10
    BY <2>2, VarintSizeIsLength DEF v
  <2> QED
    BY <2>3, <2>4 DEF v
<1>4. PICK a, b, c : DOMAIN k.has = {a, b, c}
  BY DEF Short
<1>5. IsFiniteSet({a, b, c}) /\ Cardinality({a, b, c}) <= 3
  <2>1. IsFiniteSet({a}) /\ Cardinality({a}) = 1
    BY FS_Singleton
  <2>2. IsFiniteSet({a} \cup {b}) /\ Cardinality({a} \cup {b}) \in 1 .. 2
    BY <2>1, FS_AddElement
  <2> DEFINE T == {a} \cup {b}
  <2> HIDE DEF T
  <2>3. IsFiniteSet(T \cup {c}) /\ Cardinality(T \cup {c}) <= 3
    <3>1. IsFiniteSet(T) /\ Cardinality(T) \in 1 .. 2
      BY <2>2 DEF T
    <3> QED
      BY <3>1, FS_AddElement
  <2>4. T \cup {c} = {a, b, c}
    BY DEF T
  <2> QED
    BY <2>3, <2>4
<1>6. S \subseteq {a, b, c}
  BY <1>4 DEF Present
<1>7. /\ IsFiniteSet(S) /\ Cardinality(S) \in Nat /\ Cardinality(S) <= 3
      /\ \A f \in S : g[f] \in Nat /\ g[f] <= 11
  <2>1. IsFiniteSet(S) /\ Cardinality(S) <= Cardinality({a, b, c})
    BY <1>5, <1>6, FS_Subset
  <2>2. Cardinality(S) \in Nat /\ Cardinality({a, b, c}) \in Nat
    BY <1>5, <2>1, FS_CardinalityType
  <2>3. \A f \in S : f \in DOMAIN k.has
    BY <1>4, <1>6
  <2> HIDE DEF S, g
  <2> QED
    BY <1>3, <1>5, <2>1, <2>2, <2>3
<1> HIDE DEF g, S
<1>8. Sum(g, S) <= 11 * Cardinality(S)
  <2>1. 11 \in Nat /\ \A f \in S : g[f] \in Int /\ g[f] <= 11
    BY <1>7
  <2> QED
    BY ONLY <1>7, <2>1, SumBound
<1>9. OwnSize(k, m) \in Nat
  <2>1. WriteLeaf(k, m) \in Seq(Byte) /\ Len(WriteLeaf(k, m)) = OwnSize(k, m)
    BY LeafLength
  <2> QED
    BY <2>1
<1> DEFINE n == OwnSize(k, m)  x == Sum(g, S)  y == Cardinality(S)
<1>10. /\ n = 0 + x /\ n \in Nat /\ y \in Nat /\ y <= 3 /\ x <= 11 * y
       /\ x \in Int
  BY <1>1, <1>2, <1>7, <1>8, <1>9
<1> HIDE DEF n, x, y
<1>11. n \in Int32
  BY <1>10, SMT DEF Int32
<1> QED
  BY <1>9, <1>11 DEF n

\* An object of class k as its accessors leave it: a field that is not set
\* holds its default.
Object(k, m) ==
  /\ m = [has |-> m.has, val |-> m.val, unknown |-> m.unknown]
  /\ m.has \subseteq Bits(k)
  /\ m.val = [f \in DOMAIN k.fields |-> m.val[f]]
  /\ \A f \in DOMAIN k.has :
       IF k.has[f] \in m.has THEN m.val[f] \in Readable(k.fields[f])
                             ELSE m.val[f] = Zero(k.fields[f])

\* One field that the other side does not know.
Extra(s) ==
  \E number \in FieldNumbers, type \in Scalars :
    \E v \in Readable(type) :
      number >= 16 /\ s = WriteTag(number, type) \o Payload(type, v)

\* A message that is exchanged: its object, at most one unknown field, and a
\* list of records without any.
Message(k, m) ==
  /\ Object(k, m) /\ (m.unknown = <<>> \/ Extra(m.unknown))
  /\ Lists(k) =>
       \E X : /\ m.val.records \in Seq(X)
              /\ \A x \in X : Object(k.record, x) /\ x.unknown = <<>>

\* An added field is a sequence of bytes.
LEMMA ExtraType ==
  ASSUME NEW s, Extra(s)
  PROVE  s \in Seq(Byte)
<1>1. PICK number \in FieldNumbers, type \in Scalars :
             \E v \in Readable(type) :
               s = WriteTag(number, type) \o Payload(type, v)
  BY DEF Extra
<1>2. PICK v \in Readable(type) :
             s = WriteTag(number, type) \o Payload(type, v)
  BY <1>1
<1>3. Payload(type, v) \in Seq(Byte)
  BY ReadableType, PayloadSize
<1>4. WriteTag(number, type) \in Seq(Byte)
  <2> DEFINE tag == 8 * number + WireType(type)
  <2>1. tag \in Int
    BY TagType, Int32Type
  <2>2. WriteTag(number, type) = Varint(tag)
    BY DEF WriteTag
  <2> HIDE DEF tag
  <2> QED
    BY <2>1, <2>2, VarintType
<1> DEFINE a == WriteTag(number, type)  c == Payload(type, v)
<1> HIDE DEF a, c
<1>5. a \o c \in Seq(Byte)
  BY <1>3, <1>4, ConcatProperties DEF a, c
<1> QED
  BY <1>2, <1>5 DEF a, c

\* The fields of an object that are set have values of their types.
LEMMA ObjectHolds ==
  ASSUME NEW k, NEW m, HasTables(k), Object(k, m), m.unknown \in Seq(Byte)
  PROVE  HoldsValues(k, m)
<1> SUFFICES ASSUME NEW f \in DOMAIN k.has
             PROVE  m.val[f] \in TypeValues(k.fields[f])
  BY DEF HoldsValues
<1>1. k.fields[f] \in Scalars
  BY DEF HasTables
<1>2. CASE k.has[f] \in m.has
  BY <1>2, ReadableType DEF Object
<1>3. CASE k.has[f] \notin m.has
  <2>1. m.val[f] = Zero(k.fields[f])
    BY <1>3 DEF Object
  <2>2. CASE k.fields[f] = "string"
    BY <2>1, <2>2 DEF Zero, TypeValues
  <2>3. CASE k.fields[f] = "double"
    BY <2>1, <2>3 DEF Zero, ZeroDouble, TypeValues, Byte
  <2>4. CASE k.fields[f] \in {"int32", "uint32", "uint64"}
    BY <2>1, <2>4 DEF Zero, TypeValues
  <2> QED
    BY <1>1, <2>2, <2>3, <2>4 DEF Scalars
<1> QED
  BY <1>2, <1>3

\* A message can be sized and written.
LEMMA MessageIsWritable ==
  ASSUME NEW k, NEW m, Written(k), Message(k, m),
         Lists(k) => HasTables(k.record) /\ ~Lists(k.record)
  PROVE  Writable(k, m)
<1>1. HasTables(k) /\ ListLast(k)
  BY DEF Written
<1>2. m.unknown \in Seq(Byte)
  <2>1. m.unknown = <<>> \/ Extra(m.unknown)
    BY DEF Message
  <2>2. <<>> \in Seq(Byte)
    OBVIOUS
  <2> QED
    BY <2>1, <2>2, ExtraType
<1>3. HoldsValues(k, m)
  BY <1>1, <1>2, ObjectHolds DEF Message
<1>4. Lists(k) <=> HasRecords(m)
  <2>1. DOMAIN m.val = DOMAIN k.fields
    BY DEF Message, Object
  <2> QED
    BY <1>1, <2>1 DEF ListLast, HasRecords
<1>5. Lists(k) => HoldsRecords(k, m)
  <2> SUFFICES ASSUME Lists(k) PROVE HoldsRecords(k, m)
    OBVIOUS
  <2>1. PICK X : /\ m.val.records \in Seq(X)
                 /\ \A x \in X : Object(k.record, x) /\ x.unknown = <<>>
    BY DEF Message
  <2>2. ASSUME NEW x \in X PROVE HoldsValues(k.record, x)
    <3>1. <<>> \in Seq(Byte)
      OBVIOUS
    <3> QED
      BY <2>1, <3>1, ObjectHolds
  <2> QED
    BY <2>1, <2>2 DEF HoldsRecords
<1> QED
  BY <1>1, <1>3, <1>4, <1>5 DEF Writable

-----------------------------------------------------------------------------
(***************************************************************************)
(* What the reader has of a message when it has read some of its parts.    *)
(***************************************************************************)

PartCount(k, m) == FieldCount(k) + Len(ListOf(k, m)) + 1

\* The fields among the first i parts, and how many records are among them.
Done(k, i) == {k.write[j].field : j \in {l \in 1 .. FieldCount(k) : l <= i}}

ListDone(k, m, i) ==
  IF i <= FieldCount(k) THEN 0
  ELSE IF i - FieldCount(k) <= Len(ListOf(k, m)) THEN i - FieldCount(k)
  ELSE Len(ListOf(k, m))

Partial(k, m, i) ==
  [has |-> {k.has[f] : f \in Done(k, i)} \cap m.has,
   val |-> [f \in DOMAIN k.fields |->
              IF f = "records" THEN SubSeq(ListOf(k, m), 1, ListDone(k, m, i))
              ELSE IF f \in Done(k, i) THEN m.val[f] ELSE Zero(k.fields[f])],
   unknown |-> IF i = PartCount(k, m) THEN m.unknown ELSE <<>>]

\* Each field with a bit is written once, at its place in the table.
LEMMA WrittenFields ==
  ASSUME NEW k, Written(k)
  PROVE  /\ FieldCount(k) \in Nat
         /\ \A j \in 1 .. FieldCount(k) :
              /\ j \in DOMAIN k.write
              /\ k.write[j].field \in DOMAIN k.has
              /\ k.write[j].field # "records"
              /\ k.write[j].bit = k.has[k.write[j].field]
              /\ k.write[j].type = k.fields[k.write[j].field]
              /\ k.write[j].type \in Scalars
              /\ k.write[j].number \in 1 .. 15
         /\ \A i, j \in 1 .. FieldCount(k) :
              k.write[i].field = k.write[j].field => i = j
         /\ \A f \in DOMAIN k.has :
              \E j \in 1 .. FieldCount(k) : k.write[j].field = f
<1> DEFINE q == FieldCount(k)
           n == Len(k.write)
<1>1. HasTables(k) /\ ListLast(k) /\ WritesFields(k) /\ HasBits(k)
  BY DEF Written, HasTables
<1>2. /\ n \in Nat /\ DOMAIN k.write = 1 .. n /\ q \in Nat /\ q <= n
      /\ \A i \in 1 .. q : i \in DOMAIN k.write /\ k.write[i].type # "records"
      /\ Lists(k) => n \in DOMAIN k.write /\ k.write[n].type = "records"
  BY <1>1, FieldsAndList
<1>3. ASSUME NEW j \in 1 .. q
      PROVE  /\ j \in DOMAIN k.write
             /\ k.write[j].field \in DOMAIN k.has
             /\ k.write[j].field # "records"
             /\ k.write[j].bit = k.has[k.write[j].field]
             /\ k.write[j].type = k.fields[k.write[j].field]
             /\ k.write[j].type \in Scalars
             /\ k.write[j].number \in 1 .. 15
  <2>1. j \in DOMAIN k.write /\ k.write[j].type # "records"
    BY <1>2
  <2>2. /\ k.write[j].field \in DOMAIN k.has
        /\ k.write[j].bit = k.has[k.write[j].field]
        /\ k.write[j].type = k.fields[k.write[j].field]
        /\ k.write[j].number \in 1 .. 15
    BY <1>1, <2>1 DEF WritesFields
  <2>3. k.write[j].field # "records" /\ k.write[j].type \in Scalars
    BY <1>1, <2>2 DEF HasBits, HasTables
  <2> QED
    BY <2>1, <2>2, <2>3
<1>4. \A i, j \in 1 .. q : k.write[i].field = k.write[j].field => i = j
  BY <1>1, <1>2 DEF WritesFields
<1>5. ASSUME NEW f \in DOMAIN k.has
      PROVE  \E j \in 1 .. q : k.write[j].field = f
  <2>1. PICK j \in DOMAIN k.write :
               k.write[j].field = f /\ k.write[j].type # "records"
    BY <1>1 DEF WritesFields
  <2>2. j \in 1 .. q
    <3>1. CASE Lists(k)
      <4>1. q = n - 1 /\ j # n
        BY <1>2, <2>1, <3>1 DEF FieldCount
      <4> QED
        BY <1>2, <4>1
    <3>2. CASE ~Lists(k)
      <4>1. q = n
        BY <3>2 DEF FieldCount
      <4> QED
        BY <1>2, <4>1
    <3> QED
      BY <3>1, <3>2
  <2> QED
    BY <2>1, <2>2
<1> QED
  BY <1>2, <1>3, <1>4, <1>5

\* Each part adds the field it writes, until all fields are done.
LEMMA DoneFields ==
  ASSUME NEW k, Written(k), NEW i \in Nat
  PROVE  /\ Done(k, 0) = {}
         /\ i \in 1 .. FieldCount(k) =>
              Done(k, i) = Done(k, i - 1) \cup {k.write[i].field}
         /\ i >= FieldCount(k) => Done(k, i) = DOMAIN k.has
         /\ Done(k, i) \subseteq DOMAIN k.has /\ "records" \notin Done(k, i)
<1> DEFINE q == FieldCount(k)
           F(j) == k.write[j].field
           D(l) == {F(j) : j \in {h \in 1 .. q : h <= l}}
<1>1. /\ q \in Nat
      /\ \A j \in 1 .. q : F(j) \in DOMAIN k.has /\ F(j) # "records"
      /\ \A f \in DOMAIN k.has : \E j \in 1 .. q : F(j) = f
  BY WrittenFields
<1>2. Done(k, 0) = D(0) /\ Done(k, i) = D(i) /\ Done(k, i - 1) = D(i - 1)
  BY DEF Done
<1> HIDE DEF q, F
<1>3. D(0) = {}
  BY <1>1
<1>4. i \in 1 .. q => D(i) = D(i - 1) \cup {F(i)}
  <2> SUFFICES ASSUME i \in 1 .. q PROVE D(i) = D(i - 1) \cup {F(i)}
    OBVIOUS
  <2>1. {h \in 1 .. q : h <= i} = {h \in 1 .. q : h <= i - 1} \cup {i}
    BY <1>1
  <2> QED
    BY <2>1
<1>5. i >= q => D(i) = DOMAIN k.has
  <2> SUFFICES ASSUME i >= q PROVE D(i) = DOMAIN k.has
    OBVIOUS
  <2>1. {h \in 1 .. q : h <= i} = 1 .. q
    BY <1>1
  <2> QED
    BY <1>1, <2>1
<1>6. D(i) \subseteq DOMAIN k.has /\ "records" \notin D(i)
  BY <1>1
<1> HIDE DEF D
<1> QED
  BY <1>2, <1>3, <1>4, <1>5, <1>6 DEF q, F

\* Nothing is read of a new object.
LEMMA PartialStart ==
  ASSUME NEW k, NEW m, Written(k), Len(ListOf(k, m)) \in Nat, NEW r, Reads(r, k)
  PROVE  Partial(k, m, 0) = New(r)
<1> DEFINE q == FieldCount(k)
           v == [f \in DOMAIN k.fields |->
                   IF f = "records" THEN SubSeq(ListOf(k, m), 1, ListDone(k, m, 0))
                   ELSE IF f \in Done(k, 0) THEN m.val[f] ELSE Zero(k.fields[f])]
<1>1. q \in Nat
  BY WrittenFields
<1>2. Done(k, 0) = {}
  BY DoneFields
<1>3. ListDone(k, m, 0) = 0
  BY <1>1 DEF ListDone
<1>4. PartCount(k, m) # 0
  <2> DEFINE n == Len(ListOf(k, m))
  <2>1. n \in Nat /\ PartCount(k, m) = q + n + 1
    BY DEF PartCount
  <2> HIDE DEF n, q
  <2> QED
    BY <1>1, <2>1
<1>5. SubSeq(ListOf(k, m), 1, 0) = <<>>
  OBVIOUS
<1>6. "records" \in DOMAIN k.fields => k.fields["records"] = "records"
  BY DEF Written, HasBits
<1>7. v = [f \in DOMAIN k.fields |-> Zero(k.fields[f])]
  <2>1. \A f \in DOMAIN k.fields : v[f] = Zero(k.fields[f])
    BY <1>2, <1>3, <1>5, <1>6 DEF Zero
  <2> QED
    BY <2>1
<1>8. r.SharedCtor = v
  BY <1>7 DEF Reads, Written, HasBits
<1>9. Partial(k, m, 0) = [has |-> {}, val |-> v, unknown |-> <<>>]
  BY <1>2, <1>4 DEF Partial
<1> HIDE DEF v
<1> QED
  BY <1>8, <1>9 DEF New

\* An object with these three parts.
Obj(has, val, unknown) == [has |-> has, val |-> val, unknown |-> unknown]

\* What set_x leaves in an object.
LEMMA SetFieldIs ==
  ASSUME NEW k, NEW f, NEW v, NEW h, NEW w, NEW u
  PROVE  SetField(k, Obj(h, w, u), f, v)
           = Obj(h \cup {k.has[f]}, [w EXCEPT ![f] = v], u)
<1> DEFINE x == [w EXCEPT ![f] = v]
           m == Obj(h, w, u)
           n == SetField(k, m, f, v)
<1>1. m = [has |-> h, val |-> w, unknown |-> u]
  BY DEF Obj
<1> HIDE DEF m
<1>2. n = [m EXCEPT !.has = h \cup {k.has[f]}, !.val = x]
  BY <1>1 DEF SetField
<1> HIDE DEF x, n
<1>3. n = [has |-> h \cup {k.has[f]}, val |-> x, unknown |-> u]
  BY <1>1, <1>2
<1> QED
  BY <1>3 DEF x, n, m, Obj

\* A field that is present is read by set_x.
LEMMA PartialField ==
  ASSUME NEW k, NEW m, Written(k), Len(ListOf(k, m)) \in Nat,
         NEW r, Reads(r, k), NEW i \in 1 .. FieldCount(k),
         k.write[i].bit \in m.has
  PROVE  SetField(r, Partial(k, m, i - 1), k.write[i].field,
                  m.val[k.write[i].field]) = Partial(k, m, i)
<1> DEFINE f == k.write[i].field
           d == Done(k, i - 1)
           h(s) == {k.has[g] : g \in s} \cap m.has
           l == SubSeq(ListOf(k, m), 1, 0)
           v(s) == [g \in DOMAIN k.fields |->
                      IF g = "records" THEN l
                      ELSE IF g \in s THEN m.val[g] ELSE Zero(k.fields[g])]
<1>1. /\ f \in DOMAIN k.has /\ f # "records" /\ k.write[i].bit = k.has[f]
      /\ FieldCount(k) \in Nat
  BY WrittenFields
<1>2. Done(k, i) = d \cup {f}
  BY DoneFields
<1>3. ListDone(k, m, i) = 0 /\ ListDone(k, m, i - 1) = 0
  BY <1>1 DEF ListDone
<1>4. PartCount(k, m) # i /\ PartCount(k, m) # i - 1
  <2> DEFINE n == Len(ListOf(k, m))
             q == FieldCount(k)
  <2>1. n \in Nat /\ PartCount(k, m) = q + n + 1 /\ q \in Nat /\ i \in 1 .. q
    BY <1>1 DEF PartCount
  <2> HIDE DEF n, q
  <2> QED
    BY <2>1
<1>5. Partial(k, m, i) =
        Obj(h(d \cup {f}), v(d \cup {f}), <<>>)
  BY <1>2, <1>3, <1>4 DEF Partial, Obj
<1>6. Partial(k, m, i - 1) = Obj(h(d), v(d), <<>>)
  BY <1>3, <1>4 DEF Partial, Obj
<1>7. h(d \cup {f}) = h(d) \cup {r.has[f]}
  <2>1. r.has[f] = k.has[f] /\ k.has[f] \in m.has
    BY <1>1 DEF Reads
  <2> HIDE DEF d, f
  <2> QED
    BY <2>1
<1>8. v(d \cup {f}) = [v(d) EXCEPT ![f] = m.val[f]]
  <2>1. f \in DOMAIN k.fields
    BY <1>1 DEF Written, HasBits
  <2> HIDE DEF d, f, l
  <2> QED
    BY <1>1, <2>1
<1> HIDE DEF h, v, d, f
<1> DEFINE h0 == h(d)  v0 == v(d)  x == m.val[f]
           p == Partial(k, m, i - 1)
<1>9. p = Obj(h0, v0, <<>>)
  BY <1>6
<1> HIDE DEF h0, v0, x, p
<1>10. SetField(r, p, f, x)
         = Obj(h0 \cup {r.has[f]}, [v0 EXCEPT ![f] = x], <<>>)
  BY <1>9, SetFieldIs
<1>11. SetField(r, p, f, x) = Partial(k, m, i)
  BY <1>5, <1>7, <1>8, <1>10 DEF h0, v0, x
<1> QED
  BY <1>11 DEF f, x, p

\* What add_records leaves in an object.
LEMMA AddRecordIs ==
  ASSUME NEW h, NEW w, NEW u, "records" \in DOMAIN w, NEW r
  PROVE  AddRecord(Obj(h, w, u), r)
           = Obj(h, [w EXCEPT !["records"] = Append(w["records"], r)], u)
<1> DEFINE l == Append(w["records"], r)
           x == [w EXCEPT !["records"] = l]
           m == Obj(h, w, u)
           n == AddRecord(m, r)
<1>1. m = [has |-> h, val |-> w, unknown |-> u]
  BY DEF Obj
<1> HIDE DEF m
<1>2. n = [m EXCEPT !.val = x]
  BY <1>1 DEF AddRecord
<1> HIDE DEF x, n
<1>3. n = [has |-> h, val |-> x, unknown |-> u]
  BY <1>1, <1>2
<1> QED
  BY <1>3 DEF x, n, m, Obj

\* What of a part is there when all its fields are.
LEMMA ListDoneIs ==
  ASSUME NEW k, NEW m, Written(k), Len(ListOf(k, m)) \in Nat,
         NEW i \in 0 .. Len(ListOf(k, m))
  PROVE  /\ ListDone(k, m, FieldCount(k) + i) = i
         /\ ListDone(k, m, PartCount(k, m)) = Len(ListOf(k, m))
         /\ Done(k, FieldCount(k) + i) = DOMAIN k.has
         /\ Done(k, PartCount(k, m)) = DOMAIN k.has
         /\ FieldCount(k) + i # PartCount(k, m) /\ PartCount(k, m) \in Nat
         /\ FieldCount(k) \in Nat
<1> DEFINE q == FieldCount(k)
           n == Len(ListOf(k, m))
           c == PartCount(k, m)
<1>1. q \in Nat /\ n \in Nat /\ c = q + n + 1 /\ i \in 0 .. n
  BY WrittenFields DEF PartCount
<1>2. /\ ListDone(k, m, q + i) = IF q + i <= q THEN 0
                                 ELSE IF (q + i) - q <= n THEN (q + i) - q ELSE n
      /\ ListDone(k, m, c) = IF c <= q THEN 0
                             ELSE IF c - q <= n THEN c - q ELSE n
  BY DEF ListDone
<1> HIDE DEF q, n, c
<1>3. /\ ListDone(k, m, q + i) = i /\ ListDone(k, m, c) = n
      /\ q + i \in Nat /\ c \in Nat /\ q + i >= q /\ c >= q /\ q + i # c
  BY <1>1, <1>2
<1>4. Done(k, q + i) = DOMAIN k.has /\ Done(k, c) = DOMAIN k.has
  BY <1>3, DoneFields DEF q
<1>5. /\ ListDone(k, m, q + i) = i /\ ListDone(k, m, c) = n
      /\ Done(k, q + i) = DOMAIN k.has /\ Done(k, c) = DOMAIN k.has
      /\ q + i # c /\ c \in Nat /\ q \in Nat
  BY <1>1, <1>3, <1>4
<1> QED
  BY <1>5 DEF q, n, c

\* A message whose fields are all there, with i of its records.
AllFields(k, m, i, u) ==
  Obj({k.has[f] : f \in DOMAIN k.has} \cap m.has,
      [f \in DOMAIN k.fields |->
         IF f = "records" THEN SubSeq(ListOf(k, m), 1, i)
         ELSE IF f \in DOMAIN k.has THEN m.val[f] ELSE Zero(k.fields[f])],
      u)

\* After the fields come the records and the added field.
LEMMA PartialIsAllFields ==
  ASSUME NEW k, NEW m, Written(k), Len(ListOf(k, m)) \in Nat,
         NEW i \in 0 .. Len(ListOf(k, m))
  PROVE  /\ Partial(k, m, FieldCount(k) + i) = AllFields(k, m, i, <<>>)
         /\ Partial(k, m, PartCount(k, m))
              = AllFields(k, m, Len(ListOf(k, m)), m.unknown)
<1> DEFINE q == FieldCount(k)
           n == Len(ListOf(k, m))
           c == PartCount(k, m)
<1>1. /\ ListDone(k, m, q + i) = i /\ ListDone(k, m, c) = n
      /\ Done(k, q + i) = DOMAIN k.has /\ Done(k, c) = DOMAIN k.has
      /\ q + i # c
  BY ListDoneIs
<1> HIDE DEF q, n, c
<1>2. Partial(k, m, q + i) = AllFields(k, m, i, <<>>)
  BY <1>1 DEF Partial, AllFields, Obj, c
<1>3. Partial(k, m, c) = AllFields(k, m, n, m.unknown)
  BY <1>1 DEF Partial, AllFields, Obj, c
<1> QED
  BY <1>2, <1>3 DEF q, n, c

\* A record is read by add_records.
LEMMA PartialRecord ==
  ASSUME NEW k, NEW m, Written(k), Lists(k), NEW X, m.val.records \in Seq(X),
         NEW i \in 1 .. Len(ListOf(k, m))
  PROVE  AddRecord(Partial(k, m, FieldCount(k) + i - 1), ListOf(k, m)[i])
           = Partial(k, m, FieldCount(k) + i)
<1> DEFINE q == FieldCount(k)
           rs == ListOf(k, m)
           n == Len(rs)
<1>1. rs \in Seq(X) /\ n \in Nat /\ i \in 1 .. n /\ i - 1 \in 0 .. n /\ i \in 0 .. n
  BY DEF ListOf
<1>2. q \in Nat /\ "records" \in DOMAIN k.fields
  BY WrittenFields DEF Written, ListLast
<1> DEFINE h == {k.has[f] : f \in DOMAIN k.has} \cap m.has
           v(j) == [f \in DOMAIN k.fields |->
                      IF f = "records" THEN SubSeq(rs, 1, j)
                      ELSE IF f \in DOMAIN k.has THEN m.val[f]
                      ELSE Zero(k.fields[f])]
<1>3. /\ Partial(k, m, q + (i - 1)) = Obj(h, v(i - 1), <<>>)
      /\ Partial(k, m, q + i) = Obj(h, v(i), <<>>)
  BY <1>1, PartialIsAllFields DEF AllFields
<1>4. q + (i - 1) = q + i - 1
  BY <1>1, <1>2
<1>5. Append(SubSeq(rs, 1, i - 1), rs[i]) = SubSeq(rs, 1, i)
  <2> HIDE DEF rs, n, q
  <2>1. /\ SubSeq(rs, 1, i - 1) \in Seq(X) /\ Len(SubSeq(rs, 1, i - 1)) = i - 1
        /\ SubSeq(rs, 1, i) \in Seq(X) /\ Len(SubSeq(rs, 1, i)) = i
        /\ rs[i] \in X
    BY <1>1 DEF n
  <2>2. \A j \in 1 .. i :
          Append(SubSeq(rs, 1, i - 1), rs[i])[j] = SubSeq(rs, 1, i)[j]
    BY <1>1 DEF n
  <2> QED
    BY <1>1, <2>1, <2>2
<1>6. v(i - 1)["records"] = SubSeq(rs, 1, i - 1)
  BY <1>2
<1>7. v(i) = [v(i - 1) EXCEPT !["records"] = SubSeq(rs, 1, i)]
  <2> DEFINE a == SubSeq(rs, 1, i - 1)  b == SubSeq(rs, 1, i)
  <2> HIDE DEF a, b
  <2> QED
    BY <1>2 DEF a, b
<1>8. "records" \in DOMAIN v(i - 1)
  BY <1>2
<1> DEFINE w == v(i - 1)  x == rs[i]
<1> HIDE DEF v, h, rs
<1>9. AddRecord(Obj(h, w, <<>>), x)
        = Obj(h, [w EXCEPT !["records"] = Append(w["records"], x)], <<>>)
  <2> HIDE DEF w, x
  <2> QED
    BY <1>8, AddRecordIs DEF w
<1>10. AddRecord(Obj(h, w, <<>>), x) = Obj(h, v(i), <<>>)
  BY <1>5, <1>6, <1>7, <1>9
<1> QED
  BY <1>3, <1>4, <1>10 DEF rs

\* Unknown fields come last.
LEMMA PartialUnknown ==
  ASSUME NEW k, NEW m, Written(k), Len(ListOf(k, m)) \in Nat,
         m.unknown \in Seq(Byte)
  PROVE  LET p == Partial(k, m, FieldCount(k) + Len(ListOf(k, m)))
         IN  [p EXCEPT !.unknown = @ \o m.unknown]
               = Partial(k, m, PartCount(k, m))
<1> DEFINE p == Partial(k, m, FieldCount(k) + Len(ListOf(k, m)))
           n == Len(ListOf(k, m))
           h == {k.has[f] : f \in DOMAIN k.has} \cap m.has
           v == [f \in DOMAIN k.fields |->
                   IF f = "records" THEN SubSeq(ListOf(k, m), 1, n)
                   ELSE IF f \in DOMAIN k.has THEN m.val[f]
                   ELSE Zero(k.fields[f])]
<1>1. n \in 0 .. n
  OBVIOUS
<1>2. p = Obj(h, v, <<>>) /\ Partial(k, m, PartCount(k, m)) = Obj(h, v, m.unknown)
  BY <1>1, PartialIsAllFields DEF AllFields
<1> HIDE DEF p, h, v
<1>3. p = [has |-> h, val |-> v, unknown |-> <<>>]
  BY <1>2 DEF Obj
<1>4. <<>> \o m.unknown = m.unknown
  OBVIOUS
<1> DEFINE u == m.unknown
           l == <<>> \o u
<1>5. p.unknown = <<>> /\ l = u
  BY <1>3, <1>4
<1>6. [p EXCEPT !.unknown = @ \o u] = [p EXCEPT !.unknown = l]
  BY <1>5
<1> HIDE DEF u, l
<1>7. [p EXCEPT !.unknown = l] = [has |-> h, val |-> v, unknown |-> l]
  BY <1>3
<1> QED
  BY <1>2, <1>5, <1>6, <1>7 DEF p, u, Obj

\* When everything was read, it is the message that was written.
LEMMA PartialAll ==
  ASSUME NEW k, NEW m, Written(k), Object(k, m),
         Lists(k) => \E X : m.val.records \in Seq(X)
  PROVE  Partial(k, m, PartCount(k, m)) = m
<1> DEFINE rs == ListOf(k, m)
           n == Len(rs)
           h == {k.has[f] : f \in DOMAIN k.has} \cap m.has
           v == [f \in DOMAIN k.fields |->
                   IF f = "records" THEN SubSeq(rs, 1, n)
                   ELSE IF f \in DOMAIN k.has THEN m.val[f]
                   ELSE Zero(k.fields[f])]
<1>1. PICK X : rs \in Seq(X)
  <2>1. CASE Lists(k)
    BY <2>1 DEF ListOf
  <2>2. CASE ~Lists(k)
    <3>1. rs = <<>> /\ <<>> \in Seq({})
      BY <2>2 DEF ListOf
    <3> QED
      BY <3>1
  <2> QED
    BY <2>1, <2>2
<1>2. n \in Nat /\ SubSeq(rs, 1, n) = rs
  <2> HIDE DEF rs
  <2>1. n \in Nat
    BY <1>1
  <2>2. SubSeq(rs, 1, n) \in Seq(X) /\ Len(SubSeq(rs, 1, n)) = n
    BY <1>1
  <2>3. \A j \in 1 .. n : SubSeq(rs, 1, n)[j] = rs[j]
    BY <1>1
  <2> QED
    BY <1>1, <2>1, <2>2, <2>3
<1>3. Partial(k, m, PartCount(k, m)) = Obj(h, v, m.unknown)
  <2>1. n \in 0 .. n
    BY <1>2
  <2> QED
    BY <1>2, <2>1, PartialIsAllFields DEF AllFields
<1>4. h = m.has
  BY DEF Object, Bits
<1>5. v = m.val
  <2>1. DOMAIN k.has = DOMAIN k.fields \ {"records"}
    BY DEF Written, HasBits
  <2>2. "records" \in DOMAIN k.fields => rs = m.val["records"]
    BY DEF Written, ListLast, ListOf
  <2>3. m.val = [f \in DOMAIN k.fields |-> m.val[f]]
    BY DEF Object
  <2> HIDE DEF rs
  <2>4. \A f \in DOMAIN k.fields : v[f] = m.val[f]
    BY <1>2, <2>1, <2>2
  <2>5. v = [f \in DOMAIN k.fields |-> v[f]]
    OBVIOUS
  <2> HIDE DEF v
  <2> QED
    BY <2>3, <2>4, <2>5
<1> HIDE DEF h, v
<1> QED
  BY <1>3, <1>4, <1>5 DEF Object, Obj

\* A message, and a class for it, as far as reading it depends on them.
Exchanged(k, m) ==
  /\ Written(k) /\ Message(k, m)
  /\ Lists(k) => Written(k.record) /\ ~Lists(k.record) /\ Short(k.record)

\* What else is known of a message that is exchanged.
LEMMA ExchangedIsWritable ==
  ASSUME NEW k, NEW m, Exchanged(k, m)
  PROVE  /\ Writable(k, m) /\ HasTables(k) /\ HasBits(k) /\ ListLast(k)
         /\ HoldsValues(k, m) /\ Object(k, m)
         /\ Len(ListOf(k, m)) \in Nat /\ FieldCount(k) \in Nat
         /\ PartCount(k, m) \in Nat
<1>1. Writable(k, m)
  BY MessageIsWritable DEF Exchanged, Written
<1>2. HasTables(k) /\ HasBits(k) /\ ListLast(k) /\ Object(k, m)
  BY DEF Exchanged, Written, Message
<1>3. Len(ListOf(k, m)) \in Nat /\ FieldCount(k) \in Nat
  BY <1>1, <1>2, PartsType
<1>4. PartCount(k, m) \in Nat
  <2> DEFINE n == Len(ListOf(k, m))
             q == FieldCount(k)
  <2>1. PartCount(k, m) = q + n + 1
    BY DEF PartCount
  <2> HIDE DEF n, q
  <2> QED
    BY <1>3, <2>1 DEF n, q
<1> QED
  BY <1>1, <1>2, <1>3, <1>4 DEF Writable

\* A field that is present takes bytes, and so does every record.
LEMMA FieldIsThere ==
  ASSUME NEW k, NEW m, Exchanged(k, m), NEW i \in 1 .. FieldCount(k),
         k.write[i].bit \in m.has
  PROVE  WriteField(m, k.write[i]) # <<>>
<1> DEFINE w == k.write[i]
           tag == WriteTag(w.number, w.type)
           load == Payload(w.type, m.val[w.field])
<1>1. /\ w.number \in 1 .. 15 /\ w.type \in Scalars
      /\ m.val[w.field] \in TypeValues(w.type)
  <2>1. /\ w.number \in 1 .. 15 /\ w.type \in Scalars
        /\ w.field \in DOMAIN k.has /\ w.type = k.fields[w.field]
    BY WrittenFields DEF Exchanged
  <2> QED
    BY <2>1, ExchangedIsWritable DEF HoldsValues
<1>2. WriteField(m, w) = tag \o load
  BY DEF WriteField
<1> HIDE DEF w
<1>3. tag \in Seq(Byte) /\ Len(tag) = 1
  BY <1>1, TagSize
<1>4. load \in Seq(Byte)
  BY <1>1, PayloadSize
<1> HIDE DEF tag, load
<1>5. Len(tag \o load) = Len(tag) + Len(load)
  <2>1. tag \in Seq(Byte)
    BY <1>3
  <2> QED
    BY <2>1, <1>4, ConcatProperties
<1>6. Len(load) \in Nat
  BY <1>4
<1>7. Len(WriteField(m, w)) # 0
  BY <1>2, <1>3, <1>5, <1>6
<1> QED
  BY <1>7 DEF w

\* A record is never without bytes, for it has a tag.
LEMMA RecordIsThere ==
  ASSUME NEW k, NEW r, NEW number \in 1 .. 15,
         HasTables(k.record), ~Lists(k.record), HoldsValues(k.record, r)
  PROVE  WriteRecord(k, number, r) # <<>>
<1> DEFINE tag == WriteTag(number, "records")
           b == Varint(OwnSize(k.record, r))
           leaf == WriteLeaf(k.record, r)
<1>1. tag \in Seq(Byte) /\ Len(tag) = 1
  BY TagSize
<1>2. leaf \in Seq(Byte) /\ OwnSize(k.record, r) \in Int
  <2>1. leaf \in Seq(Byte) /\ Len(leaf) = OwnSize(k.record, r)
    BY LeafLength
  <2> QED
    BY <2>1
<1>3. b \in Seq(Byte)
  <2> DEFINE n == OwnSize(k.record, r)
  <2> HIDE DEF n
  <2> QED
    BY <1>2, VarintType DEF n
<1>4. WriteRecord(k, number, r) = (tag \o b) \o leaf
  BY DEF WriteRecord
<1> HIDE DEF tag, b, leaf
<1>5. tag \o b \in Seq(Byte) /\ Len(tag \o b) = Len(tag) + Len(b)
  BY <1>1, <1>3, ConcatProperties
<1>6. Len((tag \o b) \o leaf) = Len(tag \o b) + Len(leaf)
  BY <1>2, <1>5, ConcatProperties
<1>7. Len(b) \in Nat /\ Len(leaf) \in Nat
  BY <1>2, <1>3
<1>8. Len(WriteRecord(k, number, r)) # 0
  BY <1>1, <1>4, <1>5, <1>6, <1>7
<1> QED
  BY <1>8

\* A part that takes no bytes adds nothing to what was read.
LEMMA EmptyPart ==
  ASSUME NEW k, NEW m, Exchanged(k, m), NEW i \in 1 .. PartCount(k, m),
         Parts(k, m)[i] = <<>>
  PROVE  Partial(k, m, i) = Partial(k, m, i - 1)
<1> DEFINE q == FieldCount(k)
           n == Len(ListOf(k, m))
           c == PartCount(k, m)
           u == Parts(k, m)
<1>1. /\ Writable(k, m) /\ Written(k) /\ ListLast(k)
      /\ q \in Nat /\ n \in Nat /\ c = q + n + 1
  BY ExchangedIsWritable DEF Exchanged, PartCount
<1>2. /\ \A j \in 1 .. q : u[j] = WriteField(m, k.write[j])
      /\ \A j \in 1 .. n :
           u[q + j] = WriteRecord(k, ListNumber(k), ListOf(k, m)[j])
      /\ u[q + n + 1] = m.unknown
  BY <1>1, PartsAre
<1>3. CASE i \in 1 .. q
  <2> DEFINE f == k.write[i].field
             d == Done(k, i - 1)
             h(s) == {k.has[g] : g \in s} \cap m.has
             l == SubSeq(ListOf(k, m), 1, 0)
             v(s) == [g \in DOMAIN k.fields |->
                        IF g = "records" THEN l
                        ELSE IF g \in s THEN m.val[g] ELSE Zero(k.fields[g])]
  <2>1. f \in DOMAIN k.has /\ f # "records" /\ k.write[i].bit = k.has[f]
    BY <1>1, <1>3, WrittenFields
  <2>2. k.has[f] \notin m.has
    BY <1>2, <1>3, <2>1, FieldIsThere
  <2>3. m.val[f] = Zero(k.fields[f])
    <3>1. Object(k, m)
      BY ExchangedIsWritable
    <3> HIDE DEF f
    <3> QED
      BY <2>1, <2>2, <3>1 DEF Object
  <2>4. Done(k, i) = d \cup {f}
    BY <1>1, <1>3, DoneFields
  <2>5. ListDone(k, m, i) = 0 /\ ListDone(k, m, i - 1) = 0
    BY <1>1, <1>3 DEF ListDone
  <2>6. c # i /\ c # i - 1
    <3> HIDE DEF c, q, n
    <3> QED
      BY <1>1, <1>3
  <2>7. /\ Partial(k, m, i) = Obj(h(d \cup {f}), v(d \cup {f}), <<>>)
        /\ Partial(k, m, i - 1) = Obj(h(d), v(d), <<>>)
    BY <2>4, <2>5, <2>6 DEF Partial, Obj
  <2> HIDE DEF f, d, l
  <2>8. h(d \cup {f}) = h(d)
    BY <2>2
  <2>9. v(d \cup {f}) = v(d)
    BY <2>3
  <2> QED
    BY <2>7, <2>8, <2>9
<1>4. CASE i \in q + 1 .. q + n
  <2> DEFINE j == i - q
  <2>1. j \in 1 .. n /\ q + j = i
    BY <1>1, <1>4
  <2>2. Lists(k)
    <3>1. CASE ~Lists(k)
      BY <1>1, <2>1, <3>1 DEF ListOf
    <3> QED
      BY <3>1
  <2>3. HoldsRecords(k, m) /\ HasTables(k)
    BY <1>1, <2>2 DEF Writable
  <2>4. HoldsValues(k.record, ListOf(k, m)[j])
    <3>1. PICK X : /\ m.val.records \in Seq(X)
                   /\ \A x \in X : HoldsValues(k.record, x)
      BY <2>3 DEF HoldsRecords
    <3>2. ListOf(k, m) \in Seq(X)
      BY <2>2, <3>1 DEF ListOf
    <3>3. ListOf(k, m)[j] \in X
      BY <2>1, <3>2, ElementOfSeq
    <3> QED
      BY <3>1, <3>3
  <2>5. ListNumber(k) \in 1 .. 15
    BY <1>1, <2>2, <2>3, FieldsAndList
  <2>6. WriteRecord(k, ListNumber(k), ListOf(k, m)[j]) # <<>>
    BY <2>3, <2>4, <2>5, RecordIsThere DEF HoldsRecords
  <2> HIDE DEF j
  <2> QED
    BY <1>2, <2>1, <2>6
<1>5. CASE i = q + n + 1
  <2>1. m.unknown = <<>>
    BY <1>2, <1>5
  <2>2. n \in 0 .. n /\ i - 1 = q + n
    BY <1>1, <1>5
  <2>3. Partial(k, m, q + n) = AllFields(k, m, n, <<>>)
    BY <1>1, <2>2, PartialIsAllFields
  <2>4. Partial(k, m, c) = AllFields(k, m, n, <<>>)
    BY <1>1, <2>1, <2>2, PartialIsAllFields
  <2> QED
    BY <1>1, <1>5, <2>2, <2>3, <2>4
<1>6. i \in 1 .. q \/ i \in q + 1 .. q + n \/ i = q + n + 1
  <2>1. i \in 1 .. c
    OBVIOUS
  <2> HIDE DEF q, n, c
  <2> QED
    BY <1>1, <2>1
<1> QED
  BY <1>3, <1>4, <1>5, <1>6

\* Places go up, and where they do not, nothing is read.
LEMMA PlacesGoUp ==
  ASSUME NEW k, NEW m, Exchanged(k, m), NEW b, NEW p,
         NEW P, Places(P, Parts(k, m), b, p),
         NEW i \in 0 .. PartCount(k, m), NEW j \in 0 .. PartCount(k, m), i <= j
  PROVE  /\ P[i] <= P[j]
         /\ P[i] = P[j] => Partial(k, m, i) = Partial(k, m, j)
<1> DEFINE c == PartCount(k, m)
           u == Parts(k, m)
<1>1. c \in Nat /\ u \in Seq(Seq(Byte)) /\ Len(u) = c
  BY ExchangedIsWritable, PartsAre DEF PartCount
<1>2. /\ P \in [0 .. c -> Nat]
      /\ \A l \in 1 .. c : P[l] = P[l - 1] + Len(u[l])
  BY <1>1 DEF Places
<1>3. \A l \in 1 .. c : Len(u[l]) \in Nat /\ (Len(u[l]) = 0 => u[l] = <<>>)
  <2> HIDE DEF u
  <2>1. \A l \in 1 .. c : u[l] \in Seq(Byte)
    BY <1>1, ElementOfSeq
  <2> QED
    BY <2>1
<1> DEFINE d == j - i
           Good(l) == /\ P[i] <= P[i + l]
                      /\ P[i] = P[i + l] =>
                           Partial(k, m, i) = Partial(k, m, i + l)
           B == {l \in 0 .. d : Good(l)}
<1>4. d \in Nat /\ i + d = j /\ i \in Nat /\ j <= c
  <2>1. i \in 0 .. c /\ j \in 0 .. c /\ i <= j /\ d = j - i
    OBVIOUS
  <2> HIDE DEF c, d
  <2> QED
    BY <1>1, <2>1
<1>5. 0 \in B
  <2>1. i + 0 = i /\ P[i] \in Nat /\ 0 \in 0 .. d
    <3> HIDE DEF c, d
    <3> QED
      BY <1>1, <1>2, <1>4
  <2> QED
    BY <2>1
<1>6. ASSUME NEW l \in 1 .. d, l - 1 \in B
      PROVE  l \in B
  <2> DEFINE x == i + l
  <2>1. /\ x \in 1 .. c /\ x - 1 = i + (l - 1) /\ x - 1 \in 0 .. c
        /\ x \in 0 .. c /\ i \in 0 .. c /\ l \in 0 .. d
    <3> HIDE DEF c, d
    <3> QED
      BY <1>1, <1>4
  <2>2. Good(l - 1)
    BY <1>6
  <2>3. P[i] <= P[x - 1] /\ (P[i] = P[x - 1] =>
                               Partial(k, m, i) = Partial(k, m, x - 1))
    BY <2>1, <2>2
  <2>4. P[x] = P[x - 1] + Len(u[x]) /\ Len(u[x]) \in Nat
    BY <1>2, <1>3, <2>1
  <2>5. P[i] \in Nat /\ P[x - 1] \in Nat /\ P[x] \in Nat
    BY <1>2, <2>1
  <2>6. Len(u[x]) = 0 => Partial(k, m, x) = Partial(k, m, x - 1)
    <3>1. Len(u[x]) = 0 => u[x] = <<>>
      BY <1>3, <2>1
    <3> HIDE DEF x
    <3> QED
      BY <2>1, <3>1, EmptyPart
  <2> HIDE DEF x, u, c
  <2>7. /\ P[i] <= P[x]
        /\ P[i] = P[x] => Partial(k, m, i) = Partial(k, m, x)
    BY <2>3, <2>4, <2>5, <2>6
  <2> QED
    BY <2>1, <2>7 DEF x
<1>7. 0 .. d \subseteq B
  <2> HIDE DEF B, d
  <2> QED
    BY <1>4, <1>5, <1>6, UpTo
<1>8. Good(d)
  BY <1>4, <1>7
<1> QED
  BY <1>4, <1>8

-----------------------------------------------------------------------------
(***************************************************************************)
(* What the reader finds of a part, before the limit e.                    *)
(***************************************************************************)

\* At x the tag of the field f, then the value v, up to y.
FindsField(r, b, x, e, f, v, y) ==
  \E tag :
    /\ ReadTag(b, x, e) =
         IF x + 1 <= e THEN {[tag |-> tag, next |-> x + 1]} ELSE {}
    /\ Cases(r, tag) = {f} /\ r.read[f].type # "records"
    /\ Read(r.read[f].type, b, x + 1, e) =
         IF y <= e THEN {[value |-> v, next |-> y]} ELSE {}

\* At x the tag of a record, its own fields from s on, up to y.
FindsRecord(r, b, x, e, s, y) ==
  \E tag, n :
    /\ ReadTag(b, x, e) =
         IF x + 1 <= e THEN {[tag |-> tag, next |-> x + 1]} ELSE {}
    /\ Cases(r, tag) = {"records"} /\ r.read["records"].type = "records"
    /\ ReadVarint(b, x + 1, e) = IF s <= e THEN {n} ELSE {}
    /\ n \in Nat /\ s = x + 1 + n /\ s + VarintValue(b, x + 1, n) = y

\* At x the tag of a field of which r has no case, which goes up to y.
FindsUnknown(r, b, x, e, y) ==
  \E tag, next :
    /\ next \in Nat /\ x < next /\ next <= y
    /\ ReadTag(b, x, e) =
         IF next <= e THEN {[tag |-> tag, next |-> next]} ELSE {}
    /\ Cases(r, tag) = {}
    /\ SkipField(tag, b, next, e) = IF y <= e THEN {y} ELSE {}

\* The i-th thing that class w writes is a field with a one-byte tag.
ShortTag(w, i) ==
  /\ i \in DOMAIN w.write /\ w.write[i].number \in 1 .. 15
  /\ w.write[i].field \in DOMAIN w.fields

\* The one case of the reader's switch for the tag that writer x writes.
HasCase(r, x) ==
  /\ Cases(r, 8 * x.number + WireType(x.type)) = {x.field}
  /\ r.read[x.field].type = x.type

\* A tag leads to the case that was written for its field, and to no other.
LEMMA CaseOfTag ==
  ASSUME NEW r, NEW w, Reads(r, w), NEW i, ShortTag(w, i)
  PROVE  HasCase(r, w.write[i])
<1>1. /\ i \in DOMAIN w.write /\ w.write[i].number \in 1 .. 15
      /\ w.write[i].field \in DOMAIN w.fields
  BY DEF ShortTag
<1> DEFINE x == w.write[i]
           tag == 8 * x.number + WireType(x.type)
           f == x.field
<1>2. r.read[f] = Case(x.number, tag, x.type)
  BY <1>1 DEF Reads
<1>3. r.read[f].number = x.number /\ r.read[f].tag = tag /\ r.read[f].type = x.type
  BY <1>2 DEF Case
<1>4. f \in DOMAIN r.read
  BY <1>1 DEF Reads
<1>5. \A g \in DOMAIN r.read : r.read[f].number = r.read[g].number => f = g
  BY <1>4 DEF Reads
<1>6. tag <= 127 /\ tag \div 8 = x.number /\ tag % 256 = tag
  <2>1. WireType(x.type) \in 0 .. 2 /\ x.number \in 1 .. 15
    BY <1>1 DEF WireType
  <2> DEFINE n == x.number  t == WireType(x.type)
  <2> HIDE DEF n, t
  <2> QED
    BY <2>1 DEF n, t
<1> HIDE DEF tag, f, x
<1>7. Cases(r, tag) = {f}
  BY <1>3, <1>4, <1>5, <1>6 DEF Cases
<1> QED
  BY <1>3, <1>7 DEF tag, f, x, HasCase

\* A field that is present is found.
LEMMA FieldIsFound ==
  ASSUME NEW k, NEW m, Exchanged(k, m), NEW r, Reads(r, k),
         NEW i \in 1 .. FieldCount(k), k.write[i].bit \in m.has,
         NEW b \in Seq(Byte), NEW x \in Nat, NEW e \in 0 .. Len(b),
         Holds(b, x, WriteField(m, k.write[i]))
  PROVE  LET f == k.write[i].field
             y == x + Len(WriteField(m, k.write[i]))
         IN  FindsField(r, b, x, e, f, m.val[f], y) /\ y \in Nat /\ x < y
<1> DEFINE w == k.write[i]
           f == w.field
           tag == WriteTag(w.number, w.type)
           load == Payload(w.type, m.val[f])
           n == 8 * w.number + WireType(w.type)
           y == x + Len(WriteField(m, w))
<1>1. /\ w.number \in 1 .. 15 /\ w.type \in Scalars /\ i \in DOMAIN k.write
      /\ f \in DOMAIN k.has /\ w.type = k.fields[f] /\ w.bit = k.has[f]
  BY WrittenFields DEF Exchanged
<1>2. m.val[f] \in Readable(w.type)
  <2>1. Object(k, m)
    BY ExchangedIsWritable
  <2> HIDE DEF w, f
  <2>2. w.bit \in m.has
    BY DEF w
  <2> QED
    BY <1>1, <2>1, <2>2 DEF Object
<1>3. f \in DOMAIN k.fields
  BY <1>1 DEF Exchanged, Written, HasBits
<1>4. Cases(r, n) = {f} /\ r.read[f].type = w.type
  <2>1. ShortTag(k, i) /\ Reads(r, k)
    BY <1>1, <1>3 DEF ShortTag
  <2>2. HasCase(r, k.write[i])
    BY ONLY <2>1, CaseOfTag, Zenon
  <2> QED
    BY <2>2 DEF HasCase
<1>5. WriteField(m, w) = tag \o load
  BY DEF WriteField
<1>6. tag \in Seq(Byte) /\ Len(tag) = 1
  BY <1>1, TagSize
<1>7. load \in Seq(Byte)
  <2>1. m.val[f] \in TypeValues(w.type)
    BY <1>2, ReadableType
  <2> HIDE DEF f, w
  <2> QED
    BY <1>1, <2>1, PayloadSize
<1>8. w.type # "records" /\ w.number \in FieldNumbers
  BY <1>1, ShortNumbers DEF Scalars
<1>9. Holds(b, x, tag \o load)
  BY <1>5
<1>10. Holds(b, x, tag) /\ Holds(b, x + 1, load)
  <2> HIDE DEF tag, load
  <2>1. tag \in Seq(Byte)
    BY <1>6
  <2>2. Holds(b, x, tag) /\ Holds(b, x + Len(tag), load)
    BY <1>7, <1>9, <2>1, HoldsBoth
  <2> QED
    BY <1>6, <2>2
<1>11. y = x + 1 + Len(load) /\ Len(load) \in Nat
  <2>1. Len(tag \o load) = Len(tag) + Len(load)
    <3> HIDE DEF tag, load
    <3>1. tag \in Seq(Byte)
      BY <1>6
    <3> QED
      BY <1>7, <3>1, ConcatProperties
  <2>2. Len(load) \in Nat
    BY <1>7
  <2> HIDE DEF tag, load, w
  <2> QED
    BY <1>5, <1>6, <2>1, <2>2
<1>12. ReadTag(b, x, e) =
         IF x + 1 <= e THEN {[tag |-> n, next |-> x + 1]} ELSE {}
  <2> DEFINE number == w.number  type == w.type
  <2>1. number \in FieldNumbers /\ Holds(b, x, WriteTag(number, type))
    BY <1>8, <1>10
  <2>2. Len(WriteTag(number, type)) = 1
    BY <1>6
  <2> HIDE DEF number, type
  <2>3. LET t == 8 * number + WireType(type)
            q == x + Len(WriteTag(number, type))
        IN  ReadTag(b, x, e) =
              IF q <= e THEN {[tag |-> t, next |-> q]} ELSE {}
    BY <2>1, TagIsRead
  <2>4. ReadTag(b, x, e) =
          IF x + 1 <= e
            THEN {[tag |-> 8 * number + WireType(type), next |-> x + 1]} ELSE {}
    BY <2>2, <2>3
  <2> QED
    BY <2>4 DEF number, type
<1>13. Read(w.type, b, x + 1, e) =
         IF y <= e THEN {[value |-> m.val[f], next |-> y]} ELSE {}
  <2> DEFINE type == w.type  v == m.val[f]  p == x + 1
  <2>1. type \in Scalars /\ v \in Readable(type) /\ p \in Nat
    BY <1>1, <1>2
  <2>2. Holds(b, p, Payload(type, v)) /\ y = p + Len(Payload(type, v))
    BY <1>10, <1>11
  <2> HIDE DEF type, v, p, y
  <2>3. LET q == p + Len(Payload(type, v))
        IN  Read(type, b, p, e) =
              IF q <= e THEN {[value |-> v, next |-> q]} ELSE {}
    BY <2>1, <2>2, PayloadIsRead
  <2>4. Read(type, b, p, e) = IF y <= e THEN {[value |-> v, next |-> y]} ELSE {}
    BY <2>2, <2>3
  <2> QED
    BY <2>4 DEF type, v, p, y
<1>14. y \in Nat /\ x < y
  <2> HIDE DEF y, load
  <2> QED
    BY <1>11
<1> HIDE DEF n, y, f, w
<1>15. FindsField(r, b, x, e, f, m.val[f], y)
  BY <1>4, <1>8, <1>12, <1>13 DEF FindsField
<1> QED
  BY <1>14, <1>15 DEF y, f, w

\* A record of the list is a message of its own, without unknown fields.
LEMMA RecordIsExchanged ==
  ASSUME NEW k, NEW m, Exchanged(k, m), Lists(k),
         NEW i \in 1 .. Len(ListOf(k, m))
  PROVE  LET d == ListOf(k, m)[i]
         IN  /\ Exchanged(k.record, d) /\ d.unknown = <<>>
             /\ ~Lists(k.record) /\ Short(k.record) /\ HasTables(k.record)
             /\ HoldsValues(k.record, d)
<1> DEFINE d == ListOf(k, m)[i]
<1>1. /\ Written(k.record) /\ ~Lists(k.record) /\ Short(k.record)
      /\ Message(k, m)
  BY DEF Exchanged
<1>2. PICK X : /\ m.val.records \in Seq(X)
               /\ \A x \in X : Object(k.record, x) /\ x.unknown = <<>>
  BY <1>1 DEF Message
<1>3. d \in X
  <2>1. ListOf(k, m) \in Seq(X)
    BY <1>2 DEF ListOf
  <2> QED
    BY <2>1, ElementOfSeq
<1>4. Object(k.record, d) /\ d.unknown = <<>>
  BY <1>2, <1>3
<1> HIDE DEF d
<1>5. Message(k.record, d)
  BY <1>1, <1>4 DEF Message
<1>6. HasTables(k.record)
  BY <1>1 DEF Written
<1>7. HoldsValues(k.record, d)
  <2>1. d.unknown \in Seq(Byte)
    BY <1>4
  <2> QED
    BY <1>4, <1>6, <2>1, ObjectHolds
<1>8. Exchanged(k.record, d)
  BY <1>1, <1>5 DEF Exchanged
<1> QED
  BY <1>1, <1>4, <1>6, <1>7, <1>8 DEF d

\* A record is found, and its own fields after its length.
LEMMA RecordIsFound ==
  ASSUME NEW k, NEW m, Exchanged(k, m), NEW r, Reads(r, k), Lists(k),
         NEW i \in 1 .. Len(ListOf(k, m)),
         NEW b \in Seq(Byte), NEW x \in Nat, NEW e \in 0 .. Len(b),
         Holds(b, x, WriteRecord(k, ListNumber(k), ListOf(k, m)[i]))
  PROVE  LET d == ListOf(k, m)[i]
             s == x + 1 + VarintLength(OwnSize(k.record, d))
             y == x + Len(WriteRecord(k, ListNumber(k), d))
         IN  /\ FindsRecord(r, b, x, e, s, y)
             /\ Holds(b, s, WriteLeaf(k.record, d))
             /\ y = s + Len(WriteLeaf(k.record, d))
             /\ s \in Nat /\ y \in Nat /\ x < s /\ s <= y
<1> DEFINE d == ListOf(k, m)[i]
           number == ListNumber(k)
           o == OwnSize(k.record, d)
           n == VarintLength(o)
           tag == WriteTag(number, "records")
           c == Varint(o)
           leaf == WriteLeaf(k.record, d)
           all == WriteRecord(k, number, d)
           s == x + 1 + n
           y == x + Len(all)
           t == 8 * number + WireType("records")
<1>1. /\ HasTables(k.record) /\ ~Lists(k.record) /\ Short(k.record)
      /\ HoldsValues(k.record, d) /\ d.unknown = <<>>
  BY RecordIsExchanged
<1>2. o \in Nat /\ o \in Int32 /\ o \in Int
  <2>1. o \in Nat /\ o \in Int32
    BY <1>1, ShortSize
  <2> HIDE DEF o
  <2> QED
    BY <2>1
<1>3. leaf \in Seq(Byte) /\ Len(leaf) = o
  BY <1>1, LeafLength
<1>4. number \in 1 .. 15 /\ number \in FieldNumbers
  <2>1. number \in 1 .. 15
    BY ExchangedIsWritable, FieldsAndList
  <2> HIDE DEF number
  <2> QED
    BY <2>1, ShortNumbers
<1>5. tag \in Seq(Byte) /\ Len(tag) = 1
  BY <1>4, TagSize
<1>6. c \in Seq(Byte) /\ Len(c) = n /\ n \in 1 .. 10
  <2> HIDE DEF o
  <2> QED
    BY <1>2, VarintType, VarintSizeIsLength
<1>7. all = (tag \o c) \o leaf
  BY DEF WriteRecord
<1>8. tag \o c \in Seq(Byte) /\ Len(tag \o c) = 1 + n
  <2> HIDE DEF tag, c, n
  <2>1. tag \in Seq(Byte) /\ c \in Seq(Byte)
    BY <1>5, <1>6
  <2>2. tag \o c \in Seq(Byte) /\ Len(tag \o c) = Len(tag) + Len(c)
    BY <2>1, ConcatProperties
  <2> QED
    BY <1>5, <1>6, <2>2
<1>9. Len(all) = 1 + n + o
  <2> HIDE DEF tag, c, n, leaf, o, all
  <2>1. tag \o c \in Seq(Byte) /\ leaf \in Seq(Byte)
    BY <1>3, <1>8
  <2>2. Len((tag \o c) \o leaf) = Len(tag \o c) + Len(leaf)
    BY <2>1, ConcatProperties
  <2> QED
    BY <1>3, <1>7, <1>8, <2>2
<1>10. /\ Holds(b, x, tag) /\ Holds(b, x + 1, c)
       /\ Holds(b, s, leaf)
  <2>1. Holds(b, x, (tag \o c) \o leaf)
    BY <1>7
  <2> HIDE DEF tag, c, n, leaf, o, all
  <2>2. tag \o c \in Seq(Byte) /\ leaf \in Seq(Byte)
    BY <1>3, <1>8
  <2>3. Holds(b, x, tag \o c) /\ Holds(b, x + Len(tag \o c), leaf)
    BY <2>1, <2>2, HoldsBoth
  <2>4. tag \in Seq(Byte) /\ c \in Seq(Byte)
    BY <1>5, <1>6
  <2>5. Holds(b, x, tag) /\ Holds(b, x + Len(tag), c)
    BY <2>3, <2>4, HoldsBoth
  <2>6. x + (1 + n) = s
    BY <1>6
  <2> QED
    BY <1>5, <1>8, <2>3, <2>5, <2>6
<1>11. /\ s \in Nat /\ y \in Nat /\ x < s /\ s <= y /\ y = s + o
  <2> HIDE DEF n, o, all
  <2> QED
    BY <1>2, <1>6, <1>9
<1>12. ReadTag(b, x, e) =
         IF x + 1 <= e THEN {[tag |-> t, next |-> x + 1]} ELSE {}
  <2> DEFINE type == "records"
  <2>1. Holds(b, x, WriteTag(number, type)) /\ Len(WriteTag(number, type)) = 1
    BY <1>5, <1>10
  <2> HIDE DEF type, number
  <2>2. LET q == x + Len(WriteTag(number, type))
        IN  ReadTag(b, x, e) =
              IF q <= e THEN {[tag |-> 8 * number + WireType(type), next |-> q]}
                        ELSE {}
    BY <1>4, <2>1, TagIsRead
  <2>3. ReadTag(b, x, e) =
          IF x + 1 <= e
            THEN {[tag |-> 8 * number + WireType(type), next |-> x + 1]} ELSE {}
    BY <2>1, <2>2
  <2> QED
    BY <2>3 DEF type
<1>13. Cases(r, t) = {"records"} /\ r.read["records"].type = "records"
  <2> DEFINE j == Len(k.write)
  <2>1. HasTables(k) /\ ListLast(k) /\ HasBits(k)
    BY ExchangedIsWritable
  <2>2. j \in DOMAIN k.write /\ k.write[j].type = "records"
    BY <2>1, FieldsAndList
  <2>3. k.write[j].number = number
    BY DEF ListNumber
  <2>4. k.write[j].field = "records" /\ "records" \in DOMAIN k.fields
    BY <2>1, <2>2 DEF HasTables, WritesFields, ListLast
  <2> HIDE DEF j, number
  <2>5. k.write[j].number \in 1 .. 15
    BY <1>4, <2>3
  <2>6. Reads(r, k) /\ ShortTag(k, j)
    BY <2>2, <2>4, <2>5 DEF ShortTag
  <2>7. HasCase(r, k.write[j])
    BY ONLY <2>6, CaseOfTag, Zenon
  <2> QED
    BY <2>2, <2>3, <2>4, <2>7 DEF HasCase
<1>14. /\ ReadVarint(b, x + 1, e) = IF s <= e THEN {n} ELSE {}
       /\ VarintValue(b, x + 1, n) = o
  <2> DEFINE p == x + 1
  <2>1. p \in Nat /\ e \in Int /\ Holds(b, p, Varint(o)) /\ s = p + VarintLength(o)
    BY <1>10
  <2> HIDE DEF o, p, s
  <2>2. ReadVarint(b, p, e) = IF p + VarintLength(o) <= e
                                THEN {VarintLength(o)} ELSE {}
    BY <1>2, <2>1, VarintIsRead
  <2>3. VarintValue(b, p, VarintLength(o)) = o
    BY <1>2, <2>1, VarintIsValue
  <2> QED
    BY <2>1, <2>2, <2>3 DEF p
<1>15. n \in Nat /\ s = x + 1 + n /\ s + VarintValue(b, x + 1, n) = y
  BY <1>6, <1>11, <1>14
<1> HIDE DEF t, n, y, s
<1>16. FindsRecord(r, b, x, e, s, y)
  BY <1>12, <1>13, <1>14, <1>15 DEF FindsRecord
<1> QED
  BY <1>3, <1>10, <1>11, <1>16 DEF s, y, n

\* An added field is found, and passed over.
LEMMA UnknownIsFound ==
  ASSUME NEW r, NEW u, Extra(u),
         NEW b \in Seq(Byte), NEW x \in Nat, NEW e \in 0 .. Len(b),
         Holds(b, x, u)
  PROVE  FindsUnknown(r, b, x, e, x + Len(u)) /\ x < x + Len(u)
<1>1. PICK number \in FieldNumbers, type \in Scalars :
        \E v \in Readable(type) :
          number >= 16 /\ u = WriteTag(number, type) \o Payload(type, v)
  BY DEF Extra
<1>2. PICK v \in Readable(type) :
        number >= 16 /\ u = WriteTag(number, type) \o Payload(type, v)
  BY <1>1
<1> DEFINE tag == WriteTag(number, type)
           load == Payload(type, v)
           n == 8 * number + WireType(type)
           next == x + Len(tag)
           y == x + Len(u)
<1>3. load \in Seq(Byte)
  BY ReadableType, PayloadSize
<1>4. tag \in Seq(Byte)
  <2>1. n \in Int
    BY TagType, Int32Type
  <2>2. tag = Varint(n)
    BY DEF WriteTag
  <2> HIDE DEF n
  <2> QED
    BY <2>1, <2>2, VarintType
<1>5. Holds(b, x, tag) /\ Holds(b, next, load)
  <2>1. Holds(b, x, tag \o load)
    BY <1>2
  <2> HIDE DEF tag, load
  <2> QED
    BY <1>3, <1>4, <2>1, HoldsBoth
<1>6. /\ ReadTag(b, x, e) =
           IF next <= e THEN {[tag |-> n, next |-> next]} ELSE {}
      /\ next \in Nat /\ x < next
  BY <1>5, TagIsRead
<1>7. y = next + Len(load) /\ Len(load) \in Nat
  <2>1. Len(tag \o load) = Len(tag) + Len(load)
    <3> HIDE DEF tag, load
    <3> QED
      BY <1>3, <1>4, ConcatProperties
  <2>2. Len(load) \in Nat /\ Len(tag) \in Nat
    BY <1>3, <1>4
  <2>3. u = tag \o load
    BY <1>2
  <2> HIDE DEF tag, load
  <2> QED
    BY <2>1, <2>2, <2>3
<1>8. Cases(r, n) = {}
  <2>1. WireType(type) \in 0 .. 2 /\ number \in Nat /\ number >= 16
    BY <1>2, FieldNumbersType DEF WireType
  <2>2. ~(n <= 127)
    BY <2>1
  <2> HIDE DEF n
  <2> QED
    BY <2>2 DEF Cases
<1>9. SkipField(n, b, next, e) = IF y <= e THEN {y} ELSE {}
  <2>1. number \in Nat
    BY FieldNumbersType
  <2>2. next \in Nat
    BY <1>6
  <2> HIDE DEF next, load
  <2>3. LET q == next + Len(Payload(type, v))
        IN  SkipField(n, b, next, e) = IF q <= e THEN {q} ELSE {}
    BY <1>5, <2>1, <2>2, PayloadIsSkipped DEF load
  <2> QED
    BY <1>7, <2>3 DEF load
<1>10. next <= y /\ x < y
  <2> HIDE DEF next, y, load
  <2> QED
    BY <1>6, <1>7
<1> HIDE DEF n, next, y
<1>11. FindsUnknown(r, b, x, e, y)
  BY <1>6, <1>8, <1>9, <1>10 DEF FindsUnknown
<1> QED
  BY <1>10, <1>11 DEF y

-----------------------------------------------------------------------------
(***************************************************************************)
(* Reading a message part by part.                                         *)
(***************************************************************************)

EndOf(k, m, p) == p + Len(SerializeWithCachedSizes(k, m))

\* The reader of m, whose bytes begin at p, is at x and has read msg.
Reached(k, m, b, p, x, msg) ==
  \E P : \E i \in 0 .. PartCount(k, m) :
    /\ Places(P, Parts(k, m), b, p) /\ P[PartCount(k, m)] = EndOf(k, m, p)
    /\ x = P[i] /\ msg = Partial(k, m, i)

\* What comes next is a field, a record or an added field, and one part more
\* has been read after it.
FieldTurn(k, m, r, b, p, x, e, msg) ==
  \E f, v, y :
    /\ FindsField(r, b, x, e, f, v, y)
    /\ y \in Nat /\ x < y /\ y <= EndOf(k, m, p)
    /\ Reached(k, m, b, p, y, SetField(r, msg, f, v))

RecordTurn(k, m, r, b, p, x, e, msg) ==
  /\ Lists(k)
  /\ \E i \in 1 .. Len(ListOf(k, m)) : \E s, y :
       /\ FindsRecord(r, b, x, e, s, y)
       /\ Holds(b, s, WriteLeaf(k.record, ListOf(k, m)[i]))
       /\ y = s + Len(WriteLeaf(k.record, ListOf(k, m)[i]))
       /\ s \in Nat /\ y \in Nat /\ x < s /\ s <= y /\ y <= EndOf(k, m, p)
       /\ Reached(k, m, b, p, y, AddRecord(msg, ListOf(k, m)[i]))

UnknownTurn(k, m, r, b, p, x, e, msg) ==
  \E y :
    /\ FindsUnknown(r, b, x, e, y)
    /\ y \in Nat /\ x < y /\ y <= EndOf(k, m, p)
    /\ Reached(k, m, b, p, y,
               [msg EXCEPT !.unknown = @ \o SubSeq(b, x + 1, y)])

\* The reader begins with a new object.
LEMMA ReachedStart ==
  ASSUME NEW k, NEW m, Exchanged(k, m), NEW r, Reads(r, k), NEW b, NEW p \in Nat,
         Holds(b, p, SerializeWithCachedSizes(k, m))
  PROVE  Reached(k, m, b, p, p, New(r))
<1> DEFINE c == PartCount(k, m)
           u == Parts(k, m)
<1>1. Spans(u, b, p, EndOf(k, m, p))
  BY ExchangedIsWritable, PartsSpan DEF EndOf
<1>2. PICK P : Places(P, u, b, p) /\ P[Len(u)] = EndOf(k, m, p)
  BY <1>1 DEF Spans
<1>3. Len(u) = c /\ c \in Nat
  BY ExchangedIsWritable, PartsAre DEF PartCount
<1>4. P[0] = p
  BY <1>2 DEF Places
<1>5. Partial(k, m, 0) = New(r)
  BY ExchangedIsWritable, PartialStart DEF Exchanged
<1>6. 0 \in 0 .. c
  <2> HIDE DEF c
  <2> QED
    BY <1>3
<1> HIDE DEF u, c
<1> QED
  BY <1>2, <1>3, <1>4, <1>5, <1>6 DEF Reached, u, c

\* It stays within the message, and at its end it has all of it.
LEMMA ReachedWithin ==
  ASSUME NEW k, NEW m, Exchanged(k, m), NEW b, NEW p \in Nat, NEW x, NEW msg,
         Reached(k, m, b, p, x, msg)
  PROVE  /\ x \in Nat /\ p <= x /\ x <= EndOf(k, m, p)
         /\ x = EndOf(k, m, p) => msg = m
<1> DEFINE c == PartCount(k, m)
<1>1. PICK P : \E i \in 0 .. c :
        /\ Places(P, Parts(k, m), b, p) /\ P[c] = EndOf(k, m, p)
        /\ x = P[i] /\ msg = Partial(k, m, i)
  BY DEF Reached
<1>2. PICK i \in 0 .. c :
        /\ Places(P, Parts(k, m), b, p) /\ P[c] = EndOf(k, m, p)
        /\ x = P[i] /\ msg = Partial(k, m, i)
  BY <1>1
<1>3. Len(Parts(k, m)) = c /\ c \in Nat
  BY ExchangedIsWritable, PartsAre DEF PartCount
<1>4. i \in Nat /\ 0 \in 0 .. c /\ c \in 0 .. c /\ 0 <= i /\ i <= c
  <2>1. i \in 0 .. c
    OBVIOUS
  <2> HIDE DEF c
  <2> QED
    BY <1>3, <2>1
<1>5. P[0] = p /\ P \in [0 .. c -> Nat]
  BY <1>2, <1>3 DEF Places
<1>6. P[0] <= P[i]
  BY <1>2, <1>4, PlacesGoUp
<1>7. P[i] <= P[c] /\ (P[i] = P[c] => Partial(k, m, i) = Partial(k, m, c))
  BY <1>2, <1>4, PlacesGoUp
<1>8. Partial(k, m, c) = m
  <2>1. Lists(k) => \E X : m.val.records \in Seq(X)
    BY DEF Exchanged, Message
  <2> QED
    BY <2>1, ExchangedIsWritable, PartialAll DEF Exchanged
<1> HIDE DEF c
<1> QED
  BY <1>2, <1>4, <1>5, <1>6, <1>7, <1>8

\* Before its end there is a part left that takes bytes.
LEMMA ReachedLast ==
  ASSUME NEW k, NEW m, Exchanged(k, m), NEW b, NEW p \in Nat, NEW x, NEW msg,
         Reached(k, m, b, p, x, msg), x # EndOf(k, m, p)
  PROVE  \E P : \E j \in 1 .. PartCount(k, m) :
           /\ Places(P, Parts(k, m), b, p)
           /\ P[PartCount(k, m)] = EndOf(k, m, p)
           /\ x = P[j - 1] /\ msg = Partial(k, m, j - 1)
           /\ Parts(k, m)[j] # <<>>
<1> DEFINE c == PartCount(k, m)
           u == Parts(k, m)
<1>1. PICK P : \E i \in 0 .. c :
        /\ Places(P, Parts(k, m), b, p) /\ P[c] = EndOf(k, m, p)
        /\ x = P[i] /\ msg = Partial(k, m, i)
  BY DEF Reached
<1>2. PICK i \in 0 .. c :
        /\ Places(P, Parts(k, m), b, p) /\ P[c] = EndOf(k, m, p)
        /\ x = P[i] /\ msg = Partial(k, m, i)
  BY <1>1
<1>3. Len(u) = c /\ c \in Nat
  BY ExchangedIsWritable, PartsAre DEF PartCount
<1> DEFINE S == {l \in 0 .. c : P[l] = x}
           a == Max(S)
<1>4. a \in S /\ \A l \in S : a >= l
  <2>1. i \in S
    BY <1>2
  <2>2. S \in SUBSET (0 .. c) /\ S # {}
    BY <2>1
  <2> HIDE DEF S, c
  <2> QED
    BY <1>3, <2>2, MaxIsThere
<1>5. i \in S
  BY <1>2
<1> HIDE DEF a
<1>6. /\ a \in 0 .. c /\ P[a] = x /\ i <= a
  <2>1. i \in 0 .. c /\ a \in 0 .. c /\ P[a] = x /\ a >= i
    BY <1>4, <1>5
  <2> HIDE DEF c
  <2> QED
    BY <1>3, <2>1
<1>7. Partial(k, m, a) = msg
  BY <1>2, <1>6, PlacesGoUp
<1>8. a # c
  BY <1>2, <1>6
<1>9. a + 1 \in 1 .. c /\ (a + 1) - 1 = a /\ a + 1 \in 0 .. c /\ ~(a >= a + 1)
  <2>1. a \in 0 .. c
    BY <1>6
  <2> HIDE DEF c
  <2> QED
    BY <1>3, <1>8, <2>1
<1>10. P[a + 1] # x
  BY <1>4, <1>9
<1>11. P[a + 1] = P[a] + Len(u[a + 1]) /\ P[a] \in Nat
  BY <1>2, <1>3, <1>6, <1>9 DEF Places
<1>12. u[a + 1] # <<>>
  <2>1. Len(<<>>) = 0
    OBVIOUS
  <2> HIDE DEF u, c
  <2> QED
    BY <1>6, <1>10, <1>11, <2>1
<1> DEFINE j == a + 1
<1>13. j \in 1 .. c /\ x = P[j - 1] /\ msg = Partial(k, m, j - 1) /\ u[j] # <<>>
  BY <1>6, <1>7, <1>9, <1>12
<1> HIDE DEF j
<1> QED
  BY <1>2, <1>13

\* Between two fields of a message, the next turn of the loop of
\* MergePartialFromCodedStream finds the next field, record or unknown field
\* that SerializeWithCachedSizes wrote and, if the limit leaves it whole, has
\* read that much more of the message.
THEOREM ReachedTurn ==
  ASSUME NEW k, NEW m, Exchanged(k, m), NEW r, Reads(r, k),
         NEW b \in Seq(Byte), NEW p \in Nat, NEW e \in 0 .. Len(b),
         EndOf(k, m, p) <= Len(b), EndOf(k, m, p) \in Nat, NEW x, NEW msg,
         Reached(k, m, b, p, x, msg), x # EndOf(k, m, p)
  PROVE  \/ FieldTurn(k, m, r, b, p, x, e, msg)
         \/ RecordTurn(k, m, r, b, p, x, e, msg)
         \/ UnknownTurn(k, m, r, b, p, x, e, msg)
<1> DEFINE q == FieldCount(k)
           n == Len(ListOf(k, m))
           c == PartCount(k, m)
           u == Parts(k, m)
<1>1. PICK P : \E j \in 1 .. c :
        /\ Places(P, u, b, p) /\ P[c] = EndOf(k, m, p)
        /\ x = P[j - 1] /\ msg = Partial(k, m, j - 1) /\ u[j] # <<>>
  BY ReachedLast
<1>2. PICK j \in 1 .. c :
        /\ Places(P, u, b, p) /\ P[c] = EndOf(k, m, p)
        /\ x = P[j - 1] /\ msg = Partial(k, m, j - 1) /\ u[j] # <<>>
  BY <1>1
<1>3. /\ Writable(k, m) /\ Written(k) /\ ListLast(k)
      /\ q \in Nat /\ n \in Nat /\ c = q + n + 1 /\ Len(u) = c
  BY ExchangedIsWritable, PartsAre DEF Exchanged, PartCount
<1>4. /\ \A l \in 1 .. q : u[l] = WriteField(m, k.write[l])
      /\ \A l \in 1 .. n :
           u[q + l] = WriteRecord(k, ListNumber(k), ListOf(k, m)[l])
      /\ u[q + n + 1] = m.unknown
  BY <1>3, PartsAre
<1> DEFINE y == P[j]
<1>5. /\ j - 1 \in 0 .. c /\ j \in 0 .. c /\ c \in 0 .. c /\ j <= c
  <2>1. j \in 1 .. c
    OBVIOUS
  <2> HIDE DEF c, q, n
  <2> QED
    BY <1>3, <2>1
<1>6. /\ y = x + Len(u[j]) /\ Holds(b, x, u[j])
      /\ x \in Nat /\ y \in Nat
  BY <1>2, <1>3, <1>5 DEF Places
<1>7. y <= EndOf(k, m, p)
  BY <1>2, <1>5, PlacesGoUp
<1>8. Reached(k, m, b, p, y, Partial(k, m, j))
  BY <1>2, <1>5 DEF Reached
<1>9. CASE j \in 1 .. q
  <2> DEFINE w == k.write[j]
             f == w.field
             v == m.val[f]
  <2>1. u[j] = WriteField(m, w)
    BY <1>4, <1>9
  <2>2. w.bit \in m.has
    BY <1>2, <2>1 DEF WriteField
  <2>3. SetField(r, msg, f, v) = Partial(k, m, j)
    BY <1>2, <1>3, <1>9, <2>2, PartialField
  <2>4. FindsField(r, b, x, e, f, v, y) /\ x < y
    <3>1. Holds(b, x, WriteField(m, w)) /\ y = x + Len(WriteField(m, w))
      BY <1>6, <2>1
    <3> HIDE DEF y
    <3> QED
      BY <1>6, <1>9, <2>2, <3>1, FieldIsFound
  <2>5. Reached(k, m, b, p, y, SetField(r, msg, f, v))
    BY <1>8, <2>3
  <2> HIDE DEF w, f, v, y
  <2> QED
    BY <1>6, <1>7, <2>4, <2>5 DEF FieldTurn
<1>10. CASE j \in q + 1 .. q + n
  <2> DEFINE i == j - q
             d == ListOf(k, m)[i]
             number == ListNumber(k)
             s == x + 1 + VarintLength(OwnSize(k.record, d))
  <2>1. i \in 1 .. n /\ q + i = j /\ q + i - 1 = j - 1
    <3> HIDE DEF q, n
    <3> QED
      BY <1>3, <1>10
  <2>2. Lists(k)
    <3>1. CASE ~Lists(k)
      BY <1>3, <2>1, <3>1 DEF ListOf
    <3> QED
      BY <3>1
  <2>3. u[j] = WriteRecord(k, number, d)
    BY <1>4, <2>1
  <2>4. AddRecord(msg, d) = Partial(k, m, j)
    <3>1. PICK X : m.val.records \in Seq(X)
      BY <2>2 DEF Exchanged, Message
    <3> HIDE DEF i
    <3>2. AddRecord(Partial(k, m, q + i - 1), ListOf(k, m)[i])
            = Partial(k, m, q + i)
      BY <1>3, <2>1, <2>2, <3>1, PartialRecord
    <3> QED
      BY <1>2, <2>1, <3>2
  <2>5. /\ FindsRecord(r, b, x, e, s, y)
        /\ Holds(b, s, WriteLeaf(k.record, d))
        /\ y = s + Len(WriteLeaf(k.record, d))
        /\ s \in Nat /\ x < s /\ s <= y
    <3> DEFINE z == x + Len(WriteRecord(k, number, d))
    <3>1. Holds(b, x, WriteRecord(k, number, d)) /\ y = z
      BY <1>6, <2>3
    <3>2. x \in Nat /\ i \in 1 .. Len(ListOf(k, m))
      BY <1>6, <2>1
    <3> HIDE DEF i
    <3>3. /\ FindsRecord(r, b, x, e, s, z)
          /\ Holds(b, s, WriteLeaf(k.record, d))
          /\ z = s + Len(WriteLeaf(k.record, d))
          /\ s \in Nat /\ x < s /\ s <= z
      BY ONLY Exchanged(k, m), Reads(r, k), b \in Seq(Byte), e \in 0 .. Len(b),
              <2>2, <3>1, <3>2, RecordIsFound
    <3> HIDE DEF y, z, s
    <3> QED
      BY <3>1, <3>3
  <2>6. Reached(k, m, b, p, y, AddRecord(msg, d))
    BY <1>8, <2>4
  <2> HIDE DEF i, s, y
  <2> QED
    BY <1>6, <1>7, <2>1, <2>2, <2>5, <2>6 DEF RecordTurn
<1>11. CASE j = q + n + 1
  <2>1. u[j] = m.unknown /\ m.unknown # <<>>
    BY <1>2, <1>4, <1>11
  <2>2. Extra(m.unknown)
    BY <2>1 DEF Exchanged, Message
  <2>3. m.unknown \in Seq(Byte)
    BY <2>2, ExtraType
  <2>4. Holds(b, x, m.unknown) /\ y = x + Len(m.unknown)
    BY <1>6, <2>1
  <2> HIDE DEF y
  <2>5. FindsUnknown(r, b, x, e, y) /\ x < y
    BY <1>6, <2>2, <2>4, UnknownIsFound
  <2>6. SubSeq(b, x + 1, y) = m.unknown
    <3>1. y <= Len(b)
      BY <1>6, <1>7
    <3> QED
      BY <1>6, <2>3, <2>4, <3>1, HeldIsSubSeq
  <2>7. [msg EXCEPT !.unknown = @ \o SubSeq(b, x + 1, y)] = Partial(k, m, j)
    <3>1. j - 1 = q + n /\ j = c
      BY <1>3, <1>11
    <3>2. msg = Partial(k, m, q + n)
      BY <1>2, <3>1
    <3>3. LET h == Partial(k, m, q + n)
          IN  [h EXCEPT !.unknown = @ \o m.unknown] = Partial(k, m, c)
      BY <1>3, <2>3, PartialUnknown
    <3> HIDE DEF q, n, c
    <3> QED
      BY <2>6, <3>1, <3>2, <3>3
  <2>8. Reached(k, m, b, p, y,
                [msg EXCEPT !.unknown = @ \o SubSeq(b, x + 1, y)])
    BY <1>8, <2>7
  <2> QED
    BY <1>6, <1>7, <2>5, <2>8 DEF UnknownTurn
<1>12. j \in 1 .. q \/ j \in q + 1 .. q + n \/ j = q + n + 1
  <2>1. j \in 1 .. c
    OBVIOUS
  <2> HIDE DEF q, n, c
  <2> QED
    BY <1>3, <2>1
<1> QED
  BY <1>9, <1>10, <1>11, <1>12

\* Before the end of a message without added fields, one of its fields that
\* are set is missing.
LEMMA ReachedNotAll ==
  ASSUME NEW k, NEW m, Exchanged(k, m), ~Lists(k), m.unknown = <<>>,
         NEW b, NEW p \in Nat, NEW x, NEW msg,
         Reached(k, m, b, p, x, msg), x # EndOf(k, m, p)
  PROVE  ~(Bits(k) \subseteq msg.has)
<1> DEFINE q == FieldCount(k)
           c == PartCount(k, m)
<1>1. PICK P : \E j \in 1 .. c :
        msg = Partial(k, m, j - 1) /\ Parts(k, m)[j] # <<>>
  BY ReachedLast
<1>2. PICK j \in 1 .. c :
        msg = Partial(k, m, j - 1) /\ Parts(k, m)[j] # <<>>
  BY <1>1
<1>3. /\ q \in Nat /\ c = q + 1 /\ Parts(k, m)[q + 1] = <<>>
  <2>1. ListOf(k, m) = <<>>
    BY DEF ListOf
  <2>2. Len(ListOf(k, m)) = 0 /\ q \in Nat /\ Writable(k, m) /\ ListLast(k)
    BY <2>1, ExchangedIsWritable
  <2> HIDE DEF q
  <2>3. q + 0 + 1 = q + 1
    BY <2>2
  <2> QED
    BY <2>2, <2>3, PartsAre DEF PartCount, q
<1>4. j \in 1 .. q /\ j \in Nat
  <2>1. j \in 1 .. c /\ j # q + 1
    BY <1>2, <1>3
  <2> HIDE DEF c, q
  <2> QED
    BY <1>3, <2>1
<1> DEFINE f == k.write[j].field
<1>5. f \in DOMAIN k.has
  BY <1>4, WrittenFields DEF Exchanged
<1>6. f \notin Done(k, j - 1)
  <2> SUFFICES ASSUME NEW l \in 1 .. q, l <= j - 1, k.write[l].field = f
               PROVE  FALSE
    BY DEF Done
  <2>1. l = j
    BY <1>4, WrittenFields DEF Exchanged
  <2> HIDE DEF q
  <2> QED
    BY <1>4, <2>1
<1>7. \A g \in Done(k, j - 1) : g \in DOMAIN k.has
  BY WrittenFields DEF Done, Exchanged
<1>8. \A g \in DOMAIN k.has : k.has[g] = k.has[f] => g = f
  BY <1>5, ExchangedIsWritable DEF HasBits
<1>9. msg.has = {k.has[g] : g \in Done(k, j - 1)} \cap m.has
  BY <1>2 DEF Partial
<1> HIDE DEF f
<1>10. k.has[f] \in Bits(k) /\ k.has[f] \notin msg.has
  BY <1>5, <1>6, <1>7, <1>8, <1>9 DEF Bits
<1> QED
  BY <1>10
=============================================================================
