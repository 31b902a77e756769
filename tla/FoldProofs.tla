------------------------------ MODULE FoldProofs ------------------------------
(***************************************************************************)
(* What SumFunction adds up and FlattenSeq joins, proved with TLAPS.  Both *)
(* are defined by recursion over data.  An induction is stated here as a   *)
(* set that holds the start and is closed under the step, which needs no   *)
(* operator as a parameter.                                                *)
(***************************************************************************)
EXTENDS SequencesExt, FiniteSetTheorems, SequenceTheorems, TLAPS

-----------------------------------------------------------------------------
(***************************************************************************)
(* Induction.                                                              *)
(***************************************************************************)

\* Over the numbers.
LEMMA NatInduct ==
  ASSUME NEW B, 0 \in B, \A n \in Nat : n \in B => n + 1 \in B
  PROVE  Nat \subseteq B
<1>1. SUFFICES ASSUME Nat \ B # {} PROVE FALSE
  OBVIOUS
<1>2. PICK x \in Nat \ B :
        \A y \in Nat \ B : <<y, x>> \notin OpToRel(<, Nat)
  BY <1>1, NatLessThanWellFounded, WFMin, Nat \ B \subseteq Nat
<1>3. \A y \in Nat : y < x => y \in B
  BY <1>2 DEF OpToRel
<1>4. x \in Nat /\ x \notin B
  BY <1>2
<1>5. x - 1 \in Nat /\ x - 1 < x /\ (x - 1) + 1 = x
  BY <1>4
<1> QED
  BY <1>3, <1>4, <1>5

\* Over the places of a sequence.
LEMMA UpTo ==
  ASSUME NEW n \in Nat, NEW B, 0 \in B,
         \A i \in 1 .. n : i - 1 \in B => i \in B
  PROVE  0 .. n \subseteq B
<1> DEFINE C == {i \in Nat : i <= n => i \in B}
<1>1. 0 \in C
  OBVIOUS
<1>2. ASSUME NEW i \in Nat, i \in C
      PROVE  i + 1 \in C
  <2>1. CASE i + 1 <= n
    <3>1. i + 1 \in 1 .. n /\ (i + 1) - 1 = i /\ i \in B
      BY <1>2, <2>1
    <3>2. i + 1 \in B
      BY <3>1
    <3> QED
      BY <3>2
  <2> QED
    BY <2>1
<1>3. Nat \subseteq C
  <2> HIDE DEF C
  <2> QED
    BY <1>1, <1>2, NatInduct
<1> QED
  BY <1>3

\* Over the subsets of a finite set: each from those properly inside it.
LEMMA FiniteInduct ==
  ASSUME NEW S, IsFiniteSet(S), NEW B,
         \A T \in SUBSET S :
           (\A U \in SUBSET T : U # T => U \in B) => T \in B
  PROVE  SUBSET S \subseteq B
<1>1. SUFFICES ASSUME (SUBSET S) \ B # {} PROVE FALSE
  OBVIOUS
<1>2. IsWellFoundedOn(StrictSubsetOrdering(S), SUBSET S)
  BY FS_StrictSubsetOrderingWellFounded, FS_FiniteSubsetsOfFinite
<1> DEFINE D == (SUBSET S) \ B
<1>3. PICK T \in D : \A U \in D : <<U, T>> \notin StrictSubsetOrdering(S)
  <2>1. D \subseteq SUBSET S /\ D # {}
    BY <1>1
  <2> HIDE DEF D
  <2> QED
    BY <1>2, <2>1, WFMin
<1>4. ASSUME NEW U \in SUBSET T, U # T
      PROVE  U \in B
  <2>1. <<U, T>> \in StrictSubsetOrdering(S)
    BY <1>4 DEF StrictSubsetOrdering
  <2> QED
    BY <1>3, <2>1
<1>5. T \in SUBSET S /\ T \notin B
  BY <1>3
<1> QED
  BY <1>4, <1>5

-----------------------------------------------------------------------------
(***************************************************************************)
(* Sums.                                                                   *)
(***************************************************************************)

\* The element of s that is added first.
Pick(s) == CHOOSE x \in s : TRUE

\* f sums the values of g over every subset of T.
IsSum(f, g, T) ==
  f = [s \in SUBSET T |->
         IF s = {} THEN 0
         ELSE g[Pick(s)] + f[s \ {Pick(s)}]]

Sum(g, T) == (CHOOSE f : IsSum(f, g, T))[T]

\* SumFunction adds up over the domain of its function.
LEMMA SumDef ==
  ASSUME NEW g
  PROVE  SumFunction(g) = Sum(g, DOMAIN g)
BY DEF SumFunction, SumFunctionOnSet, FoldFunctionOnSet, MapThenFoldSet,
       Sum, IsSum, Pick

\* What the recursion says of one set.
LEMMA IsSumStep ==
  ASSUME NEW f, NEW g, NEW T, IsSum(f, g, T), NEW s \in SUBSET T
  PROVE  /\ s = {} => f[s] = 0
         /\ s # {} => Pick(s) \in s /\ f[s] = g[Pick(s)] + f[s \ {Pick(s)}]
<1>1. f[s] = IF s = {} THEN 0 ELSE g[Pick(s)] + f[s \ {Pick(s)}]
  BY DEF IsSum
<1>2. s # {} => Pick(s) \in s
  BY DEF Pick
<1> QED
  BY <1>1, <1>2

\* The sum over a set depends on the values in it alone.
LEMMA SumsAgree ==
  ASSUME NEW f, NEW g, NEW T, IsSum(f, g, T),
         NEW h, NEW k, NEW U, IsSum(h, k, U),
         NEW S, IsFiniteSet(S), S \subseteq T, S \subseteq U,
         \A x \in S : g[x] = k[x]
  PROVE  f[S] = h[S]
<1>1. \A s \in SUBSET U :
        /\ s = {} => h[s] = 0
        /\ s # {} => Pick(s) \in s /\ h[s] = k[Pick(s)] + h[s \ {Pick(s)}]
  BY ONLY IsSum(h, k, U), IsSumStep
<1> DEFINE B == {s \in SUBSET S : f[s] = h[s]}
<1>2. ASSUME NEW s \in SUBSET S,
             \A r \in SUBSET s : r # s => r \in B
      PROVE  s \in B
  <2>1. s \in SUBSET T /\ s \in SUBSET U
    OBVIOUS
  <2>2. CASE s = {}
    BY <2>1, <2>2, IsSumStep
  <2>3. CASE s # {}
    <3> DEFINE x == Pick(s)
    <3>1. x \in s /\ f[s] = g[x] + f[s \ {x}]
      BY <2>1, <2>3, IsSumStep
    <3>2. h[s] = k[x] + h[s \ {x}]
      BY <2>1, <2>3, <1>1
    <3>3. s \ {x} \in B
      BY <1>2, <3>1
    <3> QED
      BY <3>1, <3>2, <3>3
  <2> QED
    BY <2>2, <2>3
<1>3. SUBSET S \subseteq B
  <2> HIDE DEF B
  <2> QED
    BY <1>2, FiniteInduct
<1> QED
  BY <1>3

\* There is such a function.
LEMMA SumExists ==
  ASSUME NEW g, NEW T, IsFiniteSet(T)
  PROVE  \E f : IsSum(f, g, T)
<1> DEFINE B == {s \in SUBSET T : \E f : IsSum(f, g, s)}
           F(s) == CHOOSE f : IsSum(f, g, s)
<1>1. ASSUME NEW S \in SUBSET T,
             \A r \in SUBSET S : r # S => r \in B
      PROVE  S \in B
  <2> DEFINE f == [s \in SUBSET S |->
                     IF s = {} THEN 0
                     ELSE g[Pick(s)] + F(s \ {Pick(s)})[s \ {Pick(s)}]]
  <2>1. ASSUME NEW r \in SUBSET S, r # S
        PROVE  IsSum(F(r), g, r)
    BY <1>1, <2>1
  <2>2. ASSUME NEW r \in SUBSET S, r # S
        PROVE  f[r] = F(r)[r]
    <3> HIDE DEF F
    <3>1. CASE r = {}
      BY <2>1, <2>2, <3>1, IsSumStep
    <3>2. CASE r # {}
      <4> DEFINE q == r \ {Pick(r)}
      <4>1. Pick(r) \in r
        BY <3>2 DEF Pick
      <4>2. F(r)[r] = g[Pick(r)] + F(r)[q]
        BY <2>1, <2>2, <3>2, IsSumStep
      <4>3. q \in SUBSET S /\ q # S /\ q \subseteq r
        BY <4>1
      <4>4. IsSum(F(q), g, q) /\ IsSum(F(r), g, r)
        BY <2>1, <2>2, <4>3
      <4>5. IsFiniteSet(q)
        BY <4>3, FS_Subset
      <4>6. F(r)[q] = F(q)[q]
        <5> HIDE DEF q
        <5> QED
          BY <4>3, <4>4, <4>5, SumsAgree
      <4> QED
        BY <3>2, <4>2, <4>6
    <3> QED
      BY <3>1, <3>2
  <2>3. IsSum(f, g, S)
    <3>1. ASSUME NEW s \in SUBSET S, s # {}
          PROVE  F(s \ {Pick(s)})[s \ {Pick(s)}] = f[s \ {Pick(s)}]
      <4>1. Pick(s) \in s
        BY <3>1 DEF Pick
      <4>2. s \ {Pick(s)} \in SUBSET S /\ s \ {Pick(s)} # S
        BY <4>1
      <4> HIDE DEF f, F
      <4> QED
        BY <2>2, <4>2
    <3>2. f = [s \in SUBSET S |->
                 IF s = {} THEN 0 ELSE g[Pick(s)] + f[s \ {Pick(s)}]]
      <4> HIDE DEF F
      <4> QED
        BY <3>1
    <3> QED
      BY <3>2 DEF IsSum
  <2> QED
    BY <2>3
<1>2. SUBSET T \subseteq B
  <2> HIDE DEF B
  <2> QED
    BY <1>1, FiniteInduct
<1> QED
  BY <1>2

\* The library's sum is what it gives.
LEMMA SumIsSum ==
  ASSUME NEW g, NEW T, IsFiniteSet(T)
  PROVE  \E f : IsSum(f, g, T) /\ Sum(g, T) = f[T]
<1> DEFINE f == CHOOSE h : IsSum(h, g, T)
<1>1. IsSum(f, g, T)
  BY SumExists
<1>2. Sum(g, T) = f[T]
  BY DEF Sum
<1> QED
  BY <1>1, <1>2

\* A sum depends on what is added, and on nothing else of the function.
LEMMA SumSame ==
  ASSUME NEW g, NEW h, NEW S, IsFiniteSet(S), \A x \in S : g[x] = h[x]
  PROVE  Sum(g, S) = Sum(h, S)
<1>1. PICK e : IsSum(e, g, S) /\ Sum(g, S) = e[S]
  BY SumIsSum
<1>2. PICK f : IsSum(f, h, S) /\ Sum(h, S) = f[S]
  BY SumIsSum
<1>3. e[S] = f[S]
  BY <1>1, <1>2, SumsAgree
<1> QED
  BY <1>1, <1>2, <1>3

\* Over nothing.
LEMMA SumEmpty ==
  ASSUME NEW g
  PROVE  Sum(g, {}) = 0
<1>1. PICK f : IsSum(f, g, {}) /\ Sum(g, {}) = f[{}]
  BY SumIsSum, FS_EmptySet
<1> QED
  BY <1>1, IsSumStep

\* It does not matter which element is added first.
LEMMA SumAnyOrder ==
  ASSUME NEW f, NEW g, NEW T, IsSum(f, g, T), IsFiniteSet(T),
         \A x \in T : g[x] \in Int
  PROVE  \A s \in SUBSET T :
           f[s] \in Int /\ \A x \in s : f[s] = g[x] + f[s \ {x}]
<1> DEFINE Good(s) == f[s] \in Int /\ \A x \in s : f[s] = g[x] + f[s \ {x}]
           B == {s \in SUBSET T : Good(s)}
<1>1. ASSUME NEW s \in SUBSET T,
             \A r \in SUBSET s : r # s => r \in B
      PROVE  s \in B
  <2>1. CASE s = {}
    BY <2>1, IsSumStep
  <2>2. CASE s # {}
    <3> DEFINE y == Pick(s)
    <3>1. y \in s /\ f[s] = g[y] + f[s \ {y}]
      BY <2>2, IsSumStep
    <3> HIDE DEF y
    <3>2. s \ {y} \in B
      BY <1>1, <3>1
    <3>3. f[s] \in Int
      BY <3>1, <3>2
    <3>4. ASSUME NEW x \in s
          PROVE  f[s] = g[x] + f[s \ {x}]
      <4>1. CASE x = y
        BY <3>1, <4>1
      <4>2. CASE x # y
        <5>1. s \ {x} \in B /\ y \in s \ {x} /\ x \in s \ {y}
          BY <1>1, <3>1, <4>2
        <5> DEFINE rest == f[(s \ {x}) \ {y}]
        <5>2. f[s \ {x}] = g[y] + rest
          BY <5>1
        <5>3. (s \ {x}) \ {y} = (s \ {y}) \ {x}
          OBVIOUS
        <5>4. f[s \ {y}] = g[x] + rest
          BY <3>2, <5>1, <5>3
        <5>5. rest \in Int /\ g[x] \in Int /\ g[y] \in Int
          BY <1>1, <3>1, <5>3
        <5> HIDE DEF rest
        <5> QED
          BY <3>1, <5>2, <5>4, <5>5
      <4> QED
        BY <4>1, <4>2
    <3> QED
      BY <3>3, <3>4
  <2> QED
    BY <2>1, <2>2
<1>2. SUBSET T \subseteq B
  <2> HIDE DEF B
  <2> QED
    BY <1>1, FiniteInduct
<1> QED
  BY <1>2

\* Of numbers.
LEMMA SumType ==
  ASSUME NEW g, NEW S, IsFiniteSet(S), \A x \in S : g[x] \in Int
  PROVE  Sum(g, S) \in Int
<1>1. PICK f : IsSum(f, g, S) /\ Sum(g, S) = f[S]
  BY SumIsSum
<1> QED
  BY <1>1, SumAnyOrder

\* One element more.
LEMMA SumAdd ==
  ASSUME NEW g, NEW S, IsFiniteSet(S), NEW x, x \notin S,
         \A y \in S \cup {x} : g[y] \in Int
  PROVE  Sum(g, S \cup {x}) = g[x] + Sum(g, S)
<1> DEFINE T == S \cup {x}
<1>1. IsFiniteSet(T)
  BY FS_AddElement
<1>2. PICK f : IsSum(f, g, T) /\ Sum(g, T) = f[T]
  BY <1>1, SumIsSum
<1>3. PICK h : IsSum(h, g, S) /\ Sum(g, S) = h[S]
  BY SumIsSum
<1>4. f[T] = g[x] + f[T \ {x}]
  BY <1>1, <1>2, SumAnyOrder
<1>5. T \ {x} = S
  OBVIOUS
<1>6. f[S] = h[S]
  <2> HIDE DEF T
  <2>1. S \subseteq T
    BY DEF T
  <2> QED
    BY <1>2, <1>3, <2>1, SumsAgree
<1> QED
  BY <1>2, <1>3, <1>4, <1>5, <1>6

\* Two sets without a common element.
LEMMA SumUnion ==
  ASSUME NEW g, NEW S, IsFiniteSet(S), NEW T, IsFiniteSet(T),
         S \cap T = {}, \A x \in S \cup T : g[x] \in Int
  PROVE  Sum(g, S \cup T) = Sum(g, S) + Sum(g, T)
<1> DEFINE B == {s \in SUBSET S : Sum(g, s \cup T) = Sum(g, s) + Sum(g, T)}
<1>1. ASSUME NEW s \in SUBSET S,
             \A r \in SUBSET s : r # s => r \in B
      PROVE  s \in B
  <2>1. CASE s = {}
    <3>1. Sum(g, s) = 0 /\ s \cup T = T
      BY <2>1, SumEmpty
    <3>2. Sum(g, T) \in Int
      BY SumType
    <3>3. Sum(g, s \cup T) = Sum(g, T)
      BY <3>1
    <3>4. Sum(g, s \cup T) = Sum(g, s) + Sum(g, T)
      BY <3>1, <3>2, <3>3
    <3> QED
      BY <3>4
  <2>2. CASE s # {}
    <3> DEFINE x == Pick(s)
               r == s \ {x}
    <3>1. x \in s
      BY <2>2 DEF Pick
    <3> HIDE DEF x
    <3>2. r \in B /\ s = r \cup {x} /\ s \cup T = (r \cup T) \cup {x}
      BY <1>1, <3>1
    <3>3. IsFiniteSet(r) /\ x \notin r /\ x \notin r \cup T
      BY <3>1, FS_Subset
    <3>4. IsFiniteSet(r \cup T)
      BY <3>3, FS_Union
    <3> HIDE DEF r
    <3>5. \A y \in (r \cup T) \cup {x} : g[y] \in Int
      BY <3>2
    <3>6. Sum(g, (r \cup T) \cup {x}) = g[x] + Sum(g, r \cup T)
      BY <3>3, <3>4, <3>5, SumAdd
    <3>7. Sum(g, r \cup {x}) = g[x] + Sum(g, r)
      BY <3>3, <3>5, SumAdd
    <3>8. Sum(g, r) \in Int /\ Sum(g, T) \in Int /\ g[x] \in Int
      BY <3>3, <3>5, SumType
    <3>9. Sum(g, r \cup T) = Sum(g, r) + Sum(g, T)
      BY <3>2
    <3>10. Sum(g, (r \cup T) \cup {x}) = Sum(g, r \cup {x}) + Sum(g, T)
      BY <3>6, <3>7, <3>8, <3>9
    <3>11. Sum(g, s \cup T) = Sum(g, s) + Sum(g, T)
      BY <3>2, <3>10
    <3> QED
      BY <3>11
  <2> QED
    BY <2>1, <2>2
<1>2. SUBSET S \subseteq B
  <2> HIDE DEF B
  <2> QED
    BY <1>1, FiniteInduct
<1> QED
  BY <1>2

\* A sum of n numbers is at most n times the largest they may be.
LEMMA SumBound ==
  ASSUME NEW g, NEW S, IsFiniteSet(S), NEW c \in Nat,
         \A x \in S : g[x] \in Int /\ g[x] <= c
  PROVE  Sum(g, S) <= c * Cardinality(S)
<1> DEFINE B == {s \in SUBSET S : Sum(g, s) <= c * Cardinality(s)}
<1>1. ASSUME NEW s \in SUBSET S, \A r \in SUBSET s : r # s => r \in B
      PROVE  s \in B
  <2>1. CASE s = {}
    <3>1. Sum(g, s) = 0 /\ Cardinality(s) = 0
      BY <2>1, SumEmpty, FS_EmptySet
    <3> QED
      BY <3>1
  <2>2. CASE s # {}
    <3>1. PICK x \in s : TRUE
      BY <2>2
    <3> DEFINE u == s \ {x}
               n == Cardinality(u)
    <3>2. u \in SUBSET s /\ u # s /\ x \notin u /\ s = u \cup {x}
      BY <3>1
    <3>3. u \in B
      BY <1>1, <3>2
    <3>4. IsFiniteSet(s) /\ IsFiniteSet(u)
      BY <3>2, FS_Subset
    <3>5. n \in Nat /\ Cardinality(s) = n + 1
      BY <3>2, <3>4, FS_AddElement, FS_CardinalityType
    <3>6. \A y \in s : g[y] \in Int /\ g[y] <= c
      OBVIOUS
    <3> HIDE DEF u
    <3>7. Sum(g, s) = g[x] + Sum(g, u)
      BY <3>2, <3>4, <3>6, SumAdd
    <3>8. Sum(g, u) \in Int
      BY <3>2, <3>4, <3>6, SumType
    <3>9. Sum(g, u) <= c * n
      BY <3>3
    <3> HIDE DEF n
    <3>10. c * (n + 1) = c * n + c /\ c * n \in Nat
      BY <3>5
    <3>11. Sum(g, s) <= c * (n + 1)
      BY <3>1, <3>6, <3>7, <3>8, <3>9, <3>10
    <3> QED
      BY <3>5, <3>11
  <2> QED
    BY <2>1, <2>2
<1> HIDE DEF B
<1>2. SUBSET S \subseteq B
  BY <1>1, FiniteInduct
<1> QED
  BY <1>2 DEF B

-----------------------------------------------------------------------------
(***************************************************************************)
(* Joined sequences.                                                       *)
(***************************************************************************)

\* f joins the first parts of s, up to each of them.
IsFlat(f, s, n) ==
  f = [i \in 1 .. n |-> IF i = 1 THEN s[i] ELSE f[i - 1] \o s[i]]

\* FlattenSeq joins from the left.
LEMMA FlattenDef ==
  ASSUME NEW s, Len(s) # 0
  PROVE  FlattenSeq(s) = (CHOOSE f : IsFlat(f, s, Len(s)))[Len(s)]
BY DEF FlattenSeq, IsFlat

\* There is such a function.
LEMMA FlatExists ==
  ASSUME NEW s, NEW n \in Nat
  PROVE  \E f : IsFlat(f, s, n)
<1> DEFINE B == {m \in Nat : \E f : IsFlat(f, s, m)}
<1>1. 0 \in B
  <2> DEFINE f == [i \in 1 .. 0 |-> s[i]]
  <2>1. IsFlat(f, s, 0)
    BY DEF IsFlat
  <2> QED
    BY <2>1
<1>2. ASSUME NEW m \in Nat, m \in B
      PROVE  m + 1 \in B
  <2>1. PICK f : IsFlat(f, s, m)
    BY <1>2
  <2> DEFINE h == [i \in 1 .. m + 1 |->
                     IF i = 1 THEN s[i] ELSE f[i - 1] \o s[i]]
  <2>2. ASSUME NEW i \in 1 .. m
        PROVE  h[i] = f[i]
    <3>1. i \in 1 .. m + 1
      OBVIOUS
    <3>2. h[i] = IF i = 1 THEN s[i] ELSE f[i - 1] \o s[i]
      BY <3>1
    <3>3. f[i] = IF i = 1 THEN s[i] ELSE f[i - 1] \o s[i]
      BY <2>1 DEF IsFlat
    <3> QED
      BY <3>2, <3>3
  <2>3. ASSUME NEW i \in 1 .. m + 1, i # 1
        PROVE  f[i - 1] = h[i - 1]
    <3>1. i - 1 \in 1 .. m
      BY <2>3
    <3> QED
      BY <2>2, <3>1
  <2>4. h = [i \in 1 .. m + 1 |->
               IF i = 1 THEN s[i] ELSE h[i - 1] \o s[i]]
    BY <2>3
  <2>5. IsFlat(h, s, m + 1)
    BY <2>4 DEF IsFlat
  <2> QED
    BY <2>5
<1>3. Nat \subseteq B
  <2> HIDE DEF B
  <2> QED
    BY <1>1, <1>2, NatInduct
<1> QED
  BY <1>3

\* FlattenSeq joins the parts from left to right: f is what it has after each.
LEMMA FlattenParts ==
  ASSUME NEW X, NEW s \in Seq(Seq(X))
  PROVE  \E f \in [0 .. Len(s) -> Seq(X)] :
           /\ f[0] = <<>>
           /\ \A i \in 1 .. Len(s) : f[i] = f[i - 1] \o s[i]
           /\ FlattenSeq(s) = f[Len(s)]
<1> DEFINE n == Len(s)
<1>1. n \in Nat /\ \A i \in 1 .. n : s[i] \in Seq(X)
  OBVIOUS
<1>2. CASE n = 0
  <2> DEFINE f == [i \in 0 .. n |-> <<>>]
  <2>1. s = <<>> /\ FlattenSeq(s) = s
    BY <1>2 DEF FlattenSeq
  <2>2. f \in [0 .. n -> Seq(X)] /\ f[0] = <<>> /\ FlattenSeq(s) = f[n]
    BY <1>1, <1>2, <2>1
  <2>3. 1 .. n = {}
    BY <1>2
  <2> HIDE DEF f
  <2> QED
    BY <2>2, <2>3
<1>3. CASE n # 0
  <2> DEFINE h == CHOOSE h : IsFlat(h, s, n)
             f == [i \in 0 .. n |-> IF i = 0 THEN <<>> ELSE h[i]]
  <2>1. IsFlat(h, s, n)
    BY <1>1, FlatExists
  <2>2. FlattenSeq(s) = h[n]
    BY <1>3, FlattenDef
  <2> HIDE DEF h
  <2>3. f[0] = <<>> /\ FlattenSeq(s) = f[n]
    BY <1>1, <1>3, <2>2
  <2>4. ASSUME NEW i \in 1 .. n
        PROVE  f[i] = IF i = 1 THEN s[i] ELSE f[i - 1] \o s[i]
    <3>1. h[i] = IF i = 1 THEN s[i] ELSE h[i - 1] \o s[i]
      BY <2>1 DEF IsFlat
    <3>2. f[i] = h[i]
      BY <1>1
    <3>3. i # 1 => f[i - 1] = h[i - 1]
      BY <1>1
    <3> QED
      BY <3>1, <3>2, <3>3
  <2> DEFINE B == {i \in 0 .. n : f[i] \in Seq(X)}
  <2>5. f[0] \in Seq(X) /\ 0 \in B
    BY <1>1, <2>3
  <2>6. ASSUME NEW i \in 1 .. n, i - 1 \in B
        PROVE  i \in B /\ f[i] = f[i - 1] \o s[i]
    <3>1. f[i - 1] \in Seq(X) /\ s[i] \in Seq(X)
      BY <1>1, <2>6
    <3>2. f[i] = f[i - 1] \o s[i]
      <4>1. CASE i = 1
        <5>1. f[i] = s[i] /\ f[i - 1] = <<>>
          <6>1. i - 1 = 0
            BY <4>1
          <6> HIDE DEF f
          <6> QED
            BY <2>3, <2>4, <4>1, <6>1
        <5> QED
          BY <3>1, <5>1, ConcatEmptySeq
      <4> QED
        BY <2>4, <4>1
    <3>3. f[i] \in Seq(X) /\ i \in 0 .. n
      BY <3>1, <3>2, ConcatProperties
    <3> HIDE DEF f
    <3> QED
      BY <3>2, <3>3
  <2>7. 0 .. n \subseteq B
    <3> HIDE DEF B
    <3> QED
      BY <1>1, <2>5, <2>6, UpTo
  <2>8. f \in [0 .. n -> Seq(X)]
    <3>1. \A i \in 0 .. n : f[i] \in Seq(X)
      BY <2>7
    <3> QED
      BY <3>1
  <2>9. \A i \in 1 .. n : i - 1 \in B
    <3>1. \A i \in 1 .. n : i - 1 \in 0 .. n
      BY <1>1
    <3> HIDE DEF B
    <3> QED
      BY <2>7, <3>1
  <2>10. \A i \in 1 .. n : f[i] = f[i - 1] \o s[i]
    <3> HIDE DEF f, B
    <3> QED
      BY <2>6, <2>9
  <2> HIDE DEF f
  <2> QED
    BY <2>3, <2>8, <2>10
<1> QED
  BY <1>2, <1>3

\* Of sequences over X.
LEMMA FlattenType ==
  ASSUME NEW X, NEW s \in Seq(Seq(X))
  PROVE  FlattenSeq(s) \in Seq(X)
<1>1. PICK f \in [0 .. Len(s) -> Seq(X)] : FlattenSeq(s) = f[Len(s)]
  BY FlattenParts
<1>2. Len(s) \in 0 .. Len(s)
  OBVIOUS
<1> QED
  BY <1>1, <1>2

\* The length of what is joined, from what it is after each part.
LEMMA FlattenLength ==
  ASSUME NEW X, NEW s \in Seq(Seq(X)), NEW total, total[0] = 0,
         \A i \in 1 .. Len(s) : total[i] = total[i - 1] + Len(s[i])
  PROVE  Len(FlattenSeq(s)) = total[Len(s)]
<1>1. PICK f \in [0 .. Len(s) -> Seq(X)] :
             /\ f[0] = <<>>
             /\ \A i \in 1 .. Len(s) : f[i] = f[i - 1] \o s[i]
             /\ FlattenSeq(s) = f[Len(s)]
  BY FlattenParts
<1>2. Len(s) \in Nat /\ \A i \in 1 .. Len(s) : s[i] \in Seq(X)
  OBVIOUS
<1> DEFINE B == {i \in 0 .. Len(s) : Len(f[i]) = total[i]}
<1>3. 0 \in B
  BY <1>2, <1>1
<1>4. ASSUME NEW i \in 1 .. Len(s), i - 1 \in B
      PROVE  i \in B
  <2>1. f[i - 1] \in Seq(X) /\ s[i] \in Seq(X) /\ Len(f[i - 1]) = total[i - 1]
    BY <1>2, <1>4
  <2>2. f[i] = f[i - 1] \o s[i]
    BY <1>1
  <2>3. Len(f[i]) = Len(f[i - 1]) + Len(s[i])
    <3>1. Len(f[i - 1] \o s[i]) = Len(f[i - 1]) + Len(s[i])
      BY <2>1, ConcatProperties
    <3> QED
      BY <2>2, <3>1
  <2>4. total[i] = total[i - 1] + Len(s[i])
    OBVIOUS
  <2>5. Len(f[i]) = total[i]
    BY <2>1, <2>3, <2>4
  <2> QED
    BY <1>2, <2>5
<1>5. 0 .. Len(s) \subseteq B
  <2> HIDE DEF B
  <2> QED
    BY <1>2, <1>3, <1>4, UpTo
<1>6. Len(s) \in 0 .. Len(s)
  BY <1>2
<1> QED
  BY <1>1, <1>5, <1>6
=============================================================================
