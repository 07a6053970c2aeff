------------------------------- MODULE Lemmas -------------------------------
(***************************************************************************)
(* Lemmas about sums, selections and RemoveAt, shared by the proof modules.*)
(* Induction is on sets of naturals: the least element of the set of       *)
(* counterexamples (WellFoundedInduction).                                 *)
(***************************************************************************)
EXTENDS Sums, SequencesExt, SequenceTheorems, FiniteSetTheorems,
        WellFoundedInduction, TLAPS

LessThan == {p \in Nat \X Nat : p[1] < p[2]}

\* The order on the naturals is well founded.
LEMMA LessThanWF == IsWellFoundedOn(LessThan, Nat)
<1>1. LessThan = OpToRel(<, Nat)
  BY Zenon DEF LessThan, OpToRel
<1> QED
  BY <1>1, NatLessThanWellFounded, Zenon

\* Every nonempty set of naturals has a least element.
LEMMA LeastNat ==
  ASSUME NEW T, T \subseteq Nat, T # {}
  PROVE  \E x \in T : \A y \in T : x <= y
<1>1. \E x \in T : \A y \in T : <<y, x>> \notin LessThan
  BY LessThanWF, WFMin
<1>2. PICK x \in T : \A y \in T : <<y, x>> \notin LessThan
  BY <1>1
<1>3. \A y \in T : ~(y < x)
  BY <1>2 DEF LessThan
<1> QED
  BY <1>3

\* Induction, for a property given as the set of numbers that have it.
LEMMA SetInduction ==
  ASSUME NEW T, 0 \in T, \A n \in Nat : n \in T => n + 1 \in T
  PROVE  Nat \subseteq T
<1> SUFFICES ASSUME Nat \ T # {} PROVE FALSE
  OBVIOUS
<1>1. PICK x \in Nat \ T : \A y \in Nat \ T : x <= y
  BY LeastNat
<1>2. x # 0 /\ x - 1 \in Nat /\ x - 1 \in T
  BY <1>1
<1> QED
  BY <1>1, <1>2

-----------------------------------------------------------------------------
IsPartialSum(s, c, n) ==
  s = [k \in 0 .. n |-> IF k = 0 THEN 0 ELSE s[k - 1] + c[k]]

\* The recursive definition of PartialSum has a solution, of natural numbers
\* when the terms are, and of integers when they are integers.
LEMMA PartialSumExists ==
  ASSUME NEW n \in Nat, NEW R \in {Nat, Int}, NEW c \in [1 .. n -> R]
  PROVE  \E s \in [0 .. n -> R] : IsPartialSum(s, c, n)
<1> DEFINE T == {m \in Nat : m <= n =>
                   \E s \in [0 .. m -> R] : IsPartialSum(s, c, m)}
<1>1. 0 \in T
  <2> DEFINE s == [k \in 0 .. 0 |-> 0]
  <2>1. s \in [0 .. 0 -> R] /\ IsPartialSum(s, c, 0)
    BY DEF IsPartialSum
  <2> QED
    BY <2>1
<1>2. ASSUME NEW m \in Nat, m \in T PROVE m + 1 \in T
  <2> SUFFICES ASSUME m + 1 <= n
               PROVE  \E s \in [0 .. m + 1 -> R] : IsPartialSum(s, c, m + 1)
    OBVIOUS
  <2>1. PICK s \in [0 .. m -> R] : IsPartialSum(s, c, m)
    BY <1>2
  <2> DEFINE t == [k \in 0 .. m + 1 |-> IF k = m + 1 THEN s[m] + c[m + 1] ELSE s[k]]
  <2>2. c[m + 1] \in R /\ s[m] \in R /\ s[m] + c[m + 1] \in R
    OBVIOUS
  <2>3. t \in [0 .. m + 1 -> R]
    BY <2>2
  <2>4. ASSUME NEW k \in 0 .. m + 1
        PROVE  t[k] = IF k = 0 THEN 0 ELSE t[k - 1] + c[k]
    <3>1. CASE k = m + 1
      BY <3>1
    <3>2. CASE k \in 0 .. m
      <4>1. s[k] = IF k = 0 THEN 0 ELSE s[k - 1] + c[k]
        BY <2>1, <3>2 DEF IsPartialSum
      <4> QED
        BY <3>2, <4>1
    <3> QED
      BY <3>1, <3>2
  <2>5. IsPartialSum(t, c, m + 1)
    BY <2>4 DEF IsPartialSum
  <2> QED
    BY <2>3, <2>5
<1>3. Nat \subseteq T
  <2> HIDE DEF T
  <2> QED
    BY <1>1, <1>2, SetInduction
<1> QED
  BY <1>3

\* Two solutions of the recursive definition are equal.
LEMMA PartialSumUnique ==
  ASSUME NEW n \in Nat, NEW c, NEW s, NEW t,
         IsPartialSum(s, c, n), IsPartialSum(t, c, n)
  PROVE  s = t
<1> DEFINE T == {k \in Nat : k <= n => s[k] = t[k]}
<1>1. 0 \in T
  BY DEF IsPartialSum
<1>2. ASSUME NEW k \in Nat, k \in T PROVE k + 1 \in T
  <2> SUFFICES ASSUME k + 1 <= n PROVE s[k + 1] = t[k + 1]
    OBVIOUS
  <2>1. s[k + 1] = s[k] + c[k + 1]
    BY DEF IsPartialSum
  <2>2. t[k + 1] = t[k] + c[k + 1]
    BY DEF IsPartialSum
  <2> QED
    BY <1>2, <2>1, <2>2
<1>3. Nat \subseteq T
  <2> HIDE DEF T
  <2> QED
    BY <1>1, <1>2, SetInduction
<1>4. \A k \in 0 .. n : s[k] = t[k]
  BY <1>3
<1> QED
  BY <1>4 DEF IsPartialSum

\* PartialSum is that solution.
LEMMA PartialSumOver ==
  ASSUME NEW n \in Nat, NEW R \in {Nat, Int}, NEW c \in [1 .. n -> R]
  PROVE  /\ PartialSum(c, n) \in [0 .. n -> R]
         /\ IsPartialSum(PartialSum(c, n), c, n)
<1>1. PICK s \in [0 .. n -> R] : IsPartialSum(s, c, n)
  BY PartialSumExists
<1>2. PartialSum(c, n) = CHOOSE x : IsPartialSum(x, c, n)
  BY DEF PartialSum, IsPartialSum
<1>3. IsPartialSum(PartialSum(c, n), c, n)
  BY <1>1, <1>2
<1>4. PartialSum(c, n) = s
  BY <1>1, <1>3, PartialSumUnique
<1> QED
  BY <1>1, <1>4

LEMMA PartialSumProperty ==
  ASSUME NEW n \in Nat, NEW c \in [1 .. n -> Nat]
  PROVE  /\ PartialSum(c, n) \in [0 .. n -> Nat]
         /\ IsPartialSum(PartialSum(c, n), c, n)
BY PartialSumOver

LEMMA IntegerSums ==
  ASSUME NEW n \in Nat, NEW c \in [1 .. n -> Int]
  PROVE  /\ PartialSum(c, n) \in [0 .. n -> Int]
         /\ IsPartialSum(PartialSum(c, n), c, n)
BY PartialSumOver

\* One step of it.
LEMMA PartialSumStep ==
  ASSUME NEW n \in Nat, NEW c, NEW s, IsPartialSum(s, c, n)
  PROVE  s[0] = 0 /\ \A k \in Nat : k + 1 <= n => s[k + 1] = s[k] + c[k + 1]
<1>1. ASSUME NEW k \in 0 .. n PROVE s[k] = IF k = 0 THEN 0 ELSE s[k - 1] + c[k]
  BY DEF IsPartialSum
<1> QED
  BY <1>1

LEMMA IntegerStep ==
  ASSUME NEW n \in Nat, NEW c \in [1 .. n -> Int], NEW k \in 1 .. n
  PROVE  PartialSum(c, n)[k] = PartialSum(c, n)[k - 1] + c[k]
<1> DEFINE s == PartialSum(c, n)
<1>1. IsPartialSum(s, c, n) /\ k \in 0 .. n /\ k # 0
  BY IntegerSums
<1> HIDE DEF s
<1>2. s[k] = s[k - 1] + c[k]
  BY <1>1 DEF IsPartialSum
<1> QED
  BY <1>2 DEF s

\* Whatever solves the recursive definition gives the sum.
LEMMA SumIs ==
  ASSUME NEW n \in Nat, NEW c \in [1 .. n -> Int], NEW s, IsPartialSum(s, c, n)
  PROVE  SumTo(c, n) = s[n]
BY IntegerSums, PartialSumUnique DEF SumTo

\* A sum of integers is an integer.
LEMMA SumToInteger ==
  ASSUME NEW n \in Nat, NEW c \in [1 .. n -> Int]
  PROVE  SumTo(c, n) \in Int
BY IntegerSums DEF SumTo

\* A sum of naturals is a natural.
LEMMA SumToType ==
  ASSUME NEW n \in Nat, NEW c \in [1 .. n -> Nat]
  PROVE  SumTo(c, n) \in Nat
BY PartialSumProperty DEF SumTo

\* A sum of zeros is zero.
LEMMA SumToZero ==
  ASSUME NEW n \in Nat
  PROVE  SumTo([k \in 1 .. n |-> 0], n) = 0
<1> DEFINE c == [k \in 1 .. n |-> 0]
           s == [k \in 0 .. n |-> 0]
<1>1. IsPartialSum(s, c, n)
  BY DEF IsPartialSum
<1>2. c \in [1 .. n -> Nat]
  OBVIOUS
<1>3. PartialSum(c, n) = s
  <2> HIDE DEF c, s
  <2> QED
    BY <1>1, <1>2, PartialSumProperty, PartialSumUnique
<1> QED
  BY <1>3 DEF SumTo

\* Changing one term changes the sum by the difference.
LEMMA SumToUpdate ==
  ASSUME NEW n \in Nat, NEW c \in [1 .. n -> Nat],
         NEW k \in 1 .. n, NEW v \in Nat
  PROVE  SumTo([c EXCEPT ![k] = v], n) = SumTo(c, n) - c[k] + v
<1> DEFINE d == [c EXCEPT ![k] = v]
           s == PartialSum(c, n)
           t == [j \in 0 .. n |-> IF j < k THEN s[j] ELSE s[j] - c[k] + v]
<1>1. s \in [0 .. n -> Nat] /\ IsPartialSum(s, c, n)
  BY PartialSumProperty
<1>2. d \in [1 .. n -> Nat]
  OBVIOUS
<1>3. ASSUME NEW j \in 0 .. n
      PROVE  t[j] = IF j = 0 THEN 0 ELSE t[j - 1] + d[j]
  <2> HIDE DEF s
  <2>1. s[j] = IF j = 0 THEN 0 ELSE s[j - 1] + c[j]
    BY <1>1 DEF IsPartialSum
  <2>2. CASE j < k
    BY <1>1, <2>1, <2>2
  <2>3. CASE j = k
    <3>1. s[j] = s[j - 1] + c[k] /\ s[j - 1] \in Nat /\ c[k] \in Nat
      BY <1>1, <2>1, <2>3
    <3> QED
      BY <2>3, <3>1
  <2>4. CASE j > k
    <3>1. s[j] = s[j - 1] + c[j] /\ s[j - 1] \in Nat /\ c[k] \in Nat /\ c[j] \in Nat
      BY <1>1, <2>1, <2>4
    <3>2. d[j] = c[j] /\ t[j - 1] = s[j - 1] - c[k] + v
      BY <2>4
    <3> QED
      BY <2>4, <3>1, <3>2
  <2> QED
    BY <2>2, <2>3, <2>4
<1>4. IsPartialSum(t, d, n)
  <2> HIDE DEF d, s
  <2> QED
    BY <1>3 DEF IsPartialSum
<1>5. PartialSum(d, n) = t
  <2> HIDE DEF d, t
  <2> QED
    BY <1>2, <1>4, PartialSumProperty, PartialSumUnique
<1> QED
  BY <1>5 DEF SumTo

-----------------------------------------------------------------------------
\* RemoveAt drops one element and keeps the order of the others.
LEMMA RemoveAtProperties ==
  ASSUME NEW S, NEW q \in Seq(S), NEW i \in 1 .. Len(q)
  PROVE  /\ RemoveAt(q, i) \in Seq(S)
         /\ Len(RemoveAt(q, i)) = Len(q) - 1
         /\ \A k \in 1 .. Len(q) - 1 :
              RemoveAt(q, i)[k] = IF k < i THEN q[k] ELSE q[k + 1]
<1> DEFINE a == SubSeq(q, 1, i - 1)
           b == SubSeq(q, i + 1, Len(q))
<1>0. Len(q) \in Nat
  OBVIOUS
<1>1. /\ a \in Seq(S) /\ Len(a) = i - 1
      /\ \A k \in 1 .. i - 1 : a[k] = q[k]
  BY SubSeqProperties
<1>2. /\ b \in Seq(S) /\ Len(b) = Len(q) - i
      /\ \A k \in 1 .. Len(q) - i : b[k] = q[i + k]
  <2>1. \A k \in 1 .. Len(q) - (i + 1) + 1 : b[k] = q[i + 1 + k - 1]
    BY SubSeqProperties
  <2>2. b \in Seq(S) /\ Len(b) = IF i + 1 <= Len(q) THEN Len(q) - (i + 1) + 1 ELSE 0
    BY SubSeqProperties
  <2> HIDE DEF b
  <2> QED
    BY <2>1, <2>2
<1>3. RemoveAt(q, i) = a \o b
  BY DEF RemoveAt
<1>4. /\ a \o b \in Seq(S) /\ Len(a \o b) = Len(q) - 1
      /\ \A k \in 1 .. Len(q) - 1 :
           (a \o b)[k] = IF k <= i - 1 THEN a[k] ELSE b[k - (i - 1)]
  <2> HIDE DEF a, b
  <2>1. /\ a \o b \in Seq(S)
        /\ Len(a \o b) = Len(a) + Len(b)
        /\ \A k \in 1 .. Len(a) + Len(b) :
             (a \o b)[k] = IF k <= Len(a) THEN a[k] ELSE b[k - Len(a)]
    BY <1>1, <1>2, ConcatProperties
  <2>2. Len(a) + Len(b) = Len(q) - 1
    BY <1>0, <1>1, <1>2
  <2> QED
    BY <1>1, <2>1, <2>2
<1>5. ASSUME NEW k \in 1 .. Len(q) - 1
      PROVE  (a \o b)[k] = IF k < i THEN q[k] ELSE q[k + 1]
  <2> HIDE DEF a, b
  <2>1. CASE k < i
    BY <1>0, <1>1, <1>4, <2>1
  <2>2. CASE k >= i
    <3>1. k - (i - 1) \in 1 .. Len(q) - i /\ i + (k - (i - 1)) = k + 1
      BY <1>0, <2>2
    <3> QED
      BY <1>0, <1>2, <1>4, <2>2, <3>1
  <2>3. k < i \/ k >= i
    BY <1>0
  <2> QED
    BY <2>1, <2>2, <2>3, Zenon
<1> QED
  BY <1>3, <1>4, <1>5

\* Of a sequence without repetitions it leaves one without, and without q[i].
LEMMA RemoveAtInjective ==
  ASSUME NEW S, NEW q \in Seq(S), NEW i \in 1 .. Len(q), IsInjective(q)
  PROVE  /\ IsInjective(RemoveAt(q, i))
         /\ Range(RemoveAt(q, i)) \subseteq Range(q)
         /\ q[i] \in Range(q) /\ q[i] \notin Range(RemoveAt(q, i))
<1> DEFINE d == RemoveAt(q, i)
           n == Len(q)
<1>1. /\ i \in 1 .. n /\ d \in Seq(S) /\ Len(d) = n - 1 /\ n \in Nat
      /\ \A k \in 1 .. n - 1 : d[k] = IF k < i THEN q[k] ELSE q[k + 1]
  BY RemoveAtProperties
<1>2. DOMAIN d = 1 .. n - 1 /\ DOMAIN q = 1 .. n
  BY <1>1
<1>3. \A k \in 1 .. n - 1 : \E m \in 1 .. n : m # i /\ d[k] = q[m]
                                           /\ m = (IF k < i THEN k ELSE k + 1)
  BY <1>1
<1> HIDE DEF d, n
<1>4. \A k, m \in 1 .. n : q[k] = q[m] => k = m
  BY <1>2 DEF IsInjective
<1>5. IsInjective(d)
  BY <1>1, <1>2, <1>3, <1>4 DEF IsInjective
<1>6. Range(d) \subseteq Range(q)
  BY <1>2, <1>3 DEF Range
<1>7. q[i] \in Range(q) /\ q[i] \notin Range(d)
  BY <1>1, <1>2, <1>3, <1>4 DEF Range
<1> QED
  BY <1>5, <1>6, <1>7 DEF d

-----------------------------------------------------------------------------
Element(s) == CHOOSE x \in s : TRUE
Rest(s) == s \ {Element(s)}

\* The definition of SetSum: g gives the sums over the sets in D.
IsSetSum(g, c, D) ==
  g = [s \in D |-> IF s = {} THEN 0 ELSE c[Element(s)] + g[Rest(s)]]

LEMMA SetSumDef ==
  ASSUME NEW c, NEW S
  PROVE  SetSum(c, S) = (CHOOSE g : IsSetSum(g, c, SUBSET S))[S]
BY DEF SetSum, MapThenSumSet, MapThenFoldSet, IsSetSum, Element, Rest

LEMMA RestFacts ==
  ASSUME NEW s, IsFiniteSet(s), s # {}
  PROVE  /\ Element(s) \in s /\ Rest(s) \subseteq s
         /\ IsFiniteSet(Rest(s)) /\ Cardinality(s) \in Nat \ {0}
         /\ Cardinality(Rest(s)) = Cardinality(s) - 1
<1>1. Element(s) \in s
  BY DEF Element
<1>2. Cardinality(s) \in Nat /\ Cardinality(s) # 0
  BY FS_CardinalityType, FS_EmptySet
<1> QED
  BY <1>1, <1>2, FS_RemoveElement DEF Rest

\* The subsets of S with at most n elements.
UpTo(S, n) == {s \in SUBSET S : Cardinality(s) <= n}

\* The recursive definition has a solution for the subsets of a finite set.
LEMMA SetSumExists ==
  ASSUME NEW S, IsFiniteSet(S), NEW c \in [S -> Nat]
  PROVE  \E g \in [SUBSET S -> Nat] : IsSetSum(g, c, SUBSET S)
<1>0. \A s \in SUBSET S : IsFiniteSet(s) /\ Cardinality(s) \in Nat /\ Cardinality(s) <= Cardinality(S)
  BY FS_Subset, FS_CardinalityType
<1> DEFINE T == {n \in Nat : \E g \in [UpTo(S, n) -> Nat] : IsSetSum(g, c, UpTo(S, n))}
<1>1. 0 \in T
  <2> DEFINE g == [s \in UpTo(S, 0) |-> 0]
  <2>1. \A s \in UpTo(S, 0) : s = {}
    BY <1>0, FS_EmptySet DEF UpTo
  <2>2. IsSetSum(g, c, UpTo(S, 0))
    BY <2>1 DEF IsSetSum
  <2>3. g \in [UpTo(S, 0) -> Nat]
    OBVIOUS
  <2> QED
    BY <2>2, <2>3
<1>2. ASSUME NEW n \in Nat, n \in T PROVE n + 1 \in T
  <2>1. PICK g \in [UpTo(S, n) -> Nat] : IsSetSum(g, c, UpTo(S, n))
    BY <1>2
  <2> DEFINE t == [s \in UpTo(S, n + 1) |-> IF s = {} THEN 0 ELSE c[Element(s)] + g[Rest(s)]]
  <2>2. ASSUME NEW s \in UpTo(S, n + 1), s # {}
        PROVE  c[Element(s)] \in Nat /\ Rest(s) \in UpTo(S, n)
    BY <1>0, <2>2, RestFacts DEF UpTo
  <2>3. t \in [UpTo(S, n + 1) -> Nat]
    BY <2>1, <2>2
  <2>4. UpTo(S, n) \subseteq UpTo(S, n + 1)
    BY <1>0 DEF UpTo
  <2>5. ASSUME NEW s \in UpTo(S, n) PROVE t[s] = g[s]
    <3>1. g[s] = IF s = {} THEN 0 ELSE c[Element(s)] + g[Rest(s)]
      BY <2>1 DEF IsSetSum
    <3> QED
      BY <2>4, <3>1
  <2>6. ASSUME NEW s \in UpTo(S, n + 1)
        PROVE  t[s] = IF s = {} THEN 0 ELSE c[Element(s)] + t[Rest(s)]
    BY <2>2, <2>5
  <2>7. IsSetSum(t, c, UpTo(S, n + 1))
    <3> HIDE DEF t
    <3>1. t = [s \in UpTo(S, n + 1) |-> t[s]]
      BY <2>3
    <3> QED
      BY <2>6, <3>1, Zenon DEF IsSetSum
  <2> QED
    BY <2>3, <2>7
<1>3. Nat \subseteq T
  <2> HIDE DEF T
  <2> QED
    BY <1>1, <1>2, SetInduction
<1>4. Cardinality(S) \in T
  BY <1>3, FS_CardinalityType
<1>5. UpTo(S, Cardinality(S)) = SUBSET S
  BY <1>0 DEF UpTo
<1> QED
  BY <1>4, <1>5

\* Solutions for two sets agree on the finite subsets of both.
LEMMA SetSumUnique ==
  ASSUME NEW S, NEW U, NEW c, NEW d, NEW g, NEW h, NEW R,
         IsFiniteSet(R), R \subseteq S, R \subseteq U, \A x \in R : c[x] = d[x],
         IsSetSum(g, c, SUBSET S), IsSetSum(h, d, SUBSET U)
  PROVE  g[R] = h[R]
<1> DEFINE T == {n \in Nat : \A s \in SUBSET R : Cardinality(s) = n => g[s] = h[s]}
<1>0. \A s \in SUBSET R : IsFiniteSet(s) /\ Cardinality(s) \in Nat
  BY FS_Subset, FS_CardinalityType
<1>1. ASSUME NEW s \in SUBSET R
      PROVE  /\ g[s] = IF s = {} THEN 0 ELSE c[Element(s)] + g[Rest(s)]
             /\ h[s] = IF s = {} THEN 0 ELSE d[Element(s)] + h[Rest(s)]
  <2>1. s \in SUBSET S /\ s \in SUBSET U
    OBVIOUS
  <2> QED
    BY <2>1 DEF IsSetSum
<1>2. 0 \in T
  BY <1>0, <1>1, FS_EmptySet
<1>3. ASSUME NEW n \in Nat, n \in T PROVE n + 1 \in T
  <2> SUFFICES ASSUME NEW s \in SUBSET R, Cardinality(s) = n + 1 PROVE g[s] = h[s]
    OBVIOUS
  <2>1. s # {}
    BY FS_EmptySet
  <2>2. Element(s) \in R /\ Rest(s) \in SUBSET R /\ Cardinality(Rest(s)) = n
    BY <1>0, <2>1, RestFacts
  <2>3. g[Rest(s)] = h[Rest(s)]
    BY <1>3, <2>2
  <2> QED
    BY <1>1, <2>1, <2>2, <2>3
<1>4. Nat \subseteq T
  <2> HIDE DEF T
  <2> QED
    BY <1>2, <1>3, SetInduction
<1>5. R \in SUBSET R /\ Cardinality(R) \in T
  BY <1>0, <1>4
<1> QED
  BY <1>5

\* SetSum is that solution, for the finite subsets of c's domain.
LEMMA SetSumIs ==
  ASSUME NEW S, IsFiniteSet(S), NEW c \in [S -> Nat], NEW g, IsSetSum(g, c, SUBSET S),
         NEW R \in SUBSET S
  PROVE  SetSum(c, R) = g[R]
<1>1. IsFiniteSet(R)
  BY FS_Subset
<1> DEFINE d == [x \in R |-> c[x]]
           h == CHOOSE k : IsSetSum(k, c, SUBSET R)
<1>2. d \in [R -> Nat]
  OBVIOUS
<1>3. PICK k : IsSetSum(k, d, SUBSET R)
  BY <1>1, <1>2, SetSumExists
<1>4. \A s \in SUBSET R : s # {} => c[Element(s)] = d[Element(s)]
  BY DEF Element
<1>5. [s \in SUBSET R |-> IF s = {} THEN 0 ELSE d[Element(s)] + k[Rest(s)]]
      = [s \in SUBSET R |-> IF s = {} THEN 0 ELSE c[Element(s)] + k[Rest(s)]]
  <2> HIDE DEF d
  <2> QED
    BY <1>4
<1>6. IsSetSum(k, c, SUBSET R)
  <2> HIDE DEF d
  <2> QED
    BY <1>3, <1>5 DEF IsSetSum
<1>7. IsSetSum(h, c, SUBSET R)
  BY <1>6, Zenon
<1>8. SetSum(c, R) = h[R]
  BY SetSumDef
<1> QED
  <2> HIDE DEF h
  <2> QED
    BY <1>1, <1>7, <1>8, SetSumUnique

\* What SetSum computes: 0 for the empty set, and otherwise an element's number
\* and the sum over the rest.
LEMMA SetSumType ==
  ASSUME NEW S, IsFiniteSet(S), NEW c \in [S -> Nat], NEW R \in SUBSET S
  PROVE  SetSum(c, R) \in Nat
<1>1. PICK g \in [SUBSET S -> Nat] : IsSetSum(g, c, SUBSET S)
  BY SetSumExists
<1>2. SetSum(c, R) = g[R]
  BY <1>1, SetSumIs
<1> QED
  BY <1>2

LEMMA SetSumStep ==
  ASSUME NEW S, IsFiniteSet(S), NEW c \in [S -> Nat], NEW R \in SUBSET S
  PROVE  SetSum(c, R) = IF R = {} THEN 0 ELSE c[Element(R)] + SetSum(c, Rest(R))
<1>1. PICK g \in [SUBSET S -> Nat] : IsSetSum(g, c, SUBSET S)
  BY SetSumExists
<1>2. SetSum(c, R) = g[R] /\ SetSum(c, Rest(R)) = g[Rest(R)]
  BY <1>1, SetSumIs DEF Rest
<1>3. g[R] = IF R = {} THEN 0 ELSE c[Element(R)] + g[Rest(R)]
  BY <1>1 DEF IsSetSum
<1> QED
  BY <1>2, <1>3

\* It does not matter which element comes first.
LEMMA SetSumRemove ==
  ASSUME NEW S, IsFiniteSet(S), NEW c \in [S -> Nat], NEW R \in SUBSET S, NEW x \in R
  PROVE  SetSum(c, R) = c[x] + SetSum(c, R \ {x})
<1> DEFINE T == {n \in Nat : \A s \in SUBSET S : Cardinality(s) = n =>
                   \A y \in s : SetSum(c, s) = c[y] + SetSum(c, s \ {y})}
<1>0. \A s \in SUBSET S : IsFiniteSet(s) /\ Cardinality(s) \in Nat /\ SetSum(c, s) \in Nat
  BY FS_Subset, FS_CardinalityType, SetSumType
<1>1. 0 \in T
  BY <1>0, FS_EmptySet
<1>2. ASSUME NEW n \in Nat, n \in T PROVE n + 1 \in T
  <2> SUFFICES ASSUME NEW s \in SUBSET S, Cardinality(s) = n + 1, NEW y \in s
               PROVE  SetSum(c, s) = c[y] + SetSum(c, s \ {y})
    OBVIOUS
  <2> DEFINE z == Element(s)
  <2>1. /\ z \in s /\ Rest(s) = s \ {z}
        /\ SetSum(c, s) = c[z] + SetSum(c, s \ {z})
    BY SetSumStep DEF Element, Rest
  <2> HIDE DEF z
  <2>2. CASE y = z
    BY <2>1, <2>2
  <2>3. CASE y # z
    <3>1. /\ Cardinality(s \ {z}) = n /\ y \in s \ {z}
          /\ Cardinality(s \ {y}) = n /\ z \in s \ {y}
      BY <1>0, <2>1, <2>3, FS_RemoveElement
    <3>2. /\ SetSum(c, s \ {z}) = c[y] + SetSum(c, (s \ {z}) \ {y})
          /\ SetSum(c, s \ {y}) = c[z] + SetSum(c, (s \ {y}) \ {z})
      BY <1>2, <3>1
    <3> DEFINE rest == (s \ {y}) \ {z}
    <3>3. (s \ {z}) \ {y} = rest
      OBVIOUS
    <3>4. c[y] \in Nat /\ c[z] \in Nat /\ SetSum(c, rest) \in Nat
      BY <1>0, <2>1
    <3>5. SetSum(c, s \ {z}) = c[y] + SetSum(c, rest)
      BY <3>2, <3>3, Zenon
    <3> HIDE DEF rest
    <3>6. SetSum(c, s \ {y}) = c[z] + SetSum(c, rest)
      BY <3>2 DEF rest
    <3> QED
      BY <2>1, <3>4, <3>5, <3>6
  <2> QED
    BY <2>2, <2>3
<1>3. Nat \subseteq T
  <2> HIDE DEF T
  <2> QED
    BY <1>1, <1>2, SetInduction
<1> QED
  BY <1>0, <1>3

LEMMA SetSumEmpty ==
  ASSUME NEW S, IsFiniteSet(S), NEW c \in [S -> Nat]
  PROVE  SetSum(c, {}) = 0
BY SetSumStep

\* One more element adds at most its number; fewer elements sum up to no more.
LEMMA SetSumMono ==
  ASSUME NEW S, IsFiniteSet(S), NEW c \in [S -> Nat], NEW R \in SUBSET S, NEW Q \in SUBSET R
  PROVE  SetSum(c, Q) <= SetSum(c, R)
<1> DEFINE T == {n \in Nat : \A s \in SUBSET S : Cardinality(s) = n =>
                   \A q \in SUBSET s : SetSum(c, q) <= SetSum(c, s)}
<1>0. \A s \in SUBSET S : IsFiniteSet(s) /\ Cardinality(s) \in Nat /\ SetSum(c, s) \in Nat
  BY FS_Subset, FS_CardinalityType, SetSumType
<1>1. 0 \in T
  <2> SUFFICES ASSUME NEW s \in SUBSET S, Cardinality(s) = 0, NEW q \in SUBSET s
               PROVE  SetSum(c, q) <= SetSum(c, s)
    OBVIOUS
  <2>1. q = s
    BY <1>0, FS_EmptySet
  <2> QED
    BY <1>0, <2>1
<1>2. ASSUME NEW n \in Nat, n \in T PROVE n + 1 \in T
  <2> SUFFICES ASSUME NEW s \in SUBSET S, Cardinality(s) = n + 1, NEW q \in SUBSET s, q # s
               PROVE  SetSum(c, q) <= SetSum(c, s)
    BY <1>0
  <2>1. PICK y \in s : y \notin q
    OBVIOUS
  <2>2. Cardinality(s \ {y}) = n /\ q \in SUBSET (s \ {y})
    BY <1>0, <2>1, FS_RemoveElement
  <2>3. SetSum(c, q) <= SetSum(c, s \ {y})
    BY <1>2, <2>2
  <2>4. SetSum(c, s) = c[y] + SetSum(c, s \ {y})
    BY SetSumRemove
  <2>5. c[y] \in Nat /\ SetSum(c, q) \in Nat /\ SetSum(c, s \ {y}) \in Nat
    BY <1>0
  <2> QED
    BY <2>3, <2>4, <2>5
<1>3. Nat \subseteq T
  <2> HIDE DEF T
  <2> QED
    BY <1>1, <1>2, SetInduction
<1> QED
  BY <1>0, <1>3

LEMMA SetSumAdd ==
  ASSUME NEW S, IsFiniteSet(S), NEW c \in [S -> Nat], NEW R \in SUBSET S, NEW x \in S,
         NEW Q \in SUBSET (R \cup {x})
  PROVE  SetSum(c, Q) <= SetSum(c, R) + c[x]
<1>0. \A s \in SUBSET S : SetSum(c, s) \in Nat
  BY SetSumType
<1>1. c[x] \in Nat /\ SetSum(c, R) \in Nat /\ SetSum(c, Q) \in Nat /\ SetSum(c, Q \ {x}) \in Nat
  BY <1>0
<1>2. SetSum(c, Q \ {x}) <= SetSum(c, R)
  BY SetSumMono
<1>3. CASE x \in Q
  BY <1>1, <1>2, <1>3, SetSumRemove
<1>4. CASE x \notin Q
  <2>1. SetSum(c, Q) <= SetSum(c, R)
    BY <1>4, SetSumMono
  <2> QED
    BY <1>1, <2>1
<1> QED
  BY <1>3, <1>4

\* The sum depends only on the numbers of the elements.
LEMMA SetSumAgree ==
  ASSUME NEW S, IsFiniteSet(S), NEW c \in [S -> Nat], NEW d \in [S -> Nat],
         NEW R \in SUBSET S, \A x \in R : c[x] = d[x]
  PROVE  SetSum(c, R) = SetSum(d, R)
<1>1. PICK g : IsSetSum(g, c, SUBSET S)
  BY SetSumExists
<1>2. PICK h : IsSetSum(h, d, SUBSET S)
  BY SetSumExists
<1>3. SetSum(c, R) = g[R] /\ SetSum(d, R) = h[R]
  BY <1>1, <1>2, SetSumIs
<1>4. IsFiniteSet(R)
  BY FS_Subset
<1> QED
  BY <1>1, <1>2, <1>3, <1>4, SetSumUnique

\* Zeros sum up to zero.
LEMMA SetSumZero ==
  ASSUME NEW S, IsFiniteSet(S), NEW R \in SUBSET S
  PROVE  SetSum([x \in S |-> 0], R) = 0
<1> DEFINE c == [x \in S |-> 0]
           g == [s \in SUBSET S |-> 0]
<1>1. \A s \in SUBSET S : s # {} => Element(s) \in S /\ Rest(s) \in SUBSET S
  BY DEF Element, Rest
<1>2. IsSetSum(g, c, SUBSET S)
  BY <1>1 DEF IsSetSum
<1>3. c \in [S -> Nat]
  OBVIOUS
<1>4. SetSum(c, R) = g[R]
  <2> HIDE DEF c, g
  <2> QED
    BY <1>2, <1>3, SetSumIs
<1> QED
  BY <1>4

\* When one number changes, so does the sum over a set with its element, by the
\* difference, and no other sum.
LEMMA SetSumUpdate ==
  ASSUME NEW S, IsFiniteSet(S), NEW c \in [S -> Nat], NEW d \in [S -> Nat],
         NEW R \in SUBSET S, NEW x \in S, \A y \in S : y # x => d[y] = c[y]
  PROVE  /\ SetSum(c, R) \in Nat /\ SetSum(d, R) \in Nat
         /\ SetSum(d, R) = IF x \in R THEN SetSum(c, R) - c[x] + d[x] ELSE SetSum(c, R)
<1>0. SetSum(c, R) \in Nat /\ SetSum(d, R) \in Nat
  BY SetSumType
<1>1. CASE x \notin R
  <2>1. \A y \in R : c[y] = d[y]
    BY <1>1
  <2>2. SetSum(c, R) = SetSum(d, R)
    BY <2>1, SetSumAgree
  <2> QED
    BY <1>0, <1>1, <2>2
<1>2. CASE x \in R
  <2>1. R \ {x} \in SUBSET S /\ \A y \in R \ {x} : c[y] = d[y]
    OBVIOUS
  <2>2. SetSum(c, R \ {x}) = SetSum(d, R \ {x})
    BY <2>1, SetSumAgree
  <2>3. SetSum(c, R) = c[x] + SetSum(c, R \ {x}) /\ SetSum(d, R) = d[x] + SetSum(d, R \ {x})
    BY <1>2, SetSumRemove
  <2>4. SetSum(c, R \ {x}) \in Nat /\ c[x] \in Nat /\ d[x] \in Nat
    BY <2>1, SetSumType
  <2>5. SetSum(d, R) = SetSum(c, R) - c[x] + d[x]
    BY <2>2, <2>3, <2>4
  <2> QED
    BY <1>0, <1>2, <2>5
<1> QED
  BY <1>1, <1>2

\* A sum over a set is at most the sum over the numbers k up to n, when h maps some
\* of them to all its elements and c[k] is at least the number of the element h[k].
LEMMA CoveredSum ==
  ASSUME NEW S, IsFiniteSet(S), NEW cost \in [S -> Nat], NEW R \in SUBSET S,
         NEW n \in Nat, NEW c \in [1 .. n -> Nat], NEW h,
         \A x \in R : \E k \in 1 .. n : h[k] = x,
         \A k \in 1 .. n : h[k] \in R => cost[h[k]] <= c[k]
  PROVE  SetSum(cost, R) <= SumTo(c, n)
<1> DEFINE p == PartialSum(c, n)
           Covered(Q, m) == \A x \in Q : \E k \in 1 .. m : h[k] = x
           T == {m \in Nat : m <= n =>
                   \A Q \in SUBSET R : Covered(Q, m) => SetSum(cost, Q) <= p[m]}
<1>1. p \in [0 .. n -> Nat] /\ IsPartialSum(p, c, n)
  BY PartialSumProperty
<1> HIDE DEF p
<1>2. p[0] = 0 /\ \A k \in Nat : k + 1 <= n => p[k + 1] = p[k] + c[k + 1]
  <2>1. \A k \in 0 .. n : p[k] = IF k = 0 THEN 0 ELSE p[k - 1] + c[k]
    BY <1>1 DEF IsPartialSum
  <2>2. p[0] = 0
    BY <2>1
  <2>3. ASSUME NEW k \in Nat, k + 1 <= n PROVE p[k + 1] = p[k] + c[k + 1]
    <3>1. k + 1 \in 0 .. n /\ k + 1 # 0 /\ (k + 1) - 1 = k
      BY <2>3
    <3> QED
      BY <2>1, <3>1
  <2> QED
    BY <2>2, <2>3
<1>3. 0 \in T
  <2> SUFFICES ASSUME NEW Q \in SUBSET R, Covered(Q, 0) PROVE SetSum(cost, Q) <= p[0]
    OBVIOUS
  <2>1. Q = {}
    OBVIOUS
  <2> QED
    BY <1>2, <2>1, SetSumEmpty
<1>4. ASSUME NEW m \in Nat, m \in T PROVE m + 1 \in T
  <2> SUFFICES ASSUME m + 1 <= n, NEW Q \in SUBSET R, Covered(Q, m + 1)
               PROVE  SetSum(cost, Q) <= p[m + 1]
    OBVIOUS
  <2> DEFINE x == h[m + 1]
             rest == Q \ {x}
  <2>1. Covered(rest, m)
    <3> SUFFICES ASSUME NEW y \in rest PROVE \E k \in 1 .. m : h[k] = y
      OBVIOUS
    <3>1. PICK k \in 1 .. m + 1 : h[k] = y
      OBVIOUS
    <3>2. k # m + 1
      BY <3>1
    <3> QED
      BY <3>1, <3>2
  <2>2. rest \in SUBSET R /\ rest \in SUBSET S /\ Q \in SUBSET S
    OBVIOUS
  <2>3. SetSum(cost, rest) <= p[m]
    BY <1>4, <2>1, <2>2
  <2>4. /\ p[m] \in Nat /\ c[m + 1] \in Nat /\ p[m + 1] = p[m] + c[m + 1]
        /\ m + 1 \in 1 .. n
    BY <1>1, <1>2
  <2>5. SetSum(cost, rest) \in Nat /\ SetSum(cost, Q) \in Nat
    BY <2>2, SetSumType
  <2>6. CASE x \in Q
    <3>1. SetSum(cost, Q) = cost[x] + SetSum(cost, rest)
      <4> HIDE DEF x
      <4> QED
        BY <2>2, <2>6, SetSumRemove
    <3>2. cost[x] \in Nat /\ cost[x] <= c[m + 1]
      BY <2>2, <2>4, <2>6
    <3> HIDE DEF rest, x
    <3> QED
      BY <2>3, <2>4, <2>5, <3>1, <3>2
  <2>7. CASE x \notin Q
    <3>1. rest = Q
      BY <2>7
    <3> HIDE DEF rest, x
    <3> QED
      BY <2>3, <2>4, <2>5, <3>1
  <2> QED
    BY <2>6, <2>7
<1>5. Nat \subseteq T
  <2> HIDE DEF T
  <2> QED
    BY <1>3, <1>4, SetInduction
<1>6. n \in T /\ R \in SUBSET R /\ Covered(R, n)
  BY <1>5
<1>7. SetSum(cost, R) <= p[n]
  BY <1>6
<1> QED
  BY <1>7 DEF p, SumTo

-----------------------------------------------------------------------------
IsSelections(s, q, S, n) ==
  s = [k \in 0 .. n |-> IF k = 0 THEN << >>
                      ELSE IF q[k] \in S THEN Append(s[k - 1], q[k])
                      ELSE s[k - 1]]

\* A selection of the first k elements of q: those in S, none of them twice.
SelectionOf(s, q, k, S, D) ==
  /\ s \in Seq(D)
  /\ \A m \in 1 .. Len(s) : s[m] \in S /\ \E j \in 1 .. k : s[m] = q[j]
  /\ IsInjective(q) => IsInjective(s)

LEMMA SelectionAppend ==
  ASSUME NEW D, NEW S, NEW q \in Seq(D), NEW k \in 0 .. Len(q) - 1, NEW s, SelectionOf(s, q, k, S, D)
  PROVE  /\ q[k + 1] \in S => SelectionOf(Append(s, q[k + 1]), q, k + 1, S, D)
         /\ SelectionOf(s, q, k + 1, S, D)
<1> DEFINE t == Append(s, q[k + 1])
<1>0. k \in Nat /\ k + 1 \in 1 .. Len(q) /\ q[k + 1] \in D /\ s \in Seq(D) /\ Len(s) \in Nat
  BY DEF SelectionOf
<1>1. /\ t \in Seq(D) /\ Len(t) = Len(s) + 1
      /\ \A m \in 1 .. Len(s) : t[m] = s[m]
      /\ t[Len(s) + 1] = q[k + 1]
  BY <1>0
<1>2. \A m \in 1 .. Len(s) : s[m] \in S /\ \E j \in 1 .. k + 1 : s[m] = q[j]
  BY <1>0 DEF SelectionOf
<1>3. SelectionOf(s, q, k + 1, S, D)
  BY <1>2 DEF SelectionOf
<1>4. ASSUME q[k + 1] \in S PROVE SelectionOf(t, q, k + 1, S, D)
  <2> HIDE DEF t
  <2>1. ASSUME NEW m \in 1 .. Len(t) PROVE t[m] \in S /\ \E j \in 1 .. k + 1 : t[m] = q[j]
    <3>1. CASE m \in 1 .. Len(s)
      BY <1>1, <1>2, <3>1
    <3>2. CASE m = Len(s) + 1
      BY <1>0, <1>1, <1>4, <3>2
    <3> QED
      BY <1>0, <1>1, <3>1, <3>2
  <2>2. ASSUME IsInjective(q) PROVE IsInjective(t)
    <3>1. \A i, j \in 1 .. Len(q) : q[i] = q[j] => i = j
      BY <2>2 DEF IsInjective
    <3>2. \A i, j \in 1 .. Len(s) : s[i] = s[j] => i = j
      BY <1>0, <2>2 DEF SelectionOf, IsInjective
    <3>3. ASSUME NEW m \in 1 .. Len(s) PROVE s[m] # q[k + 1]
      <4>1. PICK j \in 1 .. k : s[m] = q[j]
        BY DEF SelectionOf
      <4> QED
        BY <1>0, <3>1, <4>1
    <3>4. \A i, j \in 1 .. Len(t) : t[i] = t[j] => i = j
      BY <1>0, <1>1, <3>2, <3>3
    <3> QED
      BY <1>1, <3>4 DEF IsInjective
  <2> QED
    BY <1>1, <2>1, <2>2 DEF SelectionOf
<1> QED
  BY <1>3, <1>4

\* Selected(q, S) is a part of q, in S, and repeats nothing that q does not.
LEMMA SelectedProperties ==
  ASSUME NEW D, NEW S, NEW q \in Seq(D)
  PROVE  /\ Selected(q, S) \in Seq(D)
         /\ Range(Selected(q, S)) \subseteq Range(q) \cap S
         /\ IsInjective(q) => IsInjective(Selected(q, S))
<1> DEFINE n == Len(q)
<1>0. n \in Nat /\ DOMAIN q = 1 .. n
  OBVIOUS
<1> DEFINE T == {m \in Nat : m <= n => \E s : IsSelections(s, q, S, m)}
<1> HIDE DEF n
<1>1. 0 \in T
  <2> DEFINE s == [k \in 0 .. 0 |-> << >>]
  <2>1. IsSelections(s, q, S, 0)
    BY DEF IsSelections
  <2> QED
    BY <2>1
<1>2. ASSUME NEW m \in Nat, m \in T PROVE m + 1 \in T
  <2> SUFFICES ASSUME m + 1 <= n PROVE \E s : IsSelections(s, q, S, m + 1)
    OBVIOUS
  <2>1. PICK s : IsSelections(s, q, S, m)
    BY <1>0, <1>2
  <2> DEFINE t == [k \in 0 .. m + 1 |-> IF k = m + 1
                     THEN IF q[k] \in S THEN Append(s[m], q[k]) ELSE s[m] ELSE s[k]]
  <2>2. \A k \in 0 .. m : t[k] = s[k]
    OBVIOUS
  <2>3. t[m + 1] = IF q[m + 1] \in S THEN Append(t[m], q[m + 1]) ELSE t[m]
    BY <2>2
  <2>4. t = [k \in 0 .. m + 1 |-> t[k]]
    OBVIOUS
  <2> HIDE DEF t
  <2>5. ASSUME NEW k \in 0 .. m + 1
        PROVE  t[k] = IF k = 0 THEN << >> ELSE IF q[k] \in S THEN Append(t[k - 1], q[k]) ELSE t[k - 1]
    <3>1. CASE k = m + 1
      BY <2>3, <3>1
    <3>2. CASE k \in 0 .. m
      <4>1. s[k] = IF k = 0 THEN << >> ELSE IF q[k] \in S THEN Append(s[k - 1], q[k]) ELSE s[k - 1]
        BY <2>1, <3>2 DEF IsSelections
      <4>2. k # 0 => k - 1 \in 0 .. m
        BY <3>2
      <4> QED
        BY <2>2, <3>2, <4>1, <4>2
    <3> QED
      BY <3>1, <3>2
  <2>6. IsSelections(t, q, S, m + 1)
    BY <2>4, <2>5, Zenon DEF IsSelections
  <2> QED
    BY <2>6
<1>3. Nat \subseteq T
  <2> HIDE DEF T
  <2> QED
    BY <1>1, <1>2, SetInduction
<1>4. \E s : IsSelections(s, q, S, n)
  BY <1>0, <1>3
<1>5. Selections(q, S) = CHOOSE s : IsSelections(s, q, S, n)
  BY DEF Selections, IsSelections, n
<1> DEFINE s == Selections(q, S)
           V == {k \in Nat : k <= n => SelectionOf(s[k], q, k, S, D)}
<1>6. IsSelections(s, q, S, n)
  BY <1>4, <1>5, Zenon
<1> HIDE DEF s
<1>7. \A k \in 0 .. n : s[k] = IF k = 0 THEN << >> ELSE IF q[k] \in S THEN Append(s[k - 1], q[k]) ELSE s[k - 1]
  BY <1>6 DEF IsSelections
<1>8. 0 \in V
  <2>1. s[0] = << >>
    BY <1>0, <1>7
  <2>2. SelectionOf(<< >>, q, 0, S, D)
    BY DEF SelectionOf, IsInjective
  <2> QED
    BY <2>1, <2>2
<1>9. ASSUME NEW k \in Nat, k \in V PROVE k + 1 \in V
  <2> SUFFICES ASSUME k + 1 <= n PROVE SelectionOf(s[k + 1], q, k + 1, S, D)
    OBVIOUS
  <2>1. k \in 0 .. Len(q) - 1 /\ SelectionOf(s[k], q, k, S, D)
    BY <1>0, <1>9 DEF n
  <2>2. s[k + 1] = IF q[k + 1] \in S THEN Append(s[k], q[k + 1]) ELSE s[k]
    BY <1>0, <1>7
  <2> QED
    BY <2>1, <2>2, SelectionAppend
<1>10. Nat \subseteq V
  <2> HIDE DEF V
  <2> QED
    BY <1>8, <1>9, SetInduction
<1>11. SelectionOf(s[n], q, n, S, D)
  BY <1>0, <1>10
<1>12. Selected(q, S) = s[n]
  BY DEF Selected, s, n
<1> DEFINE r == Selected(q, S)
<1>13. r \in Seq(D) /\ DOMAIN r = 1 .. Len(r) /\ (IsInjective(q) => IsInjective(r))
  BY <1>11, <1>12 DEF SelectionOf
<1>14. \A m \in 1 .. Len(r) : r[m] \in S /\ \E j \in 1 .. n : r[m] = q[j]
  BY <1>11, <1>12 DEF SelectionOf
<1> HIDE DEF r
<1>15. Range(r) \subseteq Range(q) \cap S
  BY <1>0, <1>13, <1>14 DEF Range
<1> QED
  BY <1>13, <1>15 DEF r

=============================================================================
