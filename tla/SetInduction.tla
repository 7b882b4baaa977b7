----------------------------- MODULE SetInduction -----------------------------
(***************************************************************************)
(* Induction on sets, and what it gives: least elements, functions defined *)
(* by repeating a step, sums over finite sets as MapThenSumSet takes them, *)
(* and arithmetic modulo a width. Shared by the proofs of the components.  *)
(***************************************************************************)
EXTENDS Integers, FiniteSets, FiniteSetTheorems, TLAPS

-----------------------------------------------------------------------------
(* Induction on the natural numbers, with a set for the property.          *)
LEMMA NatSetInduction ==
  ASSUME NEW S, 0 \in S, \A n \in S \cap Nat : n + 1 \in S
  PROVE  Nat \subseteq S
<1>1. SUFFICES ASSUME Nat \ S # {} PROVE FALSE
  OBVIOUS
<1> DEFINE R == OpToRel(<, Nat)
<1>2. IsWellFoundedOn(R, Nat)
  BY NatLessThanWellFounded
<1> HIDE DEF R
<1>3. PICK x \in Nat \ S : \A y \in Nat \ S : ~(<<y, x>> \in R)
  BY <1>1, <1>2, WFMin
<1>4. x - 1 \in Nat \ S
  <2>1. x # 0 /\ x \in Nat
    BY <1>3
  <2>2. x - 1 \in Nat /\ (x - 1) + 1 = x
    BY <2>1
  <2>3. x - 1 \in S => (x - 1) + 1 \in S
    BY <2>2
  <2>4. QED
    BY <1>3, <2>2, <2>3
<1>5. <<x - 1, x>> \in R
  BY <1>3, <1>4 DEF R, OpToRel
<1> QED
  BY <1>3, <1>4, <1>5

(* A set of natural numbers has a least element, and a greatest one if it  *)
(* is bounded.                                                             *)
LEMMA Minimum ==
  ASSUME NEW S \in SUBSET Nat, S # {}
  PROVE  \E x \in S : \A y \in S : x <= y
<1> DEFINE R == OpToRel(<, Nat)
<1>1. IsWellFoundedOn(R, Nat)
  BY NatLessThanWellFounded
<1> HIDE DEF R
<1>2. PICK x \in S : \A y \in S : ~(<<y, x>> \in R)
  BY <1>1, WFMin
<1>3. ASSUME NEW y \in S PROVE x <= y
  <2>1. x \in Nat /\ y \in Nat
    BY <1>2
  <2>2. y < x => <<y, x>> \in R
    BY <2>1 DEF R, OpToRel
  <2> QED
    BY <1>2, <2>1, <2>2
<1> QED
  BY <1>3

LEMMA Maximum ==
  ASSUME NEW n \in Nat, NEW S \in SUBSET (0..n), S # {}
  PROVE  \E x \in S : \A y \in S : x >= y
<1> DEFINE T == {n - x : x \in S}
<1>1. T \in SUBSET Nat /\ T # {}
  <2>1. \A x \in S : n - x \in Nat
    OBVIOUS
  <2>2. PICK x \in S : TRUE
    OBVIOUS
  <2>3. n - x \in T
    OBVIOUS
  <2> QED
    BY <2>1, <2>3
<1>2. PICK t \in T : \A u \in T : t <= u
  BY <1>1, Minimum
<1>3. PICK x \in S : t = n - x
  OBVIOUS
<1>4. \A y \in S : n - y \in T
  OBVIOUS
<1>5. \A y \in S : n - x <= n - y
  BY <1>2, <1>3, <1>4
<1> QED
  BY <1>5

(* A step that stays in D can be repeated any number of times.             *)
Iterates(g, M, first, step) ==
  g = [n \in 0..M |-> IF n = 0 THEN first ELSE step[g[n - 1]]]

LEMMA IterationExists ==
  ASSUME NEW M \in Nat, NEW D, NEW step \in [D -> D], NEW first \in D
  PROVE  \E g : Iterates(g, M, first, step) /\ \A n \in 0..M : g[n] \in D
<1> DEFINE Correct(g, m) == \A n \in 0..m : g[n] = IF n = 0 THEN first ELSE step[g[n - 1]]
           N == {m \in Nat : \E g : Correct(g, m)}
<1>1. 0 \in N
  <2>1. Correct([n \in {0} |-> first], 0)
    OBVIOUS
  <2> HIDE DEF Correct
  <2> QED
    BY <2>1
<1>2. ASSUME NEW m \in N PROVE m + 1 \in N
  <2>1. m \in Nat
    OBVIOUS
  <2>2. PICK g : Correct(g, m)
    OBVIOUS
  <2> DEFINE h == [n \in 0..(m + 1) |-> IF n = m + 1 THEN step[g[m]] ELSE g[n]]
  <2>3. ASSUME NEW n \in 0..(m + 1) PROVE h[n] = IF n = 0 THEN first ELSE step[h[n - 1]]
    <3>1. CASE n = m + 1
      <4>1. h[n] = step[g[m]] /\ n # 0 /\ n - 1 = m /\ h[m] = g[m]
        BY <2>1, <3>1
      <4> QED
        BY <4>1
    <3>2. CASE n # m + 1
      <4>1. n \in 0..m /\ h[n] = g[n]
        BY <2>1, <3>2
      <4>2. n # 0 => n - 1 \in 0..(m + 1) /\ n - 1 # m + 1
        BY <2>1, <4>1
      <4>3. n # 0 => h[n - 1] = g[n - 1]
        BY <4>2
      <4> QED
        BY <2>2, <4>1, <4>3
    <3> QED
      BY <3>1, <3>2
  <2>4. Correct(h, m + 1)
    BY <2>3
  <2> HIDE DEF h, Correct
  <2> QED
    BY <2>1, <2>4
<1> HIDE DEF N, Correct
<1>3. Nat \subseteq N
  BY <1>1, <1>2, NatSetInduction
<1>4. PICK g : Correct(g, M)
  BY <1>3 DEF N
<1> DEFINE iterated == [n \in 0..M |-> g[n]]
<1>5. ASSUME NEW n \in 0..M
      PROVE  iterated[n] = IF n = 0 THEN first ELSE step[iterated[n - 1]]
  <2>1. n # 0 => n - 1 \in 0..M
    OBVIOUS
  <2>2. n # 0 => iterated[n - 1] = g[n - 1]
    BY <2>1
  <2>3. g[n] = IF n = 0 THEN first ELSE step[g[n - 1]]
    BY <1>4 DEF Correct
  <2> QED
    BY <2>2, <2>3
<1>6. Iterates(iterated, M, first, step)
  BY <1>5 DEF Iterates
<1> HIDE DEF iterated
<1> DEFINE T == {n \in Nat : n <= M => iterated[n] \in D}
<1>7. 0 \in T
  BY <1>5
<1>8. ASSUME NEW n \in T PROVE n + 1 \in T
  BY <1>5
<1> HIDE DEF T
<1>9. Nat \subseteq T
  BY <1>7, <1>8, NatSetInduction
<1> QED
  BY <1>6, <1>9 DEF T

(* Induction on the subsets of a finite set, by their size.                *)
LEMMA SubsetInduction ==
  ASSUME NEW S, IsFiniteSet(S), NEW D, {} \in D,
         \A T \in SUBSET S : T # {} /\ (\A x \in T : T \ {x} \in D) => T \in D
  PROVE  SUBSET S \subseteq D
<1> DEFINE N == {n \in Nat : \A T \in SUBSET S : Cardinality(T) = n => T \in D}
<1>1. 0 \in N
  BY FS_Subset, FS_EmptySet
<1>2. ASSUME NEW n \in N PROVE n + 1 \in N
  <2>1. n \in Nat /\ n + 1 \in Nat /\ \A T \in SUBSET S : Cardinality(T) = n => T \in D
    BY <1>2
  <2> HIDE DEF N
  <2>2. ASSUME NEW T \in SUBSET S, Cardinality(T) = n + 1 PROVE T \in D
    <3>1. IsFiniteSet(T)
      BY FS_Subset
    <3>2. T # {}
      <4>1. n + 1 # 0
        BY <2>1
      <4> QED
        BY <2>2, <4>1, FS_EmptySet
    <3>3. ASSUME NEW x \in T PROVE T \ {x} \in D
      <4>1. Cardinality(T \ {x}) = Cardinality(T) - 1
        BY <3>1, FS_RemoveElement
      <4>2. Cardinality(T \ {x}) = n
        BY <2>1, <2>2, <4>1
      <4> QED
        BY <2>1, <4>2
    <3> QED
      BY <3>2, <3>3
  <2> QED
    BY <2>1, <2>2 DEF N
<1> HIDE DEF N
<1>3. Nat \subseteq N
  BY <1>1, <1>2, NatSetInduction
<1>4. ASSUME NEW T \in SUBSET S PROVE T \in D
  <2>1. Cardinality(T) \in Nat
    BY FS_Subset, FS_CardinalityType
  <2> QED
    BY <1>3, <2>1 DEF N
<1> QED
  BY <1>4

-----------------------------------------------------------------------------
(* Sums. MapThenSumSet takes the elements of a set one at a time, each     *)
(* chosen by CHOOSE, with a function on the subsets; f gives the summands. *)

Pick(s) == CHOOSE x \in s : TRUE

Partial(sum, f, s) == IF s = {} THEN 0 ELSE f[Pick(s)] + sum[s \ {Pick(s)}]

IsSum(sum, f, S) == sum = [s \in SUBSET S |-> Partial(sum, f, s)]

LEMMA PickIn == ASSUME NEW s, s # {} PROVE Pick(s) \in s
  BY DEF Pick

(* Such a function exists: it is correct for ever larger subsets.          *)
LEMMA SumExists ==
  ASSUME NEW S, IsFiniteSet(S), NEW f
  PROVE  \E sum : IsSum(sum, f, S)
<1> DEFINE Correct(g, n) ==
             \A s \in SUBSET S : Cardinality(s) <= n => g[s] = Partial(g, f, s)
           N == {n \in Nat : \E g : Correct(g, n)}
<1>1. 0 \in N
  <2> DEFINE g == [s \in SUBSET S |-> 0]
  <2>1. ASSUME NEW s \in SUBSET S, Cardinality(s) <= 0 PROVE g[s] = Partial(g, f, s)
    <3>1. IsFiniteSet(s) /\ Cardinality(s) \in Nat
      BY FS_Subset, FS_CardinalityType
    <3>2. s = {}
      BY <2>1, <3>1, FS_EmptySet
    <3> QED
      BY <3>2 DEF Partial
  <2>2. Correct(g, 0)
    BY <2>1
  <2> HIDE DEF g, Correct
  <2> QED
    BY <2>2
<1>2. ASSUME NEW n \in N PROVE n + 1 \in N
  <2>1. n \in Nat
    OBVIOUS
  <2>2. PICK g : Correct(g, n)
    OBVIOUS
  <2> DEFINE h == [s \in SUBSET S |-> Partial(g, f, s)]
  <2>3. ASSUME NEW s \in SUBSET S, Cardinality(s) <= n + 1
        PROVE  h[s] = Partial(h, f, s)
    <3>1. CASE s = {}
      BY <3>1 DEF Partial
    <3>2. CASE s # {}
      <4> DEFINE t == s \ {Pick(s)}
      <4>1. Pick(s) \in s /\ IsFiniteSet(s) /\ Cardinality(s) \in Nat
        BY <3>2, PickIn, FS_Subset, FS_CardinalityType
      <4>2. Cardinality(t) <= n
        <5>1. Cardinality(t) = Cardinality(s) - 1
          BY <4>1, FS_RemoveElement
        <5> QED
          BY <2>1, <2>3, <4>1, <5>1
      <4>3. h[t] = g[t]
        BY <2>2, <4>2
      <4> QED
        BY <3>2, <4>3 DEF Partial
    <3> QED
      BY <3>1, <3>2
  <2>4. Correct(h, n + 1)
    BY <2>3
  <2> HIDE DEF h, Correct
  <2> QED
    BY <2>1, <2>4
<1> HIDE DEF N, Correct
<1>3. Nat \subseteq N
  BY <1>1, <1>2, NatSetInduction
<1>4. Cardinality(S) \in Nat
  BY FS_CardinalityType
<1>5. PICK g : Correct(g, Cardinality(S))
  BY <1>3, <1>4 DEF N
<1> DEFINE sum == [s \in SUBSET S |-> g[s]]
<1>6. ASSUME NEW s \in SUBSET S PROVE sum[s] = Partial(sum, f, s)
  <2>1. Cardinality(s) <= Cardinality(S)
    BY FS_Subset
  <2>2. g[s] = Partial(g, f, s)
    BY <1>5, <2>1 DEF Correct
  <2> QED
    BY <2>2 DEF Partial
<1>7. IsSum(sum, f, S)
  BY <1>6 DEF IsSum
<1> HIDE DEF sum
<1> QED
  BY <1>7

LEMMA SumType ==
  ASSUME NEW S, IsFiniteSet(S), NEW f, NEW sum, IsSum(sum, f, S),
         \A x \in S : f[x] \in Int
  PROVE  \A T \in SUBSET S : sum[T] \in Int
<1> DEFINE D == {T \in SUBSET S : sum[T] \in Int}
<1>1. \A T \in SUBSET S : sum[T] = Partial(sum, f, T)
  BY DEF IsSum
<1>2. {} \in D
  BY <1>1 DEF Partial
<1>3. ASSUME NEW T \in SUBSET S, T # {}, \A x \in T : T \ {x} \in D
      PROVE  T \in D
  <2>1. Pick(T) \in T /\ sum[T] = f[Pick(T)] + sum[T \ {Pick(T)}]
    BY <1>1, <1>3, PickIn DEF Partial
  <2>2. sum[T \ {Pick(T)}] \in Int /\ f[Pick(T)] \in Int
    BY <1>3, <2>1
  <2>3. sum[T] \in Int
    BY <2>1, <2>2
  <2> QED
    BY <2>3
<1> HIDE DEF D
<1>4. SUBSET S \subseteq D
  BY <1>2, <1>3, SubsetInduction
<1> QED
  BY <1>4 DEF D

(* The order in which the elements are taken does not matter.              *)
LEMMA SumAny ==
  ASSUME NEW S, IsFiniteSet(S), NEW f, NEW sum, IsSum(sum, f, S),
         \A x \in S : f[x] \in Int
  PROVE  \A T \in SUBSET S : \A x \in T : sum[T] = f[x] + sum[T \ {x}]
<1> DEFINE D == {T \in SUBSET S : \A x \in T : sum[T] = f[x] + sum[T \ {x}]}
<1>1. \A T \in SUBSET S : sum[T] = Partial(sum, f, T) /\ sum[T] \in Int
  BY SumType DEF IsSum
<1>2. {} \in D
  OBVIOUS
<1>3. ASSUME NEW T \in SUBSET S, T # {}, \A x \in T : T \ {x} \in D
      PROVE  T \in D
  <2> DEFINE p == Pick(T)
  <2>1. p \in T /\ sum[T] = f[p] + sum[T \ {p}]
    BY <1>1, <1>3, PickIn DEF Partial
  <2>2. ASSUME NEW x \in T PROVE sum[T] = f[x] + sum[T \ {x}]
    <3>1. CASE x = p
      BY <2>1, <3>1
    <3>2. CASE x # p
      <4> HIDE DEF p
      <4>1. sum[T \ {p}] = f[x] + sum[(T \ {p}) \ {x}]
        BY <1>3, <2>1, <3>2
      <4>2. sum[T \ {x}] = f[p] + sum[(T \ {x}) \ {p}]
        BY <1>3, <2>1, <3>2
      <4>3. (T \ {p}) \ {x} = (T \ {x}) \ {p}
        OBVIOUS
      <4>4. sum[(T \ {x}) \ {p}] \in Int /\ f[x] \in Int /\ f[p] \in Int
        BY <1>1, <2>1
      <4> DEFINE rest == sum[(T \ {x}) \ {p}]
      <4>5. sum[T] = f[p] + (f[x] + rest) /\ f[x] + sum[T \ {x}] = f[x] + (f[p] + rest)
        BY <2>1, <4>1, <4>2, <4>3
      <4> HIDE DEF rest
      <4>6. f[p] + (f[x] + rest) = f[x] + (f[p] + rest)
        BY <4>4 DEF rest
      <4> QED
        BY <4>5, <4>6
    <3> QED
      BY <3>1, <3>2
  <2> QED
    BY <2>2
<1> HIDE DEF D
<1>4. SUBSET S \subseteq D
  BY <1>2, <1>3, SubsetInduction
<1> QED
  BY <1>4 DEF D

(* Sums over the same set of the same summands are equal.                  *)
LEMMA SumCongruence ==
  ASSUME NEW S, IsFiniteSet(S), NEW S2, NEW f, NEW f2, NEW sum, NEW sum2,
         IsSum(sum, f, S), IsSum(sum2, f2, S2),
         NEW T \in SUBSET S, T \subseteq S2, \A x \in T : f[x] = f2[x]
  PROVE  sum[T] = sum2[T]
<1> DEFINE D == {U \in SUBSET T : sum[U] = sum2[U]}
<1>1. \A U \in SUBSET T : sum[U] = Partial(sum, f, U) /\ sum2[U] = Partial(sum2, f2, U)
  BY DEF IsSum
<1>2. {} \in D
  BY <1>1 DEF Partial
<1>3. ASSUME NEW U \in SUBSET T, U # {}, \A x \in U : U \ {x} \in D
      PROVE  U \in D
  BY <1>1, <1>3, PickIn DEF Partial
<1>4. IsFiniteSet(T)
  BY FS_Subset
<1> HIDE DEF D
<1>5. SUBSET T \subseteq D
  BY <1>2, <1>3, <1>4, SubsetInduction
<1> QED
  BY <1>5 DEF D

-----------------------------------------------------------------------------
(* The k-th smallest element of a finite set of natural numbers exists.    *)
LEMMA RankExists ==
  ASSUME NEW n \in Nat, NEW S \in SUBSET (1..n), NEW k \in 1..Cardinality(S)
  PROVE  \E a \in S : Cardinality({b \in S : b < a}) = k - 1
<1> DEFINE Ranked(T) ==
             \A j \in 1..Cardinality(T) :
               \E a \in T : Cardinality({b \in T : b < a}) = j - 1
           N == {m \in Nat : \A T \in SUBSET (1..m) : Ranked(T)}
<1>1. 0 \in N
  <2>1. ASSUME NEW T \in SUBSET (1..0) PROVE Ranked(T)
    <3>1. T = {}
      OBVIOUS
    <3>2. Cardinality(T) = 0
      BY <3>1, FS_EmptySet
    <3> QED
      BY <3>2
  <2> HIDE DEF Ranked
  <2> QED
    BY <2>1
<1>2. ASSUME NEW m \in N PROVE m + 1 \in N
  <2>1. m \in Nat /\ \A T \in SUBSET (1..m) : Ranked(T)
    OBVIOUS
  <2>2. ASSUME NEW T \in SUBSET (1..(m + 1)) PROVE Ranked(T)
    <3> DEFINE U == T \ {m + 1}
    <3>1. U \in SUBSET (1..m) /\ IsFiniteSet(T) /\ IsFiniteSet(U)
      <4>1. \A a \in T : a \in 1..(m + 1)
        OBVIOUS
      <4>2. m \in Int /\ m + 1 \in Int /\ 1 \in Int
        BY <2>1
      <4>3. \A a \in U : a \in 1..m
        BY <4>1, <2>1
      <4>4. IsFiniteSet(1..(m + 1))
        BY <4>2, FS_Interval
      <4>5. IsFiniteSet(T)
        BY <4>4, FS_Subset
      <4>6. IsFiniteSet(U)
        BY <4>5, FS_Subset
      <4> QED
        BY <4>3, <4>5, <4>6
    <3>2. Cardinality(T) \in Nat /\ Cardinality(U) \in Nat
      BY <3>1, FS_CardinalityType
    <3>3. Cardinality(U) = IF m + 1 \in T THEN Cardinality(T) - 1 ELSE Cardinality(T)
      BY <3>1, FS_RemoveElement
    <3>4. ASSUME NEW j \in 1..Cardinality(T)
          PROVE  \E a \in T : Cardinality({b \in T : b < a}) = j - 1
      <4>1. CASE j \in 1..Cardinality(U)
        <5>1. PICK a \in U : Cardinality({b \in U : b < a}) = j - 1
          BY <2>1, <3>1, <4>1
        <5>2. a \in 1..m
          BY <3>1
        <5>3. {b \in U : b < a} = {b \in T : b < a}
          BY <2>1, <3>1, <5>2
        <5> QED
          BY <5>1, <5>3
      <4>2. CASE j \notin 1..Cardinality(U)
        <5>1. m + 1 \in T /\ Cardinality(U) = j - 1
          BY <3>2, <3>3, <3>4, <4>2
        <5>2. {b \in T : b < m + 1} = U
          <6>1. \A b \in T : b \in 1..(m + 1)
            OBVIOUS
          <6>2. \A b \in T : b < m + 1 <=> b # m + 1
            BY <2>1, <6>1
          <6> QED
            BY <6>2
        <5> QED
          BY <5>1, <5>2
      <4> QED
        BY <4>1, <4>2
    <3> QED
      BY <3>4
  <2> HIDE DEF Ranked
  <2> QED
    BY <2>1, <2>2
<1> HIDE DEF N, Ranked
<1>3. Nat \subseteq N
  BY <1>1, <1>2, NatSetInduction
<1>4. Ranked(S)
  BY <1>3 DEF N
<1> QED
  BY <1>4 DEF Ranked
=============================================================================
