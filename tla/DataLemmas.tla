----------------------------- MODULE DataLemmas -----------------------------
(***************************************************************************)
(* What the proofs share: quotients and remainders, induction over numbers *)
(* and over finite sets, and sums.  The induction theorems of the library  *)
(* take an operator as a parameter; those here take the set of what the    *)
(* claim holds of.                                                         *)
(***************************************************************************)
EXTENDS Integers, FiniteSets, FiniteSetTheorems, WellFoundedInduction, TLAPS

----------------------------------------------------------------------------
(* Quotients and remainders.                                               *)

(* A value that fits in a word is not changed by the word's modulus (the
   uint32_t arithmetic and the mask 0xff of SurgeRecorder::update). *)
LEMMA ModSmall ==
  ASSUME NEW m \in Nat \ {0}, NEW x \in 0 .. (m - 1)
  PROVE  x % m = x
  OBVIOUS

(* A remainder is below its modulus (history[trace_count % HISTORY_SIZE],
   bitmap[current_score & 0xff]). *)
LEMMA ModBound ==
  ASSUME NEW m \in Nat \ {0}, NEW x \in Int
  PROVE  x % m \in 0 .. (m - 1)
  OBVIOUS

(* A number is its quotient and its remainder (trace_count % HISTORY_SIZE). *)
LEMMA Quotient ==
  ASSUME NEW m \in Nat \ {0}, NEW a \in Int
  PROVE  /\ a \div m \in Int /\ a % m \in 0 .. (m - 1)
         /\ a = m * (a \div m) + (a % m)
  OBVIOUS

(* Less than one turn of the ring is no turn. *)
LEMMA LessThanATurn ==
  ASSUME NEW m \in Nat \ {0}, NEW d \in Int, m * d < m, -m < m * d
  PROVE  d = 0
<1>1. CASE d >= 1
  <2>1. m * d >= m
    BY <1>1
  <2> QED
    BY <2>1
<1>2. CASE d <= -1
  <2>1. m * d <= -m
    BY <1>2
  <2> QED
    BY <2>1
<1> QED
  BY <1>1, <1>2

(* Whole turns of the ring leave its slots where they are. *)
LEMMA WholeTurns ==
  ASSUME NEW m \in Nat \ {0}, NEW a \in Int, NEW q \in Int
  PROVE  (a + m * q) % m = a % m
<1> DEFINE b == a + m * q
           p == b \div m
           r == b % m
           t == (a \div m) + q
           s == a % m
<1>1. b = m * p + r /\ p \in Int /\ r \in 0 .. (m - 1)
  BY Quotient
<1>2. a = m * (a \div m) + s /\ s \in 0 .. (m - 1) /\ a \div m \in Int
  BY Quotient
<1>3. b = m * t + s /\ t \in Int
  <2>1. \A x \in Int : m * x + m * q = m * (x + q)
    OBVIOUS
  <2>2. b = m * (a \div m) + m * q + s
    BY <1>2
  <2> QED
    BY <1>2, <2>1, <2>2
<1> HIDE DEF b, p, r, t, s
<1>4. r = s
  <2> DEFINE d == p - t
  <2>1. m * d = s - r /\ d \in Int
    BY <1>1, <1>2, <1>3
  <2>2. m * d < m /\ -m < m * d
    BY <1>1, <1>2, <2>1
  <2> HIDE DEF d
  <2>3. d = 0
    BY <2>1, <2>2, LessThanATurn
  <2> QED
    BY <1>1, <1>2, <2>1, <2>3
<1> QED
  BY <1>4 DEF b, r, s

----------------------------------------------------------------------------
(* Induction over numbers and over finite sets: what least counterexamples  *)
(* give without an operator parameter.                                      *)

PickOf(s) == CHOOSE x \in s : TRUE

(* A set of numbers that has 0 and with each number the next one has all. *)
LEMMA AllNumbers ==
  ASSUME NEW T \in SUBSET Nat, 0 \in T, \A n \in T : n + 1 \in T
  PROVE  T = Nat
<1> DEFINE R == Nat \ T
<1>1. CASE R # {}
  <2>1. PICK x \in R : \A y \in R : ~(<<y, x>> \in OpToRel(<, Nat))
    BY <1>1, NatLessThanWellFounded, WFMin
  <2>2. x \in Nat /\ x \notin T
    BY <2>1
  <2>3. x # 0
    BY <2>2
  <2>4. x - 1 \in Nat /\ x - 1 < x /\ (x - 1) + 1 = x
    BY <2>2, <2>3
  <2>5. <<x - 1, x>> \in OpToRel(<, Nat)
    BY <2>2, <2>4 DEF OpToRel
  <2>6. x - 1 \in T
    BY <2>1, <2>4, <2>5
  <2>7. x \in T
    BY <2>6, <2>4
  <2> QED
    BY <2>2, <2>7
<1>2. CASE R = {}
  BY <1>2
<1> QED
  BY <1>1, <1>2

SmallSubsets(S, n) == {s \in SUBSET S : Cardinality(s) <= n}

(* Taking an element out of a finite set leaves a smaller one. *)
LEMMA PickedOut ==
  ASSUME NEW S, IsFiniteSet(S), NEW s \in SUBSET S, s # {}
  PROVE  /\ PickOf(s) \in s
         /\ s \ {PickOf(s)} \in SUBSET S
         /\ IsFiniteSet(s)
         /\ Cardinality(s) \in Nat /\ Cardinality(s) # 0
         /\ Cardinality(s \ {PickOf(s)}) = Cardinality(s) - 1
<1>1. PickOf(s) \in s
  BY DEF PickOf
<1>2. IsFiniteSet(s)
  BY FS_Subset
<1> QED
  BY <1>1, <1>2, FS_CardinalityType, FS_EmptySet, FS_RemoveElement

(* What holds of the empty set, and of a set if it holds of the set without
   its chosen element, holds of all subsets of a finite set. *)
LEMMA AllSubsets ==
  ASSUME NEW S, IsFiniteSet(S), NEW G \in SUBSET SUBSET S, {} \in G,
         \A s \in SUBSET S : s # {} /\ s \ {PickOf(s)} \in G => s \in G
  PROVE  G = SUBSET S
<1> DEFINE T == {n \in Nat : SmallSubsets(S, n) \subseteq G}
<1>1. 0 \in T
  <2>1. \A s \in SmallSubsets(S, 0) : s = {}
    <3> SUFFICES ASSUME NEW s \in SUBSET S, Cardinality(s) <= 0 PROVE s = {}
      BY DEF SmallSubsets
    <3>1. IsFiniteSet(s) /\ Cardinality(s) \in Nat
      BY FS_Subset, FS_CardinalityType
    <3> QED
      BY <3>1, FS_EmptySet
  <2> QED
    BY <2>1
<1>2. ASSUME NEW n \in T PROVE n + 1 \in T
  <2>1. n \in Nat /\ n + 1 \in Nat /\ SmallSubsets(S, n) \subseteq G
    OBVIOUS
  <2>2. \A s \in SmallSubsets(S, n + 1) : s \in G
    <3> SUFFICES ASSUME NEW s \in SUBSET S, Cardinality(s) <= n + 1, s # {}
                 PROVE  s \in G
      BY DEF SmallSubsets
    <3>1. s \ {PickOf(s)} \in SUBSET S /\ Cardinality(s \ {PickOf(s)}) <= n
      BY <2>1, PickedOut
    <3>2. s \ {PickOf(s)} \in G
      BY <2>1, <3>1 DEF SmallSubsets
    <3> QED
      BY <3>2
  <2> QED
    BY <2>1, <2>2
<1>3. T = Nat
  <2> HIDE DEF T
  <2>1. T \in SUBSET Nat
    BY DEF T
  <2> QED
    BY <1>1, <1>2, <2>1, AllNumbers
<1>4. SmallSubsets(S, Cardinality(S)) = SUBSET S
  BY FS_Subset DEF SmallSubsets
<1>5. Cardinality(S) \in T
  BY <1>3, FS_CardinalityType
<1> QED
  BY <1>4, <1>5

(* A finite set of numbers has a largest one (std::max_element). *)
LEMMA LargestExists ==
  ASSUME NEW S, IsFiniteSet(S), S \in SUBSET Nat, S # {}
  PROVE  \E m \in S : \A n \in S : m >= n
<1> DEFINE G == {s \in SUBSET S : s = {} \/ \E m \in s : \A n \in s : m >= n}
<1>1. {} \in G
  OBVIOUS
<1>2. ASSUME NEW s \in SUBSET S, s # {}, s \ {PickOf(s)} \in G PROVE s \in G
  <2> DEFINE x == PickOf(s)
             t == s \ {x}
  <2>1. x \in s /\ s \in SUBSET Nat
    BY <1>2, PickedOut
  <2>2. CASE t = {}
    <3>1. \A n \in s : x >= n
      BY <2>1, <2>2
    <3> QED
      BY <2>1, <3>1
  <2>3. ASSUME NEW m \in t, \A n \in t : m >= n PROVE s \in G
    <3>1. CASE m >= x
      <4>1. m \in s /\ \A n \in s : m >= n
        BY <2>1, <2>3, <3>1
      <4> QED
        BY <4>1
    <3>2. CASE ~(m >= x)
      <4>1. m \in Nat /\ x \in Nat
        BY <2>1
      <4>2. \A n \in t : n \in Nat /\ x >= n
        BY <2>1, <2>3, <3>2, <4>1
      <4>3. \A n \in s : x >= n
        BY <4>1, <4>2
      <4> QED
        BY <2>1, <4>3
    <3> QED
      BY <3>1, <3>2
  <2> QED
    BY <1>2, <2>2, <2>3
<1>3. G = SUBSET S
  <2>1. G \in SUBSET SUBSET S
    OBVIOUS
  <2> HIDE DEF G
  <2> QED
    BY <1>1, <1>2, <2>1, AllSubsets
<1>4. S \in G
  BY <1>3
<1> QED
  BY <1>4

(* A set of numbers has a least one. *)
LEMMA LeastExists ==
  ASSUME NEW S \in SUBSET Nat, S # {}
  PROVE  \E m \in S : \A n \in S : m <= n
<1>1. PICK m \in S : \A n \in S : ~(<<n, m>> \in OpToRel(<, Nat))
  BY NatLessThanWellFounded, WFMin
<1>2. \A n \in S : ~(n < m)
  BY <1>1 DEF OpToRel
<1>3. \A n \in S : m <= n
  BY <1>2
<1> QED
  BY <1>3

----------------------------------------------------------------------------
(* Repeated application of a function.                                     *)

IsIteration(f, n, S, x, G) ==
  /\ f \in [0 .. n -> S]
  /\ f[0] = x
  /\ \A k \in 1 .. n : f[k] = G[f[k - 1]]

(* A function can be applied any number of times. *)
LEMMA IterationExists ==
  ASSUME NEW S, NEW x \in S, NEW G \in [S -> S]
  PROVE  \A n \in Nat : \E f : IsIteration(f, n, S, x, G)
<1> DEFINE T == {n \in Nat : \E f : IsIteration(f, n, S, x, G)}
<1>1. 0 \in T
  <2> DEFINE f == [k \in 0 .. 0 |-> x]
  <2>1. IsIteration(f, 0, S, x, G)
    BY DEF IsIteration
  <2> QED
    BY <2>1
<1>2. ASSUME NEW n \in T PROVE n + 1 \in T
  <2>1. PICK f : IsIteration(f, n, S, x, G)
    OBVIOUS
  <2>2. /\ n \in Nat /\ n + 1 \in Nat /\ n \in 0 .. n
        /\ \A k \in 0 .. (n + 1) : k # n + 1 => k \in 0 .. n
        /\ \A k \in 1 .. (n + 1) : k - 1 \in 0 .. n /\ k \in 0 .. (n + 1)
        /\ \A k \in 1 .. (n + 1) : k # n + 1 => k \in 1 .. n
    OBVIOUS
  <2> DEFINE g == [k \in 0 .. (n + 1) |-> IF k = n + 1 THEN G[f[n]] ELSE f[k]]
  <2>3. f \in [0 .. n -> S] /\ f[0] = x /\ \A k \in 1 .. n : f[k] = G[f[k - 1]]
    BY <2>1 DEF IsIteration
  <2>4. g \in [0 .. (n + 1) -> S] /\ g[0] = x
    BY <2>2, <2>3
  <2>5. \A k \in 0 .. n : k \in 0 .. (n + 1) /\ k # n + 1
    BY <2>2
  <2>6. \A k \in 1 .. (n + 1) : g[k] = G[g[k - 1]]
    <3> SUFFICES ASSUME NEW k \in 1 .. (n + 1) PROVE g[k] = G[g[k - 1]]
      OBVIOUS
    <3>1. g[k - 1] = f[k - 1]
      BY <2>2, <2>5
    <3>2. CASE k = n + 1
      BY <2>2, <3>1, <3>2
    <3>3. CASE k # n + 1
      BY <2>2, <2>3, <3>1, <3>3
    <3> QED
      BY <3>2, <3>3
  <2>7. IsIteration(g, n + 1, S, x, G)
    <3> HIDE DEF g
    <3> QED
      BY <2>4, <2>6 DEF IsIteration
  <2> QED
    BY <2>2, <2>7
<1>3. T = Nat
  <2>1. T \in SUBSET Nat
    OBVIOUS
  <2> HIDE DEF T
  <2> QED
    BY <1>1, <1>2, <2>1, AllNumbers
<1> QED
  BY <1>3

(* A set that only grows, within a finite one, has stopped growing after as
   many rounds as that one has elements. *)
LEMMA GrowthStops ==
  ASSUME NEW U, IsFiniteSet(U), NEW n \in Nat, Cardinality(U) <= n,
         NEW x \in SUBSET U, x # {},
         NEW G \in [SUBSET U -> SUBSET U], \A s \in SUBSET U : s \subseteq G[s],
         NEW f, IsIteration(f, n, SUBSET U, x, G)
  PROVE  G[f[n]] = f[n] /\ x \subseteq f[n]
<1> DEFINE T == {k \in Nat :
                  k <= n => x \subseteq f[k] /\ (k < Cardinality(f[k]) \/ G[f[k]] = f[k])}
<1>1. /\ f \in [0 .. n -> SUBSET U] /\ f[0] = x
      /\ \A k \in 1 .. n : f[k] = G[f[k - 1]]
  BY DEF IsIteration
<1>2. \A s \in SUBSET U : IsFiniteSet(s) /\ Cardinality(s) \in Nat
                         /\ Cardinality(s) <= Cardinality(U)
  BY FS_Subset, FS_CardinalityType
<1>3. 0 \in T
  <2>1. Cardinality(x) # 0
    BY <1>2, FS_EmptySet
  <2> QED
    BY <1>1, <1>2, <2>1
<1>4. ASSUME NEW k \in T PROVE k + 1 \in T
  <2>1. k \in Nat /\ k + 1 \in Nat /\ (k + 1) - 1 = k
    OBVIOUS
  <2>2. ASSUME k + 1 <= n
        PROVE  x \subseteq f[k + 1] /\ (k + 1 < Cardinality(f[k + 1]) \/ G[f[k + 1]] = f[k + 1])
    <3>0. k \in 0 .. n /\ k + 1 \in 1 .. n /\ k + 1 \in 0 .. n /\ k <= n
      BY <2>1, <2>2
    <3>1. x \subseteq f[k] /\ (k < Cardinality(f[k]) \/ G[f[k]] = f[k])
      BY <3>0
    <3> DEFINE a == f[k]
               b == f[k + 1]
    <3>2. a \in SUBSET U /\ b \in SUBSET U /\ b = G[a] /\ a \subseteq b
      BY <1>1, <2>1, <3>0
    <3> HIDE DEF a, b
    <3>3. CASE G[a] = a
      BY <3>1, <3>2, <3>3 DEF a, b
    <3>4. CASE G[a] # a
      <4>1. a # b /\ IsFiniteSet(b) /\ a \in SUBSET b
        BY <1>2, <3>2, <3>4
      <4>2. Cardinality(a) <= Cardinality(b) /\ Cardinality(a) # Cardinality(b)
        BY <4>1, FS_Subset
      <4>3. k < Cardinality(a)
        BY <3>1, <3>4 DEF a
      <4>4. k + 1 < Cardinality(b)
        BY <1>2, <2>1, <3>2, <4>2, <4>3
      <4> QED
        BY <3>1, <3>2, <4>4 DEF a, b
    <3> QED
      BY <3>3, <3>4
  <2> QED
    BY <2>1, <2>2
<1>5. T = Nat
  <2>1. T \in SUBSET Nat
    OBVIOUS
  <2> HIDE DEF T
  <2> QED
    BY <1>3, <1>4, <2>1, AllNumbers
<1>6. /\ x \subseteq f[n] /\ (n < Cardinality(f[n]) \/ G[f[n]] = f[n])
  BY <1>5
<1>7. Cardinality(f[n]) <= n
  <2>1. f[n] \in SUBSET U /\ Cardinality(U) \in Nat
    BY <1>1, FS_CardinalityType
  <2> DEFINE a == f[n]
  <2> HIDE DEF a
  <2>2. Cardinality(a) \in Nat /\ Cardinality(a) <= Cardinality(U)
    BY <1>2, <2>1 DEF a
  <2>3. Cardinality(a) <= n
    BY <2>1, <2>2
  <2> QED
    BY <2>3 DEF a
<1>8. f[n] \in SUBSET U
  BY <1>1
<1>9. Cardinality(f[n]) \in Nat
  BY <1>2, <1>8
<1> QED
  BY <1>6, <1>7, <1>9

----------------------------------------------------------------------------
(* Sums.                                                                   *)

(* g gives the sum of f over each set in D: the equation the folds of the
   community modules are defined by. *)
IsSum(g, f, D) ==
  g = [s \in D |-> IF s = {} THEN 0 ELSE f[PickOf(s)] + g[s \ {PickOf(s)}]]

SumTable(f, S) == CHOOSE g : IsSum(g, f, SUBSET S)

(* There is such a table for every finite set. *)
LEMMA SumExists ==
  ASSUME NEW S, IsFiniteSet(S), NEW f
  PROVE  IsSum(SumTable(f, S), f, SUBSET S)
<1> DEFINE T == {n \in Nat : \E g : IsSum(g, f, SmallSubsets(S, n))}
<1>1. 0 \in T
  <2> DEFINE g == [s \in SmallSubsets(S, 0) |-> 0]
  <2>1. \A s \in SmallSubsets(S, 0) : s = {}
    <3> SUFFICES ASSUME NEW s \in SUBSET S, Cardinality(s) <= 0 PROVE s = {}
      BY DEF SmallSubsets
    <3>1. IsFiniteSet(s) /\ Cardinality(s) \in Nat
      BY FS_Subset, FS_CardinalityType
    <3> QED
      BY <3>1, FS_EmptySet
  <2>2. IsSum(g, f, SmallSubsets(S, 0))
    BY <2>1 DEF IsSum
  <2> QED
    BY <2>2
<1>2. ASSUME NEW n \in T PROVE n + 1 \in T
  <2>1. n \in Nat /\ n + 1 \in Nat
    OBVIOUS
  <2>2. PICK g : IsSum(g, f, SmallSubsets(S, n))
    OBVIOUS
  <2> DEFINE h == [s \in SmallSubsets(S, n + 1) |->
                     IF s = {} THEN 0 ELSE f[PickOf(s)] + g[s \ {PickOf(s)}]]
  <2>3. \A s \in SmallSubsets(S, n) : s \in SmallSubsets(S, n + 1) /\ h[s] = g[s]
    <3> SUFFICES ASSUME NEW s \in SmallSubsets(S, n)
                 PROVE  s \in SmallSubsets(S, n + 1) /\ h[s] = g[s]
      OBVIOUS
    <3>1. s \in SUBSET S /\ Cardinality(s) <= n
      BY DEF SmallSubsets
    <3>2. Cardinality(s) \in Nat
      BY <3>1, FS_Subset, FS_CardinalityType
    <3>3. s \in SmallSubsets(S, n + 1)
      BY <2>1, <3>1, <3>2 DEF SmallSubsets
    <3>4. g[s] = IF s = {} THEN 0 ELSE f[PickOf(s)] + g[s \ {PickOf(s)}]
      BY <2>2 DEF IsSum
    <3> QED
      BY <3>3, <3>4
  <2>4. \A s \in SmallSubsets(S, n + 1) : s # {} =>
          h[s \ {PickOf(s)}] = g[s \ {PickOf(s)}]
    <3> SUFFICES ASSUME NEW s \in SmallSubsets(S, n + 1), s # {}
                 PROVE  s \ {PickOf(s)} \in SmallSubsets(S, n)
      BY <2>3
    <3>1. s \in SUBSET S /\ Cardinality(s) <= n + 1
      BY DEF SmallSubsets
    <3>2. s \ {PickOf(s)} \in SUBSET S /\ Cardinality(s \ {PickOf(s)}) <= n
      BY <2>1, <3>1, PickedOut
    <3> QED
      BY <3>2 DEF SmallSubsets
  <2>5. IsSum(h, f, SmallSubsets(S, n + 1))
    <3>1. \A s \in SmallSubsets(S, n + 1) :
            (IF s = {} THEN 0 ELSE f[PickOf(s)] + g[s \ {PickOf(s)}]) =
            (IF s = {} THEN 0 ELSE f[PickOf(s)] + h[s \ {PickOf(s)}])
      BY <2>4
    <3> QED
      BY <3>1 DEF IsSum
  <2> HIDE DEF h
  <2> QED
    BY <2>1, <2>5
<1>3. T = Nat
  <2> HIDE DEF T
  <2>1. T \in SUBSET Nat
    BY DEF T
  <2> QED
    BY <1>1, <1>2, <2>1, AllNumbers
<1>4. SmallSubsets(S, Cardinality(S)) = SUBSET S
  BY FS_Subset DEF SmallSubsets
<1>5. Cardinality(S) \in T
  BY <1>3, FS_CardinalityType
<1>6. \E g : IsSum(g, f, SUBSET S)
  BY <1>4, <1>5
<1> QED
  BY <1>6 DEF SumTable

(* The equation of a sum, set by set. *)
LEMMA SumEquation ==
  ASSUME NEW S, IsFiniteSet(S), NEW f, NEW s \in SUBSET S
  PROVE  SumTable(f, S)[s] =
           IF s = {} THEN 0 ELSE f[PickOf(s)] + SumTable(f, S)[s \ {PickOf(s)}]
<1> DEFINE g == SumTable(f, S)
<1>1. IsSum(g, f, SUBSET S)
  BY SumExists
<1> HIDE DEF g
<1>2. g[s] = IF s = {} THEN 0 ELSE f[PickOf(s)] + g[s \ {PickOf(s)}]
  BY <1>1 DEF IsSum
<1> QED
  BY <1>2 DEF g

(* Numbers add up to a number, and one more in one place is one more in all. *)
LEMMA SumOfRaised ==
  ASSUME NEW S, IsFiniteSet(S), NEW f \in [S -> Nat], NEW a \in S,
         NEW h, \A x \in S : h[x] = f[x] + (IF a = x THEN 1 ELSE 0)
  PROVE  /\ SumTable(f, S)[S] \in Nat
         /\ SumTable(h, S)[S] = SumTable(f, S)[S] + 1
<1> DEFINE F == SumTable(f, S)
           H == SumTable(h, S)
           G == {s \in SUBSET S :
                   F[s] \in Nat /\ H[s] = F[s] + (IF a \in s THEN 1 ELSE 0)}
<1>1. \A s \in SUBSET S :
        /\ F[s] = IF s = {} THEN 0 ELSE f[PickOf(s)] + F[s \ {PickOf(s)}]
        /\ H[s] = IF s = {} THEN 0 ELSE h[PickOf(s)] + H[s \ {PickOf(s)}]
  <2>1. \A e : \A s \in SUBSET S :
          SumTable(e, S)[s] =
            IF s = {} THEN 0 ELSE e[PickOf(s)] + SumTable(e, S)[s \ {PickOf(s)}]
    <3> SUFFICES ASSUME NEW e, NEW s \in SUBSET S
                 PROVE  SumTable(e, S)[s] =
                          IF s = {} THEN 0
                          ELSE e[PickOf(s)] + SumTable(e, S)[s \ {PickOf(s)}]
      OBVIOUS
    <3> QED
      BY SumEquation
  <2> QED
    BY <2>1
<1>2. \A x \in S : /\ f[x] \in Nat
                   /\ h[x] = f[x] + (IF a = x THEN 1 ELSE 0)
  OBVIOUS
<1> HIDE DEF F, H
<1>3. {} \in G
  BY <1>1
<1>4. ASSUME NEW s \in SUBSET S, s # {}, s \ {PickOf(s)} \in G PROVE s \in G
  <2> DEFINE x == PickOf(s)
             t == s \ {x}
  <2>1. x \in s /\ x \in S
    BY <1>4, PickedOut
  <2>2. F[s] = f[x] + F[t] /\ H[s] = h[x] + H[t]
    BY <1>1, <1>4
  <2>3. F[t] \in Nat /\ H[t] = F[t] + (IF a \in t THEN 1 ELSE 0)
    BY <1>4
  <2> HIDE DEF x
  <2>4. (IF a \in s THEN 1 ELSE 0) =
          (IF a = x THEN 1 ELSE 0) + (IF a \in t THEN 1 ELSE 0)
    BY <2>1
  <2> HIDE DEF t
  <2>5. f[x] \in Nat /\ h[x] = f[x] + (IF a = x THEN 1 ELSE 0)
    BY <1>2, <2>1
  <2>6. F[s] \in Nat /\ H[s] = F[s] + (IF a \in s THEN 1 ELSE 0)
    BY <2>2, <2>3, <2>4, <2>5
  <2> QED
    BY <2>6
<1>5. G = SUBSET S
  <2>1. G \in SUBSET SUBSET S
    OBVIOUS
  <2> HIDE DEF G
  <2> QED
    BY <1>3, <1>4, <2>1, AllSubsets
<1>6. S \in G
  BY <1>5
<1> QED
  BY <1>6 DEF F, H

(* Zeros add up to zero. *)
LEMMA SumOfZeros ==
  ASSUME NEW S, IsFiniteSet(S), NEW f, f = [l \in S |-> 0]
  PROVE  SumTable(f, S)[S] = 0
<1> DEFINE F == SumTable(f, S)
           G == {s \in SUBSET S : F[s] = 0}
<1>1. \A s \in SUBSET S :
        F[s] = IF s = {} THEN 0 ELSE f[PickOf(s)] + F[s \ {PickOf(s)}]
  BY SumEquation
<1> HIDE DEF F
<1>2. {} \in G
  BY <1>1
<1>3. ASSUME NEW s \in SUBSET S, s # {}, s \ {PickOf(s)} \in G PROVE s \in G
  <2>1. PickOf(s) \in s /\ f[PickOf(s)] = 0
    BY <1>3, PickedOut
  <2>2. F[s \ {PickOf(s)}] = 0
    BY <1>3
  <2>3. F[s] = f[PickOf(s)] + F[s \ {PickOf(s)}]
    BY <1>1, <1>3
  <2>4. F[s] = 0
    BY <2>1, <2>2, <2>3
  <2> QED
    BY <2>4
<1>4. G = SUBSET S
  <2>1. G \in SUBSET SUBSET S
    OBVIOUS
  <2> HIDE DEF G
  <2> QED
    BY <1>2, <1>3, <2>1, AllSubsets
<1>5. S \in G
  BY <1>4
<1> QED
  BY <1>5 DEF F
=============================================================================
