------------------------- MODULE BitmapLayoutProofs -------------------------
(***************************************************************************)
(* Flat memory implements points: with the sizes the preparation scripts   *)
(* write, what the driver marks in the segment is what the fuzzer finds    *)
(* there, for any word, any wires and any number of clocks and runs.       *)
(***************************************************************************)
EXTENDS BitmapLayout, DataLemmas, SequenceTheorems, FunctionTheorems, TLAPS

----------------------------------------------------------------------------
(* Numbers: rows and columns of an index, and powers of two.               *)

(* An index tells row and column apart (i * chunks + c). *)
LEMMA RowAndColumn ==
  ASSUME NEW m \in Nat \ {0}, NEW q \in Int, NEW r \in 0 .. (m - 1)
  PROVE  (m * q + r) \div m = q /\ (m * q + r) % m = r
<1> DEFINE a == m * q + r
           p == a \div m
           s == a % m
           d == p - q
<1>1. a \in Int /\ p \in Int /\ s \in 0 .. (m - 1) /\ a = m * p + s
  <2>1. m * q + r \in Int
    OBVIOUS
  <2> HIDE DEF a
  <2> QED
    BY <2>1, Quotient DEF a
<1>2. m * p + s = m * q + r
  BY <1>1
<1>3. m * d = r - s /\ d \in Int
  <2>1. \A x \in Int : m * (x - q) = m * x - m * q
    OBVIOUS
  <2>2. m * d = m * p - m * q
    BY <1>1, <2>1
  <2>3. m * p \in Int /\ m * q \in Int
    BY <1>1
  <2> HIDE DEF p, s, d, a
  <2> QED
    BY <1>1, <1>2, <2>2, <2>3 DEF d
<1>4. m * d < m /\ -m < m * d
  BY <1>1, <1>3
<1>5. d = 0
  <2> HIDE DEF d
  <2> QED
    BY <1>3, <1>4, LessThanATurn
<1>6. p = q /\ s = r
  <2>1. p = q
    BY <1>1, <1>5
  <2>2. r - s = 0
    <3> HIDE DEF d, p, s, a
    <3> QED
      BY <1>3, <1>5
  <2> QED
    BY <1>1, <2>1, <2>2
<1> QED
  BY <1>6

(* A multiple of a number is divided by it without rest. *)
LEMMA ExactQuotient ==
  ASSUME NEW m \in Nat \ {0}, NEW q \in Int
  PROVE  (m * q) \div m = q
<1>1. (m * q + 0) \div m = q /\ m * q + 0 = m * q
  BY RowAndColumn
<1> QED
  BY <1>1

(* The powers of two are a table without an end. *)
IsPow2(f) == f = [n \in Nat |-> IF n = 0 THEN 1 ELSE 2 * f[n - 1]]

(* Such a table exists: its entry n is what n doublings lead to. *)
LEMMA Pow2Exists == IsPow2(Pow2)
<1> DEFINE S == Nat
           x == 1
           G == [y \in Nat |-> 2 * y]
           Of(n) == CHOOSE f : IsIteration(f, n, S, x, G)
           F == [n \in Nat |-> Of(n)[n]]
<1>1. \A n \in Nat : IsIteration(Of(n), n, S, x, G)
  <2>1. x \in S /\ G \in [S -> S]
    OBVIOUS
  <2> HIDE DEF x, S, G
  <2> QED
    BY <2>1, IterationExists
<1>2. \A n \in Nat : /\ Of(n) \in [0 .. n -> Nat] /\ Of(n)[0] = 1
                     /\ \A k \in 1 .. n : Of(n)[k] = 2 * Of(n)[k - 1]
  <2> SUFFICES ASSUME NEW n \in Nat
               PROVE /\ Of(n) \in [0 .. n -> Nat] /\ Of(n)[0] = 1
                     /\ \A k \in 1 .. n : Of(n)[k] = 2 * Of(n)[k - 1]
    OBVIOUS
  <2> DEFINE f == Of(n)
  <2>1. IsIteration(f, n, S, x, G)
    BY <1>1
  <2> HIDE DEF f
  <2>2. f \in [0 .. n -> Nat] /\ f[0] = 1 /\ \A k \in 1 .. n : f[k] = G[f[k - 1]]
    BY <2>1 DEF IsIteration
  <2>3. ASSUME NEW k \in 1 .. n PROVE f[k] = 2 * f[k - 1]
    <3>1. k - 1 \in 0 .. n
      OBVIOUS
    <3>2. f[k - 1] \in Nat
      BY <2>2, <3>1
    <3> QED
      BY <2>2, <3>2
  <2> QED
    BY <2>2, <2>3 DEF f
<1> HIDE DEF Of
<1>3. ASSUME NEW m \in Nat, NEW n \in Nat, m <= n PROVE Of(n)[m] = Of(m)[m]
  <2> DEFINE f == Of(m)
             g == Of(n)
             T == {k \in Nat : k <= m => g[k] = f[k]}
  <2>1. /\ f[0] = 1 /\ g[0] = 1
        /\ \A k \in 1 .. m : f[k] = 2 * f[k - 1]
        /\ \A j \in 1 .. n : g[j] = 2 * g[j - 1]
    BY <1>2
  <2> HIDE DEF f, g
  <2>2. 0 \in T
    BY <2>1
  <2>3. ASSUME NEW k \in T PROVE k + 1 \in T
    <3>1. k \in Nat /\ k + 1 \in Nat /\ (k + 1) - 1 = k
      OBVIOUS
    <3>2. ASSUME k + 1 <= m PROVE g[k + 1] = f[k + 1]
      <4>1. k + 1 \in 1 .. m /\ k + 1 \in 1 .. n /\ k <= m
        BY <1>3, <3>1, <3>2
      <4>2. f[k + 1] = 2 * f[k] /\ g[k + 1] = 2 * g[k] /\ g[k] = f[k]
        BY <2>1, <3>1, <4>1
      <4> QED
        BY <4>2
    <3> QED
      BY <3>1, <3>2
  <2>4. T = Nat
    <3>1. T \in SUBSET Nat
      OBVIOUS
    <3> HIDE DEF T
    <3> QED
      BY <2>2, <2>3, <3>1, AllNumbers
  <2>5. g[m] = f[m]
    BY <2>4
  <2> QED
    BY <2>5 DEF f, g
<1>4. \A n \in Nat : F[n] = IF n = 0 THEN 1 ELSE 2 * F[n - 1]
  <2> SUFFICES ASSUME NEW n \in Nat
               PROVE  Of(n)[n] = IF n = 0 THEN 1 ELSE 2 * F[n - 1]
    OBVIOUS
  <2>1. CASE n = 0
    BY <1>2, <2>1
  <2>2. CASE n # 0
    <3>1. n - 1 \in Nat /\ n \in 1 .. n /\ n - 1 <= n
      BY <2>2
    <3>2. Of(n)[n] = 2 * Of(n)[n - 1]
      BY <1>2, <3>1
    <3>3. Of(n)[n - 1] = Of(n - 1)[n - 1]
      <4> DEFINE m == n - 1
      <4>1. m \in Nat /\ m <= n
        BY <3>1
      <4> HIDE DEF m
      <4>2. Of(n)[m] = Of(m)[m]
        BY <1>3, <4>1
      <4> QED
        BY <4>2 DEF m
    <3>4. F[n - 1] = Of(n - 1)[n - 1]
      BY <3>1
    <3> QED
      BY <2>2, <3>2, <3>3, <3>4
  <2> QED
    BY <2>1, <2>2
<1>5. IsPow2(F)
  <2> HIDE DEF F
  <2>1. F = [n \in Nat |-> F[n]]
    BY DEF F
  <2> QED
    BY <1>4, <2>1 DEF IsPow2
<1>6. Pow2 = CHOOSE f : IsPow2(f)
  BY DEF Pow2, IsPow2
<1> QED
  BY <1>5, <1>6

(* Powers of two: positive, each twice the one before. *)
LEMMA Pow2Steps ==
  /\ Pow2[0] = 1
  /\ \A n \in Nat : Pow2[n] \in Nat \ {0} /\ Pow2[n + 1] = 2 * Pow2[n]
<1>1. \A n \in Nat : Pow2[n] = IF n = 0 THEN 1 ELSE 2 * Pow2[n - 1]
  <2>1. IsPow2(Pow2)
    BY Pow2Exists
  <2> HIDE DEF Pow2
  <2> QED
    BY <2>1 DEF IsPow2
<1> HIDE DEF Pow2
<1>2. \A n \in Nat : Pow2[n + 1] = 2 * Pow2[n]
  <2> SUFFICES ASSUME NEW n \in Nat PROVE Pow2[n + 1] = 2 * Pow2[n]
    OBVIOUS
  <2>1. n + 1 \in Nat /\ n + 1 # 0 /\ (n + 1) - 1 = n
    OBVIOUS
  <2> QED
    BY <1>1, <2>1
<1> DEFINE T == {n \in Nat : Pow2[n] \in Nat \ {0}}
<1>3. 0 \in T
  BY <1>1
<1>4. ASSUME NEW n \in T PROVE n + 1 \in T
  <2>1. \A y \in Nat \ {0} : 2 * y \in Nat \ {0}
    OBVIOUS
  <2> QED
    BY <1>2, <2>1
<1>5. T = Nat
  <2>1. T \in SUBSET Nat
    OBVIOUS
  <2> HIDE DEF T
  <2> QED
    BY <1>3, <1>4, <2>1, AllNumbers
<1> QED
  BY <1>1, <1>2, <1>5

(* They grow, and exceed their exponents. *)
LEMMA Pow2Grows ==
  /\ \A n \in Nat : n < Pow2[n]
  /\ \A m, n \in Nat : m <= n => Pow2[m] <= Pow2[n]
<1>1. /\ Pow2[0] = 1
      /\ \A n \in Nat : Pow2[n] \in Nat \ {0} /\ Pow2[n + 1] = 2 * Pow2[n]
  BY Pow2Steps
<1> HIDE DEF Pow2
<1>2. \A n \in Nat : n < Pow2[n]
  <2> DEFINE T == {n \in Nat : n < Pow2[n]}
  <2>1. 0 \in T
    BY <1>1
  <2>2. ASSUME NEW n \in T PROVE n + 1 \in T
    <3>1. n \in Nat /\ Pow2[n] \in Nat /\ n < Pow2[n] /\ Pow2[n + 1] = 2 * Pow2[n]
      BY <1>1
    <3>2. n + 1 < 2 * Pow2[n]
      BY <3>1
    <3> QED
      BY <3>1, <3>2
  <2>3. T = Nat
    <3>1. T \in SUBSET Nat
      OBVIOUS
    <3> HIDE DEF T
    <3> QED
      BY <2>1, <2>2, <3>1, AllNumbers
  <2> QED
    BY <2>3
<1>3. ASSUME NEW m \in Nat PROVE \A n \in Nat : m <= n => Pow2[m] <= Pow2[n]
  <2> DEFINE T == {n \in Nat : m <= n => Pow2[m] <= Pow2[n]}
  <2>1. 0 \in T
    BY <1>1
  <2>2. ASSUME NEW n \in T PROVE n + 1 \in T
    <3>1. n \in Nat /\ Pow2[n] \in Nat /\ Pow2[m] \in Nat /\ Pow2[n + 1] = 2 * Pow2[n]
      BY <1>1
    <3>2. ASSUME m <= n + 1 PROVE Pow2[m] <= Pow2[n + 1]
      <4>1. CASE m = n + 1
        BY <3>1, <4>1
      <4>2. CASE m # n + 1
        <5>1. m <= n
          BY <3>1, <3>2, <4>2
        <5>2. Pow2[m] <= Pow2[n]
          BY <5>1
        <5> QED
          BY <3>1, <5>2
      <4> QED
        BY <4>1, <4>2
    <3> QED
      BY <3>1, <3>2
  <2>3. T = Nat
    <3>1. T \in SUBSET Nat
      OBVIOUS
    <3> HIDE DEF T
    <3> QED
      BY <2>1, <2>2, <3>1, AllNumbers
  <2> QED
    BY <2>3
<1> QED
  BY <1>2, <1>3

(* The next bit of a number is that of its half. *)
LEMMA BitOfHalf ==
  ASSUME NEW v \in Nat, NEW b \in Nat
  PROVE  Bit(v, b + 1) <=> Bit(v \div 2, b)
<1> DEFINE P == Pow2[b]
           h == v \div 2
           q == h \div P
           r == h % P
           z == v % 2
           D == 2 * P
<1>1. P \in Nat \ {0} /\ Pow2[b + 1] = D /\ D \in Nat \ {0}
  BY Pow2Steps
<1> HIDE DEF P
<1>2. v = 2 * h + z /\ h \in Int /\ z \in 0 .. 1
  BY Quotient
<1> HIDE DEF h, z
<1>3. h = P * q + r /\ q \in Int /\ r \in 0 .. (P - 1)
  BY <1>1, <1>2, Quotient
<1> HIDE DEF q, r
<1>4. v = D * q + (2 * r + z) /\ 2 * r + z \in 0 .. (D - 1)
  <2>1. 2 * (P * q) = D * q
    BY <1>1, <1>3
  <2>2. P * q \in Int
    BY <1>1, <1>3
  <2>3. 2 * h = 2 * (P * q) + 2 * r
    BY <1>3, <2>2
  <2>4. 2 * r + z \in 0 .. (D - 1)
    BY <1>1, <1>2, <1>3
  <2> DEFINE x == P * q
             y == D * q
  <2>5. v = 2 * x + 2 * r + z /\ 2 * x = y /\ x \in Int /\ y \in Int /\ r \in Int
    BY <1>1, <1>2, <1>3, <2>1, <2>2, <2>3
  <2>6. v = y + (2 * r + z)
    <3> HIDE DEF x, y, D
    <3> QED
      BY <1>2, <2>5
  <2> QED
    BY <2>4, <2>6
<1>5. v \div D = q
  <2> DEFINE s == 2 * r + z
  <2>1. s \in 0 .. (D - 1) /\ v = D * q + s
    BY <1>4
  <2> HIDE DEF s, D
  <2> QED
    BY <1>1, <1>3, <2>1, RowAndColumn
<1>6. Bit(v, b + 1) <=> q % 2 = 1
  <2> HIDE DEF D
  <2> QED
    BY <1>1, <1>5 DEF Bit
<1>7. Bit(h, b) <=> q % 2 = 1
  BY DEF Bit, q, P
<1> QED
  BY <1>6, <1>7 DEF h

(* A number has no bit at or above the first power of two that exceeds it. *)
LEMMA NoBitAbove ==
  ASSUME NEW v \in Nat, NEW n \in Nat, v < Pow2[n], NEW b \in Nat, n <= b
  PROVE  ~Bit(v, b)
<1> DEFINE P == Pow2[b]
           zero == 0
<1>1. P \in Nat \ {0} /\ v < P
  BY Pow2Steps, Pow2Grows
<1> HIDE DEF P
<1>2. v \in 0 .. (P - 1) /\ P * zero + v = v /\ zero \in Int
  BY <1>1
<1>3. v \div P = zero
  <2> HIDE DEF zero
  <2>1. (P * zero + v) \div P = zero
    BY <1>1, <1>2, RowAndColumn
  <2> QED
    BY <1>2, <2>1
<1> QED
  BY <1>3 DEF Bit, P

(* A number is determined by its bits. *)
LEMMA BitsDetermine ==
  \A n \in Nat : \A v, w \in 0 .. (Pow2[n] - 1) :
    (\A b \in 0 .. (n - 1) : Bit(v, b) <=> Bit(w, b)) => v = w
<1> DEFINE Same(n, v, w) == \A b \in 0 .. (n - 1) : Bit(v, b) <=> Bit(w, b)
           T == {n \in Nat : \A v, w \in 0 .. (Pow2[n] - 1) : Same(n, v, w) => v = w}
<1>0. /\ Pow2[0] = 1
      /\ \A n \in Nat : Pow2[n] \in Nat \ {0} /\ Pow2[n + 1] = 2 * Pow2[n]
  BY Pow2Steps
<1> HIDE DEF Pow2
<1>1. 0 \in T
  BY <1>0
<1>2. ASSUME NEW n \in T PROVE n + 1 \in T
  <2>1. n \in Nat /\ n + 1 \in Nat
    OBVIOUS
  <2>2. ASSUME NEW v \in 0 .. (Pow2[n + 1] - 1), NEW w \in 0 .. (Pow2[n + 1] - 1),
               Same(n + 1, v, w)
        PROVE  v = w
    <3> DEFINE g == v \div 2
               h == w \div 2
               P == Pow2[n]
    <3>1. P \in Nat /\ v \in 0 .. (2 * P - 1) /\ w \in 0 .. (2 * P - 1)
      BY <1>0, <2>1
    <3>2. /\ v = 2 * g + (v % 2) /\ v % 2 \in 0 .. 1 /\ g \in 0 .. (P - 1)
          /\ w = 2 * h + (w % 2) /\ w % 2 \in 0 .. 1 /\ h \in 0 .. (P - 1)
      <4>1. ASSUME NEW x \in 0 .. (2 * P - 1)
            PROVE  /\ x = 2 * (x \div 2) + (x % 2) /\ x % 2 \in 0 .. 1
                   /\ x \div 2 \in 0 .. (P - 1)
        <5> DEFINE y == x \div 2
                   z == x % 2
        <5>1. x \in Int /\ x = 2 * y + z /\ z \in 0 .. 1 /\ y \in Int
          BY <3>1, Quotient
        <5>2. y \in 0 .. (P - 1)
          <6> HIDE DEF y, z, P
          <6> QED
            BY <3>1, <5>1
        <5> QED
          BY <5>1, <5>2
      <4> QED
        BY <3>1, <4>1
    <3>3. \A b \in 0 .. (n - 1) : Bit(g, b) <=> Bit(h, b)
      <4> SUFFICES ASSUME NEW b \in 0 .. (n - 1) PROVE Bit(g, b) <=> Bit(h, b)
        OBVIOUS
      <4>1. b \in Nat /\ b + 1 \in 0 .. ((n + 1) - 1)
        BY <2>1
      <4>2. Bit(v, b + 1) <=> Bit(w, b + 1)
        BY <2>2, <4>1
      <4>3. v \in Nat /\ w \in Nat
        BY <3>1
      <4> QED
        BY <4>1, <4>2, <4>3, BitOfHalf
    <3>4. g = h
      <4> HIDE DEF g, h
      <4> QED
        BY <3>2, <3>3
    <3>5. Bit(v, 0) <=> Bit(w, 0)
      <4>1. 0 \in 0 .. ((n + 1) - 1)
        BY <2>1
      <4> QED
        BY <2>2, <4>1
    <3>6. (Bit(v, 0) <=> v % 2 = 1) /\ (Bit(w, 0) <=> w % 2 = 1)
      <4>1. v \div 1 = v /\ w \div 1 = w
        BY <3>1
      <4> QED
        BY <1>0, <4>1 DEF Bit
    <3>7. v % 2 = w % 2
      BY <3>2, <3>5, <3>6
    <3> QED
      BY <3>2, <3>4, <3>7
  <2> QED
    BY <2>1, <2>2
<1>3. T = Nat
  <2>1. T \in SUBSET Nat
    OBVIOUS
  <2> HIDE DEF T
  <2> QED
    BY <1>1, <1>2, <2>1, AllNumbers
<1> QED
  BY <1>3

----------------------------------------------------------------------------
(* The wires the passes add, and the largest and smallest of them.         *)

LayoutMethods == {"rfuzz", "directfuzz", "difuzzrtl"}

(* Max and Min are what their names say. *)
LEMMA MaxOf ==
  ASSUME NEW S \in SUBSET Nat, IsFiniteSet(S), S # {}
  PROVE  Max(S) \in S /\ \A x \in S : x <= Max(S)
<1>1. \E m \in S : \A n \in S : m >= n
  BY LargestExists
<1>2. Max(S) = CHOOSE m \in S : \A n \in S : m >= n
  BY DEF Max
<1>3. Max(S) \in S /\ \A n \in S : Max(S) >= n
  BY <1>1, <1>2
<1> DEFINE m == Max(S)
<1> HIDE DEF m
<1>4. m \in Nat /\ \A n \in S : m >= n
  BY <1>3 DEF m
<1>5. \A x \in S : x <= m
  BY <1>4
<1> QED
  BY <1>3, <1>5 DEF m

(* Min of any set of numbers is one of them (the array of DirectFuzz is the
   smallest that is wide enough). *)
LEMMA MinOf ==
  ASSUME NEW S \in SUBSET Nat, S # {}
  PROVE  Min(S) \in S
<1>1. \E m \in S : \A n \in S : m <= n
  BY LeastExists
<1> QED
  BY <1>1 DEF Min

(* A sequence of wires: no more than the instances and the target, of one bit
   at least. *)
AreWires(m, ws) ==
  /\ ws \in Seq([inst : 1 .. MaxInstances \cup {Target}, width : 1 .. MaxBits])
  /\ Len(ws) \in 1 .. (MaxInstances + 1)
  /\ m = "rfuzz" => Len(ws) = 1

(* The passes add one wire for each instance, in the order of the instances. *)
LEMMA InstanceWiresFact ==
  ASSUME NEW m \in LayoutMethods, NEW ws \in InstanceWires(m)
  PROVE  /\ ws \in Seq([inst : 1 .. MaxInstances \cup {Target}, width : 1 .. MaxBits])
         /\ Len(ws) \in 1 .. MaxInstances
         /\ m = "rfuzz" => Len(ws) = 1
         /\ \A i \in 1 .. Len(ws) : ws[i].inst = i
<1>1. PICK n \in 1 .. MaxInstances : \E w \in [1 .. n -> 1 .. MaxBits] :
        /\ m = "rfuzz" => n = 1
        /\ ws = [i \in DOMAIN w |-> Wire(i, w[i])]
  <2> DEFINE N == IF m = "rfuzz" THEN {1} ELSE 1 .. MaxInstances
             lists == UNION {[1 .. n -> 1 .. MaxBits] : n \in N}
             F(w) == [i \in DOMAIN w |-> Wire(i, w[i])]
  <2>1. ws \in {F(w) : w \in {v \in lists : m = "difuzzrtl" => \A i \in DOMAIN v : v[i] = v[1]}}
    BY DEF InstanceWires
  <2> HIDE DEF F, lists
  <2>2. PICK w \in lists : ws = F(w)
    BY <2>1
  <2>3. PICK n \in N : w \in [1 .. n -> 1 .. MaxBits]
    BY <2>2 DEF lists
  <2>4. n \in 1 .. MaxInstances /\ (m = "rfuzz" => n = 1)
    BY <2>3, LayoutAssumption
  <2> QED
    BY <2>2, <2>3, <2>4 DEF F
<1>2. PICK w \in [1 .. n -> 1 .. MaxBits] : ws = [i \in 1 .. n |-> Wire(i, w[i])]
  BY <1>1
<1>3. \A i \in 1 .. n :
        /\ ws[i] \in [inst : 1 .. MaxInstances \cup {Target}, width : 1 .. MaxBits]
        /\ ws[i].inst = i
  BY <1>2, LayoutAssumption DEF Wire
<1>4. n \in Nat /\ DOMAIN ws = 1 .. n
  BY <1>2, LayoutAssumption
<1> DEFINE W == [inst : 1 .. MaxInstances \cup {Target}, width : 1 .. MaxBits]
<1>5. ws \in [1 .. n -> W]
  BY <1>2, <1>3
<1> HIDE DEF W
<1>6. ws \in Seq(W) /\ Len(ws) = n
  BY <1>4, <1>5
<1> QED
  BY <1>1, <1>3, <1>6 DEF W

(* A wire put into the sequence is one more. *)
LEMMA Inserted ==
  ASSUME NEW W, NEW s \in Seq(W), NEW p \in 1 .. (Len(s) + 1), NEW e \in W
  PROVE  /\ InsertAt(s, p, e) \in Seq(W)
         /\ Len(InsertAt(s, p, e)) = Len(s) + 1
         /\ \A i \in 1 .. (Len(s) + 1) :
              InsertAt(s, p, e)[i] =
                IF i < p THEN s[i] ELSE IF i = p THEN e ELSE s[i - 1]
<1> DEFINE a == SubSeq(s, 1, p - 1)
           b == SubSeq(s, p, Len(s))
           c == a \o <<e>>
<1>0. Len(s) \in Nat /\ p \in Int
  BY LenProperties
<1>1. a \in Seq(W) /\ Len(a) = p - 1 /\ \A i \in 1 .. (p - 1) : a[i] = s[i]
  BY <1>0, SubSeqProperties
<1>2. b \in Seq(W) /\ Len(b) = Len(s) - p + 1
      /\ \A i \in 1 .. (Len(s) - p + 1) : b[i] = s[p + i - 1]
  BY <1>0, SubSeqProperties
<1> HIDE DEF a, b
<1>3. c \in Seq(W) /\ Len(c) = p /\ \A i \in 1 .. p : c[i] = IF i < p THEN s[i] ELSE e
  BY <1>0, <1>1
<1> HIDE DEF c
<1>4. InsertAt(s, p, e) = c \o b
  BY DEF InsertAt, a, b, c
<1> DEFINE t == c \o b
<1>5. t \in Seq(W) /\ Len(t) = Len(s) + 1
  <2>1. t \in Seq(W) /\ Len(t) = Len(c) + Len(b)
    BY <1>2, <1>3, ConcatProperties
  <2> HIDE DEF t
  <2> QED
    BY <1>0, <1>2, <1>3, <2>1
<1>6. ASSUME NEW i \in 1 .. (Len(s) + 1)
      PROVE t[i] = IF i < p THEN s[i] ELSE IF i = p THEN e ELSE s[i - 1]
  <2>1. CASE i <= p
    BY <1>0, <1>2, <1>3, <2>1
  <2>2. CASE i > p
    <3>1. t[i] = b[i - p]
      BY <1>0, <1>2, <1>3, <2>2
    <3>2. i - p \in 1 .. (Len(s) - p + 1) /\ p + (i - p) - 1 = i - 1
      BY <1>0, <2>2
    <3>3. b[i - p] = s[p + (i - p) - 1]
      BY <1>2, <3>2
    <3> QED
      BY <1>0, <2>2, <3>1, <3>2, <3>3
  <2>3. i \in Int
    BY <1>0
  <2> HIDE DEF t
  <2> QED
    BY <1>0, <2>1, <2>2, <2>3
<1> QED
  BY <1>4, <1>5, <1>6

(* coverage_target among them, they are wires still, one more than instances
   at most. *)
LEMMA WiresFact ==
  ASSUME NEW m \in LayoutMethods, NEW ws \in WiresOf(m)
  PROVE  AreWires(m, ws)
<1> DEFINE W == [inst : 1 .. MaxInstances \cup {Target}, width : 1 .. MaxBits]
<1>1. PICK w \in InstanceWires(m) :
        ws \in IF m = "rfuzz" THEN {w} ELSE WithTarget(w)
  BY DEF WiresOf
<1>2. /\ w \in Seq(W) /\ Len(w) \in 1 .. MaxInstances
      /\ m = "rfuzz" => Len(w) = 1
  BY <1>1, InstanceWiresFact
<1>3. CASE m = "rfuzz"
  <2>1. ws = w
    BY <1>1, <1>3
  <2> QED
    BY <1>2, <1>3, <2>1, LayoutAssumption DEF AreWires
<1>4. CASE m # "rfuzz"
  <2>1. PICK p \in 1 .. (Len(w) + 1), width \in 1 .. MaxBits :
          ws = InsertAt(w, p, Wire(Target, width))
    BY <1>1, <1>4 DEF WithTarget
  <2>2. Wire(Target, width) \in W
    BY DEF Wire
  <2> DEFINE e == Wire(Target, width)
  <2> HIDE DEF W, e
  <2>3. ws \in Seq(W) /\ Len(ws) = Len(w) + 1
    <3>1. e \in W /\ ws = InsertAt(w, p, e)
      BY <2>1, <2>2 DEF e
    <3> QED
      BY <1>2, <3>1, Inserted
  <2>4. Len(w) \in 1 .. MaxInstances
    BY <1>2
  <2>5. Len(ws) \in 1 .. (MaxInstances + 1)
    BY <2>3, <2>4, LayoutAssumption
  <2> QED
    BY <1>4, <2>3, <2>5 DEF AreWires, W
<1> QED
  BY <1>3, <1>4

(* The widest wire is one of them. *)
LEMMA WidestFact ==
  ASSUME NEW m, NEW ws, AreWires(m, ws)
  PROVE  /\ Widest(ws) \in 1 .. MaxBits
         /\ \A i \in 1 .. Len(ws) : /\ ws[i].width \in 1 .. MaxBits
                                    /\ ws[i].width <= Widest(ws)
         /\ Len(ws) = 1 => Widest(ws) = ws[1].width
<1> DEFINE S == Range(Widths(ws))
<1>1. \A i \in 1 .. Len(ws) : ws[i].width \in 1 .. MaxBits
  <2> DEFINE W == [inst : 1 .. MaxInstances \cup {Target}, width : 1 .. MaxBits]
  <2>1. \A w \in W : w.width \in 1 .. MaxBits
    OBVIOUS
  <2>2. ws \in Seq(W)
    BY DEF AreWires
  <2> HIDE DEF W
  <2>3. \A i \in 1 .. Len(ws) : ws[i] \in W
    BY <2>2, ElementOfSeq
  <2> QED
    BY <2>1, <2>3
<1>2. S = {ws[i].width : i \in 1 .. Len(ws)}
  BY DEF AreWires, Range, Widths
<1>3. 1 \in 1 .. Len(ws)
  BY DEF AreWires
<1>4. S \subseteq 1 .. MaxBits /\ S # {} /\ \A i \in 1 .. Len(ws) : ws[i].width \in S
  BY <1>1, <1>2, <1>3
<1>5. S \in SUBSET Nat /\ IsFiniteSet(S)
  <2>1. IsFiniteSet(1 .. MaxBits) /\ 1 .. MaxBits \subseteq Nat
    BY LayoutAssumption, FS_Interval
  <2> HIDE DEF S
  <2> QED
    BY <1>4, <2>1, FS_Subset
<1>6. Max(S) \in S /\ \A x \in S : x <= Max(S)
  <2> HIDE DEF S
  <2> QED
    BY <1>4, <1>5, MaxOf
<1>7. Widest(ws) = Max(S)
  BY DEF Widest
<1>8. Len(ws) = 1 => S = {ws[1].width}
  BY <1>2
<1> HIDE DEF S
<1> QED
  BY <1>1, <1>4, <1>6, <1>7, <1>8

----------------------------------------------------------------------------
(* The environment: whole rows of columns, wide enough for every wire.     *)

(* The sum of the entries of a table is a number. *)
LEMMA TotalIsNat ==
  ASSUME NEW S, IsFiniteSet(S), NEW f \in [S -> Nat]
  PROVE  Total(f) = SumTable(f, S)[S] /\ SumTable(f, S)[S] \in Nat
<1>1. DOMAIN f = S
  OBVIOUS
<1>2. Total(f) = SumTable(f, DOMAIN f)[DOMAIN f]
  BY DEF Total, FoldFunction, FoldFunctionOnSet, MapThenFoldSet, SumTable, IsSum, PickOf
<1>3. CASE S = {}
  <2>1. SumTable(f, S)[S] = 0
    <3>1. S \in SUBSET S
      OBVIOUS
    <3> QED
      BY <1>3, <3>1, SumEquation
  <2> QED
    BY <1>1, <1>2, <2>1
<1>4. CASE S # {}
  <2>1. PICK a \in S : TRUE
    BY <1>4
  <2> DEFINE h == [x \in S |-> f[x] + (IF a = x THEN 1 ELSE 0)]
  <2>2. \A x \in S : h[x] = f[x] + (IF a = x THEN 1 ELSE 0)
    OBVIOUS
  <2> HIDE DEF h
  <2>3. SumTable(f, S)[S] \in Nat
    BY <2>2, SumOfRaised
  <2> QED
    BY <1>1, <1>2, <2>3
<1> QED
  BY <1>3, <1>4

(* What segment and index are laid out by: at least one column, rows as the
   wires, and in the columns of a row at least the bits of the widest. *)
Fits(m, ws, e) ==
  /\ e \in [width : Nat, rows : Nat, bytes : Nat, max : Nat]
  /\ e.rows = Len(ws)
  /\ Columns(m, e) \in Nat \ {0}
  /\ Widest(ws) <= e.width
  /\ m # "difuzzrtl" => e.width = WordBits * Columns(m, e)
  /\ m # "difuzzrtl" => e.bytes = WordBytes * Columns(m, e)
  /\ m = "difuzzrtl" => e.bytes = Pow2[Widest(ws)]

(* A word has bits. *)
LEMMA WordBitsFact == WordBits \in Nat \ {0}
BY LayoutAssumption DEF WordBits

(* Whole words are whole columns. *)
LEMMA WholeColumns ==
  ASSUME NEW C \in Nat \ {0}
  PROVE  /\ (WordBits * C) \div ByteBits = WordBytes * C
         /\ (WordBytes * C) \div WordBytes = C
         /\ WordBits * C \in Nat /\ WordBytes * C \in Nat
<1> DEFINE q == WordBytes * C
<1>1. WordBits * C = ByteBits * q /\ q \in Nat /\ ByteBits \in Nat \ {0}
      /\ WordBytes \in Nat \ {0}
  BY LayoutAssumption DEF WordBits
<1>2. WordBits * C \in Nat
  BY WordBitsFact
<1>3. (WordBytes * C) \div WordBytes = C
  BY <1>1, ExactQuotient
<1> HIDE DEF q
<1>4. (ByteBits * q) \div ByteBits = q
  BY <1>1, ExactQuotient
<1> QED
  BY <1>1, <1>2, <1>3, <1>4 DEF q

(* rfuzz.py: whole words, one at least and enough for the wire. *)
LEMMA WholeWordsFact ==
  ASSUME NEW w \in Nat
  PROVE  \E C \in Nat \ {0} : WholeWords(w) = WordBits * C /\ w <= WordBits * C
<1> DEFINE K == WordBits
           a == w + K - 1
           x == a \div K
           r == a % K
           S == {1, x}
           C == Max(S)
<1>1. K \in Nat \ {0}
  BY WordBitsFact
<1> HIDE DEF K
<1>2. a \in Nat
  BY <1>1
<1> HIDE DEF a
<1>3. x \in Int /\ r \in 0 .. (K - 1) /\ a = K * x + r
  BY <1>1, <1>2, Quotient
<1>4. x \in Nat
  BY <1>1, <1>2
<1> HIDE DEF x, r
<1>5. w <= K * x
  <2> DEFINE y == K * x
  <2>1. y \in Int
    BY <1>1, <1>3
  <2>2. a = y + r
    BY <1>3
  <2> HIDE DEF y
  <2>3. w <= y
    BY <1>1, <1>3, <2>1, <2>2 DEF a
  <2> QED
    BY <2>3 DEF y
<1>6. C \in S /\ \A y \in S : y <= C
  <2>1. S \in SUBSET Nat /\ S # {}
    BY <1>4
  <2>2. IsFiniteSet(S)
    <3>1. IsFiniteSet({x}) /\ S = {x} \cup {1}
      BY FS_Singleton
    <3> HIDE DEF S
    <3> QED
      BY <3>1, FS_AddElement
  <2> HIDE DEF S
  <2> QED
    BY <2>1, <2>2, MaxOf
<1> HIDE DEF C
<1>7. C \in Nat \ {0} /\ x <= C
  BY <1>4, <1>6
<1>8. K * x <= K * C
  BY <1>1, <1>3, <1>7
<1>9. w <= K * C
  BY <1>1, <1>3, <1>5, <1>7, <1>8
<1>10. WholeWords(w) = K * C
  BY DEF WholeWords, C, x, a, K
<1> QED
  BY <1>7, <1>9, <1>10 DEF K

(* directfuzz.py: doubling ends, with whole words and enough for the wire. *)
LEMMA DoubledWordsFact ==
  ASSUME NEW w \in Nat
  PROVE  \E C \in Nat \ {0} : DoubledWords(w) = WordBits * C /\ w <= WordBits * C
<1> DEFINE K == WordBits
           S == {n \in {K * Pow2[k] : k \in 0 .. w} : n >= w}
<1>1. K \in Nat \ {0}
  BY WordBitsFact
<1>2. \A k \in Nat : Pow2[k] \in Nat \ {0}
  BY Pow2Steps
<1> HIDE DEF K, Pow2
<1>3. \A k \in 0 .. w : Pow2[k] \in Nat \ {0} /\ K * Pow2[k] \in Nat
  BY <1>1, <1>2
<1>4. S \in SUBSET Nat
  BY <1>3
<1>5. K * Pow2[w] \in S
  <2> DEFINE P == Pow2[w]
  <2>1. P \in Nat /\ w < P
    BY <1>2, Pow2Grows
  <2> HIDE DEF P
  <2>2. K * P >= P /\ K * P \in Nat
    BY <1>1, <2>1
  <2>3. K * P >= w
    BY <2>1, <2>2
  <2> QED
    BY <2>3 DEF P
<1>6. Min(S) \in S
  <2> HIDE DEF S
  <2> QED
    BY <1>4, <1>5, MinOf
<1>7. PICK k \in 0 .. w : Min(S) = K * Pow2[k]
  BY <1>6
<1>8. DoubledWords(w) = Min(S)
  BY DEF DoubledWords, K
<1>9. Min(S) >= w /\ Min(S) \in Nat
  BY <1>4, <1>6
<1> HIDE DEF S
<1>10. w <= K * Pow2[k]
  BY <1>7, <1>9
<1> QED
  BY <1>3, <1>7, <1>8, <1>10 DEF K

(* The sizes each of the three scripts writes fit the wires it has measured. *)
LEMMA EnvironmentFits ==
  ASSUME NEW m \in LayoutMethods, NEW ws, AreWires(m, ws)
  PROVE  Fits(m, ws, Environment(m, ws))
<1> DEFINE e == Environment(m, ws)
           n == Widest(ws)
           D == DOMAIN ws
<1>1. /\ n \in 1 .. MaxBits /\ n \in Nat /\ Len(ws) \in Nat
      /\ \A i \in 1 .. Len(ws) : ws[i].width \in 1 .. MaxBits
      /\ Len(ws) = 1 => n = ws[1].width
  <2>1. /\ n \in 1 .. MaxBits
        /\ \A i \in 1 .. Len(ws) : ws[i].width \in 1 .. MaxBits
        /\ Len(ws) = 1 => n = ws[1].width
    BY WidestFact
  <2>2. Len(ws) \in Nat
    BY LayoutAssumption DEF AreWires
  <2> HIDE DEF n
  <2> QED
    BY <2>1, <2>2, LayoutAssumption
<1>2. D = 1 .. Len(ws) /\ IsFiniteSet(D)
  BY <1>1, FS_Interval DEF AreWires
<1> HIDE DEF n, D
<1>3. \A i \in D : ws[i].width \in Nat /\ Pow2[ws[i].width] \in Nat
  <2>1. \A k \in Nat : Pow2[k] \in Nat
    BY Pow2Steps
  <2> HIDE DEF Pow2
  <2>2. \A i \in D : ws[i].width \in Nat
    BY <1>1, <1>2, LayoutAssumption
  <2> QED
    BY <2>1, <2>2
<1> DEFINE Sized(c) ==
      /\ c.width = WordBits * Columns(m, c) /\ Columns(m, c) \in Nat \ {0}
      /\ c.bytes = WordBytes * Columns(m, c) /\ n <= c.width
      /\ c.width \in Nat /\ c.bytes \in Nat
<1>4. ASSUME m # "difuzzrtl", NEW c, NEW w, w = n, c.bytes = c.width \div ByteBits,
             \E C \in Nat \ {0} : c.width = WordBits * C /\ w <= WordBits * C
      PROVE  Sized(c)
  <2>1. PICK C \in Nat \ {0} : c.width = WordBits * C /\ n <= WordBits * C
    BY <1>4
  <2>2. /\ (WordBits * C) \div ByteBits = WordBytes * C
        /\ (WordBytes * C) \div WordBytes = C
        /\ WordBits * C \in Nat /\ WordBytes * C \in Nat
    BY WholeColumns
  <2>3. c.bytes = WordBytes * C
    BY <1>4, <2>1, <2>2
  <2>4. Columns(m, c) = C
    BY <1>4, <2>2, <2>3 DEF Columns
  <2> QED
    BY <2>1, <2>2, <2>3, <2>4
<1>5. CASE m = "rfuzz"
  <2> DEFINE w == ws[1].width
             width == WholeWords(w)
             c == [width |-> width, rows |-> 1, bytes |-> width \div ByteBits, max |-> w]
  <2>1. Len(ws) = 1 /\ w = n
    BY <1>1, <1>5 DEF AreWires
  <2>2. e = c
    BY <1>5 DEF Environment, RFuzzEnv
  <2>3. \E C \in Nat \ {0} : width = WordBits * C /\ n <= WordBits * C
    BY <1>1, <2>1, WholeWordsFact
  <2>4. Sized(c)
    <3> HIDE DEF width, Sized
    <3>1. c.bytes = c.width \div ByteBits /\ c.width = width
      OBVIOUS
    <3> HIDE DEF c
    <3> QED
      BY <1>4, <1>5, <2>3, <3>1
  <2>5. c.rows = 1 /\ c.max = n /\ c = [width |-> c.width, rows |-> c.rows,
                                        bytes |-> c.bytes, max |-> c.max]
    BY <2>1
  <2> HIDE DEF c, e, width, w
  <2>6. c \in [width : Nat, rows : Nat, bytes : Nat, max : Nat]
    BY <1>1, <2>4, <2>5
  <2> QED
    BY <1>5, <2>1, <2>2, <2>4, <2>5, <2>6 DEF Fits, n, e
<1>6. CASE m = "directfuzz"
  <2> DEFINE width == DoubledWords(n)
             sum == CountedBits(ws)
             c == [width |-> width, rows |-> Len(ws), bytes |-> width \div ByteBits,
                   max |-> sum]
  <2>1. sum \in Nat
    <3> DEFINE f == [i \in D |-> IF ws[i].width = 1 THEN 0 ELSE ws[i].width]
    <3>1. f \in [D -> Nat]
      BY <1>3
    <3>2. sum = Total(f)
      BY DEF CountedBits, D
    <3> HIDE DEF f, sum
    <3> QED
      BY <1>2, <3>1, <3>2, TotalIsNat
  <2>2. e = c
    BY <1>6 DEF Environment, DirectFuzzEnv, n
  <2>3. \E C \in Nat \ {0} : width = WordBits * C /\ n <= WordBits * C
    BY <1>1, DoubledWordsFact
  <2>4. Sized(c)
    <3> HIDE DEF width, Sized, sum
    <3>1. c.bytes = c.width \div ByteBits /\ c.width = width
      OBVIOUS
    <3> HIDE DEF c
    <3> QED
      BY <1>4, <1>6, <2>3, <3>1
  <2>5. c.rows = Len(ws) /\ c.max = sum /\ c = [width |-> c.width, rows |-> c.rows,
                                        bytes |-> c.bytes, max |-> c.max]
    OBVIOUS
  <2> HIDE DEF c, e, width, sum
  <2>6. c \in [width : Nat, rows : Nat, bytes : Nat, max : Nat]
    BY <1>1, <2>1, <2>4, <2>5
  <2> QED
    BY <1>6, <2>2, <2>4, <2>5, <2>6 DEF Fits, n, e
<1>7. CASE m = "difuzzrtl"
  <2> DEFINE bytes == Pow2[n]
             f == [i \in D |-> Pow2[ws[i].width]]
             sum == Total(f)
             c == [width |-> n, rows |-> Len(ws), bytes |-> bytes, max |-> sum]
  <2>1. sum \in Nat
    <3>1. f \in [D -> Nat]
      BY <1>3
    <3> HIDE DEF f
    <3> QED
      BY <1>2, <3>1, TotalIsNat
  <2>2. e = c
    BY <1>7 DEF Environment, DifuzzRTLEnv, n, D
  <2>3. bytes \in Nat \ {0}
    BY <1>1, Pow2Steps
  <2> HIDE DEF bytes, sum
  <2>4. /\ c.width = n /\ c.bytes = bytes /\ c.rows = Len(ws)
        /\ c \in [width : Nat, rows : Nat, bytes : Nat, max : Nat]
    BY <1>1, <2>1, <2>3
  <2> HIDE DEF c, e
  <2>5. Columns(m, c) = bytes
    BY <1>7, <2>4 DEF Columns
  <2>6. n <= c.width
    BY <1>1, <2>4
  <2> QED
    BY <1>7, <2>2, <2>3, <2>4, <2>5, <2>6 DEF Fits, n, e, bytes
<1> QED
  BY <1>5, <1>6, <1>7 DEF LayoutMethods

----------------------------------------------------------------------------
(* The segment: what one clock marks is what the fuzzer finds.             *)

(* A column of a row is a cell of the segment, and the cell of no other. *)
LEMMA CellOf ==
  ASSUME NEW C \in Nat \ {0}, NEW rows \in Nat, NEW i \in 0 .. (rows - 1),
         NEW c \in 0 .. (C - 1)
  PROVE  /\ C * i + c \in 0 .. (rows * C - 1)
         /\ (C * i + c) \div C = i /\ (C * i + c) % C = c
<1> DEFINE x == C * i
           y == C * ((rows - 1) - i)
           z == rows * C
<1>1. x \in Nat /\ y \in Nat /\ z \in Nat
  BY DEF x, y, z
<1>2. x + y + C = z
  <2>1. y = C * (rows - 1) - C * i
    OBVIOUS
  <2>2. C * (rows - 1) = C * rows - C
    OBVIOUS
  <2>3. C * rows = rows * C
    OBVIOUS
  <2> DEFINE t == C * (rows - 1)
             u == C * rows
  <2>4. y = t - x /\ t = u - C /\ u = z /\ t \in Int /\ u \in Int
    BY <2>1, <2>2, <2>3
  <2> HIDE DEF x, y, z, t, u
  <2> QED
    BY <1>1, <2>4
<1>3. x + c \in 0 .. (z - 1)
  <2> HIDE DEF x, y, z
  <2> QED
    BY <1>1, <1>2
<1>4. i \in Int
  OBVIOUS
<1> QED
  BY <1>3, <1>4, RowAndColumn

(* What is read of a cell of row i, column c and bit k. *)
LEMMA ReadCell ==
  ASSUME NEW m, NEW ws, NEW e, Fits(m, ws, e), Len(ws) \in Nat,
         NEW i \in 0 .. (e.rows - 1), NEW c \in 0 .. (Columns(m, e) - 1), NEW k,
         NEW x, x = <<Columns(m, e) * i + c, k>>
  PROVE  /\ x[1] \in Segment(m, e)
         /\ <<x[1] \div Columns(m, e), (x[1] % Columns(m, e)) * CellBits(m) + x[2]>> =
              <<i, c * CellBits(m) + k>>
<1> DEFINE C == Columns(m, e)
           rows == e.rows
<1>1. C \in Nat \ {0} /\ rows \in Nat
  BY DEF Fits
<1> HIDE DEF C, rows
<1>2. i \in 0 .. (rows - 1) /\ c \in 0 .. (C - 1) /\ x[1] = C * i + c /\ x[2] = k
  BY DEF C, rows
<1>3. x[1] \in 0 .. (rows * C - 1) /\ x[1] \div C = i /\ x[1] % C = c
  <2> DEFINE y == C * i + c
             z == rows * C - 1
  <2>1. y \in 0 .. z /\ y \div C = i /\ y % C = c
    BY <1>1, <1>2, CellOf
  <2>2. x[1] = y
    BY <1>2
  <2> HIDE DEF y, z
  <2>3. x[1] \in 0 .. z /\ x[1] \div C = i /\ x[1] % C = c
    BY <2>1, <2>2
  <2> QED
    BY <2>3 DEF z
<1> QED
  BY <1>2, <1>3 DEF Segment, C, rows

(* Cells are read one by one. *)
LEMMA ViewOfBoth ==
  ASSUME NEW m, NEW e, NEW A, NEW B
  PROVE  /\ View(m, e, A \cup B) = View(m, e, A) \cup View(m, e, B)
         /\ View(m, e, {}) = {}
BY DEF View

(* The bits of two words that differ, by row. *)
Differing(e, first, value) ==
  {p \in (0 .. (e.rows - 1)) \X (0 .. (e.width - 1)) :
     ~(Bit(first[p[1] + 1], p[2]) <=> Bit(value[p[1] + 1], p[2]))}

(* RFuzz::update and DirectFuzz::update mark words of the segment, and read
   back these are the bits that differ, each in its row. *)
LEMMA ToggledView ==
  ASSUME NEW m, m # "difuzzrtl", NEW ws, Len(ws) \in Nat, NEW e, Fits(m, ws, e),
         NEW first, NEW value
  PROVE  /\ ToggledBits(e, first, value) \subseteq
              Segment(m, e) \X (0 .. (CellBits(m) - 1))
         /\ View(m, e, ToggledBits(e, first, value)) = Differing(e, first, value)
<1> DEFINE C == Columns(m, e)
           K == WordBits
           rows == e.rows
           Toggled(i, b) == ~(Bit(first[i + 1], b) <=> Bit(value[i + 1], b))
           marks == ToggledBits(e, first, value)
           Read(x) == <<x[1] \div C, (x[1] % C) * CellBits(m) + x[2]>>
<1>1. /\ C \in Nat \ {0} /\ K \in Nat \ {0} /\ rows \in Nat
      /\ e.width = K * C /\ CellBits(m) = K
  BY WordBitsFact DEF Fits, CellBits
<1>2. e.bytes \div WordBytes = C
  BY DEF Columns
<1> HIDE DEF C, K, rows, Toggled
<1>3. \A x : x \in marks <=>
        \E i \in 0 .. (rows - 1), c \in 0 .. (C - 1), k \in 0 .. (K - 1) :
          Toggled(i, c * K + k) /\ x = <<C * i + c, k>>
  <2>1. marks = UNION {{<<i * C + c, k>> :
                         k \in {j \in 0 .. (K - 1) : Toggled(i, c * K + j)}}
                       : i \in 0 .. (rows - 1), c \in 0 .. (C - 1)}
    BY <1>2 DEF ToggledBits, Toggled, K, rows
  <2>2. \A i \in 0 .. (rows - 1), c \in 0 .. (C - 1) : i * C + c = C * i + c
    BY <1>1
  <2> HIDE DEF marks
  <2>3. \A x : x \in marks <=>
          \E i \in 0 .. (rows - 1), c \in 0 .. (C - 1) :
            \E k \in {j \in 0 .. (K - 1) : Toggled(i, c * K + j)} :
              x = <<i * C + c, k>>
    <3> DEFINE F(i, c) == {<<i * C + c, k>> : k \in {j \in 0 .. (K - 1) : Toggled(i, c * K + j)}}
    <3>1. \A x, i, c : x \in F(i, c) <=>
            \E k \in {j \in 0 .. (K - 1) : Toggled(i, c * K + j)} : x = <<i * C + c, k>>
      OBVIOUS
    <3>2. marks = UNION {F(i, c) : i \in 0 .. (rows - 1), c \in 0 .. (C - 1)}
      BY <2>1
    <3> HIDE DEF F
    <3>3. \A x : x \in marks <=>
            \E i \in 0 .. (rows - 1), c \in 0 .. (C - 1) : x \in F(i, c)
      BY <3>2
    <3> QED
      BY <3>1, <3>3
  <2> TAKE x
  <2>4. ASSUME x \in marks
        PROVE  \E i \in 0 .. (rows - 1), c \in 0 .. (C - 1), k \in 0 .. (K - 1) :
                 Toggled(i, c * K + k) /\ x = <<C * i + c, k>>
    <3>1. PICK i \in 0 .. (rows - 1), c \in 0 .. (C - 1) :
            \E k \in {j \in 0 .. (K - 1) : Toggled(i, c * K + j)} :
              x = <<i * C + c, k>>
      BY <2>3, <2>4
    <3>2. PICK k \in 0 .. (K - 1) : Toggled(i, c * K + k) /\ x = <<i * C + c, k>>
      BY <3>1
    <3>3. x = <<C * i + c, k>>
      BY <2>2, <3>2
    <3> QED
      BY <3>2, <3>3
  <2>5. ASSUME NEW i \in 0 .. (rows - 1), NEW c \in 0 .. (C - 1),
               NEW k \in 0 .. (K - 1), Toggled(i, c * K + k), x = <<C * i + c, k>>
        PROVE  x \in marks
    <3>1. x = <<i * C + c, k>>
      BY <2>2, <2>5
    <3>2. k \in {j \in 0 .. (K - 1) : Toggled(i, c * K + j)}
      BY <2>5
    <3> QED
      BY <2>3, <3>1, <3>2
  <2> QED
    BY <2>4, <2>5
<1> HIDE DEF marks
<1>4. \A i \in 0 .. (rows - 1), c \in 0 .. (C - 1), k \in 0 .. (K - 1) :
        \A x : x = <<C * i + c, k>> =>
          x[1] \in Segment(m, e) /\ Read(x) = <<i, c * K + k>>
  <2> TAKE i \in 0 .. (rows - 1), c \in 0 .. (C - 1), k \in 0 .. (K - 1)
  <2> TAKE x
  <2> HAVE x = <<C * i + c, k>>
  <2>1. i \in 0 .. (e.rows - 1) /\ c \in 0 .. (Columns(m, e) - 1)
        /\ x = <<Columns(m, e) * i + c, k>>
    BY DEF rows, C
  <2> QED
    BY <1>1, <2>1, ReadCell DEF C
<1>5. marks \subseteq Segment(m, e) \X (0 .. (CellBits(m) - 1))
  <2> SUFFICES ASSUME NEW x \in marks
               PROVE  x \in Segment(m, e) \X (0 .. (CellBits(m) - 1))
    OBVIOUS
  <2>1. PICK i \in 0 .. (rows - 1), c \in 0 .. (C - 1), k \in 0 .. (K - 1) :
          x = <<C * i + c, k>>
    BY <1>3
  <2>2. x[1] \in Segment(m, e) /\ x = <<x[1], x[2]>> /\ x[2] = k
    BY <1>4, <2>1
  <2> QED
    BY <1>1, <2>2
<1>6. View(m, e, marks) = {Read(x) : x \in marks}
  <2>1. View(m, e, marks) = {Read(x) : x \in {y \in marks : y[1] \in Segment(m, e)}}
    BY DEF View, C
  <2>2. {y \in marks : y[1] \in Segment(m, e)} = marks
    BY <1>5
  <2> QED
    BY <2>1, <2>2
<1> DEFINE points_ == Differing(e, first, value)
<1>7. \A p : p \in points_ <=>
        \E i \in 0 .. (rows - 1), b \in 0 .. (K * C - 1) : Toggled(i, b) /\ p = <<i, b>>
  BY <1>1 DEF Differing, Toggled, rows
<1> HIDE DEF points_
<1>8. ASSUME NEW c \in 0 .. (C - 1), NEW k \in 0 .. (K - 1)
      PROVE  c * K + k \in 0 .. (K * C - 1)
  <2>1. K * c + k \in 0 .. (C * K - 1)
    BY <1>1, CellOf
  <2>2. K * c = c * K /\ C * K = K * C
    BY <1>1
  <2> QED
    BY <2>1, <2>2
<1>9. ASSUME NEW b \in 0 .. (K * C - 1)
      PROVE  \E c \in 0 .. (C - 1), k \in 0 .. (K - 1) : b = c * K + k
  <2> DEFINE c == b \div K
             k == b % K
  <2>0. K * C \in Nat
    BY <1>1
  <2>1. c \in Int /\ k \in 0 .. (K - 1) /\ b = K * c + k /\ b \in Nat
    <3> DEFINE y == K * C
    <3>1. y \in Nat /\ b \in 0 .. (y - 1)
      BY <2>0
    <3> HIDE DEF y
    <3>2. b \in Int /\ b \in Nat
      BY <3>1
    <3> QED
      BY <1>1, <3>2, Quotient
  <2>2. c >= 0
    BY <1>1, <2>1
  <2> HIDE DEF c, k
  <2>3. c <= C - 1
    <3> SUFFICES ASSUME c >= C PROVE FALSE
      BY <1>1, <2>1
    <3>1. K * c >= K * C
      BY <1>1, <2>1
    <3> DEFINE x == K * c
               y == K * C
    <3>2. x >= y /\ b = x + k /\ b \in 0 .. (y - 1) /\ x \in Int /\ y \in Int
      BY <1>1, <2>0, <2>1, <3>1
    <3> HIDE DEF x, y
    <3> QED
      BY <1>1, <2>1, <3>2
  <2>4. c \in 0 .. (C - 1) /\ K * c = c * K
    BY <1>1, <2>1, <2>2, <2>3
  <2> QED
    BY <2>1, <2>4
<1>10. {Read(x) : x \in marks} \subseteq points_
  <2> SUFFICES ASSUME NEW x \in marks PROVE Read(x) \in points_
    OBVIOUS
  <2>1. PICK i \in 0 .. (rows - 1), c \in 0 .. (C - 1), k \in 0 .. (K - 1) :
          Toggled(i, c * K + k) /\ x = <<C * i + c, k>>
    BY <1>3
  <2>2. Read(x) = <<i, c * K + k>>
    BY <1>4, <2>1
  <2> QED
    BY <1>7, <1>8, <2>1, <2>2
<1>11. points_ \subseteq {Read(x) : x \in marks}
  <2> SUFFICES ASSUME NEW p \in points_ PROVE \E x \in marks : p = Read(x)
    OBVIOUS
  <2>1. PICK i \in 0 .. (rows - 1), b \in 0 .. (K * C - 1) : Toggled(i, b) /\ p = <<i, b>>
    BY <1>7
  <2>2. PICK c \in 0 .. (C - 1), k \in 0 .. (K - 1) : b = c * K + k
    BY <1>9
  <2> DEFINE x == <<C * i + c, k>>
  <2>3. x \in marks
    BY <1>3, <2>1, <2>2
  <2>4. Read(x) = p
    BY <1>4, <2>1, <2>2
  <2> QED
    BY <2>3, <2>4
<1> HIDE DEF Read
<1>12. View(m, e, marks) = points_
  BY <1>6, <1>10, <1>11
<1> QED
  BY <1>5, <1>12 DEF marks, points_

(* The states of a word of each row. *)
LEMMA StateView ==
  ASSUME NEW m, m = "difuzzrtl", NEW ws, Len(ws) \in Nat, NEW e, Fits(m, ws, e),
         NEW value, \A i \in 0 .. (e.rows - 1) : value[i + 1] \in 0 .. (e.bytes - 1)
  PROVE  /\ StateBytes(e, value) \subseteq Segment(m, e) \X (0 .. (CellBits(m) - 1))
         /\ View(m, e, StateBytes(e, value)) =
              {<<i, value[i + 1]>> : i \in 0 .. (e.rows - 1)}
<1> DEFINE C == Columns(m, e)
           R == 0 .. (e.rows - 1)
           Cell(i) == <<C * i + value[i + 1], 0>>
           marks == {Cell(i) : i \in R}
           Read(x) == <<x[1] \div C, (x[1] % C) * CellBits(m) + x[2]>>
<1>1. C \in Nat \ {0} /\ C = e.bytes /\ CellBits(m) = 1
  BY DEF Fits, Columns, CellBits
<1>2. StateBytes(e, value) = marks
  BY <1>1 DEF StateBytes
<1>3. ASSUME NEW i \in R
      PROVE  Cell(i)[1] \in Segment(m, e) /\ Read(Cell(i)) = <<i, value[i + 1]>>
  <2> DEFINE c == value[i + 1]
             x == Cell(i)
  <2>1. c \in 0 .. (C - 1) /\ x = <<C * i + c, 0>>
    BY <1>1
  <2> HIDE DEF c, x
  <2>2. x[1] \in Segment(m, e) /\ Read(x) = <<i, c * 1 + 0>>
    <3> DEFINE zero == 0
               D == Columns(m, e)
    <3> HIDE DEF zero
    <3>1. c \in 0 .. (D - 1) /\ x = <<D * i + c, zero>>
      BY <2>1 DEF zero
    <3>2. x[1] \in Segment(m, e)
          /\ <<x[1] \div D, (x[1] % D) * CellBits(m) + x[2]>> = <<i, c * CellBits(m) + zero>>
      BY <3>1, ReadCell
    <3> QED
      BY <1>1, <3>2 DEF zero
  <2>3. c * 1 + 0 = c
    BY <1>1, <2>1
  <2> QED
    BY <2>2, <2>3 DEF c, x
<1> HIDE DEF C
<1>4. marks \subseteq Segment(m, e) \X (0 .. (CellBits(m) - 1))
  <2>1. 0 \in 0 .. (CellBits(m) - 1)
    BY <1>1
  <2>2. \A i \in R : Cell(i) \in Segment(m, e) \X (0 .. (CellBits(m) - 1))
    BY <1>3, <2>1
  <2> HIDE DEF Cell
  <2> QED
    BY <2>2
<1>5. View(m, e, marks) = {Read(x) : x \in marks}
  <2>1. View(m, e, marks) = {Read(x) : x \in {y \in marks : y[1] \in Segment(m, e)}}
    BY DEF View, C
  <2> HIDE DEF marks
  <2>2. {y \in marks : y[1] \in Segment(m, e)} = marks
    BY <1>4
  <2> QED
    BY <2>1, <2>2
<1>6. {Read(x) : x \in marks} = {<<i, value[i + 1]>> : i \in R}
  <2> HIDE DEF Cell, Read
  <2>1. {Read(x) : x \in marks} = {Read(Cell(i)) : i \in R}
    OBVIOUS
  <2> QED
    BY <1>3, <2>1
<1> QED
  BY <1>2, <1>4, <1>5, <1>6

----------------------------------------------------------------------------
(* The points of one clock.                                                *)

(* What can be covered: the bits of each wire, or its states. *)
Extent(m, width) == IF m = "difuzzrtl" THEN Pow2[width] ELSE width
Reachable(m, ws) ==
  {p \in (0 .. (Len(ws) - 1)) \X Nat : p[2] < Extent(m, ws[p[1] + 1].width)}

(* In one clock each wire is below the power of two of its width. *)
LEMMA ValuesFact ==
  ASSUME AreWires(method, wires), NEW value \in Values
  PROVE  /\ value \in [1 .. Len(wires) -> 0 .. (Pow2[Widest(wires)] - 1)]
         /\ \A i \in 0 .. (Len(wires) - 1) :
              /\ value[i + 1] \in Nat /\ value[i + 1] < Pow2[wires[i + 1].width]
              /\ value[i + 1] < Pow2[Widest(wires)]
<1> DEFINE n == Widest(wires)
<1>1. n \in Nat
  BY WidestFact, LayoutAssumption
<1>2. Pow2[n] \in Nat
  BY <1>1, Pow2Steps
<1>3. DOMAIN wires = 1 .. Len(wires) /\ Len(wires) \in Nat
  BY DEF AreWires
<1>4. /\ value \in [1 .. Len(wires) -> 0 .. (Pow2[n] - 1)]
      /\ \A i \in 1 .. Len(wires) : value[i] < Pow2[wires[i].width]
  BY <1>3 DEF Values
<1> HIDE DEF n, Pow2
<1>5. ASSUME NEW i \in 0 .. (Len(wires) - 1)
      PROVE  /\ value[i + 1] \in Nat /\ value[i + 1] < Pow2[wires[i + 1].width]
             /\ value[i + 1] < Pow2[n]
  <2> DEFINE j == i + 1
  <2>1. j \in 1 .. Len(wires)
    BY <1>3
  <2> HIDE DEF j
  <2>2. value[j] \in 0 .. (Pow2[n] - 1) /\ value[j] < Pow2[wires[j].width]
    BY <1>4, <2>1
  <2>3. value[j] \in Nat /\ value[j] < Pow2[n]
    BY <1>2, <2>2
  <2> QED
    BY <2>2, <2>3 DEF j
<1> QED
  BY <1>4, <1>5 DEF n

(* Each element of the array is wide enough for its wire. *)
LEMMA ArrayIsValue ==
  ASSUME AreWires(method, wires), Fits(method, wires, env), NEW value \in Values
  PROVE  Array(value) = value
<1> DEFINE n == Widest(wires)
           P == Pow2[env.width]
<1>1. /\ value \in [1 .. Len(wires) -> 0 .. (Pow2[n] - 1)]
  BY ValuesFact
<1>2. n \in Nat /\ env.width \in Nat /\ n <= env.width
  BY WidestFact, LayoutAssumption DEF Fits
<1> HIDE DEF n
<1>3. P \in Nat \ {0} /\ Pow2[n] \in Nat /\ Pow2[n] <= P
  BY <1>2, Pow2Steps, Pow2Grows
<1>4. \A i \in 1 .. Len(wires) : value[i] % P = value[i]
  <2> TAKE i \in 1 .. Len(wires)
  <2>1. value[i] \in 0 .. (P - 1)
    <3> HIDE DEF P, Pow2
    <3>1. value[i] \in 0 .. (Pow2[n] - 1)
      BY <1>1
    <3> QED
      BY <1>3, <3>1
  <2> HIDE DEF P
  <2> QED
    BY <1>3, <2>1, ModSmall
<1>5. Array(value) = [i \in 1 .. Len(wires) |-> value[i] % P]
  BY <1>1 DEF Array
<1> HIDE DEF P, Pow2
<1>6. Array(value) = [i \in 1 .. Len(wires) |-> value[i]]
  BY <1>4, <1>5
<1> QED
  BY <1>1, <1>6

(* Two values with the same bits are the same. *)
LEMMA BitsOfDetermine ==
  ASSUME NEW n \in 0 .. MaxBits, NEW v \in 0 .. (Pow2[n] - 1), NEW w \in 0 .. (Pow2[n] - 1),
         BitsOf(v) = BitsOf(w)
  PROVE  v = w
<1>1. n \in Nat /\ \A b \in 0 .. (n - 1) : b \in 0 .. (MaxBits - 1)
  BY LayoutAssumption
<1>2. \A b \in 0 .. (n - 1) : Bit(v, b) <=> Bit(w, b)
  BY <1>1 DEF BitsOf
<1> QED
  BY <1>1, <1>2, BitsDetermine

(* Toggles: the bits that differ are within the width of their wire, and are
   the points of CoverageMethods. *)
LEMMA DifferingPoints ==
  ASSUME method \in LayoutMethods, method # "difuzzrtl", AreWires(method, wires),
         Fits(method, wires, env), NEW first \in Values, NEW value \in Values
  PROVE  /\ Differing(env, first, value) \subseteq Reachable(method, wires)
         /\ PointsOf(first, value) = Differing(env, first, value)
<1> DEFINE R == 0 .. (Len(wires) - 1)
           n == Widest(wires)
           Differ(i, b) == ~(Bit(first[i + 1], b) <=> Bit(value[i + 1], b))
<1>1. env.rows = Len(wires) /\ env.width \in Nat /\ n <= env.width
  BY DEF Fits
<1>2. /\ n \in Nat /\ n <= MaxBits
      /\ \A i \in 1 .. Len(wires) : wires[i].width \in Nat /\ wires[i].width <= n
  <2>1. /\ n \in 1 .. MaxBits
        /\ \A i \in 1 .. Len(wires) : wires[i].width \in 1 .. MaxBits /\ wires[i].width <= n
    BY WidestFact
  <2> HIDE DEF n
  <2> QED
    BY <2>1, LayoutAssumption
<1>3. Len(wires) \in 1 .. (MaxInstances + 1)
  BY DEF AreWires
<1> HIDE DEF n
<1>4. ASSUME NEW i \in R, NEW b \in Nat, Differ(i, b)
      PROVE  b < wires[i + 1].width
  <2> DEFINE w == wires[i + 1].width
             v == value[i + 1]
             f == first[i + 1]
  <2>1. i + 1 \in 1 .. Len(wires)
    BY <1>3, LayoutAssumption
  <2>2. w \in Nat /\ w <= n
    BY <1>2, <2>1
  <2>3. v \in Nat /\ v < Pow2[w] /\ f \in Nat /\ f < Pow2[w]
    BY ValuesFact
  <2>4. ~(Bit(f, b) <=> Bit(v, b))
    BY <1>4
  <2> HIDE DEF w, v, f
  <2>5. ASSUME w <= b PROVE FALSE
    <3>1. ~Bit(v, b) /\ ~Bit(f, b)
      BY <2>2, <2>3, <2>5, NoBitAbove
    <3> QED
      BY <2>4, <3>1
  <2>6. b < w
    BY <2>2, <2>5
  <2> QED
    BY <2>6 DEF w
<1>5. ASSUME NEW i \in R, NEW b \in Nat, Differ(i, b)
      PROVE  b \in 0 .. (env.width - 1) /\ b \in 0 .. (MaxBits - 1)
  <2>1. i + 1 \in 1 .. Len(wires)
    BY <1>3, LayoutAssumption
  <2>2. b < wires[i + 1].width
    BY <1>4, <1>5
  <2> QED
    BY <1>1, <1>2, <2>1, <2>2, LayoutAssumption
<1>6. Differing(env, first, value) = {p \in R \X (0 .. (env.width - 1)) : Differ(p[1], p[2])}
  BY <1>1 DEF Differing
<1>7. Differing(env, first, value) \subseteq Reachable(method, wires)
  <2> SUFFICES ASSUME NEW i \in R, NEW b \in 0 .. (env.width - 1), Differ(i, b)
               PROVE  <<i, b>> \in Reachable(method, wires)
    BY <1>6
  <2>1. b \in Nat
    BY <1>1
  <2>2. b < wires[i + 1].width
    BY <1>4, <2>1
  <2> QED
    BY <2>1, <2>2 DEF Reachable, Extent
<1>8. \A r \in 0 .. MaxInstances : r < Len(wires) <=> r \in R
  BY <1>3, LayoutAssumption
<1> DEFINE Sym(S, T) == (S \ T) \cup (T \ S)
           F == OnWires(first)
           V == OnWires(value)
<1>9. PointsOf(first, value) =
        {p \in UNION {{r} \X Sym(F[r], V[r]) : r \in 0 .. MaxInstances} : p[1] < Len(wires)}
  BY DEF PointsOf, Points!Marked, Points!SymmetricDifference, LayoutMethods
<1>10. \A r \in R :
         /\ r \in 0 .. MaxInstances
         /\ Sym(F[r], V[r]) = {b \in 0 .. (MaxBits - 1) : Differ(r, b)}
  <2> TAKE r \in R
  <2>1. r \in 0 .. MaxInstances /\ r < Len(wires)
    BY <1>3, LayoutAssumption
  <2>2. F[r] = BitsOf(first[r + 1]) /\ V[r] = BitsOf(value[r + 1])
    BY <2>1 DEF OnWires
  <2> QED
    BY <2>1, <2>2 DEF BitsOf
<1> HIDE DEF Sym, F, V, R
<1>11. PointsOf(first, value) = {p \in R \X (0 .. (MaxBits - 1)) : Differ(p[1], p[2])}
  <2>1. \A p : p \in PointsOf(first, value) <=>
               \E r \in 0 .. MaxInstances : \E b \in Sym(F[r], V[r]) :
                 p = <<r, b>> /\ r < Len(wires)
    BY <1>9
  <2>2. \A p : p \in PointsOf(first, value) <=>
               \E r \in R : \E b \in Sym(F[r], V[r]) : p = <<r, b>>
    BY <1>8, <1>10, <2>1
  <2>3. \A p : p \in PointsOf(first, value) <=>
               \E r \in R : \E b \in 0 .. (MaxBits - 1) : Differ(r, b) /\ p = <<r, b>>
    BY <1>10, <2>2
  <2> HIDE DEF Differ
  <2> QED
    BY <2>3
<1>12. \A i \in R : \A b : Differ(i, b) =>
         (b \in 0 .. (MaxBits - 1) <=> b \in 0 .. (env.width - 1))
  <2> TAKE i \in R
  <2> TAKE b
  <2> HAVE Differ(i, b)
  <2>1. b \in 0 .. (MaxBits - 1) \/ b \in 0 .. (env.width - 1) => b \in Nat
    BY <1>1, LayoutAssumption
  <2> QED
    BY <1>5, <2>1
<1>13. PointsOf(first, value) = Differing(env, first, value)
  <2> HIDE DEF Differ
  <2> QED
    BY <1>6, <1>11, <1>12
<1> QED
  BY <1>7, <1>13

(* States: each is below the power of two of its wire, and its bits are the
   point of CoverageMethods. *)
LEMMA StatePoints ==
  ASSUME method = "difuzzrtl", AreWires(method, wires), Fits(method, wires, env),
         NEW first \in Values, NEW value \in Values
  PROVE  /\ \A i \in 0 .. (env.rows - 1) : value[i + 1] \in 0 .. (env.bytes - 1)
         /\ {<<i, value[i + 1]>> : i \in 0 .. (env.rows - 1)} \subseteq
              Reachable(method, wires)
         /\ PointsOf(first, value) = {<<i, BitsOf(value[i + 1])>> : i \in 0 .. (env.rows - 1)}
<1> DEFINE R == 0 .. (Len(wires) - 1)
           n == Widest(wires)
<1>1. env.rows = Len(wires) /\ env.bytes = Pow2[n] /\ env.bytes \in Nat
  BY DEF Fits
<1>2. \A i \in R : /\ value[i + 1] \in Nat /\ value[i + 1] < Pow2[wires[i + 1].width]
                   /\ value[i + 1] < Pow2[n]
  BY ValuesFact
<1>3. Len(wires) \in 1 .. (MaxInstances + 1)
  BY DEF AreWires
<1> HIDE DEF n, Pow2
<1>4. \A i \in R : value[i + 1] \in 0 .. (env.bytes - 1)
  BY <1>1, <1>2
<1>5. \A i \in R : <<i, value[i + 1]>> \in Reachable(method, wires)
  BY <1>2 DEF Reachable, Extent
<1> DEFINE V == OnWires(value)
<1>6. PointsOf(first, value) =
        {p \in {<<r, V[r]>> : r \in 0 .. MaxInstances} : p[1] < Len(wires)}
  BY DEF PointsOf, Points!Marked
<1>7. \A r \in 0 .. MaxInstances : r < Len(wires) <=> r \in R
  BY <1>3, LayoutAssumption
<1>8. \A r \in R : r \in 0 .. MaxInstances /\ V[r] = BitsOf(value[r + 1])
  BY <1>3, LayoutAssumption DEF OnWires
<1> HIDE DEF V, R
<1>9. PointsOf(first, value) = {<<i, BitsOf(value[i + 1])>> : i \in R}
  BY <1>6, <1>7, <1>8
<1> QED
  BY <1>1, <1>4, <1>5, <1>9 DEF R

----------------------------------------------------------------------------
(* Marks and points of one clock, and the cells a reset clears.            *)

Marks(first, value) ==
  IF method = "difuzzrtl" THEN StateBytes(env, value) ELSE ToggledBits(env, first, value)

(* One clock: the marks are in the segment, read back they are within the
   widths of the wires, and they are the points of CoverageMethods. *)
LEMMA MarksArePoints ==
  ASSUME method \in LayoutMethods, AreWires(method, wires), Fits(method, wires, env),
         NEW first \in Values, NEW value \in Values
  PROVE  /\ Marks(first, value) \subseteq
              Segment(method, env) \X (0 .. (CellBits(method) - 1))
         /\ View(method, env, Marks(first, value)) \subseteq Reachable(method, wires)
         /\ PointsIn(View(method, env, Marks(first, value))) = PointsOf(first, value)
<1>1. Len(wires) \in Nat
  BY LayoutAssumption DEF AreWires
<1>2. CASE method = "difuzzrtl"
  <2> DEFINE R == 0 .. (env.rows - 1)
             seen == {<<i, value[i + 1]>> : i \in R}
  <2>1. /\ \A i \in R : value[i + 1] \in 0 .. (env.bytes - 1)
        /\ seen \subseteq Reachable(method, wires)
        /\ PointsOf(first, value) = {<<i, BitsOf(value[i + 1])>> : i \in R}
    BY <1>2, StatePoints
  <2>2. /\ StateBytes(env, value) \subseteq Segment(method, env) \X (0 .. (CellBits(method) - 1))
        /\ View(method, env, StateBytes(env, value)) = seen
    BY <1>1, <1>2, <2>1, StateView
  <2>3. PointsIn(seen) = {<<i, BitsOf(value[i + 1])>> : i \in R}
    <3>1. PointsIn(seen) = {<<x[1], BitsOf(x[2])>> : x \in seen}
      BY <1>2 DEF PointsIn
    <3> DEFINE g(i) == <<i, value[i + 1]>>
               h(x) == <<x[1], BitsOf(x[2])>>
    <3>2. \A i : h(g(i)) = <<i, BitsOf(value[i + 1])>>
      OBVIOUS
    <3>3. PointsIn(seen) = {h(x) : x \in {g(i) : i \in R}}
      BY <3>1
    <3> HIDE DEF R, g, h
    <3>4. {h(x) : x \in {g(i) : i \in R}} = {h(g(i)) : i \in R}
      OBVIOUS
    <3> QED
      BY <3>2, <3>3, <3>4
  <2>4. Marks(first, value) = StateBytes(env, value)
    BY <1>2 DEF Marks
  <2> HIDE DEF seen
  <2> QED
    BY <2>1, <2>2, <2>3, <2>4
<1>3. CASE method # "difuzzrtl"
  <2> DEFINE seen == Differing(env, first, value)
  <2>1. seen \subseteq Reachable(method, wires) /\ PointsOf(first, value) = seen
    BY <1>3, DifferingPoints
  <2>2. /\ ToggledBits(env, first, value) \subseteq
             Segment(method, env) \X (0 .. (CellBits(method) - 1))
        /\ View(method, env, ToggledBits(env, first, value)) = seen
    BY <1>1, <1>3, ToggledView
  <2>3. PointsIn(seen) = seen
    <3>1. PointsIn(seen) = {<<x[1], x[2]>> : x \in seen}
      BY <1>3 DEF PointsIn
    <3>2. \A x \in seen : x = <<x[1], x[2]>>
      BY DEF Differing
    <3> HIDE DEF seen
    <3> QED
      BY <3>1, <3>2
  <2>4. Marks(first, value) = ToggledBits(env, first, value)
    BY <1>3 DEF Marks
  <2> HIDE DEF seen
  <2> QED
    BY <2>1, <2>2, <2>3, <2>4
<1> QED
  BY <1>2, <1>3

(* Points are read one by one, and tell apart what can be covered. *)
LEMMA PointsOfBoth ==
  ASSUME NEW A, NEW B
  PROVE  PointsIn(A \cup B) = PointsIn(A) \cup PointsIn(B) /\ PointsIn({}) = {}
BY DEF PointsIn

(* Two sets of cells differ just as their points do: new coverage in memory is
   new coverage of points. *)
LEMMA PointsTellApart ==
  ASSUME method \in LayoutMethods, AreWires(method, wires),
         NEW A, A \subseteq Reachable(method, wires),
         NEW B, B \subseteq Reachable(method, wires)
  PROVE  (A \ B # {}) <=> (PointsIn(A) \ PointsIn(B) # {})
<1> DEFINE f(x) == <<x[1], IF method = "difuzzrtl" THEN BitsOf(x[2]) ELSE x[2]>>
<1>1. PointsIn(A) = {f(x) : x \in A} /\ PointsIn(B) = {f(x) : x \in B}
  BY DEF PointsIn
<1>2. ASSUME NEW x \in Reachable(method, wires), NEW y \in Reachable(method, wires),
             f(x) = f(y)
      PROVE  x = y
  <2>1. /\ x = <<x[1], x[2]>> /\ y = <<y[1], y[2]>> /\ x[1] = y[1]
        /\ x[1] \in 0 .. (Len(wires) - 1) /\ x[2] \in Nat /\ y[2] \in Nat
    BY <1>2 DEF Reachable
  <2>2. CASE method # "difuzzrtl"
    BY <1>2, <2>1, <2>2
  <2>3. CASE method = "difuzzrtl"
    <3> DEFINE n == wires[x[1] + 1].width
               v == x[2]
               w == y[2]
    <3>1. x[1] + 1 \in 1 .. Len(wires)
      BY <2>1, LayoutAssumption DEF AreWires
    <3>2. n \in 0 .. MaxBits /\ n \in Nat
      <4>1. \A i \in 1 .. Len(wires) : wires[i].width \in 1 .. MaxBits
        BY WidestFact
      <4>2. n \in 1 .. MaxBits
        BY <3>1, <4>1
      <4> HIDE DEF n
      <4> QED
        BY <4>2, LayoutAssumption
    <3>3. v \in Nat /\ w \in Nat /\ v < Pow2[n] /\ w < Pow2[n]
      BY <2>1, <2>3 DEF Reachable, Extent
    <3>4. BitsOf(v) = BitsOf(w)
      BY <1>2, <2>3
    <3> HIDE DEF n, v, w
    <3>5. Pow2[n] \in Nat
      BY <3>2, Pow2Steps
    <3>6. v \in 0 .. (Pow2[n] - 1) /\ w \in 0 .. (Pow2[n] - 1)
      <4> HIDE DEF Pow2
      <4> QED
        BY <3>3, <3>5
    <3>7. v = w
      BY <3>2, <3>4, <3>6, BitsOfDetermine
    <3> QED
      BY <2>1, <3>7 DEF v, w
  <2> QED
    BY <2>2, <2>3
<1> HIDE DEF f
<1> QED
  BY <1>1, <1>2

(* A row of w times as many columns written from each row on covers the
   segment and w - 1 rows behind it. *)
LEMMA Stripes ==
  ASSUME NEW C \in Nat \ {0}, NEW rows \in Nat \ {0}, NEW w \in Nat \ {0}
  PROVE  \A z : (\E i \in 0 .. (rows - 1), j \in 0 .. (w * C - 1) : z = i * C + j)
                 <=> z \in 0 .. ((rows + w - 1) * C - 1)
<1> DEFINE last == rows - 1
           x == last * C
           y == w * C
           total == (rows + w - 1) * C
           Cell(z) == \E i \in 0 .. (rows - 1), j \in 0 .. (w * C - 1) : z = i * C + j
<1>1. last \in Nat /\ x \in Nat /\ y \in Nat /\ total \in Nat /\ total = x + y /\ C <= y
  <2>1. (rows + w - 1) * C = (rows - 1) * C + w * C
    OBVIOUS
  <2>2. (rows + w - 1) \in Nat
    OBVIOUS
  <2>3. total \in Nat
    BY <2>2
  <2> QED
    BY <2>1, <2>3
<1> HIDE DEF last
<1>2. \A i \in 0 .. last : i * C \in Nat /\ i * C <= x
  BY <1>1
<1> HIDE DEF x, y, total
<1>3. \A z : Cell(z) <=> \E i \in 0 .. last, j \in 0 .. (y - 1) : z = i * C + j
  BY DEF last, y
<1> HIDE DEF Cell
<1>4. \A z : Cell(z) => z \in 0 .. (total - 1)
  <2> SUFFICES ASSUME NEW i \in 0 .. last, NEW j \in 0 .. (y - 1)
               PROVE  i * C + j \in 0 .. (total - 1)
    BY <1>3
  <2> DEFINE z == i * C
  <2>1. z \in Nat /\ z <= x
    BY <1>2
  <2> HIDE DEF z
  <2>2. z + j \in 0 .. (total - 1)
    BY <1>1, <2>1
  <2> QED
    BY <2>2 DEF z
<1>5. ASSUME NEW z \in 0 .. (total - 1) PROVE Cell(z)
  <2>1. CASE z < x
    <3> DEFINE i == z \div C
               j == z % C
    <3>1. z \in Nat
      BY <1>1
    <3>2. i \in Int /\ j \in 0 .. (C - 1) /\ z = C * i + j
      BY <3>1, Quotient
    <3> HIDE DEF i, j
    <3>3. i >= 0
      <4> SUFFICES ASSUME i <= -1 PROVE FALSE
        BY <3>2
      <4>1. C * i <= -C
        BY <3>2
      <4> QED
        BY <3>1, <3>2, <4>1
    <3>4. i <= last
      <4> SUFFICES ASSUME i >= last PROVE i = last
        BY <1>1, <3>2
      <4>1. C * i >= C * last /\ C * last = x
        BY <1>1, <3>2 DEF x
      <4> QED
        BY <1>1, <2>1, <3>1, <3>2, <4>1
    <3>5. i * C = C * i /\ i \in 0 .. last /\ j \in 0 .. (y - 1)
      BY <1>1, <3>2, <3>3, <3>4
    <3> QED
      BY <1>3, <3>2, <3>5
  <2>2. CASE z >= x
    <3>1. z = last * C + (z - x) /\ z - x \in 0 .. (y - 1) /\ last \in 0 .. last
      <4>1. z = x + (z - x) /\ z - x \in 0 .. (y - 1)
        BY <1>1, <2>2
      <4> QED
        BY <1>1, <4>1 DEF x
    <3> QED
      BY <1>3, <3>1
  <2>3. z \in Int /\ x \in Int
    BY <1>1
  <2> QED
    BY <2>1, <2>2, <2>3
<1>6. \A z : Cell(z) <=> z \in 0 .. (total - 1)
  BY <1>4, <1>5
<1> QED
  BY <1>6 DEF Cell, total

(* The cells of a reset, and that none of the segment is left out. *)
LEMMA ResetFact ==
  ASSUME NEW m \in LayoutMethods, NEW ws, Len(ws) \in Nat \ {0}, NEW e, Fits(m, ws, e)
  PROVE  /\ ResetCells(m, e) =
              0 .. ((e.rows + (IF m = "directfuzz" THEN WordBytes - 1 ELSE 0))
                      * Columns(m, e) - 1)
         /\ Segment(m, e) \subseteq ResetCells(m, e)
<1> DEFINE C == Columns(m, e)
           rows == e.rows
           w == IF m = "directfuzz" THEN WordBytes ELSE 1
           over == IF m = "directfuzz" THEN WordBytes - 1 ELSE 0
<1>1. C \in Nat \ {0} /\ rows \in Nat \ {0}
  BY DEF Fits
<1>2. w \in Nat \ {0} /\ over \in Nat /\ rows + w - 1 = rows + over
  BY <1>1, LayoutAssumption
<1>3. (IF m = "directfuzz" THEN e.bytes ELSE C) = w * C
  BY <1>1, LayoutAssumption DEF Fits
<1>4. \A z : z \in ResetCells(m, e) <=>
              \E i \in 0 .. (rows - 1), j \in 0 .. (w * C - 1) : z = i * C + j
  BY <1>3 DEF ResetCells
<1> HIDE DEF C, rows, w, over
<1>5. ResetCells(m, e) = 0 .. ((rows + w - 1) * C - 1)
  <2>1. \A z : (\E i \in 0 .. (rows - 1), j \in 0 .. (w * C - 1) : z = i * C + j)
                <=> z \in 0 .. ((rows + w - 1) * C - 1)
    BY <1>1, <1>2, Stripes
  <2>2. \A z : z \in ResetCells(m, e) <=> z \in 0 .. ((rows + w - 1) * C - 1)
    BY <1>4, <2>1, Zenon
  <2> QED
    BY <2>2
<1>6. ResetCells(m, e) = 0 .. ((rows + over) * C - 1)
  BY <1>2, <1>5
<1>7. rows * C <= (rows + over) * C /\ rows * C \in Nat /\ (rows + over) * C \in Nat
  <2>1. (rows + over) * C = rows * C + over * C /\ over * C \in Nat
    BY <1>1, <1>2
  <2> QED
    BY <1>1, <1>2, <2>1
<1>8. Segment(m, e) = 0 .. (rows * C - 1)
  BY DEF Segment, rows, C
<1>9. Segment(m, e) \subseteq ResetCells(m, e)
  <2> DEFINE a == rows * C
             b == (rows + over) * C
  <2> HIDE DEF a, b
  <2>1. 0 .. (a - 1) \subseteq 0 .. (b - 1)
    BY <1>7 DEF a, b
  <2> QED
    BY <1>6, <1>8, <2>1 DEF a, b
<1> QED
  BY <1>6, <1>9 DEF rows, over, C

----------------------------------------------------------------------------
(* The invariant.                                                          *)

(* Everything is still as it was built. *)
Untouched ==
  /\ env = None /\ memory = {} /\ bitmap = {} /\ points = {} /\ covered = {}
  /\ new_coverage = FALSE /\ found = FALSE

(* The sizes are those of the wires, and marks and coverage are within them. *)
Prepared ==
  /\ env = Environment(method, wires)
  /\ memory \subseteq Segment(method, env) \X (0 .. (CellBits(method) - 1))
  /\ View(method, env, memory) \subseteq Reachable(method, wires)
  /\ bitmap \subseteq Reachable(method, wires)
  /\ PointsIn(View(method, env, memory)) = points
  /\ PointsIn(bitmap) = covered
  /\ new_coverage = found

LayoutInv ==
  /\ method \in LayoutMethods /\ wires \in WiresOf(method)
  /\ phase \in {"built", "idle", "running"}
  /\ new_coverage \in BOOLEAN
  /\ init = None \/ init \in Values
  /\ phase = "built" => Untouched
  /\ phase # "built" => Prepared

(* In every reachable state the sizes measured fit the wires. *)
LEMMA PreparedFits ==
  ASSUME LayoutInv
  PROVE  /\ AreWires(method, wires)
         /\ Fits(method, wires, Environment(method, wires))
         /\ Len(wires) \in Nat \ {0}
<1>1. AreWires(method, wires)
  BY WiresFact DEF LayoutInv
<1>2. Fits(method, wires, Environment(method, wires))
  BY <1>1, EnvironmentFits DEF LayoutInv
<1>3. Len(wires) \in Nat \ {0}
  BY <1>1, LayoutAssumption DEF AreWires
<1> QED
  BY <1>1, <1>2, <1>3

(* A built design has no sizes and no coverage. *)
LEMMA LayoutInit == Init => LayoutInv
BY DEF Init, LayoutInv, LayoutMethods, Untouched

(* process() writes the sizes; nothing is covered yet. *)
LEMMA LayoutPrepare == LayoutInv /\ Prepare => LayoutInv'
<1> SUFFICES ASSUME LayoutInv, Prepare PROVE LayoutInv'
  OBVIOUS
<1>1. /\ phase = "built" /\ Untouched /\ phase' = "idle"
      /\ env' = Environment(method, wires)
      /\ UNCHANGED <<method, wires, memory, init, bitmap, new_coverage, points, covered, found>>
  BY DEF LayoutInv, Prepare
<1>2. Prepared'
  <2>1. View(method, env', {}) = {} /\ PointsIn({}) = {}
    BY DEF View, PointsIn
  <2> QED
    BY <1>1, <2>1 DEF Prepared, Untouched, View, PointsIn
<1>3. Values' = Values
  BY <1>1 DEF Values
<1> QED
  BY <1>1, <1>2, <1>3 DEF LayoutInv

(* A reset leaves no mark of an earlier run in the segment. *)
LEMMA LayoutReset == LayoutInv /\ Reset => LayoutInv'
<1> SUFFICES ASSUME LayoutInv, Reset PROVE LayoutInv'
  OBVIOUS
<1>1. /\ phase = "idle" /\ Prepared /\ phase' = "running"
      /\ memory' = {x \in memory : x[1] \notin ResetCells(method, env)}
      /\ init' = None /\ points' = {}
      /\ UNCHANGED <<method, wires, env, bitmap, new_coverage, covered, found>>
  BY DEF LayoutInv, Reset
<1>2. memory' = {}
  <2>1. Segment(method, env) \subseteq ResetCells(method, env)
    BY <1>1, PreparedFits, ResetFact DEF Prepared, LayoutInv
  <2>2. \A x \in memory : x[1] \in Segment(method, env)
    BY <1>1 DEF Prepared
  <2> QED
    BY <1>1, <2>1, <2>2
<1>3. View(method, env, {}) = {} /\ PointsIn({}) = {}
  BY DEF View, PointsIn
<1>4. Prepared'
  <2>1. PointsIn(bitmap)' = PointsIn(bitmap) /\ PointsIn({})' = {}
    BY <1>1 DEF PointsIn
  <2> QED
    BY <1>1, <1>2, <1>3, <2>1 DEF Prepared
<1> QED
  BY <1>1, <1>4 DEF LayoutInv

(* A clock adds its marks to the segment and the same points to the run. *)
LEMMA LayoutClock == ASSUME NEW value \in Values PROVE LayoutInv /\ Clock(value) => LayoutInv'
<1> SUFFICES ASSUME LayoutInv, Clock(value) PROVE LayoutInv'
  OBVIOUS
<1>1. AreWires(method, wires) /\ Fits(method, wires, env) /\ method \in LayoutMethods
      /\ phase = "running" /\ Prepared
  BY PreparedFits DEF LayoutInv, Clock, Prepared
<1>2. Array(value) = value
  BY <1>1, ArrayIsValue
<1> DEFINE first == IF init = None THEN value ELSE init
           marks == Marks(first, value)
           new == PointsOf(first, value)
<1>3. /\ init' = first /\ first \in Values
      /\ memory' = memory \cup marks
      /\ points' = points \cup new
      /\ UNCHANGED <<method, wires, env, phase, bitmap, new_coverage, covered, found>>
  <2>1. init' = first /\ first \in Values
    BY <1>2 DEF Clock, LayoutInv
  <2> HIDE DEF first
  <2>2. memory' = memory \cup
          (IF method = "difuzzrtl" THEN StateBytes(env, value) ELSE ToggledBits(env, first, value))
    BY <1>2, <2>1 DEF Clock
  <2> QED
    BY <2>1, <2>2 DEF Clock, Marks
<1> HIDE DEF first
<1>4. /\ marks \subseteq Segment(method, env) \X (0 .. (CellBits(method) - 1))
      /\ View(method, env, marks) \subseteq Reachable(method, wires)
      /\ PointsIn(View(method, env, marks)) = new
  BY <1>1, <1>3, MarksArePoints
<1> HIDE DEF marks, new
<1>5. View(method, env, memory \cup marks) = View(method, env, memory) \cup View(method, env, marks)
  BY ViewOfBoth
<1>6. PointsIn(View(method, env, memory \cup marks)) = points \cup new
  <2>1. \A A, B : PointsIn(A \cup B) = PointsIn(A) \cup PointsIn(B)
    BY PointsOfBoth
  <2> QED
    BY <1>1, <1>4, <1>5, <2>1 DEF Prepared
<1>7. Prepared'
  <2>1. \A A : PointsIn(A) = {<<x[1], IF method = "difuzzrtl" THEN BitsOf(x[2]) ELSE x[2]>> : x \in A}
    BY DEF PointsIn
  <2>2. PointsIn(View(method, env, memory))' = PointsIn(View(method, env, memory \cup marks))
    BY <1>3 DEF PointsIn
  <2>3. PointsIn(bitmap)' = PointsIn(bitmap)
    BY <1>3 DEF PointsIn
  <2>4. memory \cup marks \subseteq Segment(method, env) \X (0 .. (CellBits(method) - 1))
        /\ View(method, env, memory \cup marks) \subseteq Reachable(method, wires)
    BY <1>1, <1>4, <1>5 DEF Prepared
  <2> QED
    BY <1>1, <1>3, <1>6, <2>2, <2>3, <2>4 DEF Prepared
<1>8. Values' = Values
  BY <1>3 DEF Values
<1> QED
  BY <1>1, <1>3, <1>7, <1>8 DEF LayoutInv

(* new_coverage and apply judge and add what is in the segment, which are the
   points of the run. *)
LEMMA LayoutReadBack == LayoutInv /\ ReadBack => LayoutInv'
<1> SUFFICES ASSUME LayoutInv, ReadBack PROVE LayoutInv'
  OBVIOUS
<1> DEFINE local == View(method, env, memory)
<1>1. /\ phase = "running" /\ Prepared /\ AreWires(method, wires) /\ phase' = "idle"
      /\ method \in LayoutMethods
  BY PreparedFits DEF LayoutInv, ReadBack
<1>2. /\ new_coverage' = (local \ bitmap # {})
      /\ bitmap' = bitmap \cup local
      /\ covered' = covered \cup points
      /\ found' = (points \ covered # {})
      /\ UNCHANGED <<method, wires, env, memory, init, points>>
  BY <1>1 DEF ReadBack, NewIn, Points!Applied, Points!NewCoverage, LayoutMethods
<1>3. local \subseteq Reachable(method, wires) /\ bitmap \subseteq Reachable(method, wires)
      /\ PointsIn(local) = points /\ PointsIn(bitmap) = covered
  BY <1>1 DEF Prepared
<1> HIDE DEF local
<1>4. (local \ bitmap # {}) <=> (points \ covered # {})
  BY <1>1, <1>3, PointsTellApart
<1>5. PointsIn(bitmap \cup local) = covered \cup points
  BY <1>3, PointsOfBoth
<1>6. Prepared'
  <2>1. PointsIn(bitmap)' = PointsIn(bitmap \cup local)
    BY <1>2 DEF PointsIn
  <2>2. View(method, env, memory)' = local /\ PointsIn(View(method, env, memory))' = PointsIn(local)
    BY <1>2 DEF PointsIn, local
  <2>3. new_coverage' = found'
    BY <1>2, <1>4
  <2> QED
    BY <1>1, <1>2, <1>3, <1>5, <2>1, <2>2, <2>3 DEF Prepared
<1>7. Values' = Values
  BY <1>2 DEF Values
<1> QED
  BY <1>1, <1>2, <1>6, <1>7 DEF LayoutInv

(* The invariant is one of the variables. *)
LEMMA LayoutStutters == LayoutInv /\ UNCHANGED vars => LayoutInv'
<1> SUFFICES ASSUME LayoutInv, UNCHANGED vars PROVE LayoutInv'
  OBVIOUS
<1>1. Values' = Values /\ Untouched' = Untouched /\ Prepared' = Prepared
  BY DEF vars, Values, Untouched, Prepared, PointsIn
<1> QED
  BY <1>1 DEF LayoutInv, vars

(* Once the sizes are written, segment and bitmap are the points of this run and
   of all runs, each within the width of its wire. *)
THEOREM LayoutInvariant == Spec => []LayoutInv
<1>1. LayoutInv /\ [Next]_vars => LayoutInv'
  BY LayoutPrepare, LayoutReset, LayoutClock, LayoutReadBack, LayoutStutters DEF Next
<1> QED
  BY <1>1, LayoutInit, PTL DEF Spec

(* Extents: the marks of every clock are in the segment, and a reset covers it,
   for any word, any wires and any width of them. *)
THEOREM LayoutAlwaysTyped == Spec => []LayoutTypeOK
<1>1. LayoutInv => LayoutTypeOK
  <2> SUFFICES ASSUME LayoutInv PROVE LayoutTypeOK
    OBVIOUS
  <2>1. /\ AreWires(method, wires) /\ Fits(method, wires, Environment(method, wires))
        /\ Len(wires) \in Nat \ {0} /\ method \in LayoutMethods
    BY PreparedFits DEF LayoutInv
  <2>2. wires \in Seq([inst : 1 .. MaxInstances \cup {Target}, width : 1 .. MaxBits])
    BY <2>1 DEF AreWires
  <2>3. ASSUME phase # "built"
        PROVE  /\ env \in [width : Nat, rows : Nat, bytes : Nat, max : Nat]
               /\ memory \subseteq Segment(method, env) \X (0 .. (CellBits(method) - 1))
               /\ ResetCells(method, env) =
                    0 .. ((env.rows + (IF method = "directfuzz" THEN WordBytes - 1 ELSE 0))
                            * Columns(method, env) - 1)
    <3>1. env = Environment(method, wires) /\ Prepared
      BY <2>3 DEF LayoutInv, Prepared
    <3>2. Fits(method, wires, env)
      BY <2>1, <3>1
    <3> QED
      BY <2>1, <3>1, <3>2, ResetFact DEF Fits, Prepared
  <2>4. phase = "built" => env = None
    BY DEF LayoutInv, Untouched
  <2> QED
    BY <2>2, <2>3, <2>4 DEF LayoutTypeOK, LayoutInv
<1> QED
  BY <1>1, LayoutInvariant, PTL

(* Flat memory implements points: the fuzzer finds the points of each wire in
   the row of that wire and nowhere else, those of this run only, and reports
   new coverage exactly when there is a point no run covered before. *)
THEOREM PointsAlwaysImplemented == Spec => []ImplementsPoints
<1>1. LayoutInv => ImplementsPoints
  BY DEF LayoutInv, Prepared, ImplementsPoints
<1> QED
  BY <1>1, LayoutInvariant, PTL

----------------------------------------------------------------------------
(* How much can be covered.                                                *)

(* The cells of a staircase: as many in column i as f[i]. *)
Below(f, s) == {p \in s \X Nat : p[2] < f[p[1]]}

(* They are as many as the sum of f. *)
LEMMA BelowIsSum ==
  ASSUME NEW S, IsFiniteSet(S), NEW f \in [S -> Nat]
  PROVE  IsFiniteSet(Below(f, S)) /\ Cardinality(Below(f, S)) = SumTable(f, S)[S]
<1> DEFINE G == {s \in SUBSET S : /\ IsFiniteSet(Below(f, s))
                                  /\ Cardinality(Below(f, s)) = SumTable(f, S)[s]}
<1>1. {} \in G
  <2>1. Below(f, {}) = {} /\ {} \in SUBSET S
    BY DEF Below
  <2>2. SumTable(f, S)[{}] = 0
    BY <2>1, SumEquation
  <2> QED
    BY <2>1, <2>2, FS_EmptySet
<1>2. ASSUME NEW s \in SUBSET S, s # {}, s \ {PickOf(s)} \in G PROVE s \in G
  <2> DEFINE a == PickOf(s)
             rest == s \ {a}
             column == {<<a, k>> : k \in 0 .. (f[a] - 1)}
  <2>1. a \in s /\ a \in S /\ f[a] \in Nat
    <3>1. PickOf(s) \in s
      BY <1>2, PickedOut
    <3> HIDE DEF a
    <3>2. a \in s
      BY <3>1 DEF a
    <3> QED
      BY <3>2
  <2> HIDE DEF a
  <2>2. Below(f, s) = Below(f, rest) \cup column
    <3>1. \A p : p \in column <=> p \in {a} \X Nat /\ p[2] < f[p[1]]
      BY <2>1
    <3> HIDE DEF column
    <3> QED
      BY <2>1, <3>1 DEF Below
  <2>3. Below(f, rest) \cap column = {}
    BY DEF Below
  <2>4. IsFiniteSet(column) /\ Cardinality(column) = f[a]
    <3> DEFINE I == 0 .. (f[a] - 1)
               g == [k \in I |-> <<a, k>>]
    <3>1. IsFiniteSet(I) /\ Cardinality(I) = f[a]
      BY <2>1, FS_Interval
    <3>2. g \in Bijection(I, column)
      <4>1. g \in [I -> column] /\ \A k, l \in I : g[k] = g[l] => k = l
        OBVIOUS
      <4>2. \A p \in column : \E k \in I : g[k] = p
        OBVIOUS
      <4> QED
        BY <4>1, <4>2, Fun_IsBij
    <3> HIDE DEF I, g, column
    <3> QED
      BY <3>1, <3>2, FS_Bijection DEF ExistsBijection
  <2>5. /\ IsFiniteSet(Below(f, rest))
        /\ Cardinality(Below(f, rest)) = SumTable(f, S)[rest]
    BY <1>2 DEF a
  <2>6. SumTable(f, S)[s] = f[a] + SumTable(f, S)[rest]
    BY <1>2, SumEquation DEF a
  <2> HIDE DEF column, rest
  <2>7. IsFiniteSet(Below(f, s))
        /\ Cardinality(Below(f, s)) = Cardinality(Below(f, rest)) + Cardinality(column)
    <3>1. /\ IsFiniteSet(Below(f, rest) \cup column)
          /\ Cardinality(Below(f, rest) \cup column) =
               Cardinality(Below(f, rest)) + Cardinality(column)
                 - Cardinality(Below(f, rest) \cap column)
      BY <2>4, <2>5, FS_Union
    <3>2. Cardinality(Below(f, rest) \cap column) = 0
      BY <2>3, FS_EmptySet
    <3>3. Cardinality(Below(f, rest)) \in Nat /\ Cardinality(column) \in Nat
      BY <2>4, <2>5, FS_CardinalityType
    <3> QED
      BY <2>2, <3>1, <3>2, <3>3
  <2>8. Cardinality(Below(f, s)) = SumTable(f, S)[s]
    <3>1. Cardinality(Below(f, rest)) \in Nat
      BY <2>5, FS_CardinalityType
    <3> QED
      BY <2>1, <2>4, <2>5, <2>6, <2>7, <3>1
  <2> QED
    BY <2>7, <2>8
<1>3. G = SUBSET S
  <2>1. G \in SUBSET SUBSET S
    OBVIOUS
  <2> HIDE DEF G
  <2> QED
    BY <1>1, <1>2, <2>1, AllSubsets
<1> QED
  BY <1>3

(* What is covered is a bit of a wire, or a state of it; CountedBits leaves out
   the wires of one bit. *)
LEMMA CoverageBound ==
  ASSUME NEW m \in LayoutMethods, NEW ws, AreWires(m, ws),
         NEW B, B \subseteq Reachable(m, ws)
  PROVE  Cardinality(B) <= Environment(m, ws).max +
           (IF m = "directfuzz"
            THEN Cardinality({i \in DOMAIN ws : ws[i].width = 1}) ELSE 0)
<1> DEFINE D == DOMAIN ws
           Shift(p) == <<p[1] + 1, p[2]>>
           A == {Shift(p) : p \in B}
           single == {i \in D : ws[i].width = 1}
<1>1. Len(ws) \in Nat /\ D = 1 .. Len(ws) /\ IsFiniteSet(D)
  BY FS_Interval, LayoutAssumption DEF AreWires
<1>2. \A i \in D : ws[i].width \in Nat /\ Pow2[ws[i].width] \in Nat
  <2>1. \A i \in 1 .. Len(ws) : ws[i].width \in 1 .. MaxBits
    BY WidestFact
  <2>2. \A k \in Nat : Pow2[k] \in Nat
    BY Pow2Steps
  <2> HIDE DEF Pow2, D
  <2>3. \A i \in D : ws[i].width \in Nat
    BY <1>1, <2>1, LayoutAssumption
  <2> QED
    BY <2>2, <2>3
<1> HIDE DEF D
<1>3. ASSUME NEW f \in [D -> Nat],
             \A i \in D : f[i] = Extent(m, ws[i].width)
      PROVE  A \subseteq Below(f, D)
  <2> SUFFICES ASSUME NEW p \in B PROVE Shift(p) \in Below(f, D)
    OBVIOUS
  <2> DEFINE i == p[1] + 1
  <2>1. p[1] \in 0 .. (Len(ws) - 1) /\ p[2] \in Nat /\ p[2] < Extent(m, ws[i].width)
    BY DEF Reachable
  <2>2. i \in D
    BY <1>1, <2>1
  <2> HIDE DEF i
  <2>3. p[2] < f[i]
    BY <1>3, <2>1, <2>2
  <2> QED
    BY <2>1, <2>2, <2>3 DEF Below, i
<1>4. ASSUME IsFiniteSet(A) PROVE IsFiniteSet(B) /\ Cardinality(B) = Cardinality(A)
  <2> DEFINE g == [p \in B |-> Shift(p)]
  <2>1. \A p \in B : p = <<p[1], p[2]>> /\ p[1] \in Int
    BY <1>1 DEF Reachable
  <2>2. \A p, q \in B : Shift(p) = Shift(q) => p = q
    <3> TAKE p, q \in B
    <3> HAVE Shift(p) = Shift(q)
    <3>1. p[1] + 1 = q[1] + 1 /\ p[2] = q[2]
      OBVIOUS
    <3>2. p[1] = q[1]
      BY <2>1, <3>1
    <3> QED
      BY <2>1, <3>1, <3>2
  <2> HIDE DEF Shift
  <2>3. g \in Bijection(B, A)
    <3>1. g \in [B -> A] /\ \A p, q \in B : g[p] = g[q] => p = q
      BY <2>2
    <3>2. \A x \in A : \E p \in B : g[p] = x
      OBVIOUS
    <3> QED
      BY <3>1, <3>2, Fun_IsBij
  <2> HIDE DEF A, g
  <2>4. ExistsBijection(A, B)
    BY <2>3, Fun_ExistsBijSymmetric DEF ExistsBijection
  <2> QED
    BY <1>4, <2>4, FS_Bijection
<1> HIDE DEF A, Shift
<1>5. CASE m = "rfuzz" \/ m = "difuzzrtl"
  <2> DEFINE f == [i \in D |-> Extent(m, ws[i].width)]
  <2>1. f \in [D -> Nat]
    BY <1>2 DEF Extent
  <2>2. \A i \in D : f[i] = Extent(m, ws[i].width)
    OBVIOUS
  <2>3. Environment(m, ws).max = SumTable(f, D)[D]
    <3>1. CASE m = "difuzzrtl"
      <4>1. f = [i \in D |-> Pow2[ws[i].width]]
        BY <3>1 DEF Extent
      <4>2. Environment(m, ws).max = Total(f)
        BY <3>1, <4>1 DEF Environment, DifuzzRTLEnv, D
      <4> HIDE DEF f
      <4> QED
        BY <1>1, <2>1, <4>2, TotalIsNat
    <3>2. CASE m = "rfuzz"
      <4>1. D = {1} /\ f = [i \in {1} |-> ws[1].width]
        <5>1. Len(ws) = 1
          BY <3>2 DEF AreWires
        <5>2. D = {1}
          <6>1. D = 1 .. 1
            BY <1>1, <5>1
          <6> QED
            BY <6>1
        <5>3. Extent(m, ws[1].width) = ws[1].width
          BY <3>2 DEF Extent
        <5> QED
          BY <5>2, <5>3
      <4>2. Environment(m, ws).max = ws[1].width
        BY <3>2 DEF Environment, RFuzzEnv
      <4>3. SumTable(f, D)[D] = ws[1].width
        <5> DEFINE T == SumTable(f, D)
        <5>1. {} \in SUBSET D /\ D \in SUBSET D /\ D # {} /\ D \ {PickOf(D)} = {}
              /\ PickOf(D) = 1 /\ f[1] = ws[1].width /\ ws[1].width \in Nat
          BY <1>2, <4>1 DEF PickOf
        <5> HIDE DEF f
        <5>2. T[{}] = 0
          BY <1>1, <5>1, SumEquation
        <5>3. T[D] = f[PickOf(D)] + T[D \ {PickOf(D)}]
          BY <1>1, <5>1, SumEquation
        <5> HIDE DEF T
        <5> QED
          BY <5>1, <5>2, <5>3 DEF T
      <4> QED
        BY <4>2, <4>3
    <3> QED
      BY <1>5, <3>1, <3>2
  <2> HIDE DEF f
  <2>4. IsFiniteSet(Below(f, D)) /\ Cardinality(Below(f, D)) = SumTable(f, D)[D]
    BY <1>1, <2>1, BelowIsSum
  <2>5. A \subseteq Below(f, D)
    BY <1>3, <2>1, <2>2
  <2>6. IsFiniteSet(A) /\ Cardinality(A) <= Cardinality(Below(f, D))
    BY <2>4, <2>5, FS_Subset
  <2>7. Cardinality(A) \in Nat /\ Cardinality(Below(f, D)) \in Nat
    BY <2>4, <2>6, FS_CardinalityType
  <2> DEFINE max == Environment(m, ws).max
  <2>8. Cardinality(B) <= max /\ max \in Nat
    BY <1>4, <2>3, <2>4, <2>6, <2>7
  <2> HIDE DEF max
  <2>9. Cardinality(B) <= max + 0
    BY <2>8
  <2> QED
    BY <1>5, <2>9 DEF max
<1>6. CASE m = "directfuzz"
  <2> DEFINE f == [i \in D |-> IF ws[i].width = 1 THEN 0 ELSE ws[i].width]
             w == [i \in D |-> ws[i].width]
             one == {<<i, 0>> : i \in single}
  <2>1. f \in [D -> Nat] /\ w \in [D -> Nat]
    BY <1>2
  <2>2. \A i \in D : w[i] = Extent(m, ws[i].width)
    BY <1>6 DEF Extent
  <2>3. A \subseteq Below(w, D)
    <3> HIDE DEF w
    <3> QED
      BY <1>3, <2>1, <2>2
  <2>4. Below(w, D) \subseteq Below(f, D) \cup one
    <3> SUFFICES ASSUME NEW i \in D, NEW k \in Nat, k < ws[i].width
                 PROVE  <<i, k>> \in Below(f, D) \cup one
      BY DEF Below
    <3>1. CASE ws[i].width = 1
      BY <3>1
    <3>2. CASE ws[i].width # 1
      BY <3>2 DEF Below
    <3> QED
      BY <3>1, <3>2
  <2>5. Environment(m, ws).max = SumTable(f, D)[D]
    <3>1. Environment(m, ws).max = Total(f)
      BY <1>6 DEF Environment, DirectFuzzEnv, CountedBits, D
    <3> HIDE DEF f
    <3> QED
      BY <1>1, <2>1, <3>1, TotalIsNat
  <2> HIDE DEF f, w
  <2>6. IsFiniteSet(Below(f, D)) /\ Cardinality(Below(f, D)) = SumTable(f, D)[D]
    BY <1>1, <2>1, BelowIsSum
  <2>7. IsFiniteSet(single)
    BY <1>1, FS_Subset
  <2>8. IsFiniteSet(one) /\ Cardinality(one) = Cardinality(single)
    <3> DEFINE g == [i \in single |-> <<i, 0>>]
    <3>1. g \in Bijection(single, one)
      <4>1. g \in [single -> one] /\ \A i, j \in single : g[i] = g[j] => i = j
        OBVIOUS
      <4>2. \A x \in one : \E i \in single : g[i] = x
        OBVIOUS
      <4> QED
        BY <4>1, <4>2, Fun_IsBij
    <3> HIDE DEF g, one, single
    <3> QED
      BY <2>7, <3>1, FS_Bijection DEF ExistsBijection
  <2> HIDE DEF one, single
  <2>9. /\ IsFiniteSet(Below(f, D) \cup one)
        /\ Cardinality(Below(f, D) \cup one) =
             Cardinality(Below(f, D)) + Cardinality(one) - Cardinality(Below(f, D) \cap one)
    BY <2>6, <2>8, FS_Union
  <2>10. IsFiniteSet(A) /\ Cardinality(A) <= Cardinality(Below(f, D) \cup one)
    BY <2>3, <2>4, <2>9, FS_Subset
  <2>11. /\ Cardinality(A) \in Nat /\ Cardinality(one) \in Nat
         /\ Cardinality(Below(f, D)) \in Nat
         /\ Cardinality(Below(f, D) \cap one) \in Nat
    <3>1. IsFiniteSet(Below(f, D) \cap one)
      BY <2>6, FS_Subset
    <3> QED
      BY <2>6, <2>8, <2>10, <3>1, FS_CardinalityType
  <2> DEFINE max == Environment(m, ws).max
  <2>12. Cardinality(B) <= max + Cardinality(single)
    <3>1. Cardinality(B) = Cardinality(A) /\ max = Cardinality(Below(f, D))
      BY <1>4, <2>5, <2>6, <2>10
    <3> HIDE DEF max
    <3> QED
      BY <2>8, <2>9, <2>10, <2>11, <3>1
  <2> HIDE DEF max
  <2> QED
    BY <1>6, <2>12 DEF max, single, D
<1> QED
  BY <1>5, <1>6 DEF LayoutMethods

(* Numbers in order are the numbers themselves. *)
LEMMA InOrder ==
  ASSUME NEW n \in Nat, NEW s \in [1 .. n -> 1 .. n],
         \A i, j \in 1 .. n : i < j => s[i] < s[j]
  PROVE  \A i \in 1 .. n : s[i] = i
<1> DEFINE Up == {i \in Nat : i \in 1 .. n => s[i] >= i}
           Down == {k \in Nat : k < n => s[n - k] <= n - k}
<1>0. \A i \in 1 .. n : s[i] \in Int /\ s[i] \in 1 .. n
  OBVIOUS
<1>1. Up = Nat
  <2>1. 0 \in Up
    OBVIOUS
  <2>2. ASSUME NEW i \in Up PROVE i + 1 \in Up
    <3>1. i \in Nat
      OBVIOUS
    <3>2. ASSUME i + 1 \in 1 .. n PROVE s[i + 1] >= i + 1
      <4>1. CASE i = 0
        <5>1. s[i + 1] \in 1 .. n
          BY <3>2
        <5> QED
          BY <4>1, <5>1
      <4>2. CASE i # 0
        <5>1. i \in 1 .. n /\ i < i + 1
          BY <3>1, <3>2, <4>2
        <5>2. s[i] >= i /\ s[i] < s[i + 1]
          BY <3>2, <5>1
        <5> QED
          BY <1>0, <3>1, <3>2, <5>1, <5>2
      <4> QED
        BY <4>1, <4>2
    <3> QED
      BY <3>1, <3>2
  <2>3. Up \in SUBSET Nat
    OBVIOUS
  <2> HIDE DEF Up
  <2> QED
    BY <2>1, <2>2, <2>3, AllNumbers
<1>2. Down = Nat
  <2>1. 0 \in Down
    <3> SUFFICES ASSUME 0 < n PROVE s[n - 0] <= n - 0
      OBVIOUS
    <3>1. n - 0 = n /\ n \in 1 .. n
      OBVIOUS
    <3> QED
      BY <1>0, <3>1
  <2>2. ASSUME NEW k \in Down PROVE k + 1 \in Down
    <3>1. k \in Nat
      OBVIOUS
    <3>2. ASSUME k + 1 < n PROVE s[n - (k + 1)] <= n - (k + 1)
      <4> DEFINE i == n - (k + 1)
                 j == n - k
      <4>1. i \in 1 .. n /\ j \in 1 .. n /\ i < j /\ i = j - 1 /\ k < n
        BY <3>1, <3>2
      <4>2. s[j] <= j
        BY <4>1
      <4> HIDE DEF i, j
      <4>3. s[i] < s[j]
        BY <4>1
      <4>4. s[i] <= i
        BY <1>0, <4>1, <4>2, <4>3
      <4> QED
        BY <4>4 DEF i
    <3> QED
      BY <3>1, <3>2
  <2>3. Down \in SUBSET Nat
    OBVIOUS
  <2> HIDE DEF Down
  <2> QED
    BY <2>1, <2>2, <2>3, AllNumbers
<1>3. ASSUME NEW i \in 1 .. n PROVE s[i] = i
  <2>1. i \in Nat /\ n - i \in Nat /\ n - i < n /\ n - (n - i) = i
    OBVIOUS
  <2>2. s[i] >= i
    BY <1>1, <2>1
  <2>3. s[i] <= i
    <3> DEFINE k == n - i
    <3>1. k \in Nat /\ k < n /\ n - k = i
      BY <2>1
    <3> HIDE DEF k
    <3>2. s[n - k] <= n - k
      BY <1>2, <3>1
    <3> QED
      BY <3>1, <3>2
  <2> QED
    BY <1>0, <2>2, <2>3
<1> QED
  BY <1>3

(* The distances are those of the instances in their order. *)
LEMMA DistanceListFact ==
  ASSUME NEW ws \in WiresOf("directfuzz")
  PROVE  \E n \in Nat, p \in Nat :
           /\ p \in 1 .. (n + 1) /\ DOMAIN ws = 1 .. (n + 1)
           /\ \A i \in 1 .. (n + 1) :
                ws[i].inst = IF i < p THEN i ELSE IF i = p THEN Target ELSE i - 1
           /\ DistanceList(ws) = [i \in 1 .. n |-> i]
<1> DEFINE m == "directfuzz"
           W == [inst : 1 .. MaxInstances \cup {Target}, width : 1 .. MaxBits]
<1>1. PICK w \in InstanceWires(m) : ws \in WithTarget(w)
  BY DEF WiresOf
<1>2. w \in Seq(W) /\ Len(w) \in Nat /\ \A i \in 1 .. Len(w) : w[i].inst = i
  <2>1. m \in LayoutMethods
    BY DEF LayoutMethods
  <2> HIDE DEF m
  <2>2. w \in Seq(W) /\ Len(w) \in 1 .. MaxInstances /\ \A i \in 1 .. Len(w) : w[i].inst = i
    BY <2>1, InstanceWiresFact
  <2> QED
    BY <2>2, LayoutAssumption
<1> DEFINE n == Len(w)
<1>3. PICK p \in 1 .. (n + 1), width \in 1 .. MaxBits : ws = InsertAt(w, p, Wire(Target, width))
  BY <1>1 DEF WithTarget
<1> DEFINE e == Wire(Target, width)
<1>4. e \in W /\ e.inst = Target
  BY DEF Wire
<1> HIDE DEF W, e
<1>5. /\ ws \in Seq(W) /\ Len(ws) = n + 1
      /\ \A i \in 1 .. (n + 1) :
           ws[i] = IF i < p THEN w[i] ELSE IF i = p THEN e ELSE w[i - 1]
  <2>1. ws = InsertAt(w, p, e)
    BY <1>3 DEF e
  <2> DEFINE t == InsertAt(w, p, e)
  <2>2. /\ t \in Seq(W) /\ Len(t) = Len(w) + 1
        /\ \A i \in 1 .. (Len(w) + 1) :
             t[i] = IF i < p THEN w[i] ELSE IF i = p THEN e ELSE w[i - 1]
    BY <1>2, <1>3, <1>4, Inserted
  <2>3. ws = t
    BY <2>1
  <2> HIDE DEF t
  <2> QED
    BY <2>2, <2>3, Zenon DEF n
<1> HIDE DEF n
<1>6. n \in Nat /\ p \in Nat /\ DOMAIN ws = 1 .. (n + 1)
  BY <1>2, <1>3, <1>5 DEF n
<1>7. ASSUME NEW i \in 1 .. (n + 1)
      PROVE  ws[i].inst = IF i < p THEN i ELSE IF i = p THEN Target ELSE i - 1
  <2>1. CASE i < p
    <3>1. i \in 1 .. n
      BY <1>3, <1>6, <2>1
    <3> QED
      BY <1>2, <1>5, <2>1, <3>1 DEF n
  <2>2. CASE i = p
    BY <1>4, <1>5, <2>2
  <2>3. CASE i > p
    <3>1. i - 1 \in 1 .. n /\ ~(i < p) /\ i # p
      BY <1>3, <1>6, <2>3
    <3>2. ws[i] = w[i - 1] /\ w[i - 1].inst = i - 1
      BY <1>2, <1>5, <3>1 DEF n
    <3> QED
      BY <3>1, <3>2
  <2> QED
    BY <1>6, <2>1, <2>2, <2>3
<1> DEFINE names == {ws[i].inst : i \in DOMAIN ws} \ {Target}
           list == [i \in 1 .. n |-> i]
<1>8. names = 1 .. n
  <2>1. Target \notin Nat
    BY LayoutAssumption
  <2>2. \A x \in names : x \in 1 .. n
    BY <1>3, <1>6, <1>7
  <2>3. ASSUME NEW x \in 1 .. n PROVE x \in names
    <3>1. x # Target /\ x \in Nat
      BY <1>6, <2>1
    <3>2. CASE x < p
      <4>1. x \in 1 .. (n + 1) /\ ws[x].inst = x
        BY <1>6, <1>7, <3>2
      <4> QED
        BY <1>6, <3>1, <4>1
    <3>3. CASE x >= p
      <4> DEFINE y == x + 1
      <4>1. y \in 1 .. (n + 1) /\ ~(y < p) /\ y # p /\ y - 1 = x
        BY <1>6, <3>3
      <4> HIDE DEF y
      <4>2. ws[y].inst = x
        BY <1>7, <4>1
      <4> QED
        BY <1>6, <3>1, <4>1, <4>2
    <3> QED
      BY <1>6, <3>1, <3>2, <3>3
  <2> QED
    BY <2>2, <2>3
<1>9. Cardinality(1 .. n) = n
  BY <1>6, FS_Interval
<1> DEFINE Ordered(s) == \A i, j \in DOMAIN s : i < j => s[i] < s[j]
<1>10. DistanceList(ws) = CHOOSE s \in [1 .. n -> 1 .. n] : Ordered(s)
  BY <1>8, <1>9 DEF DistanceList
<1>11. list \in [1 .. n -> 1 .. n] /\ Ordered(list)
  OBVIOUS
<1>12. \A s \in [1 .. n -> 1 .. n] : Ordered(s) => s = list
  <2> SUFFICES ASSUME NEW s \in [1 .. n -> 1 .. n], Ordered(s) PROVE s = list
    OBVIOUS
  <2>1. \A i \in 1 .. n : s[i] = i
    <3>1. \A i, j \in 1 .. n : i < j => s[i] < s[j]
      OBVIOUS
    <3> QED
      BY <1>6, <3>1, InOrder
  <2> QED
    BY <2>1
<1> HIDE DEF list, Ordered
<1>13. DistanceList(ws) = list
  BY <1>10, <1>11, <1>12
<1> QED
  BY <1>3, <1>6, <1>7, <1>13 DEF list

(* What the fuzzer divides by and what it weighs with fits the wires, with the
   two exceptions the property states: the bit of a wire of a single bit is not
   counted, and from coverage_target on distances are those of the next row. *)
THEOREM EnvironmentAlwaysFits == Spec => []EnvironmentFitsWires
<1>1. LayoutInv => CoverageWithinMax
  <2> SUFFICES ASSUME LayoutInv, phase # "built" PROVE CoverageWithinMax
    BY DEF CoverageWithinMax
  <2>1. /\ env = Environment(method, wires) /\ bitmap \subseteq Reachable(method, wires)
        /\ method \in LayoutMethods /\ AreWires(method, wires)
    BY PreparedFits DEF LayoutInv, Prepared
  <2> QED
    BY <2>1, CoverageBound DEF CoverageWithinMax
<1>2. LayoutInv => OwnDistanceBeforeTarget
  <2> SUFFICES ASSUME LayoutInv, method = "directfuzz",
                      NEW i \in DOMAIN DistanceList(wires)
               PROVE  LET own == DistanceList(wires)[i] = wires[i].inst
                      IN  IF \E j \in 1 .. i : wires[j].inst = Target
                          THEN ~own /\ DistanceList(wires)[i] = wires[i + 1].inst ELSE own
    BY DEF OwnDistanceBeforeTarget
  <2>1. wires \in WiresOf("directfuzz")
    BY DEF LayoutInv
  <2>2. PICK n \in Nat, p \in Nat :
          /\ p \in 1 .. (n + 1) /\ DOMAIN wires = 1 .. (n + 1)
          /\ \A k \in 1 .. (n + 1) :
               wires[k].inst = IF k < p THEN k ELSE IF k = p THEN Target ELSE k - 1
          /\ DistanceList(wires) = [k \in 1 .. n |-> k]
    BY <2>1, DistanceListFact
  <2>3. i \in 1 .. n /\ DistanceList(wires)[i] = i
    BY <2>2
  <2>4. Target \notin Nat
    BY LayoutAssumption
  <2>5. CASE i < p
    <3>1. \A j \in 1 .. i : wires[j].inst = j
      BY <2>2, <2>3, <2>5
    <3>2. \A j \in 1 .. i : j \in Nat
      OBVIOUS
    <3>3. ~ \E j \in 1 .. i : wires[j].inst = Target
      BY <2>4, <3>1, <3>2
    <3>4. wires[i].inst = i
      BY <2>2, <2>3, <2>5
    <3> QED
      BY <2>3, <3>3, <3>4
  <2>6. CASE i >= p
    <3>1. wires[p].inst = Target /\ p \in 1 .. i
      BY <2>2, <2>3, <2>6
    <3>2. wires[i].inst # i
      BY <2>2, <2>3, <2>4, <2>6
    <3>3. wires[i + 1].inst = i
      <4> DEFINE k == i + 1
      <4>1. k \in 1 .. (n + 1) /\ ~(k < p) /\ k # p /\ k - 1 = i
        BY <2>2, <2>3, <2>6
      <4> HIDE DEF k
      <4>2. wires[k].inst = i
        BY <2>2, <4>1
      <4> QED
        BY <4>2 DEF k
    <3> QED
      BY <2>3, <3>1, <3>2, <3>3
  <2>7. i < p \/ i >= p
    BY <2>2, <2>3
  <2> QED
    BY <2>5, <2>6, <2>7, Zenon
<1>3. LayoutInv => EnvironmentFitsWires
  BY <1>1, <1>2 DEF EnvironmentFitsWires
<1> QED
  BY <1>3, LayoutInvariant, PTL

=============================================================================
