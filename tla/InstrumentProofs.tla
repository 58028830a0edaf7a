-------------------------- MODULE InstrumentProofs --------------------------
(***************************************************************************)
(* Proofs about the instrumentation passes, on any well-formed netlist:    *)
(* the selection by mutual information fills the wire exactly and takes    *)
(* what it does not prune by its distance; the registers the SurgeFuzz     *)
(* pass finds do decide the target, and its search ends, misses none of    *)
(* them and reports the least depth where no wire is read whole and driven *)
(* in pieces; the other passes cover every target once.                    *)
(***************************************************************************)
EXTENDS Instrument, DataLemmas, SequenceTheorems

----------------------------------------------------------------------------
(* Concatenations of many sequences (FlattenSeq): the sequence after each   *)
(* part, and what it holds.                                                *)

IsConcatenation(f, S, seqs, n) ==
  /\ f \in [0 .. n -> Seq(S)]
  /\ f[0] = <<>>
  /\ \A i \in 1 .. n : f[i] = f[i - 1] \o seqs[i]

(* A list of sequences can be joined part by part. *)
LEMMA ConcatenationExists ==
  ASSUME NEW S, NEW seqs \in Seq(Seq(S))
  PROVE  \A n \in 0 .. Len(seqs) : \E f : IsConcatenation(f, S, seqs, n)
<1> DEFINE T == {n \in Nat : n <= Len(seqs) => \E f : IsConcatenation(f, S, seqs, n)}
<1>1. 0 \in T
  <2> DEFINE g == [i \in 0 .. 0 |-> <<>>]
  <2>1. IsConcatenation(g, S, seqs, 0)
    BY EmptySeq DEF IsConcatenation
  <2> QED
    BY <2>1
<1>2. ASSUME NEW n \in T PROVE n + 1 \in T
  <2>1. n \in Nat /\ n + 1 \in Nat
    OBVIOUS
  <2>2. ASSUME n + 1 <= Len(seqs) PROVE \E f : IsConcatenation(f, S, seqs, n + 1)
    <3>1. n <= Len(seqs) /\ Len(seqs) \in Nat /\ seqs[n + 1] \in Seq(S)
      BY <2>1, <2>2, LenProperties, ElementOfSeq
    <3>2. PICK f : IsConcatenation(f, S, seqs, n)
      BY <3>1
    <3> DEFINE g == [i \in 0 .. (n + 1) |-> IF i = n + 1 THEN f[n] \o seqs[n + 1] ELSE f[i]]
    <3>3. f \in [0 .. n -> Seq(S)] /\ f[0] = <<>>
          /\ \A i \in 1 .. n : f[i] = f[i - 1] \o seqs[i]
      BY <3>2 DEF IsConcatenation
    <3>4. f[n] \o seqs[n + 1] \in Seq(S)
      BY <2>1, <3>1, <3>3, ConcatProperties
    <3>5. g \in [0 .. (n + 1) -> Seq(S)] /\ g[0] = <<>>
      BY <2>1, <3>3, <3>4
    <3>6. \A i \in 1 .. (n + 1) : g[i] = g[i - 1] \o seqs[i]
      <4> SUFFICES ASSUME NEW i \in 1 .. (n + 1) PROVE g[i] = g[i - 1] \o seqs[i]
        OBVIOUS
      <4>1. i - 1 \in 0 .. n /\ g[i - 1] = f[i - 1]
        BY <2>1
      <4>2. CASE i = n + 1
        BY <2>1, <4>1, <4>2
      <4>3. CASE i # n + 1
        <5>1. i \in 1 .. n /\ g[i] = f[i]
          BY <2>1, <4>3
        <5> QED
          BY <3>3, <4>1, <5>1
      <4> QED
        BY <4>2, <4>3
    <3> HIDE DEF g
    <3> QED
      BY <3>5, <3>6 DEF IsConcatenation
  <2> QED
    BY <2>1, <2>2
<1>3. T = Nat
  <2>1. T \in SUBSET Nat
    OBVIOUS
  <2> HIDE DEF T
  <2> QED
    BY <1>1, <1>2, <2>1, AllNumbers
<1> QED
  BY <1>3, LenProperties

(* FlattenSeq joins them. *)
LEMMA FlattenJoins ==
  ASSUME NEW S, NEW seqs \in Seq(Seq(S))
  PROVE  \E f : /\ IsConcatenation(f, S, seqs, Len(seqs))
                /\ FlattenSeq(seqs) = f[Len(seqs)]
<1> DEFINE n == Len(seqs)
           IsFlat(h) == h = [i \in 1 .. n |-> IF i = 1 THEN seqs[i] ELSE h[i - 1] \o seqs[i]]
<1>1. n \in Nat /\ DOMAIN seqs = 1 .. n /\ (n = 0 => seqs = <<>>)
  BY LenProperties, EmptySeq
<1>2. PICK f : IsConcatenation(f, S, seqs, n)
  BY <1>1, ConcatenationExists
<1>3. /\ f \in [0 .. n -> Seq(S)] /\ f[0] = <<>>
      /\ \A i \in 1 .. n : f[i] = f[i - 1] \o seqs[i]
      /\ \A i \in 1 .. n : seqs[i] \in Seq(S)
  BY <1>1, <1>2, ElementOfSeq DEF IsConcatenation
<1>4. CASE n = 0
  <2>1. FlattenSeq(seqs) = <<>>
    BY <1>1, <1>4 DEF FlattenSeq
  <2> QED
    BY <1>2, <1>3, <1>4, <2>1
<1>5. ASSUME n # 0 PROVE f[1] = seqs[1]
  <2>1. 1 \in 1 .. n /\ 1 - 1 = 0 /\ seqs[1] \in Seq(S)
    BY <1>1, <1>3, <1>5
  <2>2. f[1] = <<>> \o seqs[1]
    BY <1>3, <2>1
  <2> QED
    BY <2>1, <2>2, ConcatEmptySeq
<1>6. CASE n # 0
  <2> DEFINE g == [i \in 1 .. n |-> f[i]]
  <2>1. IsFlat(g)
    <3>1. \A i \in 1 .. n : f[i] = IF i = 1 THEN seqs[i] ELSE g[i - 1] \o seqs[i]
      <4> SUFFICES ASSUME NEW i \in 1 .. n
                   PROVE  f[i] = IF i = 1 THEN seqs[i] ELSE g[i - 1] \o seqs[i]
        OBVIOUS
      <4>1. CASE i = 1
        BY <1>5, <1>6, <4>1
      <4>2. CASE i # 1
        <5>1. i - 1 \in 1 .. n
          BY <1>1, <4>2
        <5> QED
          BY <1>3, <4>2, <5>1
      <4> QED
        BY <4>1, <4>2
    <3> QED
      BY <3>1
  <2> DEFINE h == CHOOSE h : IsFlat(h)
  <2>2. IsFlat(h)
    <3> HIDE DEF g, IsFlat
    <3> QED
      BY <2>1
  <2>3. FlattenSeq(seqs) = h[n]
    BY <1>1, <1>6 DEF FlattenSeq
  <2> HIDE DEF h
  <2> DEFINE T == {k \in Nat : k + 1 <= n => h[k + 1] = f[k + 1]}
  <2>4. \A i \in 1 .. n : h[i] = IF i = 1 THEN seqs[i] ELSE h[i - 1] \o seqs[i]
    BY <2>2
  <2>5. 0 \in T
    <3>1. 1 \in 1 .. n /\ 0 + 1 = 1
      BY <1>1, <1>6
    <3>2. h[1] = seqs[1]
      BY <2>4, <3>1
    <3> QED
      BY <1>5, <1>6, <3>1, <3>2
  <2>6. ASSUME NEW k \in T PROVE k + 1 \in T
    <3>1. k \in Nat /\ k + 1 \in Nat /\ (k + 1) + 1 # 1 /\ ((k + 1) + 1) - 1 = k + 1
      OBVIOUS
    <3>2. ASSUME (k + 1) + 1 <= n PROVE h[(k + 1) + 1] = f[(k + 1) + 1]
      <4>1. (k + 1) + 1 \in 1 .. n /\ h[k + 1] = f[k + 1]
        BY <1>1, <3>1, <3>2
      <4>2. h[(k + 1) + 1] = h[k + 1] \o seqs[(k + 1) + 1]
        BY <2>4, <3>1, <4>1
      <4>3. f[(k + 1) + 1] = f[k + 1] \o seqs[(k + 1) + 1]
        BY <1>3, <3>1, <4>1
      <4> QED
        BY <4>1, <4>2, <4>3
    <3> QED
      BY <3>1, <3>2
  <2>7. T = Nat
    <3>1. T \in SUBSET Nat
      OBVIOUS
    <3> HIDE DEF T
    <3> QED
      BY <2>5, <2>6, <3>1, AllNumbers
  <2>8. h[n] = f[n]
    <3>1. n - 1 \in Nat /\ (n - 1) + 1 = n
      BY <1>1, <1>6
    <3>2. n - 1 \in T
      BY <2>7, <3>1
    <3> QED
      BY <3>1, <3>2
  <2> QED
    BY <1>2, <2>3, <2>8
<1> QED
  BY <1>4, <1>6

(* A concatenation of sequences over a set is one. *)
LEMMA FlattenIsSeq ==
  ASSUME NEW S, NEW seqs \in Seq(Seq(S))
  PROVE  FlattenSeq(seqs) \in Seq(S)
<1>1. PICK f : /\ IsConcatenation(f, S, seqs, Len(seqs))
               /\ FlattenSeq(seqs) = f[Len(seqs)]
  BY FlattenJoins
<1>2. Len(seqs) \in Nat
  BY LenProperties
<1> QED
  BY <1>1, <1>2 DEF IsConcatenation

----------------------------------------------------------------------------
(* FoldLeft is defined over the sets of indices, the largest taken off     *)
(* first: there is such a table for every operation, and on the first       *)
(* indices it is the result after that many elements.                      *)

(* The index taken off first is one of the set. *)
LEMMA MaxOfIndices ==
  ASSUME NEW n \in Nat
  PROVE  /\ \A s \in SUBSET (1 .. n) : s # {} => Max(s) \in s
         /\ \A k \in 1 .. n : Max(1 .. k) = k
<1>1. ASSUME NEW s \in SUBSET (1 .. n), s # {} PROVE Max(s) \in s
  <2> DEFINE R == 1 .. n
  <2>0. IsFiniteSet(R) /\ R \in SUBSET Nat /\ s \in SUBSET R
    BY <1>1, FS_Interval
  <2> HIDE DEF R
  <2>1. s \in SUBSET Nat /\ IsFiniteSet(s)
    BY <2>0, FS_Subset
  <2>2. \E m \in s : \A k \in s : m >= k
    BY <1>1, <2>1, LargestExists
  <2> QED
    BY <2>2 DEF Max
<1>2. ASSUME NEW k \in 1 .. n PROVE Max(1 .. k) = k
  <2>1. \A x \in 1 .. k : (\A y \in 1 .. k : x >= y) <=> x = k
    OBVIOUS
  <2>2. k \in 1 .. k
    OBVIOUS
  <2> QED
    BY <2>1, <2>2 DEF Max
<1> QED
  BY <1>1, <1>2

IsFoldTable(g, n, V, base, F) ==
  /\ g \in [SUBSET (1 .. n) -> V]
  /\ \A s \in SUBSET (1 .. n) :
       g[s] = IF s = {} THEN base ELSE F[<<g[s \ {Max(s)}], Max(s)>>]

(* An operation on values of a set, given as a function, has a table. *)
LEMMA FoldTable ==
  ASSUME NEW n \in Nat, NEW V, NEW base \in V, NEW F \in [V \X (1 .. n) -> V]
  PROVE  \E g : IsFoldTable(g, n, V, base, F)
<1> DEFINE S == 1 .. n
           Of(k) == SmallSubsets(S, k)
           IsTable(g, k) ==
             /\ g \in [Of(k) -> V]
             /\ \A s \in Of(k) : g[s] = IF s = {} THEN base
                                        ELSE F[<<g[s \ {Max(s)}], Max(s)>>]
           T == {k \in Nat : \E g : IsTable(g, k)}
<1>1. /\ IsFiniteSet(S)
      /\ \A s \in SUBSET S : /\ IsFiniteSet(s) /\ Cardinality(s) \in Nat
                             /\ Cardinality(s) = 0 <=> s = {}
                             /\ s # {} => Max(s) \in s
  <2>1. IsFiniteSet(S)
    BY FS_Interval
  <2>2. \A s \in SUBSET S : s # {} => Max(s) \in s
    BY MaxOfIndices
  <2> HIDE DEF S
  <2>3. \A s \in SUBSET S : IsFiniteSet(s)
    BY <2>1, FS_Subset
  <2> QED
    BY <2>1, <2>2, <2>3, FS_CardinalityType, FS_EmptySet
<1>2. \A s \in SUBSET S : s # {} =>
        /\ s \ {Max(s)} \in SUBSET S
        /\ Cardinality(s \ {Max(s)}) = Cardinality(s) - 1
  <2> SUFFICES ASSUME NEW s \in SUBSET S, s # {}
               PROVE  Cardinality(s \ {Max(s)}) = Cardinality(s) - 1
    OBVIOUS
  <2> DEFINE m == Max(s)
  <2>1. m \in s /\ IsFiniteSet(s)
    BY <1>1
  <2> HIDE DEF m
  <2> QED
    <3>1. Cardinality(s \ {m}) = Cardinality(s) - 1
      BY <2>1, FS_RemoveElement
    <3> QED
      BY <3>1 DEF m
<1> HIDE DEF S
<1>3. 0 \in T
  <2> DEFINE g == [s \in Of(0) |-> base]
  <2>1. \A s \in Of(0) : s = {}
    BY <1>1 DEF SmallSubsets
  <2>2. IsTable(g, 0)
    BY <2>1
  <2> HIDE DEF IsTable, g
  <2> QED
    BY <2>2
<1>4. ASSUME NEW k \in T PROVE k + 1 \in T
  <2>1. k \in Nat /\ k + 1 \in Nat
    OBVIOUS
  <2>2. PICK g : IsTable(g, k)
    OBVIOUS
  <2>3. /\ g \in [Of(k) -> V]
        /\ \A s \in Of(k) : g[s] = IF s = {} THEN base
                                   ELSE F[<<g[s \ {Max(s)}], Max(s)>>]
    BY <2>2
  <2> DEFINE h == [s \in Of(k + 1) |-> IF s = {} THEN base
                                       ELSE F[<<g[s \ {Max(s)}], Max(s)>>]]
  <2>4. \A s \in Of(k + 1) : s # {} => s \ {Max(s)} \in Of(k) /\ Max(s) \in S
    BY <1>1, <1>2, <2>1 DEF SmallSubsets
  <2>5. h \in [Of(k + 1) -> V]
    <3>1. \A v \in V, i \in S : F[<<v, i>>] \in V
      BY DEF S
    <3> QED
      BY <2>3, <2>4, <3>1
  <2>6. \A s \in Of(k) : s \in Of(k + 1) /\ h[s] = g[s]
    <3>1. \A s \in Of(k) : s \in Of(k + 1)
      BY <1>1, <2>1 DEF SmallSubsets
    <3> QED
      BY <2>3, <3>1
  <2>7. \A s \in Of(k + 1) : h[s] = IF s = {} THEN base
                                    ELSE F[<<h[s \ {Max(s)}], Max(s)>>]
    <3> SUFFICES ASSUME NEW s \in Of(k + 1), s # {}
                 PROVE  h[s] = F[<<h[s \ {Max(s)}], Max(s)>>]
      OBVIOUS
    <3>1. h[s \ {Max(s)}] = g[s \ {Max(s)}]
      BY <2>4, <2>6
    <3>2. h[s] = F[<<g[s \ {Max(s)}], Max(s)>>]
      OBVIOUS
    <3> QED
      BY <3>1, <3>2
  <2> HIDE DEF h
  <2>8. IsTable(h, k + 1)
    BY <2>5, <2>7
  <2> HIDE DEF IsTable
  <2> QED
    BY <2>1, <2>8
<1>5. T = Nat
  <2>1. T \in SUBSET Nat
    OBVIOUS
  <2> HIDE DEF T
  <2> QED
    BY <1>3, <1>4, <2>1, AllNumbers
<1>6. Of(Cardinality(S)) = SUBSET S
  BY <1>1, FS_Subset DEF SmallSubsets
<1>7. PICK g : IsTable(g, Cardinality(S))
  BY <1>1, <1>5, FS_CardinalityType
<1>8. IsFoldTable(g, n, V, base, F)
  BY <1>6, <1>7 DEF S, IsFoldTable
<1> QED
  BY <1>8

(* What such a table has for the first indices are values of the set. *)
LEMMA TablePrefixes ==
  ASSUME NEW n \in Nat, NEW V, NEW base \in V, NEW F \in [V \X (1 .. n) -> V],
         NEW h, h[{}] = base,
         \A k \in 1 .. n : h[1 .. (k - 1)] \in V => h[1 .. k] = F[<<h[1 .. (k - 1)], k>>]
  PROVE  \A k \in 0 .. n : h[1 .. k] \in V
<1> DEFINE T == {k \in Nat : k <= n => h[1 .. k] \in V}
<1>1. 0 \in T
  BY SMT
<1>2. ASSUME NEW k \in T PROVE k + 1 \in T
  <2>1. k \in Nat /\ k + 1 \in Nat /\ (k + 1) - 1 = k
    OBVIOUS
  <2>2. ASSUME k + 1 <= n PROVE h[1 .. (k + 1)] \in V
    <3>1. k + 1 \in 1 .. n /\ h[1 .. k] \in V
      BY <2>1, <2>2
    <3>2. h[1 .. (k + 1)] = F[<<h[1 .. k], k + 1>>]
      BY <2>1, <3>1
    <3> QED
      BY <3>1, <3>2
  <2> QED
    BY <2>1, <2>2
<1>3. T = Nat
  <2>1. T \in SUBSET Nat
    OBVIOUS
  <2> HIDE DEF T
  <2> QED
    BY <1>1, <1>2, <2>1, AllNumbers
<1> QED
  BY <1>3

----------------------------------------------------------------------------
(* The coverage wire of SurgeFuzz, part by part.                           *)

PartNames(part) == [i \in 1 .. part.width |-> <<part.sig.wire, part.sig.lo + i - 1>>]

NamesOf(parts) == UNION {ToSet(PartNames(parts[i])) : i \in DOMAIN parts}

WireOf(parts) ==
  FoldLeft(LAMBDA low, part :
             [i \in 1 .. part.width |-> <<part.sig.wire, part.sig.lo + i - 1>>] \o low,
           <<>>, parts)

(* The wire after each part: every part goes below what is there. *)
LEMMA ConcatenationByParts ==
  ASSUME NEW parts, NEW n \in Nat, DOMAIN parts = 1 .. n,
         \A i \in 1 .. n : parts[i].width \in Nat
  PROVE  \E acc \in [0 .. n -> Seq(NamesOf(parts))] :
           /\ acc[0] = <<>>
           /\ \A i \in 1 .. n : acc[i] = PartNames(parts[i]) \o acc[i - 1]
           /\ WireOf(parts) = acc[n]
<1> DEFINE V == Seq(NamesOf(parts))
           F == [x \in V \X (1 .. n) |-> PartNames(parts[x[2]]) \o x[1]]
           IsTable(h) ==
             h = [s \in SUBSET DOMAIN parts |->
                    IF s = {} THEN <<>>
                    ELSE PartNames(parts[Max(s)]) \o h[s \ {Max(s)}]]
           h == CHOOSE h : IsTable(h)
           none == <<>>
<1>1. WireOf(parts) = h[DOMAIN parts]
  BY DEF WireOf, FoldLeft, MapThenFoldSet, PartNames
<1>2. \A i \in 1 .. n : PartNames(parts[i]) \in V
  <2> SUFFICES ASSUME NEW i \in 1 .. n PROVE PartNames(parts[i]) \in V
    OBVIOUS
  <2> DEFINE p == PartNames(parts[i])
             N == NamesOf(parts)
             w == parts[i].width
  <2>1. p = [j \in 1 .. w |-> p[j]] /\ w \in Nat /\ \A j \in 1 .. w : p[j] \in N
    <3>1. w \in Nat /\ DOMAIN p = 1 .. w /\ p = [j \in 1 .. w |-> p[j]]
      BY DEF PartNames
    <3>2. ToSet(p) \subseteq N
      BY DEF NamesOf
    <3>3. \A j \in 1 .. w : p[j] \in ToSet(p)
      BY <3>1 DEF ToSet
    <3> QED
      BY <3>1, <3>2, <3>3
  <2> HIDE DEF p, N, w
  <2>2. p \in Seq(N)
    BY <2>1
  <2> QED
    BY <2>2 DEF p, N
<1>3. F \in [V \X (1 .. n) -> V]
  <2>1. \A v \in V, i \in 1 .. n : PartNames(parts[i]) \o v \in V
    BY <1>2, ConcatProperties
  <2> HIDE DEF V
  <2> QED
    BY <2>1
<1>4. none \in V
  BY EmptySeq
<1>5. IsTable(h)
  <2>1. PICK g : IsFoldTable(g, n, V, none, F)
    <3> HIDE DEF V, F, none
    <3> QED
      BY <1>3, <1>4, FoldTable
  <2> USE <2>1 DEF IsFoldTable
  <2>2. \A s \in SUBSET (1 .. n) : s # {} =>
          F[<<g[s \ {Max(s)}], Max(s)>>] = PartNames(parts[Max(s)]) \o g[s \ {Max(s)}]
    <3>1. \A s \in SUBSET (1 .. n) : s # {} =>
            Max(s) \in 1 .. n /\ g[s \ {Max(s)}] \in V
      BY MaxOfIndices
    <3> HIDE DEF V
    <3> QED
      BY <3>1
  <2>3. g = [s \in SUBSET (1 .. n) |->
               IF s = {} THEN <<>>
               ELSE PartNames(parts[Max(s)]) \o g[s \ {Max(s)}]]
    <3> HIDE DEF F, V
    <3>1. \A s \in SUBSET (1 .. n) :
            (IF s = {} THEN <<>> ELSE F[<<g[s \ {Max(s)}], Max(s)>>]) =
            (IF s = {} THEN <<>> ELSE PartNames(parts[Max(s)]) \o g[s \ {Max(s)}])
      BY <2>2
    <3> QED
      BY <2>1, <3>1
  <2>4. IsTable(g)
    BY <2>3
  <2> HIDE DEF IsTable
  <2> QED
    BY <2>4
<1> HIDE DEF h
<1>6. h[{}] = <<>>
  BY <1>5
<1>7. \A k \in 1 .. n : h[1 .. k] = PartNames(parts[k]) \o h[1 .. (k - 1)]
  <2> SUFFICES ASSUME NEW k \in 1 .. n
               PROVE  h[1 .. k] = PartNames(parts[k]) \o h[1 .. (k - 1)]
    OBVIOUS
  <2>1. /\ 1 .. k \in SUBSET (1 .. n) /\ 1 .. k # {}
        /\ Max(1 .. k) = k /\ (1 .. k) \ {k} = 1 .. (k - 1)
    <3>1. 1 .. k \in SUBSET (1 .. n) /\ k \in 1 .. k /\ (1 .. k) \ {k} = 1 .. (k - 1)
      OBVIOUS
    <3>2. Max(1 .. k) = k
      BY MaxOfIndices
    <3> QED
      BY <3>1, <3>2
  <2>2. \A s \in SUBSET (1 .. n) :
          s # {} => h[s] = PartNames(parts[Max(s)]) \o h[s \ {Max(s)}]
    BY <1>5
  <2> QED
    BY <2>1, <2>2
<1>8. \A k \in 0 .. n : h[1 .. k] \in V
  <2>1. \A k \in 1 .. n :
          h[1 .. (k - 1)] \in V => h[1 .. k] = F[<<h[1 .. (k - 1)], k>>]
    BY <1>7
  <2>2. h[{}] = none
    BY <1>6
  <2> HIDE DEF V, F, none
  <2> QED
    BY <1>3, <1>4, <2>1, <2>2, TablePrefixes
<1> DEFINE acc == [k \in 0 .. n |-> h[1 .. k]]
<1>9. acc \in [0 .. n -> V] /\ acc[0] = <<>> /\ WireOf(parts) = acc[n]
  <2>1. 1 .. 0 = {}
    OBVIOUS
  <2> QED
    BY <1>1, <1>6, <1>8, <2>1
<1>10. \A i \in 1 .. n : acc[i] = PartNames(parts[i]) \o acc[i - 1]
  BY <1>7
<1> HIDE DEF acc
<1> QED
  BY <1>9, <1>10

----------------------------------------------------------------------------
(* The search of the SurgeFuzz pass: what a traced slice decides.          *)

(* The cone of each depth is what decides the one before. *)
LEMMA ConeEquation ==
  /\ Cones[0] = Bits(netlist.target)
  /\ \A k \in 1 .. MaxDepth : Cones[k] = UNION {FanIn(b) : b \in Cones[k - 1]}
<1> DEFINE IsCone(f, n) ==
             f = [k \in 0 .. n |-> IF k = 0 THEN Bits(netlist.target)
                                   ELSE UNION {FanIn(b) : b \in f[k - 1]}]
           T == {n \in Nat : \E f : IsCone(f, n)}
<1>1. 0 \in T
  <2> DEFINE g == [k \in 0 .. 0 |-> Bits(netlist.target)]
  <2>1. IsCone(g, 0)
    OBVIOUS
  <2> HIDE DEF IsCone, g
  <2> QED
    BY <2>1
<1>2. ASSUME NEW n \in T PROVE n + 1 \in T
  <2>1. n \in Nat /\ n + 1 \in Nat
    OBVIOUS
  <2>2. PICK f : IsCone(f, n)
    OBVIOUS
  <2>3. \A k \in 0 .. n : f[k] = IF k = 0 THEN Bits(netlist.target)
                                 ELSE UNION {FanIn(b) : b \in f[k - 1]}
    BY <2>2
  <2> DEFINE g == [k \in 0 .. (n + 1) |-> IF k = 0 THEN Bits(netlist.target)
                                          ELSE UNION {FanIn(b) : b \in f[k - 1]}]
  <2>4. \A k \in 0 .. n : g[k] = f[k]
    <3> SUFFICES ASSUME NEW k \in 0 .. n PROVE g[k] = f[k]
      OBVIOUS
    <3> DEFINE U == UNION {FanIn(b) : b \in f[k - 1]}
    <3>1. k \in 0 .. (n + 1)
      BY <2>1
    <3>2. g[k] = IF k = 0 THEN Bits(netlist.target) ELSE U
      BY <3>1
    <3>3. f[k] = IF k = 0 THEN Bits(netlist.target) ELSE U
      BY <2>3
    <3> HIDE DEF U, g
    <3> QED
      BY <3>2, <3>3
  <2>5. \A k \in 0 .. (n + 1) : k # 0 => g[k - 1] = f[k - 1]
    <3>1. \A k \in 0 .. (n + 1) : k # 0 => k - 1 \in 0 .. n
      BY <2>1
    <3> HIDE DEF g
    <3> QED
      BY <2>4, <3>1
  <2>6. IsCone(g, n + 1)
    <3>1. \A k \in 0 .. (n + 1) :
            (IF k = 0 THEN Bits(netlist.target) ELSE UNION {FanIn(b) : b \in f[k - 1]}) =
            (IF k = 0 THEN Bits(netlist.target) ELSE UNION {FanIn(b) : b \in g[k - 1]})
      <4> HIDE DEF g
      <4> QED
        BY <2>5
    <3> QED
      BY <3>1
  <2> HIDE DEF IsCone, g
  <2> QED
    BY <2>1, <2>6
<1>3. T = Nat
  <2>1. T \in SUBSET Nat
    OBVIOUS
  <2> HIDE DEF T
  <2> QED
    BY <1>1, <1>2, <2>1, AllNumbers
<1>4. \E f : IsCone(f, MaxDepth)
  BY <1>3, SearchAssumption
<1> DEFINE h == CHOOSE h : IsCone(h, MaxDepth)
<1>5. Cones = h
  BY DEF Cones
<1>6. IsCone(h, MaxDepth)
  <2> HIDE DEF IsCone
  <2> QED
    BY <1>4
<1> HIDE DEF h
<1>7. 0 \in 0 .. MaxDepth /\ \A k \in 1 .. MaxDepth : k \in 0 .. MaxDepth /\ k # 0
  BY SearchAssumption
<1> QED
  BY <1>5, <1>6, <1>7

(* What a well-formed netlist says of one cell and of one port. *)
LEMMA CellFacts ==
  ASSUME WellFormed(netlist), NEW i \in DOMAIN netlist.cells
  PROVE  /\ netlist.cells[i].type \in {"dff", "mux", "memrd", "alu", "cmp"}
         /\ netlist.cells[i].out \in Chunks(netlist)
         /\ netlist.cells[i].ports \in Seq([name : STRING, sig : Seq(Chunks(netlist))])
         /\ \A p \in DOMAIN netlist.cells[i].ports :
              /\ netlist.cells[i].ports[p].sig \in Seq(Chunks(netlist))
              /\ \A k \in DOMAIN netlist.cells[i].ports[p].sig :
                   netlist.cells[i].ports[p].sig[k] \in Chunks(netlist)
<1> DEFINE P == [name : STRING, sig : Seq(Chunks(netlist))]
           C == [type : {"dff", "mux", "memrd", "alu", "cmp"},
                 out : Chunks(netlist), ports : Seq(P)]
           cell == netlist.cells[i]
<1>1. netlist.cells \in Seq(C)
  BY DEF WellFormed
<1>2. cell \in C
  <2> HIDE DEF C
  <2> QED
    BY <1>1, ElementOfSeq, LenProperties
<1> HIDE DEF cell
<1>3. cell.ports \in Seq(P) /\ cell.out \in Chunks(netlist)
      /\ cell.type \in {"dff", "mux", "memrd", "alu", "cmp"}
  BY <1>2
<1>4. ASSUME NEW p \in DOMAIN cell.ports
      PROVE  /\ cell.ports[p].sig \in Seq(Chunks(netlist))
             /\ \A k \in DOMAIN cell.ports[p].sig : cell.ports[p].sig[k] \in Chunks(netlist)
  <2>1. cell.ports[p] \in P
    <3> HIDE DEF P
    <3> QED
      BY <1>3, ElementOfSeq, LenProperties
  <2>2. cell.ports[p].sig \in Seq(Chunks(netlist))
    BY <2>1
  <2> QED
    BY <2>2, ElementOfSeq, LenProperties
<1> QED
  BY <1>3, <1>4 DEF cell

(* A slice within the output of a cell starts behind the output and ends
   before it. *)
LEMMA SliceOfOutput ==
  ASSUME NEW nl, NEW ch \in Chunks(nl), NEW out \in Chunks(nl), Bits(ch) \subseteq Bits(out)
  PROVE  /\ ch.wire = out.wire
         /\ ch.lo \in Nat /\ out.lo \in Nat /\ ch.n \in Nat \ {0} /\ out.n \in Nat \ {0}
         /\ out.lo <= ch.lo /\ ch.lo + ch.n <= out.lo + out.n
<1>1. /\ ch.lo \in Nat /\ out.lo \in Nat /\ ch.n \in Nat \ {0} /\ out.n \in Nat \ {0}
  BY DEF Chunks
<1>2. /\ <<ch.wire, ch.lo>> \in Bits(ch)
      /\ <<ch.wire, ch.lo + ch.n - 1>> \in Bits(ch)
  BY <1>1 DEF Bits
<1>3. \A w, b : <<w, b>> \in Bits(out) => w = out.wire /\ b \in out.lo .. (out.lo + out.n - 1)
  BY DEF Bits
<1>4. /\ ch.wire = out.wire
      /\ ch.lo \in out.lo .. (out.lo + out.n - 1)
      /\ ch.lo + ch.n - 1 \in out.lo .. (out.lo + out.n - 1)
  BY <1>2, <1>3
<1> QED
  BY <1>1, <1>4

(* A single part is its own concatenation. *)
LEMMA FlattenOne ==
  ASSUME NEW S, NEW seqs \in Seq(Seq(S)), Len(seqs) = 1
  PROVE  FlattenSeq(seqs) = seqs[1]
<1>1. PICK f : /\ IsConcatenation(f, S, seqs, Len(seqs))
               /\ FlattenSeq(seqs) = f[Len(seqs)]
  BY FlattenJoins
<1>2. 1 \in 1 .. Len(seqs) /\ 1 - 1 = 0 /\ seqs[1] \in Seq(S)
  BY ElementOfSeq
<1>3. FlattenSeq(seqs) = <<>> \o seqs[1]
  BY <1>1, <1>2 DEF IsConcatenation
<1> QED
  BY <1>2, <1>3, ConcatEmptySeq

(* The bits of a signal of one slice are those of the slice, in order. *)
LEMMA BitsOfOneChunk ==
  ASSUME NEW nl, NEW sig \in Seq(Chunks(nl)), Len(sig) = 1
  PROVE  /\ sig[1] \in Chunks(nl)
         /\ FlattenSeq([k \in DOMAIN sig |->
                [i \in 1 .. sig[k].n |-> <<sig[k].wire, sig[k].lo + i - 1>>]]) =
              [i \in 1 .. sig[1].n |-> <<sig[1].wire, sig[1].lo + i - 1>>]
<1> DEFINE row(c) == [i \in 1 .. c.n |-> <<c.wire, c.lo + i - 1>>]
           seqs == [k \in DOMAIN sig |-> row(sig[k])]
           S == {c.wire : c \in Chunks(nl)} \X Int
<1>1. DOMAIN sig = 1 .. 1 /\ sig[1] \in Chunks(nl)
  BY LenProperties, ElementOfSeq
<1>2. \A c \in Chunks(nl) : row(c) \in Seq(S)
  <2> SUFFICES ASSUME NEW c \in Chunks(nl) PROVE row(c) \in Seq(S)
    OBVIOUS
  <2> DEFINE s == row(c)
             w == c.n
  <2>1. w \in Nat /\ s = [i \in 1 .. w |-> s[i]] /\ \A i \in 1 .. w : s[i] \in S
    BY DEF Chunks
  <2> HIDE DEF s, S, w
  <2>2. s \in Seq(S)
    BY <2>1
  <2> QED
    BY <2>2 DEF s
<1> HIDE DEF row, S
<1>3. seqs = [k \in 1 .. 1 |-> row(sig[1])]
  <2>1. \A k \in 1 .. 1 : k = 1
    OBVIOUS
  <2> QED
    BY <1>1, <2>1
<1>4. seqs \in Seq(Seq(S)) /\ Len(seqs) = 1 /\ seqs[1] = row(sig[1])
  BY <1>1, <1>2, <1>3
<1>5. FlattenSeq(seqs) = row(sig[1])
  <2> HIDE DEF seqs
  <2> QED
    BY <1>4, FlattenOne
<1> QED
  BY <1>1, <1>5 DEF row

(* What a port of a cell contributes to an output bit. *)
LEMMA SourceOfPort ==
  ASSUME NEW nl, NEW cell, NEW p \in DOMAIN cell.ports, NEW offset \in Nat,
         cell.ports[p].sig \in Seq(Chunks(nl))
  PROVE  LET sig == cell.ports[p].sig
             level == DataflowLevel(cell, cell.ports[p].name)
         IN  /\ level = "ALL" => SigBits(sig) \subseteq SourceBits(cell, offset)
             /\ level = "BIT" /\ Len(sig) = 1 /\ offset < sig[1].n =>
                  <<sig[1].wire, sig[1].lo + offset>> \in SourceBits(cell, offset)
<1> DEFINE port == cell.ports[p]
           sig == port.sig
           level == DataflowLevel(cell, port.name)
           bitsOf(s) == FlattenSeq([k \in DOMAIN s |->
                          [i \in 1 .. s[k].n |-> <<s[k].wire, s[k].lo + i - 1>>]])
           source(q) ==
             CASE DataflowLevel(cell, q.name) = "ALL"  -> SigBits(q.sig)
               [] DataflowLevel(cell, q.name) = "NONE" -> {}
               [] DataflowLevel(cell, q.name) = "BIT"  ->
                    {bitsOf(q.sig)[i] : i \in {offset + 1} \cap DOMAIN bitsOf(q.sig)}
<1>1. source(port) \subseteq SourceBits(cell, offset)
  <2>1. SourceBits(cell, offset) = UNION {source(cell.ports[q]) : q \in DOMAIN cell.ports}
    BY DEF SourceBits
  <2> HIDE DEF source
  <2> QED
    BY <2>1
<1>2. level = "ALL" => source(port) = SigBits(sig)
  OBVIOUS
<1>3. ASSUME level = "BIT", Len(sig) = 1, offset < sig[1].n
      PROVE  <<sig[1].wire, sig[1].lo + offset>> \in source(port)
  <2> DEFINE b == bitsOf(sig)
             ch == sig[1]
  <2>1. ch \in Chunks(nl) /\ b = [i \in 1 .. ch.n |-> <<ch.wire, ch.lo + i - 1>>]
    BY <1>3, BitsOfOneChunk
  <2>2. source(port) = {b[i] : i \in {offset + 1} \cap DOMAIN b}
    BY <1>3
  <2>5. offset < ch.n
    BY <1>3
  <2> HIDE DEF b, ch, source
  <2>3. ch.n \in Nat /\ ch.lo \in Nat
    BY <2>1 DEF Chunks
  <2>4. offset + 1 \in DOMAIN b /\ b[offset + 1] = <<ch.wire, ch.lo + offset>>
    BY <2>1, <2>3, <2>5
  <2> QED
    BY <2>2, <2>4 DEF ch
<1> HIDE DEF source
<1> QED
  BY <1>1, <1>2, <1>3

(* How the flow is reversed through a cell that is not a memory. *)
LEMMA LevelOfCell ==
  ASSUME NEW cell, NEW port, cell.type \in {"dff", "mux", "alu", "cmp"}
  PROVE  DataflowLevel(cell, port) \in {"ALL", "BIT", "NONE"}
<1>1. CASE cell.type = "dff"
  BY <1>1 DEF DataflowLevel
<1>2. CASE cell.type = "mux"
  BY <1>2 DEF DataflowLevel
<1>3. CASE cell.type = "alu"
  BY <1>3 DEF DataflowLevel
<1>4. CASE cell.type = "cmp"
  BY <1>4 DEF DataflowLevel
<1> QED
  BY <1>1, <1>2, <1>3, <1>4

(* The cells a slice is traced through drive all of it and are no memories. *)
LEMMA DriverFacts ==
  ASSUME WellFormed(netlist), NEW ch, NEW i \in Drivers(ch)
  PROVE  /\ i \in DOMAIN netlist.cells
         /\ netlist.cells[i].type \in {"dff", "mux", "alu", "cmp"}
         /\ Bits(ch) \subseteq Bits(netlist.cells[i].out)
         /\ \A b \in Bits(ch) :
              SourceBits(netlist.cells[i], b[2] - netlist.cells[i].out.lo) \subseteq FanIn(b)
<1>1. /\ i \in DOMAIN netlist.cells
      /\ Bits(ch) \subseteq Bits(netlist.cells[i].out)
      /\ IsMem(netlist.cells[i]) => i < i
  BY DEF Drivers, Connected
<1>2. i \in Nat
  BY <1>1, LenProperties DEF WellFormed
<1>3. ~IsMem(netlist.cells[i])
  BY <1>1, <1>2
<1>4. netlist.cells[i].type \in {"dff", "mux", "alu", "cmp"}
  BY <1>1, <1>3, CellFacts DEF IsMem
<1>5. \A b \in Bits(ch) :
        SourceBits(netlist.cells[i], b[2] - netlist.cells[i].out.lo) \subseteq FanIn(b)
  BY <1>1, <1>3 DEF FanIn
<1> QED
  BY <1>1, <1>4, <1>5

(* The bits of a slice are counted from its lowest. *)
LEMMA BitOfSlice ==
  ASSUME NEW nl, NEW ch \in Chunks(nl), NEW x \in Bits(ch)
  PROVE  \E j \in 0 .. (ch.n - 1) : x = <<ch.wire, ch.lo + j>>
<1> DEFINE lo == ch.lo
           n == ch.n
<1>1. lo \in Nat /\ n \in Nat
  BY DEF Chunks
<1>2. x \in {<<ch.wire, y>> : y \in lo .. (lo + n - 1)}
  BY DEF Bits
<1> HIDE DEF lo, n
<1>3. PICK y \in lo .. (lo + n - 1) : x = <<ch.wire, y>>
  BY <1>2
<1>4. y - lo \in 0 .. (n - 1) /\ y = lo + (y - lo)
  BY <1>1, <1>3
<1> QED
  BY <1>3, <1>4 DEF lo, n

(* The part of an input that is traced for a slice of the output: a chunk,
   and, without concatenated operands, of bits that decide the slice. *)
LEMMA TracedDecides ==
  ASSUME WellFormed(netlist), NEW ch \in Chunks(netlist), NEW i \in Drivers(ch),
         NEW p \in DOMAIN netlist.cells[i].ports,
         NEW k \in DOMAIN netlist.cells[i].ports[p].sig,
         NEW next,
         next = Traced(ch, netlist.cells[i], netlist.cells[i].ports[p].name,
                       netlist.cells[i].ports[p].sig[k]),
         ~IsConst(next)
  PROVE  /\ next \in Chunks(netlist)
         /\ Aligned(netlist) => Bits(next) \subseteq UNION {FanIn(b) : b \in Bits(ch)}
<1> DEFINE cell == netlist.cells[i]
           out == cell.out
           port == cell.ports[p]
           sig == port.sig
           in == sig[k]
           level == DataflowLevel(cell, port.name)
           offset == ch.lo - out.lo
<1>0. p \in DOMAIN cell.ports /\ k \in DOMAIN sig
  OBVIOUS
<1>1. /\ i \in DOMAIN netlist.cells /\ Bits(ch) \subseteq Bits(out)
      /\ cell.type \in {"dff", "mux", "alu", "cmp"}
      /\ \A b \in Bits(ch) : SourceBits(cell, b[2] - out.lo) \subseteq FanIn(b)
  BY DriverFacts
<1>2. out \in Chunks(netlist) /\ sig \in Seq(Chunks(netlist)) /\ in \in Chunks(netlist)
  BY <1>1, CellFacts
<1>3. level \in {"ALL", "BIT", "NONE"}
  <2> HIDE DEF cell
  <2> QED
    BY <1>1, LevelOfCell
<1>4. /\ ch.wire = out.wire
      /\ ch.lo \in Nat /\ out.lo \in Nat /\ ch.n \in Nat \ {0} /\ out.n \in Nat \ {0}
      /\ out.lo <= ch.lo /\ ch.lo + ch.n <= out.lo + out.n
  <2> HIDE DEF out
  <2> QED
    BY <1>1, <1>2, SliceOfOutput
<1>5. /\ in.lo \in Nat /\ in.n \in Nat \ {0}
      /\ in.wire \in DOMAIN netlist.path \cup {"const"}
  <2> HIDE DEF in
  <2> QED
    BY <1>2 DEF Chunks
<1>6. IsConst(Const(0))
  BY DEF IsConst, Const, Chunk
<1>7. next = IF IsConst(in) \/ level = "NONE" THEN Const(0)
             ELSE IF level = "ALL" THEN in ELSE TracedBits(ch, out, in)
  BY DEF Traced
<1>8. \A b \in Bits(ch) : b[2] - out.lo \in Nat /\ SourceBits(cell, b[2] - out.lo) \subseteq FanIn(b)
  <2> SUFFICES ASSUME NEW b \in Bits(ch) PROVE b[2] - out.lo \in Nat
    BY <1>1
  <2>1. b[2] \in ch.lo .. (ch.lo + ch.n - 1)
    BY DEF Bits
  <2> HIDE DEF out
  <2> QED
    BY <1>4, <2>1
<1>9. ASSUME level = "ALL"
      PROVE  /\ next \in Chunks(netlist)
             /\ Bits(next) \subseteq UNION {FanIn(b) : b \in Bits(ch)}
  <2>1. next = in
    BY <1>6, <1>7, <1>9
  <2>2. <<ch.wire, ch.lo>> \in Bits(ch)
    <3> HIDE DEF out
    <3> QED
      BY <1>4 DEF Bits
  <2> DEFINE b == <<ch.wire, ch.lo>>
             d == b[2] - out.lo
  <2>3. d \in Nat /\ SourceBits(cell, d) \subseteq FanIn(b)
    BY <1>8, <2>2
  <2>4. SigBits(sig) \subseteq SourceBits(cell, d)
    <3> HIDE DEF d, cell
    <3> QED
      BY <1>0, <1>2, <1>9, <2>3, SourceOfPort
  <2>5. Bits(in) \subseteq SigBits(sig)
    BY DEF SigBits
  <2> HIDE DEF d, in, sig, b
  <2> QED
    BY <1>2, <2>1, <2>2, <2>3, <2>4, <2>5 DEF b
<1>10. ASSUME level = "BIT"
       PROVE  /\ next \in Chunks(netlist)
              /\ Aligned(netlist) => Bits(next) \subseteq UNION {FanIn(b) : b \in Bits(ch)}
  <2> DEFINE rest == in.n - offset
             width == IF ch.n < rest THEN ch.n ELSE rest
  <2>1. next = TracedBits(ch, out, in)
    BY <1>6, <1>7, <1>10
  <2>2. ~(in.n <= offset) /\ next = Chunk(in.wire, in.lo + offset, width)
    BY <1>6, <2>1 DEF TracedBits
  <2>3. /\ offset \in Nat /\ width \in Nat \ {0}
        /\ width <= ch.n /\ offset + width <= in.n
    <3> HIDE DEF in, out
    <3> QED
      BY <1>4, <1>5, <2>2
  <2>4. next \in Chunks(netlist)
    <3> HIDE DEF in, offset, width
    <3> QED
      BY <1>5, <2>2, <2>3 DEF Chunks, Chunk
  <2>5. ASSUME Aligned(netlist), NEW x \in Bits(next)
        PROVE  \E b \in Bits(ch) : x \in FanIn(b)
    <3>1. Len(sig) = 1
      BY <1>1, <1>10, <2>5 DEF Aligned, IsMem
    <3>2. k = 1
      <4> HIDE DEF sig
      <4> QED
        BY <1>2, <3>1, LenProperties DEF sig
    <3>3. PICK j \in 0 .. (width - 1) : x = <<in.wire, in.lo + offset + j>>
      <4>1. PICK j \in 0 .. (next.n - 1) : x = <<next.wire, next.lo + j>>
        BY <2>4, <2>5, BitOfSlice
      <4>2. next.wire = in.wire /\ next.lo = in.lo + offset /\ next.n = width
        <5> HIDE DEF in, offset, width
        <5> QED
          BY <2>2 DEF Chunk
      <4> HIDE DEF in, offset, width
      <4> QED
        BY <4>1, <4>2
    <3> DEFINE b == <<ch.wire, ch.lo + j>>
               d == b[2] - out.lo
    <3>4. b \in Bits(ch)
      <4>1. width \in Nat /\ width <= ch.n /\ ch.lo \in Nat /\ ch.n \in Nat
        BY <1>4, <2>3
      <4> HIDE DEF width
      <4>2. ch.lo + j \in ch.lo .. (ch.lo + ch.n - 1)
        BY <4>1
      <4> QED
        BY <4>2 DEF Bits
    <3>5. d = offset + j /\ d \in Nat /\ d < in.n /\ in.lo + d = in.lo + offset + j
      <4> HIDE DEF in, width
      <4>1. out.lo \in Nat /\ ch.lo \in Nat
        BY <1>4
      <4> HIDE DEF out
      <4> QED
        BY <1>5, <2>3, <4>1
    <3>6. SourceBits(cell, d) \subseteq FanIn(b)
      BY <1>8, <3>4
    <3>7. <<in.wire, in.lo + d>> \in SourceBits(cell, d)
      <4>1. sig[1] = in
        BY <3>2
      <4>2. <<sig[1].wire, sig[1].lo + d>> \in SourceBits(cell, d)
        <5>1. d < sig[1].n
          BY <3>5, <4>1
        <5> HIDE DEF d, cell
        <5> QED
          BY <1>0, <1>2, <1>10, <3>1, <3>5, <5>1, SourceOfPort
      <4> QED
        BY <4>1, <4>2
    <3> QED
      BY <3>3, <3>4, <3>5, <3>6, <3>7
  <2> QED
    BY <2>4, <2>5
<1> QED
  BY <1>3, <1>6, <1>7, <1>9, <1>10

----------------------------------------------------------------------------
(* The search of the SurgeFuzz pass, step by step.                         *)

(* What a state of the search says: a slice of a wire of the netlist, within
   the limit, every bit of which decides the target. *)
Sound ==
  {s \in [sig : Chunks(netlist), depth : 0 .. MaxDepth, reg_depth : Nat, is_ctrl : BOOLEAN] :
     Aligned(netlist) => Bits(s.sig) \subseteq Cones[s.depth]}

SearchInv ==
  /\ queue \in Seq(Sound)
  /\ visited \subseteq Chunks(netlist)
  /\ dependents \in Seq(Sound)

(* The input chunks of the cells that drive a slice. *)
DrivingChunks(ch) ==
  {v \in Nat \X Nat \X Nat :
     /\ v[1] \in Drivers(ch)
     /\ v[2] \in DOMAIN netlist.cells[v[1]].ports
     /\ v[3] \in DOMAIN netlist.cells[v[1]].ports[v[2]].sig}

(* The three loops visit nothing else. *)
LEMMA VisitsAreDriving ==
  ASSUME WellFormed(netlist), NEW ch
  PROVE  Visits(ch) \in Seq(DrivingChunks(ch))
<1> DEFINE D == DrivingChunks(ch)
           chunksOf(i, p) ==
             [k \in DOMAIN netlist.cells[i].ports[p].sig |-> <<i, p, k>>]
           portsOf(i) ==
             FlattenSeq([p \in DOMAIN netlist.cells[i].ports |-> chunksOf(i, p)])
           parts == [i \in DOMAIN netlist.cells |->
                       IF i \in Drivers(ch) THEN portsOf(i) ELSE <<>>]
<1>1. PICK n \in Nat : DOMAIN netlist.cells = 1 .. n
  <2>1. Len(netlist.cells) \in Nat /\ DOMAIN netlist.cells = 1 .. Len(netlist.cells)
    BY LenProperties DEF WellFormed
  <2> QED
    BY <2>1
<1>2. ASSUME NEW i \in Drivers(ch), NEW p \in DOMAIN netlist.cells[i].ports
      PROVE  p \in Nat /\ chunksOf(i, p) \in Seq(D)
  <2> DEFINE sig == netlist.cells[i].ports[p].sig
             w == Len(sig)
             s == chunksOf(i, p)
  <2>1. i \in DOMAIN netlist.cells /\ i \in Nat
    BY <1>1, DriverFacts
  <2>2. p \in Nat /\ sig \in Seq(Chunks(netlist))
    BY <2>1, CellFacts, LenProperties
  <2>3. w \in Nat /\ DOMAIN sig = 1 .. w
    <3> HIDE DEF sig
    <3> QED
      BY <2>2, LenProperties
  <2>4. \A k \in 1 .. w : <<i, p, k>> \in D
    <3> SUFFICES ASSUME NEW k \in 1 .. w PROVE <<i, p, k>> \in D
      OBVIOUS
    <3>1. k \in Nat /\ k \in DOMAIN sig
      BY <2>3
    <3> QED
      BY <1>2, <2>1, <2>2, <3>1 DEF DrivingChunks
  <2>5. s = [k \in 1 .. w |-> <<i, p, k>>]
    BY <2>3
  <2> HIDE DEF w, s, D
  <2>6. s \in Seq(D)
    BY <2>3, <2>4, <2>5
  <2> QED
    BY <2>2, <2>6 DEF s
<1>3. ASSUME NEW i \in Drivers(ch) PROVE portsOf(i) \in Seq(D)
  <2> DEFINE ports == netlist.cells[i].ports
             w == Len(ports)
             s == [p \in DOMAIN ports |-> chunksOf(i, p)]
  <2>1. w \in Nat /\ DOMAIN ports = 1 .. w
    <3>1. ports \in Seq([name : STRING, sig : Seq(Chunks(netlist))])
      BY DriverFacts, CellFacts
    <3> HIDE DEF ports
    <3> QED
      BY <3>1, LenProperties
  <2>2. s = [p \in 1 .. w |-> s[p]] /\ \A p \in 1 .. w : s[p] \in Seq(D)
    BY <1>2, <2>1
  <2> HIDE DEF w, D, s
  <2>3. s \in Seq(Seq(D))
    BY <2>1, <2>2
  <2>4. FlattenSeq(s) \in Seq(D)
    BY <2>3, FlattenIsSeq
  <2> QED
    BY <2>4 DEF s
<1>4. parts \in Seq(Seq(D))
  <2>1. \A i \in 1 .. n : parts[i] \in Seq(D)
    <3> HIDE DEF D, portsOf
    <3> QED
      BY <1>1, <1>3, EmptySeq
  <2>2. parts = [i \in 1 .. n |-> parts[i]]
    BY <1>1
  <2> HIDE DEF parts, D
  <2> QED
    BY <2>1, <2>2
<1>5. FlattenSeq(parts) \in Seq(D)
  <2> HIDE DEF parts, D
  <2> QED
    BY <1>4, FlattenIsSeq
<1> QED
  BY <1>5 DEF Visits

(* One chunk of one port: what it adds to the queue is as sound. *)
LEMMA VisitIsSound ==
  ASSUME WellFormed(netlist), NEW cur \in Sound, cur.depth < MaxDepth,
         NEW v \in DrivingChunks(cur.sig),
         NEW found \in [queue : Seq(Sound), visited : SUBSET Chunks(netlist)]
  PROVE  Visit(found, cur, v) \in [queue : Seq(Sound), visited : SUBSET Chunks(netlist)]
<1> DEFINE cell == netlist.cells[v[1]]
           port == cell.ports[v[2]]
           ch   == port.sig[v[3]]
           next == Traced(cur.sig, cell, port.name, ch)
           new  == Seen(next, cur.depth + 1,
                        cur.reg_depth + (IF IsReg(cell) THEN 1 ELSE 0),
                        cur.is_ctrl \/ (IsMux(cell) /\ port.name = "S"))
<1>1. /\ cur.sig \in Chunks(netlist) /\ cur.depth \in 0 .. MaxDepth
      /\ cur.reg_depth \in Nat /\ cur.is_ctrl \in BOOLEAN
      /\ Aligned(netlist) => Bits(cur.sig) \subseteq Cones[cur.depth]
  BY DEF Sound
<1>2. /\ v[1] \in Drivers(cur.sig) /\ v[2] \in DOMAIN netlist.cells[v[1]].ports
      /\ v[3] \in DOMAIN netlist.cells[v[1]].ports[v[2]].sig
  BY DEF DrivingChunks
<1>3. CASE IsConst(next) \/ ch \in found.visited \/ next \in found.visited
  BY <1>3 DEF Visit
<1>4. CASE ~(IsConst(next) \/ ch \in found.visited \/ next \in found.visited)
  <2>1. /\ next \in Chunks(netlist)
        /\ Aligned(netlist) => Bits(next) \subseteq UNION {FanIn(b) : b \in Bits(cur.sig)}
    BY <1>1, <1>2, <1>4, TracedDecides
  <2>2. cur.depth + 1 \in 1 .. MaxDepth /\ (cur.depth + 1) - 1 = cur.depth
    BY <1>1, SearchAssumption
  <2>3. Cones[cur.depth + 1] = UNION {FanIn(b) : b \in Cones[cur.depth]}
    BY <2>2, ConeEquation
  <2>4. Aligned(netlist) => Bits(next) \subseteq Cones[cur.depth + 1]
    <3> HIDE DEF next
    <3> QED
      BY <1>1, <2>1, <2>3
  <2>5. new \in Sound
    <3>1. /\ new.sig = next /\ new.depth = cur.depth + 1
          /\ new.reg_depth = cur.reg_depth + (IF IsReg(cell) THEN 1 ELSE 0)
          /\ new.is_ctrl = (cur.is_ctrl \/ (IsMux(cell) /\ port.name = "S"))
          /\ new = [sig |-> new.sig, depth |-> new.depth, reg_depth |-> new.reg_depth,
                    is_ctrl |-> new.is_ctrl]
      BY DEF Seen
    <3> HIDE DEF new, next, cell, port
    <3>2. new.reg_depth \in Nat /\ new.is_ctrl \in BOOLEAN
      BY <1>1, <3>1
    <3>3. new.sig \in Chunks(netlist) /\ new.depth \in 0 .. MaxDepth
      BY <2>1, <2>2, <3>1
    <3> QED
      BY <2>4, <3>1, <3>2, <3>3 DEF Sound
  <2>6. Visit(found, cur, v) = [queue |-> Append(found.queue, new),
                                visited |-> found.visited \cup {next}]
    BY <1>4 DEF Visit, Pushed, Remembered
  <2> HIDE DEF new, next
  <2>7. Append(found.queue, new) \in Seq(Sound)
    BY <2>5, AppendProperties
  <2> QED
    BY <2>1, <2>6, <2>7
<1> QED
  BY <1>3, <1>4

(* What one round of the search has found after each of its visits. *)
IsRound(g, cur, start, seq, n) ==
  /\ g \in [0 .. n -> [queue : Seq(Sound), visited : SUBSET Chunks(netlist)]]
  /\ g[0] = start
  /\ \A k \in 1 .. n : g[k] = Visit(g[k - 1], cur, seq[k])

(* The fold over the visits of one round makes them one after the other. *)
LEMMA VisitsInTurn ==
  ASSUME WellFormed(netlist), NEW cur \in Sound, cur.depth < MaxDepth,
         NEW start \in [queue : Seq(Sound), visited : SUBSET Chunks(netlist)]
  PROVE  \E g : /\ IsRound(g, cur, start, Visits(cur.sig), Len(Visits(cur.sig)))
                /\ FoldLeft(LAMBDA f, v : Visit(f, cur, v), start, Visits(cur.sig)) =
                      g[Len(Visits(cur.sig))]
<1> DEFINE V == [queue : Seq(Sound), visited : SUBSET Chunks(netlist)]
           seq == Visits(cur.sig)
           n == Len(seq)
           F == [x \in V \X (1 .. n) |-> Visit(x[1], cur, seq[x[2]])]
           IsTable(h) ==
             h = [s \in SUBSET DOMAIN seq |->
                    IF s = {} THEN start
                    ELSE Visit(h[s \ {Max(s)}], cur, seq[Max(s)])]
           h == CHOOSE h : IsTable(h)
<1>1. FoldLeft(LAMBDA f, v : Visit(f, cur, v), start, seq) = h[DOMAIN seq]
  BY DEF FoldLeft, MapThenFoldSet
<1>0. start \in V
  OBVIOUS
<1>2. n \in Nat /\ DOMAIN seq = 1 .. n /\ \A i \in 1 .. n : seq[i] \in DrivingChunks(cur.sig)
  <2>1. seq \in Seq(DrivingChunks(cur.sig))
    BY VisitsAreDriving
  <2> HIDE DEF seq
  <2> QED
    BY <2>1, LenProperties, ElementOfSeq
<1>3. F \in [V \X (1 .. n) -> V]
  <2>1. \A f \in V, i \in 1 .. n : Visit(f, cur, seq[i]) \in V
    <3> HIDE DEF n, seq
    <3> QED
      BY <1>2, VisitIsSound
  <2> HIDE DEF V, n, seq
  <2> QED
    BY <2>1
<1> HIDE DEF seq, n
<1>4. IsTable(h)
  <2>1. PICK g : IsFoldTable(g, n, V, start, F)
    <3> HIDE DEF V, F
    <3> QED
      BY <1>0, <1>2, <1>3, FoldTable
  <2>2. \A s \in SUBSET (1 .. n) : s # {} =>
          F[<<g[s \ {Max(s)}], Max(s)>>] = Visit(g[s \ {Max(s)}], cur, seq[Max(s)])
    <3>1. \A s \in SUBSET (1 .. n) : s # {} => Max(s) \in 1 .. n /\ g[s \ {Max(s)}] \in V
      <4>1. \A s \in SUBSET (1 .. n) : s # {} => Max(s) \in s
        BY <1>2, MaxOfIndices
      <4> HIDE DEF V, F
      <4> QED
        BY <2>1, <4>1 DEF IsFoldTable
    <3> HIDE DEF V
    <3> QED
      BY <3>1
  <2>3. g = [s \in SUBSET (1 .. n) |->
               IF s = {} THEN start ELSE Visit(g[s \ {Max(s)}], cur, seq[Max(s)])]
    <3> HIDE DEF F, V
    <3> QED
      BY <2>1, <2>2 DEF IsFoldTable
  <2>4. IsTable(g)
    BY <1>2, <2>3
  <2> HIDE DEF IsTable
  <2> QED
    BY <2>4
<1> HIDE DEF h
<1>5. h[{}] = start
  BY <1>4
<1>6. \A k \in 1 .. n : h[1 .. k] = Visit(h[1 .. (k - 1)], cur, seq[k])
  <2> SUFFICES ASSUME NEW k \in 1 .. n
               PROVE  h[1 .. k] = Visit(h[1 .. (k - 1)], cur, seq[k])
    OBVIOUS
  <2>1. /\ 1 .. k \in SUBSET (1 .. n) /\ 1 .. k # {}
        /\ Max(1 .. k) = k /\ (1 .. k) \ {k} = 1 .. (k - 1)
    <3>1. 1 .. k \in SUBSET (1 .. n) /\ k \in 1 .. k /\ (1 .. k) \ {k} = 1 .. (k - 1)
      BY <1>2
    <3>2. Max(1 .. k) = k
      BY <1>2, MaxOfIndices
    <3> QED
      BY <3>1, <3>2
  <2>2. \A s \in SUBSET (1 .. n) :
          s # {} => h[s] = Visit(h[s \ {Max(s)}], cur, seq[Max(s)])
    BY <1>2, <1>4
  <2> QED
    BY <2>1, <2>2
<1>7. \A k \in 0 .. n : h[1 .. k] \in V
  <2>1. \A k \in 1 .. n :
          h[1 .. (k - 1)] \in V => h[1 .. k] = F[<<h[1 .. (k - 1)], k>>]
    BY <1>6
  <2>2. n \in Nat
    BY <1>2
  <2> HIDE DEF V, F
  <2> QED
    BY <1>0, <1>3, <1>5, <2>1, <2>2, TablePrefixes
<1> DEFINE g == [k \in 0 .. n |-> h[1 .. k]]
<1>8. IsRound(g, cur, start, seq, n)
  <2>1. g \in [0 .. n -> V]
    <3> HIDE DEF V
    <3> QED
      BY <1>7
  <2>2. 1 .. 0 = {} /\ 0 \in 0 .. n
    BY <1>2
  <2>3. g[0] = start
    BY <1>5, <2>2
  <2>4. \A k \in 1 .. n : k \in 0 .. n /\ k - 1 \in 0 .. n
    BY <1>2
  <2>5. \A k \in 1 .. n : g[k] = Visit(g[k - 1], cur, seq[k])
    BY <1>6, <2>4
  <2> HIDE DEF g
  <2> QED
    BY <2>1, <2>3, <2>5 DEF IsRound
<1>9. h[1 .. n] = g[n] /\ DOMAIN seq = 1 .. n
  <2>1. n \in 0 .. n
    BY <1>2
  <2> QED
    BY <1>2, <2>1
<1> HIDE DEF g
<1> QED
  BY <1>1, <1>8, <1>9 DEF seq, n

(* What one round of the search has found, after all its visits. *)
LEMMA FoundIsSound ==
  ASSUME WellFormed(netlist), NEW cur \in Sound, cur.depth < MaxDepth,
         NEW start \in [queue : Seq(Sound), visited : SUBSET Chunks(netlist)]
  PROVE  FoldLeft(LAMBDA f, v : Visit(f, cur, v), start, Visits(cur.sig))
           \in [queue : Seq(Sound), visited : SUBSET Chunks(netlist)]
<1> DEFINE n == Len(Visits(cur.sig))
<1>1. PICK g : /\ IsRound(g, cur, start, Visits(cur.sig), n)
               /\ FoldLeft(LAMBDA f, v : Visit(f, cur, v), start, Visits(cur.sig)) = g[n]
  BY VisitsInTurn
<1>2. n \in Nat
  <2>1. Visits(cur.sig) \in Seq(DrivingChunks(cur.sig))
    BY VisitsAreDriving
  <2> QED
    BY <2>1, LenProperties
<1>3. n \in 0 .. n
  BY <1>2
<1> QED
  BY <1>1, <1>3 DEF IsRound

(* The netlist stays, so what is sound stays sound. *)
LEMMA SoundUnchanged ==
  ASSUME netlist' = netlist
  PROVE  Sound' = Sound /\ Chunks(netlist)' = Chunks(netlist)
<1>1. Cones' = Cones
  BY DEF Cones, FanIn, Bits, IsMem
<1> QED
  BY <1>1 DEF Sound

(* The search starts at the target, which decides itself. *)
LEMMA SearchInvInit ==
  ASSUME WellFormed(netlist), SearchInit
  PROVE  SearchInv
<1> DEFINE s == Seen(netlist.target, 0, 0, FALSE)
<1>1. netlist.target \in Chunks(netlist)
  BY DEF WellFormed
<1>2. s \in Sound
  BY <1>1, ConeEquation, SearchAssumption DEF Sound, Seen
<1>3. queue = <<s>> /\ visited = {} /\ dependents = <<>>
  BY DEF SearchInit
<1> HIDE DEF s
<1> QED
  BY <1>2, <1>3, EmptySeq DEF SearchInv

(* One round of the search. *)
LEMMA SearchInvStep ==
  ASSUME WellFormed(netlist), SearchInv, SearchStep, netlist' = netlist
  PROVE  SearchInv'
<1> DEFINE cur == Head(queue)
           start == [queue |-> Tail(queue), visited |-> visited]
           found == FoldLeft(LAMBDA f, v : Visit(f, cur, v), start, Visits(cur.sig))
<1>1. cur \in Sound /\ Tail(queue) \in Seq(Sound)
  BY HeadTailProperties DEF SearchInv, SearchStep, SearchOver
<1>2. Sound' = Sound /\ Chunks(netlist)' = Chunks(netlist)
  BY SoundUnchanged
<1>3. CASE cur.depth >= MaxDepth
  BY <1>1, <1>2, <1>3 DEF SearchInv, SearchStep
<1>4. CASE ~(cur.depth >= MaxDepth)
  <2>1. /\ queue' = found.queue /\ visited' = found.visited
        /\ dependents' = IF TakenAsDependent(cur.sig)
                         THEN Append(dependents, cur) ELSE dependents
    BY <1>4 DEF SearchStep
  <2>2. start \in [queue : Seq(Sound), visited : SUBSET Chunks(netlist)]
    BY <1>1 DEF SearchInv
  <2>3. cur.depth < MaxDepth
    BY <1>1, <1>4, SearchAssumption DEF Sound
  <2>4. found \in [queue : Seq(Sound), visited : SUBSET Chunks(netlist)]
    <3> HIDE DEF cur, start
    <3> QED
      BY <1>1, <2>2, <2>3, FoundIsSound
  <2>5. Append(dependents, cur) \in Seq(Sound)
    BY <1>1, AppendProperties DEF SearchInv
  <2> HIDE DEF cur, start, found
  <2> QED
    BY <1>2, <2>1, <2>4, <2>5 DEF SearchInv
<1> QED
  BY <1>3, <1>4

----------------------------------------------------------------------------
(* The selection of the signals on the coverage wire.                      *)

Selections == [idx : Int, sig : Chunks(netlist), width : Nat]

SelectionTypeOK ==
  /\ \A r \in candidates : /\ r.idx \in Int /\ r.sig \in Chunks(netlist)
                          /\ r.width = r.sig.n
  /\ selected \in Seq(Selections)
  /\ sum_cov_bit \in 0 .. CovBit

(* A function on the numbers up to its length is a sequence. *)
LEMMA FunctionIsSeq ==
  ASSUME NEW S, NEW w \in Nat, NEW p \in [1 .. w -> S]
  PROVE  p \in Seq(S) /\ Len(p) = w
OBVIOUS

(* The wire grows by the width of the part that is added. *)
LEMMA WireGrows ==
  ASSUME NEW S, \A x \in S : x.width \in Nat, NEW parts \in Seq(S), NEW part \in S
  PROVE  /\ Len(WireOf(parts)) \in Nat
         /\ Len(WireOf(Append(parts, part))) = Len(WireOf(parts)) + part.width
<1> DEFINE n == Len(parts)
           more == Append(parts, part)
<1>1. n \in Nat /\ DOMAIN parts = 1 .. n /\ \A i \in 1 .. n : parts[i].width \in Nat
  BY LenProperties, ElementOfSeq
<1>2. /\ n + 1 \in Nat /\ DOMAIN more = 1 .. (n + 1)
      /\ \A i \in 1 .. n : more[i] = parts[i]
      /\ more[n + 1] = part
  BY <1>1, AppendProperties, LenProperties
<1>3. \A i \in 1 .. (n + 1) : more[i].width \in Nat
  <2> SUFFICES ASSUME NEW i \in 1 .. (n + 1) PROVE more[i].width \in Nat
    OBVIOUS
  <2>1. i \in 1 .. n \/ i = n + 1
    BY <1>1
  <2> HIDE DEF more
  <2> QED
    BY <1>1, <1>2, <2>1
<1> HIDE DEF n, more
<1>4. PICK acc \in [0 .. n -> Seq(NamesOf(parts))] :
        /\ acc[0] = <<>>
        /\ \A i \in 1 .. n : acc[i] = PartNames(parts[i]) \o acc[i - 1]
        /\ WireOf(parts) = acc[n]
  BY <1>1, ConcatenationByParts
<1> DEFINE m == n + 1
<1>5. PICK all \in [0 .. m -> Seq(NamesOf(more))] :
        /\ all[0] = <<>>
        /\ \A i \in 1 .. m : all[i] = PartNames(more[i]) \o all[i - 1]
        /\ WireOf(more) = all[m]
  <2>1. m \in Nat /\ DOMAIN more = 1 .. m /\ \A i \in 1 .. m : more[i].width \in Nat
    BY <1>2, <1>3
  <2> HIDE DEF m
  <2> QED
    BY <2>1, ConcatenationByParts
<1>6. \A k \in 0 .. n : all[k] = acc[k]
  <2> DEFINE T == {k \in Nat : k <= n => all[k] = acc[k]}
  <2>1. 0 \in T
    BY <1>4, <1>5
  <2>2. ASSUME NEW k \in T PROVE k + 1 \in T
    <3>1. k \in Nat /\ k + 1 \in Nat /\ (k + 1) - 1 = k
      OBVIOUS
    <3>2. ASSUME k + 1 <= n PROVE all[k + 1] = acc[k + 1]
      <4>1. k + 1 \in 1 .. n /\ k + 1 \in 1 .. m /\ all[k] = acc[k]
        BY <1>1, <3>1, <3>2
      <4>2. all[k + 1] = PartNames(more[k + 1]) \o all[k]
        BY <1>5, <3>1, <4>1
      <4>3. acc[k + 1] = PartNames(parts[k + 1]) \o acc[k]
        BY <1>4, <3>1, <4>1
      <4> QED
        BY <1>2, <4>1, <4>2, <4>3
    <3> QED
      BY <3>1, <3>2
  <2>3. T = Nat
    <3>1. T \in SUBSET Nat
      OBVIOUS
    <3> HIDE DEF T
    <3> QED
      BY <2>1, <2>2, <3>1, AllNumbers
  <2> SUFFICES ASSUME NEW k \in 0 .. n PROVE all[k] = acc[k]
    OBVIOUS
  <2>4. k \in T /\ k <= n
    <3> HIDE DEF T
    <3> QED
      BY <1>1, <2>3
  <2> QED
    BY <2>4
<1>7. WireOf(more) = PartNames(part) \o WireOf(parts)
  <2>1. m \in 1 .. m /\ m - 1 = n /\ n \in 0 .. n
    BY <1>1
  <2>2. all[m] = PartNames(more[m]) \o all[m - 1]
    BY <1>5, <2>1
  <2> QED
    BY <1>2, <1>4, <1>5, <1>6, <2>1, <2>2
<1>8. WireOf(parts) \in Seq(NamesOf(parts))
  <2>1. n \in 0 .. n
    BY <1>1
  <2> QED
    BY <1>4, <2>1
<1>9. Len(PartNames(part) \o WireOf(parts)) = part.width + Len(WireOf(parts))
      /\ Len(WireOf(parts)) \in Nat
  <2> DEFINE p == PartNames(part)
             w == part.width
             S1 == ToSet(p) \cup NamesOf(parts)
  <2>1. w \in Nat /\ DOMAIN p = 1 .. w /\ p = [i \in 1 .. w |-> p[i]]
        /\ \A i \in 1 .. w : p[i] \in S1
    <3>1. w \in Nat /\ DOMAIN p = 1 .. w /\ p = [i \in 1 .. w |-> p[i]]
      BY DEF PartNames
    <3>2. \A i \in 1 .. w : p[i] \in ToSet(p)
      BY <3>1 DEF ToSet
    <3> QED
      BY <3>1, <3>2
  <2>2. NamesOf(parts) \subseteq S1
    OBVIOUS
  <2> HIDE DEF p, w, S1
  <2>3. p \in Seq(S1) /\ Len(p) = w
    <3>1. w \in Nat /\ p \in [1 .. w -> S1]
      BY <2>1
    <3> QED
      BY <3>1, FunctionIsSeq
  <2>4. WireOf(parts) \in Seq(S1)
    BY <1>8, <2>2, SeqMonotonic
  <2> QED
    BY <2>3, <2>4, ConcatProperties, LenProperties DEF p, w
<1> QED
  BY <1>7, <1>9 DEF more

(* By mutual information: the bits counted are those on the wire, and only the
   signal that filled it is there in part. *)
CountedOnWire ==
  selection_method = "closer_mi" =>
    /\ Len(WireOf(selected)) = sum_cov_bit
    /\ \A i \in DOMAIN selected :
         \/ selected[i].width = selected[i].sig.n
         \/ i = Len(selected) /\ sum_cov_bit = CovBit

SelectionInv == SelectionTypeOK /\ CountedOnWire

(* An empty list gives an empty wire. *)
LEMMA WireOfNothing == Len(WireOf(<<>>)) = 0
<1> DEFINE none == <<>>
<1>1. DOMAIN none = 1 .. 0 /\ \A i \in 1 .. 0 : none[i].width \in Nat
  OBVIOUS
<1> HIDE DEF none
<1> DEFINE n == 0
<1>2. n \in Nat /\ DOMAIN none = 1 .. n /\ \A i \in 1 .. n : none[i].width \in Nat
  BY <1>1
<1> HIDE DEF n
<1>3. PICK acc \in [0 .. n -> Seq(NamesOf(none))] : acc[0] = <<>> /\ WireOf(none) = acc[n]
  BY <1>2, ConcatenationByParts
<1> QED
  BY <1>3 DEF n, none

(* A signal more: what is selected of it, and what that does to the wire. *)
LEMMA SelectedGrows ==
  ASSUME SelectionInv, NEW part \in Selections
  PROVE  /\ Append(selected, part) \in Seq(Selections)
         /\ Len(Append(selected, part)) = Len(selected) + 1
         /\ Len(selected) \in Nat
         /\ DOMAIN selected = 1 .. Len(selected)
         /\ \A i \in 1 .. Len(selected) : Append(selected, part)[i] = selected[i]
         /\ Append(selected, part)[Len(selected) + 1] = part
         /\ DOMAIN Append(selected, part) = 1 .. (Len(selected) + 1)
         /\ Len(WireOf(Append(selected, part))) = Len(WireOf(selected)) + part.width
<1> DEFINE S == Selections
<1>1. selected \in Seq(S) /\ \A x \in S : x.width \in Nat
  BY DEF SelectionInv, SelectionTypeOK, Selections
<1>2. part \in S
  OBVIOUS
<1> HIDE DEF S
<1>3. Len(WireOf(Append(selected, part))) = Len(WireOf(selected)) + part.width
  BY <1>1, <1>2, WireGrows
<1>4. Append(selected, part) \in Seq(S)
  BY <1>1, <1>2, AppendProperties
<1>5. /\ Len(Append(selected, part)) = Len(selected) + 1
      /\ \A i \in 1 .. Len(selected) : Append(selected, part)[i] = selected[i]
      /\ Append(selected, part)[Len(selected) + 1] = part
  BY <1>1, <1>2, AppendProperties
<1>6. /\ Len(selected) \in Nat /\ DOMAIN selected = 1 .. Len(selected)
      /\ DOMAIN Append(selected, part) = 1 .. (Len(selected) + 1)
  BY <1>1, <1>4, <1>5, LenProperties
<1> QED
  BY <1>3, <1>4, <1>5, <1>6 DEF S

(* What is selected of a row: all of it, or what still fits. *)
LEMMA SelectedPart ==
  ASSUME SelectionTypeOK, NEW row \in candidates
  PROVE  /\ Selected(row) \in Selections
         /\ Selected(row).sig = row.sig
         /\ row.width \in Nat
         /\ Fits(row) => /\ Selected(row).width = row.sig.n
                         /\ row.width = row.sig.n
                         /\ sum_cov_bit + row.width \in 0 .. CovBit
         /\ ~Fits(row) => Selected(row).width = CovBit - sum_cov_bit
<1>1. /\ row.sig \in Chunks(netlist) /\ row.width = row.sig.n /\ row.sig.n \in Nat
      /\ row.idx \in Int /\ sum_cov_bit \in 0 .. CovBit /\ CovBit \in Nat
  BY CovBitAssumption DEF SelectionTypeOK, Chunks
<1>2. CASE Fits(row)
  <2>1. Selected(row) = [idx |-> row.idx, sig |-> row.sig, width |-> row.width]
    BY <1>2 DEF Selected, Part
  <2>2. sum_cov_bit + row.width \in 0 .. CovBit
    BY <1>1, <1>2 DEF Fits
  <2> QED
    BY <1>1, <1>2, <2>1, <2>2 DEF Selections
<1>3. CASE ~Fits(row)
  <2>1. Selected(row) =
          [idx |-> row.idx, sig |-> row.sig, width |-> CovBit - sum_cov_bit]
    BY <1>3 DEF Selected, LowPart, Part
  <2>2. CovBit - sum_cov_bit \in Nat
    BY <1>1
  <2> QED
    BY <1>1, <1>3, <2>1, <2>2 DEF Selections
<1> QED
  BY <1>2, <1>3

(* One round of the nearest-first selection. *)
LEMMA CloserKeepsInv ==
  ASSUME SelectionInv, NEW row \in candidates, SelectCloser(row), netlist' = netlist
  PROVE  SelectionInv'
<1> DEFINE part == Selected(row)
           more == Append(selected, part)
<1>1. /\ part \in Selections /\ row.width \in Nat
      /\ Fits(row) => sum_cov_bit + row.width \in 0 .. CovBit
  BY SelectedPart DEF SelectionInv
<1>2. more \in Seq(Selections)
  <2> HIDE DEF part
  <2> QED
    BY <1>1, SelectedGrows
<1>3. /\ selection_method = "closer" /\ selection_method' = "closer"
      /\ selected' = more
      /\ sum_cov_bit' = sum_cov_bit + (IF Fits(row) THEN row.width ELSE 0)
      /\ candidates' \subseteq candidates
  BY DEF SelectCloser
<1>4. sum_cov_bit' \in 0 .. CovBit
  <2>1. sum_cov_bit \in 0 .. CovBit
    BY DEF SelectionInv, SelectionTypeOK
  <2> QED
    BY <1>1, <1>3, <2>1, CovBitAssumption
<1>5. Selections' = Selections /\ Chunks(netlist)' = Chunks(netlist)
  BY DEF Selections
<1> HIDE DEF more, part
<1> QED
  BY <1>2, <1>3, <1>4, <1>5 DEF SelectionInv, SelectionTypeOK, CountedOnWire

(* One round of the selection by mutual information. *)
LEMMA CloserMiKeepsInv ==
  ASSUME SelectionInv, NEW dropped, NEW row \in candidates, SelectCloserMi(dropped, row),
         netlist' = netlist
  PROVE  SelectionInv'
<1> DEFINE part == Selected(row)
           more == Append(selected, part)
           n == Len(selected)
<1>1. /\ part \in Selections /\ part.sig = row.sig
      /\ Fits(row) => /\ part.width = row.sig.n /\ row.width = row.sig.n
                      /\ sum_cov_bit + row.width \in 0 .. CovBit
      /\ ~Fits(row) => part.width = CovBit - sum_cov_bit
  BY SelectedPart DEF SelectionInv
<1>2. /\ selection_method = "closer_mi" /\ selection_method' = "closer_mi"
      /\ sum_cov_bit < CovBit
      /\ selected' = more
      /\ sum_cov_bit' = sum_cov_bit + part.width
      /\ candidates' \subseteq candidates
  BY DEF SelectCloserMi
<1>3. /\ sum_cov_bit \in 0 .. CovBit /\ CovBit \in Nat
      /\ Len(WireOf(selected)) = sum_cov_bit
      /\ \A i \in DOMAIN selected : selected[i].width = selected[i].sig.n
  BY <1>2, CovBitAssumption DEF SelectionInv, SelectionTypeOK, CountedOnWire
<1> HIDE DEF part
<1>4. /\ more \in Seq(Selections) /\ Len(more) = n + 1 /\ n \in Nat
      /\ DOMAIN selected = 1 .. n
      /\ \A i \in 1 .. n : more[i] = selected[i]
      /\ more[n + 1] = part
      /\ DOMAIN more = 1 .. (n + 1)
      /\ Len(WireOf(more)) = Len(WireOf(selected)) + part.width
  BY <1>1, SelectedGrows
<1> HIDE DEF more, n
<1>5. /\ sum_cov_bit' \in 0 .. CovBit
      /\ part.width = part.sig.n \/ sum_cov_bit' = CovBit
  <2>1. CASE Fits(row)
    BY <1>1, <1>2, <1>3, <2>1
  <2>2. CASE ~Fits(row)
    BY <1>1, <1>2, <1>3, <2>2
  <2> QED
    BY <2>1, <2>2
<1>6. \A i \in DOMAIN more : \/ more[i].width = more[i].sig.n
                             \/ i = Len(more) /\ sum_cov_bit' = CovBit
  <2> SUFFICES ASSUME NEW i \in DOMAIN more
               PROVE  \/ more[i].width = more[i].sig.n
                      \/ i = Len(more) /\ sum_cov_bit' = CovBit
    OBVIOUS
  <2>1. i \in 1 .. n \/ i = n + 1
    BY <1>4
  <2>2. CASE i \in 1 .. n
    BY <1>3, <1>4, <2>2
  <2>3. CASE i = n + 1
    BY <1>4, <1>5, <2>3
  <2> QED
    BY <2>1, <2>2, <2>3
<1>7. Selections' = Selections /\ Chunks(netlist)' = Chunks(netlist)
  BY DEF Selections
<1>8. SelectionTypeOK'
  BY <1>2, <1>4, <1>5, <1>7 DEF SelectionInv, SelectionTypeOK
<1>9. CountedOnWire'
  BY <1>2, <1>3, <1>4, <1>6 DEF CountedOnWire
<1> QED
  BY <1>8, <1>9 DEF SelectionInv

(* The number of a signal in the pool. *)
LEMMA DependentIdxIsNumber ==
  ASSUME SearchInv, NEW s
  PROVE  DependentIdx(s) \in Nat
<1> DEFINE n == Len(dependents)
           D == 1 .. n
           f == [k \in D |-> dependents[k].sig]
<1>1. n \in Nat /\ DOMAIN dependents = D
  BY LenProperties DEF SearchInv
<1>2. IsFiniteSet(D)
  BY <1>1, FS_Interval
<1>3. f \in Surjection(D, Found)
  BY <1>1 DEF Found, Surjection
<1> HIDE DEF D, f, n
<1>4. IsFiniteSet(Found)
  BY <1>2, <1>3, FS_Surjection
<1> DEFINE later == {g \in Found : FirstAdded(s) < FirstAdded(g)}
<1>5. later \in SUBSET Found
  OBVIOUS
<1>6. DependentIdx(s) = Cardinality(later)
  BY DEF DependentIdx
<1> HIDE DEF later
<1> QED
  BY <1>4, <1>5, <1>6, FS_Subset, FS_CardinalityType

(* The selection starts with the target alone on the wire. *)
LEMMA SelectionStarts ==
  ASSUME SearchInv, WellFormed(netlist), netlist.target.n < CovBit, netlist' = netlist,
         SelectionStart(DependentRows, netlist.target), UNCHANGED selection_method
  PROVE  SelectionInv'
<1> DEFINE part == Part(Unnumbered, netlist.target, netlist.target.n)
           none == <<>>
<1>1. netlist.target \in Chunks(netlist) /\ netlist.target.n \in Nat
  BY DEF WellFormed, Chunks
<1>2. part \in Selections /\ part.sig = netlist.target /\ part.width = netlist.target.n
  BY <1>1 DEF Selections, Part, Unnumbered
<1>3. \A r \in DependentRows : /\ r.idx \in Int /\ r.sig \in Chunks(netlist)
                               /\ r.width = r.sig.n
  <2>1. \A k \in DOMAIN dependents : dependents[k].sig \in Chunks(netlist)
    <3>1. \A k \in DOMAIN dependents : dependents[k] \in Sound
      BY LenProperties, ElementOfSeq DEF SearchInv
    <3> QED
      BY <3>1 DEF Sound
  <2>2. \A s \in Found : s \in Chunks(netlist)
    BY <2>1 DEF Found
  <2>3. \A s \in Found : DependentIdx(s) \in Int
    BY DependentIdxIsNumber
  <2> QED
    BY <2>2, <2>3 DEF DependentRows
<1>4. /\ candidates' = DependentRows /\ selected' = <<part>>
      /\ sum_cov_bit' = netlist.target.n
  BY DEF SelectionStart
<1> HIDE DEF part
<1>5. Len(WireOf(<<part>>)) = part.width
  <2> DEFINE S == Selections
  <2>1. none \in Seq(S) /\ (\A x \in S : x.width \in Nat) /\ part \in S
    BY <1>2 DEF Selections
  <2>2. Append(none, part) = <<part>> /\ Len(WireOf(none)) = 0
    BY WireOfNothing
  <2> HIDE DEF none, S
  <2>3. Len(WireOf(Append(none, part))) = Len(WireOf(none)) + part.width
    BY <2>1, WireGrows
  <2> QED
    BY <1>1, <1>2, <2>2, <2>3
<1>6. Selections' = Selections /\ Chunks(netlist)' = Chunks(netlist)
  BY DEF Selections
<1>7. <<part>> \in Seq(Selections) /\ DOMAIN <<part>> = 1 .. 1
      /\ \A i \in 1 .. 1 : <<part>>[i].width = <<part>>[i].sig.n
  BY <1>2
<1>8. SelectionTypeOK'
  BY <1>1, <1>3, <1>4, <1>6, <1>7, CovBitAssumption DEF SelectionTypeOK
<1>9. CountedOnWire'
  BY <1>2, <1>4, <1>5, <1>7 DEF CountedOnWire
<1> QED
  BY <1>8, <1>9 DEF SelectionInv

----------------------------------------------------------------------------
(* A whole build.                                                          *)

OfNetlists == pass \in DOMAIN Netlists /\ netlist \in Netlists[pass]

BuildInv == OfNetlists /\ SearchInv /\ SelectionInv

(* What is assumed of every netlist. *)
LEMMA NetlistFacts ==
  ASSUME OfNetlists
  PROVE  /\ WellFormed(netlist)
         /\ pass = "surgefuzz" => netlist.target.n < CovBit
         /\ pass \in {"surgefuzz", "directfuzz", "difuzzrtl", "rfuzz"}
  BY NetlistsAssumption DEF OfNetlists

(* A build starts with an empty selection. *)
LEMMA BuildInvInit == Init => BuildInv
<1> SUFFICES ASSUME Init PROVE BuildInv
  OBVIOUS
<1> DEFINE none == <<>>
<1>1. OfNetlists /\ SearchInit
  BY DEF Init, OfNetlists
<1>2. SearchInv
  BY <1>1, NetlistFacts, SearchInvInit
<1>3. candidates = {} /\ selected = none /\ sum_cov_bit = 0
  BY DEF Init
<1>4. none \in Seq(Selections) /\ DOMAIN none = {} /\ Len(WireOf(none)) = 0
  <2>1. Len(WireOf(none)) = 0
    BY WireOfNothing
  <2> QED
    BY <2>1
<1> HIDE DEF none
<1>5. SelectionInv
  BY <1>3, <1>4, CovBitAssumption DEF SelectionInv, SelectionTypeOK, CountedOnWire
<1> QED
  BY <1>1, <1>2, <1>5 DEF BuildInv

(* What is not touched stays as it is. *)
LEMMA SearchInvStays ==
  ASSUME SearchInv, netlist' = netlist, UNCHANGED searchVars
  PROVE  SearchInv'
  BY SoundUnchanged DEF SearchInv, searchVars

(* A selection that is not touched stays as it is. *)
LEMMA SelectionInvStays ==
  ASSUME SelectionInv, netlist' = netlist, UNCHANGED selectionVars
  PROVE  SelectionInv'
<1>1. Selections' = Selections /\ Chunks(netlist)' = Chunks(netlist)
  BY DEF Selections
<1> QED
  BY <1>1 DEF SelectionInv, SelectionTypeOK, CountedOnWire, selectionVars

(* Every step of a build. *)
LEMMA BuildInvStep == BuildInv /\ [Next]_instrumentVars => BuildInv'
<1> SUFFICES ASSUME BuildInv, [Next]_instrumentVars PROVE BuildInv'
  OBVIOUS
<1>1. OfNetlists /\ SearchInv /\ SelectionInv /\ WellFormed(netlist)
  BY NetlistFacts DEF BuildInv
<1>2. ASSUME UNCHANGED <<netlist, pass>>, SearchInv', SelectionInv' PROVE BuildInv'
  BY <1>1, <1>2 DEF BuildInv, OfNetlists
<1>3. CASE Analyze
  <2>1. UNCHANGED <<netlist, pass, selectionVars>>
    BY <1>3 DEF Analyze, buildVars
  <2>2. SearchStep \/ UNCHANGED searchVars
    BY <1>3 DEF Analyze
  <2>3. SearchInv'
    BY <1>1, <2>1, <2>2, SearchInvStep, SearchInvStays
  <2>4. SelectionInv'
    BY <1>1, <2>1, SelectionInvStays
  <2> QED
    BY <1>2, <2>1, <2>3, <2>4
<1>4. CASE InstrumentDependents
  <2>1. /\ UNCHANGED <<netlist, pass, searchVars, selection_method>>
        /\ pass = "surgefuzz" /\ SelectionStart(DependentRows, netlist.target)
    BY <1>4 DEF InstrumentDependents, buildVars
  <2>2. SearchInv'
    BY <1>1, <2>1, SearchInvStays
  <2>3. SelectionInv'
    BY <1>1, <2>1, NetlistFacts, SelectionStarts
  <2> QED
    BY <1>2, <2>1, <2>2, <2>3
<1>5. CASE Select
  <2>1. UNCHANGED <<netlist, pass, searchVars>> /\ SelectionStep
    BY <1>5 DEF Select, buildVars
  <2>2. SearchInv'
    BY <1>1, <2>1, SearchInvStays
  <2>3. ASSUME NEW row \in Nearest(candidates), SelectCloser(row) PROVE SelectionInv'
    BY <1>1, <2>1, <2>3, CloserKeepsInv DEF Nearest
  <2>4. ASSUME NEW dropped \in SUBSET Compared, NEW row \in Nearest(Compared \ dropped),
               SelectCloserMi(dropped, row)
        PROVE  SelectionInv'
    <3>1. row \in candidates
      BY DEF Nearest, Compared
    <3> QED
      BY <1>1, <2>1, <2>4, <3>1, CloserMiKeepsInv
  <2>5. ASSUME DropCandidates PROVE SelectionInv'
    <3>1. Selections' = Selections /\ Chunks(netlist)' = Chunks(netlist)
      BY <2>1 DEF Selections
    <3>2. candidates' \subseteq candidates /\ UNCHANGED <<selection_method, selected, sum_cov_bit>>
      BY <2>5 DEF DropCandidates
    <3>3. SelectionTypeOK'
      BY <1>1, <3>1, <3>2 DEF SelectionInv, SelectionTypeOK
    <3>4. CountedOnWire'
      BY <1>1, <3>2 DEF SelectionInv, CountedOnWire
    <3> QED
      BY <3>3, <3>4 DEF SelectionInv
  <2>6. SelectionInv'
    <3>1. \/ \E row \in Nearest(candidates) : SelectCloser(row)
          \/ \E dropped \in SUBSET Compared :
               \E row \in Nearest(Compared \ dropped) : SelectCloserMi(dropped, row)
          \/ DropCandidates
      BY <2>1 DEF SelectionStep
    <3> QED
      BY <2>3, <2>4, <2>5, <3>1
  <2> QED
    BY <1>2, <2>1, <2>2, <2>6
<1>6. CASE \/ InstrumentSelected \/ InstrumentMuxes \/ InstrumentInstances
           \/ InstrumentControl \/ UNCHANGED instrumentVars
  <2>1. UNCHANGED <<netlist, pass, searchVars, selectionVars>>
    BY <1>6 DEF InstrumentSelected, InstrumentMuxes, InstrumentInstances,
                InstrumentControl, Finish, instrumentVars, buildVars
  <2>2. SearchInv' /\ SelectionInv'
    BY <1>1, <2>1, SearchInvStays, SelectionInvStays
  <2> QED
    BY <1>2, <2>1, <2>2
<1> QED
  BY <1>3, <1>4, <1>5, <1>6 DEF Next

(* The invariant of search and selection holds throughout. *)
LEMMA BuildInvariant == Spec => []BuildInv
  BY BuildInvInit, BuildInvStep, PTL DEF Spec

(* The bits select_coverage_sigs_using_mi counts are those on the wire, never
   more than it has: every signal it selects is on the wire, whole, or with
   its low bits if it came last and filled the wire. *)
THEOREM MiSelectionAlwaysFits == Spec => []MiSelectionFitsWire
<1>1. BuildInv => MiSelectionFitsWire
  <2> SUFFICES ASSUME BuildInv, selection_method = "closer_mi" PROVE MiSelectionFitsWire
    BY DEF MiSelectionFitsWire
  <2>1. Concatenation = WireOf(selected)
    BY DEF Concatenation, WireOf
  <2>2. SelectionTypeOK /\ CountedOnWire /\ CovBit \in Nat
    BY CovBitAssumption DEF BuildInv, SelectionInv
  <2>3. sum_cov_bit <= CovBit
    BY <2>2 DEF SelectionTypeOK
  <2> QED
    BY <2>1, <2>2, <2>3 DEF CountedOnWire, MiSelectionFitsWire
<1> QED
  BY <1>1, BuildInvariant, PTL

----------------------------------------------------------------------------
(* By mutual information, what is not pruned is selected by its distance.    *)

(* The rows depend on what was found alone. *)
LEMMA RowsUnchanged ==
  ASSUME UNCHANGED dependents
  PROVE  DependentRows' = DependentRows
BY DEF DependentRows, DependentIdx, FirstAdded, Found, DependentInfo, InfoOfBit

(* Before the selection there is nothing to select from; in it there are rows
   only. *)
OrderInv ==
  /\ BuildInv
  /\ phase = "analyze" => candidates = {} /\ selected = <<>>
  /\ candidates \subseteq DependentRows
  /\ MiNearerFirst

LEMMA OrderInvInit == Init => OrderInv
<1> SUFFICES ASSUME Init PROVE OrderInv
  OBVIOUS
<1>1. candidates = {} /\ selected = <<>>
  BY DEF Init
<1>2. \A i \in 2 .. Len(selected) : FALSE
  BY <1>1
<1> QED
  BY <1>1, <1>2, BuildInvInit DEF OrderInv, MiNearerFirst

(* A round that selects: the row is the nearest of those compared and not
   dropped. *)
LEMMA RoundKeepsOrder ==
  ASSUME OrderInv, UNCHANGED dependents, NEW dropped \in SUBSET Compared,
         NEW row \in Nearest(Compared \ dropped), SelectCloserMi(dropped, row)
  PROVE  MiNearerFirst'
<1> DEFINE n == Len(selected)
           rows == DependentRows
           part == Selected(row)
<1>1. /\ row \in candidates /\ candidates \subseteq rows
      /\ \A r \in Compared \ dropped : ~Nearer(r, row)
      /\ \A r \in candidates : r \in Compared \/ NameContains(r.idx, selected[n].idx)
      /\ SelectionInv /\ SelectionTypeOK
  BY DEF OrderInv, Nearest, Compared, BuildInv, SelectionInv
<1>2. /\ selected' = Append(selected, part)
      /\ candidates' = (candidates \ dropped) \ {row}
      /\ selection_method = "closer_mi"
  BY DEF SelectCloserMi
<1>3. part \in Selections /\ part.sig = row.sig
  BY <1>1, SelectedPart
<1>4. DependentRows' = rows
  BY RowsUnchanged
<1>5. \A r, s \in rows : r.sig = s.sig => r = s
  BY DEF DependentRows
<1> HIDE DEF part, rows
<1>6. /\ n \in Nat /\ Len(selected') = n + 1
      /\ \A i \in 1 .. n : selected'[i] = selected[i]
      /\ selected'[n + 1] = part
  BY <1>1, <1>2, <1>3, SelectedGrows
<1> HIDE DEF n
<1> SUFFICES ASSUME NEW i \in 2 .. (n + 1), NEW far \in rows, NEW near \in rows,
                    selected'[i].sig = far.sig, Nearer(near, far),
                    \/ near \in candidates'
                    \/ \E j \in (i + 1) .. (n + 1) : selected'[j].sig = near.sig
             PROVE  NameContains(near.idx, selected'[i - 1].idx)
  BY <1>4, <1>6 DEF MiNearerFirst, Unpruned, Nearer
<1>7. i - 1 \in 1 .. n /\ selected'[i - 1] = selected[i - 1]
  BY <1>6
<1>8. CASE i = n + 1
  <2>1. far = row
    BY <1>1, <1>3, <1>5, <1>6, <1>8
  <2>2. near \in candidates'
    BY <1>6, <1>8
  <2>3. near \in candidates /\ near \notin Compared
    BY <1>1, <1>2, <2>1, <2>2
  <2>4. NameContains(near.idx, selected[n].idx)
    BY <1>1, <2>3
  <2>5. i - 1 = n
    BY <1>6, <1>8
  <2> QED
    BY <1>7, <2>4, <2>5
<1>9. CASE i # n + 1
  <2>1. i \in 2 .. n /\ selected[i].sig = far.sig
    BY <1>6, <1>9
  <2>2. near \in candidates \/ \E j \in (i + 1) .. n : selected[j].sig = near.sig
    <3>1. CASE near \in candidates'
      BY <1>2, <3>1
    <3>2. ASSUME NEW j \in (i + 1) .. (n + 1), selected'[j].sig = near.sig
          PROVE  near \in candidates \/ \E k \in (i + 1) .. n : selected[k].sig = near.sig
      <4>1. CASE j = n + 1
        BY <1>1, <1>3, <1>5, <1>6, <3>2, <4>1
      <4>2. CASE j # n + 1
        <5>1. j \in (i + 1) .. n /\ j \in 1 .. n
          BY <1>6, <4>2
        <5> QED
          BY <1>6, <3>2, <5>1
      <4> QED
        BY <4>1, <4>2
    <3> QED
      BY <3>1, <3>2
  <2>3. NameContains(near.idx, selected[i - 1].idx)
    BY <1>2, <2>1, <2>2 DEF OrderInv, MiNearerFirst, Unpruned, rows, n
  <2> QED
    BY <1>7, <2>3
<1> QED
  BY <1>8, <1>9

(* Every step of a build. *)
LEMMA OrderInvStep == OrderInv /\ [Next]_instrumentVars => OrderInv'
<1> SUFFICES ASSUME OrderInv, [Next]_instrumentVars PROVE OrderInv'
  OBVIOUS
<1>1. BuildInv'
  BY BuildInvStep DEF OrderInv
<1>2. CASE Analyze
  <2>1. UNCHANGED selectionVars /\ phase = "analyze"
    BY <1>2 DEF Analyze
  <2>2. candidates' = {} /\ selected' = <<>>
    BY <2>1 DEF OrderInv, selectionVars
  <2>3. \A i \in 2 .. Len(selected') : FALSE
    BY <2>2
  <2> QED
    BY <1>1, <2>2, <2>3 DEF OrderInv, MiNearerFirst
<1>3. CASE InstrumentDependents
  <2>1. UNCHANGED dependents /\ phase' = "select" /\ candidates' = DependentRows
        /\ selected' = <<Part(Unnumbered, netlist.target, netlist.target.n)>>
    BY <1>3 DEF InstrumentDependents, SelectionStart, searchVars
  <2>2. \A i \in 2 .. Len(selected') : FALSE
    BY <2>1
  <2>3. DependentRows' = DependentRows
    BY <2>1, RowsUnchanged
  <2> QED
    BY <1>1, <2>1, <2>2, <2>3 DEF OrderInv, MiNearerFirst
<1>4. CASE Select
  <2>1. UNCHANGED dependents /\ phase = "select" /\ phase' = "select" /\ SelectionStep
    BY <1>4 DEF Select, searchVars
  <2>2. DependentRows' = DependentRows
    BY <2>1, RowsUnchanged
  <2>3. ASSUME NEW row \in Nearest(candidates), SelectCloser(row)
        PROVE  candidates' \subseteq candidates /\ MiNearerFirst'
    BY <2>3 DEF SelectCloser, MiNearerFirst
  <2>4. ASSUME NEW dropped \in SUBSET Compared, NEW row \in Nearest(Compared \ dropped),
               SelectCloserMi(dropped, row)
        PROVE  candidates' \subseteq candidates /\ MiNearerFirst'
    <3>1. candidates' \subseteq candidates
      BY <2>4 DEF SelectCloserMi
    <3>2. MiNearerFirst'
      BY <2>1, <2>4, RoundKeepsOrder
    <3> QED
      BY <3>1, <3>2
  <2>5. ASSUME DropCandidates
        PROVE  candidates' \subseteq candidates /\ MiNearerFirst'
    <3>1. candidates' \subseteq candidates /\ UNCHANGED <<selection_method, selected>>
      BY <2>5 DEF DropCandidates
    <3>2. MiNearerFirst'
      BY <2>2, <3>1 DEF OrderInv, MiNearerFirst, Unpruned, Nearer, NameContains
    <3> QED
      BY <3>1, <3>2
  <2>6. candidates' \subseteq candidates /\ MiNearerFirst'
    BY <2>1, <2>3, <2>4, <2>5 DEF SelectionStep
  <2> QED
    BY <1>1, <2>1, <2>2, <2>6 DEF OrderInv
<1>5. CASE \/ InstrumentSelected \/ InstrumentMuxes \/ InstrumentInstances
           \/ InstrumentControl \/ UNCHANGED instrumentVars
  <2>1. UNCHANGED <<selectionVars, dependents>> /\ (phase' = "analyze" => phase = "analyze")
    BY <1>5 DEF InstrumentSelected, InstrumentMuxes, InstrumentInstances,
                InstrumentControl, Finish, instrumentVars, searchVars
  <2>2. DependentRows' = DependentRows
    BY <2>1, RowsUnchanged
  <2>3. UNCHANGED <<selection_method, candidates, selected>>
    BY <2>1 DEF selectionVars
  <2>4. MiNearerFirst'
    BY <2>2, <2>3 DEF OrderInv, MiNearerFirst, Unpruned, Nearer, NameContains
  <2> QED
    BY <1>1, <2>1, <2>2, <2>3, <2>4 DEF OrderInv
<1> QED
  BY <1>2, <1>3, <1>4, <1>5 DEF Next

(* Among the signals select_coverage_sigs_using_mi does not prune, none is
   selected before a nearer one but where calc_nmi keeps the nearer one out of
   the round by its name. *)
THEOREM MiAlwaysNearerFirst == Spec => []MiNearerFirst
<1>1. OrderInv => MiNearerFirst
  BY DEF OrderInv
<1> QED
  BY <1>1, OrderInvInit, OrderInvStep, PTL DEF Spec

----------------------------------------------------------------------------
(* What the search of the SurgeFuzz pass found.                            *)

(* Without concatenated operands, every bit of every register the search of
   the SurgeFuzz pass has taken decides a bit of the target, as many cells
   later as its depth says: the slices are traced, never more of a signal. *)
THEOREM SearchAlwaysSound == Spec => []SearchIsSound
<1>1. BuildInv => SearchIsSound
  <2> SUFFICES ASSUME BuildInv, Aligned(netlist), NEW k \in DOMAIN dependents
               PROVE  Bits(dependents[k].sig) \subseteq Cones[dependents[k].depth]
    BY DEF SearchIsSound
  <2>1. dependents[k] \in Sound
    BY LenProperties, ElementOfSeq DEF BuildInv, SearchInv
  <2> QED
    BY <2>1 DEF Sound
<1> QED
  BY <1>1, BuildInvariant, PTL

----------------------------------------------------------------------------
(* What occurs once in one part of a concatenation and in no other part     *)
(* occurs once in it.                                                      *)

Once(s, x) == \E m \in 1 .. Len(s) : s[m] = x /\ \A l \in 1 .. Len(s) : s[l] = x => l = m
Never(s, x) == \A l \in 1 .. Len(s) : s[l] # x

(* Once in one of two sequences and never in the other is once in both. *)
LEMMA OnceInTwo ==
  ASSUME NEW S, NEW s \in Seq(S), NEW t \in Seq(S), NEW x
  PROVE  /\ Never(s, x) /\ Never(t, x) => Never(s \o t, x)
         /\ Once(s, x) /\ Never(t, x) => Once(s \o t, x)
         /\ Never(s, x) /\ Once(t, x) => Once(s \o t, x)
<1> DEFINE a == Len(s)
           b == Len(t)
           u == s \o t
<1>1. /\ a \in Nat /\ b \in Nat /\ Len(u) = a + b
      /\ \A l \in 1 .. (a + b) : u[l] = IF l <= a THEN s[l] ELSE t[l - a]
  BY LenProperties, ConcatProperties
<1> HIDE DEF a, b, u
<1>2. /\ \A l \in 1 .. a : l \in 1 .. (a + b) /\ u[l] = s[l]
      /\ \A l \in 1 .. b : a + l \in 1 .. (a + b) /\ u[a + l] = t[l]
      /\ \A l \in 1 .. (a + b) : l \in 1 .. a \/ \E k \in 1 .. b : l = a + k
  <2>1. \A l \in 1 .. a : l \in 1 .. (a + b) /\ u[l] = s[l]
    BY <1>1
  <2>2. ASSUME NEW l \in 1 .. b PROVE a + l \in 1 .. (a + b) /\ u[a + l] = t[l]
    <3>1. a + l \in 1 .. (a + b) /\ ~(a + l <= a) /\ (a + l) - a = l
      BY <1>1
    <3> QED
      BY <1>1, <3>1
  <2>3. ASSUME NEW l \in 1 .. (a + b), l \notin 1 .. a PROVE \E k \in 1 .. b : l = a + k
    <3>1. l - a \in 1 .. b /\ l = a + (l - a)
      BY <1>1, <2>3
    <3> QED
      BY <3>1
  <2> QED
    BY <2>1, <2>2, <2>3
<1>3. ASSUME \A l \in 1 .. a : s[l] # x, \A l \in 1 .. b : t[l] # x
      PROVE  \A l \in 1 .. (a + b) : u[l] # x
  BY <1>2, <1>3
<1>4. ASSUME NEW m \in 1 .. a, s[m] = x, \A l \in 1 .. a : s[l] = x => l = m,
             \A l \in 1 .. b : t[l] # x
      PROVE  /\ m \in 1 .. (a + b) /\ u[m] = x
             /\ \A l \in 1 .. (a + b) : u[l] = x => l = m
  BY <1>2, <1>4
<1>5. ASSUME NEW m \in 1 .. b, t[m] = x, \A l \in 1 .. b : t[l] = x => l = m,
             \A l \in 1 .. a : s[l] # x
      PROVE  /\ a + m \in 1 .. (a + b) /\ u[a + m] = x
             /\ \A l \in 1 .. (a + b) : u[l] = x => l = a + m
  BY <1>2, <1>5
<1>6. /\ Never(s, x) <=> \A l \in 1 .. a : s[l] # x
      /\ Never(t, x) <=> \A l \in 1 .. b : t[l] # x
      /\ Never(u, x) <=> \A l \in 1 .. (a + b) : u[l] # x
      /\ Once(s, x) <=> \E m \in 1 .. a : s[m] = x /\ \A l \in 1 .. a : s[l] = x => l = m
      /\ Once(t, x) <=> \E m \in 1 .. b : t[m] = x /\ \A l \in 1 .. b : t[l] = x => l = m
      /\ Once(u, x) <=> \E m \in 1 .. (a + b) :
                          u[m] = x /\ \A l \in 1 .. (a + b) : u[l] = x => l = m
  BY <1>1 DEF Never, Once, a, b
<1> QED
  BY <1>3, <1>4, <1>5, <1>6 DEF u

(* The same of a concatenation of many sequences. *)
LEMMA OnceInAll ==
  ASSUME NEW S, NEW seqs \in Seq(Seq(S)), NEW x, NEW i \in 1 .. Len(seqs),
         Once(seqs[i], x), \A j \in 1 .. Len(seqs) : j # i => Never(seqs[j], x)
  PROVE  Once(FlattenSeq(seqs), x)
<1> DEFINE n == Len(seqs)
<1>1. PICK f : IsConcatenation(f, S, seqs, n) /\ FlattenSeq(seqs) = f[n]
  BY FlattenJoins
<1>2. /\ f \in [0 .. n -> Seq(S)] /\ f[0] = <<>>
      /\ \A k \in 1 .. n : f[k] = f[k - 1] \o seqs[k]
      /\ \A k \in 1 .. n : seqs[k] \in Seq(S)
      /\ n \in Nat
  BY <1>1, ElementOfSeq, LenProperties DEF IsConcatenation
<1> DEFINE T == {k \in Nat : k <= n => IF k < i THEN Never(f[k], x) ELSE Once(f[k], x)}
<1>3. 0 \in T
  BY <1>2 DEF Never
<1>4. ASSUME NEW k \in T PROVE k + 1 \in T
  <2>1. k \in Nat /\ k + 1 \in Nat /\ (k + 1) - 1 = k
    OBVIOUS
  <2>2. ASSUME k + 1 <= n
        PROVE  IF k + 1 < i THEN Never(f[k + 1], x) ELSE Once(f[k + 1], x)
    <3>1. /\ k + 1 \in 1 .. n /\ k \in 0 .. n
          /\ IF k < i THEN Never(f[k], x) ELSE Once(f[k], x)
      BY <1>2, <2>1, <2>2
    <3> DEFINE s == f[k]
               t == seqs[k + 1]
    <3>2. s \in Seq(S) /\ t \in Seq(S) /\ f[k + 1] = s \o t
      BY <1>2, <2>1, <3>1
    <3>3. /\ k + 1 < i => Never(s, x) /\ Never(t, x)
          /\ k + 1 = i => Never(s, x) /\ Once(t, x)
          /\ k + 1 > i => Once(s, x) /\ Never(t, x)
      BY <2>1, <3>1
    <3> HIDE DEF s, t
    <3>4. /\ Never(s, x) /\ Never(t, x) => Never(s \o t, x)
          /\ Once(s, x) /\ Never(t, x) => Once(s \o t, x)
          /\ Never(s, x) /\ Once(t, x) => Once(s \o t, x)
      BY <3>2, OnceInTwo
    <3>5. k + 1 < i \/ k + 1 = i \/ k + 1 > i
      BY <2>1
    <3> QED
      BY <2>1, <3>2, <3>3, <3>4, <3>5
  <2> QED
    BY <2>1, <2>2
<1>5. T = Nat
  <2>1. T \in SUBSET Nat
    OBVIOUS
  <2> HIDE DEF T
  <2> QED
    BY <1>3, <1>4, <2>1, AllNumbers
<1>6. n \in T /\ ~(n < i)
  <2> HIDE DEF T
  <2> QED
    BY <1>2, <1>5
<1> QED
  BY <1>1, <1>2, <1>6

(* A set written as a list has each element once. *)
LEMMA SetToSeqOnce ==
  ASSUME NEW S, IsFiniteSet(S)
  PROVE  /\ SetToSeq(S) \in Seq(S)
         /\ DOMAIN SetToSeq(S) = 1 .. Len(SetToSeq(S))
         /\ \A x \in S : Once(SetToSeq(S), x)
<1> DEFINE n == Cardinality(S)
           R == 1 .. n
           q == SetToSeq(S)
<1>1. n \in Nat /\ ExistsBijection(R, S) /\ IsFiniteSet(R) /\ Cardinality(R) = n
  BY FS_CardinalityType, FS_Interval
<1>2. \E f \in [R -> S] : IsInjective(f)
  BY <1>1 DEF ExistsBijection, Bijection, Injection
<1>3. q \in [R -> S] /\ IsInjective(q)
  BY <1>2 DEF SetToSeq
<1>4. q \in Surjection(R, S)
  <2>1. q \in Injection(R, S)
    BY <1>3 DEF Injection
  <2> HIDE DEF R, q
  <2> QED
    BY <1>1, <2>1, FS_Injection
<1>5. \A x \in S : \E m \in R : q[m] = x
  BY <1>4 DEF Surjection
<1>6. q \in Seq(S) /\ Len(q) = n /\ DOMAIN q = 1 .. n
  <2> HIDE DEF n, q
  <2> QED
    BY <1>1, <1>3
<1>7. \A a, b \in R : q[a] = q[b] => a = b
  BY <1>3 DEF IsInjective
<1> HIDE DEF q
<1> QED
  BY <1>5, <1>6, <1>7 DEF Once, q

----------------------------------------------------------------------------
(* The wires of the other passes.                                          *)

(* The selects of the multiplexers: finitely many, of one bit each. *)
LEMMA SelectFacts ==
  ASSUME WellFormed(netlist)
  PROVE  /\ IsFiniteSet(UniqueSelects(netlist))
         /\ \A s \in UniqueSelects(netlist) : s \in Chunks(netlist) /\ s.n = 1
<1> DEFINE M == Muxes(netlist)
           U == UniqueSelects(netlist)
           f == [i \in M |-> SelectOf(netlist.cells[i])]
<1>1. IsFiniteSet(M)
  <2>1. Len(netlist.cells) \in Nat /\ DOMAIN netlist.cells = 1 .. Len(netlist.cells)
    BY LenProperties DEF WellFormed
  <2> DEFINE R == 1 .. Len(netlist.cells)
  <2>2. IsFiniteSet(R) /\ M \in SUBSET R
    BY <2>1, FS_Interval DEF Muxes
  <2> HIDE DEF R, M
  <2> QED
    BY <2>2, FS_Subset
<1>2. f \in Surjection(M, U)
  BY DEF Surjection, UniqueSelects
<1>3. IsFiniteSet(U)
  <2> HIDE DEF f, M, U
  <2> QED
    BY <1>1, <1>2, FS_Surjection
<1>4. ASSUME NEW i \in M
      PROVE  SelectOf(netlist.cells[i]) \in Chunks(netlist) /\ SelectOf(netlist.cells[i]).n = 1
  <2> DEFINE cell == netlist.cells[i]
             port == CHOOSE p \in ToSet(cell.ports) : p.name = "S"
  <2>1. i \in DOMAIN netlist.cells /\ IsMux(cell)
    BY DEF Muxes
  <2>2. \E p \in ToSet(cell.ports) : p.name = "S"
    BY <2>1 DEF WellFormed, ToSet
  <2>3. port \in ToSet(cell.ports) /\ port.name = "S"
    BY <2>2
  <2> HIDE DEF port
  <2>4. PICK p \in DOMAIN cell.ports : port = cell.ports[p]
    BY <2>3 DEF ToSet
  <2>5. Len(port.sig) = 1 /\ port.sig[1].n = 1
    BY <2>1, <2>3, <2>4 DEF WellFormed
  <2>6. port.sig \in Seq(Chunks(netlist))
    BY <2>1, <2>4, CellFacts
  <2>7. port.sig[1] \in Chunks(netlist)
    BY <2>5, <2>6, ElementOfSeq
  <2> QED
    BY <2>5, <2>7 DEF SelectOf, port
<1> QED
  BY <1>3, <1>4 DEF UniqueSelects

(* Chunks of one bit differ by their bit. *)
LEMMA OneBitChunks ==
  ASSUME NEW nl, NEW s \in Chunks(nl), NEW t \in Chunks(nl), s.n = 1, t.n = 1,
         Bits(s) = Bits(t)
  PROVE  s = t
<1>1. /\ s.lo \in Nat /\ t.lo \in Nat
      /\ s = [wire |-> s.wire, lo |-> s.lo, n |-> s.n]
      /\ t = [wire |-> t.wire, lo |-> t.lo, n |-> t.n]
  BY DEF Chunks
<1>2. s.lo \in s.lo .. (s.lo + s.n - 1)
  BY <1>1
<1>3. <<s.wire, s.lo>> \in Bits(t)
  BY <1>2 DEF Bits
<1>4. PICK j \in 0 .. (t.n - 1) : <<s.wire, s.lo>> = <<t.wire, t.lo + j>>
  BY <1>3, BitOfSlice
<1>5. j = 0
  BY <1>4
<1> QED
  BY <1>1, <1>4, <1>5

(* Side by side, every chunk is on one lane. *)
LEMMA SideBySideOnce ==
  ASSUME NEW nl, NEW chunks, IsFiniteSet(chunks),
         \A s \in chunks : s \in Chunks(nl) /\ s.n = 1,
         NEW name, NEW dist, NEW s \in chunks
  PROVE  LET lanes == SideBySide(name, chunks, dist).lanes
         IN  \E k \in DOMAIN lanes :
               /\ lanes[k] = Bits(s)
               /\ \A j \in DOMAIN lanes : lanes[j] = Bits(s) => j = k
<1> DEFINE order == SetToSeq(chunks)
           lanes == [k \in DOMAIN order |-> Bits(order[k])]
<1>1. SideBySide(name, chunks, dist).lanes = lanes
  BY DEF SideBySide, Wire
<1>2. /\ order \in Seq(chunks) /\ DOMAIN order = 1 .. Len(order) /\ Once(order, s)
  BY SetToSeqOnce
<1> HIDE DEF order
<1>3. PICK k \in 1 .. Len(order) :
        order[k] = s /\ \A l \in 1 .. Len(order) : order[l] = s => l = k
  BY <1>2 DEF Once
<1>4. \A l \in 1 .. Len(order) : order[l] \in chunks
  BY <1>2, ElementOfSeq
<1>5. \A l \in 1 .. Len(order) : Bits(order[l]) = Bits(s) => order[l] = s
  BY <1>4, OneBitChunks
<1>6. k \in DOMAIN lanes /\ lanes[k] = Bits(s)
      /\ \A j \in DOMAIN lanes : lanes[j] = Bits(s) => j = k
  BY <1>2, <1>3, <1>5
<1> QED
  BY <1>1, <1>6

(* A set of which one element is known and no other is possible. *)
LEMMA OnlyOne ==
  ASSUME NEW Z, NEW z \in Z, \A y \in Z : y = z
  PROVE  Cardinality(Z) = 1
<1>1. Z = {z}
  OBVIOUS
<1> QED
  BY <1>1, FS_Singleton

(* RFUZZ: one wire with all selects. *)
LEMMA MuxesCovered ==
  ASSUME WellFormed(netlist), NEW ws,
         ws = {SideBySide(<<"coverage">>, UniqueSelects(netlist), 0)},
         NEW s \in UniqueSelects(netlist)
  PROVE  Cardinality({wj \in UNION {{w} \X DOMAIN w.lanes : w \in ws} :
                        wj[1].lanes[wj[2]] = Bits(s)}) = 1
<1> DEFINE w0 == SideBySide(<<"coverage">>, UniqueSelects(netlist), 0)
           Z == {wj \in UNION {{w} \X DOMAIN w.lanes : w \in ws} :
                   wj[1].lanes[wj[2]] = Bits(s)}
<1>1. PICK k \in DOMAIN w0.lanes :
        w0.lanes[k] = Bits(s) /\ \A j \in DOMAIN w0.lanes : w0.lanes[j] = Bits(s) => j = k
  BY SelectFacts, SideBySideOnce
<1> HIDE DEF w0
<1>2. ws = {w0}
  BY DEF w0
<1>3. <<w0, k>> \in Z
  BY <1>1, <1>2
<1>4. \A y \in Z : y = <<w0, k>>
  BY <1>1, <1>2
<1> HIDE DEF Z
<1>5. Cardinality(Z) = 1
  BY <1>3, <1>4, OnlyOne
<1> QED
  BY <1>5 DEF Z

(* The lanes with these bits on wires of this name. *)
LanesWith(ws, name, x) ==
  {wj \in UNION {{w} \X DOMAIN w.lanes : w \in ws} :
     wj[1].lanes[wj[2]] = x /\ wj[1].name = name}

(* Of several wires one has the name, and one of its lanes the bits. *)
LEMMA OneLane ==
  ASSUME NEW ws, NEW w0 \in ws, NEW name, w0.name = name,
         \A w \in ws : w.name = name => w = w0,
         NEW x, NEW k \in DOMAIN w0.lanes, w0.lanes[k] = x,
         \A j \in DOMAIN w0.lanes : w0.lanes[j] = x => j = k
  PROVE  Cardinality(LanesWith(ws, name, x)) = 1
<1> DEFINE Z == {wj \in UNION {{w} \X DOMAIN w.lanes : w \in ws} :
                   wj[1].lanes[wj[2]] = x /\ wj[1].name = name}
<1>1. <<w0, k>> \in Z
  OBVIOUS
<1>2. \A y \in Z : y = <<w0, k>>
  OBVIOUS
<1> HIDE DEF Z
<1>3. Cardinality(Z) = 1
  BY <1>1, <1>2, OnlyOne
<1> QED
  BY <1>3 DEF Z, LanesWith

(* DirectFuzz: one wire for each instance with its selects. *)
LEMMA InstancesCovered ==
  ASSUME WellFormed(netlist), NEW ws,
         ws = {SideBySide(<<inst>>, SelectsIn(netlist, inst), GetDistance(inst))
                 : inst \in {InstanceOf(netlist, s) : s \in UniqueSelects(netlist)}},
         NEW s \in UniqueSelects(netlist)
  PROVE  Cardinality(LanesWith(ws, <<InstanceOf(netlist, s)>>, Bits(s))) = 1
<1> DEFINE own == InstanceOf(netlist, s)
           wireOf(inst) == SideBySide(<<inst>>, SelectsIn(netlist, inst), GetDistance(inst))
           w0 == wireOf(own)
           name == <<own>>
           x == Bits(s)
<1>1. /\ SelectsIn(netlist, own) \in SUBSET UniqueSelects(netlist)
      /\ s \in SelectsIn(netlist, own)
  BY DEF SelectsIn
<1>2. /\ IsFiniteSet(SelectsIn(netlist, own))
      /\ \A t \in SelectsIn(netlist, own) : t \in Chunks(netlist) /\ t.n = 1
  BY <1>1, SelectFacts, FS_Subset
<1>3. PICK k \in DOMAIN w0.lanes :
        w0.lanes[k] = x /\ \A j \in DOMAIN w0.lanes : w0.lanes[j] = x => j = k
  <2> HIDE DEF own
  <2> QED
    BY <1>1, <1>2, SideBySideOnce
<1>4. w0 \in ws /\ w0.name = name
  BY DEF SideBySide, Wire
<1>5. \A w \in ws : w.name = name => w = w0
  BY DEF SideBySide, Wire
<1> HIDE DEF w0, name, x
<1>6. Cardinality(LanesWith(ws, name, x)) = 1
  BY <1>3, <1>4, <1>5, OneLane
<1> QED
  BY <1>6 DEF x, name

(* DifuzzRTL: one wire for each module, on which the bits of its control
   registers are folded.  A bit is on the lane of its place. *)
LEMMA FoldedOnce ==
  ASSUME NEW S, NEW bits \in Seq(S), NEW x, Once(bits, x), NEW name
  PROVE  LET lanes == Folded(name, bits).lanes
         IN  \E j \in DOMAIN lanes :
               /\ x \in lanes[j]
               /\ \A l \in DOMAIN lanes : x \in lanes[l] => l = j
<1> DEFINE lanes == [j \in 1 .. CovBit |-> Lane(bits, j)]
<1>1. Folded(name, bits).lanes = lanes
  BY DEF Folded, Wire
<1>2. PICK m \in 1 .. Len(bits) :
        bits[m] = x /\ \A l \in 1 .. Len(bits) : bits[l] = x => l = m
  BY DEF Once
<1>3. DOMAIN bits = 1 .. Len(bits) /\ Len(bits) \in Nat
  BY LenProperties
<1> DEFINE q == (m - 1) % CovBit
<1>4. q \in 0 .. (CovBit - 1)
  <2> DEFINE place == m - 1
  <2>1. place \in Int
    BY <1>3
  <2> HIDE DEF place
  <2>2. place % CovBit \in 0 .. (CovBit - 1)
    BY <2>1, CovBitAssumption, ModBound
  <2> QED
    BY <2>2 DEF place
<1>5. \A j \in 1 .. CovBit : x \in Lane(bits, j) <=> q = j - 1
  <2> SUFFICES ASSUME NEW j \in 1 .. CovBit PROVE x \in Lane(bits, j) <=> q = j - 1
    OBVIOUS
  <2>1. ASSUME q = j - 1 PROVE x \in Lane(bits, j)
    BY <1>2, <1>3, <2>1 DEF Lane
  <2>2. ASSUME x \in Lane(bits, j) PROVE q = j - 1
    <3>1. PICK k \in DOMAIN bits : x = bits[k] /\ (k - 1) % CovBit = j - 1
      BY <2>2 DEF Lane
    <3> QED
      BY <1>2, <1>3, <3>1
  <2> QED
    BY <2>1, <2>2
<1> HIDE DEF q
<1>6. q + 1 \in 1 .. CovBit /\ (q + 1) - 1 = q
      /\ \A j \in 1 .. CovBit : q = j - 1 => j = q + 1
  BY <1>4, CovBitAssumption
<1>7. q + 1 \in DOMAIN lanes /\ x \in lanes[q + 1]
      /\ \A l \in DOMAIN lanes : x \in lanes[l] => l = q + 1
  BY <1>5, <1>6
<1> QED
  BY <1>1, <1>7

(* The bits of a chunk, one after the other, each once. *)
LEMMA BitSeqOnce ==
  ASSUME NEW nl, NEW ch \in Chunks(nl)
  PROVE  /\ BitSeq(ch) \in Seq(Bits(ch)) /\ Len(BitSeq(ch)) = ch.n
         /\ \A k \in 1 .. ch.n : BitSeq(ch)[k] \in Bits(ch)
         /\ \A x \in Bits(ch) : Once(BitSeq(ch), x)
<1> DEFINE n == ch.n
           lo == ch.lo
           s == BitSeq(ch)
<1>1. n \in Nat /\ lo \in Nat
  BY DEF Chunks
<1>2. s = [i \in 1 .. n |-> <<ch.wire, lo + i - 1>>]
  BY DEF BitSeq
<1>3. Bits(ch) = {<<ch.wire, i>> : i \in lo .. (lo + n - 1)}
  BY DEF Bits
<1> HIDE DEF n, lo, s
<1>4. \A k \in 1 .. n : s[k] \in Bits(ch)
  <2> SUFFICES ASSUME NEW k \in 1 .. n PROVE s[k] \in Bits(ch)
    OBVIOUS
  <2>1. lo + k - 1 \in lo .. (lo + n - 1) /\ s[k] = <<ch.wire, lo + k - 1>>
    BY <1>1, <1>2
  <2> QED
    BY <1>3, <2>1
<1>5. s \in Seq(Bits(ch)) /\ Len(s) = n
  <2> DEFINE B == Bits(ch)
  <2>1. DOMAIN s = 1 .. n /\ s = [k \in 1 .. n |-> s[k]] /\ \A k \in 1 .. n : s[k] \in B
    BY <1>2, <1>4
  <2> HIDE DEF B
  <2>2. s \in Seq(B) /\ Len(s) = n
    BY <1>1, <2>1
  <2> QED
    BY <2>2 DEF B
<1>6. ASSUME NEW x \in Bits(ch) PROVE Once(s, x)
  <2>1. PICK y \in lo .. (lo + n - 1) : x = <<ch.wire, y>>
    BY <1>3
  <2>2. y - lo + 1 \in 1 .. n /\ lo + (y - lo + 1) - 1 = y
        /\ \A l \in 1 .. n : lo + l - 1 = y => l = y - lo + 1
    BY <1>1, <2>1
  <2>3. s[y - lo + 1] = x /\ \A l \in 1 .. n : s[l] = x => l = y - lo + 1
    BY <1>2, <2>1, <2>2
  <2> QED
    BY <1>5, <2>2, <2>3 DEF Once
<1> QED
  BY <1>4, <1>5, <1>6 DEF n, s

----------------------------------------------------------------------------
(* The control registers are registers, each under its own module.         *)

RegisterCells == {i \in DOMAIN netlist.cells : IsReg(netlist.cells[i])}
ControlEntry(i) == [mod |-> ModuleOf(netlist, netlist.cells[i].out),
                    sig |-> netlist.cells[i].out]

ControlInv ==
  /\ regs \in Seq(RegisterCells)
  /\ \A r \in control : \E i \in RegisterCells : r = ControlEntry(i)

(* The bits of a control register are, among the registers of its module laid
   side by side, at one place each. *)
LEMMA RegisterBitOnce ==
  ASSUME WellFormed(netlist), ControlInv, NEW r \in control, NEW x \in Bits(r.sig)
  PROVE  \E S : RegistersSideBySide(r.mod) \in Seq(S) /\ Once(RegistersSideBySide(r.mod), x)
<1>1. PICK i \in RegisterCells : r = ControlEntry(i)
  BY DEF ControlInv
<1> DEFINE cells == netlist.cells
           mod == r.mod
           laid(c) == IsReg(cells[c]) /\ [mod |-> mod, sig |-> cells[c].out] \in control
           part(c) == IF laid(c) THEN BitSeq(cells[c].out) ELSE <<>>
           seqs == [c \in DOMAIN cells |-> part(c)]
           S == UNION {Bits(cells[c].out) : c \in DOMAIN cells}
           none == <<>>
<1>2. RegistersSideBySide(mod) = FlattenSeq(seqs)
  BY DEF RegistersSideBySide
<1>3. Len(cells) \in Nat /\ DOMAIN cells = 1 .. Len(cells)
  BY LenProperties DEF WellFormed
<1>4. ASSUME NEW c \in DOMAIN cells PROVE seqs[c] \in Seq(S)
  <2>1. cells[c].out \in Chunks(netlist)
    BY CellFacts
  <2> DEFINE bs == Bits(cells[c].out)
             q == BitSeq(cells[c].out)
  <2>2. q \in Seq(bs) /\ bs \in SUBSET S
    BY <2>1, BitSeqOnce
  <2>3. q \in Seq(S)
    <3> HIDE DEF q, bs, S
    <3> QED
      BY <2>2
  <2>4. none \in Seq(S)
    BY EmptySeq
  <2> QED
    BY <2>3, <2>4
<1>5. seqs \in Seq(Seq(S)) /\ Len(seqs) = Len(cells)
  <2>1. DOMAIN seqs = 1 .. Len(cells)
    BY <1>3
  <2> HIDE DEF seqs, S
  <2>2. \A c \in 1 .. Len(cells) : seqs[c] \in Seq(S)
    BY <1>3, <1>4
  <2>3. seqs = [c \in 1 .. Len(cells) |-> seqs[c]]
    BY <2>1 DEF seqs
  <2> QED
    BY <1>3, <2>1, <2>2, <2>3
<1>6. i \in DOMAIN cells /\ IsReg(cells[i]) /\ r.sig = cells[i].out
      /\ [mod |-> mod, sig |-> cells[i].out] = r
  BY <1>1 DEF RegisterCells, ControlEntry
<1>7. Once(seqs[i], x)
  <2>1. cells[i].out \in Chunks(netlist) /\ laid(i) /\ seqs[i] = BitSeq(cells[i].out)
    BY <1>6, CellFacts
  <2> QED
    BY <1>6, <2>1, BitSeqOnce
<1>8. ASSUME NEW j \in DOMAIN cells, j # i PROVE Never(seqs[j], x)
  <2>1. CASE laid(j)
    <3>1. cells[j].out \in Chunks(netlist) /\ seqs[j] = BitSeq(cells[j].out)
      BY <2>1, CellFacts
    <3>2. x \notin Bits(cells[j].out)
      BY <1>6, <1>8, <2>1 DEF WellFormed
    <3>3. \A k \in 1 .. Len(BitSeq(cells[j].out)) :
             BitSeq(cells[j].out)[k] \in Bits(cells[j].out)
      BY <3>1, BitSeqOnce
    <3> QED
      BY <3>1, <3>2, <3>3 DEF Never
  <2>2. CASE ~laid(j)
    <3>1. seqs[j] = none /\ Len(none) = 0
      BY <2>2
    <3> QED
      BY <3>1 DEF Never
  <2> QED
    BY <2>1, <2>2
<1>9. Once(FlattenSeq(seqs), x) /\ FlattenSeq(seqs) \in Seq(S)
  <2> HIDE DEF seqs, S
  <2>1. i \in 1 .. Len(seqs) /\ \A j \in 1 .. Len(seqs) : j # i => Never(seqs[j], x)
    BY <1>3, <1>5, <1>6, <1>8
  <2> QED
    BY <1>5, <1>7, <2>1, OnceInAll, FlattenIsSeq
<1> QED
  BY <1>2, <1>9

(* The lanes on wires of this name which the bit is folded into. *)
LanesHolding(ws, name, x) ==
  {wj \in UNION {{w} \X DOMAIN w.lanes : w \in ws} :
     x \in wj[1].lanes[wj[2]] /\ wj[1].name = name}

(* A bit that is once on a wire is on one of its lanes. *)
LEMMA OneLaneHolds ==
  ASSUME NEW ws, NEW w0 \in ws, NEW name, w0.name = name,
         \A w \in ws : w.name = name => w = w0,
         NEW x, NEW k \in DOMAIN w0.lanes, x \in w0.lanes[k],
         \A j \in DOMAIN w0.lanes : x \in w0.lanes[j] => j = k
  PROVE  Cardinality(LanesHolding(ws, name, x)) = 1
<1> DEFINE Z == {wj \in UNION {{w} \X DOMAIN w.lanes : w \in ws} :
                   x \in wj[1].lanes[wj[2]] /\ wj[1].name = name}
<1>1. <<w0, k>> \in Z
  OBVIOUS
<1>2. \A y \in Z : y = <<w0, k>>
  OBVIOUS
<1> HIDE DEF Z
<1>3. Cardinality(Z) = 1
  BY <1>1, <1>2, OnlyOne
<1> QED
  BY <1>3 DEF Z, LanesHolding

(* DifuzzRTL: on the wire of its module, every bit of a control register is on
   one lane. *)
LEMMA ControlCovered ==
  ASSUME WellFormed(netlist), ControlInv, NEW ws,
         ws = {Folded(mod, RegistersSideBySide(mod)) : mod \in {r.mod : r \in control}},
         NEW r \in control, NEW x \in Bits(r.sig)
  PROVE  Cardinality(LanesHolding(ws, r.mod, x)) = 1
<1> DEFINE name == r.mod
           bits == RegistersSideBySide(name)
           w0 == Folded(name, bits)
<1>1. PICK S : bits \in Seq(S) /\ Once(bits, x)
  BY RegisterBitOnce
<1>2. w0 \in ws /\ w0.name = name
  BY DEF Folded, Wire
<1>3. ASSUME NEW w \in ws, w.name = name PROVE w = w0
  <2>1. PICK mod : w = Folded(mod, RegistersSideBySide(mod))
    OBVIOUS
  <2>2. w.name = mod
    BY <2>1 DEF Folded, Wire
  <2> QED
    BY <1>3, <2>1, <2>2
<1>4. PICK j \in DOMAIN w0.lanes :
        /\ x \in w0.lanes[j]
        /\ \A l \in DOMAIN w0.lanes : x \in w0.lanes[l] => l = j
  <2> HIDE DEF name, bits
  <2> QED
    BY <1>1, FoldedOnce
<1>5. Cardinality(LanesHolding(ws, name, x)) = 1
  <2> HIDE DEF w0, name
  <2> QED
    BY <1>2, <1>3, <1>4, OneLaneHolds
<1> QED
  BY <1>5

(* The registers to examine, in the order of the cells. *)
LEMMA ControlInvInit == WellFormed(netlist) /\ ControlInit => ControlInv
<1> SUFFICES ASSUME WellFormed(netlist), ControlInit PROVE ControlInv
  OBVIOUS
<1> DEFINE n == Len(netlist.cells)
           R == RegisterCells
           seqs == [i \in DOMAIN netlist.cells |->
                      IF IsReg(netlist.cells[i]) THEN <<i>> ELSE <<>>]
<1>1. n \in Nat /\ DOMAIN netlist.cells = 1 .. n
  BY LenProperties DEF WellFormed
<1>2. ASSUME NEW i \in 1 .. n PROVE seqs[i] \in Seq(R)
  <2>1. CASE IsReg(netlist.cells[i])
    <3>1. i \in R /\ seqs[i] = <<i>>
      BY <1>1, <2>1 DEF RegisterCells
    <3> HIDE DEF R, seqs
    <3> QED
      BY <3>1
  <2>2. CASE ~IsReg(netlist.cells[i])
    <3> DEFINE none == <<>>
    <3>1. seqs[i] = none /\ none \in Seq(R)
      BY <1>1, <2>2, EmptySeq
    <3> QED
      BY <3>1
  <2> QED
    BY <2>1, <2>2
<1>3. DOMAIN seqs = 1 .. n /\ seqs = [i \in 1 .. n |-> seqs[i]]
  BY <1>1
<1>4. regs = FlattenSeq(seqs) /\ control = {}
  BY DEF ControlInit
<1>5. FlattenSeq(seqs) \in Seq(R)
  <2> HIDE DEF n, R, seqs
  <2>1. seqs \in Seq(Seq(R))
    BY <1>1, <1>2, <1>3
  <2> QED
    BY <2>1, FlattenIsSeq
<1> QED
  BY <1>4, <1>5 DEF ControlInv

(* Only the register examined is added. *)
LEMMA ControlInvStep ==
  ASSUME ControlInv, ControlStep, netlist' = netlist
  PROVE  ControlInv'
<1>1. regs \in Seq(RegisterCells) /\ RegisterCells' = RegisterCells
      /\ \A i : ControlEntry(i)' = ControlEntry(i)
  BY DEF ControlInv, RegisterCells, ControlEntry
<1>2. regs # <<>> /\ (regs' = regs \/ regs' = Tail(regs))
      /\ (control' = control \/ AddControl)
  BY DEF ControlStep, NextRegister
<1>3. Head(regs) \in RegisterCells /\ regs' \in Seq(RegisterCells)
  BY <1>1, <1>2, HeadTailProperties
<1>4. control' \in SUBSET (control \cup {ControlEntry(Head(regs))})
  BY <1>2 DEF AddControl, ControlEntry, Examined
<1> QED
  BY <1>1, <1>3, <1>4 DEF ControlInv

----------------------------------------------------------------------------
(* The coverage wires of the other passes.                                 *)

(* The wires the RFUZZ, DirectFuzz and DifuzzRTL passes add. *)
Added ==
  \/ pass = "surgefuzz"
  \/ /\ pass = "rfuzz"
     /\ wires = {SideBySide(<<"coverage">>, UniqueSelects(netlist), 0)}
  \/ /\ pass = "directfuzz"
     /\ wires = {SideBySide(<<inst>>, SelectsIn(netlist, inst), GetDistance(inst))
           : inst \in {InstanceOf(netlist, s) : s \in UniqueSelects(netlist)}}
  \/ /\ pass = "difuzzrtl"
     /\ wires = {Folded(mod, RegistersSideBySide(mod)) : mod \in {r.mod : r \in control}}

(* Only the SurgeFuzz pass has its signals selected, and a pass that is over
   has added its wires. *)
CoverInv ==
  /\ OfNetlists /\ ControlInv
  /\ phase \in {"analyze", "select", "done"}
  /\ phase = "select" => pass = "surgefuzz"
  /\ phase = "done" => Added

(* A build starts without control registers. *)
LEMMA CoverInvInit == Init => CoverInv
<1> SUFFICES ASSUME Init PROVE CoverInv
  OBVIOUS
<1>1. OfNetlists /\ phase = "analyze" /\ ControlInit
  BY DEF Init, OfNetlists
<1> QED
  BY <1>1, NetlistFacts, ControlInvInit DEF CoverInv

(* Every step of a build: once its wires are added nothing is left to do. *)
LEMMA CoverInvStep == CoverInv /\ [Next]_instrumentVars => CoverInv'
<1> SUFFICES ASSUME CoverInv, [Next]_instrumentVars PROVE CoverInv'
  OBVIOUS
<1>1. ASSUME UNCHANGED <<netlist, pass>> PROVE OfNetlists'
  BY <1>1 DEF CoverInv, OfNetlists
<1>2. ASSUME UNCHANGED <<netlist, controlVars>> PROVE ControlInv'
  BY <1>2 DEF CoverInv, ControlInv, RegisterCells, ControlEntry, controlVars
<1>3. CASE Analyze
  <2>1. UNCHANGED <<netlist, pass, phase>> /\ phase = "analyze"
    BY <1>3 DEF Analyze, buildVars
  <2>2. ControlStep \/ UNCHANGED controlVars
    BY <1>3 DEF Analyze
  <2>3. ControlInv'
    BY <1>2, <2>1, <2>2, ControlInvStep DEF CoverInv
  <2> QED
    BY <1>1, <2>1, <2>3 DEF CoverInv
<1>4. CASE InstrumentDependents
  <2>1. UNCHANGED <<netlist, pass, controlVars>> /\ phase' = "select" /\ pass = "surgefuzz"
    BY <1>4 DEF InstrumentDependents, buildVars
  <2> QED
    BY <1>1, <1>2, <2>1 DEF CoverInv
<1>5. CASE Select
  <2>1. UNCHANGED <<netlist, pass, phase, controlVars>> /\ phase = "select"
    BY <1>5 DEF Select, buildVars
  <2> QED
    BY <1>1, <1>2, <2>1 DEF CoverInv
<1>6. ASSUME NEW ws, Finish(ws)
      PROVE  /\ UNCHANGED <<netlist, pass, controlVars, distanceVars>>
             /\ wires' = ws /\ phase' = "done" /\ OfNetlists' /\ ControlInv'
             /\ Added' => CoverInv'
  <2>1. UNCHANGED <<netlist, pass, controlVars, distanceVars>>
        /\ wires' = ws /\ phase' = "done"
    BY <1>6 DEF Finish, buildVars
  <2> QED
    BY <1>1, <1>2, <2>1 DEF CoverInv
<1>7. CASE InstrumentSelected
  BY <1>6, <1>7 DEF InstrumentSelected, CoverInv, Added
<1>8. CASE InstrumentMuxes
  BY <1>6, <1>8 DEF InstrumentMuxes, Added
<1>9. CASE InstrumentInstances
  <2> DEFINE ws == {SideBySide(<<inst>>, SelectsIn(netlist, inst), GetDistance(inst))
                      : inst \in {InstanceOf(netlist, s) : s \in UniqueSelects(netlist)}}
  <2>1. Finish(ws) /\ pass = "directfuzz"
    BY <1>9 DEF InstrumentInstances
  <2>2. ws' = ws
    <3>1. netlist' = netlist /\ distance' = distance
      BY <1>6, <2>1 DEF distanceVars
    <3>2. \A inst : GetDistance(inst)' = GetDistance(inst)
      BY <3>1 DEF GetDistance
    <3> QED
      BY <3>1, <3>2
  <2> QED
    BY <1>6, <2>1, <2>2 DEF Added
<1>10. CASE InstrumentControl
  <2> DEFINE ws == {Folded(mod, RegistersSideBySide(mod)) : mod \in {r.mod : r \in control}}
  <2>1. Finish(ws) /\ pass = "difuzzrtl"
    BY <1>10 DEF InstrumentControl
  <2>2. ws' = ws
    <3>1. netlist' = netlist /\ control' = control
      BY <1>6, <2>1 DEF controlVars
    <3>2. \A mod : RegistersSideBySide(mod)' = RegistersSideBySide(mod)
      BY <3>1 DEF RegistersSideBySide
    <3> QED
      BY <3>1, <3>2
  <2> QED
    BY <1>6, <2>1, <2>2 DEF Added
<1>11. CASE UNCHANGED instrumentVars
  <2>1. UNCHANGED <<netlist, pass, phase, wires, control, distance, controlVars>>
    BY <1>11 DEF instrumentVars, controlVars, distanceVars
  <2>2. Added' = Added
    <3> DEFINE instances == {SideBySide(<<inst>>, SelectsIn(netlist, inst), GetDistance(inst))
                               : inst \in {InstanceOf(netlist, s) : s \in UniqueSelects(netlist)}}
               modules == {Folded(mod, RegistersSideBySide(mod)) : mod \in {r.mod : r \in control}}
    <3>1. \A inst : GetDistance(inst)' = GetDistance(inst)
      BY <2>1 DEF GetDistance
    <3>2. instances' = instances
      BY <2>1, <3>1
    <3>3. \A mod : RegistersSideBySide(mod)' = RegistersSideBySide(mod)
      BY <2>1 DEF RegistersSideBySide
    <3>4. modules' = modules
      BY <2>1, <3>3
    <3>5. Added <=> \/ pass = "surgefuzz"
                    \/ /\ pass = "rfuzz"
                       /\ wires = {SideBySide(<<"coverage">>, UniqueSelects(netlist), 0)}
                    \/ pass = "directfuzz" /\ wires = instances
                    \/ pass = "difuzzrtl" /\ wires = modules
      BY DEF Added
    <3>6. Added' <=> \/ pass' = "surgefuzz"
                     \/ /\ pass' = "rfuzz"
                        /\ wires' = {SideBySide(<<"coverage">>, UniqueSelects(netlist'), 0)}
                     \/ pass' = "directfuzz" /\ wires' = instances'
                     \/ pass' = "difuzzrtl" /\ wires' = modules'
      BY DEF Added
    <3> HIDE DEF instances, modules
    <3> QED
      BY <2>1, <3>2, <3>4, <3>5, <3>6
  <2> QED
    BY <1>1, <1>2, <2>1, <2>2 DEF CoverInv
<1> QED
  BY <1>3, <1>4, <1>5, <1>7, <1>8, <1>9, <1>10, <1>11 DEF Next

(* On every well-formed netlist, the wires the RFUZZ and DirectFuzz passes add
   have the select of every multiplexer on exactly one lane, for DirectFuzz on
   the wire of its own instance, and those of the DifuzzRTL pass every bit of
   every control register, on the wire of its module. *)
THEOREM EveryTargetAlwaysCovered == Spec => []EveryTargetCovered
<1>1. CoverInv => EveryTargetCovered
  <2> SUFFICES ASSUME CoverInv, phase = "done" PROVE EveryTargetCovered
    BY DEF EveryTargetCovered
  <2>1. WellFormed(netlist) /\ ControlInv /\ Added
    BY NetlistFacts DEF CoverInv
  <2>2. CASE pass = "surgefuzz"
    BY <2>2 DEF EveryTargetCovered
  <2>3. CASE pass = "rfuzz"
    <3>1. wires = {SideBySide(<<"coverage">>, UniqueSelects(netlist), 0)}
      BY <2>1, <2>3 DEF Added
    <3>2. \A s \in UniqueSelects(netlist) :
            Cardinality({wj \in UNION {{w} \X DOMAIN w.lanes : w \in wires} :
                           wj[1].lanes[wj[2]] = Bits(s)}) = 1
      BY <2>1, <3>1, MuxesCovered
    <3> QED
      BY <2>3, <3>2 DEF EveryTargetCovered
  <2>4. CASE pass = "directfuzz"
    <3>1. wires = {SideBySide(<<inst>>, SelectsIn(netlist, inst), GetDistance(inst))
                     : inst \in {InstanceOf(netlist, s) : s \in UniqueSelects(netlist)}}
      BY <2>1, <2>4 DEF Added
    <3>2. \A s \in UniqueSelects(netlist) :
            Cardinality(LanesWith(wires, <<InstanceOf(netlist, s)>>, Bits(s))) = 1
      BY <2>1, <3>1, InstancesCovered
    <3> QED
      BY <2>4, <3>2 DEF EveryTargetCovered, LanesWith
  <2>5. CASE pass = "difuzzrtl"
    <3>1. wires = {Folded(mod, RegistersSideBySide(mod)) : mod \in {r.mod : r \in control}}
      BY <2>1, <2>5 DEF Added
    <3>2. \A r \in control : \A x \in Bits(r.sig) :
            Cardinality(LanesHolding(wires, r.mod, x)) = 1
      BY <2>1, <3>1, ControlCovered
    <3> QED
      BY <2>5, <3>2 DEF EveryTargetCovered, LanesHolding
  <2> QED
    BY <2>1, <2>2, <2>3, <2>4, <2>5 DEF Added
<1> QED
  BY <1>1, CoverInvInit, CoverInvStep, PTL DEF Spec

----------------------------------------------------------------------------
(* The search of the DifuzzRTL pass against its reference.  What is reached *)
(* from a register is closed under one more cell, and the least set that is. *)

Outputs == {netlist.cells[j].out : j \in DOMAIN netlist.cells}

(* A port a signal is connected to is one of a cell of the netlist. *)
LEMMA PortsAreOfCells ==
  ASSUME NEW ch, NEW c \in PortsOf(ch)
  PROVE  /\ c[1] \in DOMAIN netlist.cells
         /\ c[2] \in DOMAIN netlist.cells[c[1]].ports
         /\ c = <<c[1], c[2]>> /\ ~IsMem(netlist.cells[c[1]])
         /\ c \in Consumers(netlist, ch)
  BY DEF PortsOf, Consumers

(* One cell further than a set of signals, port by port. *)
LEMMA BehindPorts ==
  ASSUME NEW reg, NEW S
  PROVE  /\ \A y : y \in Behind(reg, S) <=>
              \/ y \in S
              \/ \E s \in S : /\ InModuleOf(reg, s)
                            /\ \E c \in PortsOf(s) : /\ ~IsReg(netlist.cells[c[1]])
                                                     /\ y = netlist.cells[c[1]].out
         /\ S \subseteq Outputs => Behind(reg, S) \subseteq Outputs
<1>1. \A y : y \in Behind(reg, S) <=>
              \/ y \in S
              \/ \E s \in S : /\ InModuleOf(reg, s)
                            /\ \E c \in PortsOf(s) : /\ ~IsReg(netlist.cells[c[1]])
                                                     /\ y = netlist.cells[c[1]].out
  BY DEF Behind, PortsOf
<1>2. ASSUME S \subseteq Outputs, NEW y \in Behind(reg, S) PROVE y \in Outputs
  <2>1. CASE y \in S
    BY <1>2, <2>1
  <2>2. ASSUME NEW s \in S, NEW c \in PortsOf(s), y = netlist.cells[c[1]].out
        PROVE  y \in Outputs
    BY <2>2, PortsAreOfCells DEF Outputs
  <2> QED
    BY <1>1, <1>2, <2>1, <2>2
<1> QED
  BY <1>1, <1>2

(* The table of Reached, as the repeated application of Behind. *)
LEMMA ReachedByRounds ==
  ASSUME WellFormed(netlist), NEW reg \in Outputs
  PROVE  LET G == [s \in SUBSET Outputs |-> Behind(reg, s)]
         IN  /\ G \in [SUBSET Outputs -> SUBSET Outputs]
             /\ \E f : /\ IsIteration(f, Len(netlist.cells), SUBSET Outputs, {reg}, G)
                       /\ Reached(reg) = f[Len(netlist.cells)]
<1> DEFINE n == Len(netlist.cells)
           S == SUBSET Outputs
           G == [s \in S |-> Behind(reg, s)]
           IsReach(f) == f = [k \in 0 .. n |-> IF k = 0 THEN {reg} ELSE Behind(reg, f[k - 1])]
           h == CHOOSE f : IsReach(f)
           first == {reg}
<1>1. n \in Nat
  BY LenProperties DEF WellFormed
<1>2. G \in [S -> S] /\ first \in S
  BY BehindPorts
<1>3. PICK f : IsIteration(f, n, S, first, G)
  <2> HIDE DEF n, S, G, first
  <2> QED
    BY <1>1, <1>2, IterationExists
<1>4. /\ f \in [0 .. n -> S] /\ f[0] = {reg}
      /\ \A k \in 1 .. n : f[k] = Behind(reg, f[k - 1])
  <2>1. /\ f \in [0 .. n -> S] /\ f[0] = {reg}
        /\ \A k \in 1 .. n : f[k] = G[f[k - 1]]
    BY <1>3 DEF IsIteration
  <2>2. \A k \in 1 .. n : k - 1 \in 0 .. n
    BY <1>1
  <2>3. \A k \in 1 .. n : f[k - 1] \in S
    <3> HIDE DEF n, S
    <3> QED
      BY <2>1, <2>2
  <2>4. \A s \in S : G[s] = Behind(reg, s)
    OBVIOUS
  <2> HIDE DEF G, S
  <2> QED
    BY <2>1, <2>3, <2>4
<1>5. IsReach(f)
  <2>0. \A k \in 0 .. n : k # 0 => k \in 1 .. n
    BY <1>1
  <2>1. \A k \in 0 .. n : f[k] = IF k = 0 THEN {reg} ELSE Behind(reg, f[k - 1])
    <3> HIDE DEF n, S
    <3> QED
      BY <1>4, <2>0
  <2>2. f = [k \in 0 .. n |-> f[k]]
    BY <1>4
  <2> HIDE DEF n, S
  <2> QED
    BY <2>1, <2>2
<1>6. IsReach(h)
  <2> HIDE DEF IsReach
  <2> QED
    BY <1>5
<1>7. Reached(reg) = h[n]
  BY DEF Reached
<1> HIDE DEF h
<1>8. h[0] = {reg} /\ \A k \in 1 .. n : h[k] = Behind(reg, h[k - 1])
  <2>1. \A k \in 0 .. n : h[k] = IF k = 0 THEN {reg} ELSE Behind(reg, h[k - 1])
    BY <1>6
  <2>2. 0 \in 0 .. n /\ \A k \in 1 .. n : k \in 0 .. n /\ k # 0
    BY <1>1
  <2> QED
    BY <2>1, <2>2
<1> DEFINE T == {k \in Nat : k <= n => h[k] = f[k]}
<1>9. 0 \in T
  BY <1>4, <1>8
<1>10. ASSUME NEW k \in T PROVE k + 1 \in T
  <2>1. k \in Nat /\ k + 1 \in Nat /\ (k + 1) - 1 = k
    OBVIOUS
  <2>2. ASSUME k + 1 <= n PROVE h[k + 1] = f[k + 1]
    <3>1. k + 1 \in 1 .. n /\ h[k] = f[k]
      BY <1>1, <2>1, <2>2
    <3>2. h[k + 1] = Behind(reg, h[k]) /\ f[k + 1] = Behind(reg, f[k])
      BY <1>4, <1>8, <2>1, <3>1
    <3> QED
      BY <3>1, <3>2
  <2> QED
    BY <2>1, <2>2
<1>11. T = Nat
  <2>1. T \in SUBSET Nat
    OBVIOUS
  <2> HIDE DEF T
  <2> QED
    BY <1>9, <1>10, <2>1, AllNumbers
<1>12. h[n] = f[n]
  BY <1>1, <1>11
<1> QED
  BY <1>2, <1>3, <1>7, <1>12

ClosedBehind(reg, V) ==
  \A s \in V : InModuleOf(reg, s) =>
    \A c \in PortsOf(s) : ~IsReg(netlist.cells[c[1]]) => netlist.cells[c[1]].out \in V

(* What is reached has the register's output, with a signal of its module all
   that is one cell further, and nothing that need not be there. *)
LEMMA ReachedFacts ==
  ASSUME WellFormed(netlist), NEW reg \in Outputs
  PROVE  /\ reg \in Reached(reg) /\ Reached(reg) \subseteq Outputs
         /\ ClosedBehind(reg, Reached(reg))
         /\ \A V : reg \in V /\ ClosedBehind(reg, V) => Reached(reg) \subseteq V
<1> DEFINE n == Len(netlist.cells)
           U == Outputs
           S == SUBSET U
           G == [s \in S |-> Behind(reg, s)]
           first == {reg}
           R == Reached(reg)
<1>1. n \in Nat
  BY LenProperties DEF WellFormed
<1>2. G \in [S -> S] /\ \E f : IsIteration(f, n, S, first, G) /\ R = f[n]
  BY ReachedByRounds
<1>3. PICK f : IsIteration(f, n, S, first, G) /\ R = f[n]
  BY <1>2
<1>4. IsFiniteSet(U) /\ Cardinality(U) <= n
  <2> DEFINE D == 1 .. n
             q == [j \in D |-> netlist.cells[j].out]
  <2>1. DOMAIN netlist.cells = D
    BY LenProperties DEF WellFormed
  <2>2. q \in Surjection(D, U)
    BY <2>1 DEF Surjection, Outputs
  <2>3. IsFiniteSet(D) /\ Cardinality(D) = n
    BY <1>1, FS_Interval
  <2> HIDE DEF D, U, q, n
  <2> QED
    BY <2>2, <2>3, FS_Surjection
<1>5. \A s \in S : s \subseteq G[s]
  BY BehindPorts
<1>6. G[f[n]] = f[n] /\ first \subseteq f[n]
  <2>1. first \in S /\ first # {}
    OBVIOUS
  <2> HIDE DEF U, first, G, n
  <2> QED
    BY <1>1, <1>2, <1>3, <1>4, <1>5, <2>1, GrowthStops
<1>7. f[n] \in S
  <2> HIDE DEF n, S, first, G
  <2> QED
    BY <1>1, <1>3 DEF IsIteration
<1>8. reg \in R /\ R \in S /\ Behind(reg, R) = R
  BY <1>3, <1>6, <1>7
<1>9. ASSUME NEW V, reg \in V, ClosedBehind(reg, V) PROVE R \subseteq V
  <2> DEFINE T == {k \in Nat : k <= n => f[k] \subseteq V}
  <2>1. /\ f \in [0 .. n -> S] /\ f[0] = {reg}
        /\ \A k \in 1 .. n : f[k] = G[f[k - 1]]
    BY <1>3 DEF IsIteration
  <2>2. 0 \in T
    BY <1>9, <2>1
  <2>3. ASSUME NEW k \in T PROVE k + 1 \in T
    <3>1. k \in Nat /\ k + 1 \in Nat /\ (k + 1) - 1 = k
      OBVIOUS
    <3>2. ASSUME k + 1 <= n PROVE f[k + 1] \subseteq V
      <4>1. k \in 0 .. n /\ k + 1 \in 1 .. n /\ k <= n
        BY <1>1, <3>1, <3>2
      <4> DEFINE a == f[k]
                 b == f[k + 1]
      <4>2. a \subseteq V
        BY <4>1
      <4>3. a \in S /\ b = G[a]
        <5> HIDE DEF n, S, G
        <5> QED
          BY <2>1, <3>1, <4>1
      <4>4. b = Behind(reg, a)
        <5> HIDE DEF a, b, S
        <5> QED
          BY <4>3
      <4> HIDE DEF a, b
      <4>5. b \subseteq V
        BY <1>9, <4>2, <4>4, BehindPorts DEF ClosedBehind
      <4> QED
        BY <4>5 DEF b
    <3> QED
      BY <3>1, <3>2
  <2>4. T = Nat
    <3>1. T \in SUBSET Nat
      OBVIOUS
    <3> HIDE DEF T
    <3> QED
      BY <2>2, <2>3, <3>1, AllNumbers
  <2>5. n \in T /\ n <= n
    BY <1>1, <2>4
  <2> HIDE DEF n
  <2>6. f[n] \subseteq V
    BY <2>5
  <2> QED
    BY <1>3, <2>6
<1> HIDE DEF R
<1>10. ASSUME NEW s \in R, InModuleOf(reg, s), NEW c \in PortsOf(s),
              ~IsReg(netlist.cells[c[1]])
       PROVE  netlist.cells[c[1]].out \in R
  <2>1. netlist.cells[c[1]].out \in Behind(reg, R)
    BY <1>10, BehindPorts
  <2> QED
    BY <1>8, <2>1
<1>11. ClosedBehind(reg, R)
  BY <1>10 DEF ClosedBehind
<1> QED
  BY <1>8, <1>9, <1>11 DEF R

(* What one part of a concatenation has, the concatenation has. *)
LEMMA FlattenHas ==
  ASSUME NEW S, NEW seqs \in Seq(Seq(S)), NEW i \in 1 .. Len(seqs),
         NEW l \in 1 .. Len(seqs[i])
  PROVE  \E m \in 1 .. Len(FlattenSeq(seqs)) : FlattenSeq(seqs)[m] = seqs[i][l]
<1> DEFINE n == Len(seqs)
           x == seqs[i][l]
           Has(q) == \E m \in 1 .. Len(q) : q[m] = x
<1>1. PICK f : IsConcatenation(f, S, seqs, n) /\ FlattenSeq(seqs) = f[n]
  BY FlattenJoins
<1>2. /\ f \in [0 .. n -> Seq(S)]
      /\ \A k \in 1 .. n : f[k] = f[k - 1] \o seqs[k]
      /\ \A k \in 1 .. n : seqs[k] \in Seq(S)
      /\ n \in Nat /\ i \in 1 .. n
  BY <1>1, ElementOfSeq, LenProperties DEF IsConcatenation
<1>3. Has(seqs[i])
  OBVIOUS
<1> HIDE DEF x
<1>4. ASSUME NEW a \in Seq(S), NEW b \in Seq(S), Has(a) \/ Has(b) PROVE Has(a \o b)
  <2> DEFINE la == Len(a)
             lb == Len(b)
             c == a \o b
  <2>1. /\ la \in Nat /\ lb \in Nat /\ Len(c) = la + lb
        /\ \A m \in 1 .. (la + lb) : c[m] = IF m <= la THEN a[m] ELSE b[m - la]
    BY LenProperties, ConcatProperties
  <2> HIDE DEF la, lb, c
  <2>2. ASSUME NEW m \in 1 .. la, a[m] = x PROVE Has(c)
    <3>1. m \in 1 .. (la + lb) /\ m <= la
      BY <2>1
    <3> QED
      BY <2>1, <2>2, <3>1
  <2>3. ASSUME NEW m \in 1 .. lb, b[m] = x PROVE Has(c)
    <3>1. la + m \in 1 .. (la + lb) /\ ~(la + m <= la) /\ (la + m) - la = m
      BY <2>1
    <3> QED
      BY <2>1, <2>3, <3>1
  <2> QED
    BY <1>4, <2>2, <2>3 DEF la, lb, c
<1> DEFINE T == {k \in Nat : k <= n /\ i <= k => Has(f[k])}
<1>5. 0 \in T
  BY <1>2
<1>6. ASSUME NEW k \in T PROVE k + 1 \in T
  <2>1. k \in Nat /\ k + 1 \in Nat /\ (k + 1) - 1 = k
    OBVIOUS
  <2>2. ASSUME k + 1 <= n, i <= k + 1 PROVE Has(f[k + 1])
    <3>1. k \in 0 .. n /\ k + 1 \in 1 .. n
      BY <1>2, <2>1, <2>2
    <3> DEFINE a == f[k]
               b == seqs[k + 1]
    <3>2. a \in Seq(S) /\ b \in Seq(S) /\ f[k + 1] = a \o b
      BY <1>2, <2>1, <3>1
    <3>3. Has(a) \/ Has(b)
      <4>1. CASE i <= k
        <5>1. Has(f[k])
          BY <2>1, <3>1, <4>1
        <5> QED
          BY <5>1
      <4>2. CASE ~(i <= k)
        <5>1. i = k + 1
          BY <1>2, <2>1, <2>2, <4>2
        <5> QED
          BY <1>3, <5>1
      <4> QED
        BY <4>1, <4>2
    <3> HIDE DEF a, b, Has
    <3>4. Has(a \o b)
      BY <1>4, <3>2, <3>3
    <3> QED
      BY <3>2, <3>4
  <2> QED
    BY <2>1, <2>2
<1>7. T = Nat
  <2>1. T \in SUBSET Nat
    OBVIOUS
  <2> HIDE DEF T
  <2> QED
    BY <1>5, <1>6, <2>1, AllNumbers
<1>8. n \in Nat /\ n <= n /\ i <= n
  BY <1>2
<1>9. Has(f[n])
  <2> HIDE DEF n, Has
  <2>1. n \in T
    <3> HIDE DEF T
    <3> QED
      BY <1>7, <1>8
  <2> QED
    BY <1>8, <2>1
<1> QED
  BY <1>1, <1>9 DEF x

(* Everything not yet met that a port leads to is pushed, and nothing else. *)
LEMMA PushesFacts ==
  ASSUME WellFormed(netlist), NEW ports,
         \A c \in ports : c[1] \in DOMAIN netlist.cells
  PROVE  /\ Pushes(ports) \in Seq({netlist.cells[c[1]].out : c \in ports})
         /\ \A c \in ports : netlist.cells[c[1]].out \in met \cup ToSet(Pushes(ports))
<1> DEFINE n == Len(netlist.cells)
           out(j) == netlist.cells[j].out
           P == PushedCells(ports)
           Y == {netlist.cells[c[1]].out : c \in ports}
           seqs == [j \in DOMAIN netlist.cells |-> IF j \in P THEN <<out(j)>> ELSE <<>>]
           none == <<>>
<1>1. n \in Nat /\ DOMAIN netlist.cells = 1 .. n
  BY LenProperties DEF WellFormed
<1>2. Pushes(ports) = FlattenSeq(seqs)
  BY DEF Pushes
<1>3. ASSUME NEW j \in 1 .. n PROVE seqs[j] \in Seq(Y)
  <2>1. CASE j \in P
    <3>1. out(j) \in Y
      BY <2>1 DEF PushedCells
    <3>2. seqs[j] = <<out(j)>>
      BY <1>1, <2>1
    <3> HIDE DEF Y, seqs, out
    <3> QED
      BY <3>1, <3>2
  <2>2. CASE j \notin P
    <3>1. seqs[j] = none /\ none \in Seq(Y)
      BY <1>1, <2>2, EmptySeq
    <3> QED
      BY <3>1
  <2> QED
    BY <2>1, <2>2
<1>4. DOMAIN seqs = 1 .. n /\ seqs = [j \in 1 .. n |-> seqs[j]]
  BY <1>1
<1>5. seqs \in Seq(Seq(Y)) /\ Len(seqs) = n
  <2> HIDE DEF n, seqs, Y
  <2> QED
    BY <1>1, <1>3, <1>4
<1>6. FlattenSeq(seqs) \in Seq(Y)
  <2> HIDE DEF seqs, Y
  <2> QED
    BY <1>5, FlattenIsSeq
<1>7. ASSUME NEW c \in ports, out(c[1]) \notin met PROVE out(c[1]) \in ToSet(FlattenSeq(seqs))
  <2> DEFINE x == out(c[1])
             I == {j \in 1 .. n : (\E d \in ports : d[1] = j) /\ out(j) = x}
  <2>1. c[1] \in I /\ I \in SUBSET Nat /\ I # {}
    BY <1>1
  <2>2. PICK j \in I : \A k \in I : j <= k
    <3> HIDE DEF I
    <3> QED
      BY <2>1, LeastExists
  <2>3. j \in 1 .. n /\ out(j) = x /\ \E d \in ports : d[1] = j
    BY <2>2
  <2>4. ASSUME NEW d \in ports, d[1] < j PROVE out(d[1]) # x
    <3>1. SUFFICES ASSUME out(d[1]) = x PROVE FALSE
      OBVIOUS
    <3>2. d[1] \in I
      BY <1>1, <3>1
    <3> QED
      BY <1>1, <2>2, <2>3, <2>4, <3>2
  <2>5. j \in P
    BY <1>7, <2>3, <2>4 DEF PushedCells
  <2>6. seqs[j] = <<x>>
    BY <1>1, <2>3, <2>5
  <2> HIDE DEF seqs, x, I, n
  <2> DEFINE one == 1
  <2>7. one \in 1 .. Len(seqs[j]) /\ seqs[j][one] = x /\ j \in 1 .. Len(seqs)
    BY <1>5, <2>3, <2>6
  <2>8. PICK m \in 1 .. Len(FlattenSeq(seqs)) : FlattenSeq(seqs)[m] = seqs[j][one]
    <3> HIDE DEF Y, one
    <3> QED
      BY <1>5, <2>7, FlattenHas
  <2>9. m \in DOMAIN FlattenSeq(seqs)
    <3> HIDE DEF Y
    <3> QED
      BY <1>6, <2>8, LenProperties
  <2>10. x \in ToSet(FlattenSeq(seqs))
    BY <2>7, <2>8, <2>9 DEF ToSet
  <2> QED
    BY <2>10 DEF x
<1> QED
  BY <1>2, <1>6, <1>7

(* There is a first among any ports of cells. *)
LEMMA FirstOfPorts ==
  ASSUME WellFormed(netlist), NEW ports, ports # {},
         \A c \in ports : /\ c = <<c[1], c[2]>> /\ c[1] \in DOMAIN netlist.cells
                          /\ c[2] \in DOMAIN netlist.cells[c[1]].ports
  PROVE  FirstOf(ports) \in ports
<1>1. \A c \in ports : c[1] \in Nat /\ c[2] \in Nat
  <2>1. DOMAIN netlist.cells = 1 .. Len(netlist.cells) /\ Len(netlist.cells) \in Nat
    BY LenProperties DEF WellFormed
  <2>2. ASSUME NEW c \in ports
        PROVE  DOMAIN netlist.cells[c[1]].ports \in SUBSET Nat
    <3>1. netlist.cells[c[1]].ports \in Seq([name : STRING, sig : Seq(Chunks(netlist))])
      BY CellFacts
    <3> QED
      BY <3>1, LenProperties
  <2> QED
    BY <2>1, <2>2
<1> DEFINE I == {c[1] : c \in ports}
<1>2. I \in SUBSET Nat /\ I # {}
  BY <1>1
<1>3. PICK i \in I : \A k \in I : i <= k
  <2> HIDE DEF I
  <2> QED
    BY <1>2, LeastExists
<1> DEFINE J == {c[2] : c \in {d \in ports : d[1] = i}}
<1>4. J \in SUBSET Nat /\ J # {}
  BY <1>1, <1>3
<1>5. PICK j \in J : \A k \in J : j <= k
  <2> HIDE DEF J
  <2> QED
    BY <1>4, LeastExists
<1>6. PICK c \in ports : c[1] = i /\ c[2] = j
  BY <1>5
<1>7. ASSUME NEW d \in ports PROVE d = c \/ Before(c, d)
  <2>1. i <= d[1] /\ d[1] \in Nat /\ d[2] \in Nat /\ i \in Nat /\ j \in Nat
    BY <1>1, <1>3, <1>6
  <2>2. CASE d[1] = i
    <3>1. j <= d[2]
      BY <1>5, <2>2
    <3>2. CASE d[2] = j
      BY <1>6, <2>2, <3>2
    <3>3. CASE d[2] # j
      BY <1>6, <2>1, <2>2, <3>1, <3>3 DEF Before
    <3> QED
      BY <3>2, <3>3
  <2>3. CASE d[1] # i
    BY <1>6, <2>1, <2>3 DEF Before
  <2> QED
    BY <2>2, <2>3
<1>8. \E c0 \in ports : \A d \in ports : d = c0 \/ Before(c0, d)
  BY <1>7
<1> QED
  BY <1>8 DEF FirstOf

(* What is in a queue is its head or behind it, and what is in either part of
   a concatenation is in it. *)
LEMMA QueueMembers ==
  ASSUME NEW S, NEW s \in Seq(S)
  PROVE  /\ s # <<>> => ToSet(s) = {Head(s)} \cup ToSet(Tail(s))
         /\ \A t \in Seq(S) : ToSet(s \o t) = ToSet(s) \cup ToSet(t)
<1>1. ASSUME s # <<>> PROVE ToSet(s) = {Head(s)} \cup ToSet(Tail(s))
  <2> DEFINE n == Len(s)
             t == Tail(s)
  <2>1. /\ n \in Nat /\ n # 0 /\ DOMAIN s = 1 .. n /\ Head(s) = s[1]
        /\ t \in Seq(S) /\ Len(t) = n - 1 /\ DOMAIN t = 1 .. (n - 1)
        /\ \A i \in 1 .. (n - 1) : t[i] = s[i + 1]
    BY <1>1, LenProperties, HeadTailProperties, EmptySeq
  <2> HIDE DEF n, t
  <2>2. ASSUME NEW i \in 1 .. n PROVE s[i] = s[1] \/ s[i] \in ToSet(t)
    <3>1. CASE i = 1
      BY <3>1
    <3>2. CASE i # 1
      <4>1. i - 1 \in 1 .. (n - 1) /\ (i - 1) + 1 = i
        BY <2>1, <3>2
      <4> QED
        BY <2>1, <4>1 DEF ToSet
    <3> QED
      BY <3>1, <3>2
  <2>3. ASSUME NEW i \in 1 .. (n - 1) PROVE t[i] \in ToSet(s)
    <3>1. i + 1 \in 1 .. n
      BY <2>1
    <3> QED
      BY <2>1, <3>1 DEF ToSet
  <2>4. s[1] \in ToSet(s)
    <3>1. 1 \in 1 .. n
      BY <2>1
    <3> QED
      BY <2>1, <3>1 DEF ToSet
  <2>5. ToSet(s) \subseteq {s[1]} \cup ToSet(t)
    <3>1. \A y \in ToSet(s) : \E i \in 1 .. n : y = s[i]
      BY <2>1 DEF ToSet
    <3> QED
      BY <2>2, <3>1
  <2>6. ToSet(t) \subseteq ToSet(s)
    <3>1. \A y \in ToSet(t) : \E i \in 1 .. (n - 1) : y = t[i]
      BY <2>1 DEF ToSet
    <3> QED
      BY <2>3, <3>1
  <2> QED
    BY <2>1, <2>4, <2>5, <2>6 DEF t
<1>2. ASSUME NEW t \in Seq(S) PROVE ToSet(s \o t) = ToSet(s) \cup ToSet(t)
  <2> DEFINE n == Len(s)
             m == Len(t)
             u == s \o t
  <2>1. /\ n \in Nat /\ m \in Nat /\ DOMAIN s = 1 .. n /\ DOMAIN t = 1 .. m
        /\ DOMAIN u = 1 .. (n + m)
        /\ \A i \in 1 .. (n + m) : u[i] = IF i <= n THEN s[i] ELSE t[i - n]
    BY LenProperties, ConcatProperties
  <2> HIDE DEF n, m, u
  <2>2. ASSUME NEW i \in 1 .. n PROVE s[i] \in ToSet(u)
    <3>1. i \in 1 .. (n + m) /\ i <= n
      BY <2>1
    <3> QED
      BY <2>1, <3>1 DEF ToSet
  <2>3. ASSUME NEW i \in 1 .. m PROVE t[i] \in ToSet(u)
    <3>1. n + i \in 1 .. (n + m) /\ ~(n + i <= n) /\ (n + i) - n = i
      BY <2>1
    <3>2. u[n + i] = t[i]
      BY <2>1, <3>1
    <3> QED
      BY <2>1, <3>1, <3>2 DEF ToSet
  <2>4. ASSUME NEW i \in 1 .. (n + m) PROVE u[i] \in ToSet(s) \cup ToSet(t)
    <3>1. CASE i <= n
      <4>1. i \in 1 .. n /\ u[i] = s[i]
        BY <2>1, <3>1
      <4> QED
        BY <2>1, <4>1 DEF ToSet
    <3>2. CASE ~(i <= n)
      <4>1. i - n \in 1 .. m /\ u[i] = t[i - n]
        BY <2>1, <3>2
      <4> QED
        BY <2>1, <4>1 DEF ToSet
    <3> QED
      BY <3>1, <3>2
  <2>5. /\ \A y \in ToSet(u) : \E i \in 1 .. (n + m) : y = u[i]
        /\ \A y \in ToSet(s) : \E i \in 1 .. n : y = s[i]
        /\ \A y \in ToSet(t) : \E i \in 1 .. m : y = t[i]
    BY <2>1 DEF ToSet
  <2>6. ToSet(u) = ToSet(s) \cup ToSet(t)
    BY <2>2, <2>3, <2>4, <2>5
  <2> QED
    BY <2>6 DEF u
<1> QED
  BY <1>1, <1>2

(* The search of a register: what is queued is reached, and what was met is
   queued still or all its ports have been followed, as far as it is in the
   module of the register. *)
Searching(reg) ==
  /\ sigs \in Seq(Reached(reg))
  /\ \A s \in met \cup {reg} :
       \/ s \in ToSet(sigs)
       \/ InModuleOf(reg, s) =>
            \A c \in PortsOf(s) : /\ PortVerdict(c) = "none"
                                  /\ netlist.cells[c[1]].out \in met \cup {reg}

(* The answer for a register is found, or none is due. *)
Decided(i) ==
  \/ ControlEntry(i) \in control
  \/ \A reg \in {netlist.cells[i].out} : Selects(reg) => MeetsRegister(reg)

(* Every register is still to be examined or decided, and every one taken for
   a control register is one. *)
FoundInv ==
  /\ regs \in Seq(RegisterCells)
  /\ \A r \in control : (\E i \in RegisterCells : r = ControlEntry(i)) /\ Selects(r.sig)
  /\ \A i \in RegisterCells : i \in ToSet(regs) \/ Decided(i)
  /\ regs # <<>> => \A reg \in {Examined} : Searching(reg)

(* The reference depends on the netlist alone. *)
LEMMA ReferenceStays ==
  ASSUME netlist' = netlist
  PROVE  \A x : /\ Reached(x)' = Reached(x) /\ PortsOf(x)' = PortsOf(x)
                /\ PortVerdict(x)' = PortVerdict(x) /\ ControlEntry(x)' = ControlEntry(x)
                /\ (\A y : InModuleOf(x, y)' = InModuleOf(x, y))
                /\ Selects(x)' = Selects(x) /\ MeetsRegister(x)' = MeetsRegister(x)
                /\ RegisterCells' = RegisterCells
<1> TAKE x
<1>1. \A y : InModuleOf(x, y)' = InModuleOf(x, y)
  BY DEF InModuleOf
<1>2. \A S : Behind(x, S)' = Behind(x, S)
  BY <1>1 DEF Behind
<1>3. Reached(x)' = Reached(x)
  BY DEF Reached, Behind, InModuleOf
<1>4. \A y : PortsOf(y)' = PortsOf(y)
  BY DEF PortsOf
<1>5. PortsMet(x)' = PortsMet(x)
  BY <1>1, <1>3, <1>4 DEF PortsMet, Cloud
<1>6. Selects(x)' = Selects(x) /\ MeetsRegister(x)' = MeetsRegister(x)
  BY <1>5 DEF Selects, MeetsRegister
<1>7. PortVerdict(x)' = PortVerdict(x) /\ ControlEntry(x)' = ControlEntry(x)
      /\ RegisterCells' = RegisterCells
  BY DEF PortVerdict, ControlEntry, RegisterCells
<1> QED
  BY <1>1, <1>3, <1>4, <1>6, <1>7

(* The first register to examine is ready to be: its search starts at its
   output, which is not met yet. *)
LEMMA SearchStarts ==
  ASSUME WellFormed(netlist), NEW rest, NEW reg,
         regs' = rest, rest \in Seq(RegisterCells), rest # <<>>, netlist' = netlist,
         reg = netlist.cells[Head(rest)].out, sigs' = FirstSig(rest), met' = {}
  PROVE  Searching(reg)'
<1> DEFINE one == <<reg>>
<1>1. reg \in Outputs
  BY HeadTailProperties DEF RegisterCells, Outputs
<1>2. reg \in Reached(reg)
  BY <1>1, ReachedFacts
<1>3. sigs' = one /\ met' = {}
  BY DEF FirstSig
<1>4. one \in Seq(Reached(reg)) /\ reg \in ToSet(one)
  <2>1. one \in Seq(Reached(reg))
    BY <1>2
  <2>2. 1 \in DOMAIN one /\ one[1] = reg
    OBVIOUS
  <2> QED
    BY <2>1, <2>2 DEF ToSet
<1> HIDE DEF one
<1> QED
  BY <1>3, <1>4, ReferenceStays DEF Searching

(* A port that does not end the search leads to no register. *)
LEMMA UndecidedPort ==
  ASSUME NEW c, PortVerdict(c) = "none"
  PROVE  /\ ~IsReg(netlist.cells[c[1]])
         /\ ~(/\ IsMux(netlist.cells[c[1]])
              /\ netlist.cells[c[1]].ports[c[2]].name = "S")
  BY DEF PortVerdict, Verdict

(* A port that does has met the select of a multiplexer, or a register. *)
LEMMA DecidedPort ==
  ASSUME NEW c, PortVerdict(c) # "none"
  PROVE  /\ PortVerdict(c) = "control" =>
              /\ IsMux(netlist.cells[c[1]])
              /\ netlist.cells[c[1]].ports[c[2]].name = "S"
         /\ PortVerdict(c) # "control" => IsReg(netlist.cells[c[1]])
  BY DEF PortVerdict, Verdict

(* A search that runs out of signals has met every port the register's output
   leads to, and none of them ends it. *)
LEMMA NothingFound ==
  ASSUME WellFormed(netlist), NEW reg \in Outputs, Searching(reg), sigs = <<>>
  PROVE  ~Selects(reg)
<1> DEFINE V == met \cup {reg}
<1>1. ToSet(sigs) = {}
  BY DEF ToSet
<1>2. \A s \in V : InModuleOf(reg, s) =>
        \A c \in PortsOf(s) : PortVerdict(c) = "none" /\ netlist.cells[c[1]].out \in V
  BY <1>1 DEF Searching
<1>3. reg \in V /\ ClosedBehind(reg, V)
  BY <1>2 DEF ClosedBehind
<1> HIDE DEF V
<1>4. Reached(reg) \subseteq V
  BY <1>3, ReachedFacts
<1>5. ASSUME NEW c \in PortsMet(reg) PROVE PortVerdict(c) = "none"
  BY <1>2, <1>4 DEF PortsMet, Cloud
<1> QED
  BY <1>5, UndecidedPort DEF Selects

(* A port that ends the search is one the register's output leads to. *)
LEMMA EndsAreMet ==
  ASSUME WellFormed(netlist), NEW reg, reg = Examined, Searching(reg), sigs # <<>>,
         InScope(Head(sigs)), NEW ends, ends = Deciding(PortsOf(Head(sigs))), ends # {}
  PROVE  IF PortVerdict(FirstOf(ends)) = "control" THEN Selects(reg)
         ELSE MeetsRegister(reg)
<1> DEFINE cur == Head(sigs)
           d == FirstOf(ends)
<1>1. cur \in Cloud(reg)
  <2>1. cur \in Reached(reg)
    BY HeadTailProperties DEF Searching
  <2> QED
    BY <2>1 DEF Cloud, InModuleOf, InScope
<1>2. ends \subseteq PortsOf(cur) /\ \A c \in ends : PortVerdict(c) # "none"
  BY DEF Deciding
<1>3. d \in ends
  <2> HIDE DEF cur, d
  <2>1. \A c \in ends : /\ c = <<c[1], c[2]>> /\ c[1] \in DOMAIN netlist.cells
                        /\ c[2] \in DOMAIN netlist.cells[c[1]].ports
    BY <1>2, PortsAreOfCells
  <2> QED
    BY <2>1, FirstOfPorts DEF d
<1> HIDE DEF cur, d
<1>4. d \in PortsMet(reg) /\ PortVerdict(d) # "none"
  BY <1>1, <1>2, <1>3 DEF PortsMet
<1> QED
  BY <1>4, DecidedPort DEF Selects, MeetsRegister, d

(* A signal out of the module of the register is not followed. *)
LEMMA SearchSkips ==
  ASSUME NEW reg, reg = Examined, Searching(reg), sigs # <<>>, ~InScope(Head(sigs)),
         sigs' = Tail(sigs), met' = met, netlist' = netlist
  PROVE  Searching(reg)'
<1> DEFINE V == met \cup {reg}
<1>1. /\ Tail(sigs) \in Seq(Reached(reg))
      /\ ToSet(sigs) = {Head(sigs)} \cup ToSet(Tail(sigs))
  BY QueueMembers, HeadTailProperties DEF Searching
<1>2. ~InModuleOf(reg, Head(sigs))
  BY DEF InScope, InModuleOf
<1>3. \A s \in V : \/ s \in ToSet(sigs')
                   \/ InModuleOf(reg, s) =>
                        \A c \in PortsOf(s) : /\ PortVerdict(c) = "none"
                                              /\ netlist.cells[c[1]].out \in V
  BY <1>1, <1>2 DEF Searching
<1> QED
  BY <1>1, <1>3, ReferenceStays DEF Searching

(* The outputs of the cells a signal is connected to are queued, as far as
   they are met for the first time. *)
LEMMA SearchFollows ==
  ASSUME WellFormed(netlist), NEW reg \in Outputs, reg = Examined, Searching(reg),
         sigs # <<>>, InScope(Head(sigs)), NEW ports, ports = PortsOf(Head(sigs)),
         Deciding(ports) = {}, sigs' = Tail(sigs) \o Pushes(ports),
         met' = met \cup ToSet(Pushes(ports)), netlist' = netlist
  PROVE  Searching(reg)'
<1> DEFINE cur == Head(sigs)
           rest == Tail(sigs)
           new == Pushes(ports)
           R == Reached(reg)
           V == met \cup {reg}
           W == V \cup ToSet(new)
           Explored(s, X) == InModuleOf(reg, s) =>
             \A c \in PortsOf(s) : PortVerdict(c) = "none" /\ netlist.cells[c[1]].out \in X
<1>1. cur \in R /\ rest \in Seq(R) /\ ToSet(sigs) = {cur} \cup ToSet(rest)
  BY QueueMembers, HeadTailProperties DEF Searching
<1>2. InModuleOf(reg, cur)
  BY DEF InScope, InModuleOf
<1>3. \A c \in ports : PortVerdict(c) = "none" /\ ~IsReg(netlist.cells[c[1]])
                       /\ c[1] \in DOMAIN netlist.cells
  BY UndecidedPort, PortsAreOfCells DEF Deciding
<1>4. \A c \in ports : netlist.cells[c[1]].out \in R
  BY <1>1, <1>2, <1>3, ReachedFacts DEF ClosedBehind
<1>5. /\ new \in Seq({netlist.cells[c[1]].out : c \in ports})
      /\ \A c \in ports : netlist.cells[c[1]].out \in met \cup ToSet(new)
  BY <1>3, PushesFacts
<1>6. new \in Seq(R)
  <2> DEFINE Y == {netlist.cells[c[1]].out : c \in ports}
  <2>1. Y \subseteq R /\ new \in Seq(Y)
    BY <1>4, <1>5
  <2> HIDE DEF Y, R, new
  <2> QED
    BY <2>1
<1>7. sigs' = rest \o new /\ met' \cup {reg} = W
  OBVIOUS
<1>8. sigs' \in Seq(R) /\ ToSet(sigs') = ToSet(rest) \cup ToSet(new)
  <2>1. rest \in Seq(R) /\ new \in Seq(R) /\ sigs' = rest \o new
    BY <1>1, <1>6
  <2> HIDE DEF rest, new, R
  <2>2. rest \o new \in Seq(R)
    BY <2>1, ConcatProperties
  <2>3. ToSet(rest \o new) = ToSet(rest) \cup ToSet(new)
    BY <2>1, QueueMembers
  <2> QED
    BY <2>1, <2>2, <2>3
<1>9. Explored(cur, W)
  BY <1>3, <1>5
<1>10. \A s \in V : s \in ToSet(sigs) \/ Explored(s, V)
  BY DEF Searching
<1>11. \A s : Explored(s, V) => Explored(s, W)
  OBVIOUS
<1>12. \A s \in W : s \in ToSet(sigs') \/ Explored(s, W)
  <2> HIDE DEF Explored, cur, rest, new
  <2> QED
    BY <1>1, <1>8, <1>9, <1>10, <1>11
<1> HIDE DEF R, W
<1>13. \A s \in met' \cup {reg} :
         \/ s \in ToSet(sigs')
         \/ InModuleOf(reg, s) =>
              \A c \in PortsOf(s) : /\ PortVerdict(c) = "none"
                                    /\ netlist.cells[c[1]].out \in met' \cup {reg}
  BY <1>7, <1>12
<1>14. sigs' \in Seq(Reached(reg))
  BY <1>8 DEF R
<1> QED
  BY <1>13, <1>14, ReferenceStays DEF Searching

(* The next register: the one examined is decided. *)
LEMMA NextRegisterKeepsFound ==
  ASSUME WellFormed(netlist), FoundInv, regs # <<>>, NextRegister, netlist' = netlist,
         NEW reg, reg = Examined,
         \/ control' = control /\ (Selects(reg) => MeetsRegister(reg))
         \/ AddControl /\ Selects(reg)
  PROVE  FoundInv'
<1> DEFINE h == Head(regs)
           rest == Tail(regs)
<1>1. /\ h \in RegisterCells /\ rest \in Seq(RegisterCells)
      /\ ToSet(regs) = {h} \cup ToSet(rest) /\ regs' = rest
  BY QueueMembers, HeadTailProperties DEF FoundInv, NextRegister
<1>2. /\ reg = netlist.cells[h].out
      /\ ControlEntry(h) = [mod |-> ModuleOf(netlist, reg), sig |-> reg]
  BY DEF Examined, ControlEntry
<1>3. AddControl => control' = control \cup {ControlEntry(h)}
  BY <1>2 DEF AddControl
<1>4. RegisterCells' = RegisterCells
  BY ReferenceStays
<1>5. \A r \in control' : (\E i \in RegisterCells : r = ControlEntry(i)) /\ Selects(r.sig)
  <2>1. ControlEntry(h).sig = reg
    BY <1>2
  <2> QED
    BY <1>1, <1>3, <2>1 DEF FoundInv
<1>6. ASSUME NEW i \in RegisterCells, i \notin ToSet(rest) PROVE Decided(i)'
  <2>1. i = h \/ Decided(i)
    BY <1>1, <1>6 DEF FoundInv
  <2>2. \/ ControlEntry(i) \in control'
        \/ \A x \in {netlist.cells[i].out} : Selects(x) => MeetsRegister(x)
    <3>1. CASE i = h
      BY <1>2, <1>3, <3>1
    <3>2. CASE i # h
      BY <1>3, <2>1, <3>2 DEF Decided
    <3> QED
      BY <3>1, <3>2
  <2> QED
    BY <2>2, ReferenceStays DEF Decided
<1>7. ASSUME rest # <<>>, NEW x, x = netlist.cells[Head(rest)].out
      PROVE  Searching(x)'
  <2>1. sigs' = FirstSig(rest) /\ met' = {}
    BY DEF NextRegister
  <2> HIDE DEF rest
  <2> QED
    BY <1>1, <1>7, <2>1, SearchStarts
<1>8. regs' # <<>> => \A x \in {Examined'} : Searching(x)'
  <2>1. Examined' = netlist.cells[Head(regs')].out
    BY DEF Examined
  <2> QED
    BY <1>1, <1>7, <2>1
<1>9. \A i \in RegisterCells' : i \in ToSet(regs') \/ Decided(i)'
  BY <1>1, <1>4, <1>6
<1>10. \A r \in control' : (\E i \in RegisterCells' : r = ControlEntry(i)') /\ Selects(r.sig)'
  BY <1>4, <1>5, ReferenceStays
<1> HIDE DEF rest, h
<1> QED
  BY <1>1, <1>4, <1>8, <1>9, <1>10 DEF FoundInv

(* The search of a register goes on: nothing is decided. *)
LEMMA SearchKeepsFound ==
  ASSUME FoundInv, UNCHANGED <<netlist, regs, control>>,
         regs # <<>> => \A reg \in {Examined} : Searching(reg)'
  PROVE  FoundInv'
<1>1. Examined' = Examined
  BY DEF Examined
<1>2. RegisterCells' = RegisterCells
  BY ReferenceStays
<1>3. \A i : Decided(i)' = Decided(i)
  BY ReferenceStays DEF Decided
<1>4. \A r : (\E i \in RegisterCells : r = ControlEntry(i)) =>
             \E i \in RegisterCells' : r = ControlEntry(i)'
  BY <1>2, ReferenceStays
<1>5. \A r \in control' : (\E i \in RegisterCells' : r = ControlEntry(i)') /\ Selects(r.sig)'
  BY <1>4, ReferenceStays DEF FoundInv
<1> QED
  BY <1>1, <1>2, <1>3, <1>5 DEF FoundInv

(* One step of the search. *)
LEMMA FoundInvStep ==
  ASSUME WellFormed(netlist), FoundInv, ControlStep, netlist' = netlist
  PROVE  FoundInv'
<1>0. PICK reg : reg = Examined
  OBVIOUS
<1> DEFINE cur == Head(sigs)
           ports == PortsOf(cur)
           ends == Deciding(ports)
<1>1. regs # <<>> /\ Searching(reg)
  BY <1>0 DEF ControlStep, FoundInv
<1>2. reg \in Outputs
  BY <1>0, <1>1, HeadTailProperties DEF FoundInv, Examined, RegisterCells, Outputs
<1>3. CASE sigs = <<>>
  <2>1. NextRegister /\ control' = control
    BY <1>3 DEF ControlStep
  <2>2. ~Selects(reg)
    BY <1>1, <1>2, <1>3, NothingFound
  <2> QED
    BY <1>1, <2>1, <2>2, <1>0, NextRegisterKeepsFound
<1>4. CASE sigs # <<>> /\ ~InScope(cur)
  <2>1. sigs' = Tail(sigs) /\ UNCHANGED <<regs, met, control>>
    BY <1>4 DEF ControlStep
  <2>2. Searching(reg)'
    BY <1>1, <1>4, <2>1, <1>0, SearchSkips
  <2> QED
    BY <2>1, <2>2, <1>0, SearchKeepsFound
<1>5. CASE sigs # <<>> /\ InScope(cur) /\ ends = {}
  <2>1. /\ sigs' = Tail(sigs) \o Pushes(ports)
        /\ met' = met \cup ToSet(Pushes(ports))
        /\ UNCHANGED <<regs, control>>
    BY <1>5 DEF ControlStep
  <2>2. Searching(reg)'
    BY <1>1, <1>2, <1>5, <2>1, <1>0, SearchFollows
  <2> QED
    BY <2>1, <2>2, <1>0, SearchKeepsFound
<1>6. CASE sigs # <<>> /\ InScope(cur) /\ ends # {}
  <2>1. /\ NextRegister
        /\ IF PortVerdict(FirstOf(ends)) = "control" THEN AddControl
           ELSE control' = control
    BY <1>6 DEF ControlStep
  <2>2. IF PortVerdict(FirstOf(ends)) = "control" THEN Selects(reg)
        ELSE MeetsRegister(reg)
    BY <1>1, <1>6, <1>0, EndsAreMet
  <2> QED
    BY <1>1, <2>1, <2>2, <1>0, NextRegisterKeepsFound
<1> QED
  BY <1>3, <1>4, <1>5, <1>6

(* Every register is to be examined first. *)
LEMMA FoundInvInit == WellFormed(netlist) /\ ControlInit => FoundInv
<1> SUFFICES ASSUME WellFormed(netlist), ControlInit PROVE FoundInv
  OBVIOUS
<1> DEFINE n == Len(netlist.cells)
           R == RegisterCells
           seqs == [i \in DOMAIN netlist.cells |->
                      IF IsReg(netlist.cells[i]) THEN <<i>> ELSE <<>>]
<1>1. n \in Nat /\ DOMAIN netlist.cells = 1 .. n
  BY LenProperties DEF WellFormed
<1>2. regs = FlattenSeq(seqs) /\ sigs = FirstSig(regs) /\ met = {} /\ control = {}
  BY DEF ControlInit
<1>3. regs \in Seq(R)
  BY ControlInvInit DEF ControlInv
<1>4. ASSUME NEW i \in 1 .. n PROVE seqs[i] \in Seq(R)
  <2>1. CASE IsReg(netlist.cells[i])
    <3>1. i \in R /\ seqs[i] = <<i>>
      BY <1>1, <2>1 DEF RegisterCells
    <3> HIDE DEF R, seqs
    <3> QED
      BY <3>1
  <2>2. CASE ~IsReg(netlist.cells[i])
    <3> DEFINE none == <<>>
    <3>1. seqs[i] = none /\ none \in Seq(R)
      BY <1>1, <2>2, EmptySeq
    <3> QED
      BY <3>1
  <2> QED
    BY <2>1, <2>2
<1>5. seqs \in Seq(Seq(R)) /\ Len(seqs) = n
  <2>1. DOMAIN seqs = 1 .. n /\ seqs = [i \in 1 .. n |-> seqs[i]]
    BY <1>1
  <2> HIDE DEF n, R, seqs
  <2> QED
    BY <1>1, <1>4, <2>1
<1>6. ASSUME NEW i \in R PROVE i \in ToSet(regs)
  <2> DEFINE one == 1
  <2>1. i \in 1 .. n /\ seqs[i] = <<i>>
    BY <1>1 DEF RegisterCells
  <2> HIDE DEF n, seqs
  <2>2. i \in 1 .. Len(seqs) /\ one \in 1 .. Len(seqs[i]) /\ seqs[i][one] = i
    BY <1>5, <2>1
  <2> HIDE DEF R, one
  <2>3. \E m \in 1 .. Len(FlattenSeq(seqs)) : FlattenSeq(seqs)[m] = seqs[i][one]
    BY <1>5, <2>2, FlattenHas
  <2>4. \E m \in 1 .. Len(regs) : regs[m] = i
    BY <1>2, <2>2, <2>3
  <2> QED
    BY <1>3, <2>4, LenProperties DEF ToSet
<1> HIDE DEF R, seqs
<1>7. ASSUME regs # <<>>, NEW reg, reg = Examined PROVE Searching(reg)
  <2> DEFINE one == <<reg>>
  <2>1. reg \in Outputs
    BY <1>3, <1>7, HeadTailProperties DEF R, RegisterCells, Outputs, Examined
  <2>2. reg \in Reached(reg)
    BY <2>1, ReachedFacts
  <2>3. sigs = one
    BY <1>2, <1>7 DEF FirstSig, Examined
  <2>4. one \in Seq(Reached(reg)) /\ reg \in ToSet(one)
    <3>1. one \in Seq(Reached(reg))
      BY <2>2
    <3>2. 1 \in DOMAIN one /\ one[1] = reg
      OBVIOUS
    <3> QED
      BY <3>1, <3>2 DEF ToSet
  <2> HIDE DEF one
  <2> QED
    BY <1>2, <2>3, <2>4 DEF Searching
<1> QED
  BY <1>2, <1>3, <1>6, <1>7 DEF FoundInv, R

(* In every build, whatever the pass. *)
LEMMA FoundInvNext ==
  ASSUME OfNetlists, FoundInv, [Next]_instrumentVars
  PROVE  OfNetlists' /\ FoundInv'
<1>1. WellFormed(netlist) /\ UNCHANGED <<netlist, pass>>
  BY NetlistFacts DEF Next, Analyze, InstrumentDependents, Select, InstrumentSelected,
       InstrumentMuxes, InstrumentInstances, InstrumentControl, Finish, buildVars,
       instrumentVars
<1>2. ControlStep \/ UNCHANGED <<regs, sigs, met, control>>
  BY DEF Next, Analyze, InstrumentDependents, Select, InstrumentSelected,
       InstrumentMuxes, InstrumentInstances, InstrumentControl, Finish, controlVars,
       instrumentVars
<1>3. OfNetlists'
  BY <1>1 DEF OfNetlists
<1>4. CASE ControlStep
  BY <1>1, <1>3, <1>4, FoundInvStep
<1>5. CASE UNCHANGED <<regs, sigs, met, control>>
  <2>1. ASSUME NEW reg, Searching(reg) PROVE Searching(reg)'
    BY <1>1, <1>5, <2>1, ReferenceStays DEF Searching
  <2>2. regs # <<>> => \A reg \in {Examined} : Searching(reg)'
    BY <2>1 DEF FoundInv
  <2> QED
    BY <1>1, <1>3, <1>5, <2>2, SearchKeepsFound
<1> QED
  BY <1>2, <1>4, <1>5

(* On every well-formed netlist, the DifuzzRTL pass takes only registers that
   decide the selection of a multiplexer of their module, each under its own
   module, and misses none of them unless its output also feeds a register. *)
THEOREM ControlAlwaysFound == Spec => []ControlFound
<1>1. Init => OfNetlists /\ FoundInv
  <2> SUFFICES ASSUME Init PROVE OfNetlists /\ FoundInv
    OBVIOUS
  <2>1. OfNetlists /\ ControlInit
    BY DEF Init, OfNetlists
  <2> QED
    BY <2>1, NetlistFacts, FoundInvInit
<1>2. OfNetlists /\ FoundInv /\ [Next]_instrumentVars => (OfNetlists /\ FoundInv)'
  BY FoundInvNext
<1>3. FoundInv => ControlFound
  <2> SUFFICES ASSUME FoundInv PROVE ControlFound
    OBVIOUS
  <2>1. ASSUME NEW r \in control PROVE r.mod = ModuleOf(netlist, r.sig) /\ Selects(r.sig)
    BY DEF FoundInv, ControlEntry
  <2>2. ASSUME ControlOver, NEW r \in Registers \ {c.sig : c \in control}, Selects(r)
        PROVE  MeetsRegister(r)
    <3>1. PICK i \in RegisterCells : r = netlist.cells[i].out
      BY DEF Registers, RegisterCells
    <3>2. ToSet(regs) = {}
      BY <2>2 DEF ControlOver, ToSet
    <3>3. ControlEntry(i) \notin control
      <4>1. ControlEntry(i).sig = r
        BY <3>1 DEF ControlEntry
      <4> QED
        BY <2>2, <4>1
    <3> QED
      BY <2>2, <3>1, <3>2, <3>3 DEF FoundInv, Decided
  <2> QED
    BY <2>1, <2>2 DEF ControlFound
<1> QED
  BY <1>1, <1>2, <1>3, PTL DEF Spec

----------------------------------------------------------------------------
(* The search of the SurgeFuzz pass: what it does not miss.                *)

(* A slice between the ends of another has only bits of it. *)
LEMMA SliceWithin ==
  ASSUME NEW nl, NEW s \in Chunks(nl), NEW y \in Chunks(nl), s.wire = y.wire,
         y.lo <= s.lo, s.lo + s.n <= y.lo + y.n
  PROVE  Bits(s) \subseteq Bits(y)
<1>1. s.lo \in Nat /\ s.n \in Nat /\ y.lo \in Nat /\ y.n \in Nat
  BY DEF Chunks
<1>2. \A b \in s.lo .. (s.lo + s.n - 1) : b \in y.lo .. (y.lo + y.n - 1)
  BY <1>1
<1> QED
  BY <1>2 DEF Bits

(* A chunk has bits. *)
LEMMA ChunkHasBits ==
  ASSUME NEW nl, NEW s \in Chunks(nl)
  PROVE  Bits(s) # {} /\ <<s.wire, s.lo>> \in Bits(s)
<1>1. s.lo \in Nat /\ s.n \in Nat \ {0}
  BY DEF Chunks
<1>2. s.lo \in s.lo .. (s.lo + s.n - 1)
  BY <1>1
<1> QED
  BY <1>2 DEF Bits

(* What drives all of a slice drives all of a part of it, and a part is read by
   no memory that does not read the slice. *)
LEMMA DriversOfPart ==
  ASSUME NEW s, NEW y, Bits(s) # {}, Bits(s) \subseteq Bits(y)
  PROVE  Drivers(y) \subseteq Drivers(s)
<1>1. Connected(netlist, s) \subseteq Connected(netlist, y)
  BY DEF Connected
<1>2. \A i \in Connected(netlist, y) :
        Bits(y) \subseteq Bits(netlist.cells[i].out) => i \in Connected(netlist, s)
  BY DEF Connected
<1> QED
  BY <1>1, <1>2 DEF Drivers

(* A slice whose parts are driven by nothing but what drives all of it. *)
Regular(y) == \A s \in Chunks(netlist) : Bits(s) \subseteq Bits(y) => Drivers(s) \subseteq Drivers(y)

(* Where no wire is read whole and driven in pieces, so is every slice of what
   a port takes. *)
LEMMA SlicesAreRegular ==
  ASSUME WellFormed(netlist), DrivenWhole, NEW i \in DOMAIN netlist.cells,
         ~IsMem(netlist.cells[i]), NEW p \in DOMAIN netlist.cells[i].ports,
         NEW k \in DOMAIN netlist.cells[i].ports[p].sig,
         NEW ch, ch = netlist.cells[i].ports[p].sig[k], ~IsConst(ch),
         NEW y \in Chunks(netlist), Bits(y) \subseteq Bits(ch)
  PROVE  Regular(y)
<1> SUFFICES ASSUME NEW s \in Chunks(netlist), Bits(s) \subseteq Bits(y)
             PROVE  Drivers(s) \subseteq Drivers(y)
  BY DEF Regular
<1>1. ch \in Chunks(netlist)
  BY CellFacts
<1>2. ch \in ToSet(netlist.cells[i].ports[p].sig)
  BY DEF ToSet
<1> DEFINE b == s.lo
           one == Chunk(ch.wire, b, 1)
<1>3. /\ s.wire = ch.wire /\ b \in Nat /\ b \in ch.lo .. (ch.lo + ch.n - 1)
  <2> DEFINE w == s.n
             lo == ch.lo
             n == ch.n
  <2>1. /\ s.wire = ch.wire /\ s.lo \in Nat /\ ch.lo \in Nat /\ s.n \in Nat \ {0} /\ ch.n \in Nat \ {0}
        /\ ch.lo <= s.lo /\ s.lo + s.n <= ch.lo + ch.n
    BY <1>1, SliceOfOutput
  <2>2. b \in Nat /\ lo \in Nat /\ w \in Nat \ {0} /\ n \in Nat \ {0}
        /\ lo <= b /\ b + w <= lo + n
    BY <2>1
  <2> HIDE DEF b, lo, w, n
  <2>3. b \in lo .. (lo + n - 1)
    BY <2>2
  <2> QED
    BY <2>1, <2>2, <2>3 DEF lo, n
<1>4. Bits(one) = {<<s.wire, s.lo>>}
  <2>1. one.wire = s.wire /\ one.lo = b /\ one.n = 1
    BY <1>3 DEF Chunk
  <2> HIDE DEF one
  <2>2. one.lo .. (one.lo + one.n - 1) = {b}
    BY <1>3, <2>1
  <2> QED
    BY <2>1, <2>2 DEF Bits
<1>5. Drivers(one) \subseteq Drivers(ch)
  BY <1>2, <1>3 DEF DrivenWhole
<1>6. <<s.wire, s.lo>> \in Bits(s) /\ Bits(y) # {}
  BY ChunkHasBits
<1> HIDE DEF one
<1>7. Drivers(s) \subseteq Drivers(one)
  BY <1>4, <1>6, DriversOfPart
<1>8. Drivers(ch) \subseteq Drivers(y)
  BY <1>6, DriversOfPart
<1> QED
  BY <1>5, <1>7, <1>8

(* The input chunk of a visit, and what a slice of the output leads to there. *)
ChunkOf(v) == netlist.cells[v[1]].ports[v[2]].sig[v[3]]
Leads(y, v) ==
  Traced(y, netlist.cells[v[1]], netlist.cells[v[1]].ports[v[2]].name, ChunkOf(v))

(* Where the bits lie that a visit leads to. *)
LEMMA LeadsWhere ==
  ASSUME WellFormed(netlist), NEW y \in Chunks(netlist), NEW v \in DrivingChunks(y)
  PROVE  LET ch == ChunkOf(v)
             out == netlist.cells[v[1]].out
             level == DataflowLevel(netlist.cells[v[1]], netlist.cells[v[1]].ports[v[2]].name)
             offset == y.lo - out.lo
         IN  /\ ch \in Chunks(netlist) /\ out \in Chunks(netlist)
             /\ Bits(y) \subseteq Bits(out) /\ offset \in Nat
             /\ IsConst(Leads(y, v)) <=>
                  (IsConst(ch) \/ level = "NONE" \/ (level = "BIT" /\ ch.n <= offset))
             /\ ~IsConst(Leads(y, v)) =>
                  /\ Leads(y, v) \in Chunks(netlist)
                  /\ level = "ALL" => Leads(y, v) = ch
                  /\ level # "ALL" =>
                       /\ Leads(y, v).wire = ch.wire
                       /\ Leads(y, v).lo = ch.lo + offset
                       /\ Leads(y, v).n = IF y.n < ch.n - offset THEN y.n ELSE ch.n - offset
<1> DEFINE cell == netlist.cells[v[1]]
           name == cell.ports[v[2]].name
           ch == ChunkOf(v)
           out == cell.out
           level == DataflowLevel(cell, name)
           offset == y.lo - out.lo
           next == Leads(y, v)
<1>1. /\ v[1] \in Drivers(y) /\ v[2] \in DOMAIN cell.ports
      /\ v[3] \in DOMAIN cell.ports[v[2]].sig
  BY DEF DrivingChunks
<1>2. /\ v[1] \in DOMAIN netlist.cells /\ Bits(y) \subseteq Bits(out)
      /\ cell.type \in {"dff", "mux", "alu", "cmp"}
  BY <1>1, DriverFacts
<1>3. ch \in Chunks(netlist) /\ out \in Chunks(netlist)
  BY <1>1, <1>2, CellFacts DEF ChunkOf
<1>4. level \in {"ALL", "BIT", "NONE"}
  <2> HIDE DEF cell, name
  <2> QED
    BY <1>2, LevelOfCell
<1>5. /\ y.lo \in Nat /\ out.lo \in Nat /\ out.lo <= y.lo
      /\ ch.lo \in Nat /\ ch.n \in Nat
  <2>1. ch.lo \in Nat /\ ch.n \in Nat
    <3> HIDE DEF ch
    <3> QED
      BY <1>3 DEF Chunks
  <2> HIDE DEF out
  <2> QED
    BY <1>2, <1>3, <2>1, SliceOfOutput
<1>6. offset \in Nat
  <2> DEFINE a == y.lo
             b == out.lo
  <2>1. a \in Nat /\ b \in Nat /\ b <= a
    BY <1>5
  <2> HIDE DEF a, b
  <2>2. a - b \in Nat
    BY <2>1
  <2> QED
    BY <2>2 DEF a, b
<1>7. next = IF IsConst(ch) \/ level = "NONE" THEN Const(0)
             ELSE IF level = "ALL" THEN ch ELSE TracedBits(y, out, ch)
  BY DEF Leads, Traced
<1>8. IsConst(Const(0))
  BY DEF IsConst, Const, Chunk
<1>9. TracedBits(y, out, ch) =
        IF ch.n <= offset THEN Const(0)
        ELSE Chunk(ch.wire, ch.lo + offset,
                   IF y.n < ch.n - offset THEN y.n ELSE ch.n - offset)
  BY DEF TracedBits
<1>10. ~IsConst(next) => next \in Chunks(netlist)
  <2>1. next = Traced(y, netlist.cells[v[1]], netlist.cells[v[1]].ports[v[2]].name,
                      netlist.cells[v[1]].ports[v[2]].sig[v[3]])
    BY DEF Leads, ChunkOf
  <2> HIDE DEF next, ch
  <2> QED
    BY <1>1, <2>1, TracedDecides
<1> DEFINE part == Chunk(ch.wire, ch.lo + offset,
                         IF y.n < ch.n - offset THEN y.n ELSE ch.n - offset)
<1>11. /\ part.wire = ch.wire
       /\ part.lo = ch.lo + offset
       /\ part.n = IF y.n < ch.n - offset THEN y.n ELSE ch.n - offset
  BY DEF Chunk
<1>12. /\ IsConst(next) <=> (IsConst(ch) \/ level = "NONE" \/ (level = "BIT" /\ ch.n <= offset))
       /\ ~IsConst(next) =>
            /\ level = "ALL" => next = ch
            /\ level # "ALL" => next = part
  <2> HIDE DEF next, level, ch, offset, out
  <2>1. IsConst(part) <=> IsConst(ch)
    BY <1>11 DEF IsConst
  <2> HIDE DEF part
  <2>2. TracedBits(y, out, ch) = IF ch.n <= offset THEN Const(0) ELSE part
    BY <1>9 DEF part, offset
  <2> QED
    BY <1>4, <1>7, <1>8, <2>1, <2>2
<1> HIDE DEF part
<1> QED
  BY <1>2, <1>3, <1>6, <1>10, <1>11, <1>12

(* A part of a slice leads to a part of what the slice leads to. *)
LEMMA LeadsWithin ==
  ASSUME WellFormed(netlist), NEW s \in Chunks(netlist), NEW y \in Chunks(netlist),
         Bits(s) \subseteq Bits(y), NEW v \in DrivingChunks(s), v \in DrivingChunks(y),
         ~IsConst(Leads(s, v))
  PROVE  /\ ~IsConst(Leads(y, v)) /\ ~IsConst(ChunkOf(v))
         /\ Leads(y, v) \in Chunks(netlist)
         /\ Bits(Leads(s, v)) \subseteq Bits(Leads(y, v))
         /\ Bits(Leads(y, v)) \subseteq Bits(ChunkOf(v))
<1> DEFINE ch == ChunkOf(v)
           out == netlist.cells[v[1]].out
           level == DataflowLevel(netlist.cells[v[1]], netlist.cells[v[1]].ports[v[2]].name)
           a == s.lo - out.lo
           b == y.lo - out.lo
           ns == Leads(s, v)
           ny == Leads(y, v)
<1>1. /\ ch \in Chunks(netlist) /\ a \in Nat
      /\ ~(IsConst(ch) \/ level = "NONE" \/ (level = "BIT" /\ ch.n <= a))
      /\ ns \in Chunks(netlist)
      /\ level = "ALL" => ns = ch
      /\ level # "ALL" => /\ ns.wire = ch.wire
                          /\ ns.lo = ch.lo + a
                          /\ ns.n = IF s.n < ch.n - a THEN s.n ELSE ch.n - a
  <2> HIDE DEF ch, level, ns, a, out
  <2> QED
    BY LeadsWhere DEF ch, level, ns, a, out
<1>2. /\ b \in Nat
      /\ IsConst(ny) <=> (IsConst(ch) \/ level = "NONE" \/ (level = "BIT" /\ ch.n <= b))
      /\ ~IsConst(ny) =>
            /\ ny \in Chunks(netlist)
            /\ level = "ALL" => ny = ch
            /\ level # "ALL" => /\ ny.wire = ch.wire
                                /\ ny.lo = ch.lo + b
                                /\ ny.n = IF y.n < ch.n - b THEN y.n ELSE ch.n - b
  <2> HIDE DEF ch, level, ny, b, out
  <2> QED
    BY LeadsWhere DEF ch, level, ny, b, out
<1>3. level = "BIT" \/ level = "ALL"
  BY <1>1, DriverFacts, LevelOfCell DEF DrivingChunks
<1>4. /\ s.lo \in Nat /\ y.lo \in Nat /\ s.n \in Nat \ {0} /\ y.n \in Nat \ {0}
      /\ y.lo <= s.lo /\ s.lo + s.n <= y.lo + y.n
  BY SliceOfOutput
<1>5. ch.lo \in Nat /\ ch.n \in Nat \ {0}
  <2> HIDE DEF ch
  <2> QED
    BY <1>1 DEF Chunks
<1>6. out.lo \in Nat
  <2>1. out \in Chunks(netlist)
    <3> HIDE DEF out
    <3> QED
      BY LeadsWhere DEF out
  <2> HIDE DEF out
  <2> QED
    BY <2>1 DEF Chunks
<1> DEFINE sn == s.n
           yn == y.n
           cn == ch.n
           lo == ch.lo
<1>7. /\ a \in Nat /\ b \in Nat /\ b <= a /\ a + sn <= b + yn
      /\ sn \in Nat \ {0} /\ yn \in Nat \ {0} /\ cn \in Nat \ {0} /\ lo \in Nat
  <2> DEFINE sl == s.lo
             yl == y.lo
             ol == out.lo
  <2>1. /\ sl \in Nat /\ yl \in Nat /\ ol \in Nat /\ sn \in Nat /\ yn \in Nat
        /\ yl <= sl /\ sl + sn <= yl + yn
    BY <1>4, <1>6
  <2> HIDE DEF sl, yl, ol, sn, yn
  <2>2. yl - ol <= sl - ol /\ (sl - ol) + sn <= (yl - ol) + yn
    BY <2>1
  <2> QED
    BY <1>1, <1>2, <1>4, <1>5, <2>2 DEF sl, yl, ol, sn, yn
<1> HIDE DEF a, b, sn, yn, lo, cn
<1>8. level = "BIT" => ~(cn <= b) /\ ~(cn <= a)
  <2>1. level = "BIT" => ~(cn <= a)
    BY <1>1 DEF cn
  <2> QED
    BY <1>7, <2>1
<1>9. ~IsConst(ny) /\ ~IsConst(ch)
  <2>1. level = "BIT" => ~(ch.n <= b)
    BY <1>8 DEF cn
  <2> HIDE DEF ny, ch, level
  <2> QED
    BY <1>1, <1>2, <1>3, <2>1
<1>10. CASE level = "ALL"
  BY <1>1, <1>2, <1>9, <1>10
<1>11. CASE level = "BIT"
  <2> DEFINE wa == IF sn < cn - a THEN sn ELSE cn - a
             wb == IF yn < cn - b THEN yn ELSE cn - b
  <2>1. /\ ns.wire = ch.wire /\ ns.lo = lo + a /\ ns.n = wa
        /\ ny.wire = ch.wire /\ ny.lo = lo + b /\ ny.n = wb
    <3> HIDE DEF ns, ny, ch
    <3> QED
      BY <1>1, <1>2, <1>9, <1>11 DEF lo, cn, sn, yn
  <2>2. /\ lo + b <= lo + a /\ lo + a + wa <= lo + b + wb
        /\ lo <= lo + b /\ lo + b + wb <= lo + cn
    BY <1>7, <1>8, <1>11
  <2> HIDE DEF wa, wb, ns, ny, ch
  <2>3. Bits(ns) \subseteq Bits(ny)
    BY <1>1, <1>2, <1>9, <2>1, <2>2, SliceWithin
  <2>4. Bits(ny) \subseteq Bits(ch)
    <3>1. ch.lo <= ny.lo /\ ny.lo + ny.n <= ch.lo + ch.n
      BY <2>1, <2>2 DEF lo, cn
    <3> QED
      BY <1>1, <1>2, <1>9, <2>1, <3>1, SliceWithin
  <2> QED
    BY <1>2, <1>9, <2>3, <2>4 DEF ny, ch, ns
<1> QED
  BY <1>3, <1>10, <1>11

(* The three loops visit every input chunk of every driver. *)
LEMMA VisitsAreAll ==
  ASSUME WellFormed(netlist), NEW ch
  PROVE  /\ \A m \in 1 .. Len(Visits(ch)) : Visits(ch)[m] \in DrivingChunks(ch)
         /\ \A v \in DrivingChunks(ch) : \E m \in 1 .. Len(Visits(ch)) : Visits(ch)[m] = v
         /\ ToSet(Visits(ch)) = DrivingChunks(ch)
<1> DEFINE D == DrivingChunks(ch)
           U == Nat \X Nat \X Nat
           seq == Visits(ch)
           chunksOf(i, p) ==
             [k \in DOMAIN netlist.cells[i].ports[p].sig |-> <<i, p, k>>]
           partsOf(i) == [p \in DOMAIN netlist.cells[i].ports |-> chunksOf(i, p)]
           parts == [i \in DOMAIN netlist.cells |->
                       IF i \in Drivers(ch) THEN FlattenSeq(partsOf(i)) ELSE <<>>]
<1>1. seq \in Seq(D)
  BY VisitsAreDriving
<1>2. seq = FlattenSeq(parts)
  BY DEF Visits
<1>3. PICK n \in Nat : DOMAIN netlist.cells = 1 .. n
  <2>1. Len(netlist.cells) \in Nat /\ DOMAIN netlist.cells = 1 .. Len(netlist.cells)
    BY LenProperties DEF WellFormed
  <2> QED
    BY <2>1
<1>4. ASSUME NEW i \in DOMAIN netlist.cells
      PROVE  /\ partsOf(i) \in Seq(Seq(U))
             /\ Len(partsOf(i)) = Len(netlist.cells[i].ports)
             /\ DOMAIN netlist.cells[i].ports = 1 .. Len(netlist.cells[i].ports)
             /\ \A p \in DOMAIN netlist.cells[i].ports :
                  /\ chunksOf(i, p) \in Seq(U)
                  /\ Len(chunksOf(i, p)) = Len(netlist.cells[i].ports[p].sig)
                  /\ DOMAIN netlist.cells[i].ports[p].sig = 1 .. Len(netlist.cells[i].ports[p].sig)
  <2> DEFINE ports == netlist.cells[i].ports
             l == Len(ports)
  <2>1. l \in Nat /\ DOMAIN ports = 1 .. l /\ i \in Nat
    <3>1. ports \in Seq([name : STRING, sig : Seq(Chunks(netlist))])
      BY CellFacts
    <3>2. i \in Nat
      BY <1>3
    <3> HIDE DEF ports
    <3> QED
      BY <3>1, <3>2, LenProperties
  <2>2. ASSUME NEW p \in DOMAIN ports
        PROVE  /\ chunksOf(i, p) \in Seq(U)
               /\ Len(chunksOf(i, p)) = Len(ports[p].sig)
               /\ DOMAIN ports[p].sig = 1 .. Len(ports[p].sig)
    <3> DEFINE sig == ports[p].sig
               w == Len(sig)
               s == chunksOf(i, p)
    <3>1. sig \in Seq(Chunks(netlist))
      BY CellFacts
    <3>2. w \in Nat /\ DOMAIN sig = 1 .. w
      <4> HIDE DEF sig
      <4> QED
        BY <3>1, LenProperties
    <3>3. p \in Nat
      <4> HIDE DEF ports
      <4> QED
        BY <2>1
    <3>4. \A k \in 1 .. w : s[k] \in U /\ s = [k2 \in 1 .. w |-> s[k2]]
      <4>1. \A k \in 1 .. w : s[k] = <<i, p, k>> /\ k \in Nat
        <5> HIDE DEF sig
        <5> QED
          BY <3>2 DEF sig
      <4>2. DOMAIN s = 1 .. w
        BY <3>2
      <4> QED
        BY <2>1, <3>3, <4>1, <4>2
    <3>5. s = [k \in 1 .. w |-> s[k]]
      BY <3>2
    <3> HIDE DEF s, w, U
    <3>6. s \in Seq(U) /\ Len(s) = w
      BY <3>2, <3>4, <3>5
    <3> QED
      BY <3>2, <3>6 DEF s, w
  <2> DEFINE s == partsOf(i)
  <2>3. s = [p \in 1 .. l |-> s[p]] /\ \A p \in 1 .. l : s[p] \in Seq(U)
    <3>1. DOMAIN ports = 1 .. l
      BY <2>1
    <3> HIDE DEF U, l
    <3> QED
      BY <2>2, <3>1
  <2> HIDE DEF s, l, U
  <2>4. s \in Seq(Seq(U)) /\ Len(s) = l
    BY <2>1, <2>3
  <2> QED
    BY <2>1, <2>2, <2>4 DEF s, l
<1>5. parts \in Seq(Seq(U)) /\ Len(parts) = n
  <2> DEFINE none == <<>>
  <2>1. \A i \in 1 .. n : parts[i] \in Seq(U)
    <3>1. \A i \in 1 .. n : FlattenSeq(partsOf(i)) \in Seq(U)
      <4> HIDE DEF U, partsOf
      <4> QED
        BY <1>3, <1>4, FlattenIsSeq
    <3>2. none \in Seq(U)
      BY EmptySeq
    <3> HIDE DEF U, partsOf
    <3> QED
      BY <1>3, <3>1, <3>2
  <2>2. parts = [i \in 1 .. n |-> parts[i]]
    BY <1>3
  <2> HIDE DEF parts, U
  <2> QED
    BY <1>3, <2>1, <2>2
<1>6. ASSUME NEW v \in D PROVE \E m \in 1 .. Len(seq) : seq[m] = v
  <2> DEFINE i == v[1]
             p == v[2]
             k == v[3]
  <2>1. /\ i \in Drivers(ch) /\ p \in DOMAIN netlist.cells[i].ports
        /\ k \in DOMAIN netlist.cells[i].ports[p].sig /\ v = <<i, p, k>>
    BY DEF DrivingChunks
  <2>2. i \in DOMAIN netlist.cells /\ i \in 1 .. n
    BY <1>3, <2>1, DriverFacts
  <2> HIDE DEF i, p, k
  <2> DEFINE cs == chunksOf(i, p)
             ps == partsOf(i)
             flat == FlattenSeq(ps)
  <2>3. /\ ps \in Seq(Seq(U)) /\ p \in 1 .. Len(ps) /\ ps[p] = cs
        /\ k \in 1 .. Len(cs) /\ cs[k] = v
    <3>1. cs[k] = v /\ ps[p] = cs
      BY <2>1
    <3>2. /\ partsOf(i) \in Seq(Seq(U)) /\ p \in 1 .. Len(partsOf(i))
          /\ k \in 1 .. Len(chunksOf(i, p))
      <4> HIDE DEF U, partsOf, chunksOf
      <4> QED
        BY <1>4, <2>1, <2>2
    <3> QED
      BY <3>1, <3>2
  <2> HIDE DEF cs, ps, U
  <2>4. PICK m \in 1 .. Len(flat) : flat[m] = v
    <3>1. \E m \in 1 .. Len(FlattenSeq(ps)) : FlattenSeq(ps)[m] = ps[p][k]
      <4>1. k \in 1 .. Len(ps[p])
        BY <2>3
      <4> QED
        BY <2>3, <4>1, FlattenHas
    <3> QED
      BY <2>3, <3>1
  <2>5. parts[i] = flat
    BY <1>3, <2>1, <2>2 DEF ps
  <2> HIDE DEF parts, flat
  <2>6. m \in 1 .. Len(parts[i]) /\ parts[i][m] = v /\ i \in 1 .. Len(parts)
    BY <1>5, <2>2, <2>4, <2>5
  <2>7. \E j \in 1 .. Len(FlattenSeq(parts)) : FlattenSeq(parts)[j] = parts[i][m]
    BY <1>5, <2>6, FlattenHas
  <2> QED
    BY <1>2, <2>6, <2>7
<1> HIDE DEF D, seq, parts
<1>7. \A m \in 1 .. Len(seq) : seq[m] \in D
  BY <1>1, ElementOfSeq
<1>8. ToSet(seq) = D
  <2>1. DOMAIN seq = 1 .. Len(seq)
    BY <1>1, LenProperties
  <2> QED
    BY <1>6, <1>7, <2>1 DEF ToSet
<1> QED
  BY <1>6, <1>7, <1>8 DEF D, seq

(* The reference follows the same rules. *)
LEMMA NextIsLed ==
  ASSUME WellFormed(netlist), NEW s, NEW x
  PROVE  x \in Next1(s) <=> ~IsConst(x) /\ \E v \in DrivingChunks(s) : x = Leads(s, v)
<1>1. Next1(s) = {x2 \in {Leads(s, v) : v \in ToSet(Visits(s))} : ~IsConst(x2)}
  BY DEF Next1, Leads, ChunkOf
<1>2. ToSet(Visits(s)) = DrivingChunks(s)
  BY VisitsAreAll
<1> QED
  BY <1>1, <1>2

(* What is led to are slices of the netlist. *)
LEMMA NextAreChunks ==
  ASSUME WellFormed(netlist), NEW s \in Chunks(netlist)
  PROVE  Next1(s) \subseteq Chunks(netlist)
<1> SUFFICES ASSUME NEW x \in Next1(s) PROVE x \in Chunks(netlist)
  OBVIOUS
<1>1. PICK v \in DrivingChunks(s) : x = Leads(s, v) /\ ~IsConst(x)
  BY NextIsLed
<1>2. s \in Chunks(netlist) /\ Bits(s) \subseteq Bits(s)
  OBVIOUS
<1> QED
  BY <1>1, <1>2, LeadsWithin

(* The layers of the reference, one from the other. *)
LEMMA LayerEquation ==
  ASSUME WellFormed(netlist)
  PROVE  /\ Layers[0] = {netlist.target}
         /\ \A k \in 1 .. MaxDepth : Layers[k] = UNION {Next1(s) : s \in Layers[k - 1]}
         /\ \A k \in 0 .. MaxDepth : Layers[k] \subseteq Chunks(netlist)
<1> DEFINE S == SUBSET Chunks(netlist)
           first == {netlist.target}
           Following(A) == UNION {Next1(s) : s \in A}
           G == [A \in S |-> Following(A)]
           n == MaxDepth
           IsLayers(f) == f = [k \in 0 .. n |-> IF k = 0 THEN first ELSE Following(f[k - 1])]
           h == CHOOSE f : IsLayers(f)
<1>1. n \in Nat
  BY SearchAssumption
<1>2. G \in [S -> S] /\ first \in S
  <2>1. \A A \in S : Following(A) \in S
    BY NextAreChunks
  <2>2. first \in S
    BY DEF WellFormed
  <2> HIDE DEF Following, S
  <2> QED
    BY <2>1, <2>2
<1>3. PICK f : IsIteration(f, n, S, first, G)
  <2> HIDE DEF n, S, G, first
  <2> QED
    BY <1>1, <1>2, IterationExists
<1> HIDE DEF S, Following, n
<1>4. /\ f \in [0 .. n -> S] /\ f[0] = first
      /\ \A k \in 1 .. n : f[k] = Following(f[k - 1])
  <2>1. /\ f \in [0 .. n -> S] /\ f[0] = first
        /\ \A k \in 1 .. n : f[k] = G[f[k - 1]]
    BY <1>3 DEF IsIteration
  <2>2. \A k \in 1 .. n : k - 1 \in 0 .. n
    BY <1>1
  <2>3. \A k \in 1 .. n : f[k - 1] \in S
    BY <2>1, <2>2
  <2>4. \A s \in S : G[s] = Following(s)
    OBVIOUS
  <2> HIDE DEF G
  <2> QED
    BY <2>1, <2>3, <2>4
<1> HIDE DEF first
<1>5. IsLayers(f)
  <2>0. \A k \in 0 .. n : k # 0 => k \in 1 .. n
    BY <1>1
  <2>1. \A k \in 0 .. n : f[k] = IF k = 0 THEN first ELSE Following(f[k - 1])
    BY <1>4, <2>0
  <2>2. f = [k \in 0 .. n |-> f[k]]
    BY <1>4
  <2> QED
    BY <2>1, <2>2
<1>6. IsLayers(h)
  <2> HIDE DEF IsLayers
  <2> QED
    BY <1>5
<1>7. Layers = h
  BY DEF Layers, n, first, Following
<1> HIDE DEF h
<1>8. h[0] = first /\ \A k \in 1 .. n : h[k] = Following(h[k - 1])
  <2>1. \A k \in 0 .. n : h[k] = IF k = 0 THEN first ELSE Following(h[k - 1])
    BY <1>6
  <2>2. 0 \in 0 .. n /\ \A k \in 1 .. n : k \in 0 .. n /\ k # 0
    BY <1>1
  <2> QED
    BY <2>1, <2>2
<1> DEFINE T == {k \in Nat : k <= n => h[k] \in S}
<1>9. 0 \in T
  BY <1>2, <1>8
<1>10. ASSUME NEW k \in T PROVE k + 1 \in T
  <2>1. k \in Nat /\ k + 1 \in Nat /\ (k + 1) - 1 = k
    OBVIOUS
  <2>2. ASSUME k + 1 <= n PROVE h[k + 1] \in S
    <3>1. k + 1 \in 1 .. n /\ h[k] \in S
      BY <1>1, <2>1, <2>2
    <3>2. h[k + 1] = Following(h[k])
      BY <1>8, <2>1, <3>1
    <3>3. \A A \in S : Following(A) \in S
      BY <1>2
    <3> QED
      BY <3>1, <3>2, <3>3
  <2> QED
    BY <2>1, <2>2
<1>11. T = Nat
  <2>1. T \in SUBSET Nat
    OBVIOUS
  <2> HIDE DEF T
  <2> QED
    BY <1>9, <1>10, <2>1, AllNumbers
<1>12. \A k \in 0 .. n : h[k] \in S
  BY <1>1, <1>11
<1> QED
  BY <1>7, <1>8, <1>12 DEF first, n, S, Following

----------------------------------------------------------------------------
(* One round of the search.                                                *)

SearchStates == [queue : Seq(Sound), visited : SUBSET Chunks(netlist)]

(* What a visit needs to be done with: the slice it leads to, or the whole
   chunk, has been visited. *)
MetBy(y, v, vis) ==
  ~IsConst(Leads(y, v)) => ChunkOf(v) \in vis \/ Leads(y, v) \in vis

(* After the first m visits of a round: what is new is at the end of the queue,
   one cell further than the signal under search, and was led to. *)
Advanced(cur, start, seq, m, x) ==
  /\ x \in SearchStates
  /\ start.visited \subseteq x.visited
  /\ Len(start.queue) <= Len(x.queue)
  /\ \A j \in 1 .. Len(start.queue) : x.queue[j] = start.queue[j]
  /\ \A j \in 1 .. Len(x.queue) : j > Len(start.queue) =>
       /\ x.queue[j].depth = cur.depth + 1
       /\ x.queue[j].sig \in x.visited \ start.visited
       /\ \E v \in DrivingChunks(cur.sig) :
            x.queue[j].sig = Leads(cur.sig, v) /\ ~IsConst(Leads(cur.sig, v))
  /\ \A z \in x.visited \ start.visited : \E j \in 1 .. Len(x.queue) :
       j > Len(start.queue) /\ x.queue[j].sig = z
  /\ IsFiniteSet(x.visited \ start.visited)
  /\ Cardinality(x.visited \ start.visited) = Len(x.queue) - Len(start.queue)
  /\ \A l \in 1 .. m : MetBy(cur.sig, seq[l], x.visited)

(* One more visit. *)
LEMMA VisitAdvances ==
  ASSUME WellFormed(netlist), NEW cur \in Sound, cur.depth < MaxDepth,
         NEW start \in SearchStates, NEW seq, NEW m \in Nat, NEW x,
         seq[m + 1] \in DrivingChunks(cur.sig), Advanced(cur, start, seq, m, x)
  PROVE  Advanced(cur, start, seq, m + 1, Visit(x, cur, seq[m + 1]))
<1> DEFINE v == seq[m + 1]
           ch == ChunkOf(v)
           cell == netlist.cells[v[1]]
           port == cell.ports[v[2]]
           next == Leads(cur.sig, v)
           new  == Seen(next, cur.depth + 1,
                        cur.reg_depth + (IF IsReg(cell) THEN 1 ELSE 0),
                        cur.is_ctrl \/ (IsMux(cell) /\ port.name = "S"))
           r == Visit(x, cur, v)
<1>1. r \in SearchStates
  <2>1. x \in SearchStates
    BY DEF Advanced
  <2> HIDE DEF v, r
  <2> QED
    BY <2>1, VisitIsSound DEF SearchStates, r, v
<1>2. r = IF IsConst(next) \/ ch \in x.visited \/ next \in x.visited THEN x
          ELSE [queue |-> Append(x.queue, new), visited |-> x.visited \cup {next}]
  BY DEF Visit, Pushed, Remembered, Leads, ChunkOf
<1>3. \A l \in 1 .. (m + 1) : l \in 1 .. m \/ l = m + 1
  OBVIOUS
<1>4. /\ x \in SearchStates
      /\ start.visited \subseteq x.visited
      /\ Len(start.queue) <= Len(x.queue)
      /\ \A j \in 1 .. Len(start.queue) : x.queue[j] = start.queue[j]
      /\ \A j \in 1 .. Len(x.queue) : j > Len(start.queue) =>
           /\ x.queue[j].depth = cur.depth + 1
           /\ x.queue[j].sig \in x.visited \ start.visited
           /\ \E v2 \in DrivingChunks(cur.sig) :
                x.queue[j].sig = Leads(cur.sig, v2) /\ ~IsConst(Leads(cur.sig, v2))
      /\ \A z \in x.visited \ start.visited : \E j \in 1 .. Len(x.queue) :
           j > Len(start.queue) /\ x.queue[j].sig = z
      /\ IsFiniteSet(x.visited \ start.visited)
      /\ Cardinality(x.visited \ start.visited) = Len(x.queue) - Len(start.queue)
      /\ \A l \in 1 .. m : MetBy(cur.sig, seq[l], x.visited)
  BY DEF Advanced
<1>5. v \in DrivingChunks(cur.sig)
  OBVIOUS
<1> HIDE DEF ch, next, new, r
<1>6. CASE IsConst(next) \/ ch \in x.visited \/ next \in x.visited
  <2>1. r = x
    BY <1>2, <1>6
  <2>2. MetBy(cur.sig, v, x.visited)
    BY <1>6 DEF MetBy, ch, next
  <2>3. \A l \in 1 .. (m + 1) : MetBy(cur.sig, seq[l], x.visited)
    BY <1>3, <1>4, <2>2
  <2>4. Advanced(cur, start, seq, m + 1, x)
    BY <1>4, <2>3 DEF Advanced
  <2> QED
    BY <2>1, <2>4 DEF r
<1>7. CASE ~(IsConst(next) \/ ch \in x.visited \/ next \in x.visited)
  <2> DEFINE q == x.queue
             q2 == Append(q, new)
             vis == x.visited
             vis2 == vis \cup {next}
             n == Len(q)
             n0 == Len(start.queue)
             newly == vis \ start.visited
  <2>1. r.queue = q2 /\ r.visited = vis2
    BY <1>2, <1>7
  <2>2. /\ n \in Nat /\ n0 \in Nat /\ Len(q2) = n + 1
        /\ \A j \in 1 .. n : q2[j] = q[j]
        /\ q2[n + 1] = new
    <3>1. q \in Seq(Sound) /\ start.queue \in Seq(Sound)
      BY <1>4 DEF SearchStates
    <3> HIDE DEF q
    <3>2. /\ n \in Nat /\ n0 \in Nat /\ DOMAIN q = 1 .. n
      BY <3>1, LenProperties
    <3>3. /\ Len(q2) = n + 1 /\ q2[n + 1] = new
          /\ \A j \in 1 .. n : q2[j] = q[j]
      BY <3>1, <3>2
    <3> QED
      BY <3>2, <3>3
  <2>3. new.sig = next /\ new.depth = cur.depth + 1
    BY DEF new, Seen
  <2>4. vis2 \ start.visited = newly \cup {next} /\ next \notin newly /\ next \notin start.visited
    BY <1>4, <1>7
  <2>5. IsFiniteSet(newly \cup {next}) /\ Cardinality(newly \cup {next}) = Cardinality(newly) + 1
    <3> HIDE DEF newly
    <3> QED
      BY <1>4, <2>4, FS_AddElement DEF newly
  <2>6. \A l \in 1 .. (m + 1) : MetBy(cur.sig, seq[l], vis2)
    <3>1. MetBy(cur.sig, v, vis2)
      BY DEF MetBy, next
    <3>2. \A l \in 1 .. m : MetBy(cur.sig, seq[l], vis2)
      BY <1>4 DEF MetBy
    <3> QED
      BY <1>3, <3>1, <3>2
  <2>7. \A j \in 1 .. (n + 1) : j > n0 =>
           /\ q2[j].depth = cur.depth + 1
           /\ q2[j].sig \in vis2 \ start.visited
           /\ \E v2 \in DrivingChunks(cur.sig) :
                q2[j].sig = Leads(cur.sig, v2) /\ ~IsConst(Leads(cur.sig, v2))
    <3> SUFFICES ASSUME NEW j \in 1 .. (n + 1), j > n0
                 PROVE  /\ q2[j].depth = cur.depth + 1
                        /\ q2[j].sig \in vis2 \ start.visited
                        /\ \E v2 \in DrivingChunks(cur.sig) :
                             q2[j].sig = Leads(cur.sig, v2) /\ ~IsConst(Leads(cur.sig, v2))
      OBVIOUS
    <3>1. CASE j = n + 1
      <4>1. q2[j] = new
        BY <2>2, <3>1
      <4>2. new.sig = Leads(cur.sig, v) /\ ~IsConst(Leads(cur.sig, v))
        BY <1>7, <2>3 DEF next
      <4> HIDE DEF q2, v, vis2
      <4>3. next \in vis2
        BY DEF vis2
      <4> QED
        BY <1>5, <2>3, <2>4, <4>1, <4>2, <4>3
    <3>2. CASE j # n + 1
      <4>1. j \in 1 .. n
        BY <2>2, <3>2
      <4>2. q2[j] = q[j]
        BY <2>2, <4>1
      <4> HIDE DEF q2
      <4> QED
        BY <1>4, <4>1, <4>2
    <3> QED
      BY <3>1, <3>2
  <2>8. \A z \in vis2 \ start.visited : \E j \in 1 .. (n + 1) : j > n0 /\ q2[j].sig = z
    <3> SUFFICES ASSUME NEW z \in vis2 \ start.visited
                 PROVE  \E j \in 1 .. (n + 1) : j > n0 /\ q2[j].sig = z
      OBVIOUS
    <3>1. CASE z = next
      <4>1. n + 1 \in 1 .. (n + 1) /\ n + 1 > n0
        BY <1>4, <2>2
      <4> QED
        BY <2>2, <2>3, <3>1, <4>1
    <3>2. CASE z # next
      <4>1. PICK j \in 1 .. n : j > n0 /\ q[j].sig = z
        BY <1>4, <3>2
      <4>2. j \in 1 .. (n + 1) /\ q2[j] = q[j]
        BY <2>2, <4>1
      <4> QED
        BY <4>1, <4>2
    <3> QED
      BY <3>1, <3>2
  <2>9. \A j \in 1 .. n0 : q2[j] = start.queue[j]
    <3>1. \A j \in 1 .. n0 : j \in 1 .. n
      BY <1>4, <2>2
    <3> QED
      BY <1>4, <2>2, <3>1
  <2>10. /\ n0 <= n + 1 /\ Cardinality(newly) + 1 = (n + 1) - n0
         /\ start.visited \subseteq vis2
    <3>1. Cardinality(newly) = n - n0 /\ n0 <= n
      BY <1>4
    <3> HIDE DEF newly, n, n0
    <3>2. n0 <= n + 1 /\ Cardinality(newly) + 1 = (n + 1) - n0
      BY <2>2, <3>1
    <3> QED
      BY <1>4, <3>2
  <2> HIDE DEF q2, vis2, n, n0, newly, q, vis
  <2>11. Advanced(cur, start, seq, m + 1, r)
    BY <1>1, <2>1, <2>2, <2>4, <2>5, <2>6, <2>7, <2>8, <2>9, <2>10 DEF Advanced, n0
  <2> QED
    BY <2>11 DEF r
<1> QED
  BY <1>6, <1>7

(* Before the first visit. *)
LEMMA NothingAdvanced ==
  ASSUME NEW cur, NEW start \in SearchStates, NEW seq
  PROVE  Advanced(cur, start, seq, 0, start)
<1> DEFINE l == Len(start.queue)
<1>1. l \in Nat
  <2>1. start.queue \in Seq(Sound)
    BY DEF SearchStates
  <2> QED
    BY <2>1, LenProperties
<1> HIDE DEF l
<1>2. l <= l /\ l - l = 0 /\ \A j \in 1 .. l : ~(j > l)
  BY <1>1
<1>3. start.visited \ start.visited = {}
  OBVIOUS
<1>4. IsFiniteSet({}) /\ Cardinality({}) = 0
  BY FS_EmptySet
<1>5. \A j \in 1 .. 0 : FALSE
  OBVIOUS
<1> QED
  BY <1>2, <1>3, <1>4, <1>5 DEF Advanced, l

(* A whole round. *)
LEMMA RoundAdvances ==
  ASSUME WellFormed(netlist), NEW cur \in Sound, cur.depth < MaxDepth,
         NEW start \in SearchStates
  PROVE  Advanced(cur, start, Visits(cur.sig), Len(Visits(cur.sig)),
                  FoldLeft(LAMBDA f, v : Visit(f, cur, v), start, Visits(cur.sig)))
<1> DEFINE seq == Visits(cur.sig)
           n == Len(seq)
           found == FoldLeft(LAMBDA f, v : Visit(f, cur, v), start, seq)
<1>1. n \in Nat /\ \A m \in 1 .. n : seq[m] \in DrivingChunks(cur.sig)
  BY VisitsAreDriving, VisitsAreAll, LenProperties
<1>2. PICK g : IsRound(g, cur, start, seq, n) /\ found = g[n]
  BY VisitsInTurn DEF SearchStates
<1> HIDE DEF seq, n, found
<1>3. /\ g \in [0 .. n -> SearchStates] /\ g[0] = start
      /\ \A k \in 1 .. n : g[k] = Visit(g[k - 1], cur, seq[k])
  BY <1>2 DEF IsRound, SearchStates
<1> DEFINE T == {m \in Nat : m <= n => Advanced(cur, start, seq, m, g[m])}
<1>4. 0 \in T
  BY <1>3, NothingAdvanced
<1>5. ASSUME NEW m \in T PROVE m + 1 \in T
  <2>1. m \in Nat /\ m + 1 \in Nat /\ (m + 1) - 1 = m
    OBVIOUS
  <2>2. ASSUME m + 1 <= n PROVE Advanced(cur, start, seq, m + 1, g[m + 1])
    <3>1. m + 1 \in 1 .. n /\ m <= n
      BY <1>1, <2>1, <2>2
    <3>2. Advanced(cur, start, seq, m, g[m]) /\ g[m + 1] = Visit(g[m], cur, seq[m + 1])
      BY <1>3, <2>1, <3>1
    <3>3. seq[m + 1] \in DrivingChunks(cur.sig)
      BY <1>1, <3>1
    <3> QED
      BY <2>1, <3>2, <3>3, VisitAdvances
  <2> QED
    BY <2>1, <2>2
<1>6. T = Nat
  <2>1. T \in SUBSET Nat
    OBVIOUS
  <2> HIDE DEF T
  <2> QED
    BY <1>4, <1>5, <2>1, AllNumbers
<1>7. Advanced(cur, start, seq, n, g[n])
  <2>1. n \in T /\ n <= n
    BY <1>1, <1>6
  <2> QED
    BY <2>1
<1> QED
  BY <1>2, <1>7 DEF found, seq, n

----------------------------------------------------------------------------
(* Breadth first: every signal is met at the smallest depth it can be.      *)

(* Nothing searched yet. *)
AtTarget(q, vis, deps) ==
  q = <<Seen(netlist.target, 0, 0, FALSE)>> /\ vis = {} /\ deps = <<>>

(* A signal met at depth d has been searched: all it leads to has been met one
   cell further or earlier, as a slice or with the whole chunk, and it has been
   taken if it is a register. *)
Settled(D, vis, deps, y, d) ==
  d < MaxDepth =>
    /\ \A v \in DrivingChunks(y) : ~IsConst(Leads(y, v)) =>
         \E z \in vis : z \in {ChunkOf(v), Leads(y, v)} /\ D[z] <= d + 1
    /\ TakenAsDependent(y) =>
         \E k \in DOMAIN deps : deps[k].sig = y /\ deps[k].depth = d

(* D says at which depth each signal was first met: what has been met and is
   not waiting has been searched; the queue is in the order of the depths. *)
MetAt(D, q, vis, deps) ==
  /\ D \in [vis -> Nat]
  /\ \A k \in 1 .. Len(q) : q[k].sig \in vis /\ D[q[k].sig] = q[k].depth
  /\ \A y \in vis : \/ \E k \in 1 .. Len(q) : q[k].sig = y
                    \/ Settled(D, vis, deps, y, D[y])
  /\ Settled(D, vis, deps, netlist.target, 0)

InOrder(q, deps) ==
  /\ \A k, l \in 1 .. Len(q) : k <= l => q[k].depth <= q[l].depth
  /\ \A k \in 1 .. Len(q) : q[k].depth <= q[1].depth + 1
  /\ \A k \in 1 .. Len(q) : \A j \in 1 .. Len(deps) : deps[j].depth <= q[k].depth

(* D is bounded by the front of the queue. *)
NoFurther(D, q, vis) == q # <<>> => \A y \in vis : D[y] <= q[1].depth + 1

(* What waits and what has been taken belongs to the layer of its depth. *)
OfLayers(q, deps) ==
  /\ \A k \in 1 .. Len(q) : q[k].sig \in Layers[q[k].depth]
  /\ \A j \in 1 .. Len(deps) : deps[j].sig \in Layers[deps[j].depth]

BreadthFirst(q, vis, deps) ==
  /\ OfLayers(q, deps)
  /\ InOrder(q, deps)
  /\ \/ AtTarget(q, vis, deps)
     \/ \E D : MetAt(D, q, vis, deps) /\ NoFurther(D, q, vis)

BreadthInv == BreadthFirst(queue, visited, dependents)

(* What has been searched stays so while more is met and taken. *)
LEMMA SettledStays ==
  ASSUME NEW D, NEW E, NEW vis, NEW vis2, NEW deps, NEW deps2, NEW y, NEW d,
         vis \subseteq vis2, \A z \in vis : E[z] = D[z],
         \A k \in DOMAIN deps : k \in DOMAIN deps2 /\ deps2[k] = deps[k],
         Settled(D, vis, deps, y, d)
  PROVE  Settled(E, vis2, deps2, y, d)
<1> SUFFICES ASSUME d < MaxDepth
             PROVE  /\ \A v \in DrivingChunks(y) : ~IsConst(Leads(y, v)) =>
                         \E z \in vis2 : z \in {ChunkOf(v), Leads(y, v)} /\ E[z] <= d + 1
                    /\ TakenAsDependent(y) =>
                         \E k \in DOMAIN deps2 : deps2[k].sig = y /\ deps2[k].depth = d
  BY DEF Settled
<1>1. /\ \A v \in DrivingChunks(y) : ~IsConst(Leads(y, v)) =>
           \E z \in vis : z \in {ChunkOf(v), Leads(y, v)} /\ D[z] <= d + 1
      /\ TakenAsDependent(y) =>
           \E k \in DOMAIN deps : deps[k].sig = y /\ deps[k].depth = d
  BY DEF Settled
<1>2. ASSUME NEW v \in DrivingChunks(y), ~IsConst(Leads(y, v))
      PROVE  \E z \in vis2 : z \in {ChunkOf(v), Leads(y, v)} /\ E[z] <= d + 1
  <2>1. PICK z \in vis : z \in {ChunkOf(v), Leads(y, v)} /\ D[z] <= d + 1
    BY <1>1, <1>2
  <2>2. z \in vis2 /\ E[z] = D[z]
    OBVIOUS
  <2>3. E[z] <= d + 1
    BY <2>1, <2>2
  <2> QED
    BY <2>1, <2>2, <2>3
<1>3. ASSUME TakenAsDependent(y)
      PROVE  \E k \in DOMAIN deps2 : deps2[k].sig = y /\ deps2[k].depth = d
  <2>1. PICK k \in DOMAIN deps : deps[k].sig = y /\ deps[k].depth = d
    BY <1>1, <1>3
  <2>2. k \in DOMAIN deps2 /\ deps2[k] = deps[k]
    OBVIOUS
  <2> QED
    BY <2>1, <2>2
<1> QED
  BY <1>2, <1>3

(* The states of the queue and what is in them. *)
LEMMA StateFacts ==
  ASSUME NEW q \in Seq(Sound)
  PROVE  /\ Len(q) \in Nat /\ DOMAIN q = 1 .. Len(q)
         /\ \A k \in 1 .. Len(q) : /\ q[k] \in Sound /\ q[k].sig \in Chunks(netlist)
                                   /\ q[k].depth \in Nat /\ q[k].depth <= MaxDepth
<1>1. Len(q) \in Nat /\ DOMAIN q = 1 .. Len(q) /\ \A k \in 1 .. Len(q) : q[k] \in Sound
  BY LenProperties, ElementOfSeq
<1>2. \A s \in Sound : s.sig \in Chunks(netlist) /\ s.depth \in 0 .. MaxDepth
  BY DEF Sound
<1>3. \A d \in 0 .. MaxDepth : d \in Nat /\ d <= MaxDepth
  BY SearchAssumption
<1> QED
  BY <1>1, <1>2, <1>3

(* What a round starts from. *)
LEMMA TailFacts ==
  ASSUME NEW q \in Seq(Sound), q # <<>>
  PROVE  /\ Head(q) = q[1] /\ Len(q) >= 1 /\ Tail(q) \in Seq(Sound)
         /\ Len(Tail(q)) = Len(q) - 1
         /\ \A j \in 1 .. (Len(q) - 1) : j + 1 \in 1 .. Len(q) /\ Tail(q)[j] = q[j + 1]
<1>1. Len(q) \in Nat /\ Len(q) # 0
  BY LenProperties, EmptySeq
<1>2. Head(q) = q[1] /\ Tail(q) \in Seq(Sound)
  BY HeadTailProperties
<1>3. /\ Len(Tail(q)) = Len(q) - 1
      /\ \A j \in 1 .. (Len(q) - 1) : Tail(q)[j] = q[j + 1]
  BY HeadTailProperties
<1> DEFINE n == Len(q)
<1>4. n \in Nat /\ n # 0
  BY <1>1
<1> HIDE DEF n
<1>5. n >= 1 /\ \A j \in 1 .. (n - 1) : j + 1 \in 1 .. n
  BY <1>4
<1> QED
  BY <1>2, <1>3, <1>5 DEF n

(* What is known when the front of the queue is taken off: it is the target or
   has been met at its depth, and everything else met is searched or waiting
   behind it. *)
InHand(D, q, vis, deps) ==
  /\ D \in [vis -> Nat]
  /\ \A k \in 1 .. Len(q) : k > 1 => q[k].sig \in vis /\ D[q[k].sig] = q[k].depth
  /\ \/ q[1].sig = netlist.target /\ q[1].depth = 0
     \/ q[1].sig \in vis /\ D[q[1].sig] = q[1].depth
  /\ \A y \in vis : \/ y = q[1].sig /\ D[y] = q[1].depth
                    \/ \E k \in 1 .. Len(q) : k > 1 /\ q[k].sig = y
                    \/ Settled(D, vis, deps, y, D[y])
  /\ \/ q[1].sig = netlist.target /\ q[1].depth = 0
     \/ Settled(D, vis, deps, netlist.target, 0)
  /\ \A y \in vis : D[y] <= q[1].depth + 1

(* So it is at the start and later. *)
LEMMA FrontInHand ==
  ASSUME NEW q \in Seq(Sound), NEW vis, NEW deps, q # <<>>, BreadthFirst(q, vis, deps)
  PROVE  \E D : InHand(D, q, vis, deps)
<1>1. CASE AtTarget(q, vis, deps)
  <2> DEFINE D == [y \in {} |-> 0]
  <2>1. q[1] = Seen(netlist.target, 0, 0, FALSE) /\ Len(q) = 1 /\ vis = {}
    BY <1>1 DEF AtTarget
  <2>2. q[1].sig = netlist.target /\ q[1].depth = 0
    BY <2>1 DEF Seen
  <2>3. D \in [vis -> Nat]
    BY <2>1
  <2>4. \A k \in 1 .. 1 : ~(k > 1)
    OBVIOUS
  <2> HIDE DEF D
  <2>5. InHand(D, q, vis, deps)
    BY <2>1, <2>2, <2>3, <2>4 DEF InHand
  <2> QED
    BY <2>5
<1>2. ASSUME NEW D, MetAt(D, q, vis, deps), NoFurther(D, q, vis)
      PROVE  InHand(D, q, vis, deps)
  <2>1. 1 \in 1 .. Len(q) /\ Len(q) \in Nat
    BY TailFacts, StateFacts
  <2>2. \A y \in vis : \/ y = q[1].sig /\ D[y] = q[1].depth
                       \/ \E k \in 1 .. Len(q) : k > 1 /\ q[k].sig = y
                       \/ Settled(D, vis, deps, y, D[y])
    <3> SUFFICES ASSUME NEW y \in vis, ~Settled(D, vis, deps, y, D[y])
                 PROVE  \/ y = q[1].sig /\ D[y] = q[1].depth
                        \/ \E k \in 1 .. Len(q) : k > 1 /\ q[k].sig = y
      OBVIOUS
    <3>1. PICK k \in 1 .. Len(q) : q[k].sig = y
      BY <1>2 DEF MetAt
    <3>2. D[y] = q[k].depth
      BY <1>2, <3>1 DEF MetAt
    <3>3. k = 1 \/ k > 1
      BY <2>1, <3>1
    <3> QED
      BY <3>1, <3>2, <3>3
  <2> QED
    BY <1>2, <2>1, <2>2 DEF InHand, MetAt, NoFurther
<1> QED
  BY <1>1, <1>2 DEF BreadthFirst

(* Taking the front off the queue, with all its visits made if it is within
   the limit, keeps the search breadth first. *)
LEMMA RoundKeepsBreadth ==
  ASSUME WellFormed(netlist), NEW q \in Seq(Sound), q # <<>>,
         NEW vis \in SUBSET Chunks(netlist), NEW deps \in Seq(Sound),
         BreadthFirst(q, vis, deps), NEW cur, cur = q[1],
         NEW x, Advanced(cur, [queue |-> Tail(q), visited |-> vis], <<>>, 0, x),
         cur.depth < MaxDepth => \A v \in DrivingChunks(cur.sig) : MetBy(cur.sig, v, x.visited),
         NEW deps2,
         \/ deps2 = deps /\ (cur.depth < MaxDepth => ~TakenAsDependent(cur.sig))
         \/ deps2 = Append(deps, cur)
  PROVE  BreadthFirst(x.queue, x.visited, deps2)
<1> DEFINE q2 == x.queue
           vis2 == x.visited
           t == Tail(q)
           n == Len(q)
           n0 == n - 1
           m == Len(deps)
           d == cur.depth
<1>1. /\ n \in Nat /\ n >= 1 /\ Len(t) = n0 /\ 1 \in 1 .. n
      /\ \A j \in 1 .. n0 : j + 1 \in 1 .. n /\ t[j] = q[j + 1]
      /\ \A k \in 1 .. n : q[k].sig \in Chunks(netlist) /\ q[k].depth \in Nat
  <2>1. \A k \in 1 .. n : q[k].sig \in Chunks(netlist) /\ q[k].depth \in Nat
    BY StateFacts
  <2>2. /\ n \in Nat /\ n >= 1 /\ Len(t) = n0
        /\ \A j \in 1 .. n0 : j + 1 \in 1 .. n /\ t[j] = q[j + 1]
    BY TailFacts, StateFacts
  <2> HIDE DEF n, t
  <2> QED
    BY <2>1, <2>2
<1>2. d \in Nat /\ cur.sig \in Chunks(netlist)
  BY <1>1
<1>3. /\ q2 \in Seq(Sound) /\ vis \subseteq vis2 /\ vis2 \subseteq Chunks(netlist)
      /\ n0 <= Len(q2)
      /\ \A j \in 1 .. n0 : q2[j] = t[j]
      /\ \A j \in 1 .. Len(q2) : j > n0 =>
           /\ q2[j].depth = d + 1 /\ q2[j].sig \in vis2 \ vis
           /\ \E v \in DrivingChunks(cur.sig) :
                q2[j].sig = Leads(cur.sig, v) /\ ~IsConst(Leads(cur.sig, v))
      /\ \A z \in vis2 \ vis : \E j \in 1 .. Len(q2) : j > n0 /\ q2[j].sig = z
  <2> DEFINE start == [queue |-> Tail(q), visited |-> vis]
  <2>1. start.queue = t /\ start.visited = vis /\ Len(start.queue) = n0
    BY <1>1
  <2>2. Advanced(cur, start, <<>>, 0, x)
    OBVIOUS
  <2> HIDE DEF start, n0, t
  <2> QED
    BY <2>1, <2>2 DEF Advanced, SearchStates
<1>4. /\ Len(q2) \in Nat
      /\ \A k \in 1 .. Len(q2) : q2[k].depth \in Nat /\ q2[k].depth <= MaxDepth
  <2> HIDE DEF q2
  <2> QED
    BY <1>3, StateFacts
<1>5. /\ m \in Nat /\ \A k \in 1 .. m : deps[k].depth \in Nat
      /\ DOMAIN deps = 1 .. m
      /\ Len(deps2) \in {m, m + 1}
      /\ DOMAIN deps2 = 1 .. Len(deps2)
      /\ \A k \in 1 .. m : k \in DOMAIN deps2 /\ deps2[k] = deps[k]
      /\ \A k \in 1 .. Len(deps2) : k \notin 1 .. m => deps2[k] = cur
      /\ d < MaxDepth /\ TakenAsDependent(cur.sig) =>
           \E k \in DOMAIN deps2 : deps2[k] = cur
  <2>1. m \in Nat /\ DOMAIN deps = 1 .. m /\ \A k \in 1 .. m : deps[k].depth \in Nat
    BY StateFacts
  <2>2. CASE deps2 = deps /\ (cur.depth < MaxDepth => ~TakenAsDependent(cur.sig))
    BY <2>1, <2>2
  <2>3. CASE deps2 = Append(deps, cur)
    <3>1. /\ Len(deps2) = m + 1 /\ DOMAIN deps2 = 1 .. (m + 1)
          /\ \A k \in 1 .. m : deps2[k] = deps[k]
          /\ deps2[m + 1] = cur
      BY <2>1, <2>3
    <3> HIDE DEF m
    <3>2. /\ \A k \in 1 .. m : k \in 1 .. (m + 1)
          /\ \A k \in 1 .. (m + 1) : k \notin 1 .. m => k = m + 1
          /\ m + 1 \in 1 .. (m + 1)
      BY <2>1
    <3> QED
      BY <2>1, <3>1, <3>2
  <2> QED
    BY <2>2, <2>3
<1>6. PICK D : InHand(D, q, vis, deps)
  BY FrontInHand
<1> DEFINE E == [y \in vis2 |-> IF y \in vis THEN D[y] ELSE d + 1]
<1>7. /\ D \in [vis -> Nat]
      /\ \A k \in 1 .. n : k > 1 => q[k].sig \in vis /\ D[q[k].sig] = q[k].depth
      /\ \/ cur.sig = netlist.target /\ d = 0
         \/ cur.sig \in vis /\ D[cur.sig] = d
      /\ \A y \in vis : \/ y = cur.sig /\ D[y] = d
                        \/ \E k \in 1 .. n : k > 1 /\ q[k].sig = y
                        \/ Settled(D, vis, deps, y, D[y])
      /\ \/ cur.sig = netlist.target /\ d = 0
         \/ Settled(D, vis, deps, netlist.target, 0)
      /\ \A y \in vis : D[y] <= d + 1
  BY <1>6 DEF InHand
<1>8. /\ E \in [vis2 -> Nat]
      /\ \A z \in vis : E[z] = D[z]
      /\ \A z \in vis2 : E[z] <= d + 1
      /\ \A z \in vis2 \ vis : E[z] = d + 1
  <2>1. d + 1 \in Nat /\ d + 1 <= d + 1
    BY <1>2
  <2> HIDE DEF d, vis2
  <2> QED
    BY <1>3, <1>7, <2>1
<1> HIDE DEF E, q2, vis2, d, n, m, t
<1>9. ASSUME NEW y, NEW e, Settled(D, vis, deps, y, e) PROVE Settled(E, vis2, deps2, y, e)
  <2>1. /\ vis \subseteq vis2 /\ \A z \in vis : E[z] = D[z]
        /\ \A k \in DOMAIN deps : k \in DOMAIN deps2 /\ deps2[k] = deps[k]
    BY <1>3, <1>5, <1>8
  <2> QED
    BY <1>9, <2>1, SettledStays
<1>10. Settled(E, vis2, deps2, cur.sig, d)
  <2> SUFFICES ASSUME d < MaxDepth
               PROVE  /\ \A v \in DrivingChunks(cur.sig) : ~IsConst(Leads(cur.sig, v)) =>
                           \E z \in vis2 : z \in {ChunkOf(v), Leads(cur.sig, v)} /\ E[z] <= d + 1
                      /\ TakenAsDependent(cur.sig) =>
                           \E k \in DOMAIN deps2 : deps2[k].sig = cur.sig /\ deps2[k].depth = d
    BY DEF Settled
  <2>1. \A v \in DrivingChunks(cur.sig) : MetBy(cur.sig, v, vis2)
    BY DEF d, vis2
  <2>2. TakenAsDependent(cur.sig) =>
          \E k \in DOMAIN deps2 : deps2[k].sig = cur.sig /\ deps2[k].depth = d
    BY <1>5 DEF d
  <2> QED
    BY <1>8, <2>1, <2>2 DEF MetBy
<1>11. /\ \A j \in 1 .. n0 : q2[j] = q[j + 1] /\ j + 1 \in 1 .. n /\ j + 1 > 1
       /\ \A j \in 1 .. Len(q2) : j \in 1 .. n0 \/ j > n0
       /\ n0 \in Nat
  BY <1>1, <1>3, <1>4
<1>12. /\ \A k, l \in 1 .. n : k <= l => q[k].depth <= q[l].depth
       /\ \A k \in 1 .. n : q[k].depth <= d + 1 /\ d <= q[k].depth
       /\ \A k \in 1 .. n : \A j \in 1 .. m : deps[j].depth <= q[k].depth
  <2>1. \A k \in 1 .. n : 1 <= k
    BY <1>1
  <2> QED
    BY <1>1, <2>1 DEF BreadthFirst, InOrder, n, m, d
<1>13. \A j \in 1 .. Len(q2) : d <= q2[j].depth /\ q2[j].depth <= d + 1
  <2> SUFFICES ASSUME NEW j \in 1 .. Len(q2)
               PROVE  d <= q2[j].depth /\ q2[j].depth <= d + 1
    OBVIOUS
  <2>1. CASE j \in 1 .. n0
    BY <1>11, <1>12, <2>1
  <2>2. CASE j > n0
    <3>1. q2[j].depth = d + 1
      BY <1>3, <2>2
    <3> QED
      BY <1>2, <3>1 DEF d
  <2> QED
    BY <1>11, <2>1, <2>2
<1>14. MetAt(E, q2, vis2, deps2)
  <2>1. ASSUME NEW k \in 1 .. Len(q2)
        PROVE  q2[k].sig \in vis2 /\ E[q2[k].sig] = q2[k].depth
    <3>1. CASE k \in 1 .. n0
      <4>1. q[k + 1].sig \in vis /\ D[q[k + 1].sig] = q[k + 1].depth /\ q2[k] = q[k + 1]
        BY <1>7, <1>11, <3>1
      <4> QED
        BY <1>3, <1>8, <4>1
    <3>2. CASE k > n0
      BY <1>3, <1>8, <3>2
    <3> QED
      BY <1>11, <3>1, <3>2
  <2>2. ASSUME NEW y \in vis2, ~Settled(E, vis2, deps2, y, E[y])
        PROVE  \E k \in 1 .. Len(q2) : q2[k].sig = y
    <3>1. CASE y \notin vis
      BY <1>3, <3>1
    <3>2. CASE y \in vis
      <4>1. E[y] = D[y]
        BY <1>8, <3>2
      <4>2. ~Settled(D, vis, deps, y, D[y])
        BY <1>9, <2>2, <4>1
      <4>3. ~(y = cur.sig /\ D[y] = d)
        BY <1>10, <2>2, <4>1
      <4>4. PICK k \in 1 .. n : k > 1 /\ q[k].sig = y
        BY <1>7, <3>2, <4>2, <4>3
      <4>5. k - 1 \in 1 .. n0 /\ (k - 1) + 1 = k
        BY <1>1, <4>4
      <4>6. q2[k - 1] = q[k] /\ k - 1 \in 1 .. Len(q2)
        BY <1>1, <1>3, <1>4, <1>11, <4>5
      <4> QED
        BY <4>4, <4>6
    <3> QED
      BY <3>1, <3>2
  <2>3. Settled(E, vis2, deps2, netlist.target, 0)
    BY <1>7, <1>9, <1>10
  <2> QED
    BY <1>8, <2>1, <2>2, <2>3 DEF MetAt
<1>15. NoFurther(E, q2, vis2)
  <2> SUFFICES ASSUME q2 # <<>>, NEW y \in vis2 PROVE E[y] <= q2[1].depth + 1
    BY DEF NoFurther
  <2>1. 1 \in 1 .. Len(q2)
    BY <1>3, TailFacts, <1>4
  <2>2. d <= q2[1].depth /\ q2[1].depth \in Nat /\ E[y] <= d + 1 /\ E[y] \in Nat /\ d \in Nat
    BY <1>2, <1>4, <1>8, <1>13, <2>1 DEF d
  <2> QED
    BY <2>2
<1>16. InOrder(q2, deps2)
  <2>1. ASSUME NEW k \in 1 .. Len(q2), NEW l \in 1 .. Len(q2), k <= l
        PROVE  q2[k].depth <= q2[l].depth
    <3>1. CASE l \in 1 .. n0
      <4>1. k \in 1 .. n0 /\ k + 1 <= l + 1
        BY <1>11, <2>1, <3>1
      <4> QED
        BY <1>11, <1>12, <3>1, <4>1
    <3>2. CASE l > n0
      <4>1. q2[l].depth = d + 1
        BY <1>3, <3>2
      <4> QED
        BY <1>13, <4>1
    <3> QED
      BY <1>11, <3>1, <3>2
  <2>2. ASSUME NEW k \in 1 .. Len(q2) PROVE q2[k].depth <= q2[1].depth + 1
    <3>1. 1 \in 1 .. Len(q2)
      BY <1>4
    <3>2. /\ d <= q2[1].depth /\ q2[k].depth <= d + 1 /\ d \in Nat
          /\ q2[1].depth \in Nat /\ q2[k].depth \in Nat
      BY <1>2, <1>4, <1>13, <3>1 DEF d
    <3> QED
      BY <3>2
  <2>3. ASSUME NEW k \in 1 .. Len(q2), NEW j \in 1 .. Len(deps2)
        PROVE  deps2[j].depth <= q2[k].depth
    <3>1. CASE j \in 1 .. m
      <4>1. deps2[j].depth <= d /\ deps2[j].depth \in Nat
        <5>1. deps[j].depth <= q[1].depth
          BY <1>1, <1>12, <3>1
        <5> QED
          BY <1>5, <3>1, <5>1 DEF d
      <4>2. d <= q2[k].depth /\ d \in Nat /\ q2[k].depth \in Nat
        BY <1>2, <1>4, <1>13 DEF d
      <4> QED
        BY <4>1, <4>2
    <3>2. CASE j \notin 1 .. m
      BY <1>5, <1>13, <3>2 DEF d
    <3> QED
      BY <3>1, <3>2
  <2> QED
    BY <2>1, <2>2, <2>3 DEF InOrder
<1>17. OfLayers(q2, deps2)
  <2>1. /\ \A k \in 1 .. n : q[k].sig \in Layers[q[k].depth]
        /\ \A j \in 1 .. m : deps[j].sig \in Layers[deps[j].depth]
    BY DEF BreadthFirst, OfLayers, n, m
  <2>2. cur.sig \in Layers[d]
    BY <1>1, <2>1 DEF d
  <2>3. ASSUME NEW k \in 1 .. Len(q2) PROVE q2[k].sig \in Layers[q2[k].depth]
    <3>1. CASE k \in 1 .. n0
      BY <1>11, <2>1, <3>1
    <3>2. CASE k > n0
      <4>1. /\ q2[k].depth = d + 1 /\ d + 1 <= MaxDepth
            /\ q2[k].sig \in Next1(cur.sig)
        <5>1. PICK v \in DrivingChunks(cur.sig) :
                q2[k].sig = Leads(cur.sig, v) /\ ~IsConst(Leads(cur.sig, v))
          BY <1>3, <3>2
        <5>2. q2[k].depth = d + 1 /\ q2[k].depth <= MaxDepth
          BY <1>3, <1>4, <3>2
        <5> QED
          BY <5>1, <5>2, NextIsLed
      <4>2. d + 1 \in 1 .. MaxDepth /\ (d + 1) - 1 = d
        BY <1>2, <4>1, SearchAssumption DEF d
      <4>3. Layers[d + 1] = UNION {Next1(s) : s \in Layers[d]}
        BY <4>2, LayerEquation
      <4> QED
        BY <2>2, <4>1, <4>3
    <3> QED
      BY <1>11, <3>1, <3>2
  <2>4. ASSUME NEW j \in 1 .. Len(deps2) PROVE deps2[j].sig \in Layers[deps2[j].depth]
    <3>1. CASE j \in 1 .. m
      BY <1>5, <2>1, <3>1
    <3>2. CASE j \notin 1 .. m
      BY <1>5, <2>2, <3>2 DEF d
    <3> QED
      BY <3>1, <3>2
  <2> QED
    BY <2>3, <2>4 DEF OfLayers
<1> QED
  BY <1>14, <1>15, <1>16, <1>17 DEF BreadthFirst, q2, vis2

(* Everything met is driven in one piece. *)
RegularInv == DrivenWhole => \A y \in visited : Regular(y)

(* One round of the search, as it is seen from the variables. *)
LEMMA SearchStepAdvances ==
  ASSUME WellFormed(netlist), SearchInv, SearchStep
  PROVE  LET cur == Head(queue)
             start == [queue |-> Tail(queue), visited |-> visited]
         IN  /\ queue # <<>> /\ cur \in Sound /\ start \in SearchStates
             /\ Advanced(cur, start, <<>>, 0, [queue |-> queue', visited |-> visited'])
             /\ cur.depth < MaxDepth =>
                  \A v \in DrivingChunks(cur.sig) : MetBy(cur.sig, v, visited')
             /\ \/ dependents' = dependents /\ (cur.depth < MaxDepth => ~TakenAsDependent(cur.sig))
                \/ dependents' = Append(dependents, cur)
<1> DEFINE cur == Head(queue)
           start == [queue |-> Tail(queue), visited |-> visited]
           seq == Visits(cur.sig)
           found == FoldLeft(LAMBDA f, v : Visit(f, cur, v), start, seq)
           x == [queue |-> queue', visited |-> visited']
<1>1. queue # <<>> /\ cur \in Sound /\ Tail(queue) \in Seq(Sound)
  BY HeadTailProperties DEF SearchInv, SearchStep, SearchOver
<1>2. start \in SearchStates
  BY <1>1 DEF SearchStates, SearchInv
<1>3. CASE cur.depth >= MaxDepth
  <2>1. /\ queue' = Tail(queue) /\ visited' = visited /\ dependents' = dependents
    BY <1>3 DEF SearchStep
  <2>2. x = start
    BY <2>1
  <2>3. Advanced(cur, start, <<>>, 0, x)
    <3> HIDE DEF x, start, cur
    <3> QED
      BY <1>2, <2>2, NothingAdvanced
  <2>4. ~(cur.depth < MaxDepth)
    <3>1. cur.depth \in 0 .. MaxDepth
      BY <1>1 DEF Sound
    <3> HIDE DEF cur
    <3> QED
      BY <1>3, <3>1, SearchAssumption
  <2> QED
    BY <1>1, <1>2, <2>1, <2>3, <2>4
<1>4. CASE ~(cur.depth >= MaxDepth)
  <2>1. /\ queue' = found.queue /\ visited' = found.visited
        /\ dependents' = IF TakenAsDependent(cur.sig)
                         THEN Append(dependents, cur) ELSE dependents
    BY <1>4 DEF SearchStep
  <2>2. cur.depth < MaxDepth
    <3>1. cur.depth \in 0 .. MaxDepth
      BY <1>1 DEF Sound
    <3> HIDE DEF cur
    <3> QED
      BY <1>4, <3>1, SearchAssumption
  <2>3. Advanced(cur, start, seq, Len(seq), found)
    <3> HIDE DEF cur, start
    <3> QED
      BY <1>1, <1>2, <2>2, RoundAdvances
  <2>4. /\ \A m \in 1 .. Len(seq) : seq[m] \in DrivingChunks(cur.sig)
        /\ \A v \in DrivingChunks(cur.sig) : \E m \in 1 .. Len(seq) : seq[m] = v
    BY VisitsAreAll
  <2> HIDE DEF cur, start, seq, found
  <2>5. found \in SearchStates
    BY <2>3 DEF Advanced
  <2>6. x = found
    BY <2>1, <2>5 DEF SearchStates
  <2>7. Advanced(cur, start, <<>>, 0, found)
    <3>1. \A l \in 1 .. 0 : FALSE
      OBVIOUS
    <3> QED
      BY <2>3, <3>1 DEF Advanced
  <2>8. \A v \in DrivingChunks(cur.sig) : MetBy(cur.sig, v, visited')
    BY <2>1, <2>3, <2>4 DEF Advanced
  <2>9. Advanced(cur, start, <<>>, 0, x)
    <3> HIDE DEF x
    <3> QED
      BY <2>6, <2>7
  <2> HIDE DEF x
  <2> QED
    BY <1>1, <1>2, <2>1, <2>8, <2>9 DEF cur, start, x
<1> QED
  BY <1>3, <1>4

(* The netlist stays, and with it what drives, leads and follows. *)
LEMMA SearchRulesStay ==
  ASSUME netlist' = netlist
  PROVE  /\ \A y : Drivers(y)' = Drivers(y)
         /\ \A y : DrivingChunks(y)' = DrivingChunks(y)
         /\ \A y, v : Leads(y, v)' = Leads(y, v)
         /\ \A v : ChunkOf(v)' = ChunkOf(v)
         /\ \A y : TakenAsDependent(y)' = TakenAsDependent(y)
         /\ \A y : Regular(y)' = Regular(y)
         /\ DrivenWhole' = DrivenWhole
         /\ Layers' = Layers
         /\ WellFormed(netlist)' = WellFormed(netlist)
<1>1. \A y : Drivers(y)' = Drivers(y)
  BY DEF Drivers, Connected, InputBits
<1>2. \A y : DrivingChunks(y)' = DrivingChunks(y)
  BY <1>1 DEF DrivingChunks
<1>3. \A v : ChunkOf(v)' = ChunkOf(v)
  BY DEF ChunkOf
<1>4. \A y, v : Leads(y, v)' = Leads(y, v)
  BY DEF Leads, ChunkOf
<1>5. \A y : TakenAsDependent(y)' = TakenAsDependent(y)
  BY <1>1 DEF TakenAsDependent
<1>6. \A y : Regular(y)' = Regular(y)
  BY <1>1 DEF Regular
<1>7. DrivenWhole' = DrivenWhole
  BY DEF DrivenWhole, Drivers, Connected, InputBits
<1>8. Layers' = Layers
  BY DEF Layers, Next1, Visits, Drivers, Connected, InputBits
<1>9. WellFormed(netlist)' = WellFormed(netlist)
  OBVIOUS
<1> QED
  BY <1>1, <1>2, <1>3, <1>4, <1>5, <1>6, <1>7, <1>8, <1>9

(* While the netlist stays, so does what is said of the variables. *)
LEMMA BreadthUnprimed ==
  ASSUME netlist' = netlist, BreadthFirst(queue', visited', dependents')
  PROVE  BreadthInv'
<1>1. ASSUME NEW D, NEW y, NEW d, Settled(D, visited', dependents', y, d)
      PROVE  Settled(D, visited, dependents, y, d)'
  BY <1>1, SearchRulesStay DEF Settled
<1>2. OfLayers(queue, dependents)' /\ InOrder(queue, dependents)'
  BY SearchRulesStay DEF BreadthFirst, OfLayers, InOrder
<1>3. CASE AtTarget(queue', visited', dependents')
  BY <1>2, <1>3 DEF BreadthInv, BreadthFirst, AtTarget, Seen
<1>4. ASSUME NEW D, MetAt(D, queue', visited', dependents'), NoFurther(D, queue', visited')
      PROVE  MetAt(D, queue, visited, dependents)' /\ NoFurther(D, queue, visited)'
  <2>1. NoFurther(D, queue, visited)'
    BY <1>4 DEF NoFurther
  <2>2. /\ D \in [visited' -> Nat]
        /\ \A k \in 1 .. Len(queue') :
             queue'[k].sig \in visited' /\ D[queue'[k].sig] = queue'[k].depth
        /\ \A y \in visited' : \/ \E k \in 1 .. Len(queue') : queue'[k].sig = y
                               \/ Settled(D, visited', dependents', y, D[y])
        /\ Settled(D, visited', dependents', netlist.target, 0)
    BY <1>4 DEF MetAt
  <2>3. Settled(D, visited, dependents, netlist.target, 0)'
    <3>1. \A y : Settled(D, visited', dependents', y, 0) =>
                  Settled(D, visited, dependents, y, 0)'
      BY <1>1
    <3> QED
      BY <2>2, SearchRulesStay DEF Settled
  <2>4. \A y \in visited' : Settled(D, visited', dependents', y, D[y]) =>
                            Settled(D, visited, dependents, y, D[y])'
    BY <1>1
  <2> QED
    BY <2>1, <2>2, <2>3, <2>4 DEF MetAt
<1> QED
  BY <1>2, <1>3, <1>4 DEF BreadthFirst, BreadthInv

(* Nothing has been searched at first. *)
LEMMA BreadthInvInit ==
  ASSUME WellFormed(netlist), SearchInit
  PROVE  BreadthInv /\ RegularInv
<1> DEFINE s == Seen(netlist.target, 0, 0, FALSE)
<1>1. queue = <<s>> /\ visited = {} /\ dependents = <<>>
  BY DEF SearchInit
<1>2. s.sig = netlist.target /\ s.depth = 0
  BY DEF Seen
<1>3. AtTarget(queue, visited, dependents)
  BY <1>1 DEF AtTarget
<1>4. /\ Len(queue) = 1 /\ queue[1] = s
      /\ \A k \in 1 .. Len(queue) : queue[k] = s
      /\ \A j \in 1 .. Len(dependents) : FALSE
  <2>1. Len(dependents) = 0 /\ \A j \in 1 .. 0 : FALSE
    BY <1>1
  <2> HIDE DEF s
  <2>2. Len(queue) = 1 /\ queue[1] = s /\ \A k \in 1 .. 1 : k = 1
    BY <1>1
  <2> QED
    BY <2>1, <2>2
<1>5. OfLayers(queue, dependents)
  BY <1>2, <1>4, LayerEquation DEF OfLayers
<1> HIDE DEF s
<1>6. InOrder(queue, dependents)
  BY <1>2, <1>4 DEF InOrder
<1> QED
  BY <1>1, <1>3, <1>5, <1>6 DEF BreadthInv, BreadthFirst, RegularInv

(* One round of the search. *)
LEMMA BreadthInvStep ==
  ASSUME WellFormed(netlist), SearchInv, BreadthInv, RegularInv, SearchStep,
         netlist' = netlist
  PROVE  BreadthInv' /\ RegularInv'
<1> DEFINE cur == Head(queue)
           start == [queue |-> Tail(queue), visited |-> visited]
           x == [queue |-> queue', visited |-> visited']
<1>1. /\ queue # <<>> /\ cur \in Sound /\ start \in SearchStates
      /\ Advanced(cur, start, <<>>, 0, x)
      /\ cur.depth < MaxDepth =>
           \A v \in DrivingChunks(cur.sig) : MetBy(cur.sig, v, visited')
      /\ \/ dependents' = dependents /\ (cur.depth < MaxDepth => ~TakenAsDependent(cur.sig))
         \/ dependents' = Append(dependents, cur)
  BY SearchStepAdvances
<1>2. /\ queue \in Seq(Sound) /\ visited \in SUBSET Chunks(netlist)
      /\ dependents \in Seq(Sound) /\ BreadthFirst(queue, visited, dependents)
      /\ cur = queue[1]
  BY <1>1, TailFacts DEF SearchInv, BreadthInv
<1>3. x.queue = queue' /\ x.visited = visited'
  OBVIOUS
<1> HIDE DEF cur, x
<1>4. BreadthFirst(x.queue, x.visited, dependents')
  BY <1>1, <1>2, <1>3, RoundKeepsBreadth
<1>5. BreadthInv'
  BY <1>3, <1>4, BreadthUnprimed
<1>6. ASSUME DrivenWhole, NEW y \in visited' PROVE Regular(y)
  <2>1. CASE y \in visited
    BY <1>6, <2>1 DEF RegularInv
  <2>2. CASE y \notin visited
    <3>1. start.visited = visited
      OBVIOUS
    <3> HIDE DEF start
    <3>2. PICK j \in 1 .. Len(x.queue) : j > Len(start.queue) /\ x.queue[j].sig = y
      BY <1>1, <1>3, <1>6, <2>2, <3>1 DEF Advanced
    <3>3. PICK v \in DrivingChunks(cur.sig) : y = Leads(cur.sig, v) /\ ~IsConst(Leads(cur.sig, v))
      BY <1>1, <3>2 DEF Advanced
    <3>4. cur.sig \in Chunks(netlist) /\ Bits(cur.sig) \subseteq Bits(cur.sig)
      BY <1>1 DEF Sound
    <3>5. /\ ~IsConst(ChunkOf(v)) /\ y \in Chunks(netlist) /\ Bits(y) \subseteq Bits(ChunkOf(v))
      BY <3>3, <3>4, LeadsWithin
    <3>6. /\ v[1] \in Drivers(cur.sig) /\ v[2] \in DOMAIN netlist.cells[v[1]].ports
          /\ v[3] \in DOMAIN netlist.cells[v[1]].ports[v[2]].sig
      BY DEF DrivingChunks
    <3>7. v[1] \in DOMAIN netlist.cells /\ ~IsMem(netlist.cells[v[1]])
      BY <3>6, DriverFacts DEF IsMem
    <3> QED
      BY <1>6, <3>5, <3>6, <3>7, SlicesAreRegular DEF ChunkOf
  <2> QED
    BY <2>1, <2>2
<1>7. RegularInv'
  BY <1>6, SearchRulesStay DEF RegularInv
<1> QED
  BY <1>5, <1>7

(* Other steps of a build leave the search alone. *)
LEMMA BreadthInvStays ==
  ASSUME BreadthInv, RegularInv, netlist' = netlist, UNCHANGED searchVars
  PROVE  BreadthInv' /\ RegularInv'
<1>1. queue' = queue /\ visited' = visited /\ dependents' = dependents
  BY DEF searchVars
<1>2. BreadthFirst(queue', visited', dependents')
  BY <1>1 DEF BreadthInv
<1>3. BreadthInv'
  BY <1>2, BreadthUnprimed
<1> QED
  BY <1>1, <1>3, SearchRulesStay DEF RegularInv

----------------------------------------------------------------------------
(* What the search has found when it is over.                              *)

(* What a part leads to is met when the slice it is part of is searched. *)
LEMMA NextCovered ==
  ASSUME WellFormed(netlist), NEW D \in [visited -> Nat], visited \subseteq Chunks(netlist),
         NEW s \in Chunks(netlist), NEW y \in Chunks(netlist), Bits(s) \subseteq Bits(y),
         Drivers(s) \subseteq Drivers(y), NEW d \in Nat, d < MaxDepth,
         Settled(D, visited, dependents, y, d), NEW w \in Next1(s)
  PROVE  \E z \in visited : D[z] <= d + 1 /\ Bits(w) \subseteq Bits(z)
<1>1. PICK v \in DrivingChunks(s) : w = Leads(s, v) /\ ~IsConst(Leads(s, v))
  BY NextIsLed
<1>2. v \in DrivingChunks(y)
  BY DEF DrivingChunks
<1>3. /\ ~IsConst(Leads(y, v)) /\ Bits(w) \subseteq Bits(Leads(y, v))
      /\ Bits(Leads(y, v)) \subseteq Bits(ChunkOf(v))
  BY <1>1, <1>2, LeadsWithin
<1>4. PICK z \in visited : z \in {ChunkOf(v), Leads(y, v)} /\ D[z] <= d + 1
  BY <1>2, <1>3 DEF Settled
<1> QED
  BY <1>3, <1>4

(* Everything the rules reach in at least one cell, within a number of cells
   the search has done with, lies within something met as early. *)
LEMMA LayersCovered ==
  ASSUME WellFormed(netlist), NEW D \in [visited -> Nat], visited \subseteq Chunks(netlist),
         NEW K \in Nat, K <= MaxDepth, \A y \in visited : Regular(y),
         \A y \in visited : D[y] < K => Settled(D, visited, dependents, y, D[y]),
         K > 0 => Settled(D, visited, dependents, netlist.target, 0)
  PROVE  \A k \in 1 .. K : \A s \in Layers[k] :
           \E y \in visited : D[y] <= k /\ Bits(s) \subseteq Bits(y)
<1> DEFINE Covered(k) == \A s \in Layers[k] :
             \E y \in visited : D[y] <= k /\ Bits(s) \subseteq Bits(y)
           T == {k \in Nat : k + 1 <= K => Covered(k + 1)}
<1>0. MaxDepth \in Nat
  BY SearchAssumption
<1>1. /\ Layers[0] = {netlist.target}
      /\ \A k \in 1 .. MaxDepth : Layers[k] = UNION {Next1(s) : s \in Layers[k - 1]}
      /\ \A k \in 0 .. MaxDepth : Layers[k] \subseteq Chunks(netlist)
  BY LayerEquation
<1>2. 0 \in T
  <2>1. SUFFICES ASSUME 0 + 1 <= K, NEW w \in Layers[1]
                 PROVE  \E y \in visited : D[y] <= 1 /\ Bits(w) \subseteq Bits(y)
    OBVIOUS
  <2>2. 1 \in 1 .. MaxDepth /\ 1 - 1 = 0 /\ 0 < MaxDepth /\ K > 0
    BY <1>0, <2>1
  <2>3. w \in Next1(netlist.target)
    BY <1>1, <2>1, <2>2
  <2>4. netlist.target \in Chunks(netlist)
    BY DEF WellFormed
  <2>5. \E z \in visited : D[z] <= 0 + 1 /\ Bits(w) \subseteq Bits(z)
    BY <2>2, <2>3, <2>4, NextCovered
  <2> QED
    BY <2>5
<1>3. ASSUME NEW k \in T PROVE k + 1 \in T
  <2>1. k \in Nat /\ k + 1 \in Nat /\ (k + 1) + 1 = k + 2 /\ (k + 2) - 1 = k + 1
    OBVIOUS
  <2>2. SUFFICES ASSUME k + 2 <= K, NEW w \in Layers[k + 2]
                 PROVE  \E y \in visited : D[y] <= k + 2 /\ Bits(w) \subseteq Bits(y)
    BY <2>1
  <2>3. k + 2 \in 1 .. MaxDepth /\ k + 1 \in 0 .. MaxDepth /\ k + 1 <= K
    BY <1>0, <2>1, <2>2
  <2>4. PICK s \in Layers[k + 1] : w \in Next1(s)
    BY <1>1, <2>1, <2>2, <2>3
  <2>5. s \in Chunks(netlist)
    BY <1>1, <2>3, <2>4
  <2>6. PICK y \in visited : D[y] <= k + 1 /\ Bits(s) \subseteq Bits(y)
    BY <2>3, <2>4
  <2> DEFINE d == D[y]
  <2>7. d \in Nat /\ d < K /\ d < MaxDepth /\ d <= k + 1
    <3>1. d \in Nat /\ d <= k + 1
      BY <2>6
    <3> HIDE DEF d
    <3> QED
      BY <1>0, <2>1, <2>2, <3>1
  <2>8. Settled(D, visited, dependents, y, d) /\ Drivers(s) \subseteq Drivers(y)
    BY <2>5, <2>6, <2>7 DEF Regular
  <2> HIDE DEF d
  <2>9. PICK z \in visited : D[z] <= d + 1 /\ Bits(w) \subseteq Bits(z)
    BY <2>4, <2>5, <2>6, <2>7, <2>8, NextCovered
  <2>10. D[z] <= k + 2
    <3> DEFINE e == D[z]
    <3>1. e \in Nat /\ e <= d + 1
      BY <2>9
    <3> HIDE DEF e
    <3>2. e <= k + 2
      BY <2>1, <2>7, <3>1
    <3> QED
      BY <3>2 DEF e
  <2> QED
    BY <2>9, <2>10
<1>4. T = Nat
  <2>1. T \in SUBSET Nat
    OBVIOUS
  <2> HIDE DEF T
  <2> QED
    BY <1>2, <1>3, <2>1, AllNumbers
<1>5. \A k \in 1 .. K : k - 1 \in Nat /\ (k - 1) + 1 = k /\ k <= K
  OBVIOUS
<1> HIDE DEF Covered
<1>6. \A k \in 1 .. K : Covered(k)
  BY <1>4, <1>5
<1> QED
  BY <1>6 DEF Covered

(* Registers within a number of cells the search has done with are taken, with
   the slice they were met in. *)
LEMMA TakenCovered ==
  ASSUME WellFormed(netlist), SearchInv, BreadthInv, RegularInv, DrivenWhole,
         NEW k \in Nat, k < MaxDepth, queue # <<>> => k < queue[1].depth,
         NEW s \in Layers[k], TakenAsDependent(s), ~Hidden(s)
  PROVE  \E j \in DOMAIN dependents : /\ Bits(s) \subseteq Bits(dependents[j].sig)
                                      /\ dependents[j].depth <= k
<1>1. queue \in Seq(Sound) /\ visited \subseteq Chunks(netlist) /\ MaxDepth \in Nat
  BY SearchAssumption DEF SearchInv
<1>2. queue # <<>> => /\ 1 \in 1 .. Len(queue) /\ Len(queue) \in Nat
                      /\ queue[1].depth \in Nat /\ queue[1].depth <= MaxDepth
  BY <1>1, TailFacts, StateFacts
<1>3. ~AtTarget(queue, visited, dependents)
  <2> SUFFICES ASSUME AtTarget(queue, visited, dependents) PROVE FALSE
    OBVIOUS
  <2>1. queue # <<>> /\ queue[1] = Seen(netlist.target, 0, 0, FALSE)
    BY DEF AtTarget
  <2>2. queue[1].depth = 0
    BY <2>1 DEF Seen
  <2>3. k < queue[1].depth
    BY <2>1
  <2> QED
    BY <2>2, <2>3
<1>4. PICK D : MetAt(D, queue, visited, dependents)
  BY <1>3 DEF BreadthInv, BreadthFirst
<1>5. /\ D \in [visited -> Nat]
      /\ \A i \in 1 .. Len(queue) : D[queue[i].sig] = queue[i].depth
      /\ \A y \in visited : \/ \E i \in 1 .. Len(queue) : queue[i].sig = y
                            \/ Settled(D, visited, dependents, y, D[y])
      /\ Settled(D, visited, dependents, netlist.target, 0)
  BY <1>4 DEF MetAt
<1> DEFINE K == IF queue = <<>> THEN MaxDepth ELSE queue[1].depth
<1>6. K \in Nat /\ K <= MaxDepth /\ k < K
  BY <1>1, <1>2
<1>7. \A y \in visited : D[y] < K => Settled(D, visited, dependents, y, D[y])
  <2> SUFFICES ASSUME NEW y \in visited, D[y] < K,
                      NEW i \in 1 .. Len(queue), queue[i].sig = y
               PROVE  FALSE
    BY <1>5
  <2>1. queue # <<>>
    <3>1. \A j \in 1 .. 0 : FALSE
      OBVIOUS
    <3> QED
      BY <3>1
  <2>2. queue[1].depth <= queue[i].depth
    <3>1. 1 <= i
      BY <1>2, <2>1
    <3> QED
      BY <1>2, <2>1, <3>1 DEF BreadthInv, BreadthFirst, InOrder
  <2>3. D[y] = queue[i].depth /\ K = queue[1].depth /\ D[y] \in Nat
    BY <1>5, <2>1
  <2> HIDE DEF K
  <2> QED
    BY <1>6, <2>2, <2>3
<1>8. \A y \in visited : Regular(y)
  BY DEF RegularInv
<1> HIDE DEF K
<1>9. \A n \in 1 .. K : \A x \in Layers[n] :
        \E y \in visited : D[y] <= n /\ Bits(x) \subseteq Bits(y)
  BY <1>1, <1>5, <1>6, <1>7, <1>8, LayersCovered
<1>10. CASE k = 0
  <2>1. s = netlist.target
    BY <1>10, LayerEquation
  <2>2. 0 < MaxDepth
    BY <1>10
  <2>3. PICK j \in DOMAIN dependents : dependents[j].sig = s /\ dependents[j].depth = 0
    BY <1>5, <2>1, <2>2 DEF Settled
  <2> QED
    BY <1>10, <2>3
<1>11. CASE k # 0
  <2>1. k \in 1 .. K /\ k \in 0 .. MaxDepth
    BY <1>1, <1>6, <1>11
  <2>2. PICK y \in visited : D[y] <= k /\ Bits(s) \subseteq Bits(y)
    BY <1>9, <2>1
  <2>3. s \in Chunks(netlist)
    BY <2>1, LayerEquation
  <2>4. TakenAsDependent(y)
    <3>1. ~(y.n > MaxWidth)
      BY <2>2 DEF Hidden, TooWide
    <3>2. y.n \in Nat
      BY <1>1 DEF Chunks
    <3>3. y.n <= MaxWidth
      BY <3>1, <3>2, SearchAssumption
    <3>4. Drivers(s) \subseteq Drivers(y)
      BY <1>8, <2>2, <2>3 DEF Regular
    <3> QED
      BY <3>3, <3>4 DEF TakenAsDependent
  <2> DEFINE d == D[y]
  <2>5. d \in Nat /\ d <= k
    BY <1>5, <2>2
  <2>6. d < K /\ d < MaxDepth
    <3> HIDE DEF d
    <3> QED
      BY <1>1, <1>6, <2>5
  <2>7. Settled(D, visited, dependents, y, d)
    BY <1>7, <2>6
  <2> HIDE DEF d
  <2>8. PICK j \in DOMAIN dependents : dependents[j].sig = y /\ dependents[j].depth = d
    BY <2>4, <2>6, <2>7 DEF Settled
  <2> QED
    BY <2>2, <2>5, <2>8
<1> QED
  BY <1>10, <1>11

(* The depth kept for a bit is that of an addition, and the least. *)
LEMMA InfoOfBitFacts ==
  ASSUME SearchInv, NEW bit, NEW k \in DOMAIN dependents, bit \in Bits(dependents[k].sig)
  PROVE  /\ \E m \in DOMAIN dependents : /\ InfoOfBit(bit) = dependents[m]
                                         /\ bit \in Bits(dependents[m].sig)
         /\ InfoOfBit(bit).depth \in Nat
         /\ InfoOfBit(bit).depth <= dependents[k].depth
<1> DEFINE additions == {j \in DOMAIN dependents : bit \in Bits(dependents[j].sig)}
           First(m) == \A j \in additions :
                         \/ dependents[m].depth < dependents[j].depth
                         \/ dependents[m].depth = dependents[j].depth /\ m <= j
           depths == {dependents[j].depth : j \in additions}
<1>1. DOMAIN dependents \in SUBSET Nat /\ \A j \in DOMAIN dependents : dependents[j].depth \in Nat
  <2>1. dependents \in Seq(Sound)
    BY DEF SearchInv
  <2> QED
    BY <2>1, StateFacts
<1>2. depths \in SUBSET Nat /\ depths # {}
  BY <1>1
<1>3. PICK d \in depths : \A e \in depths : d <= e
  <2> HIDE DEF depths
  <2> QED
    BY <1>2, LeastExists
<1> DEFINE least == {j \in additions : dependents[j].depth = d}
<1>4. least \in SUBSET Nat /\ least # {}
  BY <1>1, <1>3
<1>5. PICK m \in least : \A j \in least : m <= j
  <2> HIDE DEF least
  <2> QED
    BY <1>4, LeastExists
<1>6. First(m)
  <2> SUFFICES ASSUME NEW j \in additions
               PROVE  \/ dependents[m].depth < dependents[j].depth
                      \/ dependents[m].depth = dependents[j].depth /\ m <= j
    OBVIOUS
  <2>1. dependents[m].depth = d /\ d <= dependents[j].depth
    BY <1>3, <1>5
  <2>2. CASE dependents[j].depth = d
    BY <1>5, <2>1, <2>2
  <2>3. CASE dependents[j].depth # d
    <3>1. d \in Nat /\ dependents[j].depth \in Nat
      BY <1>1, <1>2
    <3> QED
      BY <2>1, <2>3, <3>1
  <2> QED
    BY <2>2, <2>3
<1> DEFINE c == CHOOSE i \in additions : First(i)
<1>7. m \in additions
  BY <1>5
<1>8. InfoOfBit(bit) = dependents[c]
  BY DEF InfoOfBit
<1>9. c \in additions /\ First(c)
  <2> HIDE DEF First, additions
  <2> QED
    BY <1>6, <1>7
<1> HIDE DEF c
<1>10. dependents[c].depth <= dependents[k].depth
  <2>1. k \in additions /\ dependents[c].depth \in Nat /\ dependents[k].depth \in Nat
    BY <1>1, <1>9
  <2> QED
    BY <1>9, <2>1
<1> QED
  BY <1>1, <1>8, <1>9, <1>10

(* The depth reported for a register is that of an addition with one of its
   bits, and the least of those. *)
LEMMA DependentInfoFacts ==
  ASSUME WellFormed(netlist), SearchInv, NEW s \in Found
  PROVE  /\ \E m \in DOMAIN dependents : /\ DependentInfo(s) = dependents[m]
                                         /\ Bits(dependents[m].sig) \cap Bits(s) # {}
         /\ \A k \in DOMAIN dependents : Bits(s) \cap Bits(dependents[k].sig) # {} =>
              DependentInfo(s).depth <= dependents[k].depth
<1>1. PICK k0 \in DOMAIN dependents : s = dependents[k0].sig
  BY DEF Found
<1>2. s \in Chunks(netlist)
  <2>1. dependents \in Seq(Sound)
    BY DEF SearchInv
  <2> QED
    BY <1>1, <2>1, StateFacts
<1> DEFINE nearest == CHOOSE b \in Bits(s) : \A e \in Bits(s) :
                  \/ InfoOfBit(b).depth < InfoOfBit(e).depth
                  \/ InfoOfBit(b).depth = InfoOfBit(e).depth /\ b[2] <= e[2]
<1>0. DependentInfo(s) = InfoOfBit(nearest)
  BY Zenon DEF DependentInfo
<1> DEFINE Depth(b) == InfoOfBit(b).depth
           Nearest_(b) == \A e \in Bits(s) :
             \/ Depth(b) < Depth(e)
             \/ Depth(b) = Depth(e) /\ b[2] <= e[2]
           c == CHOOSE b \in Bits(s) : Nearest_(b)
           depths == {Depth(b) : b \in Bits(s)}
<1>11. nearest = c
  OBVIOUS
<1> HIDE DEF nearest
<1> HIDE DEF c
<1>3. \A b \in Bits(s) : Depth(b) \in Nat
  BY <1>1, InfoOfBitFacts
<1>4. Bits(s) # {} /\ \A b \in Bits(s) : b[2] \in Nat
  <2>1. s.lo \in Nat /\ s.n \in Nat
    BY <1>2 DEF Chunks
  <2>2. \A i \in s.lo .. (s.lo + s.n - 1) : i \in Nat
    BY <2>1
  <2>3. \A b \in Bits(s) : b[2] \in Nat
    BY <2>2 DEF Bits
  <2> QED
    BY <1>2, <2>3, ChunkHasBits
<1>5. depths \in SUBSET Nat /\ depths # {}
  <2> HIDE DEF Depth
  <2> QED
    BY <1>3, <1>4
<1>6. PICK d \in depths : \A e \in depths : d <= e
  <2> HIDE DEF depths
  <2> QED
    BY <1>5, LeastExists
<1> DEFINE lows == {b[2] : b \in {e \in Bits(s) : Depth(e) = d}}
<1> HIDE DEF Depth
<1>7. lows \in SUBSET Nat /\ lows # {}
  BY <1>4, <1>6
<1>8. PICK l \in lows : \A e \in lows : l <= e
  <2> HIDE DEF lows
  <2> QED
    BY <1>7, LeastExists
<1>9. PICK b \in Bits(s) : Depth(b) = d /\ b[2] = l
  BY <1>8
<1>10. Nearest_(b)
  <2> SUFFICES ASSUME NEW e \in Bits(s)
               PROVE  \/ Depth(b) < Depth(e)
                      \/ Depth(b) = Depth(e) /\ b[2] <= e[2]
    OBVIOUS
  <2>1. CASE Depth(e) = d
    <3>1. e[2] \in lows
      BY <2>1
    <3> QED
      BY <1>8, <1>9, <2>1, <3>1
  <2>2. CASE Depth(e) # d
    <3>1. d <= Depth(e) /\ d \in Nat /\ Depth(e) \in Nat
      BY <1>3, <1>5, <1>6
    <3> QED
      BY <1>9, <2>2, <3>1
  <2> QED
    BY <2>1, <2>2
<1>12. c \in Bits(s) /\ Nearest_(c)
  <2>1. c = CHOOSE a \in Bits(s) : Nearest_(a)
    BY DEF c
  <2> HIDE DEF Nearest_
  <2> QED
    BY <1>9, <1>10, <2>1
<1>13. \A e \in Bits(s) : Depth(c) <= Depth(e)
  <2> SUFFICES ASSUME NEW e \in Bits(s) PROVE Depth(c) <= Depth(e)
    OBVIOUS
  <2>1. Depth(c) \in Nat /\ Depth(e) \in Nat
    BY <1>3, <1>12
  <2> QED
    BY <1>12, <2>1
<1>14. \E m \in DOMAIN dependents : /\ DependentInfo(s) = dependents[m]
                                    /\ Bits(dependents[m].sig) \cap Bits(s) # {}
  <2>1. PICK m \in DOMAIN dependents : /\ InfoOfBit(c) = dependents[m]
                                       /\ c \in Bits(dependents[m].sig)
    BY <1>1, <1>12, InfoOfBitFacts
  <2> QED
    BY <1>0, <1>11, <1>12, <2>1
<1>15. ASSUME NEW k \in DOMAIN dependents, Bits(s) \cap Bits(dependents[k].sig) # {}
       PROVE  DependentInfo(s).depth <= dependents[k].depth
  <2>1. PICK e \in Bits(s) : e \in Bits(dependents[k].sig)
    BY <1>15
  <2>2. Depth(e) <= dependents[k].depth /\ Depth(e) \in Nat
    BY <2>1, InfoOfBitFacts DEF Depth
  <2>3. Depth(c) <= Depth(e) /\ Depth(c) \in Nat
    BY <1>3, <1>12, <1>13
  <2>4. dependents[k].depth \in Nat
    <3>1. dependents \in Seq(Sound)
      BY DEF SearchInv
    <3> QED
      BY <3>1, StateFacts
  <2>5. Depth(c) <= dependents[k].depth
    BY <2>2, <2>3, <2>4
  <2> QED
    BY <1>0, <1>11, <2>5 DEF Depth
<1> QED
  BY <1>14, <1>15

(* A whole build keeps the search breadth first. *)
LEMMA BreadthInvariant == Spec => [](BuildInv /\ BreadthInv /\ RegularInv)
<1>1. Init => BuildInv /\ BreadthInv /\ RegularInv
  <2> SUFFICES ASSUME Init PROVE BuildInv /\ BreadthInv /\ RegularInv
    OBVIOUS
  <2>1. BuildInv /\ WellFormed(netlist)
    BY BuildInvInit, NetlistFacts DEF BuildInv
  <2>2. SearchInit
    BY DEF Init
  <2> QED
    BY <2>1, <2>2, BreadthInvInit
<1>2. (BuildInv /\ BreadthInv /\ RegularInv) /\ [Next]_instrumentVars
        => (BuildInv /\ BreadthInv /\ RegularInv)'
  <2> SUFFICES ASSUME BuildInv, BreadthInv, RegularInv, [Next]_instrumentVars
               PROVE  BuildInv' /\ BreadthInv' /\ RegularInv'
    OBVIOUS
  <2>1. BuildInv' /\ WellFormed(netlist) /\ SearchInv
    BY BuildInvStep, NetlistFacts DEF BuildInv
  <2>2. netlist' = netlist /\ (SearchStep \/ UNCHANGED searchVars)
    BY DEF Next, Analyze, InstrumentDependents, Select, InstrumentSelected, InstrumentMuxes,
           InstrumentInstances, InstrumentControl, Finish, instrumentVars, buildVars
  <2> QED
    BY <2>1, <2>2, BreadthInvStep, BreadthInvStays
<1> QED
  BY <1>1, <1>2, PTL DEF Spec

(* Where no wire is read whole and driven in pieces, a search that was not cut
   off has found every bit of every register the tracing rules reach below the
   depth limit, although slices of what was met whole are never followed. *)
THEOREM SearchAlwaysComplete == Spec => [](DrivenWhole => SearchIsComplete)
<1>1. BuildInv /\ BreadthInv /\ RegularInv => (DrivenWhole => SearchIsComplete)
  <2> SUFFICES ASSUME BuildInv, BreadthInv, RegularInv, DrivenWhole, queue = <<>>,
                      NEW d \in 0 .. (MaxDepth - 1), NEW s \in Layers[d],
                      TakenAsDependent(s), ~Hidden(s)
               PROVE  Bits(s) \subseteq UNION {Bits(f) : f \in Found}
    BY DEF SearchIsComplete
  <2>1. WellFormed(netlist) /\ SearchInv
    BY NetlistFacts DEF BuildInv
  <2>2. d \in Nat /\ d < MaxDepth
    BY SearchAssumption
  <2>3. PICK j \in DOMAIN dependents : Bits(s) \subseteq Bits(dependents[j].sig)
    BY <2>1, <2>2, TakenCovered
  <2> QED
    BY <2>3 DEF Found
<1> QED
  BY <1>1, BreadthInvariant, PTL

(* Under the same condition, the depth reported for a register is the smallest
   number of cells between any bit of it and the target, although signals are
   met again and slices overlap, and also if the search was cut off. *)
THEOREM DepthAlwaysShortest == Spec => [](DrivenWhole => DepthIsShortest)
<1>1. BuildInv /\ BreadthInv /\ RegularInv => (DrivenWhole => DepthIsShortest)
  <2> DEFINE Near(s, k) == \E x \in Layers[k] : /\ TakenAsDependent(x) /\ ~Hidden(x)
                                                /\ Bits(x) \cap Bits(s) # {}
  <2> SUFFICES ASSUME BuildInv, BreadthInv, RegularInv, DrivenWhole, NEW s \in Found
               PROVE  /\ \E x \in Layers[DependentInfo(s).depth] : Bits(x) \cap Bits(s) # {}
                      /\ \A k \in 0 .. (DependentInfo(s).depth - 1) : ~Near(s, k)
    BY DEF DepthIsShortest
  <2>1. WellFormed(netlist) /\ SearchInv
    BY NetlistFacts DEF BuildInv
  <2>2. PICK m \in DOMAIN dependents : /\ DependentInfo(s) = dependents[m]
                                       /\ Bits(dependents[m].sig) \cap Bits(s) # {}
    BY <2>1, DependentInfoFacts
  <2>3. dependents \in Seq(Sound) /\ queue \in Seq(Sound)
    BY <2>1 DEF SearchInv
  <2>4. /\ m \in 1 .. Len(dependents) /\ dependents[m].depth \in Nat
        /\ dependents[m].depth <= MaxDepth /\ MaxDepth \in Nat
    BY <2>3, StateFacts, SearchAssumption
  <2>5. dependents[m].sig \in Layers[dependents[m].depth]
    BY <2>4 DEF BreadthInv, BreadthFirst, OfLayers
  <2> DEFINE e == dependents[m].depth
  <2>6. ASSUME NEW k \in 0 .. (e - 1), Near(s, k) PROVE FALSE
    <3>1. k \in Nat /\ k < e /\ k < MaxDepth
      <4>1. e \in Nat /\ e <= MaxDepth
        BY <2>4
      <4> HIDE DEF e
      <4> QED
        BY <2>4, <4>1
    <3>2. queue # <<>> => k < queue[1].depth
      <4> SUFFICES ASSUME queue # <<>> PROVE k < queue[1].depth
        OBVIOUS
      <4>1. 1 \in 1 .. Len(queue) /\ queue[1].depth \in Nat
        <5>1. 1 \in 1 .. Len(queue)
          BY <2>3, TailFacts, StateFacts
        <5> QED
          BY <2>3, <5>1, StateFacts
      <4>2. e <= queue[1].depth /\ e \in Nat
        BY <2>4, <4>1 DEF BreadthInv, BreadthFirst, InOrder
      <4> HIDE DEF e
      <4> QED
        BY <3>1, <4>1, <4>2
    <3>3. PICK x \in Layers[k] : /\ TakenAsDependent(x) /\ ~Hidden(x)
                                 /\ Bits(x) \cap Bits(s) # {}
      BY <2>6
    <3>4. PICK j \in DOMAIN dependents : /\ Bits(x) \subseteq Bits(dependents[j].sig)
                                         /\ dependents[j].depth <= k
      BY <2>1, <3>1, <3>2, <3>3, TakenCovered
    <3>5. e <= dependents[j].depth
      BY <2>1, <2>2, <3>3, <3>4, DependentInfoFacts
    <3>6. dependents[j].depth \in Nat /\ e \in Nat
      BY <2>3, <2>4, StateFacts
    <3> HIDE DEF e
    <3> QED
      BY <3>1, <3>4, <3>5, <3>6
  <2> HIDE DEF Near
  <2> QED
    BY <2>2, <2>5, <2>6
<1> QED
  BY <1>1, BreadthInvariant, PTL

----------------------------------------------------------------------------
(* The search of the SurgeFuzz pass ends on every netlist.                 *)

(* What a port can lead to: the slices of its chunks. *)
SlicesOf(ch) ==
  {Chunk(ch.wire, r[1], r[2]) : r \in (ch.lo .. (ch.lo + ch.n - 1)) \X (1 .. ch.n)}
SlicesOfSig(sig) == UNION {SlicesOf(sig[k]) : k \in DOMAIN sig}
SlicesOfCell(cell) == UNION {SlicesOfSig(cell.ports[p].sig) : p \in DOMAIN cell.ports}
Slices == UNION {SlicesOfCell(netlist.cells[i]) : i \in DOMAIN netlist.cells}

(* What is left to search: the slices never met and what waits in the queue. *)
ToDo == Len(queue) + Cardinality(Slices \ visited)

(* What is covered by finitely many finite sets is finite. *)
LEMMA FiniteUnion ==
  ASSUME NEW n \in Nat, NEW f, NEW U, \A i \in 1 .. n : IsFiniteSet(f[i]),
         \A z \in U : \E i \in 1 .. n : z \in f[i]
  PROVE  IsFiniteSet(U)
<1> DEFINE R == 1 .. n
           S == {f[i] : i \in R}
           g == [i \in R |-> f[i]]
<1>1. IsFiniteSet(R)
  BY FS_Interval
<1>2. g \in Surjection(R, S)
  BY DEF Surjection
<1>3. IsFiniteSet(S)
  <2> HIDE DEF R, S, g
  <2> QED
    BY <1>1, <1>2, FS_Surjection
<1>4. \A T \in S : IsFiniteSet(T)
  OBVIOUS
<1>5. \A z \in U : \E T \in S : z \in T
  OBVIOUS
<1> HIDE DEF S
<1>6. IsFiniteSet(UNION S)
  BY <1>3, <1>4, FS_UNION
<1>7. U \in SUBSET UNION S
  BY <1>5
<1> QED
  BY <1>6, <1>7, FS_Subset

(* A chunk has finitely many slices. *)
LEMMA SlicesFinite ==
  ASSUME NEW nl, NEW ch \in Chunks(nl)
  PROVE  IsFiniteSet(SlicesOf(ch))
<1> DEFINE A == ch.lo .. (ch.lo + ch.n - 1)
           B == 1 .. ch.n
           R == A \X B
           S == SlicesOf(ch)
           g == [r \in R |-> Chunk(ch.wire, r[1], r[2])]
<1>1. ch.lo \in Nat /\ ch.n \in Nat
  BY DEF Chunks
<1>2. IsFiniteSet(A) /\ IsFiniteSet(B)
  <2> DEFINE lo == ch.lo
             n == ch.n
             hi == lo + n - 1
  <2>1. lo \in Int /\ n \in Int /\ hi \in Int
    BY <1>1
  <2> HIDE DEF lo, n, hi
  <2>2. IsFiniteSet(lo .. hi) /\ IsFiniteSet(1 .. n)
    BY <2>1, FS_Interval
  <2> QED
    BY <2>2 DEF lo, n, hi
<1>3. IsFiniteSet(R)
  <2> HIDE DEF A, B
  <2> QED
    BY <1>2, FS_Product
<1>4. g \in Surjection(R, S)
  <2> HIDE DEF R
  <2>1. S = {Chunk(ch.wire, r[1], r[2]) : r \in R}
    BY DEF SlicesOf, R
  <2> HIDE DEF S
  <2>2. \A s \in S : \E r \in R : g[r] = s
    BY <2>1
  <2>3. g \in [R -> S]
    BY <2>1
  <2> HIDE DEF g
  <2> QED
    BY <2>2, <2>3 DEF Surjection
<1> HIDE DEF R, S, g
<1>5. IsFiniteSet(S)
  BY <1>3, <1>4, FS_Surjection
<1> QED
  BY <1>5 DEF S

(* So has what a port is connected to. *)
LEMMA SlicesOfSigFinite ==
  ASSUME NEW nl, NEW sig \in Seq(Chunks(nl))
  PROVE  IsFiniteSet(SlicesOfSig(sig))
<1> DEFINE n == Len(sig)
           f == [k \in 1 .. n |-> SlicesOf(sig[k])]
           U == SlicesOfSig(sig)
<1>1. n \in Nat /\ DOMAIN sig = 1 .. n /\ \A k \in 1 .. n : sig[k] \in Chunks(nl)
  BY LenProperties
<1>2. \A k \in 1 .. n : IsFiniteSet(f[k])
  BY <1>1, SlicesFinite
<1>3. \A z \in U : \E k \in 1 .. n : z \in f[k]
  BY <1>1 DEF SlicesOfSig
<1> HIDE DEF n, f, U
<1>4. IsFiniteSet(U)
  BY <1>1, <1>2, <1>3, FiniteUnion
<1> QED
  BY <1>4 DEF U

(* So have all ports of a cell. *)
LEMMA SlicesOfCellFinite ==
  ASSUME WellFormed(netlist), NEW i \in DOMAIN netlist.cells
  PROVE  IsFiniteSet(SlicesOfCell(netlist.cells[i]))
<1> DEFINE ports == netlist.cells[i].ports
           n == Len(ports)
           f == [p \in 1 .. n |-> SlicesOfSig(ports[p].sig)]
           U == SlicesOfCell(netlist.cells[i])
<1>1. /\ ports \in Seq([name : STRING, sig : Seq(Chunks(netlist))])
      /\ \A p \in DOMAIN ports : ports[p].sig \in Seq(Chunks(netlist))
  BY CellFacts
<1>2. \A z \in U : \E p \in DOMAIN ports : z \in SlicesOfSig(ports[p].sig)
  BY DEF SlicesOfCell
<1> HIDE DEF ports, U
<1>3. n \in Nat /\ DOMAIN ports = 1 .. n
  BY <1>1, LenProperties
<1>4. \A p \in 1 .. n : IsFiniteSet(f[p])
  BY <1>1, <1>3, SlicesOfSigFinite
<1>5. \A z \in U : \E p \in 1 .. n : z \in f[p]
  BY <1>2, <1>3
<1> HIDE DEF n, f
<1>6. IsFiniteSet(U)
  BY <1>3, <1>4, <1>5, FiniteUnion
<1> QED
  BY <1>6 DEF U

(* So has the netlist. *)
LEMMA AllSlicesFinite ==
  ASSUME WellFormed(netlist)
  PROVE  IsFiniteSet(Slices)
<1> DEFINE n == Len(netlist.cells)
           f == [i \in 1 .. n |-> SlicesOfCell(netlist.cells[i])]
           U == Slices
<1>1. n \in Nat /\ DOMAIN netlist.cells = 1 .. n
  BY LenProperties DEF WellFormed
<1>2. \A i \in 1 .. n : IsFiniteSet(f[i])
  BY <1>1, SlicesOfCellFinite
<1>3. \A z \in U : \E i \in 1 .. n : z \in f[i]
  BY <1>1 DEF Slices
<1> HIDE DEF n, f, U
<1>4. IsFiniteSet(U)
  BY <1>1, <1>2, <1>3, FiniteUnion
<1> QED
  BY <1>4 DEF U

(* A part of a chunk is one of its slices. *)
LEMMA PartIsSlice ==
  ASSUME NEW nl, NEW y \in Chunks(nl), NEW ch \in Chunks(nl), Bits(y) \subseteq Bits(ch)
  PROVE  y \in SlicesOf(ch)
<1> DEFINE l == y.lo
           w == y.n
           lo == ch.lo
           n == ch.n
<1>1. /\ l \in Nat /\ lo \in Nat /\ w \in Nat \ {0} /\ n \in Nat \ {0}
      /\ y = Chunk(y.wire, l, w)
  BY DEF Chunks, Chunk
<1>2. /\ Bits(y) = {<<y.wire, i>> : i \in l .. (l + w - 1)}
      /\ Bits(ch) = {<<ch.wire, i>> : i \in lo .. (lo + n - 1)}
  BY DEF Bits
<1>3. SlicesOf(ch) = {Chunk(ch.wire, r[1], r[2]) : r \in (lo .. (lo + n - 1)) \X (1 .. n)}
  BY DEF SlicesOf
<1> HIDE DEF l, w, lo, n
<1>4. l \in l .. (l + w - 1) /\ l + w - 1 \in l .. (l + w - 1)
  BY <1>1
<1>5. /\ y.wire = ch.wire /\ l \in lo .. (lo + n - 1)
      /\ l + w - 1 \in lo .. (lo + n - 1)
  <2> DEFINE h == l + w - 1
  <2>1. l \in l .. h /\ h \in l .. h /\ Bits(y) = {<<y.wire, i>> : i \in l .. h}
    BY <1>2, <1>4
  <2> HIDE DEF h
  <2>2. <<y.wire, l>> \in Bits(ch) /\ <<y.wire, h>> \in Bits(ch)
    BY <2>1
  <2>3. /\ \E i \in lo .. (lo + n - 1) : <<y.wire, l>> = <<ch.wire, i>>
        /\ \E i \in lo .. (lo + n - 1) : <<y.wire, h>> = <<ch.wire, i>>
    BY <1>2, <2>2
  <2>4. y.wire = ch.wire /\ l \in lo .. (lo + n - 1) /\ h \in lo .. (lo + n - 1)
    BY <2>3
  <2> QED
    BY <2>4 DEF h
<1>6. w \in 1 .. n
  BY <1>1, <1>5
<1>7. <<l, w>> \in (lo .. (lo + n - 1)) \X (1 .. n)
  BY <1>5, <1>6
<1> QED
  BY <1>1, <1>3, <1>5, <1>7

(* What a round of the search meets are slices of the netlist. *)
LEMMA LedToSlice ==
  ASSUME WellFormed(netlist), NEW y \in Chunks(netlist), NEW v \in DrivingChunks(y),
         ~IsConst(Leads(y, v))
  PROVE  Leads(y, v) \in Slices
<1>1. Leads(y, v) \in Chunks(netlist) /\ Bits(Leads(y, v)) \subseteq Bits(ChunkOf(v))
  BY LeadsWithin
<1>2. ChunkOf(v) \in Chunks(netlist)
  BY LeadsWhere
<1>3. Leads(y, v) \in SlicesOf(ChunkOf(v))
  BY <1>1, <1>2, PartIsSlice
<1>4. /\ v[1] \in DOMAIN netlist.cells /\ v[2] \in DOMAIN netlist.cells[v[1]].ports
      /\ v[3] \in DOMAIN netlist.cells[v[1]].ports[v[2]].sig
  BY DriverFacts DEF DrivingChunks
<1> DEFINE cell == netlist.cells[v[1]]
           sig  == cell.ports[v[2]].sig
           z    == Leads(y, v)
<1>5. ChunkOf(v) = sig[v[3]] /\ v[3] \in DOMAIN sig
  BY <1>4 DEF ChunkOf
<1> HIDE DEF sig, z
<1>6. z \in SlicesOf(sig[v[3]])
  BY <1>3, <1>5 DEF z
<1>7. z \in SlicesOfSig(sig)
  BY <1>5, <1>6 DEF SlicesOfSig
<1>8. Leads(y, v) \in SlicesOfSig(cell.ports[v[2]].sig)
  BY <1>7 DEF sig, z
<1>9. Leads(y, v) \in SlicesOfCell(cell)
  BY <1>4, <1>8 DEF SlicesOfCell
<1> QED
  BY <1>4, <1>9 DEF Slices

(* What a round of the search does to what is left to search. *)
RoundShrinks == SearchStep => ToDo \in Nat \ {0} /\ ToDo' = ToDo - 1

(* Every round of the search takes one away from what is left to search: what
   is put on the queue is a slice not met before, although loops of wires lead
   back to the same signals.  The search thus ends, before the limit of its
   depth or at it, after at most one round for the target and one for each
   slice of what the cells read. *)
THEOREM EveryRoundShrinks == Spec => [][RoundShrinks]_instrumentVars
<1>1. ASSUME BuildInv, [Next]_instrumentVars, SearchStep
      PROVE  ToDo \in Nat \ {0} /\ ToDo' = ToDo - 1
  <2>1. WellFormed(netlist) /\ SearchInv
    BY <1>1, NetlistFacts DEF BuildInv
  <2>2. netlist' = netlist
    BY <1>1 DEF Next, Analyze, InstrumentDependents, Select, InstrumentSelected, InstrumentMuxes,
           InstrumentInstances, InstrumentControl, Finish, instrumentVars, buildVars
  <2>3. Slices' = Slices /\ IsFiniteSet(Slices)
    BY <2>1, <2>2, AllSlicesFinite DEF Slices
  <2> DEFINE cur == Head(queue)
             start == [queue |-> Tail(queue), visited |-> visited]
             x == [queue |-> queue', visited |-> visited']
             newly == visited' \ visited
  <2>4. /\ queue # <<>> /\ cur \in Sound /\ start \in SearchStates
        /\ Advanced(cur, start, <<>>, 0, x)
    BY <1>1, <2>1, SearchStepAdvances
  <2>5. /\ start.queue = Tail(queue) /\ start.visited = visited
        /\ x.queue = queue' /\ x.visited = visited'
    OBVIOUS
  <2>6. cur.sig \in Chunks(netlist)
    BY <2>4 DEF Sound
  <2> HIDE DEF cur, start, x
  <2>7. /\ visited \subseteq visited'
        /\ IsFiniteSet(newly) /\ Cardinality(newly) = Len(queue') - Len(Tail(queue))
        /\ \A z \in newly : \E v \in DrivingChunks(cur.sig) :
             z = Leads(cur.sig, v) /\ ~IsConst(Leads(cur.sig, v))
    BY <2>4, <2>5 DEF Advanced
  <2>8. newly \subseteq Slices
    BY <2>1, <2>6, <2>7, LedToSlice
  <2> DEFINE left == Slices \ visited
  <2>9. Slices \ visited' = left \ newly /\ left \cap newly = newly
    BY <2>7, <2>8
  <2>10. IsFiniteSet(left) /\ Cardinality(left) \in Nat
    BY <2>3, FS_Difference, FS_CardinalityType
  <2>11. Cardinality(Slices \ visited') = Cardinality(left) - Cardinality(newly)
    <3> HIDE DEF left, newly
    <3> QED
      BY <2>9, <2>10, FS_Difference
  <2>12. /\ Len(queue) \in Nat \ {0} /\ Len(queue') \in Nat
         /\ Len(Tail(queue)) = Len(queue) - 1
    <3>1. queue \in Seq(Sound) /\ queue' \in Seq(Sound)
      BY <2>1, <2>4, <2>5 DEF SearchInv, Advanced, SearchStates
    <3> QED
      BY <2>4, <3>1, LenProperties, EmptySeq, HeadTailProperties
  <2>13. ToDo = Len(queue) + Cardinality(left)
    BY DEF ToDo
  <2>14. ToDo' = Len(queue') + Cardinality(Slices \ visited')
    BY <2>3 DEF ToDo
  <2> HIDE DEF left, newly
  <2> QED
    BY <2>7, <2>10, <2>11, <2>12, <2>13, <2>14
<1>2. BuildInv /\ [Next]_instrumentVars => [RoundShrinks]_instrumentVars
  BY <1>1 DEF RoundShrinks
<1> QED
  BY <1>2, BuildInvariant, PTL DEF Spec
=============================================================================
