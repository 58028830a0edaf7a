----------------------- MODULE InstanceDistanceProofs -----------------------
(***************************************************************************)
(* The distances of the DirectFuzz pass are settled when its loop ends,    *)
(* for every graph of instances, every target and every order of the       *)
(* edges.  The invariant says what holds of an instance that has been      *)
(* reached while the relaxation goes on: its distance was set from a       *)
(* neighbour that is now at least one step nearer (Supported), and unless  *)
(* it waits in the queue, or is the one being relaxed with this edge still *)
(* to do, no edge out of it can bring anything nearer (Relaxed).           *)
(***************************************************************************)
EXTENDS InstanceDistance, DataLemmas, TLAPS

Reached(x) == distance[x] < Far
Waiting(x) == \E i \in DOMAIN que : que[i] = x

TargetAtZero == distance[target] = 0

Supported ==
  \A y \in Measured \ {target} : Reached(y) =>
    \E x \in Measured : y \in FedBy(x) /\ Reached(x) /\ distance[x] + 1 <= distance[y]

Relaxed ==
  \A x \in Measured : \A y \in FedBy(x) :
    Reached(x) /\ ~Waiting(x) /\ ~(x = current /\ y \in todo) =>
      distance[y] <= distance[x] + 1

(* What waits or is being relaxed has been reached. *)
OnlyReachedWait ==
  /\ \A i \in DOMAIN que : Reached(que[i])
  /\ todo # {} => Reached(current)

DistanceInv ==
  /\ DistanceTypeOK
  /\ TargetAtZero
  /\ Supported
  /\ Relaxed
  /\ OnlyReachedWait

----------------------------------------------------------------------------
(* The ends of an edge of the graph are measured. *)
LEMMA FedByIsMeasured == \A x : FedBy(x) \subseteq Measured
  BY DEF FedBy, Measured

(* What is taken off the queue. *)
LEMMA QueueTail ==
  ASSUME DistanceTypeOK, que # <<>>
  PROVE  /\ Head(que) \in Measured
         /\ Tail(que) \in Seq(Measured)
         /\ \A i \in DOMAIN Tail(que) : i + 1 \in DOMAIN que /\ Tail(que)[i] = que[i + 1]
         /\ \A x : (\E i \in DOMAIN que : que[i] = x) =>
              x = Head(que) \/ \E i \in DOMAIN Tail(que) : Tail(que)[i] = x
         /\ Head(que) = que[1] /\ 1 \in DOMAIN que
  <1>1. que \in Seq(Measured) /\ Len(que) \in Nat /\ Len(que) > 0
    BY DEF DistanceTypeOK
  <1>2. /\ Head(que) = que[1] /\ 1 \in DOMAIN que /\ Head(que) \in Measured
        /\ Tail(que) \in Seq(Measured)
        /\ Len(Tail(que)) = Len(que) - 1
        /\ \A i \in 1 .. (Len(que) - 1) : Tail(que)[i] = que[i + 1]
    BY <1>1
  <1>3. DOMAIN que = 1 .. Len(que) /\ DOMAIN Tail(que) = 1 .. (Len(que) - 1)
    BY <1>1, <1>2
  <1>4. ASSUME NEW i \in DOMAIN que, i # 1
        PROVE  i - 1 \in DOMAIN Tail(que) /\ Tail(que)[i - 1] = que[i]
    <2>1. i \in 1 .. Len(que) /\ i - 1 \in 1 .. (Len(que) - 1) /\ (i - 1) + 1 = i
      BY <1>1, <1>3, <1>4
    <2> QED  BY <1>2, <1>3, <2>1
  <1>5. ASSUME NEW x, NEW i \in DOMAIN que, que[i] = x
        PROVE  x = Head(que) \/ \E k \in DOMAIN Tail(que) : Tail(que)[k] = x
    BY <1>2, <1>4, <1>5
  <1>6. \A i \in DOMAIN Tail(que) : i + 1 \in DOMAIN que /\ Tail(que)[i] = que[i + 1]
    BY <1>1, <1>2, <1>3
  <1> QED  BY <1>2, <1>5, <1>6

(* What is put into the queue. *)
LEMMA QueueAppend ==
  ASSUME DistanceTypeOK, NEW y \in Measured
  PROVE  /\ QueueWith(y) \in Seq(Measured)
         /\ \A i \in DOMAIN que : i \in DOMAIN QueueWith(y) /\ QueueWith(y)[i] = que[i]
         /\ \E i \in DOMAIN QueueWith(y) : QueueWith(y)[i] = y
         /\ \A i \in DOMAIN QueueWith(y) :
              QueueWith(y)[i] = y \/ (i \in DOMAIN que /\ QueueWith(y)[i] = que[i])
  <1>1. que \in Seq(Measured) /\ Len(que) \in Nat
    BY DEF DistanceTypeOK
  <1>2. /\ QueueWith(y) \in Seq(Measured)
        /\ Len(QueueWith(y)) = Len(que) + 1
        /\ \A i \in 1 .. Len(que) : QueueWith(y)[i] = que[i]
        /\ QueueWith(y)[Len(que) + 1] = y
    BY <1>1 DEF QueueWith
  <1>3. DOMAIN que = 1 .. Len(que) /\ DOMAIN QueueWith(y) = 1 .. (Len(que) + 1)
    BY <1>1, <1>2
  <1>4. Len(que) + 1 \in DOMAIN QueueWith(y)
    BY <1>1, <1>3
  <1>5. \A i \in DOMAIN QueueWith(y) : i = Len(que) + 1 \/ i \in DOMAIN que
    BY <1>1, <1>3
  <1>6. \A i \in DOMAIN que : i \in DOMAIN QueueWith(y)
    BY <1>1, <1>3
  <1> QED  BY <1>2, <1>3, <1>4, <1>5, <1>6

----------------------------------------------------------------------------
(* At first only the target is measured. *)
LEMMA InitDistanceInv == GraphInit => DistanceInv
  <1> SUFFICES ASSUME GraphInit PROVE DistanceInv
    OBVIOUS
  <1> USE DEF GraphInit, DistanceInit
  <1>1. target \in Measured
    BY DEF Measured
  <1>2. distance \in [Measured -> 0 .. Far]
    BY FarAssumption
  <1>3. que \in Seq(Measured) /\ DOMAIN que = {1} /\ que[1] = target
    BY <1>1
  <1>4. DistanceTypeOK
    BY <1>1, <1>2, <1>3 DEF DistanceTypeOK
  <1>5. TargetAtZero /\ Reached(target)
    BY <1>1, FarAssumption DEF TargetAtZero, Reached
  <1>6. \A x \in Measured \ {target} : ~Reached(x)
    BY FarAssumption DEF Reached
  <1>7. Waiting(target)
    BY <1>3 DEF Waiting
  <1>8. Supported /\ Relaxed
    BY <1>6, <1>7 DEF Supported, Relaxed
  <1>9. OnlyReachedWait
    BY <1>3, <1>5 DEF OnlyReachedWait
  <1> QED  BY <1>4, <1>5, <1>8, <1>9 DEF DistanceInv

(* Taking an instance off the queue moves its edges to todo. *)
LEMMA TakeInstanceKeepsInv == DistanceInv /\ TakeInstance => DistanceInv'
  <1> SUFFICES ASSUME DistanceInv, TakeInstance PROVE DistanceInv'
    OBVIOUS
  <1> USE DEF DistanceInv
  <1>1. /\ todo = {} /\ que # <<>> /\ current' = Head(que) /\ que' = Tail(que)
        /\ todo' = FedBy(Head(que)) /\ UNCHANGED <<edges, target, distance>>
    BY DEF TakeInstance, graphVars
  <1>2. Measured' = Measured /\ \A x : FedBy(x)' = FedBy(x)
    BY <1>1 DEF Measured, GraphNodes, FedBy
  <1>3. \A x : Reached(x)' <=> Reached(x)
    BY <1>1 DEF Reached
  <1>4. /\ Head(que) \in Measured
        /\ Tail(que) \in Seq(Measured)
        /\ \A i \in DOMAIN Tail(que) : i + 1 \in DOMAIN que /\ Tail(que)[i] = que[i + 1]
        /\ \A x : (\E i \in DOMAIN que : que[i] = x) =>
             x = Head(que) \/ \E i \in DOMAIN Tail(que) : Tail(que)[i] = x
        /\ Head(que) = que[1] /\ 1 \in DOMAIN que
    BY <1>1, QueueTail
  <1>5. DistanceTypeOK'
    BY <1>1, <1>2, <1>4 DEF DistanceTypeOK
  <1>6. TargetAtZero' /\ Supported'
    BY <1>1, <1>2, <1>3 DEF TargetAtZero, Supported
  <1>7. \A x : Waiting(x) => x = Head(que) \/ Waiting(x)'
    BY <1>1, <1>4 DEF Waiting
  <1>8. Relaxed'
    <2> SUFFICES ASSUME NEW x \in Measured, NEW y \in FedBy(x), Reached(x),
                        ~Waiting(x)', ~(x = current' /\ y \in todo')
                 PROVE  distance[y] <= distance[x] + 1
      BY <1>1, <1>2, <1>3 DEF Relaxed
    <2>1. x # Head(que)
      BY <1>1
    <2>2. ~Waiting(x)
      BY <1>7, <2>1
    <2> QED  BY <1>1, <2>2 DEF Relaxed
  <1>9. OnlyReachedWait'
    BY <1>1, <1>3, <1>4 DEF OnlyReachedWait
  <1> QED  BY <1>5, <1>6, <1>8, <1>9

(* An edge that brings its end nearer lowers one distance and makes the end
   wait; one that does not is relaxed. *)
LEMMA RelaxEdgeKeepsInv ==
  ASSUME DistanceInv, NEW y \in todo, RelaxEdge(y)
  PROVE  DistanceInv'
  <1> USE DEF DistanceInv
  <1>1. /\ todo' = todo \ {y} /\ UNCHANGED <<edges, target, current>>
        /\ y \in FedBy(current) /\ current \in Measured /\ Reached(current)
    BY DEF RelaxEdge, graphVars, DistanceTypeOK, OnlyReachedWait
  <1>2. Measured' = Measured /\ (\A x : FedBy(x)' = FedBy(x)) /\ y \in Measured
    BY <1>1, FedByIsMeasured DEF Measured, GraphNodes, FedBy
  <1>3. distance \in [Measured -> 0 .. Far] /\ Far \in Nat
    BY FarAssumption DEF DistanceTypeOK
  <1>4. CASE ~ComesNearer(current, y)
    <2>1. UNCHANGED <<distance, que>>
      BY <1>4 DEF RelaxEdge
    <2>2. distance[y] <= distance[current] + 1
      <3>1. distance[y] \in Int /\ distance[current] \in Int
        BY <1>1, <1>2, <1>3
      <3> QED  BY <1>4, <3>1 DEF ComesNearer
    <2>3. \A x : (Reached(x)' <=> Reached(x)) /\ (Waiting(x)' <=> Waiting(x))
      BY <2>1 DEF Reached, Waiting
    <2>4. DistanceTypeOK'
      BY <1>1, <1>2, <2>1 DEF DistanceTypeOK
    <2>5. TargetAtZero' /\ Supported'
      BY <1>1, <1>2, <2>1, <2>3 DEF TargetAtZero, Supported
    <2>6. Relaxed'
      <3> SUFFICES ASSUME NEW x \in Measured, NEW z \in FedBy(x), Reached(x),
                          ~Waiting(x), ~(x = current /\ z \in todo \ {y})
                   PROVE  distance[z] <= distance[x] + 1
        BY <1>1, <1>2, <2>1, <2>3 DEF Relaxed
      <3>1. CASE x = current /\ z = y
        BY <2>2, <3>1
      <3>2. CASE ~(x = current /\ z = y)
        BY <3>2 DEF Relaxed
      <3> QED  BY <3>1, <3>2
    <2>7. OnlyReachedWait'
      BY <1>1, <2>1, <2>3 DEF OnlyReachedWait
    <2> QED  BY <2>4, <2>5, <2>6, <2>7
  <1>5. CASE ComesNearer(current, y)
    <2>1. /\ distance' = [distance EXCEPT ![y] = distance[current] + 1]
          /\ que' = QueueWith(y)
      BY <1>5 DEF RelaxEdge
    <2>2. distance[current] \in Nat /\ distance[y] \in 0 .. Far
          /\ distance[current] + 1 < distance[y]
      BY <1>1, <1>2, <1>3, <1>5 DEF ComesNearer
    <2>3. /\ distance[current] + 1 \in 0 .. Far /\ distance[current] + 1 < Far
          /\ current # y
      BY <1>3, <2>2
    <2>4. /\ distance' \in [Measured -> 0 .. Far]
          /\ distance'[y] = distance[current] + 1
          /\ \A x \in Measured \ {y} : distance'[x] = distance[x]
      BY <1>2, <1>3, <2>1, <2>3
    <2>5. /\ que' \in Seq(Measured)
          /\ \A i \in DOMAIN que : i \in DOMAIN que' /\ que'[i] = que[i]
          /\ \E i \in DOMAIN que' : que'[i] = y
          /\ \A i \in DOMAIN que' : que'[i] = y \/ (i \in DOMAIN que /\ que'[i] = que[i])
      BY <1>2, <2>1, QueueAppend
    <2>6. \A x \in Measured : distance'[x] <= distance[x]
      <3> SUFFICES ASSUME NEW x \in Measured PROVE distance'[x] <= distance[x]
        OBVIOUS
      <3>1. CASE x = y
        BY <2>2, <2>4, <3>1
      <3>2. CASE x # y
        BY <1>3, <2>4, <3>2
      <3> QED  BY <3>1, <3>2
    <2>7. Reached(y)' /\ \A x \in Measured : Reached(x) => Reached(x)'
      <3>1. \A x \in Measured : distance'[x] \in Int /\ distance[x] \in Int
        BY <1>3, <2>4
      <3> QED  BY <1>2, <1>3, <2>3, <2>4, <2>6, <3>1 DEF Reached
    <2>8. Waiting(y)' /\ \A x : Waiting(x) => Waiting(x)'
      BY <2>5 DEF Waiting
    <2>9. DistanceTypeOK'
      BY <1>1, <1>2, <2>4, <2>5 DEF DistanceTypeOK
    <2>10. TargetAtZero' /\ y # target
      <3>1. distance[target] = 0 /\ target \in Measured
        BY DEF TargetAtZero, Measured
      <3>2. y # target
        BY <2>2, <3>1
      <3> QED  BY <1>1, <2>4, <3>1, <3>2 DEF TargetAtZero
    <2>11. Supported'
      <3> SUFFICES ASSUME NEW z \in Measured \ {target}, Reached(z)'
                   PROVE  \E x \in Measured :
                            z \in FedBy(x) /\ Reached(x)' /\ distance'[x] + 1 <= distance'[z]
        BY <1>1, <1>2 DEF Supported
      <3>1. CASE z = y
        BY <1>1, <2>2, <2>3, <2>4, <2>7, <3>1
      <3>2. CASE z # y
        <4>1. Reached(z) /\ distance'[z] = distance[z]
          BY <2>4, <3>2 DEF Reached
        <4>2. PICK x \in Measured : z \in FedBy(x) /\ Reached(x)
                                    /\ distance[x] + 1 <= distance[z]
          BY <4>1 DEF Supported
        <4>3. distance'[x] + 1 <= distance'[z]
          <5>1. distance'[x] \in Int /\ distance[x] \in Int /\ distance[z] \in Int
            BY <1>3, <2>4
          <5> QED  BY <2>6, <4>1, <4>2, <5>1
        <4> QED  BY <2>7, <4>2, <4>3
      <3> QED  BY <3>1, <3>2
    <2>12. Relaxed'
      <3> SUFFICES ASSUME NEW x \in Measured, NEW z \in FedBy(x), Reached(x)',
                          ~Waiting(x)', ~(x = current /\ z \in todo \ {y})
                   PROVE  distance'[z] <= distance'[x] + 1
        BY <1>1, <1>2 DEF Relaxed
      <3>1. x # y /\ ~Waiting(x) /\ z \in Measured
        BY <2>8, FedByIsMeasured
      <3>2. distance'[x] = distance[x] /\ Reached(x)
        BY <2>4, <3>1 DEF Reached
      <3>3. CASE x = current /\ z = y
        BY <2>2, <2>4, <3>2, <3>3
      <3>4. CASE ~(x = current /\ z = y)
        <4>1. distance[z] <= distance[x] + 1
          BY <3>1, <3>2, <3>4 DEF Relaxed
        <4>2. distance'[z] \in Int /\ distance[z] \in Int /\ distance[x] \in Int
          BY <1>3, <2>4, <3>1
        <4> QED  BY <2>6, <3>1, <3>2, <4>1, <4>2
      <3> QED  BY <3>3, <3>4
    <2>13. OnlyReachedWait'
      <3>1. \A i \in DOMAIN que' : que'[i] \in Measured
        BY <2>5
      <3>2. \A i \in DOMAIN que' : distance'[que'[i]] < Far
        <4> SUFFICES ASSUME NEW i \in DOMAIN que' PROVE distance'[que'[i]] < Far
          OBVIOUS
        <4>1. CASE que'[i] = y
          BY <2>7, <4>1 DEF Reached
        <4>2. CASE i \in DOMAIN que /\ que'[i] = que[i]
          <5>1. distance[que[i]] < Far
            BY <4>2 DEF OnlyReachedWait, Reached
          <5> QED  BY <2>7, <3>1, <4>2, <5>1 DEF Reached
        <4> QED  BY <2>5, <4>1, <4>2
      <3> QED  BY <1>1, <2>7, <3>2 DEF OnlyReachedWait, Reached
    <2> QED  BY <2>9, <2>10, <2>11, <2>12, <2>13
  <1> QED  BY <1>4, <1>5

(* A stutter changes nothing. *)
LEMMA StutterKeepsInv == DistanceInv /\ UNCHANGED distanceVars => DistanceInv'
  BY DEF DistanceInv, distanceVars, DistanceTypeOK, TargetAtZero, Supported, Relaxed,
         OnlyReachedWait, Reached, Waiting, Measured, GraphNodes, FedBy

(* The invariant holds throughout. *)
LEMMA DistanceInvariant == DistanceSpec => []DistanceInv
  <1>1. DistanceInv /\ [DistanceNext]_distanceVars => DistanceInv'
    BY TakeInstanceKeepsInv, RelaxEdgeKeepsInv, StutterKeepsInv DEF DistanceNext
  <1> QED  BY <1>1, InitDistanceInv, PTL DEF DistanceSpec

(* The invariant and an empty queue settle the distances: an instance that
   was reached supports no distance larger than its own by more than one
   (Relaxed), and none smaller (Supported). *)
LEMMA InvSettles == DistanceInv => DistancesSettled
  <1> SUFFICES ASSUME DistanceInv, DistanceOver PROVE
        /\ distance[target] = 0
        /\ \A x \in Measured : \A y \in FedBy(x) :
             distance[x] < Far => distance[y] <= distance[x] + 1
        /\ \A y \in Measured \ {target} : distance[y] < Far =>
             \E x \in Measured : y \in FedBy(x) /\ distance[y] = distance[x] + 1
    BY DEF DistancesSettled
  <1>1. todo = {} /\ \A x : ~Waiting(x)
    BY DEF DistanceOver, Waiting
  <1>2. \A x \in Measured : \A y \in FedBy(x) :
          distance[x] < Far => distance[y] <= distance[x] + 1
    BY <1>1 DEF DistanceInv, Relaxed, Reached
  <1>3. ASSUME NEW y \in Measured \ {target}, distance[y] < Far
        PROVE  \E x \in Measured : y \in FedBy(x) /\ distance[y] = distance[x] + 1
    <2>1. PICK x \in Measured : /\ y \in FedBy(x) /\ distance[x] < Far
                                /\ distance[x] + 1 <= distance[y]
      BY <1>3 DEF DistanceInv, Supported, Reached
    <2>2. distance[x] \in Int /\ distance[y] \in Int
      BY DEF DistanceInv, DistanceTypeOK
    <2> QED  BY <1>2, <2>1, <2>2
  <1> QED  BY <1>2, <1>3 DEF DistanceInv, TargetAtZero

----------------------------------------------------------------------------
(* The loop of calc_distance keeps its types: it queues and relaxes only
   instances that have an entry in the map, so that no lookup fails, and no
   distance overflows. *)
THEOREM DistanceTypeCorrect == DistanceSpec => []DistanceTypeOK
  BY DistanceInvariant, PTL DEF DistanceInv

(* When the loop of calc_distance has ended, no edge brings an instance
   nearer, and every instance reached has a neighbour just one step nearer,
   whatever the graph, its loops and the order of the queue. *)
THEOREM DistancesAreSettled == DistanceSpec => []DistancesSettled
  BY DistanceInvariant, InvSettles, PTL

----------------------------------------------------------------------------
(* Settled distances are the lengths of shortest ways.                     *)

(* A way of k edges from the target to x. *)
IsWay(p, k, x) ==
  /\ p \in [0 .. k -> Measured]
  /\ p[0] = target /\ p[k] = x
  /\ \A i \in 1 .. k : p[i] \in FedBy(p[i - 1])

DistancesShortest ==
  DistanceOver =>
    \A x \in Measured :
      /\ distance[x] < Far => \E p : IsWay(p, distance[x], x)
      /\ \A k \in Nat : \A p : IsWay(p, k, x) => distance[x] <= k

(* One edge more makes the way longer by one. *)
LEMMA LongerWay ==
  ASSUME NEW k \in Nat, NEW x \in Measured, NEW y \in FedBy(x), NEW p, IsWay(p, k, x)
  PROVE  \E q : IsWay(q, k + 1, y)
<1> DEFINE q == [i \in 0 .. (k + 1) |-> IF i = k + 1 THEN y ELSE p[i]]
<1>1. y \in Measured
  BY FedByIsMeasured
<1>2. \A i \in 0 .. (k + 1) : i # k + 1 => i \in 0 .. k
  OBVIOUS
<1>3. 0 \in 0 .. (k + 1) /\ k + 1 \in 0 .. (k + 1) /\ 0 # k + 1
  OBVIOUS
<1>4. q \in [0 .. (k + 1) -> Measured] /\ q[0] = target /\ q[k + 1] = y
  BY <1>1, <1>2, <1>3 DEF IsWay
<1>5. ASSUME NEW i \in 1 .. (k + 1) PROVE q[i] \in FedBy(q[i - 1])
  <2>1. i - 1 \in 0 .. k /\ i - 1 \in 0 .. (k + 1) /\ i - 1 # k + 1 /\ i \in 0 .. (k + 1)
    OBVIOUS
  <2>2. q[i - 1] = p[i - 1]
    BY <2>1
  <2>3. CASE i = k + 1
    <3>1. i - 1 = k /\ q[i] = y
      BY <2>1, <2>3
    <3>2. p[k] = x
      BY DEF IsWay
    <3> HIDE DEF q
    <3> QED
      BY <2>2, <3>1, <3>2
  <2>4. CASE i # k + 1
    <3>1. i \in 1 .. k /\ q[i] = p[i]
      BY <2>1, <2>4
    <3> HIDE DEF q
    <3> QED
      BY <2>2, <3>1 DEF IsWay
  <2> QED
    BY <2>3, <2>4
<1>6. IsWay(q, k + 1, y)
  <2> HIDE DEF q
  <2> QED
    BY <1>4, <1>5 DEF IsWay
<1> QED
  BY <1>6

(* No way is shorter than a settled distance. *)
LEMMA NoWayIsShorter ==
  ASSUME DistanceTypeOK, DistancesSettled, DistanceOver,
         NEW k \in Nat, NEW x, NEW p, IsWay(p, k, x)
  PROVE  distance[x] <= k
<1> DEFINE T == {n \in Nat : n <= k => distance[p[n]] <= n}
<1>1. 0 \in T
  BY DEF IsWay, DistancesSettled
<1>2. ASSUME NEW n \in T PROVE n + 1 \in T
  <2>1. n \in Nat /\ n + 1 \in Nat /\ (n + 1) - 1 = n
    OBVIOUS
  <2>2. ASSUME n + 1 <= k PROVE distance[p[n + 1]] <= n + 1
    <3> DEFINE a == p[n]
               b == p[n + 1]
    <3>1. n \in 0 .. k /\ n + 1 \in 0 .. k /\ n + 1 \in 1 .. k /\ n <= k
      BY <2>1, <2>2
    <3>2. a \in Measured /\ b \in Measured /\ b \in FedBy(a) /\ distance[a] <= n
      BY <2>1, <3>1 DEF IsWay
    <3> HIDE DEF a, b
    <3>3. distance[a] \in 0 .. Far /\ distance[b] \in 0 .. Far /\ Far \in Nat
      BY <3>2, FarAssumption DEF DistanceTypeOK
    <3>4. distance[a] < Far => distance[b] <= distance[a] + 1
      BY <3>2 DEF DistancesSettled
    <3>5. distance[b] <= n + 1
      BY <2>1, <3>2, <3>3, <3>4
    <3> QED
      BY <3>5 DEF b
  <2> QED
    BY <2>1, <2>2
<1>3. T = Nat
  <2>1. T \in SUBSET Nat
    OBVIOUS
  <2> HIDE DEF T
  <2> QED
    BY <1>1, <1>2, <2>1, AllNumbers
<1>4. distance[p[k]] <= k
  BY <1>3
<1> QED
  BY <1>4 DEF IsWay

(* Down the neighbours that are one step nearer there is a way. *)
LEMMA SomeWayIsAsShort ==
  ASSUME DistanceTypeOK, DistancesSettled, DistanceOver
  PROVE  \A x \in Measured : distance[x] < Far => \E p : IsWay(p, distance[x], x)
<1> DEFINE T == {n \in Nat : \A x \in Measured :
                   distance[x] = n /\ n < Far => \E p : IsWay(p, n, x)}
<1>0. /\ Far \in Nat /\ target \in Measured
      /\ \A x \in Measured : distance[x] \in 0 .. Far
  BY FarAssumption DEF DistanceTypeOK, Measured
<1>1. 0 \in T
  <2> SUFFICES ASSUME NEW x \in Measured, distance[x] = 0, 0 < Far
               PROVE  \E p : IsWay(p, 0, x)
    OBVIOUS
  <2>1. x = target
    <3> SUFFICES ASSUME x # target PROVE FALSE
      OBVIOUS
    <3>1. PICK y \in Measured : distance[x] = distance[y] + 1
      BY DEF DistancesSettled
    <3>2. distance[y] \in Nat
      BY <1>0
    <3> QED
      BY <3>1, <3>2
  <2> DEFINE p == [i \in 0 .. 0 |-> target]
  <2>2. p \in [0 .. 0 -> Measured] /\ p[0] = target
    BY <1>0
  <2>3. \A i \in 1 .. 0 : p[i] \in FedBy(p[i - 1])
    OBVIOUS
  <2> HIDE DEF p
  <2>4. IsWay(p, 0, x)
    BY <2>1, <2>2, <2>3 DEF IsWay
  <2> QED
    BY <2>4
<1>2. ASSUME NEW n \in T PROVE n + 1 \in T
  <2>1. n \in Nat /\ n + 1 \in Nat
    OBVIOUS
  <2>2. ASSUME NEW x \in Measured, distance[x] = n + 1, n + 1 < Far
        PROVE  \E p : IsWay(p, n + 1, x)
    <3>1. x # target
      BY <2>1, <2>2 DEF DistancesSettled
    <3>2. PICK y \in Measured : x \in FedBy(y) /\ distance[x] = distance[y] + 1
      BY <2>2, <3>1 DEF DistancesSettled
    <3>3. distance[y] = n /\ n < Far
      BY <1>0, <2>1, <2>2, <3>2
    <3>4. PICK p : IsWay(p, n, y)
      BY <3>3
    <3> QED
      BY <2>1, <3>2, <3>4, LongerWay
  <2> QED
    BY <2>1, <2>2
<1>3. T = Nat
  <2>1. T \in SUBSET Nat
    OBVIOUS
  <2> HIDE DEF T
  <2> QED
    BY <1>1, <1>2, <2>1, AllNumbers
<1> SUFFICES ASSUME NEW x \in Measured, distance[x] < Far
             PROVE  \E p : IsWay(p, distance[x], x)
  OBVIOUS
<1> DEFINE n == distance[x]
<1>4. n \in Nat
  BY <1>0
<1>5. n \in T
  BY <1>3, <1>4
<1> QED
  BY <1>5

(* When the loop of calc_distance has ended, the distance of each instance is
   the length of a shortest way to it from the target, and the largest number
   only if there is no shorter one. *)
THEOREM DistancesAreShortest == DistanceSpec => []DistancesShortest
<1>1. DistanceInv => DistancesShortest
  <2> SUFFICES ASSUME DistanceInv, DistanceOver
               PROVE  \A x \in Measured :
                        /\ distance[x] < Far => \E p : IsWay(p, distance[x], x)
                        /\ \A k \in Nat : \A p : IsWay(p, k, x) => distance[x] <= k
    BY DEF DistancesShortest
  <2>1. DistanceTypeOK /\ DistancesSettled
    BY InvSettles DEF DistanceInv
  <2> QED
    BY <2>1, NoWayIsShorter, SomeWayIsAsShort
<1> QED
  BY <1>1, DistanceInvariant, PTL
=============================================================================
