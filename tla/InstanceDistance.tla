-------------------------- MODULE InstanceDistance --------------------------
(***************************************************************************)
(* calc_distance and get_distance of the DirectFuzz pass                   *)
(* (pass/method/directfuzz.cc): the distances of the instances from the    *)
(* target, over the graph of instances that feed each other.  One step     *)
(* takes an instance off the queue or relaxes one of its edges; the order  *)
(* of the edges, that of the names in a std::set, is left open.            *)
(***************************************************************************)
EXTENDS Integers, Sequences

CONSTANTS
  Instance,  \* names of instances
  Far        \* numeric_limits<uint64_t>::max(), above every distance

ASSUME FarAssumption == Far \in Nat \ {0}

VARIABLES
  edges,     \* edges of the graph, pairs of instances
  target,    \* target_instance_name
  distance,  \* the map of distances, Far where there is none yet
  que,       \* instances whose edges are to be relaxed
  current,   \* the instance whose edges are being relaxed
  todo       \* the ends of its edges still to be relaxed

graphVars == <<edges, target>>
distanceVars == <<edges, target, distance, que, current, todo>>

(* add: both ends of an edge are nodes.  The target gets a distance even if
   it is none. *)
GraphNodes == {e[1] : e \in edges} \cup {e[2] : e \in edges}
Measured == GraphNodes \cup {target}

(* calc_distance up to its loop. *)
DistanceInit ==
  /\ distance = [n \in Measured |-> IF n = target THEN 0 ELSE Far]
  /\ que = <<target>>
  /\ current = target
  /\ todo = {}

GraphInit ==
  /\ edges \in SUBSET (Instance \X Instance)
  /\ target \in Instance
  /\ DistanceInit

----------------------------------------------------------------------------
(* Mutated forms, used only to show that the properties can fail.          *)

DropsQueue(y) == <<y>>

----------------------------------------------------------------------------
(* edges.at(x) *)
FedBy(x) == {y \in GraphNodes : <<x, y>> \in edges}

ComesNearer(x, y) == distance[x] + 1 < distance[y]

QueueWith(y) == Append(que, y)

(* que.front(), que.pop() *)
TakeInstance ==
  /\ todo = {}
  /\ que # <<>>
  /\ current' = Head(que)
  /\ que' = Tail(que)
  /\ todo' = FedBy(Head(que))
  /\ UNCHANGED <<graphVars, distance>>

(* One edge of the inner loop. *)
RelaxEdge(y) ==
  /\ y \in todo
  /\ todo' = todo \ {y}
  /\ IF ComesNearer(current, y)
     THEN /\ distance' = [distance EXCEPT ![y] = distance[current] + 1]
          /\ que' = QueueWith(y)
     ELSE UNCHANGED <<distance, que>>
  /\ UNCHANGED <<graphVars, current>>

DistanceOver == que = <<>> /\ todo = {}

DistanceNext == TakeInstance \/ \E y \in todo : RelaxEdge(y)

DistanceSpec == GraphInit /\ [][DistanceNext]_distanceVars

(* get_distance: what is neither measured nor reached is 256 away. *)
Unreached == 256
GetDistance(x) ==
  IF x \in DOMAIN distance /\ distance[x] # Far THEN distance[x] ELSE Unreached

----------------------------------------------------------------------------
(* PROPERTIES                                                              *)

DistanceTypeOK ==
  /\ distance \in [Measured -> 0 .. Far]
  /\ que \in Seq(Measured)
  /\ current \in Measured
  /\ todo \subseteq FedBy(current)

(* In the end the distances are settled: nothing can come nearer over any
   edge, and every instance that was reached has a neighbour one step nearer
   to the target, down to the target itself (the condition under which
   relaxation has found shortest distances). *)
DistancesSettled ==
  DistanceOver =>
    /\ distance[target] = 0
    /\ \A x \in Measured : \A y \in FedBy(x) :
         distance[x] < Far => distance[y] <= distance[x] + 1
    /\ \A y \in Measured \ {target} :
         distance[y] < Far =>
           \E x \in Measured : y \in FedBy(x) /\ distance[y] = distance[x] + 1
=============================================================================
