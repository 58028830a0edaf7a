-------------------------- MODULE DependentSearch --------------------------
(***************************************************************************)
(* search_dependents of the SurgeFuzz pass (pass/method/surgefuzz.cc): a   *)
(* breadth-first search from the annotated signal, against the flow, for   *)
(* the registers it depends on.  One step takes one signal off the queue.  *)
(***************************************************************************)
EXTENDS Netlist, SequencesExt

CONSTANTS
  MaxDepth,  \* cells from the target (100 in the source)
  MaxBit,    \* -max_bit (SEARCH_BIT): bits of registers to collect
  MaxWidth   \* widest register taken (32 in the source)

ASSUME SearchAssumption ==
  MaxDepth \in Nat /\ MaxBit \in Nat \ {0} /\ MaxWidth \in Nat

VARIABLES
  queue,      \* states waiting: [sig, depth, reg_depth, is_ctrl]
  visited,    \* visited_sigs
  dependents  \* DependentManager, in the order of its additions

searchVars == <<queue, visited, dependents>>

Seen(sig, depth, reg_depth, is_ctrl) ==
  [sig |-> sig, depth |-> depth, reg_depth |-> reg_depth, is_ctrl |-> is_ctrl]

SearchInit ==
  /\ queue = <<Seen(netlist.target, 0, 0, FALSE)>>
  /\ visited = {}
  /\ dependents = <<>>

----------------------------------------------------------------------------
(* Mutated forms, used only to show that the properties can fail.          *)

PushesFirst(q, s) == <<s>> \o q
SliceLost(cur, out, ch) ==
  Chunk(ch.wire, ch.lo, IF cur.n < ch.n THEN cur.n ELSE ch.n)
RemembersWhole(ch, next) == ch

----------------------------------------------------------------------------
(* dependent_manager.size(): bits, a bit of two additions counted once. *)
BitCount ==
  Cardinality(UNION {Bits(dependents[k].sig) : k \in DOMAIN dependents})

SearchOver == queue = <<>> \/ BitCount >= MaxBit

Pushed(q, s) == Append(q, s)

(* The cells the loop over `cells` reaches and whose output holds all of the
   signal: it breaks off at the first read port of a memory. *)
Drivers(ch) ==
  LET cells == Connected(netlist, ch)
      reads == {r \in cells : IsMem(netlist.cells[r])}
  IN  {i \in cells : /\ \A r \in reads : i < r
                     /\ Bits(ch) \subseteq Bits(netlist.cells[i].out)}

(* The part of an input chunk that is traced for bits cur of the output. *)
TracedBits(cur, out, ch) ==
  LET offset == cur.lo - out.lo
  IN  IF ch.n <= offset THEN Const(0)
      ELSE Chunk(ch.wire, ch.lo + offset,
                 IF cur.n < ch.n - offset THEN cur.n ELSE ch.n - offset)

Traced(cur, cell, port, ch) ==
  LET level == DataflowLevel(cell, port)
  IN  IF IsConst(ch) \/ level = "NONE" THEN Const(0)
      ELSE IF level = "ALL" THEN ch ELSE TracedBits(cur, cell.out, ch)

(* The chunks of the ports of the drivers, in the order of the three loops. *)
Visits(ch) ==
  LET chunksOf(i, p) ==
        [k \in DOMAIN netlist.cells[i].ports[p].sig |-> <<i, p, k>>]
      portsOf(i) ==
        FlattenSeq([p \in DOMAIN netlist.cells[i].ports |-> chunksOf(i, p)])
      drivers == Drivers(ch)
  IN  FlattenSeq([i \in DOMAIN netlist.cells |->
                    IF i \in drivers THEN portsOf(i) ELSE <<>>])

(* What visited_sigs.insert keeps of it: the slice that is traced. *)
Remembered(ch, next) == next

(* One chunk of one port: nothing, or a new state on the queue. *)
Visit(found, cur, v) ==
  LET cell == netlist.cells[v[1]]
      port == cell.ports[v[2]]
      ch   == port.sig[v[3]]
      next == Traced(cur.sig, cell, port.name, ch)
  IN  IF IsConst(next) \/ ch \in found.visited \/ next \in found.visited
      THEN found
      ELSE [queue   |-> Pushed(found.queue,
                          Seen(next, cur.depth + 1,
                               cur.reg_depth + (IF IsReg(cell) THEN 1 ELSE 0),
                               cur.is_ctrl \/ (IsMux(cell) /\ port.name = "S"))),
            visited |-> found.visited \cup {Remembered(ch, next)}]

(* Is the signal taken as a dependent? *)
TakenAsDependent(ch) ==
  /\ ch.n <= MaxWidth
  /\ \E i \in Drivers(ch) : IsReg(netlist.cells[i])

(* One round of the while loop. *)
SearchStep ==
  /\ ~SearchOver
  /\ LET cur == Head(queue)
         found == FoldLeft(LAMBDA f, v : Visit(f, cur, v),
                           [queue |-> Tail(queue), visited |-> visited],
                           Visits(cur.sig))
     IN  IF cur.depth >= MaxDepth
         THEN queue' = Tail(queue) /\ UNCHANGED <<visited, dependents>>
         ELSE /\ queue' = found.queue
              /\ visited' = found.visited
              /\ dependents' = IF TakenAsDependent(cur.sig)
                               THEN Append(dependents, cur) ELSE dependents

(* dependet_pool *)
Found == {dependents[k].sig : k \in DOMAIN dependents}

(* get_dependent_info: a set per bit, ordered by depth, where the first of two
   additions with one depth stays; a signal answers the nearest of its bits. *)
InfoOfBit(bit) ==
  LET additions == {k \in DOMAIN dependents : bit \in Bits(dependents[k].sig)}
  IN  dependents[CHOOSE k \in additions : \A j \in additions :
                   \/ dependents[k].depth < dependents[j].depth
                   \/ dependents[k].depth = dependents[j].depth /\ k <= j]

DependentInfo(ch) ==
  LET nearest == CHOOSE b \in Bits(ch) : \A c \in Bits(ch) :
                   \/ InfoOfBit(b).depth < InfoOfBit(c).depth
                   \/ InfoOfBit(b).depth = InfoOfBit(c).depth /\ b[2] <= c[2]
  IN  InfoOfBit(nearest)

(* dependent_idx: a pool of Yosys is read from the signal inserted last to the
   one inserted first. *)
FirstAdded(s) == Min({k \in DOMAIN dependents : dependents[k].sig = s})
DependentIdx(s) == Cardinality({f \in Found : FirstAdded(s) < FirstAdded(f)})

(* The rows instrument() writes: one per signal of the pool. *)
DependentRows ==
  {[idx |-> DependentIdx(s), sig |-> s, width |-> s.n,
    depth |-> DependentInfo(s).depth, reg_depth |-> DependentInfo(s).reg_depth]
     : s \in Found}

----------------------------------------------------------------------------
(* PROPERTIES                                                              *)

(* Reference: the signals the tracing rules reach in exactly k cells, each
   signal followed as often as it is met. *)
Next1(ch) ==
  {n \in {Traced(ch, netlist.cells[v[1]], netlist.cells[v[1]].ports[v[2]].name,
                 netlist.cells[v[1]].ports[v[2]].sig[v[3]])
            : v \in ToSet(Visits(ch))} : ~IsConst(n)}

Layers ==
  LET Layer[k \in 0 .. MaxDepth] ==
        IF k = 0 THEN {netlist.target} ELSE UNION {Next1(s) : s \in Layer[k - 1]}
  IN  Layer

(* Met whole, but too wide to be taken: its slices are met no more. *)
TooWide == {s \in visited : s.n > MaxWidth}
Hidden(s) == \E w \in TooWide : Bits(s) \subseteq Bits(w)

(* The depth reported for a register is the smallest number of cells between
   any bit of it and the target, although signals are met again, slices
   overlap and a register may reach the target over several ways: the
   selection ranks the registers by it. *)
DepthIsShortest ==
  SearchOver =>
    LET layer == Layers
        Near(s, k) == \E x \in layer[k] : /\ TakenAsDependent(x) /\ ~Hidden(x)
                                          /\ Bits(x) \cap Bits(s) # {}
    IN  \A s \in Found :
          /\ \E x \in layer[DependentInfo(s).depth] : Bits(x) \cap Bits(s) # {}
          /\ \A k \in 0 .. (DependentInfo(s).depth - 1) : ~Near(s, k)

(* Reference: the bits that decide a bit of a cell's output. *)
SourceBits(cell, offset) ==
  LET bitsOf(sig) == FlattenSeq([k \in DOMAIN sig |->
                       [i \in 1 .. sig[k].n |-> <<sig[k].wire, sig[k].lo + i - 1>>]])
      source(p) ==
        CASE DataflowLevel(cell, p.name) = "ALL"  -> SigBits(p.sig)
          [] DataflowLevel(cell, p.name) = "NONE" -> {}
          [] DataflowLevel(cell, p.name) = "BIT"  ->
               {bitsOf(p.sig)[i] : i \in {offset + 1} \cap DOMAIN bitsOf(p.sig)}
  IN  UNION {source(cell.ports[p]) : p \in DOMAIN cell.ports}

FanIn(bit) ==
  UNION {SourceBits(netlist.cells[i], bit[2] - netlist.cells[i].out.lo)
           : i \in {c \in DOMAIN netlist.cells :
                      /\ ~IsMem(netlist.cells[c])
                      /\ bit \in Bits(netlist.cells[c].out)}}

Cones ==
  LET Cone[k \in 0 .. MaxDepth] ==
        IF k = 0 THEN Bits(netlist.target) ELSE UNION {FanIn(b) : b \in Cone[k - 1]}
  IN  Cone

(* Every port traced bit by bit is connected to one slice, not to a
   concatenation. *)
Aligned(nl) ==
  \A i \in DOMAIN nl.cells : \A p \in DOMAIN nl.cells[i].ports :
    \/ Len(nl.cells[i].ports[p].sig) = 1
    \/ IsMem(nl.cells[i])
    \/ DataflowLevel(nl.cells[i], nl.cells[i].ports[p].name) = "ALL"

(* Every bit of what a port takes is driven by the cells that drive all of it:
   no wire is read whole and driven in pieces. *)
DrivenWhole ==
  \A i \in {c \in DOMAIN netlist.cells : ~IsMem(netlist.cells[c])} :
    \A p \in DOMAIN netlist.cells[i].ports :
      \A ch \in {c \in ToSet(netlist.cells[i].ports[p].sig) : ~IsConst(c)} :
        \A b \in ch.lo .. (ch.lo + ch.n - 1) :
          Drivers(Chunk(ch.wire, b, 1)) \subseteq Drivers(ch)

(* In a netlist without concatenated operands, each bit of a register found
   at a depth does decide a bit of the target that many cells later ("Reverse
   trace only the necessary parts that are connected", surgefuzz.cc:429). *)
SearchIsSound ==
  SearchOver /\ Aligned(netlist) =>
    \A k \in DOMAIN dependents :
      Bits(dependents[k].sig) \subseteq Cones[dependents[k].depth]

(* A search that was not cut off by the number of bits has found every bit of
   every register that the tracing rules reach below the depth limit, but for
   slices of registers met whole that were too wide. *)
SearchIsComplete ==
  (queue = <<>> /\ BitCount < MaxBit) =>
    \A d \in 0 .. (MaxDepth - 1) : \A s \in Layers[d] :
      TakenAsDependent(s) /\ ~Hidden(s) =>
        Bits(s) \subseteq UNION {Bits(f) : f \in Found}
=============================================================================
