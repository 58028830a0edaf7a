----------------------------- MODULE Instrument -----------------------------
(***************************************************************************)
(* The instrumentation passes run on a flattened netlist                   *)
(* (pass/method/*.cc), one pass to a build: the analysis of the pass, step *)
(* by step, and the coverage wires it adds in the end; for SurgeFuzz also  *)
(* the selection of the signals on the wire, which the profiling script    *)
(* makes between two builds.                                               *)
(***************************************************************************)
EXTENDS DependentSearch, ControlSearch, InstanceDistance, SignalSelection

CONSTANT Netlists  \* bound: the netlists each pass is run on, by pass

VARIABLES
  pass,   \* the pass of this build
  phase,  \* "analyze", "select" (the profiling script), "done"
  wires   \* the wires added: [name, lanes, distance]

instrumentVars == <<netlist, pass, phase, wires, searchVars, controlVars,
                    distanceVars, selectionVars>>

ASSUME NetlistsAssumption ==
  /\ DOMAIN Netlists \subseteq {"surgefuzz", "directfuzz", "difuzzrtl", "rfuzz"}
  /\ \A p \in DOMAIN Netlists : \A nl \in Netlists[p] :
       /\ WellFormed(nl)
       /\ nl.target.n < CovBit \/ p # "surgefuzz"

----------------------------------------------------------------------------
(* What the passes compute in one go.                                      *)

(* setup_drivers and analyze_mux_select_signals: the selects of the
   multiplexers, one bit each. *)
Muxes(nl) == {i \in DOMAIN nl.cells : IsMux(nl.cells[i])}

SelectOf(cell) ==
  (CHOOSE p \in ToSet(cell.ports) : p.name = "S").sig[1]

(* unique_mux_select_signals; for DirectFuzz those of one instance. *)
UniqueSelects(nl) == {SelectOf(nl.cells[i]) : i \in Muxes(nl)}
SelectsIn(nl, instance) ==
  {s \in UniqueSelects(nl) : InstanceOf(nl, s) = instance}

(* analyze_adjacent_instance_names: follow the consumers of a bit through its
   own instance; the first other instances met are its neighbours. *)
AdjacentInstances(nl, bit) ==
  LET home == InstanceOf(nl, bit)
      outOf(s) == {nl.cells[c[1]].out :
                     c \in {d \in Consumers(nl, s) : ~IsMem(nl.cells[d[1]])}}
      Met[k \in 0 .. Len(nl.cells)] ==
        IF k = 0 THEN {bit}
        ELSE Met[k - 1] \cup
               UNION {outOf(s) : s \in {x \in Met[k - 1] : InstanceOf(nl, x) = home}}
  IN  {InstanceOf(nl, s) : s \in Met[Len(nl.cells)]} \ {home}

(* construct: an edge for every bit of an output, memories left out. *)
InstanceEdges(nl) ==
  UNION {LET out == nl.cells[i].out
         IN  {InstanceOf(nl, out)} \X
               UNION {AdjacentInstances(nl, Chunk(out.wire, b, 1))
                        : b \in out.lo .. (out.lo + out.n - 1)}
           : i \in {c \in DOMAIN nl.cells : ~IsMem(nl.cells[c])}}

(* The name execute() passes to the graph: the variable it declares first,
   which stays empty; the instance of the annotated signal is only stored in
   a second variable of an inner scope. *)
TargetInstanceName(nl) == TopInstance

----------------------------------------------------------------------------
(* Mutated forms, used only to show that the properties can fail.          *)

LastSliceLost(bits, j) ==
  {bits[i] : i \in {k \in DOMAIN bits : /\ (k - 1) % CovBit = j - 1
                                        /\ k <= CovBit * (Len(bits) \div CovBit)}}

----------------------------------------------------------------------------
(* The wires.                                                              *)

Wire(name, lanes, dist) == [name |-> name, lanes |-> lanes, distance |-> dist]

BitSeq(ch) == [i \in 1 .. ch.n |-> <<ch.wire, ch.lo + i - 1>>]

(* A wire with one chunk after the other, in the order of a pool. *)
SideBySide(name, chunks, dist) ==
  LET order == SetToSeq(chunks)
  IN  Wire(name, [k \in DOMAIN order |-> Bits(order[k])], dist)

(* DifuzzRTL: lane j of a wire of CovBit lanes is the OR of every CovBit-th
   bit of the registers laid side by side, the last slice being shorter. *)
Lane(bits, j) ==
  {bits[i] : i \in {k \in DOMAIN bits : (k - 1) % CovBit = j - 1}}

Folded(name, bits) == Wire(name, [j \in 1 .. CovBit |-> Lane(bits, j)], 0)

(* The registers of a module, laid side by side in the order of the cells
   (control_reg_map keeps a vector per module). *)
RegistersSideBySide(mod) ==
  FlattenSeq([i \in DOMAIN netlist.cells |->
                LET cell == netlist.cells[i]
                IN  IF IsReg(cell) /\ [mod |-> mod, sig |-> cell.out] \in control
                    THEN BitSeq(cell.out) ELSE <<>>])

----------------------------------------------------------------------------
(* One build.  Every analysis is set up, the one of this pass is run.      *)

Init ==
  /\ pass \in DOMAIN Netlists
  /\ netlist \in Netlists[pass]
  /\ phase = "analyze"
  /\ wires = {}
  /\ SearchInit
  /\ ControlInit
  /\ edges = IF pass = "directfuzz" THEN InstanceEdges(netlist) ELSE {}
  /\ target = TargetInstanceName(netlist)
  /\ DistanceInit
  /\ selection_method \in
       IF pass = "surgefuzz" THEN {"closer", "closer_mi"} ELSE {"closer"}
  /\ candidates = {} /\ selected = <<>> /\ sum_cov_bit = 0

buildVars == <<netlist, pass>>

(* The analysis goes on. *)
Analyze ==
  /\ phase = "analyze"
  /\ \/ /\ pass = "surgefuzz" /\ SearchStep
        /\ UNCHANGED <<controlVars, distanceVars>>
     \/ /\ pass = "difuzzrtl" /\ ControlStep
        /\ UNCHANGED <<searchVars, distanceVars>>
     \/ /\ pass = "directfuzz" /\ DistanceNext
        /\ UNCHANGED <<searchVars, controlVars>>
  /\ UNCHANGED <<buildVars, phase, wires, selectionVars>>

(* instrument() of the SurgeFuzz pass, whose rows the profiling script reads
   to select the signals of the next build. *)
InstrumentDependents ==
  /\ phase = "analyze" /\ pass = "surgefuzz" /\ SearchOver
  /\ phase' = "select"
  /\ SelectionStart(DependentRows, netlist.target)
  /\ UNCHANGED <<buildVars, wires, searchVars, controlVars, distanceVars,
                 selection_method>>

Select ==
  /\ phase = "select" /\ ~SelectionOver
  /\ SelectionStep
  /\ UNCHANGED <<buildVars, phase, wires, searchVars, controlVars, distanceVars>>

Finish(ws) ==
  /\ wires' = ws
  /\ phase' = "done"
  /\ UNCHANGED <<buildVars, searchVars, controlVars, distanceVars, selectionVars>>

(* The profiling script rewrites the wire. *)
InstrumentSelected ==
  /\ phase = "select" /\ SelectionOver
  /\ Finish({Wire(<<"coverage">>, CoverageLanes, 0)})

(* RFUZZ: one wire. *)
InstrumentMuxes ==
  /\ phase = "analyze" /\ pass = "rfuzz"
  /\ Finish({SideBySide(<<"coverage">>, UniqueSelects(netlist), 0)})

(* DirectFuzz: one wire for each instance that has multiplexers. *)
InstrumentInstances ==
  /\ phase = "analyze" /\ pass = "directfuzz" /\ DistanceOver
  /\ Finish({SideBySide(<<inst>>, SelectsIn(netlist, inst), GetDistance(inst))
               : inst \in {InstanceOf(netlist, s) : s \in UniqueSelects(netlist)}})

(* DifuzzRTL: one wire for each module that has control registers. *)
InstrumentControl ==
  /\ phase = "analyze" /\ pass = "difuzzrtl" /\ ControlOver
  /\ Finish({Folded(mod, RegistersSideBySide(mod)) : mod \in {r.mod : r \in control}})

Next ==
  \/ Analyze
  \/ InstrumentDependents \/ Select \/ InstrumentSelected
  \/ InstrumentMuxes \/ InstrumentInstances \/ InstrumentControl

(* Passes and scripts run until they return.  The fairness of the SurgeFuzz
   search is left out: no slice is queued twice, which ends it (EveryRoundShrinks
   in InstrumentProofs). *)
Fairness ==
  /\ WF_instrumentVars(pass # "surgefuzz" /\ Next)
  /\ WF_instrumentVars(Select)
  /\ WF_instrumentVars(InstrumentSelected)

Spec == Init /\ [][Next]_instrumentVars /\ Fairness

----------------------------------------------------------------------------
(* PROPERTIES                                                              *)

(* RFUZZ and DirectFuzz: the select of every multiplexer is on one lane of one
   wire, however many multiplexers share it, and for DirectFuzz on the wire of
   its own instance, whose distance weighs it.  DifuzzRTL: every bit of every
   control register of a module is folded into one lane of the wire of the
   module, whatever the width of the registers. *)
EveryTargetCovered ==
  phase = "done" =>
    CASE pass = "rfuzz" \/ pass = "directfuzz" ->
           \A s \in UniqueSelects(netlist) :
             Cardinality({wj \in UNION {{w} \X DOMAIN w.lanes : w \in wires} :
                            /\ wj[1].lanes[wj[2]] = Bits(s)
                            /\ pass = "directfuzz" =>
                                 wj[1].name = <<InstanceOf(netlist, s)>>}) = 1
      [] pass = "difuzzrtl" ->
           \A r \in control : \A b \in Bits(r.sig) :
             Cardinality({wj \in UNION {{w} \X DOMAIN w.lanes : w \in wires} :
                            b \in wj[1].lanes[wj[2]] /\ wj[1].name = r.mod}) = 1
      [] pass = "surgefuzz" -> TRUE

(* closer_mi (Makefile:19, "proximity selection with added pruning"): a signal
   that was not pruned, for it is left or was selected later, is nearer than one
   selected before only if its name, which contains that of the signal selected
   just before that one, kept it out of the round. *)
Unpruned(row, i) ==
  \/ row \in candidates
  \/ \E j \in (i + 1) .. Len(selected) : selected[j].sig = row.sig

MiNearerFirst ==
  selection_method = "closer_mi" =>
    \A i \in 2 .. Len(selected) : \A far, near \in DependentRows :
      selected[i].sig = far.sig /\ Nearer(near, far) /\ Unpruned(near, i)
        => NameContains(near.idx, selected[i - 1].idx)

(* The loop by mutual information goes round for ever: its wire is not full and
   there is nothing to compare, for no candidate is left, or because the names
   of all that are left contain that of the signal selected last. *)
NothingCompared ==
  /\ selection_method = "closer_mi" /\ phase = "select"
  /\ Compared = {} /\ sum_cov_bit < CovBit

(* Every analysis ends although wires form loops, and so does the selection
   but for the one case in which it has no exit. *)
EveryBuildEnds ==
  (pass # "surgefuzz" \/ phase = "select") ~> (phase = "done" \/ NothingCompared)
=============================================================================
