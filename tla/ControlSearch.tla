--------------------------- MODULE ControlSearch ---------------------------
(***************************************************************************)
(* search_control_registers and is_control_register of the DifuzzRTL pass  *)
(* (pass/method/difuzzrtl.cc): a register is a control register when its   *)
(* output decides the selection of a multiplexer of its own module.  The   *)
(* registers are examined one after the other; one step takes one signal   *)
(* off the queue.                                                          *)
(***************************************************************************)
EXTENDS Netlist, SequencesExt

VARIABLES
  regs,       \* registers (indices of cells) still to be examined
  sigs,       \* queue: signals reached from the one being examined
  met,        \* visited_sigs of this register
  control     \* control_reg_map: the outputs added, [mod, sig]

controlVars == <<regs, sigs, met, control>>

Examined == netlist.cells[Head(regs)].out

(* Where the search of the next register begins. *)
FirstSig(rest) ==
  IF rest = <<>> THEN <<>> ELSE <<netlist.cells[Head(rest)].out>>

ControlInit ==
  /\ regs = FlattenSeq([i \in DOMAIN netlist.cells |->
                         IF IsReg(netlist.cells[i]) THEN <<i>> ELSE <<>>])
  /\ sigs = FirstSig(regs)
  /\ met = {}
  /\ control = {}

----------------------------------------------------------------------------
(* Mutated forms, used only to show that the properties can fail.          *)

MeetsAgain(ports) ==
  SetToSeq({netlist.cells[c[1]].out : c \in ports})
AnyMuxPort(cell, port) ==
  IF IsMux(cell) THEN "control" ELSE IF IsReg(cell) THEN "register" ELSE "none"

----------------------------------------------------------------------------
(* Search only within the same module, or over unnamed signals. *)
InScope(ch) ==
  ModuleOf(netlist, ch) \in {Unnamed, ModuleOf(netlist, Examined)}

(* What a port the signal is connected to decides at once. *)
Verdict(cell, port) ==
  IF IsMux(cell) /\ port = "S" THEN "control"
  ELSE IF IsReg(cell) THEN "register" ELSE "none"

PortVerdict(c) == Verdict(netlist.cells[c[1]], netlist.cells[c[1]].ports[c[2]].name)

(* drivers.find(cur_sig), memories left out, and the order of that set. *)
PortsOf(ch) == {c \in Consumers(netlist, ch) : ~IsMem(netlist.cells[c[1]])}
Before(c, d) == c[1] < d[1] \/ (c[1] = d[1] /\ c[2] < d[2])

(* Those that end the search, and the first of them. *)
Deciding(ports) == {c \in ports : PortVerdict(c) # "none"}
FirstOf(ports) == CHOOSE c \in ports : \A d \in ports : d = c \/ Before(c, d)

(* The search of this register ends; the next one begins. *)
NextRegister ==
  /\ regs' = Tail(regs)
  /\ sigs' = FirstSig(Tail(regs))
  /\ met' = {}

AddControl ==
  control' = control \cup {[mod |-> ModuleOf(netlist, Examined), sig |-> Examined]}

(* The outputs met for the first time, in the order of the ports. *)
PushedCells(ports) ==
  {i \in {c[1] : c \in ports} :
     /\ netlist.cells[i].out \notin met
     /\ \A c \in ports : c[1] < i => netlist.cells[c[1]].out # netlist.cells[i].out}

Pushes(ports) ==
  FlattenSeq([i \in DOMAIN netlist.cells |->
                IF i \in PushedCells(ports) THEN <<netlist.cells[i].out>> ELSE <<>>])

ControlStep ==
  /\ regs # <<>>
  /\ IF sigs = <<>> THEN NextRegister /\ UNCHANGED control
     ELSE LET cur   == Head(sigs)
              ports == PortsOf(cur)
              ends  == Deciding(ports)
          IN  IF ~InScope(cur)
              THEN sigs' = Tail(sigs) /\ UNCHANGED <<regs, met, control>>
              ELSE IF ends = {}
              THEN /\ sigs' = Tail(sigs) \o Pushes(ports)
                   /\ met' = met \cup ToSet(Pushes(ports))
                   /\ UNCHANGED <<regs, control>>
              ELSE /\ NextRegister
                   /\ IF PortVerdict(FirstOf(ends)) = "control" THEN AddControl
                      ELSE UNCHANGED control

ControlOver == regs = <<>>

----------------------------------------------------------------------------
(* PROPERTIES                                                              *)

(* Reference: the signals a register's output decides without another
   register between, as far as they are in its module or behind it. *)
InModuleOf(reg, ch) == ModuleOf(netlist, ch) \in {Unnamed, ModuleOf(netlist, reg)}

Behind(reg, S) ==
  S \cup {netlist.cells[c[1]].out
            : c \in {d \in UNION {Consumers(netlist, s) : s \in {x \in S : InModuleOf(reg, x)}}
                       : ~IsMem(netlist.cells[d[1]]) /\ ~IsReg(netlist.cells[d[1]])}}

Reached(reg) ==
  LET Reach[k \in 0 .. Len(netlist.cells)] ==
        IF k = 0 THEN {reg} ELSE Behind(reg, Reach[k - 1])
  IN  Reach[Len(netlist.cells)]

Cloud(reg) == {s \in Reached(reg) : InModuleOf(reg, s)}

PortsMet(reg) ==
  UNION {PortsOf(s) : s \in Cloud(reg)}

Selects(reg) == \E c \in PortsMet(reg) :
  /\ IsMux(netlist.cells[c[1]])
  /\ netlist.cells[c[1]].ports[c[2]].name = "S"

MeetsRegister(reg) == \E c \in PortsMet(reg) : IsReg(netlist.cells[c[1]])

Registers == {netlist.cells[i].out : i \in {c \in DOMAIN netlist.cells :
                                              IsReg(netlist.cells[c])}}

(* Only registers that decide the selection of a multiplexer of their module
   through combinational cells are covered, each under its own module; and no
   such register is missed unless its output also feeds a register, which ends
   the search before the multiplexer may be met. *)
ControlFound ==
  /\ \A r \in control : r.mod = ModuleOf(netlist, r.sig) /\ Selects(r.sig)
  /\ ControlOver =>
       \A r \in Registers \ {c.sig : c \in control} :
         Selects(r) => MeetsRegister(r)
=============================================================================
