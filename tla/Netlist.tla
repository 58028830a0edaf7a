------------------------------ MODULE Netlist ------------------------------
(***************************************************************************)
(* The flattened netlist the instrumentation passes read                   *)
(* (pass/method/*.cc), after SigMap has given every bit one name.  A chunk *)
(* is a slice of a wire, a signal a sequence of chunks (the first holds    *)
(* the low bits).  A netlist is a record                                   *)
(*   cells    the cells, in the order of their addresses, which is the     *)
(*            order a std::set of pointers is read in                      *)
(*   target   the annotated signal, one chunk                              *)
(*   path     the instance each wire belongs to by its name: "top" for     *)
(*            wires of the top module, "" for wires without a name         *)
(* and a cell a record [type, out, ports]: its output, one chunk, and its  *)
(* input ports, each [name, sig].  Cell types are grouped as the passes    *)
(* group them: "dff" (registers and latches), "mux", "memrd", "alu" (bit   *)
(* by bit) and "cmp" (reductions and comparisons).                         *)
(***************************************************************************)
EXTENDS Integers, Sequences, FiniteSets

VARIABLE netlist  \* the module under instrumentation; no pass changes its cells

Chunk(wire, lo, n) == [wire |-> wire, lo |-> lo, n |-> n]

(* A chunk of constant bits. *)
Const(n) == Chunk("const", 0, n)
IsConst(ch) == ch.wire = "const"

Bits(ch) == {<<ch.wire, i>> : i \in ch.lo .. (ch.lo + ch.n - 1)}
SigBits(sig) == UNION {Bits(sig[k]) : k \in DOMAIN sig}

IsReg(cell) == cell.type = "dff"
IsMux(cell) == cell.type = "mux"
IsMem(cell) == cell.type = "memrd"

(* What Yosys guarantees of the netlist: chunks are not empty, multiplexers
   have a select of one bit, and no bit is driven by two registers. *)
Chunks(nl) == [wire : DOMAIN nl.path \cup {"const"}, lo : Nat, n : Nat \ {0}]

WellFormed(nl) ==
  /\ nl.target \in Chunks(nl)
  /\ nl.cells \in Seq([type : {"dff", "mux", "memrd", "alu", "cmp"},
                      out : Chunks(nl),
                      ports : Seq([name : STRING, sig : Seq(Chunks(nl))])])
  /\ \A i \in {c \in DOMAIN nl.cells : IsMux(nl.cells[c])} :
       LET selects == {p \in DOMAIN nl.cells[i].ports : nl.cells[i].ports[p].name = "S"}
       IN  /\ selects # {}
           /\ \A p \in selects : /\ Len(nl.cells[i].ports[p].sig) = 1
                                 /\ nl.cells[i].ports[p].sig[1].n = 1
  /\ \A i, j \in {c \in DOMAIN nl.cells : IsReg(nl.cells[c])} :
       i # j => Bits(nl.cells[i].out) \cap Bits(nl.cells[j].out) = {}

InputBits(cell) == UNION {SigBits(cell.ports[p].sig) : p \in DOMAIN cell.ports}

(* drivers of the SurgeFuzz pass: the cells a chunk is connected to, by an
   input or by the output. *)
Connected(nl, ch) ==
  {i \in DOMAIN nl.cells :
     (InputBits(nl.cells[i]) \cup Bits(nl.cells[i].out)) \cap Bits(ch) # {}}

(* drivers of the DirectFuzz and DifuzzRTL passes: the input ports a chunk is
   connected to, <<cell, port>>. *)
Consumers(nl, ch) ==
  {c \in UNION {{i} \X DOMAIN nl.cells[i].ports : i \in DOMAIN nl.cells} :
     SigBits(nl.cells[c[1]].ports[c[2]].sig) \cap Bits(ch) # {}}

(* extract_instance_name: what precedes the last dot of the signal's name,
   empty for wires of the top module and for wires without a name. *)
TopInstance == ""
InstanceOf(nl, ch) ==
  IF nl.path[ch.wire] = "top" THEN TopInstance ELSE nl.path[ch.wire]

(* extract_modname_from_sig: the same, but a name without a dot stands for
   itself, slice included. *)
Unnamed == <<"">>
ModuleOf(nl, ch) ==
  IF nl.path[ch.wire] = "top" THEN <<ch.wire, ch.lo, ch.n>>
  ELSE <<nl.path[ch.wire]>>

(* get_cell_dataflow_level: how the flow is reversed through a port. *)
DataflowLevel(cell, port) ==
  CASE cell.type = "alu" -> "BIT"
    [] cell.type = "cmp" -> "ALL"
    [] cell.type = "mux" -> IF port = "S" THEN "ALL" ELSE "BIT"
    [] cell.type = "dff" -> IF port = "EN" THEN "ALL"
                            ELSE IF port = "D" THEN "BIT" ELSE "NONE"
=============================================================================
