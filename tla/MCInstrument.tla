---------------------------- MODULE MCInstrument ----------------------------
(***************************************************************************)
(* The netlists Instrument is model-checked on: every combination of a few *)
(* drivers for each of three to five wires.                                *)
(***************************************************************************)
EXTENDS Instrument

Port(name, sig) == [name |-> name, sig |-> sig]
Cell(type, out, ports) == [type |-> type, out |-> out, ports |-> ports]
Netlist_(cells, top, path) == [cells |-> cells, target |-> top, path |-> path]

Dff(out, d, en)    == Cell("dff", out, <<Port("CLK", <<Const(1)>>), Port("D", d), Port("EN", en)>>)
Reg(out, d)        == Cell("dff", out, <<Port("D", d)>>)
Mux(out, a, b, s)  == Cell("mux", out, <<Port("A", a), Port("B", b), Port("S", s)>>)
Alu(out, a, b)     == Cell("alu", out, <<Port("A", a), Port("B", b)>>)
Cmp(out, a)        == Cell("cmp", out, <<Port("A", a)>>)
MemRd(out, addr)   == Cell("memrd", out, <<Port("ADDR", addr)>>)

(* SurgeFuzz: the target t, a register or operation u wider than MaxWidth, v,
   and a memory that reads at v or u, in several orders of the addresses. *)
t == Chunk("t", 0, 2)
u == Chunk("u", 0, 3)
uLow == Chunk("u", 0, 2)
uHigh == Chunk("u", 1, 2)
v == Chunk("v", 0, 2)
v0 == Chunk("v", 0, 1)
v1 == Chunk("v", 1, 1)
u0 == Chunk("u", 0, 1)
u2 == Chunk("u", 2, 1)

DriversOfT == {Alu(t, <<uLow>>, <<v>>), Mux(t, <<v>>, <<u0, v1>>, <<u2>>),
               Dff(t, <<uHigh>>, <<v0>>), Alu(t, <<uHigh>>, <<t>>)}
DriversOfU == {Reg(u, <<v, Const(1)>>), Alu(u, <<v>>, <<t>>),
               Dff(u, <<u>>, <<v1>>), Dff(u, <<v1, t>>, <<u>>)}
DriversOfV == {Reg(v, <<t>>), Dff(v, <<uHigh>>, <<u0>>),
               Mux(v, <<t>>, <<uLow>>, <<u2>>), Reg(v, <<v1, v0>>)}
Reads == {MemRd(Chunk("m", 0, 2), <<v>>), MemRd(Chunk("m", 0, 2), <<uLow>>)}

SearchedCells ==
  UNION {{<<x, y, z>>, <<z, y, x>>} \cup {<<z, rd, x, y>> : rd \in Reads}
           : x \in DriversOfT, y \in DriversOfU, z \in DriversOfV}
SearchedNetlists ==
  {Netlist_(cs, t, [w \in {"t", "u", "v", "m"} |-> "top"]) : cs \in SearchedCells}

(* DifuzzRTL: the registers r and q of module i1, an operation c on them, in
   one of several modules, and a multiplexer. *)
r == Chunk("r", 0, 3)
r0 == Chunk("r", 0, 1)
q == Chunk("q", 0, 2)
q0 == Chunk("q", 0, 1)
c == Chunk("c", 0, 2)
c0 == Chunk("c", 0, 1)
m == Chunk("m", 0, 3)

ControlCells ==
  UNION {{<<x, y, z, w>>, <<w, z, y, x>>, <<z, x, w, y>>}
           : x \in {Reg(r, <<m>>), Reg(r, <<q, c>>)},
             y \in {Cmp(c, <<r>>), Cmp(c, <<q>>), Alu(c, <<r0, c0>>, <<c0>>)},
             z \in {Mux(m, <<r>>, <<Const(3)>>, <<c0>>), Mux(m, <<r>>, <<q>>, <<r0>>),
                    Mux(m, <<r>>, <<Const(3)>>, <<q0>>)},
             w \in {Reg(q, <<m>>), Reg(q, <<q>>), MemRd(q, <<r>>)}}
ControlNetlists ==
  {Netlist_(s, r, [w \in {"r", "q", "m", "c"} |->
                     CASE w = "r" -> "i1" [] w = "q" -> home
                       [] w = "m" -> "top" [] w = "c" -> mid])
     : s \in ControlCells,
       mid \in {"i1", "i2", "", "top"}, home \in {"i1", "i2"}}

(* DirectFuzz and RFUZZ: four wires of one bit in four instances, with the
   selects of the multiplexers shared or not. *)
Bit(w) == <<Chunk(w, 0, 1)>>
InstanceCells ==
  {<<Reg(Bit("a")[1], Bit(x)), Alu(Bit("b")[1], Bit(y), Bit("a")),
     Mux(Bit("c")[1], Bit(z), Bit("b"), Bit(k)), Mux(Bit("d")[1], Bit("a"), Bit("c"), Bit(l))>>
     : x \in {"b", "c", "d"}, y \in {"c", "d"}, z \in {"a", "d"},
       k \in {"a", "b"}, l \in {"a", "c"}}
InstanceNetlists ==
  {Netlist_(s, Bit("d")[1], [w \in {"a", "b", "c", "d"} |->
                       CASE w = "a" -> p1 [] w = "b" -> p2 [] w = "c" -> p3 [] w = "d" -> p4])
     : s \in InstanceCells, p1 \in {"top", "i1"}, p2 \in {"i1", "i2"},
       p3 \in {"i2", ""}, p4 \in {"i3", "top"}}

MCNetlists ==
  [p \in {"surgefuzz", "directfuzz", "difuzzrtl", "rfuzz"} |->
     CASE p = "surgefuzz" -> SearchedNetlists
       [] p = "difuzzrtl" -> ControlNetlists
       [] OTHER -> InstanceNetlists]

MCInstance == {"", "i1", "i2", "i3"}
=============================================================================
