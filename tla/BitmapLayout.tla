---------------------------- MODULE BitmapLayout ----------------------------
(***************************************************************************)
(* Where a coverage point is in memory.  The preparation scripts           *)
(* (script/prepare/method) measure the coverage wires a pass has added and *)
(* write the sizes of the bitmap; simulator (driver/include/method) and    *)
(* fuzzer (fuzzer/include/coverage) compute their indices from them, each  *)
(* on its own.  CoverageMethods has points <<row, what>> instead, which    *)
(* this module implements.                                                 *)
(*                                                                         *)
(* A cell is a word of a bitmap of toggles, or a byte of one of states.    *)
(* The value of a wire is a number, as in the Verilog array `coverage`.    *)
(***************************************************************************)
EXTENDS Integers, Sequences, SequencesExt

CONSTANTS
  ByteBits,      \* bits of a byte (8)
  WordBytes,     \* bytes of a word (4)
  MaxInstances,  \* bound: instances with a coverage wire
  MaxBits,       \* bound: bits of all coverage wires that are toggled
  MaxStateBits,  \* bound: bits of all coverage wires that are states
  Target,        \* the wire coverage_target, which is of no instance
  None           \* no value yet

ASSUME LayoutAssumption ==
  /\ ByteBits \in Nat \ {0} /\ WordBytes \in Nat \ {0}
  /\ MaxInstances \in Nat \ {0}
  /\ MaxBits \in Nat /\ MaxStateBits \in 0 .. MaxBits
  /\ {Target, None} \cap Nat = {}

VARIABLES
  method,       \* the coverage method
  wires,        \* the coverage wires in the order of the file: [inst, width]
  env,          \* sizes the preparation wrote for them, None before
  phase,        \* "built", "idle" or "running" (the simulator)
  memory,       \* the shared segment: cells and bits that are set
  init,         \* the driver's init_state, None before the first clock
  bitmap,       \* the fuzzer's bitmap: rows and what is set in them
  new_coverage, \* feedback of the last run
  points,       \* history: the points of this run, as CoverageMethods has them
  covered,      \* history: the points of all runs
  found         \* history: whether the last run had points no run had before

vars == <<method, wires, env, phase, memory, init, bitmap, new_coverage, points,
          covered, found>>

WordBits == WordBytes * ByteBits
Pow2[n \in Nat] == IF n = 0 THEN 1 ELSE 2 * Pow2[n - 1]
Bit(value, b) == (value \div Pow2[b]) % 2 = 1

Widths(ws) == [i \in DOMAIN ws |-> ws[i].width]
Widest(ws) == Max(Range(Widths(ws)))
Total(counts) == FoldFunction(+, 0, counts)

----------------------------------------------------------------------------
(* Mutated forms, used only to show that the properties can fail.          *)

BytesAsBits(ws) ==
  [width |-> Widest(ws), rows |-> Len(ws), bytes |-> Widest(ws),
   max |-> Total([i \in DOMAIN ws |-> Pow2[ws[i].width]])]
OneBitEach(ws) == Len(ws)
RowsBackToBack(e, value) == {<<e.rows * i + value[i + 1], 0>> : i \in 0 .. (e.rows - 1)}

----------------------------------------------------------------------------
(* The preparation: sizes from the widths of the wires, by method.         *)

(* Whole words, one more as long as the wire is wider. *)
WholeWords(width) ==
  WordBits * Max({1, (width + WordBits - 1) \div WordBits})

(* One word, doubled as long as the widest wire is wider. *)
DoubledWords(width) ==
  Min({n \in {WordBits * Pow2[k] : k \in 0 .. width} : n >= width})

(* width is that of an element of the array that takes the wires, the rest
   goes to the environment.  RFUZZ has one wire and one row. *)
RFuzzEnv(ws) ==
  LET width == WholeWords(ws[1].width)
  IN  [width |-> width, rows |-> 1, bytes |-> width \div ByteBits,
       max |-> ws[1].width]

(* A wire of one bit is declared without a range, and its bit not counted. *)
CountedBits(ws) == Total([i \in DOMAIN ws |-> IF ws[i].width = 1 THEN 0 ELSE ws[i].width])

DirectFuzzEnv(ws) ==
  LET width == DoubledWords(Widest(ws))
  IN  [width |-> width, rows |-> Len(ws), bytes |-> width \div ByteBits,
       max |-> CountedBits(ws)]

DifuzzRTLEnv(ws) ==
  [width |-> Widest(ws), rows |-> Len(ws), bytes |-> Pow2[Widest(ws)],
   max |-> Total([i \in DOMAIN ws |-> Pow2[ws[i].width]])]

Environment(m, ws) ==
  CASE m = "rfuzz"      -> RFuzzEnv(ws)
    [] m = "directfuzz" -> DirectFuzzEnv(ws)
    [] m = "difuzzrtl"  -> DifuzzRTLEnv(ws)

(* The rows of the CSV file of the DirectFuzz pass, in the order of its map
   from names of instances: the distances without that of coverage_target. *)
DistanceList(ws) ==
  LET names == {ws[i].inst : i \in DOMAIN ws} \ {Target}
  IN  CHOOSE list \in [1 .. Cardinality(names) -> names] :
        \A i, j \in DOMAIN list : i < j => list[i] < list[j]

----------------------------------------------------------------------------
(* The segment, as fuzzer and driver lay it out.                           *)

Columns(m, e) == IF m = "difuzzrtl" THEN e.bytes ELSE e.bytes \div WordBytes
CellBits(m) == IF m = "difuzzrtl" THEN 1 ELSE WordBits
Segment(m, e) == 0 .. (e.rows * Columns(m, e) - 1)

(* RFuzz::update and DirectFuzz::update: word by word, what differs from the
   first clock. *)
ToggledBits(e, first, value) ==
  LET chunks == e.bytes \div WordBytes
      Toggled(i, b) == ~(Bit(first[i + 1], b) <=> Bit(value[i + 1], b))
  IN  UNION {{<<i * chunks + c, k>> :
                k \in {j \in 0 .. (WordBits - 1) : Toggled(i, c * WordBits + j)}}
             : i \in 0 .. (e.rows - 1), c \in 0 .. (chunks - 1)}

(* DifuzzRTL::update: the byte of each instance's state. *)
StateBytes(e, value) ==
  {<<e.bytes * i + value[i + 1], 0>> : i \in 0 .. (e.rows - 1)}

(* The cells the fuzzer's reset writes.  DirectFuzz counts the columns of a
   row of words in bytes. *)
ResetCells(m, e) ==
  LET columns == IF m = "directfuzz" THEN e.bytes ELSE Columns(m, e)
  IN  {i * Columns(m, e) + j : i \in 0 .. (e.rows - 1), j \in 0 .. (columns - 1)}

(* What new_coverage and apply read of the segment, row by row. *)
View(m, e, cells) ==
  {<<x[1] \div Columns(m, e), (x[1] % Columns(m, e)) * CellBits(m) + x[2]>> :
     x \in {y \in cells : y[1] \in Segment(m, e)}}

----------------------------------------------------------------------------
(* The points of CoverageMethods: bits of a wire that toggled, or states.   *)

Points == INSTANCE CoverageMethods WITH
  Rows <- 0 .. MaxInstances, Wirebits <- 0 .. (MaxBits - 1),
  Dist <- <<>>, MaxEnergy <- 1, MinEnergy <- 0, Undefined <- None

BitsOf(value) == {b \in 0 .. (MaxBits - 1) : Bit(value, b)}

OnWires(value) ==
  [r \in 0 .. MaxInstances |->
     IF r < Len(wires) THEN BitsOf(value[r + 1]) ELSE {}]

PointsOf(first, value) ==
  {p \in Points!Marked(method, OnWires(first), OnWires(value)) : p[1] < Len(wires)}

PointsIn(view) ==
  {<<x[1], IF method = "difuzzrtl" THEN BitsOf(x[2]) ELSE x[2]>> : x \in view}

----------------------------------------------------------------------------
(* The wires the passes add.  They are in the file in the order of their   *)
(* names, coverage_target among them wherever its name belongs.  RFUZZ has *)
(* one wire, DifuzzRTL wires of equal width but for the target's.          *)

Wire(inst, width) == [inst |-> inst, width |-> width]

InstanceWires(m) ==
  LET lists == UNION {[1 .. n -> 1 .. MaxBits] :
                        n \in IF m = "rfuzz" THEN {1} ELSE 1 .. MaxInstances}
  IN  {[i \in DOMAIN w |-> Wire(i, w[i])] :
         w \in {v \in lists : m = "difuzzrtl" => \A i \in DOMAIN v : v[i] = v[1]}}

WithTarget(ws) ==
  {InsertAt(ws, p, Wire(Target, width)) :
     p \in 1 .. (Len(ws) + 1), width \in 1 .. MaxBits}

WiresOf(m) ==
  {ws \in UNION {IF m = "rfuzz" THEN {w} ELSE WithTarget(w) : w \in InstanceWires(m)} :
     Total(Widths(ws)) <=
       IF m = "difuzzrtl" THEN MaxStateBits ELSE MaxBits}

Init ==
  /\ method \in {"rfuzz", "directfuzz", "difuzzrtl"}
  /\ wires \in WiresOf(method)
  /\ env = None
  /\ phase = "built"
  /\ memory = {} /\ bitmap = {}
  /\ init = None /\ new_coverage = FALSE
  /\ points = {} /\ covered = {} /\ found = FALSE

(* process(): the environment is written; with it the fuzzer starts. *)
Prepare ==
  /\ phase = "built"
  /\ phase' = "idle"
  /\ env' = Environment(method, wires)
  /\ UNCHANGED <<method, wires, memory, init, bitmap, new_coverage, points,
                 covered, found>>

(* The wires in one clock, and core->coverage, which they are assigned to. *)
Values == {v \in [DOMAIN wires -> 0 .. (Pow2[Widest(wires)] - 1)] :
             \A i \in DOMAIN wires : v[i] < Pow2[wires[i].width]}

Array(value) == [i \in DOMAIN value |-> value[i] % Pow2[env.width]]

(* Monitor::reset, and the simulator is started. *)
Reset ==
  /\ phase = "idle"
  /\ phase' = "running"
  /\ memory' = {x \in memory : x[1] \notin ResetCells(method, env)}
  /\ init' = None
  /\ points' = {}
  /\ UNCHANGED <<method, wires, env, bitmap, new_coverage, covered, found>>

Clock(value) ==
  /\ phase = "running"
  /\ init' = IF init = None THEN Array(value) ELSE init
  /\ memory' = memory \cup
       (IF method = "difuzzrtl" THEN StateBytes(env, Array(value))
        ELSE ToggledBits(env, init', Array(value)))
  /\ points' = points \cup PointsOf(init', value)
  /\ UNCHANGED <<method, wires, env, phase, bitmap, new_coverage, covered, found>>

NewIn(local) == local \ bitmap # {}

(* The simulator has ended: new_coverage, then apply. *)
ReadBack ==
  LET local == View(method, env, memory)
  IN  /\ phase = "running"
      /\ phase' = "idle"
      /\ new_coverage' = NewIn(local)
      /\ bitmap' = bitmap \cup local
      /\ covered' = Points!Applied(method, covered, points)
      /\ found' = Points!NewCoverage(method, covered, points)
      /\ UNCHANGED <<method, wires, env, memory, init, points>>

Next == Prepare \/ Reset \/ (\E value \in Values : Clock(value)) \/ ReadBack

Spec == Init /\ [][Next]_vars

----------------------------------------------------------------------------
(* PROPERTIES                                                              *)

(* Types and extents: no mark is made behind the segment, however wide the
   wires are, and a reset covers exactly the segment, except that of
   DirectFuzz, which counts the words of a row in bytes and so goes on for
   WordBytes - 1 rows behind the last. *)
LayoutTypeOK ==
  /\ wires \in Seq([inst : 1 .. MaxInstances \cup {Target}, width : 1 .. MaxBits])
  /\ phase \in {"built", "idle", "running"}
  /\ IF phase = "built" THEN env = None ELSE
       /\ env \in [width : Nat, rows : Nat, bytes : Nat, max : Nat]
       /\ memory \subseteq Segment(method, env) \X (0 .. (CellBits(method) - 1))
       /\ LET over == IF method = "directfuzz" THEN WordBytes - 1 ELSE 0
          IN  ResetCells(method, env) =
                0 .. ((env.rows + over) * Columns(method, env) - 1)
  /\ init = None \/ init \in Values
  /\ new_coverage \in BOOLEAN

(* Flat memory, indexed by two programs with sizes measured by a third,
   implements sets of points: the fuzzer finds the points of each wire in the
   row of that wire and nowhere else, those of this run only, takes over
   exactly those, and reports new coverage exactly when no run covered one of
   them before (DirectFuzz::update against SHM2D::operator[], reset,
   new_coverage and apply). *)
ImplementsPoints ==
  phase # "built" =>
    /\ PointsIn(View(method, env, memory)) = points
    /\ PointsIn(bitmap) = covered
    /\ new_coverage = found

(* The reported coverage_rate is at most 100 percent: no more can be covered
   than FUZZ_MAX_COVERAGE says; with DirectFuzz, than it says and one for each
   wire of a single bit. *)
CoverageWithinMax ==
  phase # "built" =>
    Cardinality(bitmap) <= env.max +
      (IF method = "directfuzz"
       THEN Cardinality({i \in DOMAIN wires : wires[i].width = 1}) ELSE 0)

(* Up to coverage_target, the toggles of a wire are weighted with the distance
   of its own instance; the rows behind it with that of the instance of the
   next row (instance_dist[i] in DirectFuzz::energy). *)
OwnDistanceBeforeTarget ==
  method = "directfuzz" =>
    \A i \in DOMAIN DistanceList(wires) :
      LET own == DistanceList(wires)[i] = wires[i].inst
      IN  IF \E j \in 1 .. i : wires[j].inst = Target
          THEN ~own /\ DistanceList(wires)[i] = wires[i + 1].inst ELSE own

(* What the fuzzer divides by and what it weighs with fits the wires, as far as
   the scripts count them (max_coverage_sum and distance_list in
   prepare/method). *)
EnvironmentFitsWires == CoverageWithinMax /\ OwnDistanceBeforeTarget
=============================================================================
