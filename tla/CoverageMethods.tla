-------------------------- MODULE CoverageMethods --------------------------
(***************************************************************************)
(* The coverage methods the fuzzer is compared with: RFUZZ and DirectFuzz  *)
(* (toggles of multiplexer selects), DifuzzRTL (states of control          *)
(* registers) and Blackbox (none); fuzzer/include/coverage and             *)
(* driver/include/method.  A bitmap is the set of its bits or bytes that   *)
(* are set, points <<row, what>>: a row is a word of the one wire of       *)
(* RFUZZ, or an instance of the design, and `what` is a bit of the row     *)
(* that toggled, or the state of the row, itself a set of bits.            *)
(***************************************************************************)
EXTENDS Integers, FiniteSets, FiniteSetsExt

CONSTANTS
  Rows,       \* words of the wire, or instances
  Wirebits,   \* bits of a row
  Dist,       \* FUZZ_DIRECTFUZZ_INSTANCE_DIST, on the rows it has entries for
  MaxEnergy,  \* max_energy (25 in the source)
  MinEnergy,  \* min_energy (0 in the source)
  Undefined   \* result of an operation without a defined result

ASSUME CoverageAssumption ==
  /\ IsFiniteSet(Rows) /\ IsFiniteSet(Wirebits)
  /\ DOMAIN Dist \subseteq Rows /\ \A r \in DOMAIN Dist : Dist[r] \in Nat
  /\ MinEnergy \in Nat /\ MaxEnergy \in Nat /\ MinEnergy < MaxEnergy
  /\ Undefined \notin Nat

Methods == {"rfuzz", "directfuzz", "difuzzrtl", "blackbox"}

(* core->coverage in one clock. *)
Wires == [Rows -> SUBSET Wirebits]

----------------------------------------------------------------------------
(* Mutated forms, used only to show that the properties can fail.          *)

SmallestDist == Min({Dist[r] : r \in DOMAIN Dist})

----------------------------------------------------------------------------
(* The driver: what one clock marks.  init is the state latched in the first
   clock of the process. *)
SymmetricDifference(S, T) == (S \ T) \cup (T \ S)

Marked(method, init, wire) ==
  CASE method \in {"rfuzz", "directfuzz"} ->
         UNION {{r} \X SymmetricDifference(init[r], wire[r]) : r \in Rows}
    [] method = "difuzzrtl" -> {<<r, wire[r]>> : r \in Rows}
    [] method = "blackbox"  -> {}

(* The fuzzer: new_coverage and apply of the methods. *)
NewCoverage(method, bitmap, local) ==
  method # "blackbox" /\ local \ bitmap # {}

Applied(method, bitmap, local) ==
  IF method = "blackbox" THEN bitmap ELSE bitmap \cup local

(* DirectFuzz::energy: the nearer to the target the covered selects are on
   average, the higher.  A row without an entry reads past the vector, and
   without any distance the quotient is not a number. *)
SumOfDistances(points) == MapThenSumSet(LAMBDA p : Dist[p[1]], points)
MaxDist == Max({Dist[r] : r \in DOMAIN Dist})

Energy(method, bitmap) ==
  LET covered == Cardinality(bitmap)
      spread  == covered * MaxDist
  IN  IF method # "directfuzz" THEN 0
      ELSE IF covered = 0 THEN MinEnergy
      ELSE IF \E p \in bitmap : p[1] \notin DOMAIN Dist THEN Undefined
      ELSE IF MaxDist = 0 THEN Undefined
      ELSE (MaxEnergy * spread - (MaxEnergy - MinEnergy) * SumOfDistances(bitmap))
             \div spread
=============================================================================
