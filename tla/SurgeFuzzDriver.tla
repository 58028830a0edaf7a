-------------------------- MODULE SurgeFuzzDriver --------------------------
(***************************************************************************)
(* class SurgeFuzzDriver (driver/include/fuzz_driver.hpp) with method      *)
(* SurgeFuzz (driver/include/method/surgefuzz.hpp): each clock of the      *)
(* design first updates the surge recorder, then marks one byte of the     *)
(* coverage bitmap, chosen by the `coverage` wire and, for FREQ and        *)
(* CONSEC, by the low bits of the score just computed.                     *)
(***************************************************************************)
EXTENDS SurgeRecorder

CONSTANTS
  CovBit,      \* COV_BIT: width of the `coverage` wire
  ScoreSlots,  \* scores told apart in the coverage index (16)
  Signals      \* bound: values of coverage_target the design is driven with

ASSUME CovBitAssumption == CovBit \in Nat \ {0}
ASSUME ScoreSlotsAssumption == ScoreSlots \in Nat \ {0}
ASSUME SignalsAssumption == Signals \subseteq 0 .. (WordSize - 1)

VARIABLES
  covBitmap,  \* the indices of FUZZ_BITMAP written with 1
  met         \* history: the pairs <<coverage, score>> the design has met

vars == <<recorderVars, covBitmap, met>>

(* The wire instrument() declares as [cov_bit - 1 : 0]. *)
Coverage == 0 .. (2 ^ CovBit - 1)

(* FUZZ_BITMAP_BYTE_SIZE, as generate_env_var_file writes it. *)
BitmapByteSize == 2 ^ CovBit

TypeOK == RecorderTypeOK /\ covBitmap \subseteq Nat

Init == RecorderInit /\ covBitmap = {} /\ met = {}

----------------------------------------------------------------------------
(* Mutated forms, used only to show that the properties can fail.          *)

ScoreOfLastClock == current_score

----------------------------------------------------------------------------
(* update_bitmap: (coverage << 4) | (score & 0xf), or coverage for COUNT.  *)
CovIndex(c, s) ==
  IF annotation_type = "COUNT" THEN c ELSE c * ScoreSlots + (s % ScoreSlots)

(* get_current_score(), asked after surge_recorder.update. *)
ScoreOfThisClock == current_score'

(* call_per_one_cycle *)
CallPerOneCycle(signal, c) ==
  /\ Update(signal)
  /\ IF aborted' THEN UNCHANGED <<covBitmap, met>>
     ELSE /\ covBitmap' = covBitmap \cup {CovIndex(c, ScoreOfThisClock)}
          /\ met' = met \cup {<<c, current_score'>>}

Next ==
  \E signal \in Signals, c \in Coverage :
    /\ annotation_type = "COUNT" => signal \in Counts
    /\ CallPerOneCycle(signal, c)

Spec == Init /\ [][Next]_vars

----------------------------------------------------------------------------
(* PROPERTIES                                                              *)

(* Two clocks share a byte of the coverage bitmap only if they agree on the
   coverage wire and on the low bits of the score of the SAME clock: a byte
   never mixes a wire of one clock with a score of another. *)
CoverageIsOfOneClock ==
  covBitmap =
    {IF annotation_type = "COUNT" THEN p[1]
     ELSE p[1] * ScoreSlots + (p[2] % ScoreSlots) : p \in met}

(* Every index written lies inside the bitmap (Makefile: "COV_BIT defines the
   size of the coverage bitmap as 1 << COV_BIT"). *)
IndexInBitmap == \A i \in covBitmap : i < BitmapByteSize
=============================================================================
