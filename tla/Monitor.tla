------------------------------- MODULE Monitor -------------------------------
(***************************************************************************)
(* The fuzzer's view of the coverage and surge-score bitmaps               *)
(* (fuzzer/include/monitor.hpp, coverage/surgefuzz.hpp, surge/surge.hpp).  *)
(*                                                                         *)
(* A byte bitmap is the set of its non-zero indices: the driver only ever  *)
(* stores 1 and the fuzzer only asks whether a byte is zero.  A pair of    *)
(* bitmaps is a record [cov, surge]; "b" is the pair the fuzzer process    *)
(* accumulates (`bitmap`), "s" the pair in the two shared memory segments  *)
(* (`local_bitmap`), which the simulator writes.                           *)
(***************************************************************************)
EXTENDS Integers, FiniteSets

CONSTANTS
  Point,     \* indices of the coverage bitmap (0 .. FUZZ_BITMAP_BYTE_SIZE - 1)
  SurgeBins  \* number of bins of the surge-score bitmap (256 in the source)

ASSUME SurgeBinsAssumption == SurgeBins \in Nat \ {0}

Bin == 0 .. (SurgeBins - 1)

Bitmaps == [cov : SUBSET Point, surge : SUBSET Bin]

Empty == [cov |-> {}, surge |-> {}]

----------------------------------------------------------------------------
(* Mutated forms, used only to show that the properties can fail.          *)

ResetCoverageOnly(s) == [s EXCEPT !.cov = {}]
OverwriteBitmaps(b, s) == s

----------------------------------------------------------------------------
(* get_max_value: the largest non-zero index, 0 when every byte is zero.   *)
MaxIndex(bins) ==
  IF bins = {} THEN 0 ELSE CHOOSE m \in bins : \A n \in bins : n <= m

(* Monitor::reset: both segments are zeroed. *)
MonitorReset(s) == Empty

(* new_coverage: some byte is set in the segment and not yet in the bitmap. *)
NewCoverage(b, s) == \E p \in Point : p \notin b.cov /\ p \in s.cov

(* Monitor::update: every byte set in the segment and clear in the bitmap is
   copied. *)
MonitorUpdate(b, s) ==
  [cov   |-> b.cov   \cup {p \in Point : p \notin b.cov /\ p \in s.cov},
   surge |-> b.surge \cup {n \in Bin : n \notin b.surge /\ n \in s.surge}]

(* SurgeFuzz::energy (with ENABLE_POWER_SCHEDULE). *)
Energy(score) == score * score
=============================================================================
