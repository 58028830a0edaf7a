-------------------------- MODULE SignalSelection --------------------------
(***************************************************************************)
(* The selection of the signals on the coverage wire of SurgeFuzz          *)
(* (script/profile/selector.py, called by analyze.py, and instrument.py).  *)
(* The candidates are the registers the pass found, nearest first; a       *)
(* selected signal is [idx, sig, width], width bits of sig, which is named *)
(* dependent_<idx>, or coverage_target.  The mutual information between    *)
(* the signals is a number the model leaves open.                          *)
(***************************************************************************)
EXTENDS Netlist, SequencesExt

CONSTANTS
  CovBit,  \* --cov_bit: width of the coverage wire
  Radix    \* of the numbers in the signals' names (10 in the source)

ASSUME CovBitAssumption == CovBit \in Nat \ {0}
ASSUME RadixAssumption == Radix \in Nat \ {0, 1}

VARIABLES
  selection_method,  \* SELECTION_METHOD: "closer" or "closer_mi"
  candidates,        \* rows not yet looked at
  selected,          \* selected_sig_names, the target first
  sum_cov_bit        \* bits counted as selected

selectionVars == <<selection_method, candidates, selected, sum_cov_bit>>

Part(idx, sig, width) == [idx |-> idx, sig |-> sig, width |-> width]

(* coverage_target has no number. *)
Unnumbered == -1

(* sort_by_distance *)
Nearer(r, s) ==
  \/ r.reg_depth < s.reg_depth
  \/ r.reg_depth = s.reg_depth /\ r.depth < s.depth

(* Both functions up to their loops. *)
SelectionStart(rows, target) ==
  /\ candidates' = rows
  /\ selected' = <<Part(Unnumbered, target, target.n)>>
  /\ sum_cov_bit' = target.n

----------------------------------------------------------------------------
(* Mutated forms, used only to show that the properties can fail.          *)

PartOffByOne(row) == Part(row.idx, row.sig, CovBit - sum_cov_bit - 1)
NearestInRegisters(rows) == {r \in rows : \A s \in rows : r.reg_depth <= s.reg_depth}

----------------------------------------------------------------------------
(* The rows that come first, in either order. *)
Nearest(rows) == {r \in rows : \A s \in rows : ~Nearer(s, r)}

Fits(row) == sum_cov_bit + row.width <= CovBit

(* The slice [acceptable_width-1:0] of a signal that does not fit. *)
LowPart(row) == Part(row.idx, row.sig, CovBit - sum_cov_bit)

Selected(row) == IF Fits(row) THEN Part(row.idx, row.sig, row.width) ELSE LowPart(row)

(* One round of the loop of select_coverage_sigs: a signal selected in part is
   not counted.  The loop breaks off when the wire is counted full. *)
SelectCloser(row) ==
  /\ selection_method = "closer"
  /\ selected' = Append(selected, Selected(row))
  /\ sum_cov_bit' = sum_cov_bit + (IF Fits(row) THEN row.width ELSE 0)
  /\ candidates' = IF sum_cov_bit' = CovBit THEN {} ELSE candidates \ {row}
  /\ UNCHANGED selection_method

(* `target_sig_name in sig_name`: the digits of n are how those of i begin, so
   that dependent_1 is in dependent_10 as in its own name. *)
NameContains(i, n) ==
  i = n \/ (n > 0 /\ \E k \in 1 .. i : i \div Radix^k = n)

(* calc_nmi: the candidates a round looks at. *)
Compared ==
  {row \in candidates : ~NameContains(row.idx, selected[Len(selected)].idx)}

(* One round of the loop of select_coverage_sigs_using_mi: of the candidates
   compared those that tell too much of the signal selected last are dropped
   for good, the nearest of the others is selected. *)
SelectCloserMi(dropped, row) ==
  /\ selection_method = "closer_mi"
  /\ sum_cov_bit < CovBit
  /\ selected' = Append(selected, Selected(row))
  /\ sum_cov_bit' = sum_cov_bit + Selected(row).width
  /\ candidates' = (candidates \ dropped) \ {row}
  /\ UNCHANGED selection_method

(* All that are compared tell too much: nothing is selected, and from now on
   each round compares the same signal with nothing. *)
DropCandidates ==
  /\ selection_method = "closer_mi"
  /\ sum_cov_bit < CovBit
  /\ candidates' = candidates \ Compared
  /\ UNCHANGED <<selection_method, selected, sum_cov_bit>>

SelectionOver ==
  IF selection_method = "closer" THEN candidates = {}
  ELSE sum_cov_bit >= CovBit

SelectionStep ==
  \/ \E row \in Nearest(candidates) : SelectCloser(row)
  \/ \E dropped \in SUBSET Compared :
       \E row \in Nearest(Compared \ dropped) : SelectCloserMi(dropped, row)
  \/ DropCandidates

(* assign coverage = {selected...}: the signal selected last is on the low
   bits of the wire; what does not fit is cut off at the top, and a wire that
   is not filled is zero there. *)
Concatenation ==
  FoldLeft(LAMBDA low, part :
             [i \in 1 .. part.width |-> <<part.sig.wire, part.sig.lo + i - 1>>] \o low,
           <<>>, selected)

CoverageLanes ==
  [j \in 1 .. CovBit |->
     IF j <= Len(Concatenation) THEN {Concatenation[j]} ELSE {}]

----------------------------------------------------------------------------
(* PROPERTIES                                                              *)

PartBits(part) == Bits(Chunk(part.sig.wire, part.sig.lo, part.width))

(* "closer" (Makefile:18): no selected signal is pushed off the wire by
   signals selected after it, which are farther away. *)
CloserStaysOnWire ==
  selection_method = "closer" /\ candidates = {} =>
    \A i \in DOMAIN selected :
      PartBits(selected[i]) \subseteq UNION {CoverageLanes[j] : j \in 1 .. CovBit}

(* closer_mi: the bits counted are the bits on the wire, never more than it
   has, so every selected signal is on it: whole, or with its low bits if it
   came last and filled the wire. *)
MiSelectionFitsWire ==
  selection_method = "closer_mi" =>
    /\ Len(Concatenation) = sum_cov_bit
    /\ sum_cov_bit <= CovBit
    /\ \A i \in DOMAIN selected :
         \/ selected[i].width = selected[i].sig.n
         \/ i = Len(selected) /\ sum_cov_bit = CovBit
=============================================================================
