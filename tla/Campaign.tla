------------------------------ MODULE Campaign ------------------------------
(***************************************************************************)
(* What a coverage-directed campaign promises, without processes, shared   *)
(* memory or files: runs are observed one at a time, what they cover adds  *)
(* up, and an input is kept exactly when its run covered a point no        *)
(* earlier run covered or the corpus still lacks initial seeds.            *)
(***************************************************************************)
EXTENDS Integers, Sequences

CONSTANTS Point, Bin, InitialSeedCount

VARIABLES
  seen,     \* the points covered so far
  scores,   \* the surge scores reached so far
  kept,     \* the runs whose input is in the corpus, in order
  runs,     \* the number of runs observed
  verdict   \* what is to be done with the input of the last run

campaignVars == <<seen, scores, kept, runs, verdict>>

Init ==
  /\ seen = {}
  /\ scores = {}
  /\ kept = <<>>
  /\ runs = 0
  /\ verdict = "settled"

(* A run covers the points C and reaches the scores S. *)
Observe(C, S) ==
  /\ verdict = "settled"
  /\ seen' = seen \cup C
  /\ scores' = scores \cup S
  /\ runs' = runs + 1
  /\ verdict' = IF C \subseteq seen /\ Len(kept) >= InitialSeedCount
                THEN "drop" ELSE "keep"
  /\ UNCHANGED kept

Settle ==
  /\ verdict # "settled"
  /\ kept' = IF verdict = "keep" THEN Append(kept, runs) ELSE kept
  /\ verdict' = "settled"
  /\ UNCHANGED <<seen, scores, runs>>

Next ==
  \/ \E C \in SUBSET Point, S \in SUBSET Bin : Observe(C, S)
  \/ Settle

Spec == Init /\ [][Next]_campaignVars
=============================================================================
