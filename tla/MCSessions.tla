----------------------------- MODULE MCSessions -----------------------------
(***************************************************************************)
(* Two campaigns, and a design of three rows: the target instance, one at  *)
(* distance two, and coverage_target, which the instances' list lacks.     *)
(***************************************************************************)
EXTENDS Sessions, TLC

MCDist == [r \in {1, 2} |-> IF r = 1 THEN 0 ELSE 2]
Symmetry == Permutations(Process)
=============================================================================
