----------------------------- MODULE MCProgram -----------------------------
(***************************************************************************)
(* Instances of Program for TLC: two blocks, and the types that differ in  *)
(* what can go wrong (a branch target, an address and its access, a shift, *)
(* no operands at all).                                                    *)
(***************************************************************************)
EXTENDS Program

MCSampledTypes ==
  {"Branch", "Memory", "PseudoLoadAddress", "PseudoArg0"}

(* A value every kind of operand admits, and one that none admits. *)
MCSamples == {5, 3000}
=============================================================================
