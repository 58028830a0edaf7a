----------------------------- MODULE MCFuzzLoop -----------------------------
(***************************************************************************)
(* Instances of FuzzLoop for TLC.                                          *)
(***************************************************************************)
EXTENDS FuzzLoop

MCLine == {7}
MCCrashLines == {7, 0}
=============================================================================
