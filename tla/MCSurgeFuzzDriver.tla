------------------------- MODULE MCSurgeFuzzDriver -------------------------
(***************************************************************************)
(* Instances of SurgeFuzzDriver for TLC: a history as long as the bitmap,  *)
(* as in the source, and a word that is a small multiple of it, so that    *)
(* trace_count wraps.                                                      *)
(***************************************************************************)
EXTENDS SurgeFuzzDriver

MCCounts == 0 .. 5
MCSignals == 0 .. 5

(* COUNT signals that all have a bin of their own. *)
MCBinCounts == 0 .. 2
=============================================================================
