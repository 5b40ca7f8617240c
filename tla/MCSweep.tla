------------------------------ MODULE MCSweep ------------------------------
(***************************************************************************)
(* Sweep.tla for TLC.  N = 3 columns are enough for a first, a middle and  *)
(* a last sample; up to two conversions per sweep are lost, in a row or    *)
(* apart.                                                                  *)
(***************************************************************************)
EXTENDS Sweep
=============================================================================
