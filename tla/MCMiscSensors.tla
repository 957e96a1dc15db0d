--------------------------- MODULE MCMiscSensors ----------------------------
(***************************************************************************)
(* MiscSensors for TLC.  Processes are interchangeable, and only safety is *)
(* checked.                                                                *)
(***************************************************************************)
EXTENDS MiscSensors, TLC

AnyProcess == Permutations(Procs)
=============================================================================
