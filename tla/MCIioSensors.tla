---------------------------- MODULE MCIioSensors ----------------------------
(***************************************************************************)
(* IioSensors for TLC, with values at the ends of their ranges.            *)
(* Processes are interchangeable, and only safety is checked.              *)
(***************************************************************************)
EXTENDS IioSensors, TLC

MCAxes == <<"gyro_x">>

MCLight ==
  {[ir |-> 1023, als |-> 32768, ps |-> 1023, over |-> FALSE, near |-> TRUE],
   [ir |-> 514, als |-> 255, ps |-> 16, over |-> TRUE, near |-> FALSE]}

MCMotion ==
  {[gyro_x |-> -32768], [gyro_x |-> 255]}

AnyProcess == Permutations(Procs)
=============================================================================
