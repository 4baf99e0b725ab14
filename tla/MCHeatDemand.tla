---------------------------- MODULE MCHeatDemand ----------------------------
(* HeatDemand with the two sensors the demand reads (T3 and T4 follow the  *)
(* same rules and are covered by the proofs); one temperature below, one   *)
(* inside and one above the hysteresis band, a heat_off_th on either side  *)
(* of heat_on_th and a delta that a reading meets or misses.               *)
EXTENDS HeatDemand

Cold == 0
Band == 3
Warm == 12

MCTemps == {Cold, Band, Warm}
=============================================================================
