---------------------------- MODULE MCStatusPanel ----------------------------
(* StatusPanel with one check of one sensor, the one HEAT_MODE reads. *)
EXTENDS StatusPanel

MCChecks == {{"t1"}}
=============================================================================
