--------------------------- MODULE MCDefrostCycle ---------------------------
(* DefrostCycle with both heaters: independent floors that change at any    *)
(* moment. The two scripts differ only in the entities they name, but the   *)
(* run checks liveness, so it uses no symmetry.                             *)
EXTENDS DefrostCycle

CONSTANTS chassis, drain
=============================================================================
