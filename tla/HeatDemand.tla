----------------------------- MODULE HeatDemand -----------------------------
(***************************************************************************)
(* From temperatures to DEFROST_ORDERED: the raw DS18B20 sensors and the   *)
(* simulated values, the "(used)" sensors that mirror one or the other,    *)
(* HEAT_MODE with its hysteresis latch and DEFROST_ORDERED.                *)
(*                                                                         *)
(* The "(used)" sensors never poll: each change of a source pushes its     *)
(* own, and a change of simulation mode pushes all.  The two binary        *)
(* sensors are evaluated in this order on every loop pass, and a lambda    *)
(* that returns {} publishes nothing, so the old state stays.              *)
(***************************************************************************)
EXTENDS Integers

CONSTANTS
  outside, gas_inlet,       (* T1 and T2                                    *)
  OtherSensors,             (* T3 and T4, which the demand does not read    *)
  Temps, NaN,               (* temperatures a sensor reports, and a failure *)
  HeatOnRange, HeatOffRange, AbsRange, DtRange   (* threshold numbers       *)

ASSUME SensorAssumption ==
  /\ outside # gas_inlet /\ Temps \subseteq Int /\ NaN \notin Temps
  /\ HeatOnRange \subseteq Int /\ HeatOffRange \subseteq Int
  /\ AbsRange \subseteq Int /\ DtRange \subseteq Int

Sensors  == {outside, gas_inlet} \union OtherSensors
Readings == Temps \union {NaN}
Settings == [heat_on : HeatOnRange, heat_off : HeatOffRange,
             def_abs : AbsRange, def_dt : DtRange]

VARIABLES
  main_system_enabled, sim_mode_state,
  raw, sim, used,           (* per sensor: read, simulated, used value      *)
  th,                       (* the four thresholds                          *)
  heat,                     (* the static hysteresis latch of HEAT_MODE     *)
  bs_heat_mode, bs_defrost  (* the published states                         *)

sensing == <<sim_mode_state, raw, sim, used>>
states  == <<heat, bs_heat_mode, bs_defrost>>
vars == <<main_system_enabled, sensing, th, states>>

\* What the lambda of a "(used)" sensor returns.
Source(s) == IF sim_mode_state THEN sim[s] ELSE raw[s]

PushAll == used' = [s \in Sensors |-> Source(s)']
Push(s) == used' = [used EXCEPT ![s] = Source(s)']

-----------------------------------------------------------------------------
(* After setup: no sensor has published, the number entities and switches  *)
(* are restored, and on_boot has pushed every "(used)" sensor once.        *)

Init ==
  /\ main_system_enabled \in BOOLEAN /\ sim_mode_state \in BOOLEAN
  /\ raw = [s \in Sensors |-> NaN] /\ sim \in [Sensors -> Temps]
  /\ used = [s \in Sensors |-> Source(s)]
  /\ th \in Settings
  /\ heat = FALSE /\ bs_heat_mode = FALSE /\ bs_defrost = FALSE

\* A restart; flash may hold older switches and numbers than were last set.
Reboot ==
  /\ main_system_enabled' \in BOOLEAN /\ sim_mode_state' \in BOOLEAN
  /\ raw' = [s \in Sensors |-> NaN] /\ sim' \in [Sensors -> Temps]
  /\ PushAll
  /\ th' \in Settings
  /\ heat' = FALSE /\ bs_heat_mode' = FALSE /\ bs_defrost' = FALSE

-----------------------------------------------------------------------------
(* Sources.                                                                *)

\* A conversion ends (base poll or fast poll): the sensor publishes what it
\* read, NaN if the read failed, and on_value pushes its "(used)" sensor.
RawRead(s) ==
  /\ \E v \in Readings : raw' = [raw EXCEPT ![s] = v]
  /\ UNCHANGED <<main_system_enabled, sim_mode_state, sim, th, states>>
  /\ Push(s)

\* A sim_t_* number is set from Home Assistant.
SetSim(s) ==
  /\ \E v \in Temps : sim' = [sim EXCEPT ![s] = v]
  /\ UNCHANGED <<main_system_enabled, sim_mode_state, raw, th, states>>
  /\ Push(s)

NoForcedUpdate == used' = used                  \* mutant: BUG-002
ForcedUpdate == PushAll

SimSwitch ==
  /\ sim_mode_state' \in BOOLEAN
  /\ UNCHANGED <<main_system_enabled, raw, sim, th, states>>
  /\ ForcedUpdate

MainSwitch ==
  /\ main_system_enabled' \in BOOLEAN
  /\ UNCHANGED <<sensing, th, states>>

SetThreshold ==
  /\ th' \in Settings
  /\ UNCHANGED <<main_system_enabled, sensing, states>>

-----------------------------------------------------------------------------
(* One loop pass over the two binary sensors.                              *)

T1 == used[outside]
T2 == used[gas_inlet]

\* The latch after one evaluation with a known T1; heat_off wins when both
\* thresholds are met, which overlapping settings allow.
SingleThreshold == T1 <= th.heat_on             \* mutant: no hysteresis
Latched ==
  /\ T1 < th.heat_off
  /\ T1 <= th.heat_on \/ heat

EvalHeatMode ==
  \/ ~main_system_enabled /\ bs_heat_mode' = FALSE /\ heat' = heat
  \/ /\ main_system_enabled /\ T1 # NaN
     /\ heat' = Latched /\ bs_heat_mode' = heat'
  \/ main_system_enabled /\ T1 = NaN /\ UNCHANGED <<heat, bs_heat_mode>>

AbsOk == T2 >= th.def_abs
DtOk  == T2 - T1 >= th.def_dt

NoFreezeGate == AbsOk /\ DtOk                   \* mutant: before ADR-009
\* HEAT_MODE was published just before, on the same pass.
Ordered == AbsOk /\ DtOk /\ bs_heat_mode'

NeverDisabled == FALSE                          \* mutant: no main switch test
Disabled == ~main_system_enabled

\* return {}: nothing is published.
Unpublished == bs_defrost

EvalDefrost ==
  \/ Disabled /\ bs_defrost' = FALSE
  \/ ~Disabled /\ T1 # NaN /\ T2 # NaN /\ bs_defrost' = Ordered
  \/ ~Disabled /\ (T1 = NaN \/ T2 = NaN) /\ bs_defrost' = Unpublished

LoopPass ==
  /\ EvalHeatMode /\ EvalDefrost
  /\ UNCHANGED <<main_system_enabled, sensing, th>>

Next ==
  \/ Reboot \/ SimSwitch \/ MainSwitch \/ SetThreshold \/ LoopPass
  \/ \E s \in Sensors : RawRead(s) \/ SetSim(s)

Spec == Init /\ [][Next]_vars

\* The loop keeps passing; nothing else is owed.
FairSpec == Spec /\ WF_vars(LoopPass)

-----------------------------------------------------------------------------
(* Properties.                                                             *)

\* Every variable has its type.
TypeOK ==
  /\ {main_system_enabled, sim_mode_state, heat, bs_heat_mode, bs_defrost} \subseteq BOOLEAN
  /\ raw \in [Sensors -> Readings] /\ sim \in [Sensors -> Temps]
  /\ used \in [Sensors -> Readings] /\ th \in Settings

\* BUG-002, BUG-005: between two callbacks the control logic never sees a
\* value of the other mode or a value its source no longer has, although
\* the "(used)" sensors do not poll.
UsedMirrorsSource == \A s \in Sensors : used[s] = Source(s)

Known == T1 # NaN /\ T2 # NaN

\* A demand begins only with the system enabled, HEAT_MODE armed and both
\* thresholds met by the two sources of one and the same mode: no flip of
\* simulation mode, failed read or settings change raises one by itself.
DemandJustified ==
  [][~bs_defrost /\ bs_defrost' =>
       /\ main_system_enabled /\ bs_heat_mode'
       /\ {Source(outside), Source(gas_inlet)} \subseteq Temps
       /\ Source(gas_inlet) >= th.def_abs
       /\ Source(gas_inlet) - Source(outside) >= th.def_dt]_vars

\* Hysteresis: inside the band HEAT_MODE stays what it was.  It falls at
\* heat_off_th, with the main switch or at a reboot, and rises at heat_on_th
\* or when enabling the system finds the latch still set.
HeatModeBand ==
  [][/\ bs_heat_mode /\ ~bs_heat_mode' =>
          ~main_system_enabled \/ Reboot \/ T1 >= th.heat_off
     /\ ~bs_heat_mode /\ bs_heat_mode' => heat \/ T1 <= th.heat_on]_vars

\* Only an unreadable T1 or T2 keeps a demand standing on a pass that leaves
\* HEAT_MODE off (ADR-009).
OnlyDeadSensorHoldsDemand ==
  [][LoopPass /\ bs_defrost' /\ ~bs_heat_mode' => ~Known]_vars

\* The demand has lost its ground: disabled, too warm or below a threshold,
\* by readings that are valid.
Groundless ==
  \/ ~main_system_enabled
  \/ Known /\ (~AbsOk \/ ~DtOk \/ T1 >= th.heat_off)

\* A demand whose ground is gone is withdrawn, which is what ends a cycle
\* before its ceiling.
DemandWithdrawn == Groundless ~> (~bs_defrost \/ ~Groundless)

\* "If the system is disabled or HEAT_MODE is OFF, DEFROST_ORDERED is always
\* false", as a pass over the two sensors leaves them.
FreezeGate == [][LoopPass /\ bs_defrost' => bs_heat_mode']_vars
=============================================================================
