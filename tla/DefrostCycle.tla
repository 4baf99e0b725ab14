---------------------------- MODULE DefrostCycle ----------------------------
(***************************************************************************)
(* The defrost sequence: the 1 s edge trigger on DEFROST_ORDERED, the      *)
(* scripts run_defrost, defrost_chassis_cycle and defrost_drain_cycle      *)
(* (mode: restart), the main switch, the two heater outputs and the        *)
(* floor/ceiling settings they read.                                       *)
(*                                                                         *)
(* All of it runs on ESPHome's single main loop, so every callback (an     *)
(* interval, an expired delay, a wait_until pass, a Home Assistant         *)
(* command) is one atomic action and the interleaving is theirs.  Time is  *)
(* discrete: one Tick is one period of the edge trigger.  A Tick waits     *)
(* for everything already due, because a loop pass takes milliseconds.     *)
(***************************************************************************)
EXTENDS Integers

CONSTANTS
  Heaters,                  (* the heating channels: chassis and drain      *)
  MinFloor, MaxFloor,       (* range of the *_time_floor numbers, in ticks  *)
  MinCeiling, MaxCeiling    (* range of the *_time_ceiling numbers          *)

\* The ranges of the number entities do not overlap (1-10 and 15-60 minutes).
ASSUME SettingsAssumption ==
  /\ MinFloor \in Nat \ {0} /\ MaxFloor \in Nat
  /\ MinCeiling \in Nat     /\ MaxCeiling \in Nat
  /\ MinFloor <= MaxFloor /\ MaxFloor < MinCeiling /\ MinCeiling <= MaxCeiling

VARIABLES
  main_system_enabled,      (* global, reported by the main switch          *)
  bs_defrost,               (* DEFROST_ORDERED as last published            *)
  last, edge_due,           (* edge trigger: its static, its period is over *)
  defrost_running,          (* status flag                                  *)
  run_defrost,              (* is_running() of the parent script            *)
  cycle, timer,             (* per heater: phase of its script, ticks left  *)
  sw_heater,                (* per heater: the SSR output                   *)
  time_floor, time_ceiling  (* per heater: the settings                     *)

\* History, read by properties only.
VARIABLES
  age,      (* per heater: ticks since its script was last started          *)
  steady,   (* per heater: no setting of it changed since that start        *)
  manual,   (* per heater: switched on by hand since it was last off        *)
  heat,     (* per heater: ticks its script ran during the current demand   *)
  served,   (* the current demand has started a cycle                       *)
  session   (* flips at every boot                                          *)

cycleVars   == <<defrost_running, run_defrost, cycle, timer>>
settingVars == <<time_floor, time_ceiling>>
history     == <<age, steady, manual, heat, served, session>>
vars == <<main_system_enabled, bs_defrost, last, edge_due, cycleVars,
          sw_heater, settingVars, history>>

Floors    == MinFloor..MaxFloor
Ceilings  == MinCeiling..MaxCeiling
AllIdle   == \A h \in Heaters : cycle[h] = "idle"
Each(x)   == [h \in Heaters |-> x]

-----------------------------------------------------------------------------
(* Boot: outputs ALWAYS_OFF, no script running, statics and flags at their *)
(* initial values; the switch and the settings come from flash.            *)

Init ==
  /\ main_system_enabled \in BOOLEAN
  /\ bs_defrost = FALSE /\ last = FALSE /\ edge_due = FALSE
  /\ defrost_running = FALSE /\ run_defrost = FALSE
  /\ cycle = Each("idle") /\ timer = Each(0) /\ sw_heater = Each(FALSE)
  /\ time_floor \in [Heaters -> Floors] /\ time_ceiling \in [Heaters -> Ceilings]
  /\ age = Each(0) /\ steady = Each(FALSE) /\ manual = Each(FALSE)
  /\ heat = Each(0) /\ served = FALSE /\ session = FALSE

\* A restart at any instant.  Flash is written once a minute, so what comes
\* back may be older than what was last set.
Reboot ==
  /\ main_system_enabled' \in BOOLEAN
  /\ bs_defrost' = FALSE /\ last' = FALSE /\ edge_due' = FALSE
  /\ defrost_running' = FALSE /\ run_defrost' = FALSE
  /\ cycle' = Each("idle") /\ timer' = Each(0) /\ sw_heater' = Each(FALSE)
  /\ time_floor' \in [Heaters -> Floors] /\ time_ceiling' \in [Heaters -> Ceilings]
  /\ age' = Each(0) /\ steady' = Each(FALSE) /\ manual' = Each(FALSE)
  /\ heat' = Each(0) /\ served' = FALSE /\ session' = ~session

-----------------------------------------------------------------------------
(* DEFROST_ORDERED.  HeatDemand models how it is computed; here it may     *)
(* rise whenever the system is enabled and drop at any pass.               *)

\* wait_until polls on every pass, so a drop is seen before the next rise.
OrderedRise ==
  /\ ~bs_defrost /\ main_system_enabled
  /\ \A h \in Heaters : cycle[h] # "follow"
  /\ bs_defrost' = TRUE
  /\ heat' = Each(0) /\ served' = FALSE
  /\ UNCHANGED <<main_system_enabled, last, edge_due, cycleVars, sw_heater,
                 settingVars, age, steady, manual, session>>

OrderedDrop ==
  /\ bs_defrost
  /\ bs_defrost' = FALSE
  /\ heat' = Each(0) /\ served' = FALSE
  /\ UNCHANGED <<main_system_enabled, last, edge_due, cycleVars, sw_heater,
                 settingVars, age, steady, manual, session>>

-----------------------------------------------------------------------------
(* The scripts.                                                            *)

NoFloorDelay == Each(0)                         \* mutant: the ADR-007 cycle

\* The delay lambda, evaluated as the script starts.
FloorDelay == time_floor

\* script.execute run_defrost, up to its wait_until: both nested scripts are
\* (re)started, switch their heater on and enter the floor delay.
RunDefrost ==
  /\ defrost_running' = TRUE /\ run_defrost' = TRUE
  /\ cycle' = Each("floor") /\ timer' = FloorDelay
  /\ sw_heater' = Each(TRUE)
  /\ age' = Each(0) /\ steady' = Each(TRUE) /\ served' = TRUE
  /\ UNCHANGED <<manual, heat, session>>

LevelTriggered == bs_defrost                    \* mutant: level, not edge
Rising == bs_defrost /\ ~last

UngatedStart   == Rising                        \* mutant: no main switch
NotWhileRunning ==                              \* mutant: the gate before ADR-008
  Rising /\ main_system_enabled /\ ~defrost_running
MayStart == Rising /\ main_system_enabled

\* The edge trigger samples the demand even while the system is disabled.
EdgeCheck ==
  /\ edge_due /\ edge_due' = FALSE
  /\ last' = bs_defrost
  /\ \/ MayStart /\ RunDefrost
     \/ ~MayStart /\ UNCHANGED <<cycleVars, sw_heater, history>>
  /\ UNCHANGED <<main_system_enabled, bs_defrost, settingVars>>

EdgeStart == EdgeCheck /\ MayStart

\* The last action of a nested script: its heater off.
CloseCycle(h) ==
  /\ cycle' = [cycle EXCEPT ![h] = "idle"]
  /\ timer' = [timer EXCEPT ![h] = 0]
  /\ sw_heater' = [sw_heater EXCEPT ![h] = FALSE]
  /\ age' = [age EXCEPT ![h] = 0]
  /\ steady' = [steady EXCEPT ![h] = FALSE]
  /\ manual' = [manual EXCEPT ![h] = FALSE]

CeilingAfterFloor(h) == time_ceiling[h]         \* mutant: floor not deducted
SwappedTimeout(h) == time_floor[h] - time_ceiling[h]   \* mutant: operands swapped

\* The timeout lambda of wait_until, evaluated when the wait is entered.
WaitTimeout(h) ==
  IF time_floor[h] >= time_ceiling[h] THEN 0 ELSE time_ceiling[h] - time_floor[h]

\* The floor delay is over.  wait_until tests its condition at once and only
\* then arms its timeout.
DelayOver(h) ==
  /\ cycle[h] = "floor" /\ timer[h] = 0
  /\ \/ ~bs_defrost /\ CloseCycle(h)
     \/ /\ bs_defrost
        /\ cycle' = [cycle EXCEPT ![h] = "follow"]
        /\ timer' = [timer EXCEPT ![h] = WaitTimeout(h)]
        /\ UNCHANGED <<sw_heater, age, steady, manual>>
  /\ UNCHANGED <<main_system_enabled, bs_defrost, last, edge_due,
                 defrost_running, run_defrost, settingVars, heat, served, session>>

WaitWithoutTimeout(h) == ~bs_defrost            \* mutant: no ceiling
WaitEnds(h) == ~bs_defrost \/ timer[h] = 0

\* The wait ends: the demand dropped or the timeout fired.
WaitOver(h) ==
  /\ cycle[h] = "follow" /\ WaitEnds(h)
  /\ CloseCycle(h)
  /\ UNCHANGED <<main_system_enabled, bs_defrost, last, edge_due,
                 defrost_running, run_defrost, settingVars, heat, served, session>>

\* run_defrost's own wait_until: both nested scripts have ended.
RunDefrostDone ==
  /\ run_defrost /\ AllIdle
  /\ run_defrost' = FALSE /\ defrost_running' = FALSE
  /\ UNCHANGED <<main_system_enabled, bs_defrost, last, edge_due, cycle, timer,
                 sw_heater, settingVars, history>>

-----------------------------------------------------------------------------
(* Home Assistant: the main switch, the heater switches, the settings.     *)

MainOn ==
  /\ main_system_enabled' = TRUE
  /\ UNCHANGED <<bs_defrost, last, edge_due, cycleVars, sw_heater, settingVars, history>>

NestedScriptsLeft ==                            \* mutant: only the parent stopped
  run_defrost' = FALSE /\ UNCHANGED <<cycle, timer, age, steady>>

\* script.stop of the three scripts, a running delay included.
StopScripts ==
  /\ run_defrost' = FALSE /\ cycle' = Each("idle") /\ timer' = Each(0)
  /\ age' = Each(0) /\ steady' = Each(FALSE)

HeatersLeft == UNCHANGED <<sw_heater, manual>>  \* mutant: outputs not forced off

\* switch.turn_off of both heaters.
HeatersOff == sw_heater' = Each(FALSE) /\ manual' = Each(FALSE)

\* turn_off_action: "Disable system and force safe state".
MainOff ==
  /\ main_system_enabled' = FALSE /\ defrost_running' = FALSE
  /\ StopScripts /\ HeatersOff
  /\ UNCHANGED <<bs_defrost, last, edge_due, settingVars, heat, served, session>>

\* The heater switches are exposed and not gated by the main switch.
HeaterOn(h) ==
  /\ sw_heater' = [sw_heater EXCEPT ![h] = TRUE]
  /\ manual' = [manual EXCEPT ![h] = TRUE]
  /\ UNCHANGED <<main_system_enabled, bs_defrost, last, edge_due, cycleVars,
                 settingVars, age, steady, heat, served, session>>

HeaterOff(h) ==
  /\ sw_heater' = [sw_heater EXCEPT ![h] = FALSE]
  /\ manual' = [manual EXCEPT ![h] = FALSE]
  /\ UNCHANGED <<main_system_enabled, bs_defrost, last, edge_due, cycleVars,
                 settingVars, age, steady, heat, served, session>>

SetFloor(h) ==
  /\ \E f \in Floors : time_floor' = [time_floor EXCEPT ![h] = f]
  /\ steady' = [steady EXCEPT ![h] = FALSE]
  /\ UNCHANGED <<main_system_enabled, bs_defrost, last, edge_due, cycleVars,
                 sw_heater, time_ceiling, age, manual, heat, served, session>>

SetCeiling(h) ==
  /\ \E c \in Ceilings : time_ceiling' = [time_ceiling EXCEPT ![h] = c]
  /\ steady' = [steady EXCEPT ![h] = FALSE]
  /\ UNCHANGED <<main_system_enabled, bs_defrost, last, edge_due, cycleVars,
                 sw_heater, time_floor, age, manual, heat, served, session>>

-----------------------------------------------------------------------------
(* Time.                                                                   *)

Running(h) == cycle[h] # "idle"

\* Work the loop does before a tick can pass.  A demand is withdrawn on the
\* first pass after the system is disabled.
Due ==
  \/ edge_due
  \/ bs_defrost /\ ~main_system_enabled
  \/ run_defrost /\ AllIdle
  \/ \E h \in Heaters : \/ Running(h) /\ timer[h] = 0
                        \/ cycle[h] = "follow" /\ ~bs_defrost

Tick ==
  /\ ~Due
  /\ edge_due' = TRUE
  /\ timer' = [h \in Heaters |-> IF Running(h) THEN timer[h] - 1 ELSE 0]
  /\ age' = [h \in Heaters |-> IF Running(h) THEN age[h] + 1 ELSE 0]
  /\ heat' = [h \in Heaters |-> IF Running(h) /\ bs_defrost THEN heat[h] + 1 ELSE heat[h]]
  /\ UNCHANGED <<main_system_enabled, bs_defrost, last, defrost_running,
                 run_defrost, cycle, sw_heater, settingVars, steady, manual,
                 served, session>>

Next ==
  \/ Reboot \/ OrderedRise \/ OrderedDrop
  \/ EdgeCheck \/ RunDefrostDone \/ Tick
  \/ MainOn \/ MainOff
  \/ \E h \in Heaters : \/ DelayOver(h) \/ WaitOver(h)
                        \/ HeaterOn(h) \/ HeaterOff(h)
                        \/ SetFloor(h) \/ SetCeiling(h)

Spec == Init /\ [][Next]_vars

\* The loop always gets to what is due, and the clock advances however often
\* commands arrive.  Nothing is assumed of commands, sensors or power.
Fairness ==
  /\ WF_vars(EdgeCheck) /\ WF_vars(RunDefrostDone) /\ SF_vars(Tick)
  /\ WF_vars(OrderedDrop /\ ~main_system_enabled)
  /\ \A h \in Heaters : WF_vars(DelayOver(h)) /\ WF_vars(WaitOver(h))

FairSpec == Spec /\ Fairness

-----------------------------------------------------------------------------
(* Properties.                                                             *)

Phases == {"idle", "floor", "follow"}

\* The most one start of a script can run: the floor is read when the delay
\* begins and both settings again when the wait begins.
Cap == MaxFloor + (MaxCeiling - MinFloor)

\* Every variable has its type; ages and timers never pass the longest cycle.
TypeOK ==
  /\ {main_system_enabled, bs_defrost, last, edge_due, defrost_running,
      run_defrost, served, session} \subseteq BOOLEAN
  /\ cycle \in [Heaters -> Phases] /\ timer \in [Heaters -> 0..Cap]
  /\ sw_heater \in [Heaters -> BOOLEAN]
  /\ time_floor \in [Heaters -> Floors] /\ time_ceiling \in [Heaters -> Ceilings]
  /\ age \in [Heaters -> 0..Cap] /\ heat \in [Heaters -> Nat]
  /\ steady \in [Heaters -> BOOLEAN] /\ manual \in [Heaters -> BOOLEAN]

\* While the main switch is off no script runs, the status flag is down and
\* a heater is on only if a person switched it on: nothing the firmware
\* started survives turn_off_action or starts behind it.
SafeWhenDisabled ==
  ~main_system_enabled =>
    /\ ~run_defrost /\ ~defrost_running /\ AllIdle
    /\ \A h \in Heaters : sw_heater[h] => manual[h]

\* A heater that no one switched on by hand is on only while its script
\* runs, so something will switch it off; and the parent script outlives its
\* nested scripts, with the status flag up exactly as long as it runs.
NoOrphanHeater ==
  /\ \A h \in Heaters : sw_heater[h] => Running(h) \/ manual[h]
  /\ (~AllIdle => run_defrost) /\ (defrost_running <=> run_defrost)

\* ADR-008, 2: the floor is part of the ceiling.  A script whose settings
\* were left alone has run no longer than its ceiling since its last start.
CeilingWhenSteady ==
  \A h \in Heaters : Running(h) /\ steady[h] => age[h] <= time_ceiling[h]

\* The ceiling guards a stuck condition: one uninterrupted demand, whatever
\* restarts and edges fall into it, heats no longer than one cycle and the
\* tick the edge trigger may take to see it.
StuckDemandBounded == \A h \in Heaters : heat[h] <= Cap + 1

Dropped(h) == sw_heater[h] /\ ~sw_heater'[h]

\* ADR-008, 1 and 7: a heater goes off before its floor only by a command of
\* a person or a restart of the board.
FloorHonoured ==
  [][\A h \in Heaters : Dropped(h) =>
       \/ age[h] >= (IF steady[h] THEN time_floor[h] ELSE MinFloor)
       \/ MainOff \/ HeaterOff(h) \/ Reboot]_vars

\* A cycle that is not retriggered ends, and the status flag with it.
CycleEnds == []<>(~defrost_running) \/ []<><<EdgeStart>>_vars

\* ADR-006: a demand the edge trigger has not sampled yet, as after a boot,
\* is served unless it or the main switch drops first.
FreshDemandServed ==
  (bs_defrost /\ ~last /\ main_system_enabled) ~> (served \/ ~bs_defrost \/ ~main_system_enabled)

\* ADR-008, 2, for any change of the settings on the way: one start of a
\* script never runs longer than the largest ceiling.
CeilingAlways == \A h \in Heaters : Running(h) => age[h] <= MaxCeiling

\* Each heater's script keeps the promise of a heating channel.
Promise == INSTANCE HeaterPromise WITH
  Channels <- Heaters, MinGuarantee <- MinFloor, Limit <- Cap,
  enabled <- main_system_enabled, phase <- cycle, run <- age

KeepsPromise == Promise!Spec
=============================================================================
