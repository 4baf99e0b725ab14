------------------------- MODULE DefrostCycleProofs -------------------------
(***************************************************************************)
(* Proofs about DefrostCycle, for any set of heaters and any ranges of the *)
(* settings that do not overlap.  IInv is the inductive invariant: the     *)
(* types, the control state of the scripts, what age and timer of a script *)
(* add up to, and how much more the current demand can heat.               *)
(***************************************************************************)
EXTENDS DefrostCycle, TLAPS

Types ==
  /\ main_system_enabled \in BOOLEAN /\ bs_defrost \in BOOLEAN
  /\ last \in BOOLEAN /\ edge_due \in BOOLEAN
  /\ defrost_running \in BOOLEAN /\ run_defrost \in BOOLEAN
  /\ served \in BOOLEAN /\ session \in BOOLEAN
  /\ cycle \in [Heaters -> Phases] /\ timer \in [Heaters -> Nat]
  /\ sw_heater \in [Heaters -> BOOLEAN]
  /\ time_floor \in [Heaters -> Floors] /\ time_ceiling \in [Heaters -> Ceilings]
  /\ age \in [Heaters -> Nat] /\ heat \in [Heaters -> Nat]
  /\ steady \in [Heaters -> BOOLEAN] /\ manual \in [Heaters -> BOOLEAN]

\* Which scripts run, and who holds the heaters.
Control ==
  /\ ~main_system_enabled => ~run_defrost
  /\ defrost_running <=> run_defrost
  /\ \A h \in Heaters : Running(h) => run_defrost
  /\ \A h \in Heaters : sw_heater[h] => Running(h) \/ manual[h]

\* age + timer is the length of the phase sequence a script is in.
Timing(h) ==
  /\ cycle[h] = "idle" => timer[h] = 0 /\ age[h] = 0
  /\ cycle[h] = "floor" =>
       /\ MinFloor <= age[h] + timer[h] /\ age[h] + timer[h] <= MaxFloor
       /\ steady[h] => age[h] + timer[h] = time_floor[h]
  /\ cycle[h] = "follow" =>
       /\ MinFloor <= age[h] /\ age[h] + timer[h] <= Cap
       /\ timer[h] <= MaxCeiling - MinFloor
       /\ steady[h] => age[h] + timer[h] = time_ceiling[h] /\ time_floor[h] <= age[h]

\* The ticks a script has left if the demand stays.
Remaining(h) ==
  IF cycle[h] = "idle" THEN 0
  ELSE IF cycle[h] = "floor" THEN timer[h] + (MaxCeiling - MinFloor) ELSE timer[h]

\* A demand the edge trigger has sampled can only use up what is left of the
\* cycle; before that at most one tick passes.
Budget(h) ==
  /\ bs_defrost /\ ~last => heat[h] <= 1 /\ (~edge_due => heat[h] = 0)
  /\ bs_defrost /\ last => heat[h] + Remaining(h) <= Cap + 1
  /\ ~bs_defrost => heat[h] = 0

IInv == Types /\ Control /\ \A h \in Heaters : Timing(h) /\ Budget(h)

-----------------------------------------------------------------------------
\* The settings ranges as the provers use them.
LEMMA Ranges ==
  /\ MinFloor \in Nat /\ MaxFloor \in Nat /\ MinCeiling \in Nat /\ MaxCeiling \in Nat
  /\ 1 <= MinFloor /\ MinFloor <= MaxFloor /\ MaxFloor < MinCeiling /\ MinCeiling <= MaxCeiling
  /\ Cap \in Nat /\ MaxFloor <= Cap /\ MaxCeiling <= Cap
  BY SettingsAssumption DEF Cap

\* The timeout of the wait is what the ceiling leaves after the floor.
LEMMA WaitTimeoutValue ==
  ASSUME Types, NEW h \in Heaters
  PROVE  /\ WaitTimeout(h) \in Nat
         /\ WaitTimeout(h) = time_ceiling[h] - time_floor[h]
         /\ WaitTimeout(h) <= MaxCeiling - MinFloor
  BY Ranges DEF Types, WaitTimeout, Floors, Ceilings

LEMMA InitInv == Init => IInv
  <1> SUFFICES ASSUME Init PROVE IInv
    OBVIOUS
  <1>1. Types
    BY DEF Init, Types, Each, Phases
  <1>2. Control
    BY DEF Init, Control, Each, Running
  <1>3. ASSUME NEW h \in Heaters PROVE Timing(h) /\ Budget(h)
    BY DEF Init, Timing, Budget, Each
  <1>4. QED
    BY <1>1, <1>2, <1>3 DEF IInv

LEMMA TypesStep == IInv /\ [Next]_vars => Types'
  <1> SUFFICES ASSUME IInv, [Next]_vars PROVE Types'
    OBVIOUS
  <1> USE DEF IInv, Types, Phases, Each, history, cycleVars, settingVars
  <1>1. CASE Reboot
    BY <1>1 DEF Reboot
  <1>2. CASE OrderedRise
    BY <1>2 DEF OrderedRise
  <1>3. CASE OrderedDrop
    BY <1>3 DEF OrderedDrop
  <1>4. CASE EdgeCheck
    <2>1. CASE RunDefrost
      <3>1. timer' \in [Heaters -> Nat]
        BY <2>1, Ranges DEF RunDefrost, FloorDelay, Floors
      <3>2. QED
        BY <1>4, <2>1, <3>1 DEF EdgeCheck, RunDefrost, FloorDelay
    <2>2. CASE UNCHANGED <<cycleVars, sw_heater, history>>
      BY <1>4, <2>2 DEF EdgeCheck
    <2>3. QED
      BY <1>4, <2>1, <2>2 DEF EdgeCheck
  <1>5. CASE RunDefrostDone
    BY <1>5 DEF RunDefrostDone
  <1>6. CASE Tick
    <2>1. \A h \in Heaters : Running(h) => timer[h] - 1 \in Nat
      BY <1>6 DEF Tick, Due
    <2>2. QED
      BY <1>6, <2>1 DEF Tick
  <1>7. CASE MainOn
    BY <1>7 DEF MainOn
  <1>8. CASE MainOff
    BY <1>8 DEF MainOff, StopScripts, HeatersOff
  <1>9. ASSUME NEW h \in Heaters, DelayOver(h) PROVE Types'
    <2>1. CASE CloseCycle(h)
      BY <1>9, <2>1 DEF DelayOver, CloseCycle
    <2>2. CASE ~CloseCycle(h)
      BY <1>9, <2>2, WaitTimeoutValue DEF DelayOver
    <2>3. QED
      BY <2>1, <2>2
  <1>10. ASSUME NEW h \in Heaters, WaitOver(h) PROVE Types'
    BY <1>10 DEF WaitOver, WaitEnds, CloseCycle
  <1>11. ASSUME NEW h \in Heaters, HeaterOn(h) \/ HeaterOff(h) PROVE Types'
    BY <1>11 DEF HeaterOn, HeaterOff
  <1>12. ASSUME NEW h \in Heaters, SetFloor(h) \/ SetCeiling(h) PROVE Types'
    BY <1>12 DEF SetFloor, SetCeiling
  <1>13. CASE UNCHANGED vars
    BY <1>13 DEF vars
  <1>14. QED
    BY <1>1, <1>2, <1>3, <1>4, <1>5, <1>6, <1>7, <1>8, <1>9, <1>10, <1>11,
       <1>12, <1>13 DEF Next
LEMMA ControlStep == IInv /\ [Next]_vars => Control'
  <1> SUFFICES ASSUME IInv, [Next]_vars PROVE Control'
    OBVIOUS
  <1> USE DEF IInv, Types, Control, Each, history, cycleVars, settingVars, Running
  <1>1. CASE Reboot
    BY <1>1 DEF Reboot
  <1>2. CASE OrderedRise
    BY <1>2 DEF OrderedRise
  <1>3. CASE OrderedDrop
    BY <1>3 DEF OrderedDrop
  <1>4. CASE EdgeCheck
    <2>1. CASE MayStart /\ RunDefrost
      BY <1>4, <2>1 DEF EdgeCheck, MayStart, RunDefrost, FloorDelay
    <2>2. CASE UNCHANGED <<cycleVars, sw_heater, history>>
      BY <1>4, <2>2 DEF EdgeCheck
    <2>3. QED
      BY <1>4, <2>1, <2>2 DEF EdgeCheck
  <1>5. CASE RunDefrostDone
    BY <1>5 DEF RunDefrostDone, AllIdle
  <1>6. CASE Tick
    BY <1>6 DEF Tick
  <1>7. CASE MainOn
    BY <1>7 DEF MainOn
  <1>8. CASE MainOff
    BY <1>8 DEF MainOff, StopScripts, HeatersOff
  <1>9. ASSUME NEW h \in Heaters, DelayOver(h) PROVE Control'
    <2>1. CASE CloseCycle(h)
      BY <1>9, <2>1 DEF DelayOver, CloseCycle
    <2>2. CASE ~CloseCycle(h)
      BY <1>9, <2>2 DEF DelayOver
    <2>3. QED
      BY <2>1, <2>2
  <1>10. ASSUME NEW h \in Heaters, WaitOver(h) PROVE Control'
    BY <1>10 DEF WaitOver, WaitEnds, CloseCycle
  <1>11. ASSUME NEW h \in Heaters, HeaterOn(h) \/ HeaterOff(h) PROVE Control'
    BY <1>11 DEF HeaterOn, HeaterOff
  <1>12. ASSUME NEW h \in Heaters, SetFloor(h) \/ SetCeiling(h) PROVE Control'
    BY <1>12 DEF SetFloor, SetCeiling
  <1>13. CASE UNCHANGED vars
    BY <1>13 DEF vars
  <1>14. QED
    BY <1>1, <1>2, <1>3, <1>4, <1>5, <1>6, <1>7, <1>8, <1>9, <1>10, <1>11,
       <1>12, <1>13 DEF Next

LEMMA TimingStep == IInv /\ [Next]_vars => \A k \in Heaters : Timing(k)'
  <1> SUFFICES ASSUME IInv, [Next]_vars, NEW k \in Heaters PROVE Timing(k)'
    OBVIOUS
  <1> USE DEF IInv, Types, Timing, Each, history, cycleVars, settingVars
  <1>0. Timing(k)
    OBVIOUS
  \* A step that leaves the script of k alone, and at most ends its steadiness.
  <1>1. ASSUME cycle'[k] = cycle[k], timer'[k] = timer[k], age'[k] = age[k],
               steady'[k] => steady[k] /\ time_floor'[k] = time_floor[k]
                                       /\ time_ceiling'[k] = time_ceiling[k]
        PROVE  Timing(k)'
    BY <1>0, <1>1
  <1>2. CASE Reboot \/ MainOff
    BY <1>2 DEF Reboot, MainOff, StopScripts, HeatersOff
  <1>3. CASE EdgeCheck
    <2>1. CASE RunDefrost
      <3>1. time_floor[k] \in MinFloor..MaxFloor /\ time_floor' = time_floor
        BY <1>3 DEF EdgeCheck, Floors
      <3>2. QED
        BY <2>1, <3>1, Ranges DEF RunDefrost, FloorDelay
    <2>2. CASE UNCHANGED <<cycleVars, sw_heater, history>>
      BY <1>1, <1>3, <2>2 DEF EdgeCheck
    <2>3. QED
      BY <1>3, <2>1, <2>2 DEF EdgeCheck
  <1>4. CASE Tick
    <2>1. CASE cycle[k] = "idle"
      BY <1>4, <2>1 DEF Tick, Running
    <2>2. CASE cycle[k] # "idle"
      <3>1. timer[k] # 0
        BY <1>4, <2>2 DEF Tick, Due, Running
      <3>2. timer'[k] = timer[k] - 1 /\ age'[k] = age[k] + 1 /\ cycle' = cycle
        BY <1>4, <2>2 DEF Tick, Running
      <3>3. steady' = steady /\ time_floor' = time_floor /\ time_ceiling' = time_ceiling
        BY <1>4 DEF Tick
      <3>4. QED
        BY <1>0, <3>1, <3>2, <3>3, Ranges DEF Floors
    <2>3. QED
      BY <2>1, <2>2
  <1>5. ASSUME NEW h \in Heaters, CloseCycle(h), UNCHANGED settingVars PROVE Timing(k)'
    <2>1. CASE h = k
      BY <1>5, <2>1 DEF CloseCycle
    <2>2. CASE h # k
      BY <1>1, <1>5, <2>2 DEF CloseCycle
    <2>3. QED
      BY <2>1, <2>2
  <1>6. ASSUME NEW h \in Heaters, DelayOver(h) PROVE Timing(k)'
    <2>1. CASE CloseCycle(h)
      BY <1>5, <1>6, <2>1 DEF DelayOver
    <2>2. CASE ~CloseCycle(h) /\ h # k
      BY <1>1, <1>6, <2>2 DEF DelayOver
    <2>3. CASE ~CloseCycle(h) /\ h = k
      <3>1. /\ cycle[k] = "floor" /\ timer[k] = 0 /\ cycle'[k] = "follow"
            /\ timer'[k] = WaitTimeout(k) /\ age' = age /\ steady' = steady
            /\ time_floor' = time_floor /\ time_ceiling' = time_ceiling
        BY <1>6, <2>3 DEF DelayOver
      <3>2. /\ MinFloor <= age[k] /\ age[k] <= MaxFloor
            /\ steady[k] => age[k] = time_floor[k]
        BY <1>0, <3>1
      <3>3. time_ceiling[k] \in MinCeiling..MaxCeiling /\ time_floor[k] \in MinFloor..MaxFloor
        BY DEF Floors, Ceilings
      <3>4. QED
        BY <3>1, <3>2, <3>3, WaitTimeoutValue, Ranges DEF Cap
    <2>4. QED
      BY <2>1, <2>2, <2>3
  <1>7. ASSUME NEW h \in Heaters, WaitOver(h) PROVE Timing(k)'
    BY <1>5, <1>7 DEF WaitOver, WaitEnds
  <1>8. ASSUME NEW h \in Heaters, HeaterOn(h) \/ HeaterOff(h) PROVE Timing(k)'
    BY <1>1, <1>8 DEF HeaterOn, HeaterOff
  <1>9. ASSUME NEW h \in Heaters, SetFloor(h) \/ SetCeiling(h) PROVE Timing(k)'
    BY <1>1, <1>9 DEF SetFloor, SetCeiling
  <1>10. CASE OrderedRise \/ OrderedDrop \/ RunDefrostDone \/ MainOn \/ UNCHANGED vars
    BY <1>1, <1>10 DEF OrderedRise, OrderedDrop, RunDefrostDone, MainOn, vars
  <1>11. QED
    BY <1>2, <1>3, <1>4, <1>6, <1>7, <1>8, <1>9, <1>10 DEF Next
LEMMA BudgetStep == IInv /\ [Next]_vars => \A k \in Heaters : Budget(k)'
  <1> SUFFICES ASSUME IInv, [Next]_vars, NEW k \in Heaters PROVE Budget(k)'
    OBVIOUS
  <1> USE DEF IInv, Types, Each, history, cycleVars, settingVars
  <1>0. /\ Budget(k) /\ Timing(k) /\ timer[k] \in Nat /\ heat[k] \in Nat
        /\ cycle[k] \in {"idle", "floor", "follow"}
    BY DEF Phases
  \* A step that adds nothing to what the demand has used or may still use.
  <1>1. ASSUME bs_defrost' = bs_defrost, last' = last, edge_due' = edge_due,
               heat'[k] = heat[k], Remaining(k)' \in Nat,
               Remaining(k)' <= Remaining(k)
        PROVE  Budget(k)'
    <2>1. Remaining(k) \in Nat
      BY <1>0, Ranges DEF Remaining
    <2>2. QED
      BY <1>0, <1>1, <2>1, Ranges DEF Budget
  <1>2. Remaining(k) \in Nat
    BY <1>0, Ranges DEF Remaining
  <1>3. CASE Reboot \/ OrderedDrop
    BY <1>3 DEF Reboot, OrderedDrop, Budget
  <1>4. CASE OrderedRise
    <2>1. Remaining(k)' = Remaining(k) /\ Remaining(k) <= Cap
      BY <1>0, <1>4, Ranges DEF OrderedRise, Remaining, Timing, Cap
    <2>2. QED
      BY <1>2, <1>4, <2>1, Ranges DEF OrderedRise, Budget
  <1>5. CASE EdgeCheck
    <2>1. CASE MayStart /\ RunDefrost
      <3>1. bs_defrost' /\ last' /\ heat'[k] = heat[k] /\ heat[k] <= 1
        BY <1>0, <1>5, <2>1 DEF EdgeCheck, MayStart, RunDefrost, FloorDelay, Rising, Budget
      <3>2. Remaining(k)' = time_floor[k] + (MaxCeiling - MinFloor)
        BY <2>1 DEF RunDefrost, FloorDelay, Remaining
      <3>3. time_floor[k] \in MinFloor..MaxFloor
        BY DEF Floors
      <3>4. QED
        BY <1>0, <3>1, <3>2, <3>3, Ranges DEF Budget, Cap
    <2>2. CASE ~Rising /\ UNCHANGED <<cycleVars, sw_heater, history>>
      <3>1. Remaining(k)' = Remaining(k) /\ heat' = heat /\ last' = bs_defrost
                /\ bs_defrost' = bs_defrost
        BY <1>5, <2>2 DEF EdgeCheck, Remaining
      <3>2. QED
        BY <1>0, <2>2, <3>1 DEF Budget, Rising
    <2>3. CASE ~main_system_enabled /\ UNCHANGED <<cycleVars, sw_heater, history>>
      <3>1. Remaining(k)' = 0 /\ Remaining(k) = 0
        BY <1>5, <2>3 DEF Control, Remaining, Running
      <3>2. heat' = heat /\ last' = bs_defrost /\ bs_defrost' = bs_defrost
        BY <1>5, <2>3 DEF EdgeCheck
      <3>3. QED
        BY <1>0, <3>1, <3>2, Ranges DEF Budget
    <2>4. QED
      BY <1>5, <2>1, <2>2, <2>3 DEF EdgeCheck, MayStart
  <1>6. CASE Tick
    <2>1. ~edge_due /\ edge_due' /\ last' = last /\ bs_defrost' = bs_defrost /\ cycle' = cycle
      BY <1>6 DEF Tick, Due
    <2>2. CASE cycle[k] = "idle"
      <3>1. heat'[k] = heat[k] /\ Remaining(k)' = 0 /\ Remaining(k) = 0
        BY <1>6, <2>1, <2>2 DEF Tick, Running, Remaining
      <3>2. QED
        BY <1>0, <2>1, <3>1, Ranges DEF Budget
    <2>3. CASE cycle[k] # "idle"
      <3>1. timer[k] # 0 /\ timer'[k] = timer[k] - 1
        BY <1>6, <2>3 DEF Tick, Due, Running
      <3>2. Remaining(k)' = Remaining(k) - 1
        BY <1>0, <2>1, <2>3, <3>1, Ranges DEF Remaining
      <3>3. heat'[k] = IF bs_defrost THEN heat[k] + 1 ELSE heat[k]
        BY <1>6, <2>3 DEF Tick, Running
      <3>4. QED
        BY <1>0, <1>2, <2>1, <3>2, <3>3, Ranges DEF Budget
    <2>4. QED
      BY <2>2, <2>3
  <1>7. ASSUME NEW h \in Heaters, CloseCycle(h),
               UNCHANGED <<bs_defrost, last, edge_due, heat>>
        PROVE  Budget(k)'
    <2>1. CASE h = k
      <3>1. Remaining(k)' = 0
        BY <1>7, <2>1 DEF CloseCycle, Remaining
      <3>2. QED
        BY <1>1, <1>2, <1>7, <3>1
    <2>2. CASE h # k
      <3>1. Remaining(k)' = Remaining(k)
        BY <1>7, <2>2 DEF CloseCycle, Remaining
      <3>2. QED
        BY <1>1, <1>2, <1>7, <3>1
    <2>3. QED
      BY <2>1, <2>2
  <1>8. ASSUME NEW h \in Heaters, DelayOver(h) PROVE Budget(k)'
    <2>1. CASE CloseCycle(h)
      BY <1>7, <1>8, <2>1 DEF DelayOver
    <2>2. CASE ~CloseCycle(h) /\ h # k
      <3>1. Remaining(k)' = Remaining(k)
        BY <1>8, <2>2 DEF DelayOver, Remaining
      <3>2. QED
        BY <1>1, <1>2, <1>8, <3>1 DEF DelayOver
    <2>3. CASE ~CloseCycle(h) /\ h = k
      <3>1. Remaining(k)' = WaitTimeout(k)
        BY <1>8, <2>3 DEF DelayOver, Remaining
      <3>2. Remaining(k) = MaxCeiling - MinFloor
        BY <1>0, <1>8, <2>3, Ranges DEF DelayOver, Remaining
      <3>3. WaitTimeout(k) \in Nat /\ WaitTimeout(k) <= MaxCeiling - MinFloor
        BY WaitTimeoutValue
      <3>4. QED
        BY <1>1, <1>8, <3>1, <3>2, <3>3 DEF DelayOver
    <2>4. QED
      BY <2>1, <2>2, <2>3
  <1>9. ASSUME NEW h \in Heaters, WaitOver(h) PROVE Budget(k)'
    BY <1>7, <1>9 DEF WaitOver, WaitEnds
  <1>10. CASE MainOff
    <2>1. Remaining(k)' = 0
      BY <1>10 DEF MainOff, StopScripts, HeatersOff, Remaining
    <2>2. QED
      BY <1>1, <1>2, <1>10, <2>1 DEF MainOff, StopScripts, HeatersOff
  <1>11. ASSUME cycle' = cycle, timer' = timer, UNCHANGED <<bs_defrost, last, edge_due, heat>>
         PROVE  Budget(k)'
    <2>1. Remaining(k)' = Remaining(k)
      BY <1>11 DEF Remaining
    <2>2. QED
      BY <1>1, <1>2, <1>11, <2>1
  <1>12. ASSUME NEW h \in Heaters,
                HeaterOn(h) \/ HeaterOff(h) \/ SetFloor(h) \/ SetCeiling(h)
         PROVE  Budget(k)'
    BY <1>11, <1>12 DEF HeaterOn, HeaterOff, SetFloor, SetCeiling
  <1>13. CASE RunDefrostDone \/ MainOn \/ UNCHANGED vars
    BY <1>11, <1>13 DEF RunDefrostDone, MainOn, vars
  <1>14. QED
    BY <1>3, <1>4, <1>5, <1>6, <1>8, <1>9, <1>10, <1>12, <1>13 DEF Next

-----------------------------------------------------------------------------
\* IInv holds of every reachable state.
THEOREM InductiveInvariant == Spec => []IInv
  <1>1. IInv /\ [Next]_vars => IInv'
    <2> SUFFICES ASSUME IInv, [Next]_vars PROVE IInv'
      OBVIOUS
    <2>1. Types' /\ Control'
      BY TypesStep, ControlStep
    <2>2. \A h \in Heaters : Timing(h)' /\ Budget(h)'
      BY TimingStep, BudgetStep
    <2>3. QED
      BY <2>1, <2>2 DEF IInv
  <1>2. QED
    BY InitInv, <1>1, PTL DEF Spec

\* The type invariant, with the bounds of the ages and the timers.
THEOREM TypeCorrect == Spec => []TypeOK
  <1>1. IInv => TypeOK
    <2> SUFFICES ASSUME IInv PROVE TypeOK
      OBVIOUS
    <2>1. \A h \in Heaters : age[h] \in 0..Cap /\ timer[h] \in 0..Cap
      <3> SUFFICES ASSUME NEW h \in Heaters
                   PROVE  age[h] \in 0..Cap /\ timer[h] \in 0..Cap
        OBVIOUS
      <3>1. /\ age[h] \in Nat /\ timer[h] \in Nat /\ Timing(h)
            /\ cycle[h] \in {"idle", "floor", "follow"}
        BY DEF IInv, Types, Phases
      <3>2. QED
        BY <3>1, Ranges DEF Timing
    <2>2. age \in [Heaters -> 0..Cap] /\ timer \in [Heaters -> 0..Cap]
      BY <2>1 DEF IInv, Types
    <2>3. QED
      BY <2>2 DEF IInv, Types, TypeOK
  <1>2. QED
    BY InductiveInvariant, <1>1, PTL

\* Nothing the firmware started is left while the main switch is off.
THEOREM DisabledIsSafe == Spec => []SafeWhenDisabled
  <1>1. IInv => SafeWhenDisabled
    BY DEF IInv, Control, SafeWhenDisabled, AllIdle, Running
  <1>2. QED
    BY InductiveInvariant, <1>1, PTL

\* A heater that is on has a running script or a person behind it.
THEOREM NoHeaterOrphaned == Spec => []NoOrphanHeater
  <1>1. IInv => NoOrphanHeater
    BY DEF IInv, Control, NoOrphanHeater, AllIdle, Running
  <1>2. QED
    BY InductiveInvariant, <1>1, PTL

\* With settings left alone the ceiling bounds every start of a script.
THEOREM SteadyCeiling == Spec => []CeilingWhenSteady
  <1>1. IInv => CeilingWhenSteady
    <2> SUFFICES ASSUME IInv, NEW h \in Heaters, Running(h), steady[h]
                 PROVE  age[h] <= time_ceiling[h]
      BY DEF CeilingWhenSteady
    <2>1. /\ Timing(h) /\ cycle[h] \in {"floor", "follow"}
          /\ age[h] \in Nat /\ timer[h] \in Nat
          /\ time_floor[h] \in MinFloor..MaxFloor
          /\ time_ceiling[h] \in MinCeiling..MaxCeiling
      BY DEF IInv, Types, Phases, Running, Floors, Ceilings
    <2>2. QED
      BY <2>1, Ranges DEF Timing
  <1>2. QED
    BY InductiveInvariant, <1>1, PTL

\* A stuck demand heats for one cycle and one tick, never more.
THEOREM StuckDemand == Spec => []StuckDemandBounded
  <1>1. IInv => StuckDemandBounded
    <2> SUFFICES ASSUME IInv, NEW h \in Heaters PROVE heat[h] <= Cap + 1
      BY DEF StuckDemandBounded
    <2>1. /\ Budget(h) /\ heat[h] \in Nat /\ timer[h] \in Nat
          /\ bs_defrost \in BOOLEAN /\ last \in BOOLEAN
      BY DEF IInv, Types
    <2>2. Remaining(h) \in Nat
      BY <2>1, Ranges DEF Remaining
    <2>3. QED
      BY <2>1, <2>2, Ranges DEF Budget
  <1>2. QED
    BY InductiveInvariant, <1>1, PTL

-----------------------------------------------------------------------------
\* A script that is about to close its cycle has kept its floor.
LEMMA FloorKept ==
  ASSUME IInv, NEW h \in Heaters,
         \/ cycle[h] = "follow"
         \/ cycle[h] = "floor" /\ timer[h] = 0
  PROVE  MinFloor <= age[h] /\ (steady[h] => time_floor[h] <= age[h])
  <1>1. /\ Timing(h) /\ age[h] \in Nat
        /\ time_floor[h] \in MinFloor..MaxFloor
    BY DEF IInv, Types, Floors
  <1>2. QED
    BY <1>1, Ranges DEF Timing

\* The floor of a heater is cut short by a command or a reboot only.
THEOREM FloorIsHonoured == Spec => FloorHonoured
  <1> DEFINE Kept(h) == age[h] >= (IF steady[h] THEN time_floor[h] ELSE MinFloor)
             Cut(h)  == MainOff \/ HeaterOff(h) \/ Reboot
  <1>1. ASSUME IInv, [Next]_vars, NEW k \in Heaters, Dropped(k)
        PROVE  Kept(k) \/ Cut(k)
    <2> USE DEF Dropped
    <2>1. CASE sw_heater' = sw_heater
      BY <1>1, <2>1
    <2>2. CASE EdgeCheck
      BY <1>1, <2>2 DEF EdgeCheck, RunDefrost, FloorDelay, Each, cycleVars
    <2>3. ASSUME NEW h \in Heaters, DelayOver(h) PROVE Kept(k)
      BY <1>1, <2>3, FloorKept DEF DelayOver, CloseCycle, IInv, Types
    <2>4. ASSUME NEW h \in Heaters, WaitOver(h) PROVE Kept(k)
      BY <1>1, <2>4, FloorKept DEF WaitOver, WaitEnds, CloseCycle, IInv, Types
    <2>5. ASSUME NEW h \in Heaters, HeaterOn(h) \/ HeaterOff(h) PROVE Cut(k)
      BY <1>1, <2>5 DEF HeaterOn, HeaterOff, IInv, Types
    <2>6. CASE \/ OrderedRise \/ OrderedDrop \/ RunDefrostDone \/ Tick \/ MainOn
               \/ UNCHANGED vars \/ \E h \in Heaters : SetFloor(h) \/ SetCeiling(h)
      BY <2>1, <2>6 DEF OrderedRise, OrderedDrop, RunDefrostDone, Tick, MainOn,
                        SetFloor, SetCeiling, vars
    <2>7. QED
      BY <1>1, <2>2, <2>3, <2>4, <2>5, <2>6 DEF Next
  <1>2. IInv /\ [Next]_vars =>
          [\A h \in Heaters : Dropped(h) =>
             \/ age[h] >= (IF steady[h] THEN time_floor[h] ELSE MinFloor)
             \/ MainOff \/ HeaterOff(h) \/ Reboot]_vars
    BY <1>1
  <1>3. QED
    BY InductiveInvariant, <1>2, PTL DEF Spec, FloorHonoured

\* The scripts implement the promise of a heating channel.
THEOREM PromiseKept == Spec => KeepsPromise
  <1> USE DEF Promise!On
  <1>1. Init => Promise!Init
    BY DEF Init, Promise!Init, Each
  <1>2. IInv /\ [Next]_vars => [Promise!Next]_(Promise!vars)
    <2> SUFFICES ASSUME IInv, [Next]_vars
                 PROVE  [Promise!Next]_(Promise!vars)
      OBVIOUS
    <2> USE DEF Promise!Next, Promise!vars, Each, history, cycleVars, settingVars
    <2>1. CASE Reboot
      BY <2>1 DEF Reboot, Promise!NewSession, Promise!AllOff, IInv, Types
    <2>2. CASE EdgeCheck
      BY <2>2 DEF EdgeCheck, MayStart, RunDefrost, FloorDelay, Promise!Start
    <2>3. CASE MainOff
      BY <2>3 DEF MainOff, StopScripts, HeatersOff, Promise!Disable, Promise!AllOff
    <2>4. CASE MainOn
      BY <2>4 DEF MainOn, Promise!Enable, IInv, Types
    <2>5. CASE Tick
      <3>1. ASSUME NEW h \in Heaters, cycle[h] # "idle" PROVE age[h] < Cap
        <4>1. /\ timer[h] # 0 /\ timer[h] \in Nat /\ age[h] \in Nat /\ Timing(h)
              /\ cycle[h] \in {"floor", "follow"}
          BY <2>5, <3>1 DEF Tick, Due, Running, IInv, Types, Phases
        <4>2. QED
          BY <4>1, Ranges DEF Timing
      <3>2. QED
        BY <2>5, <3>1 DEF Tick, Running, Promise!Elapse
    <2>6. ASSUME NEW h \in Heaters, CloseCycle(h), cycle[h] # "idle",
                 MinFloor <= age[h], UNCHANGED <<main_system_enabled, session>>
          PROVE  Promise!Stop(h)
      BY <2>6 DEF CloseCycle, Promise!Stop, IInv, Types
    <2>7. ASSUME NEW h \in Heaters, DelayOver(h) PROVE Promise!Follow(h) \/ Promise!Stop(h)
      <3>1. cycle[h] = "floor" /\ MinFloor <= age[h]
        BY <2>7, FloorKept DEF DelayOver
      <3>2. CASE CloseCycle(h)
        BY <2>6, <2>7, <3>1, <3>2 DEF DelayOver
      <3>3. CASE ~CloseCycle(h)
        BY <2>7, <3>1, <3>3 DEF DelayOver, Promise!Follow, IInv, Types
      <3>4. QED
        BY <3>2, <3>3
    <2>8. ASSUME NEW h \in Heaters, WaitOver(h) PROVE Promise!Stop(h)
      BY <2>6, <2>8, FloorKept DEF WaitOver, WaitEnds
    <2>9. CASE \/ OrderedRise \/ OrderedDrop \/ RunDefrostDone \/ UNCHANGED vars
               \/ \E h \in Heaters : HeaterOn(h) \/ HeaterOff(h) \/ SetFloor(h) \/ SetCeiling(h)
      BY <2>9 DEF OrderedRise, OrderedDrop, RunDefrostDone, HeaterOn, HeaterOff,
                  SetFloor, SetCeiling, vars
    <2>10. QED
      BY <2>1, <2>2, <2>3, <2>4, <2>5, <2>7, <2>8, <2>9 DEF Next
  <1>3. QED
    BY InductiveInvariant, <1>1, <1>2, PTL DEF Spec, KeepsPromise, Promise!Spec
=============================================================================
