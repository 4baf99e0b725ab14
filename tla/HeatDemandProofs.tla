-------------------------- MODULE HeatDemandProofs --------------------------
(***************************************************************************)
(* Proofs about HeatDemand for any temperatures, any sensors beside T1 and *)
(* T2 and any threshold ranges.  The inductive invariant says that every   *)
(* "(used)" sensor holds what its source holds; with it a rise of the      *)
(* demand can be traced to two readings of one mode.                       *)
(***************************************************************************)
EXTENDS HeatDemand, TLAPS

\* HEAT_MODE is published on only while its latch is set.
LatchSet == bs_heat_mode => heat

IInv == TypeOK /\ UsedMirrorsSource /\ LatchSet

\* A push leaves every "(used)" sensor equal to its source, if only the
\* source of the pushed sensor changed.
LEMMA PushMirrors ==
  ASSUME UsedMirrorsSource, TypeOK, NEW s \in Sensors, Push(s),
         \A r \in Sensors \ {s} : Source(r)' = Source(r)
  PROVE  UsedMirrorsSource'
  BY DEF UsedMirrorsSource, TypeOK, Push

LEMMA PushAllMirrors == ASSUME PushAll PROVE UsedMirrorsSource'
  BY DEF UsedMirrorsSource, PushAll

LEMMA InitInv == Init => IInv
  BY DEF Init, IInv, LatchSet, TypeOK, UsedMirrorsSource, Source, Readings

LEMMA TypeStep == IInv /\ [Next]_vars => TypeOK'
  <1> SUFFICES ASSUME IInv, [Next]_vars PROVE TypeOK'
    OBVIOUS
  <1> USE DEF IInv, TypeOK, sensing, states
  \* What a push publishes is a reading whenever the sources are typed.
  <1>1. ASSUME raw' \in [Sensors -> Readings], sim' \in [Sensors -> Temps],
               NEW s \in Sensors
        PROVE  Source(s)' \in Readings
    BY <1>1 DEF Source, Readings
  <1>2. CASE Reboot
    BY <1>1, <1>2 DEF Reboot, PushAll, Readings, Source
  <1>3. CASE SimSwitch
    BY <1>1, <1>3 DEF SimSwitch, ForcedUpdate, PushAll
  <1>4. ASSUME NEW s \in Sensors, RawRead(s) PROVE TypeOK'
    BY <1>1, <1>4 DEF RawRead, Push
  <1>5. ASSUME NEW s \in Sensors, SetSim(s) PROVE TypeOK'
    BY <1>1, <1>5 DEF SetSim, Push
  <1>6. CASE MainSwitch \/ SetThreshold \/ UNCHANGED vars
    BY <1>6 DEF MainSwitch, SetThreshold, vars
  <1>7. CASE LoopPass
    <2>1. heat' \in BOOLEAN /\ bs_heat_mode' \in BOOLEAN
      BY <1>7 DEF LoopPass, EvalHeatMode, Latched
    <2>2. bs_defrost' \in BOOLEAN
      BY <1>7 DEF LoopPass, EvalDefrost, Unpublished, Ordered, AbsOk, DtOk
    <2>3. QED
      BY <1>7, <2>1, <2>2 DEF LoopPass
  <1>8. QED
    BY <1>2, <1>3, <1>4, <1>5, <1>6, <1>7 DEF Next

LEMMA MirrorStep == IInv /\ [Next]_vars => UsedMirrorsSource'
  <1> SUFFICES ASSUME IInv, [Next]_vars PROVE UsedMirrorsSource'
    OBVIOUS
  <1> USE DEF IInv
  <1>1. CASE Reboot
    BY <1>1, PushAllMirrors DEF Reboot
  <1>2. CASE SimSwitch
    BY <1>2, PushAllMirrors DEF SimSwitch, ForcedUpdate
  <1>3. ASSUME NEW s \in Sensors, RawRead(s) PROVE UsedMirrorsSource'
    BY <1>3, PushMirrors DEF RawRead, Source, TypeOK
  <1>4. ASSUME NEW s \in Sensors, SetSim(s) PROVE UsedMirrorsSource'
    BY <1>4, PushMirrors DEF SetSim, Source, TypeOK
  <1>5. CASE MainSwitch \/ SetThreshold \/ LoopPass \/ UNCHANGED vars
    BY <1>5 DEF MainSwitch, SetThreshold, LoopPass, sensing, vars,
                UsedMirrorsSource, Source
  <1>6. QED
    BY <1>1, <1>2, <1>3, <1>4, <1>5 DEF Next

LEMMA LatchStep == IInv /\ [Next]_vars => LatchSet'
  BY DEF IInv, LatchSet, Next, Reboot, SimSwitch, MainSwitch, SetThreshold, RawRead,
         SetSim, LoopPass, EvalHeatMode, states, vars

\* All conjuncts hold of every reachable state.
THEOREM InductiveInvariant == Spec => []IInv
  <1>1. IInv /\ [Next]_vars => IInv'
    BY TypeStep, MirrorStep, LatchStep DEF IInv
  <1>2. QED
    BY InitInv, <1>1, PTL DEF Spec

\* The control logic never sees a stale value or one of the other mode.
THEOREM UsedIsCurrent == Spec => []UsedMirrorsSource
  BY InductiveInvariant, PTL DEF IInv

-----------------------------------------------------------------------------
\* The published states change in a loop pass and at a reboot only.
LEMMA StatesStep ==
  ASSUME [Next]_vars, ~LoopPass, ~Reboot
  PROVE  UNCHANGED states
  BY DEF Next, SimSwitch, MainSwitch, SetThreshold, RawRead, SetSim, states, vars

\* A demand begins on two valid readings of the mode in force.
THEOREM DemandIsJustified == Spec => DemandJustified
  <1> DEFINE Grounds ==
        /\ main_system_enabled /\ bs_heat_mode'
        /\ {Source(outside), Source(gas_inlet)} \subseteq Temps
        /\ Source(gas_inlet) >= th.def_abs
        /\ Source(gas_inlet) - Source(outside) >= th.def_dt
  <1>1. ASSUME IInv, [Next]_vars, ~bs_defrost, bs_defrost' PROVE Grounds
    <2>1. LoopPass
      BY <1>1, StatesStep DEF states, Reboot
    <2>2. /\ main_system_enabled /\ T1 # NaN /\ T2 # NaN
          /\ T2 >= th.def_abs /\ T2 - T1 >= th.def_dt /\ bs_heat_mode'
      BY <1>1, <2>1 DEF LoopPass, EvalDefrost, Unpublished, Disabled, Ordered, AbsOk, DtOk
    <2>3. /\ T1 = Source(outside) /\ T2 = Source(gas_inlet)
          /\ T1 \in Readings /\ T2 \in Readings
      BY <1>1 DEF IInv, UsedMirrorsSource, TypeOK, Sensors, T1, T2
    <2>4. QED
      BY <2>2, <2>3 DEF Readings
  <1>2. IInv /\ [Next]_vars => [~bs_defrost /\ bs_defrost' => Grounds]_vars
    BY <1>1
  <1>3. QED
    BY InductiveInvariant, <1>2, PTL DEF Spec, DemandJustified

\* A standing demand on a pass without HEAT_MODE has a dead sensor behind it.
THEOREM DeadSensorBehindHeldDemand == Spec => OnlyDeadSensorHoldsDemand
  <1>1. LoopPass /\ bs_defrost' /\ ~bs_heat_mode' => ~Known
    BY DEF LoopPass, EvalHeatMode, EvalDefrost, Disabled, Ordered, AbsOk, DtOk, Known
  <1>2. QED
    BY <1>1, PTL DEF Spec, OnlyDeadSensorHoldsDemand

\* HEAT_MODE falls at the upper threshold and rises at the lower one.
THEOREM HeatModeKeepsBand == Spec => HeatModeBand
  <1> DEFINE Falls == ~main_system_enabled \/ Reboot \/ T1 >= th.heat_off
             Rises == heat \/ T1 <= th.heat_on
  <1>1. ASSUME IInv, [Next]_vars
        PROVE  /\ bs_heat_mode /\ ~bs_heat_mode' => Falls
               /\ ~bs_heat_mode /\ bs_heat_mode' => Rises
    <2>1. CASE LoopPass
      <3>1. T1 # NaN => T1 \in Int
        BY <1>1, SensorAssumption DEF IInv, TypeOK, T1, Readings, Sensors
      <3>2. th.heat_on \in Int /\ th.heat_off \in Int
        BY <1>1, SensorAssumption DEF IInv, TypeOK, Settings
      <3>3. CASE main_system_enabled /\ T1 # NaN
        <4>1. bs_heat_mode' <=> Latched
          BY <2>1, <3>3 DEF LoopPass, EvalHeatMode
        <4>2. bs_heat_mode /\ ~bs_heat_mode' => ~(T1 < th.heat_off)
          BY <1>1, <4>1 DEF Latched, IInv, LatchSet
        <4>3. bs_heat_mode' => heat \/ T1 <= th.heat_on
          BY <4>1 DEF Latched
        <4>4. QED
          BY <3>1, <3>2, <3>3, <4>2, <4>3
      <3>4. CASE ~main_system_enabled \/ T1 = NaN
        BY <2>1, <3>4 DEF LoopPass, EvalHeatMode
      <3>5. QED
        BY <3>3, <3>4
    <2>2. CASE Reboot
      BY <2>2 DEF Reboot
    <2>3. CASE ~LoopPass /\ ~Reboot
      BY <1>1, <2>3, StatesStep DEF states
    <2>4. QED
      BY <2>1, <2>2, <2>3
  <1>2. IInv /\ [Next]_vars =>
          [/\ bs_heat_mode /\ ~bs_heat_mode' => Falls
           /\ ~bs_heat_mode /\ bs_heat_mode' => Rises]_vars
    BY <1>1
  <1>3. QED
    BY InductiveInvariant, <1>2, PTL DEF Spec, HeatModeBand
=============================================================================
