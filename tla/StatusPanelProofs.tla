-------------------------- MODULE StatusPanelProofs --------------------------
(***************************************************************************)
(* AlarmsAreTrue and TextsFollow hold for any sensors, checks, periods and *)
(* heaters. Each follows from an inductive invariant of its own: the first *)
(* knows how the counter of the filter relates to the outage, the second   *)
(* that no error can appear before the binary sensors are first published. *)
(***************************************************************************)
EXTENDS StatusPanel, TLAPS

-----------------------------------------------------------------------------
(* False alarms.                                                           *)

\* Below the filter's length the counter is the length of the outage; later it
\* may wrap, and the flag stays because nothing but a sample with Wi-Fi clears it.
AlarmInv ==
  /\ uptime \in Nat /\ outage \in 0..WifiFilter
  /\ sound \subseteq Sensors
  /\ err \intersect sound = {}
  /\ outage < WifiFilter => wifi_lost = outage /\ "wifi" \notin err
  /\ outage = WifiFilter => "wifi" \in err

\* At boot nothing is reported and no sample has missed the network.
LEMMA AlarmInit == Init => AlarmInv
  BY PanelAssumption DEF Init, AlarmInv

\* A check reports only sensors that hold NaN after the grace, and those are no
\* longer counted as sound.
LEMMA CheckedAreUnsound ==
  ASSUME uptime \in Nat, Second
  PROVE  /\ uptime' \in Nat
         /\ sound' \subseteq sound
         /\ (Checked \intersect nan) \intersect sound' = {}
<1> uptime' \in Nat
  <2> ClockSize \in Nat \ {0}
    BY PanelAssumption
  <2> (uptime + 1) % ClockSize \in Nat
    OBVIOUS
  <2> QED
    BY DEF Second
<1>1. CASE uptime' >= Grace
  <2> uptime' > FirstReading
    BY <1>1, PanelAssumption
  <2> sound' = sound \ nan
    BY DEF Second
  <2> QED
    OBVIOUS
<1>2. CASE ~(uptime' >= Grace)
  <2> Checked = {}
    BY <1>2 DEF Checked
  <2> sound' \subseteq sound
    BY DEF Second
  <2> QED
    OBVIOUS
<1> QED
  BY <1>1, <1>2

\* The filter's half of a second.
LEMMA FilterStep ==
  ASSUME AlarmInv, Second
  PROVE  /\ outage' \in 0..WifiFilter
         /\ outage' < WifiFilter => wifi_lost' = outage' /\ "wifi" \notin WifiFlag
         /\ outage' = WifiFilter => "wifi" \in WifiFlag
<1> /\ WifiFilter \in Nat \ {0} /\ CounterSize \in Nat /\ CounterSize > WifiFilter
    /\ outage \in 0..WifiFilter
  BY PanelAssumption DEF AlarmInv
<1> outage' = Outage /\ wifi_lost' = IF wifi THEN 0 ELSE (wifi_lost + 1) % CounterSize
  BY DEF Second
<1>1. CASE wifi
  BY <1>1 DEF Outage, WifiFlag
<1>2. CASE ~wifi /\ outage = WifiFilter
  <2> outage' = WifiFilter /\ "wifi" \in err
    BY <1>2 DEF Outage, AlarmInv
  <2> QED
    BY <1>2 DEF WifiFlag
<1>3. CASE ~wifi /\ outage < WifiFilter
  <2>1. wifi_lost = outage /\ "wifi" \notin err
    BY <1>3 DEF AlarmInv
  <2>2. wifi_lost' = outage + 1
    <3> (outage + 1) % CounterSize = outage + 1
      BY <1>3
    <3> QED
      BY <1>3, <2>1
  <2>3. outage' = outage + 1
    BY <1>3 DEF Outage
  <2> QED
    BY <1>3, <2>1, <2>2, <2>3 DEF WifiFlag
<1> QED
  BY <1>1, <1>2, <1>3

LEMMA AlarmStep == AlarmInv /\ [Next]_vars => AlarmInv'
<1> SUFFICES ASSUME AlarmInv, [Next]_vars PROVE AlarmInv'
  OBVIOUS
<1> USE DEF AlarmInv
<1>1. CASE Second
  <2>1. err' = WifiFlag \union ((err \ Checked) \intersect Sensors) \union (Checked \intersect nan)
    BY <1>1 DEF Second
  <2>2. WifiFlag \subseteq {"wifi"}
    BY DEF WifiFlag
  <2>3. "wifi" \notin Sensors
    BY PanelAssumption
  <2>4. Checked \subseteq Sensors
    BY DEF Checked, Sensors
  <2>5. err' \intersect sound' = {}
    BY <1>1, <2>1, <2>2, <2>3, CheckedAreUnsound
  <2>6. "wifi" \in err' <=> "wifi" \in WifiFlag
    BY <2>1, <2>3, <2>4
  <2> QED
    BY <1>1, <2>5, <2>6, CheckedAreUnsound, FilterStep
<1>2. ASSUME NEW s \in Sensors, Reading(s) PROVE AlarmInv'
  <2> sound' \subseteq sound /\ UNCHANGED <<uptime, err, wifi_lost, outage>>
    BY <1>2 DEF Reading, clock, flags
  <2> QED
    OBVIOUS
<1>3. CASE ErrLed \/ WdLed
  BY <1>3 DEF ErrLed, WdLed, clock, flags, sensing
<1>4. CASE Pass
  BY <1>4 DEF Pass, clock, flags, sensing
<1>5. CASE MainOn \/ MainOff \/ WifiChange
  BY <1>5 DEF MainOn, MainOff, WifiChange, clock, flags, sensing
<1>6. ASSUME NEW h \in Heaters, TurnHeater(h) PROVE AlarmInv'
  BY <1>6 DEF TurnHeater, clock, flags, sensing
<1>7. CASE UNCHANGED vars
  BY <1>7 DEF vars, clock, flags, sensing
<1> QED
  BY <1>1, <1>2, <1>3, <1>4, <1>5, <1>6, <1>7 DEF Next

LEMMA AlarmInvHolds == Spec => []AlarmInv
  BY AlarmInit, AlarmStep, PTL DEF Spec

\* No false alarm, whatever the periods, the phases of the checks, the turns of
\* the clock and of the filter's counter (YAML 872-981).
THEOREM NoFalseAlarm == Spec => []AlarmsAreTrue
<1>1. AlarmInv => AlarmsAreTrue
  BY PanelAssumption DEF AlarmInv, AlarmsAreTrue
<1> QED
  BY <1>1, AlarmInvHolds, PTL

-----------------------------------------------------------------------------
(* Published texts.                                                        *)

\* Errors are detected only in seconds that follow a pass, so the first value of
\* the binary sensors, which triggers nothing, reports no error.
TextInv ==
  /\ bins = {} => err = {} /\ error_text = {} /\ "pass" \notin ran
  /\ bins # {} => \E b : bins = {b} /\ (error_text = {b} \/ (error_text = {} /\ b = {}))
  /\ "pass" \in ran => bins = {err}
  /\ state_text = StateText(main_on, heaters, heat_mode) \/ missed

LEMMA TextInit == Init => TextInv
  BY DEF Init, TextInv

\* HEAT_MODE without a value and HEAT_MODE off give the same state.
LEMMA UnknownIsOff ==
  ASSUME NEW main, NEW on
  PROVE  StateText(main, on, "unknown") = StateText(main, on, "off")
  BY DEF StateText

LEMMA PublishedInPass ==
  ASSUME TextInv, PublishHeatMode
  PROVE  state_text' = StateText(main_on', heaters', heat_mode') \/ missed'
<1>1. CASE Triggers(heat_mode, heat_mode')
  BY <1>1 DEF PublishHeatMode, RefreshState
<1>2. CASE ~Triggers(heat_mode, heat_mode')
  <2>1. state_text' = state_text /\ main_on' = main_on /\ heaters' = heaters
    BY <1>2 DEF PublishHeatMode, system
  <2>2. heat_mode' = heat_mode \/ heat_mode = "unknown"
    BY <1>2 DEF Triggers
  <2>3. missed' = (missed \/ (heat_mode = "unknown" /\ heat_mode' = "on"))
    BY <1>2 DEF PublishHeatMode
  <2>4. heat_mode' \in {heat_mode, "on", "off"}
    <3> HeatModes \subseteq {heat_mode, "on", "off"}
      BY DEF HeatModes
    <3> QED
      BY DEF PublishHeatMode
  <2> QED
    BY <2>1, <2>2, <2>3, <2>4, UnknownIsOff DEF TextInv
<1> QED
  BY <1>1, <1>2

LEMMA TextStep == TextInv /\ [Next]_vars => TextInv'
<1> SUFFICES ASSUME TextInv, [Next]_vars PROVE TextInv'
  OBVIOUS
<1>1. CASE Second
  BY <1>1 DEF Second, TextInv, panel, system
<1>2. CASE ErrLed
  BY <1>2 DEF ErrLed, TextInv, panel, flags, system
<1>3. CASE WdLed
  BY <1>3 DEF WdLed, TextInv, panel, flags, system
<1>4. CASE Pass
  <2>1. bins' = {err} /\ err' = err
    BY <1>4 DEF Pass, flags
  <2>2. error_text' = {err} \/ (error_text' = {} /\ err = {})
    <3>1. CASE bins = {}
      BY <1>4, <3>1 DEF Pass, ErrorText, TextInv
    <3>2. CASE bins # {} /\ bins # {err}
      BY <1>4, <3>2 DEF Pass, ErrorText
    <3>3. CASE bins = {err}
      <4> error_text' = error_text
        BY <1>4, <3>3 DEF Pass, ErrorText
      <4> PICK b : bins = {b} /\ (error_text = {b} \/ (error_text = {} /\ b = {}))
        BY <3>3 DEF TextInv
      <4> b = err
        BY <3>3
      <4> QED
        OBVIOUS
    <3> QED
      BY <3>1, <3>2, <3>3
  <2>3. state_text' = StateText(main_on', heaters', heat_mode') \/ missed'
    BY <1>4, PublishedInPass DEF Pass
  <2> QED
    BY <2>1, <2>2, <2>3 DEF TextInv
<1>5. CASE MainOn \/ MainOff
  BY <1>5 DEF MainOn, MainOff, RefreshState, TextInv, flags
<1>6. ASSUME NEW h \in Heaters, TurnHeater(h) PROVE TextInv'
  BY <1>6 DEF TurnHeater, RefreshState, TextInv, flags
<1>7. CASE WifiChange
  BY <1>7 DEF WifiChange, TextInv, flags, panel, system
<1>8. ASSUME NEW s \in Sensors, Reading(s) PROVE TextInv'
  BY <1>8 DEF Reading, TextInv, flags, panel, system
<1>9. CASE UNCHANGED vars
  BY <1>9 DEF vars, TextInv, flags, panel, system
<1> QED
  BY <1>1, <1>2, <1>3, <1>4, <1>5, <1>6, <1>7, <1>8, <1>9 DEF Next

\* The error text and the system state text are never older than a pass of the
\* loop, but for the two exceptions TextsFollow names (YAML 378-502, 540-598).
THEOREM TextsAreCurrent == Spec => []TextsFollow
<1>1. TextInv => TextsFollow
  <2> SUFFICES ASSUME TextInv, "pass" \in ran
               PROVE  error_text = {err} \/ (error_text = {} /\ err = {})
    BY DEF TextInv, TextsFollow
  <2> PICK b : bins = {b} /\ (error_text = {b} \/ (error_text = {} /\ b = {}))
    BY DEF TextInv
  <2> b = err
    BY DEF TextInv
  <2> QED
    OBVIOUS
<1> QED
  BY <1>1, TextInit, TextStep, PTL DEF Spec
=============================================================================
