----------------------------- MODULE StatusPanel -----------------------------
(***************************************************************************)
(* What the firmware reports: error detection (the filtered loss of Wi-Fi, *)
(* the checks of the sensors), the binary sensors and the text made of it, *)
(* the system state text, and the selectors of the ERR and the WD LED.     *)
(*                                                                         *)
(* Intervals raise flags and select patterns; binary sensors are evaluated *)
(* by the loop and publish only what has changed; the texts are refreshed  *)
(* by events only. Time passes in seconds; millis() wraps at ClockSize and *)
(* the counter of the Wi-Fi filter at CounterSize. Temperatures, the       *)
(* heaters' scripts and the main switch are the environment (HeatDemand,   *)
(* DefrostCycle). Nothing but the main switch survives a restart, and Init *)
(* takes either value of it: a restart is a new behaviour.                 *)
(***************************************************************************)
EXTENDS Naturals, FiniteSets

CONSTANTS
  Heaters,
  Checks,                       (* the sensors of each validity check       *)
  T1,                           (* the sensor HEAT_MODE reads               *)
  WifiFilter, CounterSize,      (* 300 s and 2^32 in the code               *)
  CheckPeriod, Grace,           (* 20 s and 10 s                            *)
  FirstReading,                 (* a sensor that works has been read by then *)
  ClockSize                     (* seconds until millis() wraps             *)

Sensors == UNION Checks
Errors == {"wifi"} \union Sensors

\* The grace covers the first readings, and between two wraps of the clock
\* every check is made at least once.
ASSUME PanelAssumption ==
  /\ "wifi" \notin Sensors /\ T1 \in Sensors
  /\ {WifiFilter, CheckPeriod} \subseteq Nat \ {0} /\ FirstReading \in Nat
  /\ CounterSize \in Nat /\ CounterSize > WifiFilter
  /\ Grace \in Nat /\ FirstReading < Grace
  /\ ClockSize \in Nat /\ ClockSize >= Grace + CheckPeriod

VARIABLES
  uptime, check,                (* millis(); time to the next run of a check *)
  ran,                          (* what has run in this second              *)
  wifi, wifi_lost,              (* connected; wifi_lost_duration_sec        *)
  nan,                          (* "(used)" sensors that hold NaN           *)
  err,                          (* the flags err_wifi_lost, err_t1, ...     *)
  bins, error_text,             (* what is published: {} nothing, {e} is e  *)
  err_led,                      (* active patterns of the ERR LED           *)
  main_on, heaters, heat_mode,  (* the switches, and the binary sensor      *)
  state_text, wd_led

\* History, read by properties only.
VARIABLES
  outage,                       (* samples in a row without Wi-Fi           *)
  sound,                        (* sensors read in time and never NaN since *)
  missed                        (* HEAT_MODE was first published as on      *)

clock   == <<uptime, check>>
system  == <<main_on, heaters>>
panel   == <<bins, error_text, state_text, heat_mode, missed>>
leds    == <<err_led, wd_led>>
sensing == <<wifi, nan, sound>>
flags   == <<err, wifi_lost, outage>>
vars == <<clock, ran, sensing, flags, panel, leds, system>>

\* The lambda of sensor_system_state.
StateText(main, on, heat) ==
  CASE ~main -> "OFF"
    [] main /\ on # {} -> "Heater ON"
    [] main /\ on = {} /\ heat = "on" -> "ARMED"
    [] main /\ on = {} /\ heat # "on" -> "IDLE"

\* setup and on_boot: the "(used)" sensors hold NaN but where a simulated value
\* was restored, and the system state is written before HEAT_MODE is known.
Init ==
  /\ uptime = 0 /\ check \in [Checks -> 0..CheckPeriod - 1] /\ ran = {}
  /\ wifi \in BOOLEAN /\ wifi_lost = 0
  /\ nan \in SUBSET Sensors
  /\ err = {} /\ bins = {} /\ error_text = {} /\ err_led = {}
  /\ main_on \in BOOLEAN /\ heaters = {} /\ heat_mode = "unknown"
  /\ state_text = StateText(main_on, {}, "unknown") /\ wd_led = {}
  /\ outage = 0 /\ sound = Sensors /\ missed = FALSE

RefreshState ==
  /\ state_text' = StateText(main_on', heaters', heat_mode')
  /\ missed' = FALSE

-----------------------------------------------------------------------------
(* The intervals of one second and more.                                   *)

\* The sensors whose check runs now.
CheckedEarly == UNION {g \in Checks : check[g] = 0}     \* mutant: no grace
Checked == IF uptime' >= Grace THEN UNION {g \in Checks : check[g] = 0} ELSE {}

CheckTimers ==
  check' = [g \in Checks |-> IF check[g] = 0 THEN CheckPeriod - 1 ELSE check[g] - 1]

\* The flag is set by the counter and cleared by one connected sample.
WifiFlag ==
  IF wifi THEN {}
  ELSE IF wifi_lost' >= WifiFilter THEN {"wifi"} ELSE err \intersect {"wifi"}

Outage == IF wifi THEN 0 ELSE IF outage = WifiFilter THEN outage ELSE outage + 1

Second ==
  /\ ran = {"pass", "err_led", "wd_led"} /\ ran' = {}
  /\ uptime' = (uptime + 1) % ClockSize
  /\ CheckTimers
  /\ wifi_lost' = IF wifi THEN 0 ELSE (wifi_lost + 1) % CounterSize
  /\ err' = WifiFlag \union ((err \ Checked) \intersect Sensors) \union (Checked \intersect nan)
  /\ outage' = Outage
  /\ sound' = IF uptime' > FirstReading THEN sound \ nan ELSE sound
  /\ UNCHANGED <<wifi, nan, panel, leds, system>>

-----------------------------------------------------------------------------
(* The LED selectors, twice a second and in any phase.                     *)

ErrLed ==
  /\ err_led' = err
  /\ ran' = ran \union {"err_led"}
  /\ UNCHANGED <<clock, sensing, flags, panel, wd_led, system>>

Patterns ==
  {p \in {"wd_disabled", "wd_defrost", "wd_armed", "wd_idle"} :
     CASE p = "wd_disabled" -> ~main_on
       [] p = "wd_defrost"  -> main_on /\ heaters # {}
       [] p = "wd_armed"    -> main_on /\ heaters = {} /\ heat_mode = "on"
       [] p = "wd_idle"     -> main_on /\ heaters = {} /\ heat_mode # "on"}

\* mutant: patterns are switched on and never off
WdLedAdds ==
  /\ wd_led' = wd_led \union Patterns
  /\ ran' = ran \union {"wd_led"}
  /\ UNCHANGED <<clock, sensing, flags, panel, err_led, system>>

WdLed ==
  /\ wd_led' = Patterns
  /\ ran' = ran \union {"wd_led"}
  /\ UNCHANGED <<clock, sensing, flags, panel, err_led, system>>

-----------------------------------------------------------------------------
(* A loop pass: the binary sensors are evaluated.                          *)

\* What HEAT_MODE may be published as; nothing while T1 is NaN.
HeatModes ==
  CASE ~main_on -> {"off"}
    [] main_on /\ T1 \in nan -> {heat_mode}
    [] main_on /\ T1 \notin nan -> {"on", "off"}

\* The first publication of a binary sensor triggers no on_state.
Triggers(old, new) == old # "unknown" /\ new # old

PublishHeatMode ==
  /\ heat_mode' \in HeatModes /\ UNCHANGED system
  /\ IF Triggers(heat_mode, heat_mode') THEN RefreshState
     ELSE /\ missed' = (missed \/ (heat_mode = "unknown" /\ heat_mode' = "on"))
          /\ UNCHANGED state_text

\* mutant: the text is refreshed when an error appears only
TextOnNewErrors ==
  error_text' = IF bins # {} /\ ~(\E b \in bins : err \subseteq b) THEN {err} ELSE error_text

ErrorText == error_text' = IF bins # {} /\ bins # {err} THEN {err} ELSE error_text

Pass ==
  /\ PublishHeatMode
  /\ bins' = {err} /\ ErrorText
  /\ ran' = ran \union {"pass"}
  /\ UNCHANGED <<clock, sensing, flags, leds>>

-----------------------------------------------------------------------------
(* The environment.                                                        *)

MainOn ==
  /\ main_on' = TRUE /\ UNCHANGED <<heaters, heat_mode>>
  /\ RefreshState
  /\ UNCHANGED <<clock, ran, sensing, flags, bins, error_text, leds>>

MainOff ==
  /\ main_on' = FALSE /\ heaters' = {} /\ UNCHANGED heat_mode
  /\ RefreshState
  /\ UNCHANGED <<clock, ran, sensing, flags, bins, error_text, leds>>

\* on_turn_on and on_turn_off; a command that changes nothing triggers nothing.
TurnHeater(h) ==
  /\ heaters' \in {heaters \union {h}, heaters \ {h}} \ {heaters}
  /\ UNCHANGED <<main_on, heat_mode>>
  /\ RefreshState
  /\ UNCHANGED <<clock, ran, sensing, flags, bins, error_text, leds>>

Reading(s) ==
  /\ nan' \in {nan \union {s}, nan \ {s}} \ {nan}
  /\ sound' = IF s \in nan' THEN sound \ {s} ELSE sound
  /\ UNCHANGED <<clock, ran, wifi, flags, panel, leds, system>>

WifiChange ==
  /\ wifi' = ~wifi
  /\ UNCHANGED <<clock, ran, nan, sound, flags, panel, leds, system>>

Next ==
  \/ Second \/ ErrLed \/ WdLed \/ Pass
  \/ MainOn \/ MainOff \/ WifiChange
  \/ \E h \in Heaters : TurnHeater(h)
  \/ \E s \in Sensors : Reading(s)

\* The loop goes on, and with it time and every interval.
Spec == /\ Init /\ [][Next]_vars
        /\ WF_vars(Second) /\ WF_vars(Pass) /\ WF_vars(ErrLed) /\ WF_vars(WdLed)

-----------------------------------------------------------------------------
(* Properties.                                                             *)

\* No false alarm: a sensor that was first read in time and never failed is
\* never reported, whenever its check first runs after boot or after a wrap of
\* the clock; and the loss of Wi-Fi is reported if and only if every one of the
\* last WifiFilter samples missed it, however long the outage.
AlarmsAreTrue ==
  /\ err \intersect sound = {}
  /\ "wifi" \in err <=> outage = WifiFilter

\* Nothing published lags behind by more than a pass of the loop. Two
\* exceptions: the error text has no value before the first error, and the system
\* state stays "IDLE" when HEAT_MODE is on at its first publication after boot.
TextsFollow ==
  /\ "pass" \in ran => /\ bins = {err}
                       /\ error_text = {err} \/ (error_text = {} /\ err = {})
  /\ state_text = StateText(main_on, heaters, heat_mode) \/ missed

\* A sensor failure or a loss of Wi-Fi that lasts lights its code, and the WD LED
\* shows one pattern, that of the state, as soon as the state lasts.
PanelFollows ==
  /\ \A e \in Sensors : e \in nan ~> e \notin nan \/ e \in err_led
  /\ ~wifi ~> wifi \/ "wifi" \in err_led
  /\ Patterns = {"wd_defrost"} ~> Patterns # {"wd_defrost"} \/ wd_led = {"wd_defrost"}
=============================================================================
