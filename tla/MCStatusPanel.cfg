CONSTANTS
  Heaters = {h1}
  Checks <- MCChecks
  T1 = "t1"
  WifiFilter = 2
  CounterSize = 3
  CheckPeriod = 2
  Grace = 2
  FirstReading = 1
  ClockSize = 4
SPECIFICATION Spec
INVARIANTS AlarmsAreTrue TextsFollow
PROPERTY PanelFollows
