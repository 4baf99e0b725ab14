CONSTANTS
  chassis = chassis
  drain = drain
  Heaters = {chassis, drain}
  MinFloor = 1
  MaxFloor = 2
  MinCeiling = 3
  MaxCeiling = 3
SPECIFICATION FairSpec
INVARIANTS TypeOK SafeWhenDisabled NoOrphanHeater CeilingWhenSteady StuckDemandBounded
PROPERTIES KeepsPromise FloorHonoured CycleEnds FreshDemandServed
