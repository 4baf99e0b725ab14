CONSTANTS
  chassis = chassis
  drain = drain
  Heaters = {chassis}
  MinFloor = 1
  MaxFloor = 2
  MinCeiling = 3
  MaxCeiling = 3
SPECIFICATION Spec
INVARIANT CeilingAlways
