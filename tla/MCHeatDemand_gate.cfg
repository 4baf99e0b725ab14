CONSTANTS
  outside = outside
  gas_inlet = gas_inlet
  OtherSensors = {}
  Temps <- MCTemps
  NaN = NaN
  HeatOnRange = {2}
  HeatOffRange = {1, 4}
  AbsRange = {5}
  DtRange = {7, 10}
SPECIFICATION Spec
PROPERTY FreezeGate
