SPECIFICATION TelemetrySpec
CONSTANTS
  k1 = k1
  k2 = k2
  Keys <- MCKeys
  Values <- MCValues
  MaxSubmits = 5
SYMMETRY Symmetry
INVARIANTS
  CountsAreConserved
  DistributionsAreConserved
CHECK_DEADLOCK FALSE
