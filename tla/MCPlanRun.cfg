SPECIFICATION Spec
CONSTANTS
  Files <- MCFiles
  Weight <- MCWeight
  DefaultWeight = 2
  MaxRunners = 3
  CINodeWorkers = 2
  Setups = {"local", "ci"}
  MaxPlans = 2
  MaxFaults = 1
  MaxReadErrors = 1
  Absent = Absent
  Empty = Empty
INVARIANTS
  CINodesRunThePlan
  SequentialSurvivesCrash
  WaitsForAllWorkers
PROPERTIES
  KeepsPromise
CHECK_DEADLOCK FALSE
