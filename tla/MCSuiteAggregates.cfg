SPECIFICATION AggregatesSpec
CONSTANTS
  s1 = s1
  s2 = s2
  f1 = f1
  f2 = f2
  none = none
  Suites <- MCSuites
  Files <- MCFiles
  NoFile = none
  Modes <- MCModes
  Medians <- MCMedians
  Millisecond = 10
  Second = 10000
  MaxTests = 3
SYMMETRY Symmetry
INVARIANTS
  PlanRunsWhatIsLeft
  MarkedFilesRun
  SavedTimeIsConsistent
CHECK_DEADLOCK FALSE
