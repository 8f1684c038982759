SPECIFICATION FairSpec
CONSTANTS
  Levels <- MCLevels
  InitializeOutcomes <- MCOutcomes
INVARIANTS
  CancellationLosesNoSkips
  SuiteSkipsDoNotDependOnTheRace
  StrictBlamesOnlyRealFailures
PROPERTY
  CancelledPlanningEnds
CHECK_DEADLOCK FALSE
