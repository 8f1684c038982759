SPECIFICATION SizingSpec
CONSTANTS
  Files <- MCFiles
  DefaultWeight = 2
  CachedWeights <- MCCachedWeights
  RequestedRunners <- MCRequestedRunners
  Bounds <- MCBounds
  Overheads <- MCOverheads
  Targets <- MCTargets
INVARIANTS
  ExactlyOnce
  NoIdleRunner
  NearOptimal
  SelectsWhatIsDocumented
  SplitIsAsSelected
CHECK_DEADLOCK FALSE
