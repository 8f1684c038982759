SPECIFICATION Spec
CONSTANTS
  Files = {f1, f2}
  MaxExplicit = 1
  MaxSpare = 3
  MaxSignals = 2
  Commands <- MCCommands
  NodeOptions <- MCNodeOptions
SYMMETRY FileSymmetry
INVARIANTS
  ListIsExact
  ReportIsFresh
  OwnFilesWhenPrivate
  OptionsAreKept
  InstrumentationIsRight
  SignalsAreNotLost
  NothingIsLeftBehind
CHECK_DEADLOCK FALSE
