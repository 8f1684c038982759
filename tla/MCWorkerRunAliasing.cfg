SPECIFICATION Spec
CONSTANTS
  Files = {f1, f2}
  MaxExplicit = 1
  MaxSpare = 3
  MaxSignals = 2
  Commands <- MCCommands
  NodeOptions <- MCNodeOptions

SYMMETRY FileSymmetry
INVARIANTS
  OwnFiles
CHECK_DEADLOCK FALSE
