SPECIFICATION FairSpec
CONSTANTS
  History = 4
  LogLimit = 2
  MaxPacks = 2
INVARIANTS
  PacksAreRemoved
  SuccessMeansAccepted
PROPERTIES
  OnlyMissingIsPacked
  UploadEnds
CHECK_DEADLOCK FALSE
