SPECIFICATION FairSpec
CONSTANTS
  History = 4
  LogLimit = 2
  MaxPacks = 2
INVARIANT
  UploadDoesNotCrash
CHECK_DEADLOCK FALSE
