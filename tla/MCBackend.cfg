SPECIFICATION FairSpec
CONSTANTS
  Pages = 3
  Calls = 2
  MaxRetries = 3
  MaxReset = 300
  Resets <- MCResets
INVARIANTS
  CompleteOrNothing
  NoStaleResponse
  WaitIsBounded
PROPERTIES
  CallEnds
CHECK_DEADLOCK FALSE
