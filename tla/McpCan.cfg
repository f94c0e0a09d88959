CONSTANTS
  Speed = 47620
  Timeout = 2
  Slow = {2}
  MaxAsked = 4
  MaxUnlock = 3
  MaxArrived = 3
  MaxTotal = 5
SPECIFICATION FairSpec
INVARIANTS
  NothingVanishes
PROPERTIES
  IsCanLink
  FramesGetThrough
CHECK_DEADLOCK FALSE
