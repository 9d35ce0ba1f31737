SPECIFICATION FairSpec
CONSTANTS
  None = None
  Retries = 3
  Trials = 2
  MaxEvents = 5
CHECK_DEADLOCK FALSE
PROPERTY FollowsNetwork
PROPERTY ResetDone
