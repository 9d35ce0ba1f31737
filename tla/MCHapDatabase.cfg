SPECIFICATION FairSpec
CONSTANTS
  CfgMax = 6
  StateMax = 2
  EventQ = 2
  Versions = {1, 2}
  MaxCrashes = 2
  MaxFails = 1
  MaxOps = 2
CHECK_DEADLOCK FALSE
INVARIANT IdentityKept
INVARIANT FirmwareNumbered
INVARIANT AnnouncedIsTrue
PROPERTY ResetRestarts
