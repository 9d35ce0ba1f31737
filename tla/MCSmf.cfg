SPECIFICATION FairSpec
CONSTANTS
  N = 2
  MAX_CURRENT = 6
  Loads = {0, 2, 5}
  Priorities = {1, 2}
  MaxLine = 3
  MaxEvents = 2
CHECK_DEADLOCK FALSE
INVARIANT SilenceIsSafe
PROPERTY CulpritRose
PROPERTY Contained
