SPECIFICATION FairSpec
CONSTANTS
  Mods = {a, b}
  Objs = {o1, o2, o3}
  None = None
  EventQ = 1
  MaxPlugs = 2
  MaxGarbles = 1
  MaxBoots = 1
  MaxLate = 1
  MaxFaults = 2
CHECK_DEADLOCK FALSE
INVARIANT AccessorySound
INVARIANT CacheValidSinceStart
PROPERTY Converges
