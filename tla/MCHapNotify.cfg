SPECIFICATION FairSpec
CONSTANTS
  Conns = {s, t}
  Chars = {c, d}
  None = None
  NumSlots = 2
  MaxNotif = 2
  LoopLen = 1
  MaxReports = 3
  MaxRequests = 3
CHECK_DEADLOCK FALSE
INVARIANT Delivered
INVARIANT MarksOwned
INVARIANT AnnouncedOnce
PROPERTY Informed
