SPECIFICATION FairSpec
CONSTANTS
  Pushers = {loop, p, q}
  Loop = loop
  Cells = {c1, c2, c3}
  Null = Null
  MaxMsgs = 3
CHECK_DEADLOCK FALSE
INVARIANT Fifo
INVARIANT PopSafe
PROPERTY Drains
