SPECIFICATION FairSpec
CONSTANTS
  Socks = {s1, s2}
  Addrs = {a1, a2}
  None = None
  NumEntries = 1
  BufUnits = 2
  Sizes = {2}
  FrameUnits = 2
  ReplyFrames = {2}
  MaxConns = 3
  MaxRequests = 1
  MaxEvents = 1
  MaxFails = 1
CHECK_DEADLOCK FALSE
INVARIANT OwnBytes
INVARIANT Understandable
INVARIANT ClearIsEnding
PROPERTY InvalidEnds
