SPECIFICATION Spec
CONSTANTS
  NumSlots = 2
  NumSessions = 1
  MaxAttempts = 2
  Ids = {a, b}
  Socks = {s1, s2}
  NoId = NoId
  NoSock = NoSock
  MaxFails = 1
  MaxBoots = 1
  MaxAgain = 1
  MaxStrays = 1
SYMMETRY Symmetry
INVARIANT SetupSound
INVARIANT TablesSound
PROPERTY NoOverwrite
PROPERTY ImplementsStore
