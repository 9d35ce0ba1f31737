SPECIFICATION Spec
CONSTANTS
  a1 = a1
  a2 = a2
  a3 = a3
  None = None
  Accs = {a1, a2, a3}
  Ids = {"id1"}
  BridgedTypes = {"outlet"}
  MaxModules = 1
  MaxFails = 1
  MaxExtras = 1
  MaxAid = 3
SYMMETRY Symmetric
CHECK_DEADLOCK FALSE
INVARIANT NoLeak
INVARIANT NumbersUnique
INVARIANT Complete
INVARIANT ListSound
