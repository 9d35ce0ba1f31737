SPECIFICATION Spec
CONSTANTS
  IntBits = 8
  Db <- MCDb
  Address <- MCAddress
  Documents <- MCDocuments
  Preparations <- MCPreparations
  OutBuf = 7
  AccBuf = 11
  MaxEvents = 3
CHECK_DEADLOCK FALSE
INVARIANT Reported
INVARIANT WriteExact
INVARIANT TimedOnly
INVARIANT Served
