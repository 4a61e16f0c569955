\* Overlapping partitions while a node joins: is the status column a lock?
CONSTANTS
  n1 = n1
  n2 = n2
  Node = {n1, n2}
  Event = {2}
  Business = {"flight"}
  BusinessOf <- FlightOnly
  Registered = {"flight"}
  Muted = {}
  Fingerprint <- IdFingerprint
  PushTime <- OpenAtOnce
  ValidPushTime = 1
  IsTest = FALSE
  Closed = {}
  Abroad = {}
  Views <- OverlapViews
  SqlFaults = {}
  MaxClaims <- Twice
  MaxTime = 1
  MaxCrashes = 0
SPECIFICATION Spec
INVARIANT LockHolds
CHECK_DEADLOCK FALSE
