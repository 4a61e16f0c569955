\* Overlapping partitions, torn reads, failing statements and a crash.
CONSTANTS
  n1 = n1
  n2 = n2
  Node = {n1, n2}
  Event = {2, 3}
  Business = {"flight", "weather"}
  BusinessOf <- FaultsBusinessOf
  Registered = {"flight"}
  Muted = {}
  Fingerprint <- IdFingerprint
  PushTime <- OpenAtOnce
  ValidPushTime = 1
  IsTest = TRUE
  Closed = {3}
  Abroad = {}
  Views <- OverlapViews
  SqlFaults = {"select", "lock", "final"}
  MaxClaims <- SecondOnce
  MaxTime = 0
  MaxCrashes = 1
SPECIFICATION Spec
INVARIANTS
  TypeOK
  DuplicatesAccounted
  AckedStaysClosed
  StatusIsTrue
CHECK_DEADLOCK FALSE
