\* Two nodes, moving partitions, failing statements, a crash.
CONSTANTS
  n1 = n1
  n2 = n2
  Node = {n1, n2}
  Order = {2}
  Events = 2
  Detail <- TwoGood
  Fingerprint <- IdFingerprint
  IntRange = 8
  Views <- MovingViews
  SqlFaults = {"event", "restore"}
  MaxTime = 2
  MaxCrashes = 1
SPECIFICATION Spec
INVARIANTS
  TypeOK
  PoolFollows
CHECK_DEADLOCK FALSE
