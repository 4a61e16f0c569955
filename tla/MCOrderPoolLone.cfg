\* One node: what its own rounds, restarts and failures can lose.
CONSTANTS
  n1 = n1
  n2 = n2
  Node = {n1}
  Order = {2, 6}
  Events = 2
  Detail <- Mixed
  Fingerprint <- IdFingerprint
  IntRange = 8
  Views <- LoneViews
  SqlFaults = {"backup"}
  MaxTime = 2
  MaxCrashes = 1
SPECIFICATION FairSpec
INVARIANTS
  LonePoolIsSound
PROPERTIES
  EveryOrderScheduled
CHECK_DEADLOCK FALSE
