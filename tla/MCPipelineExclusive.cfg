\* Exclusive partitions, locks that succeed, everything else may fail.
CONSTANTS
  n1 = n1
  n2 = n2
  Node = {n1, n2}
  Event = {2, 3}
  Business = {"flight", "hotel"}
  BusinessOf <- SettledBusinessOf
  Registered = {"flight", "hotel"}
  Muted = {"hotel"}
  Fingerprint <- IdFingerprint
  PushTime <- SecondOpensLater
  ValidPushTime = 1
  IsTest = FALSE
  Closed = {}
  Abroad = {3}
  Views <- SettledViews
  SqlFaults = {"final"}
  MaxClaims <- Twice
  MaxTime = 1
  MaxCrashes = 1
SPECIFICATION FairSpec
PROPERTIES
  ImplementsLifecycle
  EveryClaimEnds
  PendingIsClaimed
CHECK_DEADLOCK FALSE
