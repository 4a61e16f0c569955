\* Two refreshes, changing gates, an expiry, two faults.
CONSTANTS
  updater = updater
  handler = handler
  a = a
  b = b
  Worker = {updater, handler}
  Gate = {a, b}
  None = None
  Missing = Missing
  MaxChanges = 2
  MaxExpiries = 1
  MaxFaults = 2
SPECIFICATION FairSpec
INVARIANTS
  TypeOK
  PlanGateNeedsRace
  BrokenHashHasCause
PROPERTIES
  EventuallyAnswered
CHECK_DEADLOCK FALSE
