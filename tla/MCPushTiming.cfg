\* A flight at 0:50 or a day later, from 22:30 until 7:30.
CONSTANTS
  Order = {o1}
  Kinds = {"flight"}
  BusinessTimes <- MBusinessTimes
  Window = 1800
  Interval = 180
  Delays = {1200}
  Start = 81000
  MaxTime = 113400
  MaxChanges = 2
  MaxLag = 2400
SPECIFICATION Spec
INVARIANTS
  TypeOK
  DueIsFetched
  MissedHasCause
  RemindersInTime
  AcknowledgedOnce
CHECK_DEADLOCK FALSE
