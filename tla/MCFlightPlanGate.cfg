\* Two refreshes and changing gates, nothing fails: is the plan gate kept?
CONSTANTS
  updater = updater
  handler = handler
  a = a
  b = b
  Worker = {updater, handler}
  Gate = {a, b}
  None = None
  Missing = Missing
  MaxChanges = 2
  MaxExpiries = 0
  MaxFaults = 0
SPECIFICATION Spec
INVARIANT PlanGateKept
CHECK_DEADLOCK FALSE
