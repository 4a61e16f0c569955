\* Two processes, one crash, one lost connection.
CONSTANTS
  n1 = n1
  n2 = n2
  Node = {n1, n2}
  MaxCrashes = 1
  MaxLosses = 1
SPECIFICATION FairSpec
INVARIANTS
  TypeOK
  SettledTables
  RegistrationHasCause
PROPERTIES
  TablesConverge
CHECK_DEADLOCK FALSE
