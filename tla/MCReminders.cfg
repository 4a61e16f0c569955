CONSTANTS
  Window = 1200
  Request <- MRequest
  Body <- MBody
  Editions <- MEditions
  BatchSize = 2
  MaxTrainNoQueue = 1
  Scenes <- MScenes
  VersionsEqual <- MVersionsEqual
  VersionGreater <- MVersionGreater
SPECIFICATION Spec
INVARIANTS
  TypeOK
  PushIsWanted
  DayIsRight
  SaidIsStored
  TimetableTold
  UpdateReachesAll
PROPERTY
  EventuallyReminded
CHECK_DEADLOCK FALSE
