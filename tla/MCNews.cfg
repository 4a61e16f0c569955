CONSTANTS
  Url <- MUrl
  Page <- MPage
  Site <- MSite
  Seeds <- MSeeds
  DayLength = 3
  ThreadNumber = 2
  MaxTermCount = 2
  User <- MUser
  Watch <- MWatch
  Hash <- MHash
  UseChannelFilter = TRUE
  UseVersionFilter = TRUE
  VersionsEqual <- MVersionsEqual
  VersionGreater <- MVersionGreater
  View <- MView
  Toutiao <- MToutiao
  Evening = 1
  MaxResultNum = 2
  MinHitWordCount = 2
  ContentExpire = 2
  Scenes <- MScenes
SPECIFICATION Spec
INVARIANTS
  TypeOK
  NewsAccountedFor
  SettledIsRanked
  PushedIsSound
CHECK_DEADLOCK FALSE
