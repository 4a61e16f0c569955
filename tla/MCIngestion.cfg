\* A flight in March, a hotel for January, and a flight of no date, in December and January.
CONSTANTS
  flight = flight
  hotel = hotel
  undated = undated
  misshapen = misshapen
  empty = empty
  Message = {flight, hotel, undated, misshapen, empty}
  Kind <- MKind
  User <- MUser
  When <- MWhen
  Garbage = {0, 14}
  HotelEnabled = TRUE
  Partition = {p1}
  Faults = {"produce", "retry", "event", "sql", "upload"}
  StartMonth = 11
  MaxMonth = 12
  MaxPosts = 2
  MaxMishaps = 1
SPECIFICATION FairSpec
INVARIANTS
  TypeOK
  BookedOnce
  LossHasCause
  UploadedHasRow
PROPERTIES
  EverySentSettles
CHECK_DEADLOCK FALSE
