---------------------------- MODULE BookingTimes ----------------------------
(***************************************************************************)
(* When the events of a booking are due: the tables of                     *)
(* business_processor.cc, the times CreatePushEvent derives from them, the *)
(* dates the scheduler SELECTs and the window PushTimeFilter lets an event *)
(* through in.  Times are seconds of local time from some midnight, in a   *)
(* zone without daylight saving time.                                      *)
(***************************************************************************)
EXTENDS Integers

CONSTANT Window     \* FLAGS_valid_push_time_internal, 1200 by default

Hour == 3600
Day == 86400

EventType == {"LastDay", "Today", "3Hour", "1Hour", "30Min", "Takeoff", "Arrive"}

DayOf(t) == t \div Day

\* day_hour o'clock on the day of t
MakePushTime(t, hour) == Day * DayOf(t) + Hour * hour

Fixed(seconds, hour) == [type |-> "kIsFixedTime", seconds |-> seconds, hour |-> hour]
Relative(seconds) == [type |-> "kIsRelativeTime", seconds |-> seconds, hour |-> 0]

EventTimeRelation(kind, type) ==
  CASE type = "LastDay" -> Fixed(-Day, IF kind = "hotel" THEN 12 ELSE 7)
    [] type = "Today"   -> Fixed(0, IF kind = "hotel" THEN 10
                                    ELSE IF kind = "movie" THEN 8 ELSE 7)
    [] type = "3Hour"   -> Relative(-3 * Hour)
    [] type = "1Hour"   -> Relative(-Hour)
    [] type = "30Min"   -> Relative(-1800)
    [] type = "Takeoff" -> Relative(0)
    [] type = "Arrive"  -> Relative(Hour)

EventTypes(kind) ==
  CASE kind = "train"  -> {"LastDay", "Today", "3Hour", "1Hour"}
    [] kind = "flight" -> {"LastDay", "Today", "3Hour", "1Hour", "Takeoff", "Arrive"}
    [] kind = "movie"  -> {"Today", "30Min"}
    [] kind = "hotel"  -> {"LastDay", "Today"}
    [] OTHER           -> {}

\* push_time of an event of a booking for time t
EventTime(kind, type, t) ==
  LET r == EventTimeRelation(kind, type)
  IN  IF r.type = "kIsRelativeTime" THEN t + r.seconds
      ELSE MakePushTime(t + r.seconds, r.hour)

\* date(push_time) is yesterday, today or tomorrow
TwoDays(p, now) == DayOf(p) - DayOf(now) \in {0, 1}           \* (mutant) not yesterday
Selects(p, now) == DayOf(p) - DayOf(now) \in {-1, 0, 1}

NoEnd(p, now) == now >= p                                     \* (mutant) no valid end
IsValidPushTime(p, now) == now >= p /\ now < p + Window
=============================================================================
