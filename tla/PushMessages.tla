---------------------------- MODULE PushMessages ----------------------------
(***************************************************************************)
(* What the push processors put on a watch, and for which reminders they   *)
(* have nothing to put there: the Build, Append and Handle functions of the*)
(* processors of trains, flights, films and hotels.                        *)
(*                                                                         *)
(* A message is what it says of the time of the booking or of the flight;  *)
(* texts, layout and links are left out.  A date and time of the flight    *)
(* info service is "" when it is missing, "timed" when it splits in two at *)
(* a blank, and anything else when it does not.                            *)
(***************************************************************************)
EXTENDS Integers, Sequences

Nothing == "nothing"     \* the function returns false

\* GetTakeoff and GetArrive of time_util.cc: the best time known
FlightTime(actual, estimated, plan) ==
  IF actual # "" THEN actual ELSE IF estimated # "" THEN estimated ELSE plan
TakeoffOf(f) == FlightTime(f.actual_takeoff, f.estimated_takeoff, f.plan_takeoff)
ArriveOf(f)  == FlightTime(f.actual_arrive, f.estimated_arrive, f.plan_arrive)

\* AppendCommonField
HasCommonField(f) == TakeoffOf(f) # "" /\ ArriveOf(f) # ""

GateKnown(gate) == gate \notin {"", "--"}

HandleLastDay(f) == "tomorrow"
HandleToday(f) == IF TakeoffOf(f) = "timed" THEN "time" ELSE Nothing
Handle3Hour(f) ==
  IF TakeoffOf(f) = "timed" /\ f.checkin_stoptime = "timed" THEN "time" ELSE Nothing
Handle1Hour(f) ==
  IF /\ f.gate_is_change = "true"
     /\ GateKnown(f.plan_gate) /\ GateKnown(f.actual_gate)
     /\ TakeoffOf(f) = "timed"
    THEN "gate" ELSE Nothing
HandleTakeoff(f) ==
  IF f.is_delay = "true" /\ TakeoffOf(f) = "timed" /\ f.plan_takeoff = "timed"
    THEN "delay" ELSE Nothing
HandleArrival(f) ==
  IF FlightTime(f.actual_arrive, f.estimated_arrive, "") = "timed" THEN "arrival" ELSE Nothing

FlightMessage(type, f) ==
  IF ~ HasCommonField(f) THEN Nothing
  ELSE CASE type = "LastDay" -> HandleLastDay(f)
         [] type = "Today"   -> HandleToday(f)
         [] type = "3Hour"   -> Handle3Hour(f)
         [] type = "1Hour"   -> Handle1Hour(f)
         [] type = "Takeoff" -> HandleTakeoff(f)
         [] type = "Arrive"  -> HandleArrival(f)
         [] OTHER            -> Nothing

TrainMessage(type) ==
  CASE type = "LastDay" -> "tomorrow"
    [] type \in {"Today", "3Hour", "1Hour"} -> "time"
    [] OTHER -> Nothing

MovieMessage(type) ==
  CASE type = "Today" -> "date"
    [] type = "30Min" -> "seats"
    [] OTHER -> Nothing

HotelMessage(type) == IF type \in {"LastDay", "Today"} THEN "date" ELSE Nothing

-----------------------------------------------------------------------------
(***************************************************************************)
(* The version of a watch, <<major, minor, revision>>, or <<>> when it is  *)
(* not of the form tic_x.y.z.                                              *)
(***************************************************************************)
NoVersion == <<>>

CheckVersionGreaterThan(v, standard) ==
  /\ v # NoVersion /\ standard # NoVersion
  /\ \E i \in 1..3 : v[i] > standard[i] /\ \A j \in 1..(i - 1) : v[j] = standard[j]

FilterVersion(v, equal, greater) ==
  ~ CheckVersionGreaterThan(v, greater) /\ v \notin equal
=============================================================================
