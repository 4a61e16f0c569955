---------------------------- MODULE MCReminders ----------------------------
(***************************************************************************)
(* Scenes of Reminders for TLC, one or two per business.                   *)
(***************************************************************************)
EXTENDS Reminders

Home   == [abroad |-> FALSE, version |-> <<4, 9, 1>>]
Old    == [abroad |-> FALSE, version |-> <<4, 8, 9>>]
Abroad == [abroad |-> TRUE,  version |-> <<4, 9, 1>>]
MVersionsEqual == {<<4, 9, 0>>}
MVersionGreater == <<4, 9, 0>>

\* t1 loses its first stop; the others have one.
MEditions == [t1 |-> <<<<"a", "b">>, <<"b">>>>, t2 |-> <<<<"a">>>>, t3 |-> <<<<"b">>>>,
              t4 |-> <<<<"b">>, <<"b">>>>]

MRequest == {"r1", "r2"}
Set(b, to) == [business |-> b, status |-> to]
MBody == {<<Set("movie", "off")>>,
          <<Set("weather", "off"), Set("unknown", "off"), Set("movie", "on")>>}

\* The gate is not known at first, then changes; at last the flight is late.
Quiet ==
  [plan_takeoff |-> "timed", estimated_takeoff |-> "", actual_takeoff |-> "",
   plan_arrive |-> "timed", estimated_arrive |-> "", actual_arrive |-> "",
   checkin_stoptime |-> "timed", plan_gate |-> "A1", actual_gate |-> "--",
   gate_is_change |-> "true", is_delay |-> "false"]
GateChanged == [Quiet EXCEPT !.actual_gate = "A2"]
Late == [GateChanged EXCEPT !.estimated_takeoff = "timed", !.is_delay = "true"]

Good(time) == [time |-> time, parses |-> TRUE, phone |-> TRUE]

Base ==
  [kind |-> "movie", types |-> {"Today"}, orders |-> <<Good(Day + 20 * Hour)>>,
   watches |-> <<Home>>, flights |-> <<Quiet>>, moments |-> {Day + 8 * Hour},
   train |-> "t1", station |-> "b", trainNo |-> {}, listed |-> {}, feedbackRows |-> {},
   useHotel |-> TRUE, useVersionFilter |-> TRUE, requests |-> FALSE,
   faults |-> 1, feedbackFaults |-> 0, trainFaults |-> 0]

Movie ==
  [Base EXCEPT !.orders = <<Good(Day + 8 * Hour + 2400),
                            [Good(Day + 8 * Hour + 2400) EXCEPT !.parses = FALSE]>>, !.types = {"Today", "30Min"},
               !.moments = {Day + 8 * Hour + 600}, !.feedbackRows = {"movie"}]
Feedback ==
  [Movie EXCEPT !.types = {"30Min"}, !.orders = <<Good(Day + 8 * Hour + 2400)>>,
                 !.feedbackRows = {}, !.requests = TRUE,
                !.feedbackFaults = 1]

Hotel ==
  [Base EXCEPT !.kind = "hotel", !.types = {"LastDay", "Today"},
               !.orders = <<[Good(Day + 12 * Hour) EXCEPT !.phone = FALSE],
                            Good(Day + 18 * Hour)>>,
               !.moments = {12 * Hour, Day + 10 * Hour},
               !.watches = <<Old, Home, Abroad>>]
NoHotel == [Hotel EXCEPT !.useHotel = FALSE, !.watches = <<Home>>]

Flight ==
  [Base EXCEPT !.kind = "flight", !.types = {"LastDay", "1Hour"},
               !.orders = <<Good(Day + 8 * Hour), Good(2 * Day + 600)>>,
               !.moments = {7 * Hour, Day - 60, Day + 60, Day + 7 * Hour, 2 * Day - 3000},
               !.flights = <<Quiet, GateChanged>>]

TrainScene ==
  [Base EXCEPT !.kind = "train", !.orders = <<Good(Day + 20 * Hour)>>,
               !.moments = {Day + 7 * Hour}, !.listed = {"t1"}, !.trainFaults = 1, !.faults = 0]
TrainTables ==
  [TrainScene EXCEPT !.types = {}, !.listed = {"t1", "t2", "t3"}]
TrainBoth ==
  [TrainScene EXCEPT !.train = "t4", !.trainNo = {"t2", "t4"}, !.listed = {"t2", "t4"},
                     !.trainFaults = 0]

MScenes == {Movie, Feedback, Hotel, NoHotel, Flight, TrainScene, TrainTables, TrainBoth}
=============================================================================
