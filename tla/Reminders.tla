----------------------------- MODULE Reminders -----------------------------
(***************************************************************************)
(* From a row of push_event_info to a message on the watch: one round of   *)
(* PushScheduler with its look-ups and filters, and the push processors of *)
(* trains, flights, films and hotels, composed with the services they ask: *)
(* user feedback (UserFeedback) and train info (TrainInfo).  The flight    *)
(* info, weather and location services answer or fail.                     *)
(*                                                                         *)
(* One order of one user on one push_controller.  The order changes, its   *)
(* events are rescheduled, the user changes the watch, switches reminders  *)
(* off and on, and the flight's gate changes, at any moment: each step of a*)
(* round and of a processor reads what is there at that moment.            *)
(***************************************************************************)
EXTENDS BookingTimes, PushMessages, UserFeedback, TrainInfo

CONSTANTS
  Scenes,           \* what TLC explores: business, bounds and inputs of a behaviour
  VersionsEqual,    \* FLAGS_hotel_version_equal
  VersionGreater    \* FLAGS_hotel_version_greater

\* A scene: the business and the event types of the order; the successive versions of its
\* row, a time, whether the detail can be parsed and whether a phone number is in it; the
\* successive watches; the successive states of the flight; the moments at which anything happens;
\* train and station, and the trains the site
\* lists; the rows there are at first; FLAGS_use_hotel and
\* FLAGS_use_version_filter; whether the user sends
\* feedback; and how many calls of each kind may fail.
ASSUME RemindersConstantsOK ==
  \A s \in Scenes :
    /\ s.kind \in {"flight", "train", "movie", "hotel"} /\ s.types \subseteq EventTypes(s.kind)
    /\ s.orders \in Seq([time : Int, parses : BOOLEAN, phone : BOOLEAN]) \ {<<>>}
    /\ s.watches \in Seq([abroad : BOOLEAN, version : Seq(Int)]) \ {<<>>}
    /\ s.flights \in Seq(Range(s.flights)) \ {<<>>}
    /\ s.moments \subseteq Int /\ \E first \in s.moments : \A t \in s.moments : first <= t
    /\ s.train \in Train /\ s.station \in Station /\ s.trainNo \subseteq s.listed /\ s.listed \subseteq Train
    /\ s.feedbackRows \subseteq Business
    /\ s.useHotel \in BOOLEAN /\ s.useVersionFilter \in BOOLEAN /\ s.requests \in BOOLEAN
    /\ s.faults \in Nat /\ s.feedbackFaults \in Nat /\ s.trainFaults \in Nat

VARIABLES
  scene,            \* the scene; never changes
  clock,
  order,            \* the version user_order_info holds
  watch,            \* the watch the user wears
  flight,           \* what the flight info service answers
  pushTime,         \* push_event_info.push_time, per event type
  status,           \* push_event_info.push_status
  pc,               \* where PushScheduler::Run is
  batch,            \* push_events: the rows read, and what was found out about them
  at,               \* the row UserFeedbackFilter is at
  queue,            \* the queue of the push processor
  worker,           \* the push processor's thread
  faults,           \* the number of calls that may still fail
  \* history
  made,             \* per event: the version of the order its push_time was made from
  crashed           \* the process has died: no step of it any more

outside == <<scene, clock, order, watch, flight>>
rows    == <<pushTime, status, made>>
round   == <<pc, batch, at>>
vars    == <<outside, rows, round, queue, worker, faults, crashed, feedbackVars, trainVars>>
services == <<feedbackVars, trainVars>>

Idle == [pc |-> "idle"]
NoWatch == [abroad |-> FALSE, version |-> NoVersion]
Booking(v) == scene.orders[v].time

Init ==
  /\ scene \in Scenes
  /\ clock = CHOOSE t \in scene.moments : \A u \in scene.moments : t <= u
  /\ order = 1 /\ watch = 1 /\ flight = 1
  /\ pushTime = [e \in scene.types |-> 0]
  /\ status = [e \in scene.types |-> "none"]
  /\ made = [e \in scene.types |-> 0]
  /\ pc = "asleep"
  /\ batch = <<>>
  /\ at = 1
  /\ queue = <<>>
  /\ worker = Idle
  /\ faults = scene.faults
  /\ crashed = FALSE
  /\ FeedbackInit(scene.feedbackRows, scene.feedbackFaults)
  /\ TrainInit(scene.trainNo, scene.trainFaults)

-----------------------------------------------------------------------------
(***************************************************************************)
(* The world                                                               *)
(***************************************************************************)
Tick ==
  /\ clock' \in {t \in scene.moments : t > clock}
  /\ UNCHANGED <<scene, order, watch, flight, rows, round, queue, worker, faults, crashed, services>>

ChangeOrder ==
  /\ order < Len(scene.orders)
  /\ order' = order + 1
  /\ UNCHANGED <<scene, clock, watch, flight, rows, round, queue, worker, faults, crashed, services>>

ChangeWatch ==
  /\ watch < Len(scene.watches)
  /\ watch' = watch + 1
  /\ UNCHANGED <<scene, clock, order, flight, rows, round, queue, worker, faults, crashed, services>>

ChangeFlight ==
  /\ flight < Len(scene.flights)
  /\ flight' = flight + 1
  /\ UNCHANGED <<scene, clock, order, watch, rows, round, queue, worker, faults, crashed, services>>

\* PushPoolUpdater has read the present version and writes its events: all of them, or
\* none if the detail cannot be parsed.
UpdatePushEvent ==
  /\ ~ crashed /\ scene.orders[order].parses
  /\ \E e \in scene.types : made[e] # order
  /\ pushTime' = [e \in scene.types |-> EventTime(scene.kind, e, Booking(order))]
  /\ status' = [e \in scene.types |-> IF status[e] = "none" THEN "pending" ELSE status[e]]
  /\ made' = [e \in scene.types |-> order]
  /\ UNCHANGED <<outside, round, queue, worker, faults, crashed, services>>

-----------------------------------------------------------------------------
(***************************************************************************)
(* A round of PushScheduler                                                *)
(***************************************************************************)
\* Something that may fail does; the failing branch of a step.
Fault ==
  /\ faults > 0
  /\ faults' = faults - 1
NoFault == UNCHANGED faults

\* The SELECT, in the order of the result set.  A round that finds no row does nothing.
FetchPushEvents ==
  LET found == {e \in scene.types : status[e] # "none" /\ Selects(pushTime[e], clock)}
  IN  /\ ~ crashed /\ pc = "asleep" /\ found # {}
      /\ \E s \in SetToSeqs(found) :
           batch' = [i \in DOMAIN s |->
             [type |-> s[i], time |-> pushTime[s[i]], status |-> status[s[i]], made |-> made[s[i]],
              watch |-> NoWatch, worn |-> NoWatch, filtered |-> 0, told |-> "unknown"]]
      /\ pc' = "lookup"
      /\ UNCHANGED <<outside, rows, at, queue, worker, faults, crashed, services>>

\* FetchNicknameTable and FetchDeviceTable, each in one try block: the first statement
\* that fails leaves the device of its event and of all later ones unknown.  Then
\* PushTimeFilter.
LookedUp(rs, n, worn) ==
  [i \in DOMAIN rs |-> [rs[i] EXCEPT !.watch = IF i <= n THEN worn ELSE NoWatch, !.worn = worn,
                                     !.filtered = clock]]

\* The loops that erase from push_events: the rows at the numbers in keep stay, in their
\* order.
Kept(rs, keep) ==
  LET kept[n \in 0..Len(rs)] ==
        IF n = 0 THEN <<>> ELSE IF n \in keep THEN Append(kept[n - 1], rs[n]) ELSE kept[n - 1]
  IN  kept[Len(rs)]

FetchDevices ==
  /\ ~ crashed /\ pc = "lookup"
  /\ \E n \in 0..Len(batch) :
       /\ IF n = Len(batch) THEN NoFault ELSE Fault
       /\ batch' = Kept(LookedUp(batch, n, scene.watches[watch]),
                        {i \in DOMAIN batch : IsValidPushTime(batch[i].time, clock)})
  /\ pc' = IF batch' = <<>> THEN "asleep" ELSE "feedback"
  /\ UNCHANGED <<outside, rows, at, queue, worker, crashed, services>>

\* business_type_string_map_, where operator[] adds "" for a business that is not in it
FilmMissing(kind) ==                                          \* (mutant) a business left out
  IF kind \in {"flight", "train"} THEN "schedule" ELSE ""
FeedbackBusiness(kind) ==
  CASE kind \in {"flight", "train"} -> "schedule"
    [] kind = "movie" -> "movie"
    [] OTHER -> ""

IsUserClosedPush(kind, answer) ==
  /\ answer.status = "success"
  /\ [business |-> FeedbackBusiness(kind), status |-> "off"] \in answer.data

\* What the user has been told about the reminders of the order.
Told ==
  CASE scene.kind \in {"flight", "train"} -> said["schedule"]
    [] scene.kind = "movie" -> said["movie"]
    [] OTHER -> "unknown"

\* UserFeedbackFilter asks for each event; an event it gets no answer for goes on.
OnePastTheEnd(rs, i) == i > Len(rs) + 1                       \* (mutant)
AllAsked(rs, i) == i > Len(rs)

FilterUserFeedback ==
  /\ ~ crashed /\ pc = "feedback"
  /\ \/ /\ NoFault
        /\ IF IsUserClosedPush(scene.kind, FeedbackAnswer)
             THEN /\ batch' = RemoveAt(batch, at)
                  /\ UNCHANGED at
             ELSE /\ batch' = [batch EXCEPT ![at].told = Told]
                  /\ at' = at + 1
     \/ /\ Fault
        /\ at' = at + 1
        /\ UNCHANGED batch
  /\ pc' = IF AllAsked(batch', at') THEN "lock" ELSE "feedback"
  /\ UNCHANGED <<outside, rows, queue, worker, crashed, services>>

\* WearModelFilter, PushStatusFilter with its UPDATE, and PushToQueue.
IsAtHome(w) == ~ w.abroad
ClaimablePending(s) == s = "pending"                          \* (mutant) no retry
Claimable(s) == s \in {"pending", "failed"}

LockPushEvents ==
  LET pass == Kept(batch, {i \in DOMAIN batch :
                             IsAtHome(batch[i].watch) /\ Claimable(batch[i].status)})
  IN  /\ ~ crashed /\ pc = "lock"
      /\ status' = [e \in scene.types |->
                      IF \E i \in DOMAIN pass : pass[i].type = e THEN "processing" ELSE status[e]]
      /\ queue' = queue \o pass
      /\ pc' = "asleep"
      /\ batch' = <<>>
      /\ at' = 1
      /\ UNCHANGED <<outside, pushTime, made, worker, faults, crashed, services>>

-----------------------------------------------------------------------------
(***************************************************************************)
(* A push processor                                                        *)
(***************************************************************************)
\* The order as it is now; a SELECT that fails fails the event.
GetUserOrder ==
  /\ ~ crashed /\ worker.pc = "idle" /\ queue # <<>>
  /\ queue' = Tail(queue)
  /\ \E ok \in BOOLEAN :
       /\ IF ok THEN NoFault ELSE Fault
       /\ worker' = [pc |-> IF ok THEN "ask" ELSE "failed",
                     row |-> Head(queue), read |-> order, flight |-> 0,
                     message |-> Nothing, sent |-> 0]
  /\ UNCHANGED <<outside, rows, round, crashed, services>>

\* ParseDetail of the processors: an object and, for a hotel, a phone number in it.
IsComplete(v) ==
  scene.orders[v].parses /\ (scene.kind = "hotel" => scene.orders[v].phone)

\* BuildPushMessage has made something of what is known, or nothing.
Built(message) ==
  [worker EXCEPT !.pc = IF message = Nothing THEN "failed" ELSE "send", !.message = message]
Failed == [worker EXCEPT !.pc = "failed"]

\* Process of the four: a film asks nobody, a hotel the location service.
Processes(kind) == ~ crashed /\ worker.pc = "ask" /\ scene.kind = kind
IfComplete(w) == IF IsComplete(worker.read) THEN w ELSE Failed

ProcessMovie ==
  /\ Processes("movie")
  /\ worker' = IfComplete(Built(MovieMessage(worker.row.type)))
  /\ UNCHANGED <<outside, rows, round, queue, faults, crashed, services>>

ProcessHotel ==
  /\ Processes("hotel")
  /\ \/ NoFault /\ worker' = IfComplete(Built(HotelMessage(worker.row.type)))
     \/ Fault /\ worker' = Failed
  /\ UNCHANGED <<outside, rows, round, queue, crashed, services>>

ProcessTrain ==
  /\ Processes("train")
  /\ worker' = IfComplete([worker EXCEPT !.pc = "wait"])
  /\ IF IsComplete(worker.read) THEN SendQuery(scene.train, scene.station) ELSE UNCHANGED query
  /\ UNCHANGED <<outside, rows, round, queue, faults, crashed, feedbackVars, edition, tables,
                 trainNoQueue, dumper, trainFaults, torn, covered>>

GetTimeTable ==
  /\ ~ crashed /\ worker.pc = "wait" /\ query.pc = "answered"
  /\ worker' = IF query.status = "success" THEN Built(TrainMessage(worker.row.type)) ELSE Failed
  /\ query' = NoQuery
  /\ UNCHANGED <<outside, rows, round, queue, faults, crashed, feedbackVars, edition, tables,
                 trainNoQueue, dumper, trainFaults, torn, covered>>

ProcessFlight ==
  /\ Processes("flight")
  /\ \/ NoFault /\ worker' = IfComplete([worker EXCEPT !.pc = "weather", !.flight = flight])
     \/ Fault /\ worker' = Failed
  /\ UNCHANGED <<outside, rows, round, queue, crashed, services>>

\* The weather of the city of arrival, of which the message reads pages that need not be
\* there: the process crashes, or what it finds in their place goes into the message.
FetchWeather ==
  LET message == FlightMessage(worker.row.type, scene.flights[worker.flight])
  IN  /\ ~ crashed /\ worker.pc = "weather"
      /\ \/ NoFault /\ worker' = Built(message) /\ UNCHANGED <<round, queue, crashed>>
         \/ Fault /\ worker' = Failed /\ UNCHANGED <<round, queue, crashed>>
         \/ /\ Fault
            /\ \/ worker' = Built(message) /\ UNCHANGED <<round, queue, crashed>>
               \/ /\ worker' = Idle
                  /\ pc' = "asleep" /\ batch' = <<>> /\ at' = 1
                  /\ queue' = <<>>
                  /\ crashed' = TRUE
      /\ UNCHANGED <<outside, rows, services>>

\* SendPush; a hotel that is not to be sent counts as sent, one the watch is too old for
\* as failed.
TooOld(version) ==
  /\ scene.kind = "hotel" /\ scene.useVersionFilter
  /\ FilterVersion(version, VersionsEqual, VersionGreater)

SendPush ==
  LET disabled == scene.kind = "hotel" /\ ~ scene.useHotel
      tooOld == TooOld(worker.row.watch.version)
  IN  /\ ~ crashed /\ worker.pc = "send"
      /\ \/ /\ disabled
            /\ worker' = [worker EXCEPT !.pc = "disabled"]
            /\ NoFault
         \/ /\ ~ disabled /\ ~ tooOld
            /\ worker' = [worker EXCEPT !.pc = "sent", !.sent = clock]
            /\ NoFault
         \/ /\ ~ disabled
            /\ worker' = Failed
            /\ IF tooOld THEN NoFault ELSE Fault
      /\ UNCHANGED <<outside, rows, round, queue, crashed, services>>

UpdatePushStatus ==
  /\ ~ crashed /\ worker.pc \in {"sent", "disabled", "failed"}
  /\ \/ /\ NoFault
        /\ status' = [status EXCEPT ![worker.row.type] =
                        IF worker.pc = "failed" THEN "failed" ELSE "success"]
     \/ /\ Fault
        /\ UNCHANGED status
  /\ worker' = Idle
  /\ UNCHANGED <<outside, pushTime, made, round, queue, crashed, services>>

PushScheduler == FetchPushEvents \/ FetchDevices \/ FilterUserFeedback \/ LockPushEvents
PushProcessor ==
  \/ GetUserOrder \/ ProcessMovie \/ ProcessHotel \/ ProcessTrain \/ GetTimeTable
  \/ ProcessFlight \/ FetchWeather \/ SendPush \/ UpdatePushStatus

\* The services, each in the scenes of a business that asks it.
here == <<outside, rows, round, queue, worker, faults, crashed>>
TrainService ==
  /\ scene.kind = "train" /\ TrainNext
  /\ trainNo' \subseteq scene.listed
  /\ \A t \in Train \ scene.listed : edition'[t] = edition[t]
  /\ UNCHANGED <<here, feedbackVars>>
FeedbackService == scene.requests /\ FeedbackNext /\ UNCHANGED <<here, trainVars>>

Next ==
  \/ Tick \/ ChangeOrder \/ ChangeWatch \/ ChangeFlight
  \/ UpdatePushEvent
  \/ PushScheduler
  \/ PushProcessor
  \/ TrainService
  \/ FeedbackService

\* Threads of the process and of the services take their steps; nobody has to change an
\* order, send feedback or ask for an update of all trains.
TrainThread(step) == scene.kind = "train" /\ step /\ UNCHANGED <<here, feedbackVars>>
Fairness ==
  /\ WF_vars(UpdatePushEvent)
  /\ WF_vars(PushScheduler)
  /\ WF_vars(PushProcessor)
  /\ WF_vars(TrainThread(QueryPosition \/ QueryStations))
  /\ WF_vars(TrainThread(TrainDataUpdater))

Spec == Init /\ [][Next]_vars /\ Fairness

-----------------------------------------------------------------------------
(***************************************************************************)
(* Properties                                                              *)
(***************************************************************************)
RowOK(r) ==
  /\ r.type \in scene.types
  /\ r.status \in {"pending", "processing", "success", "failed"}
  /\ r.made \in DOMAIN scene.orders
  /\ r.told \in {"unknown", "on", "off"}

TypeOK ==
  /\ scene \in Scenes
  /\ clock \in scene.moments
  /\ order \in DOMAIN scene.orders /\ watch \in DOMAIN scene.watches
  /\ flight \in DOMAIN scene.flights
  /\ pushTime \in [scene.types -> Int]
  /\ status \in [scene.types -> {"none", "pending", "processing", "success", "failed"}]
  /\ pc \in {"asleep", "lookup", "feedback", "lock"}
  /\ \A i \in DOMAIN batch : RowOK(batch[i])
  /\ \A i \in DOMAIN queue : RowOK(queue[i])
  /\ pc = "feedback" => at \in DOMAIN batch
  /\ worker.pc \in {"idle", "ask", "wait", "weather", "send", "sent", "disabled", "failed"}
  /\ worker.pc # "idle" => RowOK(worker.row)
  /\ faults \in Nat
  /\ FeedbackTypeOK
  /\ TrainTypeOK

\* A message that is on its way, or sent.
Sent == worker.pc = "sent"

\* Whatever the order in which feedback, look-ups and rounds meet: no reminder goes out
\* that the user had been told is switched off when the filter asked, and none to the
\* watch of a user abroad, unless the look-up of the watch failed.
PushIsWanted ==
  Sent => /\ worker.row.told # "off"
          /\ worker.row.worn.abroad => worker.row.watch = NoWatch

\* "Tomorrow" is the day before the booking, and a time without a date the next time the
\* clock shows it, or a time of today, for the user who reads it when it comes: although
\* the event was scheduled from one reading of the order, filtered by a clock read
\* earlier and written from another reading of the order.  Not so if the order changed
\* in between, or the push waited over midnight.
DayIsRight ==
  Sent /\ worker.read = worker.row.made /\ DayOf(worker.sent) = DayOf(worker.row.filtered) =>
    LET booking == Booking(worker.read)
    IN  CASE worker.message = "tomorrow" -> DayOf(booking) = DayOf(worker.sent) + 1
          [] worker.message = "time" ->
               \/ DayOf(booking) = DayOf(worker.sent)
               \/ booking > worker.sent /\ booking - worker.sent < Day
          [] OTHER -> TRUE

\* Why an event is not pushed, or not yet.
Excused(e) ==
  \/ crashed
  \/ ~ IsComplete(order)
  \/ ~ IsValidPushTime(pushTime[e], clock)
  \/ scene.watches[watch].abroad
  \/ FeedbackBusiness(scene.kind) \in Business /\ feedback[FeedbackBusiness(scene.kind)] = "off"
  \/ scene.kind = "flight" /\ FlightMessage(e, scene.flights[flight]) = Nothing
  \/ TooOld(scene.watches[watch].version)
  \/ scene.kind = "train"
      /\ scene.station \notin Range(Editions[scene.train][edition[scene.train]])
  \/ /\ status[e] = "processing"       \* an UPDATE that failed
     /\ \A i \in DOMAIN queue : queue[i].type # e
     /\ worker.pc = "idle" \/ worker.row.type # e

\* A failed push is tried again, with the look-ups and answers of the day, until it
\* succeeds or there is a reason not to push: a time table that is not known is fetched,
\* a gate that changes is told.  No event is left behind for ever.
EventuallyReminded ==
  []<>(\A e \in scene.types : status[e] = "success" \/ Excused(e))
=============================================================================
