----------------------------- MODULE PushTiming -----------------------------
(***************************************************************************)
(* When the reminders of an order are pushed: the times CreatePushEvent    *)
(* derives from the time of the booking, the dates PushScheduler asks the  *)
(* table for, the window in which PushTimeFilter lets an event through,    *)
(* and rounds that take as long as they take.                              *)
(*                                                                         *)
(* One push_controller, and nothing that fails but the push itself; the    *)
(* cluster and failing statements are in PushPipeline and OrderPool.  Times*)
(* are seconds of local time from some midnight, in a zone without daylight*)
(* saving time, the same for MySQL and the process.  Opt-outs and watches  *)
(* that get no reminders are left out.                                     *)
(***************************************************************************)
EXTENDS BookingTimes

CONSTANTS
  Order,            \* the rows of user_order_info
  Kinds,            \* the businesses they may be of
  BusinessTimes,    \* the times a booking may be for
  Interval,         \* FLAGS_push_scheduler_internal
  Delays,           \* by how much time passes
  Start,
  MaxTime,          \* bound on the clock
  MaxChanges,       \* bound on the number of changes of orders
  MaxLag            \* bound on the time a thread takes for what it has to do

ASSUME TimingConstantsOK ==
  /\ Kinds \subseteq {"train", "flight", "movie", "hotel"}
  /\ BusinessTimes \subseteq Int
  /\ Window \in 1..1800
  /\ Interval \in Nat
  /\ Delays \subseteq Nat
  /\ Start \in Int /\ MaxTime \in Int
  /\ MaxChanges \in Nat
  /\ MaxLag \in Nat

Event == Order \X EventType
Status == {"none", "pending", "processing", "success", "failed"}   \* none: no row
Absent == [kind |-> "none", time |-> 0]

VARIABLES
  clock,
  order,            \* kind and time of the booking, as PushPoolUpdater last read them
  pushTime,         \* push_event_info.push_time
  status,           \* push_event_info.push_status
  pc,               \* where PushScheduler::Run is: asleep, or between SELECT and filters
  wake,             \* when its sleep is over
  batch,            \* push_events, the rows as they were read
  queue,            \* the queue of the push processor
  \* history
  since,            \* when a row was last written by anyone but the scheduler
  touched,          \* the rows written like that since the last SELECT
  acked,            \* the number of acknowledged pushes of an event
  selected,         \* the time of the last SELECT
  before,           \* the time of the SELECT of the round before
  lag,              \* the longest time from a SELECT to the filters of the next round
  changes

sched == <<pc, wake, batch, selected, before, lag>>
rows  == <<order, pushTime, since, touched>>
vars  == <<clock, rows, status, sched, queue, acked, changes>>

-----------------------------------------------------------------------------
PendingOnly(s) == s = "pending"                                 \* (mutant) no retry
Claimable(s) == s \in {"pending", "failed"}

-----------------------------------------------------------------------------
Init ==
  /\ clock = Start
  /\ order = [o \in Order |-> Absent]
  /\ pushTime = [e \in Event |-> 0]
  /\ status = [e \in Event |-> "none"]
  /\ pc = "asleep"
  /\ wake = Start
  /\ batch = {}
  /\ queue = {}
  /\ since = [e \in Event |-> Start]
  /\ touched = {}
  /\ acked = [e \in Event |-> 0]
  /\ selected = Start
  /\ before = Start
  /\ lag = 0
  /\ changes = 0

\* The last SELECT whose filters have run.
Base == IF pc = "asleep" THEN selected ELSE before

Tick(d) ==
  /\ clock + d <= MaxTime
  /\ clock + d <= Base + MaxLag
  /\ \A x \in queue : clock + d <= x.at + MaxLag
  /\ clock' = clock + d
  /\ UNCHANGED <<rows, status, sched, queue, acked, changes>>

\* PushPoolUpdater has read an order, new or changed, and writes its events: inserts them
\* as pending, or updates the push_time of the rows that are there and nothing else.
StatusReset(s) == "pending"                                   \* (mutant) status too
StatusAfterWrite(s) == IF s = "none" THEN "pending" ELSE s

UpdatePushEvent(o, kind, t) ==
  /\ changes < MaxChanges
  /\ changes' = changes + 1
  /\ order[o].kind \in {"none", kind}
  /\ order' = [order EXCEPT ![o] = [kind |-> kind, time |-> t]]
  /\ LET written == {o} \X EventTypes(kind)
     IN  /\ pushTime' = [e \in Event |-> IF e \in written THEN EventTime(kind, e[2], t)
                                         ELSE pushTime[e]]
         /\ status' = [e \in Event |-> IF e \in written THEN StatusAfterWrite(status[e])
                                       ELSE status[e]]
         /\ since' = [e \in Event |-> IF e \in written THEN clock ELSE since[e]]
         /\ touched' = touched \cup written
  /\ UNCHANGED <<clock, sched, queue, acked>>

(***************************************************************************)
(* PushScheduler::Run                                                      *)
(***************************************************************************)
FetchPushEvents ==
  /\ pc = "asleep" /\ clock >= wake
  /\ batch' = {[event |-> e, time |-> pushTime[e], status |-> status[e],
                booking |-> order[e[1]]] :
                e \in {x \in Event : status[x] # "none" /\ Selects(pushTime[x], clock)}}
  /\ pc' = "filter"
  /\ before' = selected
  /\ selected' = clock
  /\ touched' = {}
  /\ UNCHANGED <<clock, order, pushTime, since, status, wake, lag, queue, acked, changes>>

\* PushTimeFilter and PushStatusFilter, with the UPDATE to kPushProcessing; PushToQueue
FilterPushEvents ==
  /\ pc = "filter"
  /\ LET pass == {r \in batch : IsValidPushTime(r.time, clock) /\ Claimable(r.status)}
         events == {r.event : r \in pass}
     IN  /\ status' = [e \in Event |-> IF e \in events THEN "processing" ELSE status[e]]
         /\ queue' = queue \cup {[event |-> r.event, time |-> r.time,
                                  booking |-> r.booking, at |-> clock] : r \in pass}
  /\ batch' = {}
  /\ pc' = "asleep"
  /\ wake' = clock + Interval
  /\ lag' = IF clock - before > lag THEN clock - before ELSE lag
  /\ UNCHANGED <<clock, rows, selected, before, acked, changes>>

(***************************************************************************)
(* PushProcessor::Run: the push is acknowledged or not, and the row says so*)
(***************************************************************************)
Unconverted(ok) == IF ok THEN "true" ELSE "false"             \* (mutant)
FinalStatus(ok) == IF ok THEN "success" ELSE "failed"

Process(x, ok) ==
  /\ status' = [status EXCEPT ![x.event] = FinalStatus(ok)]
  /\ since' = [since EXCEPT ![x.event] = clock]
  /\ touched' = touched \cup {x.event}
  /\ acked' = [acked EXCEPT ![x.event] = IF ok THEN @ + 1 ELSE @]
  /\ queue' = queue \ {x}
  /\ UNCHANGED <<clock, order, pushTime, sched, changes>>

Next ==
  \/ \E d \in Delays : Tick(d)
  \/ \E o \in Order, kind \in Kinds, t \in BusinessTimes : UpdatePushEvent(o, kind, t)
  \/ FetchPushEvents
  \/ FilterPushEvents
  \/ \E x \in queue, ok \in BOOLEAN : Process(x, ok)

Spec == Init /\ [][Next]_vars

-----------------------------------------------------------------------------
Booking == [kind : Kinds, time : BusinessTimes]

TypeOK ==
  /\ clock \in Int
  /\ order \in [Order -> Booking \cup {Absent}]
  /\ pushTime \in [Event -> Int]
  /\ status \in [Event -> Status]
  /\ pc \in {"asleep", "filter"}
  /\ wake \in Int
  /\ batch \subseteq [event : Event, time : Int, status : Status \ {"none"},
                      booking : Booking]
  /\ queue \subseteq [event : Event, time : Int, booking : Booking, at : Int]
  /\ since \in [Event -> Int]
  /\ touched \subseteq Event
  /\ acked \in [Event -> Nat]
  /\ selected \in Int /\ before \in Int /\ lag \in Nat
  /\ before <= selected /\ selected <= clock
  /\ \A e \in Event : since[e] <= clock
  /\ changes \in 0..MaxChanges

\* An event that is due when the filters run has been read by the SELECT of the round,
\* also across midnight, if it was not written in between and the round took no more
\* than a day.
DueIsFetched ==
  pc = "filter" /\ clock - selected <= Day =>
    \A e \in Event :
      status[e] # "none" /\ e \notin touched
        /\ pushTime[e] <= clock /\ clock < pushTime[e] + Window
      => \E r \in batch : r.event = e /\ r.time = pushTime[e] /\ r.status = status[e]

\* The longest time from a SELECT to the filters of the next round, so far.
Lag == IF clock - Base > lag THEN clock - Base ELSE lag

\* No event is stepped over: one that is still to be pushed, or pushed again, when its
\* window has closed was written, or its push failed, so late that the scheduler's
\* slowest two rounds take the rest of the window.
MissedHasCause ==
  \A e \in Event :
    status[e] \in {"pending", "failed"} /\ clock >= pushTime[e] + Window =>
      \/ pushTime[e] + Lag >= pushTime[e] + Window
      \/ since[e] + Lag >= pushTime[e] + Window

\* A reminder is handed to the processor before the time of the booking, but for takeoff
\* and arrival, and the reminder of the day for a booking earlier than the hour it is
\* pushed at and the window after it.
RemindersInTime ==
  \A x \in queue :
    \/ x.at < x.booking.time
    \/ x.event[2] \in {"Takeoff", "Arrive"}
    \/ /\ x.event[2] = "Today"
       /\ x.booking.time % Day <
            Hour * (CASE x.booking.kind = "hotel" -> 10
                      [] x.booking.kind = "movie" -> 8
                      [] OTHER -> 7) + Window

\* However often an order is changed and a push repeated, an event is acknowledged once
\* at most: a changed order is not announced again at its new time.
AcknowledgedOnce == \A e \in Event : acked[e] <= 1
=============================================================================
