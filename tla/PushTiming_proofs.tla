-------------------------- MODULE PushTiming_proofs --------------------------
(***************************************************************************)
(* Proofs about PushTiming, for any orders, booking times, windows up to   *)
(* half an hour and delays.                                                *)
(***************************************************************************)
EXTENDS PushTiming, TLAPS

-----------------------------------------------------------------------------
(***************************************************************************)
(* Times                                                                   *)
(***************************************************************************)
\* The kinds and the types of their events.
LEMMA TypesOfKinds ==
  ASSUME NEW kind \in Kinds, NEW type \in EventTypes(kind)
  PROVE  /\ kind \in {"train", "flight", "movie", "hotel"}
         /\ type \in EventType
<1>1. kind \in {"train", "flight", "movie", "hotel"}
  BY TimingConstantsOK
<1> QED  BY <1>1 DEF EventTypes, EventType

\* A time is its day and the time of the day.
LEMMA Division ==
  ASSUME NEW x \in Int
  PROVE  /\ x \div 86400 \in Int /\ x % 86400 \in Int
         /\ x = 86400 * (x \div 86400) + (x % 86400)
         /\ 0 <= x % 86400 /\ x % 86400 < 86400
<1>1. x \div 86400 \in Int /\ x % 86400 \in Int  OBVIOUS
<1>2. x = 86400 * (x \div 86400) + (x % 86400)  OBVIOUS
<1>3. 0 <= x % 86400  OBVIOUS
<1>4. x % 86400 < 86400  OBVIOUS
<1> QED  BY <1>1, <1>2, <1>3, <1>4

\* What the tables and MakePushTime come to, event by event.
LEMMA EventTimes ==
  ASSUME NEW kind \in Kinds, NEW type \in EventTypes(kind), NEW t \in Int
  PROVE  LET p == EventTime(kind, type, t)
         IN  /\ type = "LastDay" => \E h \in {7, 12} : p = 86400 * ((t - 86400) \div 86400) + 3600 * h
             /\ type = "Today" =>
                  p = 86400 * (t \div 86400) + 3600 * (CASE kind = "hotel" -> 10
                                                         [] kind = "movie" -> 8
                                                         [] OTHER -> 7)
             /\ type = "3Hour" => p = t - 10800
             /\ type = "1Hour" => p = t - 3600
             /\ type = "30Min" => p = t - 1800
             /\ type = "Takeoff" => p = t
             /\ type = "Arrive" => p = t + 3600
<1>1. /\ kind \in {"train", "flight", "movie", "hotel"} /\ type \in EventType
  BY TypesOfKinds
<1>2. CASE type = "LastDay"
  BY <1>1, <1>2 DEF EventTime, EventTimeRelation, Fixed, MakePushTime, DayOf, Day, Hour
<1>3. CASE type = "Today"
  BY <1>1, <1>3 DEF EventTime, EventTimeRelation, Fixed, MakePushTime, DayOf, Day, Hour
<1>4. CASE type \notin {"LastDay", "Today"}
  BY <1>1, <1>4 DEF EventTime, EventTimeRelation, Relative, EventType, Hour
<1> QED  BY <1>2, <1>3, <1>4

\* An event time is a number.
LEMMA EventTimeIsInt ==
  ASSUME NEW kind \in Kinds, NEW type \in EventTypes(kind), NEW t \in Int
  PROVE  EventTime(kind, type, t) \in Int
<1>1. kind \in {"train", "flight", "movie", "hotel"} /\ type \in EventType
  BY TypesOfKinds
<1>2. \A h \in {7, 12} : 86400 * ((t - 86400) \div 86400) + 3600 * h \in Int
  BY Division
<1>3. \A h \in {7, 8, 10} : 86400 * (t \div 86400) + 3600 * h \in Int
  BY Division
<1>4. (CASE kind = "hotel" -> 10 [] kind = "movie" -> 8 [] OTHER -> 7) \in {7, 8, 10}
  OBVIOUS
<1> QED  BY <1>1, <1>2, <1>3, <1>4, EventTimes DEF EventType

\* An event in its window is before the booking, but for the named ones.
LEMMA WindowBeforeBooking ==
  ASSUME NEW kind \in Kinds, NEW type \in EventTypes(kind), NEW t \in Int, NEW at \in Int,
         IsValidPushTime(EventTime(kind, type, t), at)
  PROVE  \/ at < t
         \/ type \in {"Takeoff", "Arrive"}
         \/ /\ type = "Today"
            /\ t % Day < Hour * (CASE kind = "hotel" -> 10 [] kind = "movie" -> 8
                                   [] OTHER -> 7) + Window
<1> DEFINE p == EventTime(kind, type, t)
           h == CASE kind = "hotel" -> 10 [] kind = "movie" -> 8 [] OTHER -> 7
<1>1. kind \in {"train", "flight", "movie", "hotel"} /\ type \in EventType
  BY TypesOfKinds
<1>2. p \in Int /\ Window \in Int /\ Window <= 1800
  BY EventTimeIsInt, TimingConstantsOK
<1>3. p <= at /\ at < p + Window
  BY DEF IsValidPushTime
<1>4. CASE type = "LastDay"
  <2>1. PICK g \in {7, 12} : p = 86400 * ((t - 86400) \div 86400) + 3600 * g
    BY <1>4, EventTimes
  <2>2. 86400 * ((t - 86400) \div 86400) <= t - 86400
    <3> DEFINE u == t - 86400
    <3>1. u \in Int  OBVIOUS
    <3> HIDE DEF u
    <3>2. 86400 * (u \div 86400) <= u  BY <3>1
    <3> QED  BY <3>2 DEF u
  <2>3. p <= t - 86400 + 43200
    <3> DEFINE q == 86400 * ((t - 86400) \div 86400)
    <3>1. q \in Int /\ p = q + 3600 * g /\ q <= t - 86400  BY <2>1, <2>2
    <3> HIDE DEF p, q
    <3> QED  BY <3>1
  <2> HIDE DEF p
  <2> QED  BY <1>2, <1>3, <2>3
<1>5. CASE type = "Today"
  <2>1. p = 86400 * (t \div 86400) + 3600 * h
    BY <1>5, EventTimes
  <2>2. h \in {7, 8, 10}
    OBVIOUS
  <2>3. t = 86400 * (t \div 86400) + (t % 86400) /\ t \div 86400 \in Int /\ t % 86400 \in Int
    BY Division
  <2>4. at < t \/ t % 86400 < 3600 * h + Window
    <3> DEFINE d == t \div 86400
               m == t % 86400
    <3>1. t = 86400 * d + m /\ d \in Int /\ m \in Int /\ p = 86400 * d + 3600 * h
      BY <2>1, <2>3
    <3> HIDE DEF p, d, m, h
    <3>2. at < 86400 * d + 3600 * h + Window
      BY <1>2, <1>3, <3>1
    <3>3. at < 86400 * d + m \/ m < 3600 * h + Window
      BY <1>2, <2>2, <3>1, <3>2
    <3> QED  BY <3>1, <3>3 DEF m
  <2> QED  BY <1>5, <2>4 DEF Day, Hour
<1>6. CASE type \in {"3Hour", "1Hour", "30Min"}
  <2>1. p <= t - 1800
    BY <1>6, EventTimes
  <2> HIDE DEF p
  <2> QED  BY <1>2, <1>3, <2>1
<1> QED  BY <1>1, <1>4, <1>5, <1>6 DEF EventType

\* What is due no more than a day after the SELECT is of one of its dates.
LEMMA DueIsSelected ==
  ASSUME NEW p \in Int, NEW s \in Int, NEW now \in Int,
         s <= now, now - s <= Day, p <= now, now < p + Window
  PROVE  Selects(p, s)
<1>1. Window \in Int /\ Window <= 1800
  BY TimingConstantsOK
<1>2. -86400 < p - s /\ p - s <= 86400
  BY <1>1 DEF Day
<1> DEFINE a == p \div 86400
           b == s \div 86400
           j == p % 86400
           k == s % 86400
<1>4. /\ a \in Int /\ b \in Int /\ j \in Int /\ k \in Int
      /\ p = 86400 * a + j /\ s = 86400 * b + k
      /\ 0 <= j /\ j < 86400 /\ 0 <= k /\ k < 86400
  BY Division
<1>5. a - b \in {-1, 0, 1}
  <2> HIDE DEF a, b, j, k
  <2>1. -1 <= a - b /\ a - b <= 1
    BY <1>2, <1>4
  <2> QED  BY <1>4, <2>1
<1> QED  BY <1>5 DEF Selects, DayOf, Day

-----------------------------------------------------------------------------
(***************************************************************************)
(* Type correctness                                                        *)
(***************************************************************************)
\* Every row is of the last booking the updater read for its order, and so are, at
\* their time, the rows in batch and queue.
Derived(e, time, booking) ==
  /\ booking \in Booking
  /\ e[2] \in EventTypes(booking.kind)
  /\ time = EventTime(booking.kind, e[2], booking.time)

RowInv ==
  /\ \A e \in Event : status[e] # "none" => Derived(e, pushTime[e], order[e[1]])
  /\ \A r \in batch : Derived(r.event, r.time, r.booking) /\ status[r.event] # "none"
  /\ \A x \in queue : /\ status[x.event] # "none"
                      /\ Derived(x.event, x.time, x.booking)
                      /\ IsValidPushTime(x.time, x.at)

\* The initial state is well typed.
LEMMA InitTypeOK == Init => TypeOK /\ RowInv
<1> SUFFICES ASSUME Init PROVE TypeOK /\ RowInv
  OBVIOUS
<1>1. TypeOK
  BY TimingConstantsOK DEF Init, TypeOK, Status
<1>2. RowInv
  BY DEF Init, RowInv
<1> QED  BY <1>1, <1>2

\* The passing of time keeps the types.
LEMMA TickTypeOK ==
  ASSUME TypeOK, RowInv, NEW d \in Delays, Tick(d)
  PROVE  TypeOK' /\ RowInv'
<1>1. d \in Nat
  BY TimingConstantsOK
<1>2. TypeOK'
  BY <1>1 DEF TypeOK, Tick, rows, sched
<1>3. RowInv'
  BY DEF RowInv, Tick, rows, sched, Derived
<1> QED  BY <1>2, <1>3

\* A written order gives all rows of the order times of the new booking.
LEMMA WriteTypeOK ==
  ASSUME TypeOK, RowInv,
         NEW o \in Order, NEW kind \in Kinds, NEW t \in BusinessTimes,
         UpdatePushEvent(o, kind, t)
  PROVE  TypeOK' /\ RowInv'
<1> DEFINE written == {o} \X EventTypes(kind)
           new == [kind |-> kind, time |-> t]
<1>1. t \in Int /\ new \in Booking
  BY TimingConstantsOK DEF Booking
<1>2. order' = [order EXCEPT ![o] = new] /\ order \in [Order -> Booking \cup {Absent}]
  BY DEF UpdatePushEvent, TypeOK
<1>3. order' \in [Order -> Booking \cup {Absent}]
  BY <1>1, <1>2
<1>4. ASSUME NEW e \in Event
      PROVE  /\ e[1] \in Order /\ e[2] \in EventType
             /\ e \in written <=> e[1] = o /\ e[2] \in EventTypes(kind)
  BY DEF Event
<1>5. ASSUME NEW e \in written PROVE e \in Event /\ EventTime(kind, e[2], t) \in Int
  BY <1>1, EventTimeIsInt, TypesOfKinds DEF Event
<1>6. /\ pushTime' = [e \in Event |-> IF e \in written THEN EventTime(kind, e[2], t)
                                      ELSE pushTime[e]]
      /\ status' = [e \in Event |-> IF e \in written THEN StatusAfterWrite(status[e])
                                    ELSE status[e]]
      /\ since' = [e \in Event |-> IF e \in written THEN clock ELSE since[e]]
      /\ touched' = touched \cup written
  BY DEF UpdatePushEvent
<1>7. /\ pushTime' \in [Event -> Int] /\ status' \in [Event -> Status]
      /\ since' \in [Event -> Int] /\ \A e \in Event : since'[e] <= clock
  <2> HIDE DEF written
  <2>1. /\ pushTime \in [Event -> Int] /\ status \in [Event -> Status]
        /\ since \in [Event -> Int] /\ clock \in Int
        /\ \A e \in Event : since[e] <= clock
    BY DEF TypeOK
  <2>2. \A s \in Status : StatusAfterWrite(s) \in Status
    BY DEF StatusAfterWrite, Status
  <2> QED  BY <1>5, <1>6, <2>1, <2>2
<1>8. touched' \subseteq Event
  BY <1>5, <1>6 DEF TypeOK
<1>9. TypeOK'
  <2>1. UNCHANGED <<clock, pc, wake, batch, selected, before, lag, queue, acked>>
    BY DEF UpdatePushEvent, sched
  <2>2. changes' \in 0..MaxChanges
    BY TimingConstantsOK DEF UpdatePushEvent, TypeOK
  <2> QED  BY <1>3, <1>7, <1>8, <2>1, <2>2 DEF TypeOK
<1>10. ASSUME NEW e \in Event, status'[e] # "none"
       PROVE  Derived(e, pushTime'[e], order'[e[1]])
  <2>1. CASE e \in written
    <3>1. /\ pushTime'[e] = EventTime(kind, e[2], t) /\ e[1] = o /\ e[2] \in EventTypes(kind)
      BY <1>4, <1>6, <2>1
    <3>2. order'[o] = new
      BY <1>2
    <3> QED  BY <1>1, <3>1, <3>2 DEF Derived
  <2>2. CASE e \notin written
    <3>1. pushTime'[e] = pushTime[e] /\ status'[e] = status[e]
      BY <1>6, <2>2
    <3>2. Derived(e, pushTime[e], order[e[1]])
      BY <1>10, <3>1 DEF RowInv
    <3>3. e[1] # o
      <4> SUFFICES ASSUME e[1] = o PROVE FALSE
        OBVIOUS
      <4>1. order[o].kind \in {"none", kind} /\ order[o].kind \in Kinds
        BY <3>2 DEF UpdatePushEvent, Derived, Booking
      <4>2. "none" \notin Kinds
        BY TimingConstantsOK
      <4> QED  BY <1>4, <2>2, <3>2, <4>1, <4>2 DEF Derived
    <3>4. order'[e[1]] = order[e[1]]
      BY <1>2, <1>4, <3>3
    <3> QED  BY <3>1, <3>2, <3>4
  <2> QED  BY <2>1, <2>2
<1>11. RowInv'
  <2>1. UNCHANGED <<batch, queue>>
    BY DEF UpdatePushEvent, sched
  <2>2. ASSUME NEW e \in Event, status[e] # "none" PROVE status'[e] # "none"
    <3> HIDE DEF written
    <3> QED  BY <1>6, <2>2 DEF StatusAfterWrite
  <2>3. /\ \A r \in batch : Derived(r.event, r.time, r.booking) /\ status[r.event] # "none"
        /\ \A x \in queue : /\ status[x.event] # "none"
                            /\ Derived(x.event, x.time, x.booking)
                            /\ IsValidPushTime(x.time, x.at)
        /\ \A r \in batch : r.event \in Event
        /\ \A x \in queue : x.event \in Event
    BY DEF RowInv, TypeOK
  <2> QED  BY <1>10, <2>1, <2>2, <2>3 DEF RowInv, Derived
<1> QED  BY <1>9, <1>11

\* A SELECT reads rows.
LEMMA FetchTypeOK ==
  ASSUME TypeOK, RowInv, FetchPushEvents
  PROVE  TypeOK' /\ RowInv'
<1>1. batch' = {[event |-> e, time |-> pushTime[e], status |-> status[e],
                 booking |-> order[e[1]]] :
                 e \in {x \in Event : status[x] # "none" /\ Selects(pushTime[x], clock)}}
  BY DEF FetchPushEvents
<1>2. ASSUME NEW e \in Event, status[e] # "none"
      PROVE  /\ Derived(e, pushTime[e], order[e[1]]) /\ order[e[1]] \in Booking
             /\ pushTime[e] \in Int /\ status[e] \in Status \ {"none"}
  BY <1>2 DEF RowInv, Derived, TypeOK
<1>3. batch' \subseteq [event : Event, time : Int, status : Status \ {"none"},
                       booking : Booking]
  BY <1>1, <1>2
<1>4. \A r \in batch' : Derived(r.event, r.time, r.booking) /\ status[r.event] # "none"
  BY <1>1, <1>2
<1>5. TypeOK'
  BY <1>3 DEF FetchPushEvents, TypeOK
<1>6. RowInv'
  BY <1>4 DEF FetchPushEvents, RowInv, Derived
<1> QED  BY <1>5, <1>6

\* The filters queue rows of the batch that are in their window.
LEMMA FilterTypeOK ==
  ASSUME TypeOK, RowInv, FilterPushEvents
  PROVE  TypeOK' /\ RowInv'
<1> DEFINE pass == {r \in batch : IsValidPushTime(r.time, clock) /\ Claimable(r.status)}
           events == {r.event : r \in pass}
<1>1. /\ status' = [e \in Event |-> IF e \in events THEN "processing" ELSE status[e]]
      /\ queue' = queue \cup {[event |-> r.event, time |-> r.time,
                               booking |-> r.booking, at |-> clock] : r \in pass}
      /\ batch' = {} /\ pc' = "asleep" /\ wake' = clock + Interval
      /\ lag' = IF clock - before > lag THEN clock - before ELSE lag
      /\ UNCHANGED <<clock, order, pushTime, since, touched, selected, before, acked, changes>>
  BY DEF FilterPushEvents, rows
<1>2. /\ clock \in Int /\ before \in Int /\ lag \in Nat /\ Interval \in Nat
      /\ before <= clock
  BY TimingConstantsOK DEF TypeOK
<1>3. lag' \in Nat /\ wake' \in Int
  BY <1>1, <1>2
<1>4. status' \in [Event -> Status]
  BY <1>1 DEF TypeOK, Status
<1>5. /\ queue' \subseteq [event : Event, time : Int, booking : Booking, at : Int]
      /\ \A x \in queue' : Derived(x.event, x.time, x.booking) /\ IsValidPushTime(x.time, x.at)
  <2>1. ASSUME NEW r \in pass
        PROVE  /\ r.event \in Event /\ r.time \in Int /\ r.booking \in Booking
               /\ Derived(r.event, r.time, r.booking) /\ IsValidPushTime(r.time, clock)
               /\ status[r.event] # "none"
    BY DEF TypeOK, RowInv
  <2>2. /\ queue \subseteq [event : Event, time : Int, booking : Booking, at : Int]
        /\ \A x \in queue : Derived(x.event, x.time, x.booking) /\ IsValidPushTime(x.time, x.at)
    BY DEF TypeOK, RowInv
  <2> HIDE DEF pass
  <2> QED  BY <1>1, <1>2, <2>1, <2>2
<1>6. TypeOK'
  BY <1>1, <1>2, <1>3, <1>4, <1>5 DEF TypeOK
<1>7. ASSUME NEW e \in Event PROVE status'[e] # "none" <=> status[e] # "none"
  <2>1. e \in events => status[e] # "none"
    BY DEF RowInv
  <2> HIDE DEF events
  <2> QED  BY <1>1, <2>1
<1>8. RowInv'
  <2>1. \A x \in queue' : status[x.event] # "none"
    BY <1>1 DEF RowInv
  <2>2. \A x \in queue' : x.event \in Event
    BY <1>5
  <2>3. \A e \in Event : status[e] # "none" => Derived(e, pushTime[e], order[e[1]])
    BY DEF RowInv
  <2> QED  BY <1>1, <1>5, <1>7, <2>1, <2>2, <2>3 DEF RowInv, Derived
<1> QED  BY <1>6, <1>8

\* What is written back is the status of a row.
LEMMA ProcessTypeOK ==
  ASSUME TypeOK, RowInv, NEW x \in queue, NEW ok \in BOOLEAN, Process(x, ok)
  PROVE  TypeOK' /\ RowInv'
<1>1. x.event \in Event /\ status[x.event] # "none"
  BY DEF TypeOK, RowInv
<1>2. FinalStatus(ok) \in Status \ {"none"}
  BY DEF FinalStatus, Status
<1>3. /\ status' \in [Event -> Status] /\ since' \in [Event -> Int]
      /\ \A e \in Event : since'[e] <= clock
      /\ \A e \in Event : status'[e] # "none" <=> status[e] # "none"
  BY <1>1, <1>2 DEF Process, TypeOK
<1>4. acked' \in [Event -> Nat]
  <2>1. acked \in [Event -> Nat] /\ acked' = [acked EXCEPT ![x.event] = IF ok THEN @ + 1 ELSE @]
    BY DEF Process, TypeOK
  <2>2. acked[x.event] + 1 \in Nat /\ acked[x.event] \in Nat
    BY <1>1, <2>1
  <2> QED  BY <2>1, <2>2
<1>5. TypeOK'
  BY <1>1, <1>3, <1>4 DEF Process, TypeOK, sched
<1>6. RowInv'
  <2>1. /\ UNCHANGED <<order, pushTime, batch>> /\ queue' \subseteq queue
    BY DEF Process, sched
  <2>2. (\A y \in queue : y.event \in Event) /\ (\A r \in batch : r.event \in Event)
    BY DEF TypeOK
  <2> QED  BY <1>3, <2>1, <2>2 DEF RowInv, Derived
<1> QED  BY <1>5, <1>6

\* Every step keeps the types.
LEMMA NextTypeOK == TypeOK /\ RowInv /\ [Next]_vars => TypeOK' /\ RowInv'
<1> SUFFICES ASSUME TypeOK, RowInv, [Next]_vars PROVE TypeOK' /\ RowInv'
  OBVIOUS
<1>1. CASE UNCHANGED vars
  <2>1. TypeOK'
    BY <1>1 DEF TypeOK, vars, rows, sched
  <2>2. RowInv'
    BY <1>1 DEF RowInv, vars, rows, sched, Derived
  <2> QED  BY <2>1, <2>2
<1> QED
  BY <1>1, TickTypeOK, WriteTypeOK, FetchTypeOK, FilterTypeOK, ProcessTypeOK DEF Next

\* The types of all variables, and that no SELECT and no write is in the future.
THEOREM TimingTyped == Spec => []TypeOK
<1> QED  BY InitTypeOK, NextTypeOK, PTL DEF Spec

\* The same for the rows.
LEMMA AlwaysTyped == Spec => [](TypeOK /\ RowInv)
<1> QED  BY InitTypeOK, NextTypeOK, PTL DEF Spec

\* What is queued is in its window, and the window is before the booking.
THEOREM OnTime == Spec => []RemindersInTime
<1>1. TypeOK /\ RowInv => RemindersInTime
  <2> SUFFICES ASSUME TypeOK, RowInv, NEW x \in queue
               PROVE  \/ x.at < x.booking.time
                      \/ x.event[2] \in {"Takeoff", "Arrive"}
                      \/ /\ x.event[2] = "Today"
                         /\ x.booking.time % Day <
                              Hour * (CASE x.booking.kind = "hotel" -> 10
                                        [] x.booking.kind = "movie" -> 8
                                        [] OTHER -> 7) + Window
    BY DEF RemindersInTime
  <2>1. /\ x.at \in Int /\ x.booking.kind \in Kinds /\ x.booking.time \in Int
        /\ x.event[2] \in EventTypes(x.booking.kind)
        /\ IsValidPushTime(EventTime(x.booking.kind, x.event[2], x.booking.time), x.at)
    <3>1. x.at \in Int
      BY DEF TypeOK
    <3>2. Derived(x.event, x.time, x.booking) /\ IsValidPushTime(x.time, x.at)
      BY DEF RowInv
    <3>3. x.booking.kind \in Kinds /\ x.booking.time \in BusinessTimes
      BY <3>2 DEF Derived, Booking
    <3>4. x.booking.time \in Int
      <4>1. BusinessTimes \subseteq Int
        BY TimingConstantsOK
      <4> QED  BY <3>3, <4>1
    <3> QED  BY <3>1, <3>2, <3>3, <3>4 DEF Derived
  <2> QED  BY <2>1, WindowBeforeBooking
<1> QED  BY <1>1, AlwaysTyped, PTL

-----------------------------------------------------------------------------
(***************************************************************************)
(* One acknowledgement                                                     *)
(***************************************************************************)
\* What is queued is locked and queued once; what the scheduler has read as claimable
\* still is; only what is marked success has been acknowledged.
QueueInv ==
  /\ \A x \in queue : status[x.event] = "processing"
  /\ \A x, y \in queue : x.event = y.event => x = y
  /\ \A r \in batch : Claimable(r.status) => status[r.event] = r.status
  /\ \A r, s \in batch : r.event = s.event => r = s
  /\ \A e \in Event : acked[e] = IF status[e] = "success" THEN 1 ELSE 0

\* An update leaves the status of a row alone, and an insert makes none that is queued.
LEMMA WriteQueueInv ==
  ASSUME TypeOK, RowInv, QueueInv,
         NEW o \in Order, NEW kind \in Kinds, NEW t \in BusinessTimes,
         UpdatePushEvent(o, kind, t)
  PROVE  QueueInv'
<1>1. ASSUME NEW e \in Event
      PROVE  /\ status[e] # "none" => status'[e] = status[e]
             /\ status'[e] = "success" <=> status[e] = "success"
  BY DEF UpdatePushEvent, StatusAfterWrite
<1>2. UNCHANGED <<batch, queue, acked>>
  BY DEF UpdatePushEvent, sched
<1>3. /\ \A x \in queue : x.event \in Event /\ status[x.event] # "none"
      /\ \A r \in batch : r.event \in Event /\ status[r.event] # "none"
  BY DEF TypeOK, RowInv
<1> QED  BY <1>1, <1>2, <1>3 DEF QueueInv

\* A SELECT reads every row once, as it is.
LEMMA FetchQueueInv ==
  ASSUME TypeOK, RowInv, QueueInv, FetchPushEvents
  PROVE  QueueInv'
<1>1. batch' = {[event |-> e, time |-> pushTime[e], status |-> status[e],
                 booking |-> order[e[1]]] :
                 e \in {x \in Event : status[x] # "none" /\ Selects(pushTime[x], clock)}}
  BY DEF FetchPushEvents
<1>2. /\ \A r \in batch' : r.status = status[r.event]
      /\ \A r, s \in batch' : r.event = s.event => r = s
  BY <1>1
<1>3. UNCHANGED <<status, queue, acked>>
  BY DEF FetchPushEvents
<1> QED  BY <1>2, <1>3 DEF QueueInv

\* The filters lock and queue only what is claimable, which nothing queued is.
LEMMA FilterQueueInv ==
  ASSUME TypeOK, RowInv, QueueInv, FilterPushEvents
  PROVE  QueueInv'
<1> DEFINE pass == {r \in batch : IsValidPushTime(r.time, clock) /\ Claimable(r.status)}
           events == {r.event : r \in pass}
           entry(r) == [event |-> r.event, time |-> r.time, booking |-> r.booking, at |-> clock]
<1>1. /\ status' = [e \in Event |-> IF e \in events THEN "processing" ELSE status[e]]
      /\ queue' = queue \cup {entry(r) : r \in pass}
      /\ batch' = {} /\ acked' = acked
  BY DEF FilterPushEvents
<1>2. ASSUME NEW r \in pass PROVE r.event \in Event /\ Claimable(status[r.event])
  BY DEF QueueInv, TypeOK
<1>3. ASSUME NEW e \in events PROVE e \in Event /\ Claimable(status[e])
  BY <1>2
<1>4. \A r, s \in pass : r.event = s.event => r = s
  BY DEF QueueInv
<1>5. \A x \in queue : x.event \in Event /\ status[x.event] = "processing"
  BY DEF QueueInv, TypeOK
<1>6. \A x \in queue : x.event \notin events
  BY <1>3, <1>5 DEF Claimable
<1>7. \A r \in pass : entry(r).event = r.event /\ r.event \in events
  OBVIOUS
<1>8. \A x \in queue' : status'[x.event] = "processing"
  <2> HIDE DEF pass, events
  <2> QED  BY <1>1, <1>2, <1>5, <1>7
<1>9. \A x, y \in queue' : x.event = y.event => x = y
  <2>1. \A x, y \in queue : x.event = y.event => x = y
    BY DEF QueueInv
  <2> HIDE DEF pass, events, entry
  <2> QED  BY <1>1, <1>4, <1>6, <1>7, <2>1
<1>10. \A e \in Event : acked'[e] = IF status'[e] = "success" THEN 1 ELSE 0
  <2>1. \A e \in Event : acked[e] = IF status[e] = "success" THEN 1 ELSE 0
    BY DEF QueueInv
  <2>2. \A e \in events : status[e] # "success"
    BY <1>3 DEF Claimable
  <2> HIDE DEF pass, events
  <2> QED  BY <1>1, <2>1, <2>2
<1> QED  BY <1>1, <1>8, <1>9, <1>10 DEF QueueInv

\* An event that is processed is locked, so it was not acknowledged before.
LEMMA ProcessQueueInv ==
  ASSUME TypeOK, RowInv, QueueInv, NEW x \in queue, NEW ok \in BOOLEAN, Process(x, ok)
  PROVE  QueueInv'
<1>1. x.event \in Event /\ status[x.event] = "processing" /\ acked[x.event] = 0
  BY DEF TypeOK, QueueInv
<1>2. /\ status' = [status EXCEPT ![x.event] = FinalStatus(ok)]
      /\ acked' = [acked EXCEPT ![x.event] = IF ok THEN @ + 1 ELSE @]
      /\ queue' = queue \ {x} /\ batch' = batch
      /\ status \in [Event -> Status] /\ acked \in [Event -> Nat]
  BY DEF Process, sched, TypeOK
<1>3. \A y \in queue' : status'[y.event] = "processing"
  BY <1>2 DEF QueueInv, TypeOK
<1>4. \A r \in batch' : Claimable(r.status) => status'[r.event] = r.status
  BY <1>1, <1>2 DEF QueueInv, Claimable
<1>5. \A e \in Event : acked'[e] = IF status'[e] = "success" THEN 1 ELSE 0
  <2>1. acked'[x.event] = IF status'[x.event] = "success" THEN 1 ELSE 0
    BY <1>1, <1>2 DEF FinalStatus
  <2>2. \A e \in Event : e # x.event => acked'[e] = acked[e] /\ status'[e] = status[e]
    BY <1>2
  <2> QED  BY <2>1, <2>2 DEF QueueInv
<1> QED  BY <1>2, <1>3, <1>4, <1>5 DEF QueueInv

\* Every step keeps the queue invariant.
LEMMA NextQueueInv == TypeOK /\ RowInv /\ QueueInv /\ [Next]_vars => QueueInv'
<1> SUFFICES ASSUME TypeOK, RowInv, QueueInv, [Next]_vars PROVE QueueInv'
  OBVIOUS
<1>1. CASE UNCHANGED vars
  BY <1>1 DEF QueueInv, vars, rows, sched
<1>2. ASSUME NEW d \in Delays, Tick(d) PROVE QueueInv'
  BY <1>2 DEF QueueInv, Tick, rows, sched
<1> QED
  BY <1>1, <1>2, WriteQueueInv, FetchQueueInv, FilterQueueInv, ProcessQueueInv DEF Next

\* Nothing is queued at first.
LEMMA InitQueueInv == Init => QueueInv
BY DEF Init, QueueInv

\* An event is acknowledged once at most, whatever becomes of its order.
THEOREM OneAcknowledgement == Spec => []AcknowledgedOnce
<1>1. QueueInv => AcknowledgedOnce
  BY DEF QueueInv, AcknowledgedOnce
<1>2. TypeOK /\ RowInv /\ QueueInv /\ [Next]_vars => (TypeOK /\ RowInv /\ QueueInv)'
  BY NextTypeOK, NextQueueInv
<1>3. Init => TypeOK /\ RowInv /\ QueueInv
  BY InitTypeOK, InitQueueInv
<1> QED  BY <1>1, <1>2, <1>3, PTL DEF Spec

-----------------------------------------------------------------------------
(***************************************************************************)
(* What the SELECT reads, and what the filters may step over               *)
(***************************************************************************)
\* What was in the dates of the SELECT and not written since is in the batch.
FetchInv ==
  /\ pc = "filter" =>
       \A e \in Event :
         status[e] # "none" /\ e \notin touched /\ Selects(pushTime[e], selected) =>
           \E r \in batch : r.event = e /\ r.time = pushTime[e] /\ r.status = status[e]
  /\ \A e \in touched : selected <= since[e]

\* A claimable event was written, or falls due, after the last SELECT whose filters have
\* run, unless rounds have been too slow for it.
MissInv ==
  \A e \in Event : status[e] \in {"pending", "failed"} =>
    \/ Base <= since[e] \/ Base <= pushTime[e]
    \/ pushTime[e] + lag >= pushTime[e] + Window
    \/ since[e] + lag >= pushTime[e] + Window

\* A written row is touched, and written after the SELECT.
LEMMA WriteFetchInv ==
  ASSUME TypeOK, FetchInv, MissInv,
         NEW o \in Order, NEW kind \in Kinds, NEW t \in BusinessTimes,
         UpdatePushEvent(o, kind, t)
  PROVE  FetchInv' /\ MissInv'
<1> DEFINE written == {o} \X EventTypes(kind)
<1>1. /\ pushTime' = [e \in Event |-> IF e \in written THEN EventTime(kind, e[2], t)
                                      ELSE pushTime[e]]
      /\ status' = [e \in Event |-> IF e \in written THEN StatusAfterWrite(status[e])
                                    ELSE status[e]]
      /\ since' = [e \in Event |-> IF e \in written THEN clock ELSE since[e]]
      /\ touched' = touched \cup written
      /\ UNCHANGED <<clock, pc, batch, selected, before, lag>>
  BY DEF UpdatePushEvent, sched
<1>2. ASSUME NEW e \in written PROVE e \in Event
  BY TypesOfKinds DEF Event
<1>3. /\ selected <= clock /\ before <= selected
      /\ clock \in Int /\ before \in Int /\ selected \in Int
  BY DEF TypeOK
<1>4. Base' = Base /\ Base <= clock
  BY <1>1, <1>3 DEF Base
<1>5. ASSUME NEW e \in Event, e \notin touched'
      PROVE  pushTime'[e] = pushTime[e] /\ status'[e] = status[e] /\ e \notin touched
  <2> HIDE DEF written
  <2> QED  BY <1>1, <1>5
<1>6. \A e \in touched' : selected <= since'[e]
  <2>1. \A e \in touched : selected <= since[e] /\ e \in Event
    BY DEF FetchInv, TypeOK
  <2> HIDE DEF written
  <2> QED  BY <1>1, <1>2, <1>3, <2>1
<1>7. FetchInv'
  BY <1>1, <1>5, <1>6 DEF FetchInv
<1>8. MissInv'
  <2> SUFFICES ASSUME NEW e \in Event, status'[e] \in {"pending", "failed"}
               PROVE  \/ Base <= since'[e] \/ Base <= pushTime'[e]
                      \/ pushTime'[e] + lag >= pushTime'[e] + Window
                      \/ since'[e] + lag >= pushTime'[e] + Window
    BY <1>1, <1>4 DEF MissInv
  <2> HIDE DEF written
  <2>1. CASE e \in written
    BY <1>1, <1>4, <2>1
  <2>2. CASE e \notin written
    BY <1>1, <2>2 DEF MissInv
  <2> QED  BY <2>1, <2>2
<1> QED  BY <1>7, <1>8

\* The SELECT reads every row in its dates; the round before becomes the last one.
LEMMA FetchFetchInv ==
  ASSUME TypeOK, FetchInv, MissInv, FetchPushEvents
  PROVE  FetchInv' /\ MissInv'
<1>1. /\ batch' = {[event |-> e, time |-> pushTime[e], status |-> status[e],
                    booking |-> order[e[1]]] :
                    e \in {x \in Event : status[x] # "none" /\ Selects(pushTime[x], clock)}}
      /\ pc = "asleep" /\ pc' = "filter" /\ before' = selected /\ selected' = clock
      /\ touched' = {} /\ UNCHANGED <<pushTime, since, status, lag>>
  BY DEF FetchPushEvents
<1>2. ASSUME NEW e \in Event, status[e] # "none", Selects(pushTime[e], clock)
      PROVE  \E r \in batch' : r.event = e /\ r.time = pushTime[e] /\ r.status = status[e]
  <2> DEFINE row == [event |-> e, time |-> pushTime[e], status |-> status[e],
                     booking |-> order[e[1]]]
  <2>1. row \in batch'
    BY <1>1, <1>2
  <2>2. row.event = e /\ row.time = pushTime[e] /\ row.status = status[e]
    OBVIOUS
  <2> QED  BY <2>1, <2>2
<1>3. FetchInv'
  BY <1>1, <1>2 DEF FetchInv
<1>4. Base' = Base
  BY <1>1 DEF Base
<1>5. MissInv'
  BY <1>1, <1>4 DEF MissInv
<1> QED  BY <1>3, <1>5

\* What the filters leave behind is touched, not due yet, or out of its window; in the
\* last case the round was too slow for it.
LEMMA FilterFetchInv ==
  ASSUME TypeOK, FetchInv, MissInv, FilterPushEvents
  PROVE  FetchInv' /\ MissInv'
<1> DEFINE pass == {r \in batch : IsValidPushTime(r.time, clock) /\ Claimable(r.status)}
           events == {r.event : r \in pass}
<1>1. /\ status' = [e \in Event |-> IF e \in events THEN "processing" ELSE status[e]]
      /\ pc = "filter" /\ pc' = "asleep"
      /\ lag' = IF clock - before > lag THEN clock - before ELSE lag
      /\ UNCHANGED <<clock, pushTime, since, touched, selected, before>>
  BY DEF FilterPushEvents, rows
<1>2. FetchInv'
  BY <1>1 DEF FetchInv
<1>3. /\ clock \in Int /\ selected \in Int /\ before \in Int /\ lag \in Nat
      /\ before <= selected /\ selected <= clock /\ Window \in Int /\ Window <= 1800
  BY TimingConstantsOK DEF TypeOK
<1>4. lag' \in Int /\ lag <= lag' /\ clock - before <= lag'
  BY <1>1, <1>3
<1>5. Base = before /\ Base' = selected
  BY <1>1 DEF Base
<1>6. ASSUME NEW e \in Event, status'[e] \in {"pending", "failed"}
      PROVE  \/ selected <= since[e] \/ selected <= pushTime[e]
             \/ pushTime[e] + lag' >= pushTime[e] + Window
             \/ since[e] + lag' >= pushTime[e] + Window
  <2>1. e \notin events /\ status[e] \in {"pending", "failed"}
    <3> HIDE DEF events
    <3> QED  BY <1>1, <1>6
  <2>2. pushTime[e] \in Int /\ since[e] \in Int
    BY DEF TypeOK
  <2>3. CASE e \in touched
    BY <2>3 DEF FetchInv
  <2>4. CASE pushTime[e] > clock
    BY <1>3, <2>2, <2>4
  <2>5. CASE clock >= pushTime[e] + Window
    <3>1. \/ before <= since[e] \/ before <= pushTime[e]
          \/ pushTime[e] + lag >= pushTime[e] + Window
          \/ since[e] + lag >= pushTime[e] + Window
      BY <1>5, <2>1 DEF MissInv
    <3> QED  BY <1>3, <1>4, <2>2, <2>5, <3>1
  <2>6. CASE e \notin touched /\ pushTime[e] <= clock /\ clock < pushTime[e] + Window
    <3>1. CASE clock - selected > Day
      BY <1>3, <1>4, <2>2, <3>1 DEF Day
    <3>2. CASE clock - selected <= Day
      <4>1. Selects(pushTime[e], selected)
        BY <1>3, <2>2, <2>6, <3>2, DueIsSelected
      <4>2. PICK r \in batch : r.event = e /\ r.time = pushTime[e] /\ r.status = status[e]
        BY <1>1, <2>1, <2>6, <4>1 DEF FetchInv
      <4>3. r \in pass
        BY <2>1, <2>6, <4>2 DEF IsValidPushTime, Claimable
      <4> QED  BY <2>1, <4>2, <4>3
    <3> QED  BY <1>3, <3>1, <3>2 DEF Day
  <2> QED  BY <1>3, <2>2, <2>3, <2>4, <2>5, <2>6
<1>7. MissInv'
  BY <1>1, <1>5, <1>6 DEF MissInv
<1> QED  BY <1>2, <1>7

\* A processed event is touched, and written after the SELECT.
LEMMA ProcessFetchInv ==
  ASSUME TypeOK, FetchInv, MissInv, NEW x \in queue, NEW ok \in BOOLEAN, Process(x, ok)
  PROVE  FetchInv' /\ MissInv'
<1>1. /\ x.event \in Event
      /\ status \in [Event -> Status] /\ since \in [Event -> Int]
      /\ selected <= clock /\ before <= selected
      /\ clock \in Int /\ before \in Int /\ selected \in Int
  BY DEF TypeOK
<1>2. /\ status' = [status EXCEPT ![x.event] = FinalStatus(ok)]
      /\ since' = [since EXCEPT ![x.event] = clock]
      /\ touched' = touched \cup {x.event}
      /\ UNCHANGED <<pushTime, pc, batch, selected, before, lag>>
  BY DEF Process, sched
<1>3. Base' = Base /\ Base <= clock
  BY <1>1, <1>2 DEF Base
<1>4. \A e \in touched : e \in Event /\ selected <= since[e]
  BY DEF FetchInv, TypeOK
<1>5. FetchInv'
  BY <1>1, <1>2, <1>4 DEF FetchInv
<1>6. MissInv'
  <2> SUFFICES ASSUME NEW e \in Event, status'[e] \in {"pending", "failed"}
               PROVE  \/ Base <= since'[e] \/ Base <= pushTime[e]
                      \/ pushTime[e] + lag >= pushTime[e] + Window
                      \/ since'[e] + lag >= pushTime[e] + Window
    BY <1>2, <1>3 DEF MissInv
  <2>1. CASE e = x.event
    BY <1>1, <1>2, <1>3, <2>1
  <2>2. CASE e # x.event
    BY <1>1, <1>2, <2>2 DEF MissInv
  <2> QED  BY <2>1, <2>2
<1> QED  BY <1>5, <1>6

\* Every step keeps both.
LEMMA NextFetchInv == TypeOK /\ FetchInv /\ MissInv /\ [Next]_vars => FetchInv' /\ MissInv'
<1> SUFFICES ASSUME TypeOK, FetchInv, MissInv, [Next]_vars PROVE FetchInv' /\ MissInv'
  OBVIOUS
<1>1. CASE UNCHANGED vars
  BY <1>1 DEF FetchInv, MissInv, Base, vars, rows, sched
<1>2. ASSUME NEW d \in Delays, Tick(d) PROVE FetchInv' /\ MissInv'
  BY <1>2 DEF FetchInv, MissInv, Base, Tick, rows, sched
<1> QED
  BY <1>1, <1>2, WriteFetchInv, FetchFetchInv, FilterFetchInv, ProcessFetchInv DEF Next

\* There are no rows at first.
LEMMA InitFetchInv == Init => FetchInv /\ MissInv
BY DEF Init, FetchInv, MissInv

\* All of it holds of every behaviour.
LEMMA AlwaysFetchInv == Spec => [](TypeOK /\ FetchInv /\ MissInv)
<1>1. Init => TypeOK /\ RowInv /\ FetchInv /\ MissInv
  BY InitTypeOK, InitFetchInv
<1>2. TypeOK /\ RowInv /\ FetchInv /\ MissInv /\ [Next]_vars
        => (TypeOK /\ RowInv /\ FetchInv /\ MissInv)'
  BY NextTypeOK, NextFetchInv
<1> QED  BY <1>1, <1>2, PTL DEF Spec

\* Three dates are enough for every event that is due, also across midnight.
THEOREM SelectCoversDue == Spec => []DueIsFetched
<1>1. TypeOK /\ FetchInv => DueIsFetched
  <2> SUFFICES ASSUME TypeOK, FetchInv, pc = "filter", clock - selected <= Day,
                      NEW e \in Event, status[e] # "none", e \notin touched,
                      pushTime[e] <= clock, clock < pushTime[e] + Window
               PROVE  \E r \in batch : /\ r.event = e /\ r.time = pushTime[e]
                                       /\ r.status = status[e]
    BY DEF DueIsFetched
  <2>1. /\ pushTime[e] \in Int /\ clock \in Int /\ selected \in Int /\ selected <= clock
    BY DEF TypeOK
  <2>2. Selects(pushTime[e], selected)
    BY <2>1, DueIsSelected
  <2> QED  BY <2>2 DEF FetchInv
<1> QED  BY <1>1, AlwaysFetchInv, PTL

\* No event is stepped over by rounds that are fast enough for its window.
THEOREM NoneSteppedOver == Spec => []MissedHasCause
<1>1. TypeOK /\ MissInv => MissedHasCause
  <2> SUFFICES ASSUME TypeOK, MissInv, NEW e \in Event,
                      status[e] \in {"pending", "failed"}, clock >= pushTime[e] + Window
               PROVE  \/ pushTime[e] + Lag >= pushTime[e] + Window
                      \/ since[e] + Lag >= pushTime[e] + Window
    BY DEF MissedHasCause
  <2>1. /\ pushTime[e] \in Int /\ since[e] \in Int /\ clock \in Int /\ lag \in Nat
        /\ Base \in Int /\ Window \in Int
    BY TimingConstantsOK DEF TypeOK, Base
  <2>2. Lag \in Int /\ lag <= Lag /\ clock - Base <= Lag
    BY <2>1 DEF Lag
  <2>3. \/ Base <= since[e] \/ Base <= pushTime[e]
        \/ pushTime[e] + lag >= pushTime[e] + Window
        \/ since[e] + lag >= pushTime[e] + Window
    BY DEF MissInv
  <2> HIDE DEF Lag
  <2> QED  BY <2>1, <2>2, <2>3
<1> QED  BY <1>1, AlwaysFetchInv, PTL

====
