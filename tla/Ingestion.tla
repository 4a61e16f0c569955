------------------------------ MODULE Ingestion ------------------------------
(***************************************************************************)
(* How the messages about a user's bookings become rows of                 *)
(* user_order_info.                                                        *)
(*                                                                         *)
(* message_producer puts the body of a request into a Kafka topic and      *)
(* answers success.  message_receiver consumes the topic with a pool of    *)
(* threads that share one unbounded queue in memory; one processor thread  *)
(* takes the messages from it, works out the time of the booking, of which *)
(* the message gives month and day but no year, INSERTs the order and      *)
(* reports it to a log server.  Offsets are committed in the background,   *)
(* whatever has become of the messages.                                    *)
(*                                                                         *)
(* Time is counted in months, all that the inference of the year looks at: *)
(* month n is month n % 12 of year n \div 12.                              *)
(***************************************************************************)
EXTENDS Integers, Sequences, FiniteSets

CONSTANTS
  Message,        \* the bodies posted to message_producer
  Kind,           \* what ParseJsonMessage makes of each of them
  User,           \* the user each of them is about
  When,           \* the month of the booking, or NoDate if its text is no date
  Garbage,        \* the times an uninitialised tm may stand for
  HotelEnabled,   \* FLAGS_enabled_hotel
  Partition,      \* the partitions of the topic, each with a consumer thread
  Faults,         \* what may go wrong: produce, retry, event, sql, upload
  StartMonth,
  MaxMonth,       \* bound on the clock
  MaxPosts,       \* bound on the number of requests
  MaxMishaps      \* bound on the number of repeated sends, rebalances, error events
                  \* and crashes together

NoDate == -1
Dated == {"flight", "movie", "train"}       \* the year is inferred
Orders == Dated \cup {"hotel"}
\* empty: no payload; broken: no JSON, or no rule matches a raw message; unsupported:
\* another key; misshapen: a CHECK of ParseJsonMessage fails
Kinds == Orders \cup {"empty", "broken", "unsupported", "misshapen"}

ASSUME IngestionConstantsOK ==
  /\ Kind \in [Message -> Kinds]
  /\ When \in [Message -> Nat \cup {NoDate}]
  /\ Garbage \subseteq Int
  /\ HotelEnabled \in BOOLEAN
  /\ Faults \subseteq {"produce", "retry", "event", "sql", "upload"}
  /\ StartMonth \in Nat /\ MaxMonth \in Nat
  /\ MaxPosts \in Nat /\ MaxMishaps \in Nat

\* A place in the topic; offset 0 stands for the text of an error event.
Entry == [part : Partition, off : Nat]

\* A row of user_order_info, or one to be: the order id is made of user, kind and time.
\* msg and at, the message and the month it was parsed in, are history.
OrderRow == [user : {User[m] : m \in Message}, kind : Orders, time : Int,
             msg : Message, at : Nat]
Gap == [msg : Message, cause : {"unproduced", "empty", "broken", "misshapen", "taken",
                                "sql", "crash"}]

VARIABLES
  month,        \* the wall clock
  topic,        \* per partition: the messages in it
  committed,    \* per partition: the offset committed for the group
  position,     \* per partition: the offset consumed up to
  queue,        \* message_queue_, of entries
  pc,           \* where ProcessQueue of the processor thread is
  cur,          \* the entry it popped
  order,        \* the user_order_info it parsed
  rows,         \* the table user_order_info
  uploads,      \* the orders reported to the log server
  \* history
  sent,         \* the messages that were posted
  gap,          \* the messages that may have no row of their own, and why
  posts, mishaps

log    == <<topic, committed, position>>
proc   == <<pc, cur, order>>
bounds == <<posts, mishaps>>
vars   == <<month, log, queue, proc, rows, uploads, sent, gap, bounds>>

-----------------------------------------------------------------------------
(***************************************************************************)
(* The time of a booking                                                   *)
(***************************************************************************)
MonthOf(n) == n % 12
YearOf(n) == n \div 12
kMonthBeginSet == 0..2
kMonthEndSet == 9..11

\* The time of month mon of this year.
ShortDatetimeToTimestamp(n, mon) == 12 * YearOf(n) + mon

\* The same, but January to March seen from October to December are of the next
\* year, and October to December seen from January to March of the last one.
ThisYear(n, mon) == 12 * YearOf(n) + mon         \* (mutant) no year boundary
ShortDatetimeToTimestampNew(n, mon) ==
  LET year == IF mon \in kMonthBeginSet /\ MonthOf(n) \in kMonthEndSet THEN YearOf(n) + 1
              ELSE IF MonthOf(n) \in kMonthBeginSet /\ mon \in kMonthEndSet THEN YearOf(n) - 1
              ELSE YearOf(n)
  IN  12 * year + mon

\* The times message m may be given when parsed in month n.  If strptime fails it leaves
\* day and month of a cleared tm at 0, which is the December before, or a tm that was
\* never written.
BusinessTimes(m, n) ==
  IF Kind[m] = "hotel"
    THEN {ShortDatetimeToTimestamp(n, IF When[m] = NoDate THEN -1 ELSE MonthOf(When[m]))}
    ELSE IF When[m] = NoDate THEN Garbage
    ELSE {ShortDatetimeToTimestampNew(n, MonthOf(When[m]))}

\* CreateOrderId, the primary key
SameUserAndKind(r, s) == r.user = s.user /\ r.kind = s.kind     \* (mutant) without the time
SameId(r, s) == r.user = s.user /\ r.kind = s.kind /\ r.time = s.time

Lose(m, c) == [msg |-> m, cause |-> c]
Init ==
  /\ month = StartMonth
  /\ topic = [p \in Partition |-> <<>>]
  /\ committed = [p \in Partition |-> 0]
  /\ position = [p \in Partition |-> 0]
  /\ queue = <<>>
  /\ pc = "pop"
  /\ cur = {}
  /\ order = {}
  /\ rows = {}
  /\ uploads = {}
  /\ sent = {}
  /\ gap = {}
  /\ posts = 0
  /\ mishaps = 0

NextMonth ==
  /\ month < MaxMonth
  /\ month' = month + 1
  /\ UNCHANGED <<log, queue, proc, rows, uploads, sent, gap, bounds>>

(***************************************************************************)
(* message_producer                                                        *)
(***************************************************************************)
\* What Produce may leave in a partition of a message handed to it: nothing, if the
\* producer cannot be created, its queue is full or the flush times out; two copies,
\* if the client library sends it again.
Copies(m) ==
  {<<m>>} \cup (IF "produce" \in Faults THEN {<<>>} ELSE {})
          \cup (IF "retry" \in Faults /\ mishaps < MaxMishaps THEN {<<m, m>>} ELSE {})

\* HandleRequest: the result of Produce is ignored and the answer is always success.
HandleRequest(m) ==
  /\ posts < MaxPosts
  /\ posts' = posts + 1
  /\ sent' = sent \cup {m}
  /\ \E p \in Partition, c \in Copies(m) :
       /\ topic' = [topic EXCEPT ![p] = @ \o c]
       /\ mishaps' = IF Len(c) = 2 THEN mishaps + 1 ELSE mishaps
       /\ gap' = IF c = <<>> THEN gap \cup {Lose(m, "unproduced")} ELSE gap
  /\ UNCHANGED <<month, committed, position, queue, proc, rows, uploads>>

(***************************************************************************)
(* The consumer threads of message_receiver                                *)
(***************************************************************************)
PushIfEmpty(e) == queue' = IF queue = <<>> THEN <<e>> ELSE queue   \* (mutant) a bounded queue
PushQueue(e) == queue' = Append(queue, e)

\* consume() and Push; a message without payload is dropped.
Push(p) ==
  /\ position[p] < Len(topic[p])
  /\ position' = [position EXCEPT ![p] = @ + 1]
  /\ LET m == topic[p][position[p] + 1]
     IN  \/ /\ Kind[m] # "empty"
            /\ PushQueue([part |-> p, off |-> position[p] + 1])
            /\ UNCHANGED gap
         \/ /\ Kind[m] = "empty"
            /\ gap' = gap \cup {Lose(m, "empty")}
            /\ UNCHANGED queue
  /\ UNCHANGED <<month, topic, committed, proc, rows, uploads, sent, bounds>>

\* consume() returns an error event, whose text is pushed like a message.
PushError(p) ==
  /\ "event" \in Faults /\ mishaps < MaxMishaps
  /\ mishaps' = mishaps + 1
  /\ PushQueue([part |-> p, off |-> 0])
  /\ UNCHANGED <<month, log, proc, rows, uploads, sent, gap, posts>>

\* The library commits what consume() has returned.
CommitNext(p) ==                                 \* (mutant) one too many
  /\ committed[p] < position[p]
  /\ committed' = [committed EXCEPT ![p] = position[p] + 1]
  /\ UNCHANGED <<month, topic, position, queue, proc, rows, uploads, sent, gap, bounds>>
Commit(p) ==
  /\ committed[p] < position[p]
  /\ committed' = [committed EXCEPT ![p] = position[p]]
  /\ UNCHANGED <<month, topic, position, queue, proc, rows, uploads, sent, gap, bounds>>

\* The partition is taken from a consumer and given to one: what was not committed is
\* consumed again.
Rebalance(p) ==
  /\ mishaps < MaxMishaps /\ committed[p] < position[p]
  /\ mishaps' = mishaps + 1
  /\ position' = [position EXCEPT ![p] = committed[p]]
  /\ UNCHANGED <<month, topic, committed, queue, proc, rows, uploads, sent, gap,
                 posts>>

(***************************************************************************)
(* ProcessQueue                                                            *)
(***************************************************************************)
KindOf(e) == IF e.off = 0 THEN "broken" ELSE Kind[topic[e.part][e.off]]
Unsupported(k) == k = "unsupported" \/ (k = "hotel" /\ ~ HotelEnabled)

Pop ==
  /\ pc = "pop" /\ queue # <<>>
  /\ cur' = {Head(queue)}
  /\ queue' = Tail(queue)
  /\ pc' = "parse"
  /\ UNCHANGED <<month, log, order, rows, uploads, sent, gap, bounds>>

AfterReject == "stopped"                         \* (mutant) the thread ends
AfterFailure == "pop"

\* Process returns false.
Reject ==
  /\ pc = "parse"
  /\ \E e \in cur :
       /\ KindOf(e) = "broken" \/ Unsupported(KindOf(e))
       /\ gap' = IF e.off = 0 THEN gap
                 ELSE gap \cup {Lose(topic[e.part][e.off], "broken")}
  /\ cur' = {}
  /\ pc' = AfterFailure
  /\ UNCHANGED <<month, log, queue, order, rows, uploads, sent, bounds>>

\* ParseFlightOrder, ParseMovieOrder, ParseTrainOrder, ParseHotelOrder
ParseOrder ==
  /\ pc = "parse"
  /\ \E e \in cur :
       /\ KindOf(e) \in Orders /\ ~ Unsupported(KindOf(e))
       /\ LET m == topic[e.part][e.off]
          IN  \E time \in BusinessTimes(m, month) :
                order' = {[user |-> User[m], kind |-> Kind[m], time |-> time,
                           msg |-> m, at |-> month]}
  /\ pc' = "insert"
  /\ UNCHANGED <<month, log, queue, cur, rows, uploads, sent, gap, bounds>>

\* A plain INSERT, which fails if the order id is there; its result is ignored.
UpdateToDb ==
  /\ pc = "insert"
  /\ \E o \in order :
       \/ /\ \A r \in rows : ~ SameId(r, o)
          /\ rows' = rows \cup {o}
          /\ UNCHANGED gap
       \/ /\ \E r \in rows : SameId(r, o)
          /\ gap' = IF \E r \in rows : SameId(r, o) /\ r.msg = o.msg THEN gap
                    ELSE gap \cup {Lose(o.msg, "taken")}
          /\ UNCHANGED rows
       \/ /\ "sql" \in Faults
          /\ gap' = gap \cup {Lose(o.msg, "sql")}
          /\ UNCHANGED rows
  /\ pc' = "upload"
  /\ UNCHANGED <<month, log, queue, cur, order, uploads, sent, bounds>>

\* Stored or not, the order is reported.
UploadDataToKafka ==
  /\ pc = "upload"
  /\ \/ uploads' = uploads \cup order
     \/ "upload" \in Faults /\ UNCHANGED uploads
  /\ cur' = {}
  /\ order' = {}
  /\ pc' = "pop"
  /\ UNCHANGED <<month, log, queue, rows, sent, gap, bounds>>

(***************************************************************************)
(* The process dies and is started again: it consumes from the committed   *)
(* offsets, and what was in memory is gone.                                *)
(***************************************************************************)
InMemory == {queue[i] : i \in 1..Len(queue)} \cup IF pc = "upload" THEN {} ELSE cur
Restart ==
  /\ position' = committed
  /\ queue' = <<>>
  /\ cur' = {}
  /\ order' = {}
  /\ pc' = "pop"
  /\ UNCHANGED <<month, topic, committed, rows, uploads, sent, posts>>

Forgotten == {Lose(topic[e.part][e.off], "crash") :
                e \in {x \in InMemory : x.off > 0 /\ x.off <= committed[x.part]}}

Crash ==
  /\ mishaps < MaxMishaps
  /\ mishaps' = mishaps + 1
  /\ gap' = gap \cup Forgotten
  /\ Restart

\* A CHECK of ParseJsonMessage fails.
Abort ==
  /\ pc = "parse"
  /\ \E e \in cur :
       /\ KindOf(e) = "misshapen"
       /\ gap' = gap \cup Forgotten \cup {Lose(topic[e.part][e.off], "misshapen")}
  /\ Restart
  /\ UNCHANGED mishaps

Processor == Pop \/ Reject \/ ParseOrder \/ UpdateToDb \/ UploadDataToKafka \/ Abort

Next ==
  \/ NextMonth
  \/ \E m \in Message : HandleRequest(m)
  \/ \E p \in Partition : Push(p) \/ PushError(p) \/ Commit(p) \/ Rebalance(p)
  \/ Pop \/ Reject \/ ParseOrder \/ UpdateToDb \/ UploadDataToKafka
  \/ Crash \/ Abort

Spec == Init /\ [][Next]_vars

\* The threads run; the commits in the background are not relied on.
FairSpec == Spec /\ WF_vars(Processor) /\ \A p \in Partition : WF_vars(Push(p))

-----------------------------------------------------------------------------
\* The entries there can be: error events, and messages of the topic.
Place == {e \in Entry : e.off <= Len(topic[e.part])}

TypeOK ==
  /\ month \in Nat
  /\ topic \in [Partition -> Seq(Message)]
  /\ committed \in [Partition -> Nat]
  /\ position \in [Partition -> Nat]
  /\ \A p \in Partition : committed[p] <= position[p] /\ position[p] <= Len(topic[p])
  /\ queue \in Seq(Place)
  /\ pc \in {"pop", "parse", "insert", "upload"}
  /\ cur \in SUBSET Place
  /\ order \in SUBSET OrderRow
  /\ rows \in SUBSET OrderRow
  /\ uploads \in SUBSET OrderRow
  /\ sent \in SUBSET Message
  /\ gap \in SUBSET Gap
  /\ posts \in 0..MaxPosts
  /\ mishaps \in 0..MaxMishaps

\* The message was parsed close enough to the booking: within three months, or for a
\* hotel within the year of the arrival.
Near(r) ==
  /\ When[r.msg] # NoDate
  /\ IF r.kind = "hotel" THEN YearOf(r.at) = YearOf(When[r.msg])
     ELSE -3 <= When[r.msg] - r.at /\ When[r.msg] - r.at <= 3

\* A booking is stored in its own year, and only once however often its message is
\* posted, sent or consumed, across a new year too, provided it is parsed within three
\* months of the booking, a hotel within the year of the arrival.
BookedOnce ==
  \A r \in rows : Near(r) =>
    /\ r.time = When[r.msg]
    /\ \A s \in rows : s.msg = r.msg /\ Near(s) => s = r

Settled(m) == (\E r \in rows : r.msg = m) \/ \E g \in gap : g.msg = m

\* A message answered with success has become an order, is still on its way, in the
\* queue or beyond the committed offset, or was lost for one of the named causes:
\* that offsets are committed before the orders are stored costs only what is in
\* memory when the process dies.
LossHasCause ==
  \A m \in sent :
    \/ Settled(m)
    \/ \E p \in Partition : \E i \in 1..Len(topic[p]) :
         /\ topic[p][i] = m
         /\ i > committed[p] \/ [part |-> p, off |-> i] \in InMemory

\* The log server hears of an order only if its row is in the table, or an INSERT of
\* the message failed.
UploadedHasRow ==
  \A u \in uploads :
    \/ \E r \in rows : r.user = u.user /\ r.kind = u.kind /\ r.time = u.time
    \/ Lose(u.msg, "sql") \in gap

MisshapenPending ==
  \E p \in Partition : \E i \in 1..Len(topic[p]) :
    i > committed[p] /\ Kind[topic[p][i]] = "misshapen"

\* Every message posted is eventually an order or lost for a named cause, unless a
\* message that aborts the process is never committed: then the process may die of it
\* again after every start, and nothing behind it gets through.
EverySentSettles ==
  <>[](~ MisshapenPending) => \A m \in Message : m \in sent ~> Settled(m)
=============================================================================
