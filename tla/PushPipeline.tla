---------------------------- MODULE PushPipeline ----------------------------
(***************************************************************************)
(* The push pipeline of push_controller, on a cluster of nodes that share  *)
(* one MySQL table, push_event_info.                                       *)
(*                                                                         *)
(* On every node a PushScheduler thread repeats a round: read the node's   *)
(* position in the ZooKeeper cluster, SELECT the rows of its partition,    *)
(* filter them, mark the survivors kPushProcessing row by row, and hand    *)
(* them to the in-memory queue of the row's business.  One PushProcessor   *)
(* thread per business takes them from there, sends the push to the link   *)
(* server and writes kPushSuccess or kPushFailed.                          *)
(*                                                                         *)
(* Nothing but the push_status column keeps two rounds, or two nodes, from *)
(* pushing the same event.  The model keeps every read and every UPDATE of *)
(* that column as a step of its own, lets each statement fail where the    *)
(* code ignores the failure, and records in history variables what was     *)
(* sent and which of the code's known gaps was met.                        *)
(***************************************************************************)
EXTENDS Integers, Sequences, FiniteSets, Functions

CONSTANTS
  Node,           \* the push_controller processes of the cluster
  Event,          \* the rows of push_event_info
  Business,       \* the values of BusinessType that occur in the rows
  BusinessOf,     \* business_type of each event
  Registered,     \* businesses with a registered PushProcessor
  Muted,          \* registered businesses whose sending is switched off (use_hotel)
  Fingerprint,    \* fingerprint_id of each event, an unsigned column
  PushTime,       \* push_time of each event
  ValidPushTime,  \* valid_push_time_internal: length of the push window
  IsTest,         \* is_test: no PushTimeFilter
  Closed,         \* events whose user has closed the business in the feedback service
  Abroad,         \* events of users with an "-i18n" watch
  Views,          \* the [pos, cnt] pairs ZkManager may show to each node
  SqlFaults,      \* the statements that may raise SQLException: SELECT, lock, final
  MaxClaims,      \* bound: the SELECT passes over an event claimed that often
  MaxTime,        \* bound on the clock
  MaxCrashes      \* bound on the number of crashes

PushStatus == {"Pending", "Processing", "Success", "Failed"}

\* What GetNodePos and GetTotalNodeCnt answer.
View == [pos : Int, cnt : Int]
NoView == [pos |-> -1, cnt |-> 0]

\* One passage of an event through PushStatusFilter; no counts the passages.
Claim == [event : Event, no : Nat]
Row   == [event : Event, status : PushStatus]

ASSUME ConstantsOK ==
  /\ BusinessOf \in [Event -> Business]
  /\ Muted \subseteq Registered /\ Registered \subseteq Business
  /\ Fingerprint \in [Event -> Nat]
  /\ PushTime \in [Event -> Nat] /\ ValidPushTime \in Nat
  /\ IsTest \in BOOLEAN /\ SqlFaults \subseteq {"select", "lock", "final"}
  /\ Closed \subseteq Event /\ Abroad \subseteq Event
  /\ Views \in [Node -> SUBSET View]
  /\ MaxClaims \in [Event -> Nat] /\ MaxTime \in Nat /\ MaxCrashes \in Nat

VARIABLES
  status,     \* push_status of each row
  now,        \* the wall clock
  view,       \* per node: what ZkManager's watched_table_ says now
  pc,         \* per node: where PushScheduler::Run is
  pos,        \* per node: the local node_pos of FetchPushEvents
  batch,      \* per node: rows of push_events PushStatusFilter has not reached yet
  ready,      \* per node: claims left in push_events, not yet given to PushToQueue
  queue,      \* per node and business: push_event_queue_, the popped event still at its head
  result,     \* per node and business: what Process returned for the head, or "none"
  \* history
  claims,     \* per event: number of claims made
  unlocked,   \* per event: claims whose UPDATE to kPushProcessing failed
  stale,      \* per event: claims made on a row no longer pending or failed
  acked,      \* per event: claims whose push the link server acknowledged
  lost,       \* per event: claims whose push was delivered, the answer lost
  failed,     \* per event: claims whose final status kPushFailed was written
  abandoned,  \* events with a claim that will never write its final status
  crashes     \* number of crashes so far

db    == <<status, now, view>>
sched == <<pc, pos, batch, ready>>
procs == <<queue, result>>
hist  == <<claims, unlocked, stale, acked, lost, failed, abandoned, crashes>>
vars  == <<db, sched, procs, hist>>

-----------------------------------------------------------------------------
\* The claims node n holds: in the scheduler's vector or in a queue.
Held(n) == ready[n] \cup UNION {Range(queue[n][b]) : b \in Business}

HeldEvents(n) == {c.event : c \in Held(n)}

\* PushStatusFilter's test, the two statuses it lets pass.
ClaimableUnlessSuccess(s) == s # "Success"  \* (mutant) kPushProcessing passes too
ClaimableFailedOnly(s) == s = "Failed"      \* (mutant) kPushPending is forgotten
Claimable(s) == s \in {"Pending", "Failed"}

\* The row as FetchPushEvents copies it, push_status included.
RowOf(e) == [event |-> e, status |-> status[e]]

\* The status PushProcessor::Run writes after Process returned r.
Swapped(r) == IF r = "true" THEN "Failed" ELSE "Success"         \* (mutant)
Unwritten(r) == IF r = "true" THEN "Success" ELSE "Processing"   \* (mutant)
Unconverted(r) == r                         \* (mutant) the result itself
FinalStatus(r) == IF r = "true" THEN "Success" ELSE "Failed"

\* date(push_time) and mod(fingerprint_id, cnt) = pos of the SELECT.  The three
\* days of the date condition are wider than every clock the model runs.
Selects(p, c, e) == Fingerprint[e] % c = p

\* IsValidPushTime
IsValidPushTime(e) == now >= PushTime[e] /\ now < PushTime[e] + ValidPushTime

-----------------------------------------------------------------------------
Init ==
  /\ status = [e \in Event |-> "Pending"]
  /\ now = 0
  /\ view = [n \in Node |-> NoView]
  /\ pc = [n \in Node |-> "sleep"]
  /\ pos = [n \in Node |-> -1]
  /\ batch = [n \in Node |-> {}]
  /\ ready = [n \in Node |-> {}]
  /\ queue = [n \in Node |-> [b \in Business |-> <<>>]]
  /\ result = [n \in Node |-> [b \in Business |-> "none"]]
  /\ claims = [e \in Event |-> 0]
  /\ unlocked = [e \in Event |-> 0]
  /\ stale = [e \in Event |-> 0]
  /\ acked = [e \in Event |-> {}]
  /\ failed = [e \in Event |-> {}]
  /\ lost = [e \in Event |-> {}]
  /\ abandoned = {}
  /\ crashes = 0

(***************************************************************************)
(* The environment: the clock, and the view ZkManager keeps of the cluster *)
(* (module ZkMembership derives the views; here any view of Views may show *)
(* up at any moment, since the watch events come from another thread).     *)
(***************************************************************************)
Tick ==
  /\ now < MaxTime
  /\ now' = now + 1
  /\ UNCHANGED <<status, view, sched, procs, hist>>

ChangeView(n) ==
  /\ view' \in {[view EXCEPT ![n] = v] : v \in Views[n] \ {view[n]}}
  /\ UNCHANGED <<status, now, sched, procs, hist>>

(***************************************************************************)
(* PushScheduler::Run                                                      *)
(***************************************************************************)
\* FetchPushEvents, the call of GetNodePos.  GetTotalNodeCnt locks again.
GetNodePos(n) ==
  /\ pc[n] = "sleep"
  /\ pos' = [pos EXCEPT ![n] = view[n].pos]
  /\ pc' = [pc EXCEPT ![n] = "fetch"]
  /\ UNCHANGED <<db, batch, ready, procs, hist>>

\* FetchPushEvents, from GetTotalNodeCnt on: nothing without a valid view, else
\* the rows of the partition with the status they have now.  An exception in the
\* middle of the result set leaves the rows read so far.
FetchPushEvents(n) ==
  LET cnt  == view[n].cnt
      rows == IF pos[n] < 0 \/ cnt <= 0 THEN {}
              ELSE {RowOf(e) : e \in {x \in Event : /\ Selects(pos[n], cnt, x)
                                                  /\ claims[x] < MaxClaims[x]}}
  IN  /\ pc[n] = "fetch"
      /\ \E got \in IF "select" \in SqlFaults THEN SUBSET rows ELSE {rows} :
           /\ batch' = [batch EXCEPT ![n] = got]
           /\ pc' = [pc EXCEPT ![n] = IF got = {} THEN "sleep" ELSE "filter"]
      /\ UNCHANGED <<db, pos, ready, procs, hist>>

\* FetchNicknameTable, FetchDeviceTable: a row without a nickname or a device, and
\* every row after a SQLException, keeps an empty watch_device.
WithoutDevice == SUBSET Abroad

\* UserFeedbackFilter; noAnswer are the rows whose feedback could not be fetched.
IsUserClosedPush(e, noAnswer) == e \in Closed \ noAnswer

\* WearModelFilter: the watch is known to be an "-i18n" model.
IsAbroad(e, noDevice) == e \in Abroad \ noDevice

\* FilterManager::Filtering up to PushStatusFilter, which comes last.
FilterPushEvents(n) ==
  /\ pc[n] = "filter"
  /\ \E noAnswer \in SUBSET Closed, noDevice \in WithoutDevice :
       LET kept == {r \in batch[n] : /\ IsTest \/ IsValidPushTime(r.event)
                                     /\ ~ IsUserClosedPush(r.event, noAnswer)
                                     /\ ~ IsAbroad(r.event, noDevice)}
       IN  /\ batch' = [batch EXCEPT ![n] = kept]
           /\ pc' = [pc EXCEPT ![n] = IF kept = {} THEN "sleep" ELSE "lock"]
  /\ UNCHANGED <<db, pos, ready, procs, hist>>

\* Where the round goes after a row of the status filter: the next row, PushToQueue
\* if a row survived, or Sleep.
NextPcNoQueue(rest, got) == IF rest # {} THEN "lock" ELSE "sleep"     \* (mutant)
NextPc(rest, got) == IF rest # {} THEN "lock" ELSE IF got = {} THEN "sleep" ELSE "enqueue"

\* PushStatusFilter, a row whose snapshot is not pending or failed: erase it.
SkipLocked(n) ==
  /\ pc[n] = "lock"
  /\ \E r \in batch[n] :
       /\ ~ Claimable(r.status)
       /\ batch' = [batch EXCEPT ![n] = @ \ {r}]
       /\ pc' = [pc EXCEPT ![n] = NextPc(batch[n] \ {r}, ready[n])]
  /\ UNCHANGED <<db, pos, ready, procs, hist>>

\* PushStatusFilter, any other row: UpdatePushStatus(kPushProcessing), whatever
\* the row says by now; the row is kept whatever the UPDATE returns.
Lock(n) ==
  /\ pc[n] = "lock"
  /\ \E r \in batch[n], ok \in {TRUE, "lock" \notin SqlFaults} :
       LET e == r.event
           c == [event |-> e, no |-> claims[e] + 1]
       IN  /\ Claimable(r.status)
           /\ status' = IF ok THEN [status EXCEPT ![e] = "Processing"] ELSE status
           /\ batch' = [batch EXCEPT ![n] = @ \ {r}]
           /\ ready' = [ready EXCEPT ![n] = @ \cup {c}]
           /\ pc' = [pc EXCEPT ![n] = NextPc(batch[n] \ {r}, ready'[n])]
           /\ claims' = [claims EXCEPT ![e] = @ + 1]
           /\ unlocked' = IF ok THEN unlocked ELSE [unlocked EXCEPT ![e] = @ + 1]
           /\ stale' = IF status[e] \in {"Processing", "Success"}
                          /\ r.status \in {"Pending", "Failed"}
                       THEN [stale EXCEPT ![e] = @ + 1] ELSE stale
  /\ UNCHANGED <<now, view, pos, procs, acked, lost, failed, abandoned, crashes>>

\* PushToQueue, one event: without a processor the event is dropped, locked.  As
\* in batch, the order of the vector is left open.
PushToQueue(n) ==
  /\ pc[n] = "enqueue"
  /\ \E c \in ready[n] :
       LET b == BusinessOf[c.event]
       IN  /\ ready' = [ready EXCEPT ![n] = @ \ {c}]
           /\ pc' = [pc EXCEPT ![n] = IF ready[n] = {c} THEN "sleep" ELSE "enqueue"]
           /\ IF b \in Registered
                THEN /\ queue' = [queue EXCEPT ![n][b] = Append(@, c)]
                     /\ UNCHANGED abandoned
                ELSE /\ abandoned' = abandoned \cup {c.event}
                     /\ UNCHANGED queue
  /\ UNCHANGED <<db, pos, batch, result, claims, unlocked, stale, acked, lost, failed,
                 crashes>>

(***************************************************************************)
(* PushProcessor::Run, one thread per node and registered business.  The   *)
(* popped event stays at the head of queue until the loop body ends: no    *)
(* other thread looks at the queue's length.                               *)
(***************************************************************************)
\* Process of each business: whatever fails before SendPush returns false with
\* nothing sent; SendPush returns true only if the link server's answer arrives
\* and says so; with use_hotel off a hotel event returns true and sends nothing.
Process(n, b) ==
  LET c == Head(queue[n][b])
      e == c.event
      Returns(r) == result' = [result EXCEPT ![n][b] = r]
  IN  /\ queue[n][b] # <<>> /\ result[n][b] = "none"
      /\ \/ /\ Returns("false")
            /\ UNCHANGED <<acked, lost>>
         \/ /\ b \notin Muted
            /\ Returns("false")
            /\ lost' = [lost EXCEPT ![e] = @ \cup {c.no}]
            /\ UNCHANGED acked
         \/ /\ b \notin Muted
            /\ Returns("true")
            /\ acked' = [acked EXCEPT ![e] = @ \cup {c.no}]
            /\ UNCHANGED lost
         \/ /\ b \in Muted
            /\ Returns("true")
            /\ UNCHANGED <<acked, lost>>
      /\ UNCHANGED <<db, sched, queue, claims, unlocked, stale, failed, abandoned, crashes>>

\* The UPDATE after Process; its result is ignored.
UpdatePushStatus(n, b) ==
  LET c == Head(queue[n][b])
      e == c.event
      s == FinalStatus(result[n][b])
  IN  /\ result[n][b] # "none"
      /\ \/ /\ status' = [status EXCEPT ![e] = s]
            /\ failed' = IF s = "Failed" THEN [failed EXCEPT ![e] = @ \cup {c.no}]
                         ELSE failed
            /\ UNCHANGED abandoned
         \/ /\ "final" \in SqlFaults
            /\ abandoned' = abandoned \cup {e}
            /\ UNCHANGED <<status, failed>>
      /\ queue' = [queue EXCEPT ![n][b] = Tail(@)]
      /\ result' = [result EXCEPT ![n][b] = "none"]
      /\ UNCHANGED <<now, view, sched, claims, unlocked, stale, acked, lost, crashes>>

\* The process of node n dies and is started again: only the table survives.
Crash(n) ==
  /\ crashes < MaxCrashes
  /\ crashes' = crashes + 1
  /\ abandoned' = abandoned \cup HeldEvents(n)
  /\ view' = [view EXCEPT ![n] = NoView]
  /\ pc' = [pc EXCEPT ![n] = "sleep"]
  /\ pos' = [pos EXCEPT ![n] = -1]
  /\ batch' = [batch EXCEPT ![n] = {}]
  /\ ready' = [ready EXCEPT ![n] = {}]
  /\ queue' = [queue EXCEPT ![n] = [b \in Business |-> <<>>]]
  /\ result' = [result EXCEPT ![n] = [b \in Business |-> "none"]]
  /\ UNCHANGED <<status, now, claims, unlocked, stale, acked, lost, failed>>

Scheduler(n) ==
  \/ GetNodePos(n) \/ FetchPushEvents(n) \/ FilterPushEvents(n)
  \/ SkipLocked(n) \/ Lock(n) \/ PushToQueue(n)

Processor(n, b) == Process(n, b) \/ UpdatePushStatus(n, b)

Next ==
  \/ Tick
  \/ \E n \in Node :
       \/ ChangeView(n) \/ Crash(n)
       \/ GetNodePos(n) \/ FetchPushEvents(n) \/ FilterPushEvents(n)
       \/ SkipLocked(n) \/ Lock(n) \/ PushToQueue(n)
       \/ \E b \in Business : Process(n, b) \/ UpdatePushStatus(n, b)

Spec == Init /\ [][Next]_vars

\* Every thread that can run eventually runs: a scheduler sleeps a bounded time
\* and each processor waits only for its queue; the clock, the views and the
\* crashes are the environment's.
FairSpec ==
  /\ Spec
  /\ \A n \in Node : WF_vars(Scheduler(n))
  /\ \A n \in Node, b \in Business : WF_vars(Processor(n, b))

-----------------------------------------------------------------------------
TypeOK ==
  /\ status \in [Event -> PushStatus]
  /\ now \in 0..MaxTime
  /\ view \in [Node -> View]
  /\ pc \in [Node -> {"sleep", "fetch", "filter", "lock", "enqueue"}]
  /\ pos \in [Node -> Int]
  /\ batch \in [Node -> SUBSET Row]
  /\ ready \in [Node -> SUBSET Claim]
  /\ queue \in [Node -> [Business -> Seq(Claim)]]
  /\ result \in [Node -> [Business -> {"none", "true", "false"}]]
  /\ claims \in [Event -> Nat]
  /\ unlocked \in [Event -> Nat]
  /\ stale \in [Event -> Nat]
  /\ acked \in [Event -> SUBSET Nat]
  /\ lost \in [Event -> SUBSET Nat]
  /\ failed \in [Event -> SUBSET Nat]
  /\ abandoned \subseteq Event
  /\ crashes \in 0..MaxCrashes

\* An event is acknowledged by the link server at most once, plus once for every
\* lock whose UPDATE failed and every lock taken on a row somebody had locked or
\* finished since the SELECT: a failed push is retried, but no crash, lost answer
\* or failed final UPDATE alone makes PushScheduler push an acknowledged event
\* again.
DuplicatesAccounted ==
  \A e \in Event : Cardinality(acked[e]) <= 1 + unlocked[e] + stale[e]

\* Once a push was acknowledged the row stays closed to PushStatusFilter, unless a
\* lock failed or was taken twice: no late kPushFailed reopens it.
AckedStaysClosed ==
  \A e \in Event :
    acked[e] # {} /\ unlocked[e] = 0 /\ stale[e] = 0 => ~ Claimable(status[e])

\* A row stays kPushProcessing with nobody working on it only after a crash, a
\* failed final UPDATE or an event dropped by PushToQueue.
StuckHasCause ==
  \A e \in Event :
    status[e] = "Processing" /\ (\A n \in Node : e \notin HeldEvents(n)) => e \in abandoned

\* kPushSuccess means that some push of the event was acknowledged, unless sending
\* is switched off for its business.
SuccessMeansAcked ==
  \A e \in Event :
    status[e] = "Success" => acked[e] # {} \/ BusinessOf[e] \in Muted

\* The two columns of the table that say how a push went tell the truth, whatever fails.
StatusIsTrue == StuckHasCause /\ SuccessMeansAcked

\* "lock the data by mysql push status" (filter.cc:157): no two nodes work on one
\* event at the same time.
LockHolds ==
  \A n, m \in Node : n # m => HeldEvents(n) \cap HeldEvents(m) = {}

-----------------------------------------------------------------------------
\* The partitions no membership change makes overlap, whichever view node_pos and
\* node_cnt come from.
ExclusiveViews ==
  \A n, m \in Node : n # m =>
    \A v1, v2 \in Views[n], w1, w2 \in Views[m], e \in Event :
      /\ v1.pos >= 0 /\ v2.cnt > 0 /\ Selects(v1.pos, v2.cnt, e)
      => ~ (w1.pos >= 0 /\ w2.cnt > 0 /\ Selects(w1.pos, w2.cnt, e))

\* What a node claimed it lets go: pushed, failed, dropped or lost in a crash.
EveryClaimEnds ==
  \A e \in Event, n \in Node : e \in HeldEvents(n) ~> e \notin HeldEvents(n)

\* A pending event is eventually claimed, if from some moment on it is in its push
\* window, passes the filters, and one node keeps the view that selects it.
PendingIsClaimed ==
  \A e \in Event \ (Closed \cup Abroad), n \in Node :
    \A v \in {w \in Views[n] : w.pos >= 0 /\ w.cnt > 0 /\ Selects(w.pos, w.cnt, e)} :
      <>[](view[n] = v /\ (IsTest \/ IsValidPushTime(e))) => <>(status[e] # "Pending")

-----------------------------------------------------------------------------
\* The node that works on an event, seen from the abstract specification.
None == "none"
Holder(e) == IF \E n \in Node : e \in HeldEvents(n)
               THEN CHOOSE n \in Node : e \in HeldEvents(n)
               ELSE None

Lifecycle == INSTANCE PushLifecycle WITH holder <- [e \in Event |-> Holder(e)]

\* With exclusive partitions and locks that do not fail the pipeline implements
\* PushLifecycle.
ImplementsLifecycle == Lifecycle!Spec
=============================================================================
