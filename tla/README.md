# TLA+ models of push-recommend

push-recommend is the back end of an "intelligent push" for smart watches: it turns
orders (train, flight, movie, hotel) into reminders, pushes the reminders to the user's
watch at the right time, and recommends news. This directory holds TLA+ modules that
model its core, TLC configurations that check them on small instances, and proofs of their
safety properties that TLAPS checks for every instance.

- [Inventory](#inventory): the parts of the system, their state, what can go wrong
- [Modules](#modules): which module models what
- [Runs](#runs): what each run checks, its bounds, the fairness it assumes
- [Findings](#findings)
- [Proofs](#proofs)
- [Plan](#plan): modules and theorems still to be written
- [Not modelled](#not-modelled)

## Inventory

| Part | State | Operations | Talks to | Hard about it |
|---|---|---|---|---|
| `push_controller`: `PushScheduler`, filters | a vector of events per round | SELECT the partition, filter, lock row by row, hand over | MySQL `push_event_info`, `ZkManager`, feedback service, processors' queues | the lock is an unconditional UPDATE; node position and count are read separately; every SQL failure is swallowed |
| `push_controller`: `PushProcessor` and its four businesses | a queue in memory | pop, build a message, send it, write the final status | MySQL, link server, info services | crashes lose the queue, answers get lost, the final UPDATE may fail |
| `push_controller`: `PushPoolUpdater`, `UpdateTimeBackup`, business processors | `last_updated_`, its backup row | SELECT changed orders, derive events, insert or update them | MySQL `user_order_info`, `push_event_info`, `push_controller_backup`, `ZkManager` | the watermark moves before the work is done; whole seconds; one backup row for all nodes; no transactions |
| `ZkManager` | ZooKeeper session, own leaf, `watched_table_` | register, watch, answer position and count | ZooKeeper | sessions expire, watches fire once, calls fail half way, restarts meet their own past |
| `push_controller`: news push | a queue of users, Redis keys of stories | on request: push the best story to every user of the partition | recommender, Redis, link server | get, set and expire are three commands; one failure among many users; a broken connection ends the process |
| `message_receiver`, `message_producer`, `util/kafka` | queues | kafka or redis message to a row of `user_order_info` | kafka, Redis, MySQL | results ignored, aborts on malformed input, shutdown behind a blocking pop |
| `serving/flight` | Redis hash per flight and day, table `flight_no` | refresh in a loop and on a miss, answer queries | flight data provider, Redis, MySQL | check-then-write over Redis, retry loops, expiry |
| `serving/train` | tables of trains and time tables, queue of unknown trains | update one train or all of them, answer queries | web sites, MySQL | two writers row by row, a query of two SELECTs, batching, swallowed row errors |
| `serving/user_feedback` | table of what each user has switched on or off | set, query | MySQL | select-then-insert, several businesses without a transaction |
| `recommendation/news/crawler` | visited set per site, rows of `news_info` | crawl the sites, parse, save | web sites, MySQL | a page is visited long before it is saved, several threads, a lost connection |
| `recommendation/news/ranker` | `last_ranking_time_`, hot terms, scores in `news_info` | score the documents of the day | MySQL | two reads at two moments, failures that count as success, whole seconds, midnight |
| `recommendation/news/recommender` | none | list stories by score, or from the toutiao service | MySQL, toutiao service | a loop without end when the service is down |

What makes them correct:

- *push pipeline*: an event is pushed at most once unless a push failed, at least once
  while its window lasts, and its row tells the truth about it;
- *timing*: a due event is read, pushed while its window lasts, and before the booking;
- *pool updater*: every version of an order reaches the pool, and the events of one order
  come from one version;
- *membership*: the running processes share out the fingerprints without gap or overlap;
- *flight cache*: the plan gate is the first one, entries expire, a flight that is asked
  for becomes answerable;
- *reminders*: what is sent is wanted, says the right day, and a push that fails is tried
  again until it succeeds or has become pointless;
- *news push*: every user of a round is served, with the best story there is, and the watch
  finds the story in Redis;
- *ingestion*: an accepted message becomes exactly one order;
- *train and feedback services*: what was answered with success is what queries see, and
  a time table is of one edition;
- *crawler, ranker*: a page that was visited is stored, and what is stored gets ranked.

Most of this fails in some schedule of the code as it is. The properties below therefore
come in a form that names the causes: *if* something goes wrong, one of a short list of
events happened. History variables record these events, and a mutant of the code breaks
each property.

## Modules

| Module | Models |
|---|---|
| `PushPipeline` | `push_scheduler.cc`, `filter.cc`, `push_processor.cc`, `push_sender.cc` on a cluster |
| `PushLifecycle` | what the pipeline promises of one event: claim, finish, abandon |
| `PushPipeline_proofs` | theorems about `PushPipeline` |
| `OrderPool` | `push_pool_updater.cc`, `update_time_backup.cc`, `business_processor.cc` on a cluster |
| `OrderPool_proofs` | theorems about `OrderPool` |
| `ZkMembership` | `zookeeper_util.cc` and as much of ZooKeeper as it uses |
| `ZkMembership_proofs` | theorems about `ZkMembership` |
| `BookingTimes` | the tables of event times of `business_processor.cc`, `MakePushTime`, the SELECT's dates, the push window |
| `PushTiming` | the rounds of the scheduler, on one node with real seconds |
| `PushTiming_proofs` | theorems about `PushTiming` |
| `Ingestion` | `message_producer`, `util/kafka`, `message_receiver` |
| `Ingestion_proofs` | theorems about `Ingestion` |
| `FlightCache` | `serving/flight` and the commands of `redis_util.cc` it uses |
| `FlightCache_proofs` | theorems about `FlightCache` |
| `PushMessages` | which reminder gets which message, or none; the versions and channels of watches (`*_push_processor.cc`, `version_filter`) |
| `UserFeedback` | `serving/user_feedback` |
| `TrainInfo` | `serving/train` |
| `Reminders` | scheduler and the four push processors with the services they ask; composes the four modules above |
| `Reminders_proofs` | theorems about the rounds of `Reminders` and the two services in it |
| `NewsCrawl` | `recommendation/news/crawler` |
| `NewsRank` | `recommendation/news/ranker` |
| `NewsPush` | `recommendation/news/recommender` and `push_controller/news` |
| `News` | crawler, ranker, recommender and news push over one `news_info` |
| `News_proofs` | theorems about `News` and its three parts |
| `MCPushPipeline`, `MCPushTiming`, `MCOrderPool`, `MCIngestion`, `MCZkMembership`, `MCFlightCache`, `MCReminders`, `MCNews` | instances for TLC |

How they hang together:

```
Ingestion --user_order_info--> OrderPool --push_event_info--> PushPipeline ==> PushLifecycle
                                                              PushTiming
                               ZkMembership --views-->        Reminders = BookingTimes + PushMessages
FlightCache --flight data-->                                              + UserFeedback + TrainInfo
News = NewsCrawl + NewsRank + NewsPush (over news_info)
```

`PushPipeline`, `PushTiming` and `Reminders` are three cuts through the same loop: the
first has the cluster and the faults of its statements, the second real time and orders
that move, the third what each processor asks and says.

### PushPipeline

Variables follow the code: `status` is the column `push_status`; per node, `pc`, `pos`
and `batch`/`ready` are the scheduler's program counter, its local `node_pos` and the two
parts of its vector `push_events` (rows not locked yet, rows locked); `queue` and `result`
are a processor's queue and the return value of `Process`. One action per step another
thread or node can come between: `GetNodePos`, `FetchPushEvents` (`GetTotalNodeCnt` and
the SELECT), `FilterPushEvents` (time, feedback and wear-model filters), `SkipLocked` and
`Lock` (`PushStatusFilter`, one row each), `PushToQueue`, `Process`, `UpdatePushStatus`,
`Crash`. `ChangeView` shows a node any of the views listed for it, so the torn pair
(old position, new count) occurs. Every statement whose failure the code ignores may fail.

A *claim* is one passage of an event through `PushStatusFilter`. The history variables
count claims, those whose lock failed (`unlocked`), those made on a row somebody had
locked or finished since the SELECT (`stale`), and remember which were acknowledged, whose
answer was lost, and which were written back as failed.

A step may merge a read and the decision it leads to only where no other actor can tell:
the queue keeps the popped event at its head until the loop body ends, since nobody looks
at the queue's length; the three filters before the status filter read nothing another
step writes, except the clock. The SELECT's date condition is left out: the clock never
leaves the three days it allows. Only cluster mode is modelled; without it the SELECT
does not ask for `fingerprint_id`, which the loop then reads (`push_scheduler.cc:166`).

### PushLifecycle

Per event a status and a holder. `Claim` takes a pending or failed event nobody holds,
`Finish` writes a final status, `Abandon` lets go of events of one node without one.
`PushPipeline` implements it if partitions do not overlap and locks do not fail
(`ImplementsLifecycle`, with `holder` read off the queues); nothing weaker will do, as
the run `pipeline_lock` shows.

### PushTiming

The same loop as `PushPipeline` with other things kept and left out: one node and no
failing statements, but real times. These are in `BookingTimes`: `EventTimeRelation` and
`EventTypes` are the four tables of `business_processor.cc`, `MakePushTime` the day
arithmetic of `time_util.cc`, `Selects` the three dates of the SELECT, `IsValidPushTime`
the filter. `UpdatePushEvent`
writes all events of an order at once (its single statements are in `OrderPool`) and may
do so again with another time of the booking, which changes `push_time` and nothing else.
Time passes between any two steps. `booking` in a row that was read is what its
`push_time` was derived from. History: when a row was last written or given back by the
processor (`since`, `touched`), and the longest time from a SELECT to the filters of the
next round (`lag`), which is what an event that becomes claimable at a bad moment has to
wait. The days have no daylight saving time; with it, `tm_isdst` that `MakePushTime`
leaves unset would matter.

### OrderPool

An order is its version number, and a row of the pool remembers the version it was
written from: `CreatePushEvent` is a function of the order row. `lastUpdated`, `backup`,
`updated` are whole seconds of `clock`. The loop over the orders (`todo`) and the events
(`cur`, `at`) is unfolded to single statements, since another node may write the same
rows. `GetInt` is modelled as the conversion it is: the low half of the unsigned column,
signed (`IntRange` is 2^32 in the code and 8 in the instances). A `CHECK` on the order
detail ends the process (`AbortOrder`).

The variable `gap` collects versions that may stay out of the pool, each with its cause:
`late` (changed in the second of its owner's query, after it), `skipped` (its partition
moved, or a restart read a later backup), `failed` (could not be parsed or stored),
`mismatch` (`CheckAttribute`), `crash` (lost with the process) and `overwritten` (a node
with an older snapshot wrote last).

### Ingestion

A message is its kind, user and month; what a text contains is data. `topic`,
`committed`, `position` are Kafka's, per partition; `queue` is `message_queue_`; `pc`,
`cur` and `order` are the processor thread between the statements of `ProcessQueue` and
`ParseJsonMessage`. librdkafka is external: it commits in the background what
`consume()` has returned, may send a message twice, take a partition away (`Rebalance`),
or return an error event, whose text is pushed into the queue like a message
(`PushError`). A failing `CHECK` of `ParseJsonMessage` ends the process (`Abort`).

`ShortDatetimeToTimestamp` and `ShortDatetimeToTimestampNew` infer the year, which depends
on months only, so the clock counts months. A text that is no date leaves the
`struct tm` of the second function uninitialised; the result is any member of `Garbage`.
The field `tm_isdst`, which it never sets, has no effect in a zone without daylight
saving time. Left out: the truncation of a payload at a NUL byte, the receiver over
Redis publish/subscribe, shutting down, and how the regular expressions find the fields
of a raw message.

`gap` collects messages that may have no row of their own, with the cause: `unproduced`
(`Produce` failed; the client is told success), `empty` (no payload), `broken` (no JSON,
no rule, or a kind that is not supported), `misshapen` (a `CHECK`), `taken` (the order id
is there, from another message), `sql` (the INSERT failed), `crash` (in memory and
already committed).

### ZkMembership

The handlers `GlobalWatcher` calls run on one thread, in event order, and are split at
every call of the ZooKeeper library: list and watch, read the leaves, create. `table` is
`watched_table_`, with the position of each leaf in its list. A leaf that cannot be read
leaves a hole in the positions, as in the code. ZooKeeper is external: ephemeral
sequential leaves, one-time watches, sessions that expire while their client is away,
and a list whose order is the same for everybody who reads the same leaves (ZooKeeper
does not promise an order; `GetNodePos` and `mod(fingerprint_id, n)` rely on one).
`GetNodePos` takes the first of several entries with the same host, as the set order
by path does.

### FlightCache

One flight and day: `key` is the hash in Redis with `plan_gate` and `actual_gate` (the
other fields are always written together) and whether it has an expiry. A refresh is
split at every Redis command. `retry_cnt` is modelled as it runs: the loop
`while (retry_cnt-- > 0)` followed by `if (retry_cnt == 0)` takes a success at the third
attempt for a failure and three failures for a success.

### Reminders, PushMessages

One order of one user on one node, with the steps between which another actor can come:
`FetchPushEvents` (SELECT), `FetchDevices` (the look-up of the watches, one exception
ends it for the rest of the batch), `FilterUserFeedback` (one request per row),
`LockPushEvents`, then per event `GetUserOrder`, one `Process...` per business, the
services it asks (`GetTimeTable` for trains, `FetchWeather`), `SendPush`,
`UpdatePushStatus`. `worker` is the processor thread: its `pc` and what it has read. The
environment changes the order (to its next version), the watch, the flight's data and
the clock at any moment; `UpdatePushEvent` reschedules as the updater does. A row
remembers the version of the order its time came from (`made`) and what the user had been
told when the filter asked (`told`).

`PushMessages` holds the conditions of the `Build...`, `Append...` and `Handle...`
functions: a message is what it says of the time ("tomorrow", a time without a date, a
gate, ...), and `Nothing` where the code returns false. Which fields of the flight data
are empty or cannot be split decides, as in the code. The watch's version is compared as
`CheckVersionGreaterThan` does.

The scenes fix a business, the versions of the order, the moments of the clock and the
number of faults, so that TLC need not multiply the businesses.

### UserFeedback

The table's rows of one user (`feedback`), and per request its thread between the SELECT
and the UPDATE or INSERT of each business it names. An INSERT that meets a row fails on
the key and the request with it, what it wrote before stays. `QueryUserFeedback` answers
an error when there is no row. `said` remembers what a user may rely on: the answer to a
request that nothing interfered with.

### TrainInfo

`timeTable` is `train_time_table`, `trainNo` the table of known numbers, `trainNoQueue`
the queue of unknown ones. The two writers, `TrainDataUpdater` and the handler of
`/train/update_timetable`, are split at every page and at the SELECT and UPDATE or INSERT
of every row; `SendQuery`, `QueryPosition` and `QueryStations` are a query with its two
SELECTs. `Batches` is the arithmetic of `UpdateTimeTable`, quotient and rest. A page may
end early, a row may fail, a new edition may have fewer stations, and no row is deleted:
a train for which that happened is `torn`.

### NewsCrawl, NewsRank, NewsPush, News

A page is what the code tests of it: whether it parses, whether summary, source, time and
topic are there. `NewsCrawl` follows `FetcherThread::Process` per site: `FetchLinkVec`
lists the links and hands them to the content threads, `CheckVisited` and `FetchContent`
are the two locked sections of such a thread, `ParseVec` the parsing once all have joined,
`SaveNews` one INSERT, `PassEnds` the end of the round with `DoClear`'s midnight.
`visited` is `visited_set_`, `lost` the pages whose INSERT or whose connection failed
since it was cleared.

`NewsRank` splits `RankingThread` at its statements: `WakeRanker` (is there anything newer
than `last_ranking_time_`?), `ReadHotDocs`, `ReadRankingDocs`, one `WriteDoc` per document,
`RankingEnds`. The score is kept as the terms it is made of (`Score`); the weight of a term
is its frequency (the code has tf and idf, which orders the same documents differently but
reads the same rows). `pass` remembers when the two reads of the last pass were made and
whether a call failed.

`NewsPush` has a step for every call of a round: `BeginNewsPush` and `GetUsers` (position
and count of the node, the users of the partition), `CheckWatch` (version and channel),
`GetRecList` (the recommender: `FetchDoc`, `TransformDoc`, `Sort`, or what toutiao lists;
and `ChooseRecContent`), `SaveRecContent` (GET and SET), `ExpireRecContent`, `SendNews`.
`RedisFatal` is the CHECK on a broken connection, which ends the process with the rest of
the round.

`News` puts the three side by side: they share the table `news` and the clock, nothing
else, and every step of one leaves the others alone.

## Runs

All counts are for `-workers 2`.

| Run | Instance | Shows |
|---|---|---|
| `pipeline_faults` | 2 nodes, 2 rows (one without a processor), overlapping views, failing SELECT, lock and final UPDATE, 1 crash, at most 2 claims of row 2 | `DuplicatesAccounted`, `AckedStaysClosed`, `StatusIsTrue` |
| `pipeline_exclusive` | 2 nodes, 2 rows (one hotel, switched off; one opens later), views that never overlap, failing final UPDATE, 1 crash | `ImplementsLifecycle`, `EveryClaimEnds`, `PendingIsClaimed` |
| `pipeline_lock` | 2 nodes, 1 row, a node joins, nothing fails | `LockHolds` is violated (see Findings) |
| `order_pool_lone` | 1 node, 2 orders of 2 events, up to 3 versions, one fingerprint beyond an int, malformed and non-object details, failing backup, 1 crash, 2 seconds | `LonePoolIsSound`, `EveryOrderScheduled` |
| `order_pool_cluster` | 2 nodes whose views move, 1 order of 2 events and 2 versions, failing event statements and restores, 1 crash, 2 seconds | `PoolFollows` |
| `push_timing` | 1 flight, for 0:50 or a day later, created and changed at any time; ticks of 20 minutes from 22:30 to 7:30, a window of 30, rounds of up to 40 | `DueIsFetched`, `MissedHasCause`, `RemindersInTime`, `AcknowledgedOnce` |
| `ingestion` | 5 messages (flight, hotel, a flight without date, misshapen, empty), 1 partition, 2 requests, December and January, all faults, 1 mishap (repeated send, rebalance, error event or crash) | `BookedOnce`, `LossHasCause`, `UploadedHasRow`, `EverySentSettles` |
| `zk_membership` | 2 processes, 1 crash, 1 lost connection, any expiry | `SettledTables`, `RegistrationHasCause`, `TablesConverge` |
| `flight_cache` | 2 refreshes, 2 gates, 2 changes, 1 expiry, 2 faults | `PlanGateNeedsRace`, `BrokenHashHasCause`, `EventuallyAnswered` |
| `flight_plan_gate` | 2 refreshes, 2 gates, nothing fails | `PlanGateKept` is violated (see Findings) |
| `reminders` | 8 scenes: films with and without feedback requests (2 at once), hotels switched on and off, a flight over three days, a train with its time table, and updates of all trains with and without the other writer; up to 5 moments, 3 watches, 2 versions of an order, 1 fault of each kind | `PushIsWanted`, `DayIsRight`, `SaidIsStored`, `TimetableTold`, `UpdateReachesAll`, `EventuallyReminded` |
| `news` | 7 scenes: one site with 2 faults, two sites, crawling while ranking, ranking over midnight with 2 faults, pushes of ranked stories and of toutiao's, and all together; days of three instants, 9 pages of 3 sites, 2 content threads, 3 users, lists of 2 stories, 2 hot terms | `NewsAccountedFor`, `SettledIsRanked`, `PushedIsSound` |

One run per module also checks its type invariant. Some properties are conjunctions of
named parts, each with its own comment: `StatusIsTrue`, `LonePoolIsSound`, `PoolFollows`,
`SettledTables`, `RegistrationHasCause`, `BrokenHashHasCause`, `PushedIsSound`.

**Why the bounds are enough.** Every hazard listed in PROJECT.json needs at most two
nodes, one event or order, and one or two faults; the instances have that and one more
object for the interplay. A second claim of a row is what a duplicate is made of, a third
only repeats it. Two seconds of clock tell "in the second of the query" from "later".
In `push_timing` a tick of 20 minutes puts
events before, in and after a window of 30 and rounds on both sides of midnight; a second
change of the order is what rescheduling needs. In `ingestion` two requests are two
messages or the same one twice, on both sides of a new year.
In `reminders` the moments are chosen per scene: one in the window of each event and one
after it, and the minutes before and after midnight for the flight. A batch size of 2
with 3, 2 and 1 trains gives a batch with a rest, one without, and no batch at all. In `news` a day has three instants, the second of
which is 20:00, the bound `FetchDoc` uses; a page published before and after it, a pass
over midnight and a document written in the very instant of a pass all occur.

`MaxTime`, `MaxLag`, `MaxMonth`, `MaxPosts`, `MaxMishaps`, `MaxClaims`, `MaxCrashes`, `MaxLosses`, `MaxChanges`, `MaxExpiries`,
`MaxFaults`, `MaxTrainNoQueue`, the number of versions (the length of `Detail`) and, in a
scene of `Reminders` or `News`, its moments, versions, requests and numbers of faults are
the only bounds; each is a guard of the environment's actions, of the INSERT into the
queue of train numbers or, for `MaxClaims`, of the SELECT.

**Fairness.** Weak fairness per thread: a scheduler, an updater and a refresh loop sleep a
bounded time, a processor waits only for its queue, the ZooKeeper event thread and
`SessionThread` run, the consumers and the processor thread of the receiver run (commits
in the background are not relied on). `Reminders` assumes weak fairness of the
updater, the scheduler, the processor, the query for a time table and `TrainDataUpdater`,
each a thread or a call that is waited for; nobody has to change an order, send feedback
or ask for an update of all trains. `push_timing` and `news` check safety only. Of the environment, only two things are fair: the ZooKeeper library
reconnects or reports expiry, and the session of a dead process expires. Clock, orders,
views, crashes and faults are not fair. `PendingIsClaimed` and `EveryOrderScheduled`
assume in their statement that one node keeps the right view from some time on, and
`EverySentSettles` that no message that aborts the process stays uncommitted.

Deadlock is not checked: once the bounds are used up and all work is done the models
legitimately stop (the code would sleep and poll).

## Findings

- **The lock is not a lock** (`pipeline_lock`). `filter.cc:157` says "lock the data by
  mysql push status: kPushProcessing". The UPDATE behind it names the row by id only and
  its result is ignored. While a node joins, both nodes select the row, both "lock" it,
  both push it. What remains true is proved: see `DuplicatesBounded`.
- **The plan gate is not kept** (`flight_plan_gate`). `flight_db_interface.cc:213` says
  that `plan_gate` is inserted the first time and never updated. Two overlapping refreshes
  replace it, and the gate change is then reported as no change.

## Proofs

TLAPS proves every safety property that a run checks and expects to hold, for all values
of the constants that satisfy the assumption of the module, and some that no run checks.
Each theorem rests on an inductive invariant, listed below part by part. The parts are
ordered: the types first, then what needs the types.

`PushPipeline_proofs` (`ConstantsOK`: any number of nodes, events and businesses, any
views, any set of failing statements):

| Theorem | Says |
|---|---|
| `TypeCorrect` | `Spec => []TypeOK` |
| `DuplicatesBounded` | `Spec => []DuplicatesAccounted`: acknowledged pushes of an event are at most one, plus its failed locks, plus its late locks |
| `AckedNotReopened` | `Spec => []AckedStaysClosed`: after an acknowledged push, no late `kPushFailed` reopens the row |
| `StatusTells` | `Spec => []StatusIsTrue`: a row stuck in `kPushProcessing` has a cause, and `kPushSuccess` means an acknowledged push |
| `PipelineImplementsLifecycle` | `Spec => ImplementsLifecycle`, if partitions are exclusive and locks do not fail |
| `StableClusterImplementsLifecycle` | so does a cluster whose nodes count alike and have different positions |

The argument for duplicates counts the *rights to claim* an event. A row
that is pending or failed grants one right; making a claim uses it up; writing
`kPushFailed` gives it back and closes that claim for good. The inductive invariant
`ClaimInv` is a conjunction of

- `TypeInv`: the types, and that a result exists only for an event at the head of a queue;
- `Numbered`: claims in flight are numbered at most `claims[e]`, as are settled ones;
- `Distinct`: no claim is in two places;
- `Unsettled`: a claim in flight is not yet failed, and acknowledged only if it is at the
  head of its queue with result "true"; acknowledged and failed claims are disjoint;
- `Balance`: claims made, plus one if the row is claimable, are at most one plus failed
  locks plus late locks plus claims written back as failed.

From `Balance` and the disjointness the acknowledged claims number at most
`claims - failed`, which is `DuplicatesAccounted`; and a claimable row next to an
acknowledged claim would need two rights, which gives `AckedStaysClosed`. The proof has
one lemma per action that moves a claim. `StatusIsTrue` needs `TrueMeansAcked` besides: a
processor about to write `kPushSuccess` has sent the push, or its business is off.

The refinement assumes `ExclusiveViews` (whatever pair of views position and count come
from, no two nodes select one event), `"lock" \notin SqlFaults`, and that `None` is no
node. Its invariant `OwnInv` says that a node holds only events of its partition
(`InPartition`), each in one claim (`OneClaim`) whose row is `kPushProcessing`
(`HeldIsLocked`), and that a row its snapshot shows claimable still is
(`SnapshotIsFresh`). Then `Lock` is `Claim`, `UpdatePushStatus` is `Finish`, or `Abandon`
if its statement fails, `Crash` and a `PushToQueue` that finds no processor are `Abandon`,
and every other step is a stutter.

`PushTiming_proofs` (`TimingConstantsOK`: any orders and times, any window up to the half
hour of the shortest reminder, any delays):

| Theorem | Says |
|---|---|
| `TimingTyped` | `Spec => []TypeOK` |
| `SelectCoversDue` | `Spec => []DueIsFetched`: the three dates of the SELECT contain every event that is due when the filters run |
| `NoneSteppedOver` | `Spec => []MissedHasCause`: no event is stepped over by rounds that are fast enough |
| `OnTime` | `Spec => []RemindersInTime`: which reminders can come after the booking |
| `OneAcknowledgement` | `Spec => []AcknowledgedOnce` |

The times rest on three lemmas of arithmetic: `EventTimes` (what the tables come to),
`WindowBeforeBooking` (an event in its window against its booking), `DueIsSelected` (a due
time is at most a day from the SELECT). `RowInv` says that rows, batch and queue hold
times derived from the booking. `MissInv` is the strengthening of `MissedHasCause`: an
event that is still claimable was written, or falls due, after the last SELECT whose
filters have run, or is beyond help already. A filter step keeps it because what it
leaves behind was written since the SELECT, is not due yet, or is past its window, and
then the time since the SELECT before explains it. `QueueInv` says that what is queued is
locked and queued once.

`OrderPool_proofs` (`PoolConstantsOK`: any nodes, orders, versions and views):

| Theorem | Says |
|---|---|
| `PoolTypes` | `Spec => []TypeOK` |
| `PoolKeepsUp` | `Spec => []PoolFollows`: a change waits to be selected, is on its way, is in the pool, or is in `gap` with its cause |
| `EventsTellOneStory` | `Spec => []EventsAgree`: between two rounds the rows of an order no version of which was lost are of one version |
| `LonePool` | `Spec => []LonePoolIsSound`, if a lone node sees itself alone or nobody |

The lemma `Effects` says of each action, in terms of one order, what it may do to its
version, its rows and its way to the pool; the invariants are proved from that.
`PlaceInv` says where the updater carries orders (`Places`), `FollowInv` adds `NotNewer`
(nothing on the way is newer than the order), `StoryInv` adds `Passed` (the events before
the one being written have its version) and `Follow` (a row that lags behind another is
about to be written). A lone node needs two more parts: by `LoneTimes` no time it goes
by, the backup included, passes an order that was not selected, and by `LoneCarries` it
carries an order once, in a version no row is newer than.

`ZkMembership_proofs` (any number of processes, losses and crashes):

| Theorem | Says |
|---|---|
| `MembershipTypes` | `Spec => []TypeOK` |
| `LeavesHaveCauses` | `Spec => []RegistrationHasCause`: one leaf per running process, but for two causes |
| `TablesAgree` | `Spec => []SettledTables`: at rest all tables agree and their positions cover the list |
| `PartitionIsShared` | at rest every fingerprint, not only those of an instance, is selected by exactly one process |

`MembershipInv` has the types; `ApartInv` (sessions and leaves belong to one process
each); `WatchKept`, which is the reason no change is missed: a connected process has an
event to handle, is on its way to the list, or shows the leaves as they are with an armed
watch; and `RegisterInv` (who has read all leaves knows whether it is registered). That
positions cover the list is counting: an injection of the leaves into an interval of the
same size is onto. `PartitionIsShared` and `StableClusterImplementsLifecycle` are the two
halves of the composition of `ZkMembership` with `PushPipeline`.

`Ingestion_proofs` (`IngestionConstantsOK`):

| Theorem | Says |
|---|---|
| `MessagesTyped` | `Spec => []TypeOK`; what queue and processor hold is in the topic |
| `BookingsOnce` | `Spec => []BookedOnce`: the inferred year is right within three months, so a repeated message gives the same order id |
| `UploadsHaveRows` | `Spec => []UploadedHasRow` |
| `NothingElseLost` | `Spec => []LossHasCause`: a message answered with success is an order, on its way, or lost for a named cause |

`BookingsOnce` rests on the lemma `YearInferred` about the two sets of months, and on
`RowInv`: every row has a time `BusinessTimes` may give its message. `LossHasCause` speaks
of the committed offset; its strengthening `LossInv` says of every *consumed* message that
it is settled or in memory, so that a commit takes nothing away and the end of the process
exactly what it forgets.

`FlightCache_proofs` (`CacheConstantsOK`: any number of threads and gates):

| Theorem | Says |
|---|---|
| `FlightCacheTypes` | `Spec => []TypeOK` |
| `PlanGateChangesInRaces` | `Spec => []PlanGateNeedsRace`: only overlapping refreshes replace the plan gate |
| `BrokenHashesHaveCauses` | `Spec => []BrokenHashHasCause`: a hash without expiry or without plan gate has a named cause |

`TypeInv` replaces the cardinality in `TypeOK` by "one hash or none" (`OneHash`).
`PlanInv` says that without a race the only plan gate stored is the one the hash has
(`PlansOfHash`), and that a worker about to insert one finds none (`InsertIsFirst`);
`HashInv` that a key some worker has seen is there until it expires (`SeenKeyIsThere`).

`Reminders_proofs` (`RemindersConstantsOK`, `FeedbackConstantsOK`, `TrainConstantsOK`: any
scenes, any number of requests with any items, any trains with any editions, any queries):

| Theorem | Says |
|---|---|
| `ReminderTypes` | `Spec => []TypeOK` |
| `FeedbackKept` | `Spec => []SaidIsStored`: what a user was told last about a business is what the table holds |
| `OnlyWantedPushes` | `Spec => []PushIsWanted`: nothing is sent that had been switched off when the filter asked, and nothing abroad |
| `RightDay` | `Spec => []DayIsRight`: "tomorrow" is tomorrow, if the window is at most an hour |
| `TimetablesAreTold` | `Spec => []TimetableTold`: a query of two SELECTs answers the rest of one edition, but for named causes |
| `UpdatesReachAll` | `Spec => []UpdateReachesAll`: an update answered with success reaches every train listed, but for torn ones |

`FeedbackInv` says of a request under way that what is left is the end of its body
(`LeftIsEnd`), that the businesses it has to itself are named by no other
(`AloneIsAlone`), that of each of these the last item written is stored
(`WrittenIsStored`), and that nothing is said of what it names (`NothingSaid`). The answer
is about the last item of a body for a business, which exists by the lemma `AskedIsLast`,
a descent along the natural numbers (`WFMin`). That the known items of a body are a
sequence of known items is an assumption TLC evaluates, since `SelectSeq` is recursive.

`RoundInv` follows a row from the SELECT to the link server: an event is due when its
booking says so (`Scheduled`), a row in the vector was made from a version of the order
and was not switched off when asked (`BatchSound`), a queued one is in its window and its
watch not known to be abroad (`QueueReady`), and a message fits its event (`WorkerReady`).
The day is then arithmetic on the push window (`DayArithmetic`).

`TrainInv` says of every train that is not torn (`TrainSound`) that at most one writer has
rows of it, that table and rows together are one edition, that the table is one edition
while nobody is writing it, and that neither is older than what an update has covered
(`EditionsSeen`, `Filled`). A query under way knows its station's place as long as no row
was written (`QueryKnows`), and what has been answered is `TimetableTold` itself, which
therefore is part of the invariant. `WorkOK` says of a writer that it fetches all of a
batch before it writes and no train twice.

`News_proofs` (any pages, sites, users, moments, terms, and numbers of faults):

| Theorem | Says |
|---|---|
| `NewsTypes` | `Spec => []TypeOK` |
| `NewsIsAccountedFor` | `Spec => []NewsAccountedFor`: a visited page that can be used is stored, in hand, or lost with a cause |
| `RankingSettles` | `Spec => []SettledIsRanked`: a ranker at rest has scored the documents of the day by the hot terms of all of them, but for named causes |
| `PushIsSound` | `Spec => []PushedIsSound`: every user is served or passed over for a cause, with the best story there is, which Redis holds |

`NewsInv` has a part for each component. `CrawlInv`: what threads and fetchers have in
hand is listed, and `AccountedInv` for each site. `RankInv`: what a pass has read is a
`Snapshot`, all rows of that day that are older than the time the pass keeps; a step of
the crawler keeps it because rows only get newer. `PushInv`: the users left are those
not yet served, passed over or told (`UsersLeft`), the story about to be sent is in Redis
beyond the time it was kept (`KeptInv`), and it is the best (`BestIsChosen`). The loops
over links and stories are recursive functions of the model (`Only`, `Picked`); what they do
to a list follows from the lemmas `Recursion` (such a function exists) and `Upward` (what every
turn preserves holds at the end). `Kept` of `Reminders` is treated alike.

**Only model-checked.** All liveness properties, which TLAPS cannot reach (nor ENABLED):
`EveryClaimEnds`, `PendingIsClaimed`, `EveryOrderScheduled`, `EverySentSettles`,
`TablesConverge`, `EventuallyAnswered`, `EventuallyReminded`; and the two counterexamples.
What the built-in `SelectSeq` and the folds of the library compute is beyond the provers
too, for they are recursive and the induction theorems take an operator; where a proof
needs a fact about one it is an assumption TLC evaluates (`FeedbackConstantsOK`), or the
model has a recursive function in its place.

**Assumptions on constants.** They say what a program's data are: sets of pages, users and
trains are finite, moments are numbers before `Forever`, editions of a time table have
stations, batches and queues have room for one train. TLC evaluates each on the instances
of the runs. Assumed in a theorem, not of the module: `ExclusiveViews` and working locks
for the refinement, an honest view for `LonePool`, and `Window <= Hour` for `RightDay`
(the flag's default is 20 minutes).

## Plan

1. `PushController`: composition of `ZkMembership` with `PushPipeline` and `OrderPool`, to
   replace their arbitrary views by reachable ones. `PartitionIsShared` and
   `StableClusterImplementsLifecycle` are the two sides of it at rest; what is missing is
   the cluster in motion, where views are torn between old and new.
2. Theorems: the steps behind `PoolFollows` and `PlanGateNeedsRace` as action properties
   (what one step may do to the watermark, to the hash); the pipeline against
   `PushLifecycle` with locks that fail, weakened by what `DuplicatesAccounted` counts.
3. Requests for news pushes that overlap, as far as their Redis commands go.

## Not modelled

Message texts, JSON fields and log lines; the templates that cut title, time and text out
of a page; floating-point scores; protocol buffer and debug tools; the receiver over Redis
publish/subscribe; kafka logs of pushes; the table `flight_no`; the mobvoi base library,
hiredis, rdkafka, MySQL and ZooKeeper beyond what the modules say of them. PROJECT.json
lists every component with its status.

Left out because nothing but its shape could be said: the data race on `watched_table_`
(`zookeeper_util.cc:237`), the connection to Redis that http threads share
(`flight_db_interface.cc:29`), the loop over toutiao's categories
(`toutiao_trigger.cc:47`). `NewsPush` takes one request
at a time for the same reason.
`is_test` and the branch without cluster are position 0 of 1 with other users.
`QueryAllInternal` retries until the user service answers, so the list of users never
fails. A message that is no UTF-8 fails like a call.

Met while modelling, and in the models as the code has it:

- Switching everything off is stored and never honoured: no filter asks for "total"
  (`filter.cc:22`, `FeedbackBusiness`); hotels and news have no business to ask for, and
  the query does not report "news".
- Without `use_hotel` a hotel event succeeds and sends nothing.
- An update of fewer than 50 trains does nothing and answers success.
- A story is pushed again at each request: the key in Redis is for the watch to read, not
  to remember who was told.
- A document that holds no hot term keeps the score of an earlier pass.
- Pages of sina are kept for training and never recommended. Nobody calls
  `InitChannelTopicMap`, so that the topic of a tencent page comes from its URL as for the
  other sites, whatever category the page names (`tencent_fetcher.cc:134`).
