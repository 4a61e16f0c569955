------------------------------ MODULE OrderPool ------------------------------
(***************************************************************************)
(* How the orders of user_order_info become rows of push_event_info.       *)
(*                                                                         *)
(* On every node a PushPoolUpdater thread repeats a round: it reads the    *)
(* clock, SELECTs the orders of its partition changed after last_updated_, *)
(* sets last_updated_ to the clock it read, backs that up in a row all     *)
(* nodes share, and only then writes the orders' events, one by one and    *)
(* without a transaction.  A row that exists gets the new push_time; its   *)
(* push_status is left alone.                                              *)
(*                                                                         *)
(* An order is a version number here: everything CreatePushEvent derives   *)
(* from the order row is determined by the version that was read.  The     *)
(* history variable gap names every version that may never reach the pool, *)
(* and why; the invariants say that there is no other way to lose one.     *)
(***************************************************************************)
EXTENDS Integers, Sequences, FiniteSets

CONSTANTS
  Node,           \* the push_controller processes
  Order,          \* the rows of user_order_info
  Events,         \* number of events of an order, the rows of kTrainEventTimeRelation
  Detail,         \* what ParseDetail makes of the versions of each order, a sequence of
                  \* good, malformed and not_object; bound: the order has no more versions
  Fingerprint,    \* fingerprint_id of the events of each order, an unsigned column
  IntRange,       \* the number of values of an int, 2^32
  Views,          \* the [pos, cnt] pairs ZkManager may show to each node
  SqlFaults,      \* the statements that may raise SQLException: query, backup,
                  \* event, and restore, the SELECT of the backup
  MaxTime,        \* bound on the clock
  MaxCrashes      \* bound on the number of crashes

View == [pos : Int, cnt : Int]
NoView == [pos |-> -1, cnt |-> 0]

\* An order as QueryUserOrder read it.
Snapshot == [order : Order, ver : Nat]
Gap == [order : Order, ver : Nat,
        cause : {"late", "skipped", "failed", "mismatch", "crash", "overwritten"}]

ASSUME PoolConstantsOK ==
  /\ Events \in Nat \ {0} /\ IntRange \in Nat \ {0}
  /\ Detail \in [Order -> Seq({"good", "malformed", "not_object"})]
  /\ Fingerprint \in [Order -> Nat]
  /\ Views \in [Node -> SUBSET View]
  /\ SqlFaults \subseteq {"query", "backup", "event", "restore"}
  /\ MaxTime \in Nat /\ MaxCrashes \in Nat

VARIABLES
  ver,          \* per order: its version, 0 before it is placed
  updated,      \* per order: the column updated, ON UPDATE CURRENT_TIMESTAMP
  clock,        \* the wall clock, in seconds
  backup,       \* time_backup of the row ORDER_UPDATE_TIME, 0 without a row
  pool,         \* per order and event: the version of the order the row was made from
  view,         \* per node: what ZkManager says
  pc,           \* per node: where PushPoolUpdater::Run is
  pos,          \* per node: the local node_pos of QueryUserOrder
  t,            \* per node: the local now of QueryUserOrder
  lastUpdated,  \* per node: last_updated_
  todo,         \* per node: the orders of user_orders not reached yet
  cur,          \* per node: the order UpdateEventsToDb is at
  at,           \* per node: the event UpdateEventsToDb is at
  found,        \* per node: rowsCount() > 0
  \* history
  seen,         \* per order: the highest version a SELECT returned
  gap,          \* versions that may stay out of the pool
  crashes       \* number of crashes so far

tables == <<ver, updated, backup, pool>>
env    == <<clock, view>>
query  == <<pos, t, lastUpdated>>
create == <<todo, cur, at, found>>
hist   == <<seen, gap, crashes>>
vars   == <<tables, env, pc, query, create, hist>>

-----------------------------------------------------------------------------
\* mod(fingerprint_id, cnt) = pos of the SELECT
Selects(p, c, o) == Fingerprint[o] % c = p

\* updated > last_updated_, strictly
ChangedSinceNow(o, n) == updated[o] > t[n]             \* (mutant) now for last_updated_
ChangedSince(o, n) == updated[o] > lastUpdated[n]

\* getInt of an unsigned 64-bit column: its low 32 bits as a signed number.  (The
\* fingerprints just below 2^64, which sign extension restores, are left out.)
GetInt(f) ==
  LET low == f % IntRange
  IN  IF 2 * low >= IntRange THEN low - IntRange ELSE low

\* CheckAttribute, the row read back against the event to write; every other
\* attribute is fixed by the event's id.
CheckAttribute(o) == GetInt(Fingerprint[o]) = Fingerprint[o]

\* The nodes a view gives the order to, and an order none of them will fetch.
Owners(o, w) == {n \in Node : w[n].pos >= 0 /\ w[n].cnt > 0 /\ Selects(w[n].pos, w[n].cnt, o)}
Overlooked(o, w, l, u) == Owners(o, w) # {} /\ \A n \in Owners(o, w) : l[n] >= u

\* The present version of an order is known to stay out of the pool.
Lost(o) == \E g \in gap : g.order = o /\ g.ver = ver[o]

\* The new gaps of orders no SELECT has returned, if the views were w and the nodes'
\* last_updated_ l.
Skipped(w, l) ==
  {[order |-> o, ver |-> ver[o],
    cause |-> IF \E n \in Owners(o, w) : l[n] = updated[o] THEN "late" ELSE "skipped"] :
     o \in {x \in Order : seen[x] < ver[x] /\ ~ Lost(x) /\ Overlooked(x, w, l, updated[x])}}

Snap(o) == [order |-> o, ver |-> ver[o]]
Lose(s, c) == [order |-> s.order, ver |-> s.ver, cause |-> c]

-----------------------------------------------------------------------------
Init ==
  /\ ver = [o \in Order |-> 0]
  /\ updated = [o \in Order |-> 0]
  /\ clock = 1
  /\ backup = 0
  /\ pool = [o \in Order |-> [k \in 1..Events |-> 0]]
  /\ view = [n \in Node |-> NoView]
  /\ pc = [n \in Node |-> "sleep"]
  /\ pos = [n \in Node |-> -1]
  /\ t = [n \in Node |-> 0]
  /\ lastUpdated = [n \in Node |-> 0]
  /\ todo = [n \in Node |-> {}]
  /\ cur = [n \in Node |-> {}]
  /\ at = [n \in Node |-> 1]
  /\ found = [n \in Node |-> FALSE]
  /\ seen = [o \in Order |-> 0]
  /\ gap = {}
  /\ crashes = 0

(***************************************************************************)
(* The environment: the clock, the orders other services write, the views. *)
(***************************************************************************)
Tick ==
  /\ clock < MaxTime
  /\ clock' = clock + 1
  /\ UNCHANGED <<tables, view, pc, query, create, hist>>

\* An order is placed, or its row changed; late if its owner's last query was in
\* this very second.
ChangeOrder(o) ==
  /\ ver[o] < Len(Detail[o])
  /\ ver' = [ver EXCEPT ![o] = @ + 1]
  /\ updated' = [updated EXCEPT ![o] = clock]
  /\ gap' = IF Overlooked(o, view, lastUpdated, clock)
              THEN gap \cup {[order |-> o, ver |-> ver[o] + 1, cause |-> "late"]}
              ELSE gap
  /\ UNCHANGED <<backup, pool, env, pc, query, create, seen, crashes>>

ChangeView(n) ==
  /\ view' \in {[view EXCEPT ![n] = v] : v \in Views[n] \ {view[n]}}
  /\ gap' = gap \cup Skipped(view', lastUpdated)
  /\ UNCHANGED <<tables, clock, pc, query, create, seen, crashes>>

(***************************************************************************)
(* QueryUserOrder                                                          *)
(***************************************************************************)
\* time(0) and GetNodePos; nothing depends on both the clock and the view.
BeginQuery(n) ==
  /\ pc[n] = "sleep"
  /\ t' = [t EXCEPT ![n] = clock]
  /\ pos' = [pos EXCEPT ![n] = view[n].pos]
  /\ pc' = [pc EXCEPT ![n] = "query"]
  /\ UNCHANGED <<tables, env, lastUpdated, create, hist>>

\* The locals of QueryUserOrder go out of scope.
LeaveQuery(n) ==
  /\ pos' = [pos EXCEPT ![n] = -1]
  /\ t' = [t EXCEPT ![n] = 0]

\* GetTotalNodeCnt fails, or an exception anywhere up to the last row: false.
QueryFails(n) ==
  /\ pc[n] = "query"
  /\ pos[n] < 0 \/ view[n].cnt <= 0 \/ "query" \in SqlFaults
  /\ pc' = [pc EXCEPT ![n] = "sleep"]
  /\ LeaveQuery(n)
  /\ UNCHANGED <<tables, env, lastUpdated, create, hist>>

\* The SELECT; last_updated_ moves to the time before it.
QueryUserOrder(n) ==
  LET cnt  == view[n].cnt
      rows == {o \in Order : ver[o] > 0 /\ ChangedSince(o, n) /\ Selects(pos[n], cnt, o)}
  IN  /\ pc[n] = "query"
      /\ pos[n] >= 0 /\ cnt > 0
      /\ lastUpdated' = [lastUpdated EXCEPT ![n] = t[n]]
      /\ todo' = [todo EXCEPT ![n] = {Snap(o) : o \in rows}]
      /\ seen' = [o \in Order |-> IF o \in rows THEN ver[o] ELSE seen[o]]
      \* node_pos is older than node_cnt: rows of the present partition are passed over
      /\ gap' = IF pos[n] = view[n].pos THEN gap
                ELSE gap \cup {g \in Skipped(view, lastUpdated') : g.order \notin rows}
      /\ pc' = [pc EXCEPT ![n] = "backup"]
      /\ LeaveQuery(n)
      /\ UNCHANGED <<tables, env, cur, at, found, crashes>>

AfterFirst(rest) == "sleep"                  \* (mutant) one order a round
AfterOrder(rest) == IF rest = {} THEN "sleep" ELSE "create"

\* BackupTimeToDb, whose result is ignored.  To be second to INSERT the row is one way
\* to fail.
BackupTimeToDb(n) ==
  /\ pc[n] = "backup"
  /\ \/ backup' = lastUpdated[n]
     \/ "backup" \in SqlFaults /\ UNCHANGED backup
  /\ pc' = [pc EXCEPT ![n] = AfterOrder(todo[n])]
  /\ UNCHANGED <<ver, updated, pool, env, query, create, hist>>

(***************************************************************************)
(* UpdatePushEvent: the orders in the order of the result set, which has   *)
(* no ORDER BY.                                                            *)
(***************************************************************************)
\* CreatePushEvent returns false, or there is no processor: continue.
SkipOrder(n) ==
  /\ pc[n] = "create"
  /\ \E s \in todo[n] :
       /\ Detail[s.order][s.ver] = "malformed"
       /\ todo' = [todo EXCEPT ![n] = @ \ {s}]
       /\ pc' = [pc EXCEPT ![n] = AfterOrder(todo[n] \ {s})]
       /\ gap' = gap \cup {Lose(s, "failed")}
  /\ UNCHANGED <<tables, env, query, cur, at, found, seen, crashes>>

CreatePushEvent(n) ==
  /\ pc[n] = "create"
  /\ \E s \in todo[n] :
       /\ Detail[s.order][s.ver] = "good"
       /\ todo' = [todo EXCEPT ![n] = @ \ {s}]
       /\ cur' = [cur EXCEPT ![n] = {s}]
       /\ pc' = [pc EXCEPT ![n] = "select"]
  /\ UNCHANGED <<tables, env, query, at, found, hist>>

(***************************************************************************)
(* UpdateEventsToDb of the order in cur, event by event                    *)
(***************************************************************************)
EndOrder(n) ==
  /\ cur' = [cur EXCEPT ![n] = {}]
  /\ at' = [at EXCEPT ![n] = 1]
  /\ pc' = [pc EXCEPT ![n] = AfterOrder(todo[n])]

NextEventPast(n) ==                          \* (mutant) one event too many
  \/ at[n] > Events /\ EndOrder(n)
  \/ /\ at[n] <= Events
     /\ at' = [at EXCEPT ![n] = @ + 1]
     /\ pc' = [pc EXCEPT ![n] = "select"]
     /\ UNCHANGED cur
NextEvent(n) ==
  \/ at[n] >= Events /\ EndOrder(n)
  \/ /\ at[n] < Events
     /\ at' = [at EXCEPT ![n] = @ + 1]
     /\ pc' = [pc EXCEPT ![n] = "select"]
     /\ UNCHANGED cur

\* An exception ends the loop over the events, not the one over the orders.
EventFails(n, s) ==
  /\ EndOrder(n)
  /\ gap' = gap \cup {Lose(s, "failed")}

\* The SELECT by id; a row with other attributes is left as it is.
SelectEvent(n) ==
  /\ pc[n] = "select"
  /\ \E s \in cur[n] :
       LET row == pool[s.order][at[n]] # 0
       IN  \/ /\ row => CheckAttribute(s.order)
              /\ found' = [found EXCEPT ![n] = row]
              /\ pc' = [pc EXCEPT ![n] = "write"]
              /\ UNCHANGED <<cur, at, gap>>
           \/ /\ row /\ ~ CheckAttribute(s.order)
              /\ gap' = gap \cup {Lose(s, "mismatch")}
              /\ NextEvent(n)
              /\ UNCHANGED found
           \/ /\ "event" \in SqlFaults
              /\ EventFails(n, s)
              /\ UNCHANGED found
  /\ UNCHANGED <<tables, env, query, todo, seen, crashes>>

\* The UPDATE, or the INSERT, which fails if another node was faster: id is the
\* primary key.  A slower node puts the times of an older version back.
WriteEvent(n) ==
  /\ pc[n] = "write"
  /\ \E s \in cur[n] :
       LET row == pool[s.order][at[n]]
       IN  \/ /\ found[n] \/ row = 0
              /\ pool' = [pool EXCEPT ![s.order][at[n]] = s.ver]
              /\ gap' = IF s.ver < row
                          THEN gap \cup {Lose(Snap(s.order), "overwritten")}
                          ELSE gap
              /\ NextEvent(n)
           \/ /\ "event" \in SqlFaults \/ (~ found[n] /\ row # 0)
              /\ EventFails(n, s)
              /\ UNCHANGED pool
  /\ found' = [found EXCEPT ![n] = FALSE]
  /\ UNCHANGED <<ver, updated, backup, env, query, todo, seen, crashes>>

(***************************************************************************)
(* A process dies and is started again: last_updated_ comes from the       *)
(* backup, which may be another node's, or is 0 if it cannot be read.      *)
(***************************************************************************)
RestoredNow == {clock}                       \* (mutant) start from now
RestoredTimes == {backup} \cup IF "restore" \in SqlFaults THEN {0} ELSE {}

Restart(n) ==
  /\ pc' = [pc EXCEPT ![n] = "sleep"]
  /\ view' = [view EXCEPT ![n] = NoView]
  /\ pos' = [pos EXCEPT ![n] = -1]
  /\ t' = [t EXCEPT ![n] = 0]
  /\ \E b \in RestoredTimes : lastUpdated' = [lastUpdated EXCEPT ![n] = b]
  /\ todo' = [todo EXCEPT ![n] = {}]
  /\ cur' = [cur EXCEPT ![n] = {}]
  /\ at' = [at EXCEPT ![n] = 1]
  /\ found' = [found EXCEPT ![n] = FALSE]
  /\ gap' = gap \cup {Lose(s, "crash") : s \in todo[n] \cup cur[n]}
                \cup Skipped(view', lastUpdated')
  /\ UNCHANGED <<tables, clock, seen>>

Crash(n) ==
  /\ crashes < MaxCrashes
  /\ crashes' = crashes + 1
  /\ Restart(n)

\* The CHECK of ParseDetail: a detail that is JSON but no object ends the process.
AbortOrder(n) ==
  /\ pc[n] = "create"
  /\ \E s \in todo[n] : Detail[s.order][s.ver] = "not_object"
  /\ Restart(n)
  /\ UNCHANGED crashes

Updater(n) ==
  \/ BeginQuery(n) \/ QueryFails(n) \/ QueryUserOrder(n) \/ BackupTimeToDb(n)
  \/ SkipOrder(n) \/ CreatePushEvent(n) \/ SelectEvent(n) \/ WriteEvent(n) \/ AbortOrder(n)

Next ==
  \/ Tick
  \/ \E o \in Order : ChangeOrder(o)
  \/ \E n \in Node :
       \/ ChangeView(n) \/ Crash(n)
       \/ BeginQuery(n) \/ QueryFails(n) \/ QueryUserOrder(n) \/ BackupTimeToDb(n)
       \/ SkipOrder(n) \/ CreatePushEvent(n) \/ SelectEvent(n) \/ WriteEvent(n)
       \/ AbortOrder(n)

Spec == Init /\ [][Next]_vars

\* The updater threads run and sleep a bounded time.
FairSpec == Spec /\ \A n \in Node : WF_vars(Updater(n))

-----------------------------------------------------------------------------
TypeOK ==
  /\ ver \in [Order -> Nat]
  /\ updated \in [Order -> Nat]
  /\ clock \in Nat
  /\ backup \in Nat
  /\ pool \in [Order -> [1..Events -> Nat]]
  /\ view \in [Node -> View]
  /\ pc \in [Node -> {"sleep", "query", "backup", "create", "select", "write"}]
  /\ pos \in [Node -> Int]
  /\ t \in [Node -> Nat]
  /\ lastUpdated \in [Node -> Nat]
  /\ todo \in [Node -> SUBSET Snapshot]
  /\ cur \in [Node -> SUBSET Snapshot]
  /\ at \in [Node -> 1..Events]
  /\ found \in [Node -> BOOLEAN]
  /\ seen \in [Order -> Nat]
  /\ gap \in SUBSET Gap
  /\ crashes \in 0..MaxCrashes

InFlight(o, v, k) ==
  \E n \in Node : \/ [order |-> o, ver |-> v] \in todo[n]
                  \/ [order |-> o, ver |-> v] \in cur[n] /\ at[n] <= k

\* An order changed since any SELECT returned it is still going to be SELECTed by the
\* node it belongs to, unless it was changed in the second of a query, or its
\* partition moved to a node that queried, or was restarted from a backup made,
\* later than the change.
UnfetchedWaits ==
  \A o \in Order :
    seen[o] < ver[o] => ~ Overlooked(o, view, lastUpdated, updated[o]) \/ Lost(o)

\* Once a SELECT returned an order's present version every event of it is in the pool
\* with that version or about to be written, unless the version could not be parsed
\* or stored, was skipped by CheckAttribute, lost in a crash or overwritten by an
\* older one: that last_updated_ is moved and backed up before the events are
\* written costs nothing else.
FetchedIsScheduled ==
  \A o \in Order, k \in 1..Events :
    ver[o] > 0 /\ seen[o] = ver[o] =>
      pool[o][k] = ver[o] \/ InFlight(o, ver[o], k) \/ Lost(o)

\* No change of an order is lost between the two tables, but for these causes.
PoolFollows == UnfetchedWaits /\ FetchedIsScheduled

\* Between two rounds the events of an order tell one story: all rows come from the
\* same version, unless a version of the order was lost on the way.
EventsAgree ==
  \A o \in Order :
    (\A g \in gap : g.order # o) /\ (\A n \in Node : \A s \in todo[n] \cup cur[n] : s.order # o)
    => \A j, k \in 1..Events : pool[o][j] = pool[o][k]

\* A lone node passes over an order only in the second of its query: its restart from
\* the backup never skips one, and it never puts back an event to an older version,
\* restarts and repeated fetches included.
OneNodeGaps ==
  Cardinality(Node) = 1 => \A g \in gap : g.cause \notin {"skipped", "overwritten"}

\* Without other nodes the pool shows each order as it was at one moment, never an older
\* one, but for these causes.
LonePoolIsSound == EventsAgree /\ OneNodeGaps

\* Every version of an order is eventually in the pool, superseded or lost, if from some
\* moment on a node keeps the view that gives it the order.
EveryOrderScheduled ==
  \A o \in Order, n \in Node :
    \A v \in {w \in Views[n] : w.pos >= 0 /\ w.cnt > 0 /\ Selects(w.pos, w.cnt, o)} :
      <>[](view[n] = v) =>
        []<>(ver[o] = 0 \/ Lost(o) \/ \A k \in 1..Events : pool[o][k] = ver[o])
=============================================================================
