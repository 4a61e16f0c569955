--------------------------- MODULE OrderPool_proofs ---------------------------
(***************************************************************************)
(* Proofs about OrderPool, for any cluster, any orders with any versions,  *)
(* any views, and every combination of failing statements and crashes.     *)
(***************************************************************************)
EXTENDS OrderPool, FiniteSetTheorems, TLAPS

-----------------------------------------------------------------------------
(***************************************************************************)
(* Types                                                                   *)
(***************************************************************************)
\* EXCEPT at one order and event keeps the type and touches nothing else.
LEMMA UpdateAt ==
  ASSUME NEW N, NEW B, NEW V, NEW f \in [N -> [B -> V]], NEW n \in N, NEW b \in B,
         NEW v \in V
  PROVE  /\ [f EXCEPT ![n][b] = v] \in [N -> [B -> V]]
         /\ \A m \in N, c \in B :
              [f EXCEPT ![n][b] = v][m][c] = IF m = n /\ c = b THEN v ELSE f[m][c]
OBVIOUS

LEMMA InitTypes == Init => TypeOK
<1>1. 1 \in 1..Events /\ 0 \in 0..MaxCrashes
  BY PoolConstantsOK
<1>2. NoView \in View
  BY DEF NoView, View
<1> QED BY <1>1, <1>2 DEF Init, TypeOK

\* What is added to gap is of its type.
LEMMA SkippedAreGaps ==
  ASSUME TypeOK, NEW w, NEW l
  PROVE  Skipped(w, l) \subseteq Gap
BY DEF TypeOK, Skipped, Gap

LEMMA LosesAreGaps ==
  ASSUME NEW s \in Snapshot,
         NEW c \in {"late", "skipped", "failed", "mismatch", "crash", "overwritten"}
  PROVE  Lose(s, c) \in Gap
BY DEF Snapshot, Lose, Gap

LEMMA SnapIsSnapshot ==
  ASSUME TypeOK, NEW o \in Order
  PROVE  Snap(o) \in Snapshot
BY DEF TypeOK, Snap, Snapshot

\* The step to the next event, and the end of an order.
LEMMA EndOrderTypes ==
  ASSUME TypeOK, NEW n \in Node, EndOrder(n) \/ NextEvent(n)
  PROVE  /\ cur' \in [Node -> SUBSET Snapshot]
         /\ at' \in [Node -> 1..Events]
         /\ pc' \in [Node -> {"sleep", "query", "backup", "create", "select", "write"}]
<1>1. 1 \in 1..Events
  BY PoolConstantsOK
<1>2. at[n] \in Nat /\ (at[n] < Events => at[n] + 1 \in 1..Events)
  BY PoolConstantsOK DEF TypeOK
<1> QED BY <1>1, <1>2 DEF TypeOK, EndOrder, NextEvent, AfterOrder

LEMMA QueryTypes ==
  ASSUME TypeOK, NEW n \in Node, QueryUserOrder(n) PROVE TypeOK'
<1> DEFINE rows == {o \in Order : ver[o] > 0 /\ ChangedSince(o, n) /\ Selects(pos[n], view[n].cnt, o)}
<1>1. /\ lastUpdated' = [lastUpdated EXCEPT ![n] = t[n]]
      /\ todo' = [todo EXCEPT ![n] = {Snap(o) : o \in rows}]
      /\ seen' = [o \in Order |-> IF o \in rows THEN ver[o] ELSE seen[o]]
      /\ gap' = gap \/ gap' = gap \cup {g \in Skipped(view, lastUpdated') : g.order \notin rows}
      /\ pc' = [pc EXCEPT ![n] = "backup"]
      /\ LeaveQuery(n)
      /\ UNCHANGED <<tables, env, cur, at, found, crashes>>
  BY DEF QueryUserOrder
<1>2. rows \subseteq Order
  OBVIOUS
<1> HIDE DEF rows
<1>3. gap' \in SUBSET Gap
  BY <1>1, SkippedAreGaps DEF TypeOK
<1>4. {Snap(o) : o \in rows} \subseteq Snapshot
  BY <1>2, SnapIsSnapshot
<1>5. todo' \in [Node -> SUBSET Snapshot]
  BY <1>1, <1>4 DEF TypeOK
<1>6. seen' \in [Order -> Nat]
  BY <1>1 DEF TypeOK
<1>7. lastUpdated' \in [Node -> Nat] /\ pos' \in [Node -> Int] /\ t' \in [Node -> Nat]
  BY <1>1 DEF TypeOK, LeaveQuery
<1>8. pc' \in [Node -> {"sleep", "query", "backup", "create", "select", "write"}]
  BY <1>1 DEF TypeOK
<1> QED BY <1>1, <1>3, <1>5, <1>6, <1>7, <1>8 DEF TypeOK, tables, env

LEMMA SelectEventTypes ==
  ASSUME TypeOK, NEW n \in Node, SelectEvent(n) PROVE TypeOK'
<1>1. PICK s \in cur[n] :
        \/ /\ found' = [found EXCEPT ![n] = (pool[s.order][at[n]] # 0)]
           /\ pc' = [pc EXCEPT ![n] = "write"]
           /\ UNCHANGED <<cur, at, gap>>
        \/ /\ gap' = gap \cup {Lose(s, "mismatch")}
           /\ NextEvent(n)
           /\ UNCHANGED found
        \/ /\ gap' = gap \cup {Lose(s, "failed")}
           /\ EndOrder(n)
           /\ UNCHANGED found
  BY DEF SelectEvent, EventFails
<1>2. UNCHANGED <<tables, env, query, todo, seen, crashes>>
  BY DEF SelectEvent
<1>3. s \in Snapshot
  BY DEF TypeOK
<1>4. gap' \in SUBSET Gap
  BY <1>1, <1>3, LosesAreGaps DEF TypeOK
<1>5. found' \in [Node -> BOOLEAN]
  <2>1. (pool[s.order][at[n]] # 0) \in BOOLEAN
    OBVIOUS
  <2>2. \/ UNCHANGED found
        \/ \E yes \in BOOLEAN : found' = [found EXCEPT ![n] = yes]
    BY <1>1, <2>1
  <2> QED BY <2>2 DEF TypeOK
<1>6. /\ cur' \in [Node -> SUBSET Snapshot]
      /\ at' \in [Node -> 1..Events]
      /\ pc' \in [Node -> {"sleep", "query", "backup", "create", "select", "write"}]
  <2>1. CASE pc' = [pc EXCEPT ![n] = "write"] /\ UNCHANGED <<cur, at>>
    BY <2>1 DEF TypeOK
  <2>2. CASE EndOrder(n) \/ NextEvent(n)
    BY <2>2, EndOrderTypes
  <2> QED BY <1>1, <2>1, <2>2
<1> QED BY <1>2, <1>4, <1>5, <1>6 DEF TypeOK, tables, env, query

LEMMA WriteEventTypes ==
  ASSUME TypeOK, NEW n \in Node, WriteEvent(n) PROVE TypeOK'
<1>1. PICK s \in cur[n] :
        \/ /\ pool' = [pool EXCEPT ![s.order][at[n]] = s.ver]
           /\ gap' = gap \/ gap' = gap \cup {Lose(Snap(s.order), "overwritten")}
           /\ NextEvent(n)
        \/ /\ gap' = gap \cup {Lose(s, "failed")}
           /\ EndOrder(n)
           /\ UNCHANGED pool
  BY DEF WriteEvent, EventFails
<1>2. /\ found' = [found EXCEPT ![n] = FALSE]
      /\ UNCHANGED <<ver, updated, backup, env, query, todo, seen, crashes>>
  BY DEF WriteEvent
<1>3. s \in Snapshot /\ s.order \in Order /\ s.ver \in Nat /\ Snap(s.order) \in Snapshot
  <2>1. s \in Snapshot
    BY DEF TypeOK
  <2>2. s.order \in Order /\ s.ver \in Nat
    BY <2>1 DEF Snapshot
  <2> QED BY <2>1, <2>2, SnapIsSnapshot
<1>4. gap' \in SUBSET Gap
  BY <1>1, <1>3, LosesAreGaps DEF TypeOK
<1>5. pool' \in [Order -> [1..Events -> Nat]]
  <2>1. pool \in [Order -> [1..Events -> Nat]] /\ at[n] \in 1..Events
    BY DEF TypeOK
  <2>2. [pool EXCEPT ![s.order][at[n]] = s.ver] \in [Order -> [1..Events -> Nat]]
    BY <1>3, <2>1, UpdateAt
  <2> QED BY <1>1, <2>1, <2>2
<1>6. /\ cur' \in [Node -> SUBSET Snapshot]
      /\ at' \in [Node -> 1..Events]
      /\ pc' \in [Node -> {"sleep", "query", "backup", "create", "select", "write"}]
  BY <1>1, EndOrderTypes
<1>7. found' \in [Node -> BOOLEAN]
  BY <1>2 DEF TypeOK
<1> QED BY <1>2, <1>4, <1>5, <1>6, <1>7 DEF TypeOK, env, query

LEMMA RestartTypes ==
  ASSUME TypeOK, NEW n \in Node, Restart(n), crashes' \in 0..MaxCrashes PROVE TypeOK'
<1>1. lastUpdated' \in [Node -> Nat]
  <2>1. RestoredTimes \subseteq Nat
    BY DEF RestoredTimes, TypeOK
  <2>2. PICK b \in RestoredTimes : lastUpdated' = [lastUpdated EXCEPT ![n] = b]
    BY DEF Restart
  <2> QED BY <2>1, <2>2 DEF TypeOK
<1>2. gap' \in SUBSET Gap
  <2>1. gap' = gap \cup {Lose(s, "crash") : s \in todo[n] \cup cur[n]}
                    \cup Skipped(view', lastUpdated')
    BY DEF Restart
  <2>2. todo[n] \cup cur[n] \subseteq Snapshot
    BY DEF TypeOK
  <2> QED BY <2>1, <2>2, LosesAreGaps, SkippedAreGaps DEF TypeOK
<1>3. NoView \in View /\ 1 \in 1..Events
  BY PoolConstantsOK DEF NoView, View
<1>4. /\ pc' \in [Node -> {"sleep", "query", "backup", "create", "select", "write"}]
      /\ view' \in [Node -> View]
      /\ pos' \in [Node -> Int] /\ t' \in [Node -> Nat]
      /\ todo' \in [Node -> SUBSET Snapshot] /\ cur' \in [Node -> SUBSET Snapshot]
      /\ at' \in [Node -> 1..Events] /\ found' \in [Node -> BOOLEAN]
  BY <1>3 DEF Restart, TypeOK
<1>5. UNCHANGED <<tables, clock, seen>>
  BY DEF Restart
<1> QED BY <1>1, <1>2, <1>4, <1>5 DEF TypeOK, tables

LEMMA NextTypes == TypeOK /\ [Next]_vars => TypeOK'
<1> SUFFICES ASSUME TypeOK, [Next]_vars PROVE TypeOK'
  OBVIOUS
<1>1. CASE Tick
  BY <1>1 DEF Tick, TypeOK, tables, query, create, hist
<1>2. ASSUME NEW o \in Order, ChangeOrder(o) PROVE TypeOK'
  <2>1. [order |-> o, ver |-> ver[o] + 1, cause |-> "late"] \in Gap
    BY DEF TypeOK, Gap
  <2> QED BY <1>2, <2>1 DEF ChangeOrder, TypeOK, env, query, create
<1>3. ASSUME NEW n \in Node, ChangeView(n) PROVE TypeOK'
  <2>1. PICK v \in Views[n] : view' = [view EXCEPT ![n] = v]
    BY <1>3 DEF ChangeView
  <2>2. v \in View
    BY <2>1, PoolConstantsOK
  <2> QED BY <1>3, <2>1, <2>2, SkippedAreGaps DEF ChangeView, TypeOK, tables, query, create
<1>4. ASSUME NEW n \in Node, BeginQuery(n) PROVE TypeOK'
  BY <1>4 DEF BeginQuery, TypeOK, View, tables, env, create, hist
<1>5. ASSUME NEW n \in Node, QueryFails(n) PROVE TypeOK'
  BY <1>5 DEF QueryFails, LeaveQuery, TypeOK, tables, env, create, hist
<1>6. ASSUME NEW n \in Node, BackupTimeToDb(n) PROVE TypeOK'
  BY <1>6 DEF BackupTimeToDb, AfterOrder, TypeOK, env, query, create, hist
<1>7. ASSUME NEW n \in Node, SkipOrder(n) PROVE TypeOK'
  <2>1. PICK s \in todo[n] :
          /\ todo' = [todo EXCEPT ![n] = @ \ {s}]
          /\ pc' = [pc EXCEPT ![n] = AfterOrder(todo[n] \ {s})]
          /\ gap' = gap \cup {Lose(s, "failed")}
    BY <1>7 DEF SkipOrder
  <2>2. Lose(s, "failed") \in Gap
    BY LosesAreGaps DEF TypeOK
  <2> QED BY <1>7, <2>1, <2>2 DEF SkipOrder, AfterOrder, TypeOK, tables, env, query
<1>8. ASSUME NEW n \in Node, CreatePushEvent(n) PROVE TypeOK'
  BY <1>8 DEF CreatePushEvent, TypeOK, tables, env, query, hist
<1>9. ASSUME NEW n \in Node, Crash(n) \/ AbortOrder(n) PROVE TypeOK'
  <2>1. crashes' \in 0..MaxCrashes
    BY <1>9, PoolConstantsOK DEF Crash, AbortOrder, TypeOK
  <2> QED BY <1>9, <2>1, RestartTypes DEF Crash, AbortOrder
<1>10. CASE UNCHANGED vars
  BY <1>10 DEF vars, TypeOK, tables, env, query, create, hist
<1> QED BY <1>1, <1>2, <1>3, <1>4, <1>5, <1>6, <1>7, <1>8, <1>9, <1>10, QueryTypes,
           SelectEventTypes, WriteEventTypes DEF Next

\* The tables, the updater's locals and last_updated_ have their types
\* (PushPoolUpdater::Run and what it calls).
THEOREM PoolTypes == Spec => []TypeOK
BY InitTypes, NextTypes, PTL DEF Spec
-----------------------------------------------------------------------------
(***************************************************************************)
(* What a step does to the orders on their way to the pool                 *)
(***************************************************************************)
\* The orders node n has fetched and not yet dealt with.
Carried(n) == todo[n] \cup cur[n]

\* Where PushPoolUpdater::Run is, and what it carries there.
Places ==
  \A n \in Node :
    /\ pc[n] \in {"sleep", "query"} => todo[n] = {}
    /\ pc[n] \notin {"select", "write"} => cur[n] = {} /\ at[n] = 1
    /\ pc[n] \in {"select", "write"} => \E s \in Snapshot : cur[n] = {s}

PlaceInv == TypeOK /\ Places

Counters == <<ver, seen, pool>>

\* UpdateEventsToDb leaves the order, or goes to its next event.
Ends(n) == cur' = [cur EXCEPT ![n] = {}] /\ at' = [at EXCEPT ![n] = 1]
Advances(n) == at[n] < Events /\ at' = [at EXCEPT ![n] = @ + 1] /\ UNCHANGED cur

\* The steps, by what they do to what is carried.
Stays == UNCHANGED <<Counters, todo, cur, at>> /\ gap \subseteq gap'

Changes(o) == /\ ver' = [ver EXCEPT ![o] = @ + 1]
              /\ gap \subseteq gap' /\ UNCHANGED <<seen, pool, todo, cur, at>>

Fetches(n) == /\ todo[n] = {} /\ cur[n] = {}
              /\ \E rows \in SUBSET Order :
                   /\ todo' = [todo EXCEPT ![n] = {Snap(o) : o \in rows}]
                   /\ seen' = [o \in Order |-> IF o \in rows THEN ver[o] ELSE seen[o]]
              /\ gap \subseteq gap' /\ UNCHANGED <<ver, pool, cur, at>>

Drops(n, s) == /\ s \in todo[n]
               /\ todo' = [todo EXCEPT ![n] = @ \ {s}]
               /\ Lose(s, "failed") \in gap' /\ gap \subseteq gap'
               /\ UNCHANGED <<Counters, cur, at>>

Takes(n, s) == /\ s \in todo[n] /\ cur[n] = {} /\ at[n] = 1
               /\ todo' = [todo EXCEPT ![n] = @ \ {s}]
               /\ cur' = [cur EXCEPT ![n] = {s}]
               /\ UNCHANGED <<Counters, at, gap>>

GivesUp(n, s) == /\ cur[n] = {s}
                 /\ Ends(n) \/ Advances(n)
                 /\ \E c \in {"mismatch", "failed"} : Lose(s, c) \in gap'
                 /\ gap \subseteq gap' /\ UNCHANGED <<Counters, todo>>

Writes(n, s) == /\ cur[n] = {s}
                /\ pool' = [pool EXCEPT ![s.order][at[n]] = s.ver]
                /\ s.ver < pool[s.order][at[n]] => Lose(Snap(s.order), "overwritten") \in gap'
                /\ (at[n] >= Events /\ Ends(n)) \/ Advances(n)
                /\ gap \subseteq gap' /\ UNCHANGED <<ver, seen, todo>>

Forgets(n) == /\ Ends(n) /\ todo' = [todo EXCEPT ![n] = {}]
              /\ \A s \in Carried(n) : Lose(s, "crash") \in gap'
              /\ gap \subseteq gap' /\ UNCHANGED Counters

LEMMA EndOrNext ==
  ASSUME NEW n \in Node
  PROVE  /\ EndOrder(n) => Ends(n)
         /\ NextEvent(n) => (at[n] >= Events /\ Ends(n)) \/ Advances(n)
BY DEF EndOrder, NextEvent, Ends, Advances

\* Every step is one of these.
LEMMA Effects ==
  ASSUME PlaceInv, [Next]_vars
  PROVE  \/ Stays
         \/ \E o \in Order : Changes(o)
         \/ \E n \in Node : Fetches(n) \/ Forgets(n)
         \/ \E n \in Node, s \in Snapshot :
              Drops(n, s) \/ Takes(n, s) \/ GivesUp(n, s) \/ Writes(n, s)
<1>1. CASE Tick \/ UNCHANGED vars
  BY <1>1 DEF Tick, Stays, Counters, vars, tables, query, create, hist
<1>2. ASSUME NEW o \in Order, ChangeOrder(o) PROVE Changes(o)
  BY <1>2 DEF ChangeOrder, Changes, create
<1>3. ASSUME NEW n \in Node,
             ChangeView(n) \/ BeginQuery(n) \/ QueryFails(n) \/ BackupTimeToDb(n)
      PROVE  Stays
  BY <1>3 DEF ChangeView, BeginQuery, QueryFails, BackupTimeToDb, Stays, Counters,
              tables, create, hist
<1>4. ASSUME NEW n \in Node, QueryUserOrder(n) PROVE Fetches(n)
  <2> DEFINE rows == {o \in Order : ver[o] > 0 /\ ChangedSince(o, n)
                                    /\ Selects(pos[n], view[n].cnt, o)}
  <2>1. /\ todo' = [todo EXCEPT ![n] = {Snap(o) : o \in rows}]
        /\ seen' = [o \in Order |-> IF o \in rows THEN ver[o] ELSE seen[o]]
        /\ pc[n] = "query" /\ gap \subseteq gap' /\ UNCHANGED <<ver, pool, cur, at>>
    BY <1>4 DEF QueryUserOrder, tables
  <2>2. todo[n] = {} /\ cur[n] = {}
    BY <2>1 DEF PlaceInv, Places
  <2>3. rows \in SUBSET Order
    OBVIOUS
  <2> HIDE DEF rows
  <2> QED BY <2>1, <2>2, <2>3 DEF Fetches
<1>5. ASSUME NEW n \in Node, SkipOrder(n) PROVE \E s \in Snapshot : Drops(n, s)
  <2>1. PICK s \in todo[n] :
          todo' = [todo EXCEPT ![n] = @ \ {s}] /\ gap' = gap \cup {Lose(s, "failed")}
    BY <1>5 DEF SkipOrder
  <2>2. s \in Snapshot /\ UNCHANGED <<Counters, cur, at>>
    BY <1>5 DEF SkipOrder, PlaceInv, TypeOK, Counters, tables
  <2> QED BY <2>1, <2>2 DEF Drops
<1>6. ASSUME NEW n \in Node, CreatePushEvent(n) PROVE \E s \in Snapshot : Takes(n, s)
  <2>1. PICK s \in todo[n] :
          todo' = [todo EXCEPT ![n] = @ \ {s}] /\ cur' = [cur EXCEPT ![n] = {s}]
    BY <1>6 DEF CreatePushEvent
  <2>2. s \in Snapshot /\ UNCHANGED <<Counters, at, gap>> /\ pc[n] = "create"
    BY <1>6 DEF CreatePushEvent, PlaceInv, TypeOK, Counters, tables, hist
  <2>3. cur[n] = {} /\ at[n] = 1
    BY <2>2 DEF PlaceInv, Places
  <2> QED BY <2>1, <2>2, <2>3 DEF Takes
<1>7. ASSUME NEW n \in Node, SelectEvent(n)
      PROVE  Stays \/ \E s \in Snapshot : GivesUp(n, s)
  <2>1. PICK s \in Snapshot : cur[n] = {s}
    BY <1>7 DEF SelectEvent, PlaceInv, Places
  <2>2. UNCHANGED <<Counters, todo>>
    BY <1>7 DEF SelectEvent, tables, Counters
  <2>3. \/ UNCHANGED <<cur, at, gap>>
        \/ gap' = gap \cup {Lose(s, "mismatch")} /\ NextEvent(n)
        \/ gap' = gap \cup {Lose(s, "failed")} /\ EndOrder(n)
    BY <1>7, <2>1 DEF SelectEvent, EventFails
  <2> QED BY <2>1, <2>2, <2>3, EndOrNext DEF Stays, GivesUp
<1>8. ASSUME NEW n \in Node, WriteEvent(n)
      PROVE  \E s \in Snapshot : GivesUp(n, s) \/ Writes(n, s)
  <2>1. PICK s \in Snapshot : cur[n] = {s}
    BY <1>8 DEF WriteEvent, PlaceInv, Places
  <2>2. UNCHANGED <<ver, seen, todo>>
    BY <1>8 DEF WriteEvent
  <2>3. \/ /\ pool' = [pool EXCEPT ![s.order][at[n]] = s.ver]
           /\ gap' = IF s.ver < pool[s.order][at[n]]
                       THEN gap \cup {Lose(Snap(s.order), "overwritten")}
                       ELSE gap
           /\ NextEvent(n)
        \/ gap' = gap \cup {Lose(s, "failed")} /\ EndOrder(n) /\ UNCHANGED pool
    BY <1>8, <2>1 DEF WriteEvent, EventFails
  <2> QED BY <2>1, <2>2, <2>3, EndOrNext DEF Writes, GivesUp, Counters
<1>9. ASSUME NEW n \in Node, Crash(n) \/ AbortOrder(n) PROVE Forgets(n)
  BY <1>9 DEF Crash, AbortOrder, Restart, Forgets, Ends, Carried, Counters, tables
<1> QED BY <1>1, <1>2, <1>3, <1>4, <1>5, <1>6, <1>7, <1>8, <1>9 DEF Next

\* A round keeps what it carries where it belongs.
LEMMA NextPlaces == PlaceInv /\ [Next]_vars => PlaceInv'
<1> SUFFICES ASSUME PlaceInv, [Next]_vars PROVE Places'
  BY NextTypes DEF PlaceInv
<1>1. TypeOK /\ Places
  BY DEF PlaceInv
<1>2. CASE UNCHANGED <<pc, todo, cur, at>>
  BY <1>1, <1>2 DEF Places
<1>3. Tick \/ UNCHANGED vars \/ (\E o \in Order : ChangeOrder(o)) \/ (\E n \in Node : ChangeView(n))
        => UNCHANGED <<pc, todo, cur, at>>
  BY DEF Tick, vars, create, ChangeOrder, ChangeView
<1>4. ASSUME NEW n \in Node,
             BeginQuery(n) \/ QueryFails(n) \/ QueryUserOrder(n) \/ BackupTimeToDb(n)
      PROVE  Places'
  <2>1. /\ pc[n] \notin {"select", "write"} /\ UNCHANGED <<cur, at>>
        /\ \E l \in {"sleep", "query", "backup", "create"} :
             /\ pc' = [pc EXCEPT ![n] = l]
             /\ \/ UNCHANGED todo /\ (l \in {"sleep", "query"} => todo[n] = {})
                \/ l \notin {"sleep", "query"} /\ \E T : todo' = [todo EXCEPT ![n] = T]
    <3>1. CASE BeginQuery(n) \/ QueryFails(n)
      BY <1>1, <3>1 DEF BeginQuery, QueryFails, create, Places
    <3>2. CASE QueryUserOrder(n)
      BY <3>2 DEF QueryUserOrder
    <3>3. CASE BackupTimeToDb(n)
      BY <3>3 DEF BackupTimeToDb, AfterOrder, create
    <3> QED BY <1>4, <3>1, <3>2, <3>3
  <2>2. pc \in [Node -> {"sleep", "query", "backup", "create", "select", "write"}] /\ DOMAIN todo = Node
    BY <1>1 DEF TypeOK
  <2> QED BY <1>1, <2>1, <2>2 DEF Places
<1>5. ASSUME NEW n \in Node, SkipOrder(n) PROVE Places'
  BY <1>1, <1>5 DEF SkipOrder, AfterOrder, Places, TypeOK
<1>6. ASSUME NEW n \in Node, CreatePushEvent(n) PROVE Places'
  BY <1>1, <1>6 DEF CreatePushEvent, Places, TypeOK
<1>7. ASSUME NEW n \in Node, SelectEvent(n) \/ WriteEvent(n) PROVE Places'
  <2>1. UNCHANGED todo /\ pc[n] \in {"select", "write"}
    BY <1>7 DEF SelectEvent, WriteEvent
  <2>2. \/ EndOrder(n) \/ NextEvent(n)
        \/ pc' = [pc EXCEPT ![n] = "write"] /\ UNCHANGED <<cur, at>>
    BY <1>7 DEF SelectEvent, WriteEvent, EventFails
  <2>3. \/ /\ cur' = [cur EXCEPT ![n] = {}] /\ at' = [at EXCEPT ![n] = 1]
           /\ pc' = [pc EXCEPT ![n] = AfterOrder(todo[n])]
        \/ \E a, l : /\ l \in {"select", "write"}
                     /\ at' = [at EXCEPT ![n] = a] /\ UNCHANGED cur
                     /\ pc' = [pc EXCEPT ![n] = l]
    <3>1. at = [at EXCEPT ![n] = at[n]]
      BY <1>1 DEF TypeOK
    <3> QED BY <2>2, <3>1 DEF EndOrder, NextEvent
  <2>4. /\ DOMAIN pc = Node /\ DOMAIN cur = Node /\ DOMAIN at = Node
        /\ AfterOrder(todo[n]) \in {"sleep", "create"}
        /\ AfterOrder(todo[n]) = "sleep" => todo[n] = {}
    BY <1>1 DEF AfterOrder, TypeOK
  <2>5. CASE /\ cur' = [cur EXCEPT ![n] = {}] /\ at' = [at EXCEPT ![n] = 1]
             /\ pc' = [pc EXCEPT ![n] = AfterOrder(todo[n])]
    BY <1>1, <2>1, <2>4, <2>5 DEF Places
  <2>6. CASE \E a, l : /\ l \in {"select", "write"}
                       /\ at' = [at EXCEPT ![n] = a] /\ UNCHANGED cur
                       /\ pc' = [pc EXCEPT ![n] = l]
    BY <1>1, <2>1, <2>4, <2>6 DEF Places
  <2> QED BY <2>3, <2>5, <2>6
<1>8. ASSUME NEW n \in Node, Crash(n) \/ AbortOrder(n) PROVE Places'
  <2>1. Restart(n)
    BY <1>8 DEF Crash, AbortOrder
  <2>2. /\ pc' = [pc EXCEPT ![n] = "sleep"] /\ todo' = [todo EXCEPT ![n] = {}]
        /\ cur' = [cur EXCEPT ![n] = {}] /\ at' = [at EXCEPT ![n] = 1]
    BY <2>1 DEF Restart
  <2> QED BY <1>1, <2>2 DEF Places, TypeOK
<1> QED BY <1>2, <1>3, <1>4, <1>5, <1>6, <1>7, <1>8 DEF Next

\* No gap is forgotten.
LEMMA GapGrows ==
  ASSUME PlaceInv, [Next]_vars
  PROVE  gap \subseteq gap'
BY Effects DEF Stays, Changes, Fetches, Drops, Takes, GivesUp, Writes, Forgets
-----------------------------------------------------------------------------
(***************************************************************************)
(* The pool follows the orders                                             *)
(*                                                                         *)
(* FetchedIsScheduled needs NotNewer: that a write which does not put back *)
(* an older version writes the present one, and that an order just changed *)
(* has not been fetched yet.  UnfetchedWaits is inductive with the types.  *)
(***************************************************************************)
\* Nothing on the way is newer than the order it was read from.
NotNewer ==
  /\ \A o \in Order : seen[o] <= ver[o]
  /\ \A n \in Node : \A s \in Carried(n) : s.ver <= ver[s.order]
  /\ \A o \in Order, k \in 1..Events : pool[o][k] <= ver[o]

FollowInv == PlaceInv /\ NotNewer

\* The types again, of what is carried and what the counters hold.
LEMMA CarriedTypes ==
  ASSUME TypeOK
  PROVE  /\ \A n \in Node : \A s \in Carried(n) :
              s \in Snapshot /\ s.order \in Order /\ s.ver \in Nat
         /\ \A o \in Order : ver[o] \in Nat /\ seen[o] \in Nat /\ updated[o] \in Nat
         /\ \A o \in Order, k \in 1..Events : pool[o][k] \in Nat
<1>1. \A n \in Node : \A s \in Carried(n) : s \in Snapshot
  BY DEF TypeOK, Carried
<1>2. \A s \in Snapshot : s.order \in Order /\ s.ver \in Nat
  BY DEF Snapshot
<1>3. \A o \in Order : ver[o] \in Nat /\ seen[o] \in Nat /\ updated[o] \in Nat
  BY DEF TypeOK
<1>4. \A o \in Order, k \in 1..Events : pool[o][k] \in Nat
  BY DEF TypeOK
<1> QED BY <1>1, <1>2, <1>3, <1>4

\* One cell of the pool after a write.
LEMMA PoolAt ==
  ASSUME TypeOK, NEW p \in Order, NEW i \in 1..Events, NEW x,
         NEW o \in Order, NEW k \in 1..Events
  PROVE  [pool EXCEPT ![p][i] = x][o][k] = IF o = p /\ k = i THEN x ELSE pool[o][k]
BY DEF TypeOK

\* Nothing on the way becomes newer than its order.
LEMMA NextNotNewer == FollowInv /\ [Next]_vars => NotNewer'
<1> SUFFICES ASSUME FollowInv, [Next]_vars PROVE NotNewer'
  OBVIOUS
<1>1. PlaceInv /\ TypeOK /\ NotNewer
  BY DEF FollowInv, PlaceInv
<1>2. ASSUME Stays PROVE NotNewer'
  BY <1>1, <1>2 DEF Stays, Counters, NotNewer, Carried
<1>3. ASSUME NEW p \in Order, Changes(p) PROVE NotNewer'
  <2>1. \A o \in Order : ver'[o] >= ver[o] /\ ver'[o] \in Nat
    BY <1>1, <1>3 DEF Changes, TypeOK
  <2> QED BY <1>1, <1>3, <2>1, CarriedTypes DEF Changes, NotNewer, Carried
<1>4. ASSUME NEW n \in Node, Fetches(n) PROVE NotNewer'
  <2>1. PICK rows \in SUBSET Order :
          /\ todo' = [todo EXCEPT ![n] = {Snap(o) : o \in rows}]
          /\ seen' = [o \in Order |-> IF o \in rows THEN ver[o] ELSE seen[o]]
          /\ UNCHANGED <<ver, pool, cur, at>>
    BY <1>4 DEF Fetches
  <2>2. \A o \in Order : seen'[o] <= ver'[o]
    BY <1>1, <2>1, CarriedTypes DEF NotNewer
  <2>3. ASSUME NEW m \in Node, NEW s \in Carried(m)' PROVE s.ver <= ver'[s.order]
    <3>1. s \in Carried(m) \/ \E o \in rows : s = Snap(o)
      BY <1>1, <2>1, <2>3 DEF Carried, TypeOK
    <3> QED BY <1>1, <2>1, <3>1, CarriedTypes DEF NotNewer, Snap
  <2> QED BY <1>1, <2>1, <2>2, <2>3 DEF NotNewer
<1>5. ASSUME NEW n \in Node, NEW s \in Snapshot,
             Drops(n, s) \/ Takes(n, s) \/ GivesUp(n, s) \/ Writes(n, s)
      PROVE  /\ \A m \in Node : Carried(m)' \subseteq Carried(m)
             /\ UNCHANGED <<ver, seen>>
  <2>1. CASE Drops(n, s)
    BY <1>1, <2>1 DEF Drops, Carried, Counters, TypeOK
  <2>2. CASE Takes(n, s)
    BY <1>1, <2>2 DEF Takes, Carried, Counters, TypeOK
  <2>3. CASE GivesUp(n, s) \/ Writes(n, s)
    <3>1. (Ends(n) \/ Advances(n)) /\ UNCHANGED <<todo, ver, seen>>
      BY <2>3 DEF GivesUp, Writes, Counters
    <3> QED BY <1>1, <3>1 DEF Ends, Advances, Carried, TypeOK
  <2> QED BY <1>5, <2>1, <2>2, <2>3
<1>6. ASSUME NEW n \in Node, NEW s \in Snapshot,
             Drops(n, s) \/ Takes(n, s) \/ GivesUp(n, s)
      PROVE  NotNewer'
  <2>1. UNCHANGED pool
    BY <1>6 DEF Drops, Takes, GivesUp, Counters
  <2> QED BY <1>1, <1>5, <1>6, <2>1 DEF NotNewer
<1>7. ASSUME NEW n \in Node, NEW s \in Snapshot, Writes(n, s) PROVE NotNewer'
  <2>1. /\ pool' = [pool EXCEPT ![s.order][at[n]] = s.ver]
        /\ s.order \in Order /\ at[n] \in 1..Events /\ s.ver <= ver[s.order]
    BY <1>1, <1>7 DEF Writes, NotNewer, Carried, TypeOK, Snapshot
  <2>2. \A o \in Order, k \in 1..Events : pool'[o][k] <= ver[o]
    BY <1>1, <2>1, PoolAt DEF NotNewer
  <2> QED BY <1>1, <1>5, <1>7, <2>2 DEF NotNewer
<1>8. ASSUME NEW n \in Node, Forgets(n) PROVE NotNewer'
  <2>1. (\A m \in Node : Carried(m)' \subseteq Carried(m)) /\ UNCHANGED Counters
    BY <1>1, <1>8 DEF Forgets, Ends, Carried, TypeOK
  <2> QED BY <1>1, <2>1 DEF NotNewer, Counters
<1> QED BY <1>1, <1>2, <1>3, <1>4, <1>6, <1>7, <1>8, Effects

LEMMA InitFollow == Init => FollowInv
<1> SUFFICES ASSUME Init PROVE Places /\ NotNewer
  BY InitTypes DEF FollowInv, PlaceInv
<1> QED BY DEF Init, Places, NotNewer, Carried

LEMMA NextFollow == FollowInv /\ [Next]_vars => FollowInv'
BY NextPlaces, NextNotNewer DEF FollowInv

\* A version on its way to an event's row stays on its way, arrives, or is known to be
\* lost.
LEMMA FlightGoesOn ==
  ASSUME PlaceInv, [Next]_vars, NEW o \in Order, NEW v \in Nat, NEW k \in 1..Events,
         InFlight(o, v, k)
  PROVE  \/ InFlight(o, v, k)'
         \/ \E g \in gap' : g.order = o /\ g.ver = v
         \/ pool'[o][k] = v
<1> DEFINE f == [order |-> o, ver |-> v]
<1>1. TypeOK /\ Places
  BY DEF PlaceInv
<1>2. PICK m \in Node : f \in todo[m] \/ (f \in cur[m] /\ at[m] <= k)
  BY DEF InFlight
<1>3. \A c : Lose(f, c) \in gap' => \E g \in gap' : g.order = o /\ g.ver = v
  BY DEF Lose
<1>4. (f \in todo'[m] \/ (f \in cur'[m] /\ at'[m] <= k)) => InFlight(o, v, k)'
  BY DEF InFlight
<1>5. f.order = o /\ f.ver = v /\ f \in Snapshot
  BY DEF Snapshot
<1> HIDE DEF f
<1>6. ASSUME Stays \/ \E p \in Order : Changes(p)
      PROVE  f \in todo'[m] \/ (f \in cur'[m] /\ at'[m] <= k)
  BY <1>2, <1>6 DEF Stays, Changes
<1>7. ASSUME NEW n \in Node, Fetches(n)
      PROVE  f \in todo'[m] \/ (f \in cur'[m] /\ at'[m] <= k)
  BY <1>1, <1>2, <1>7 DEF Fetches, TypeOK
<1>8. ASSUME NEW n \in Node, Forgets(n)
      PROVE  \/ f \in todo'[m] \/ (f \in cur'[m] /\ at'[m] <= k)
             \/ \E c : Lose(f, c) \in gap'
  BY <1>1, <1>2, <1>8 DEF Forgets, Ends, Carried, TypeOK
<1>9. ASSUME NEW n \in Node, NEW s \in Snapshot, Drops(n, s)
      PROVE  \/ f \in todo'[m] \/ (f \in cur'[m] /\ at'[m] <= k)
             \/ \E c : Lose(f, c) \in gap'
  BY <1>1, <1>2, <1>9 DEF Drops, TypeOK
<1>10. ASSUME NEW n \in Node, NEW s \in Snapshot, Takes(n, s)
       PROVE  f \in todo'[m] \/ (f \in cur'[m] /\ at'[m] <= k)
  BY <1>1, <1>2, <1>10 DEF Takes, TypeOK
<1>11. ASSUME NEW n \in Node, NEW s \in Snapshot, GivesUp(n, s)
       PROVE  \/ f \in todo'[m] \/ (f \in cur'[m] /\ at'[m] <= k)
              \/ \E c : Lose(f, c) \in gap'
  <2>1. CASE m # n \/ f \in todo[m]
    BY <1>1, <1>2, <1>11, <2>1 DEF GivesUp, Ends, Advances, TypeOK
  <2>2. CASE m = n /\ f \in cur[m]
    BY <1>11, <2>2 DEF GivesUp
  <2> QED BY <1>2, <2>1, <2>2
<1>12. ASSUME NEW n \in Node, NEW s \in Snapshot, Writes(n, s)
       PROVE  \/ f \in todo'[m] \/ (f \in cur'[m] /\ at'[m] <= k)
              \/ pool'[o][k] = v
  <2>1. CASE m # n \/ f \in todo[m]
    BY <1>1, <1>2, <1>12, <2>1 DEF Writes, Ends, Advances, TypeOK
  <2>2. CASE m = n /\ f \in cur[m] /\ at[m] <= k
    <3>1. f = s /\ at[n] \in 1..Events
      BY <1>1, <1>12, <2>2 DEF Writes, TypeOK
    <3>2. pool' = [pool EXCEPT ![o][at[n]] = v]
      BY <1>5, <1>12, <3>1 DEF Writes
    <3>3. at[n] = k => pool'[o][k] = v
      BY <1>1, <3>1, <3>2, PoolAt
    <3>4. at[n] # k => Advances(n)
      BY <1>12, <2>2, <3>1, PoolConstantsOK DEF Writes
    <3>5. Advances(n) /\ at[n] < k => f \in cur'[m] /\ at'[m] <= k
      BY <1>1, <2>2, <3>1 DEF Advances, TypeOK
    <3> QED BY <2>2, <3>1, <3>3, <3>4, <3>5
  <2> QED BY <1>2, <2>1, <2>2
<1> QED BY <1>3, <1>4, <1>6, <1>7, <1>8, <1>9, <1>10, <1>11, <1>12, Effects

\* The row of an event keeps its version, or is written by an updater that carries the
\* order; an older version is put back at the price of a gap.
LEMMA PoolStays ==
  ASSUME FollowInv, [Next]_vars, NEW o \in Order, NEW k \in 1..Events
  PROVE  \/ pool'[o][k] = pool[o][k]
         \/ /\ ver'[o] = ver[o]
            /\ \E n \in Node, s \in Snapshot :
                 /\ Writes(n, s) /\ s.order = o /\ at[n] = k
                 /\ pool'[o][k] = s.ver /\ s.ver <= ver[o]
            /\ pool'[o][k] < pool[o][k] => \E g \in gap' : g.order = o /\ g.ver = ver[o]
<1>1. PlaceInv /\ TypeOK /\ NotNewer
  BY DEF FollowInv, PlaceInv
<1>2. ASSUME \/ Stays
             \/ \E p \in Order : Changes(p)
             \/ \E n \in Node : Fetches(n) \/ Forgets(n)
             \/ \E n \in Node, s \in Snapshot : Drops(n, s) \/ Takes(n, s) \/ GivesUp(n, s)
      PROVE  UNCHANGED pool
  BY <1>2 DEF Stays, Changes, Fetches, Forgets, Drops, Takes, GivesUp, Counters
<1>3. ASSUME NEW n \in Node, NEW s \in Snapshot, Writes(n, s)
      PROVE  \/ pool'[o][k] = pool[o][k]
             \/ /\ ver'[o] = ver[o] /\ s.order = o /\ at[n] = k
                /\ pool'[o][k] = s.ver /\ s.ver <= ver[o]
                /\ pool'[o][k] < pool[o][k] => \E g \in gap' : g.order = o /\ g.ver = ver[o]
  <2>1. /\ pool' = [pool EXCEPT ![s.order][at[n]] = s.ver] /\ UNCHANGED ver
        /\ s.ver < pool[s.order][at[n]] => Lose(Snap(s.order), "overwritten") \in gap'
        /\ s \in cur[n]
    BY <1>3 DEF Writes
  <2>2. s.order \in Order /\ at[n] \in 1..Events /\ s.ver <= ver[s.order]
    BY <1>1, <2>1 DEF NotNewer, Carried, TypeOK, Snapshot
  <2>3. CASE o = s.order /\ k = at[n]
    <3>1. pool'[o][k] = s.ver
      BY <1>1, <2>1, <2>2, <2>3, PoolAt
    <3>2. Lose(Snap(o), "overwritten").order = o /\ Lose(Snap(o), "overwritten").ver = ver[o]
      BY DEF Lose, Snap
    <3> QED BY <2>1, <2>2, <2>3, <3>1, <3>2
  <2>4. CASE ~ (o = s.order /\ k = at[n])
    BY <1>1, <2>1, <2>2, <2>4, PoolAt
  <2> QED BY <2>3, <2>4
<1> QED BY <1>1, <1>2, <1>3, Effects

\* What was fetched is scheduled, stays so, and so does what is fetched now.
LEMMA NextFetched ==
  FollowInv /\ FetchedIsScheduled /\ [Next]_vars => FetchedIsScheduled'
<1> SUFFICES ASSUME FollowInv, FetchedIsScheduled, [Next]_vars,
                    NEW o \in Order, NEW k \in 1..Events,
                    ver'[o] > 0, seen'[o] = ver'[o]
             PROVE  pool'[o][k] = ver'[o] \/ InFlight(o, ver[o], k)' \/ Lost(o)'
  BY DEF FetchedIsScheduled
<1>1. PlaceInv /\ TypeOK /\ NotNewer /\ ver[o] \in Nat /\ seen[o] \in Nat /\ seen[o] <= ver[o]
  BY DEF FollowInv, PlaceInv, NotNewer, TypeOK
<1>2. PICK v \in Nat : v = ver[o]
  BY <1>1
<1>3. \/ /\ v = ver'[o] /\ seen[o] = v
      \/ /\ v = ver'[o] /\ \E n \in Node : [order |-> o, ver |-> v] \in todo'[n]
  <2>1. ASSUME NEW p \in Order, Changes(p) PROVE v = ver'[o] /\ seen[o] = v
    BY <1>1, <1>2, <2>1 DEF Changes, TypeOK
  <2>2. ASSUME NEW n \in Node, Fetches(n)
        PROVE  v = ver'[o] /\ (seen[o] = v \/ [order |-> o, ver |-> v] \in todo'[n])
    <3>1. PICK rows \in SUBSET Order :
            /\ todo' = [todo EXCEPT ![n] = {Snap(x) : x \in rows}]
            /\ seen' = [x \in Order |-> IF x \in rows THEN ver[x] ELSE seen[x]]
            /\ UNCHANGED <<ver, pool, cur, at>>
      BY <2>2 DEF Fetches
    <3>2. Snap(o) = [order |-> o, ver |-> v]
      BY <1>2 DEF Snap
    <3>3. o \in rows => Snap(o) \in todo'[n]
      BY <1>1, <3>1 DEF TypeOK
    <3> QED BY <1>1, <1>2, <3>1, <3>2, <3>3
  <2>3. ASSUME NEW n \in Node, NEW s \in Snapshot,
               \/ Stays \/ Forgets(n)
               \/ Drops(n, s) \/ Takes(n, s) \/ GivesUp(n, s) \/ Writes(n, s)
        PROVE  v = ver'[o] /\ seen[o] = v
    BY <1>2, <2>3 DEF Stays, Forgets, Drops, Takes, GivesUp, Writes, Counters
  <2>4. ASSUME Stays \/ \E n \in Node : Forgets(n) PROVE v = ver'[o] /\ seen[o] = v
    BY <1>2, <2>4 DEF Stays, Forgets, Counters
  <2> QED BY <1>1, <2>1, <2>2, <2>3, <2>4, Effects
<1>4. (\E n \in Node : [order |-> o, ver |-> v] \in todo'[n]) => InFlight(o, v, k)'
  BY DEF InFlight
<1>5. (\E g \in gap' : g.order = o /\ g.ver = v) /\ v = ver'[o] => Lost(o)'
  BY DEF Lost
<1>6. ASSUME v = ver'[o], seen[o] = v
      PROVE  pool'[o][k] = v \/ InFlight(o, v, k)' \/ \E g \in gap' : g.order = o /\ g.ver = v
  <2>1. pool[o][k] = v \/ InFlight(o, v, k) \/ \E g \in gap : g.order = o /\ g.ver = v
    BY <1>2, <1>6 DEF FetchedIsScheduled, Lost, InFlight
  <2>2. CASE pool[o][k] = v
    <3>1. \A x \in Nat : x <= v => x = v \/ x < v
      BY <1>2
    <3>2. \A s \in Snapshot : s.ver \in Nat
      BY DEF Snapshot
    <3> QED BY <1>2, <2>2, <3>1, <3>2, PoolStays
  <2>3. CASE InFlight(o, v, k)
    BY <1>1, <1>2, <2>3, FlightGoesOn
  <2>4. CASE \E g \in gap : g.order = o /\ g.ver = v
    BY <1>1, <2>4, GapGrows
  <2> QED BY <2>1, <2>2, <2>3, <2>4
<1>7. InFlight(o, v, k)' => InFlight(o, ver[o], k)'
  BY <1>2, <1>3 DEF InFlight
<1> QED BY <1>3, <1>4, <1>5, <1>6, <1>7

\* The order is in the gap when it is among the skipped.
LEMMA SkippedIsLost ==
  ASSUME NEW w, NEW l, NEW o \in Order, seen[o] < ver[o],
         Overlooked(o, w, l, updated[o]), ~ Lost(o)
  PROVE  \E g \in Skipped(w, l) : g.order = o /\ g.ver = ver[o]
<1>1. o \in {x \in Order : seen[x] < ver[x] /\ ~ Lost(x) /\ Overlooked(x, w, l, updated[x])}
  OBVIOUS
<1> DEFINE g == [order |-> o, ver |-> ver[o],
                   cause |-> IF \E n \in Owners(o, w) : l[n] = updated[o] THEN "late" ELSE "skipped"]
<1>2. g \in Skipped(w, l) /\ g.order = o /\ g.ver = ver[o]
  BY <1>1 DEF Skipped
<1> QED BY <1>2

\* An order no SELECT returned waits for one, or is known to be lost.
LEMMA NextUnfetched == TypeOK /\ UnfetchedWaits /\ [Next]_vars => UnfetchedWaits'
<1> SUFFICES ASSUME TypeOK, UnfetchedWaits, [Next]_vars, NEW o \in Order,
                    seen'[o] < ver'[o], Overlooked(o, view', lastUpdated', updated'[o])
             PROVE  Lost(o)'
  BY DEF UnfetchedWaits, Overlooked, Owners
<1>1. /\ ver[o] \in Nat /\ seen[o] \in Nat /\ updated[o] \in Nat
      /\ \A n \in Node : lastUpdated[n] \in Nat /\ t[n] \in Nat
  BY DEF TypeOK
<1>2. ASSUME gap \subseteq gap', ver'[o] = ver[o], Lost(o) PROVE Lost(o)'
  BY <1>2 DEF Lost
<1>3. ASSUME gap \subseteq gap', UNCHANGED <<ver, seen, updated>>,
             Skipped(view', lastUpdated') \subseteq gap'
      PROVE  Lost(o)'
  <2>1. CASE Lost(o)
    BY <1>2, <1>3, <2>1
  <2>2. CASE ~ Lost(o)
    <3>1. \E g \in Skipped(view', lastUpdated') : g.order = o /\ g.ver = ver[o]
      BY <1>3, <2>2, SkippedIsLost
    <3> QED BY <1>3, <3>1 DEF Lost
  <2> QED BY <2>1, <2>2
<1>4. ASSUME gap \subseteq gap', UNCHANGED <<ver, seen, updated, view, lastUpdated>>
      PROVE  Lost(o)'
  BY <1>2, <1>4 DEF UnfetchedWaits
<1>5. CASE Tick \/ UNCHANGED vars
  BY <1>4, <1>5 DEF Tick, vars, tables, env, query, hist
<1>6. ASSUME NEW p \in Order, ChangeOrder(p) PROVE Lost(o)'
  <2>1. /\ ver' = [ver EXCEPT ![p] = @ + 1] /\ updated' = [updated EXCEPT ![p] = clock]
        /\ gap' = IF Overlooked(p, view, lastUpdated, clock)
                    THEN gap \cup {[order |-> p, ver |-> ver[p] + 1, cause |-> "late"]}
                    ELSE gap
        /\ UNCHANGED <<seen, view, lastUpdated>>
    BY <1>6 DEF ChangeOrder, env, query
  <2>2. CASE p = o
    <3>1. ver'[o] = ver[o] + 1 /\ updated'[o] = clock
      BY <2>1, <2>2 DEF TypeOK
    <3>2. [order |-> o, ver |-> ver[o] + 1, cause |-> "late"] \in gap'
      BY <2>1, <2>2, <3>1
    <3> QED BY <3>1, <3>2 DEF Lost
  <2>3. CASE p # o
    <3>1. ver'[o] = ver[o] /\ updated'[o] = updated[o] /\ gap \subseteq gap'
      BY <2>1, <2>3 DEF TypeOK
    <3> QED BY <1>2, <2>1, <3>1 DEF UnfetchedWaits
  <2> QED BY <2>2, <2>3
<1>7. ASSUME NEW n \in Node, ChangeView(n) PROVE Lost(o)'
  BY <1>3, <1>7 DEF ChangeView, tables, query
<1>8. ASSUME NEW n \in Node, Crash(n) \/ AbortOrder(n) PROVE Lost(o)'
  BY <1>3, <1>8 DEF Crash, AbortOrder, Restart, tables
<1>9. ASSUME NEW n \in Node,
             \/ BeginQuery(n) \/ QueryFails(n) \/ BackupTimeToDb(n) \/ SkipOrder(n)
             \/ CreatePushEvent(n) \/ SelectEvent(n) \/ WriteEvent(n)
      PROVE  Lost(o)'
  <2>1. UNCHANGED <<ver, seen, updated, view, lastUpdated>>
    BY <1>9 DEF BeginQuery, QueryFails, BackupTimeToDb, SkipOrder, CreatePushEvent, SelectEvent,
                WriteEvent, tables, env, query, hist
  <2>2. gap \subseteq gap'
    BY <1>9 DEF BeginQuery, QueryFails, BackupTimeToDb, SkipOrder, CreatePushEvent, SelectEvent,
                WriteEvent, EventFails, hist
  <2> QED BY <1>4, <2>1, <2>2
<1>10. ASSUME NEW n \in Node, QueryUserOrder(n) PROVE Lost(o)'
  <2> DEFINE rows == {x \in Order : ver[x] > 0 /\ ChangedSince(x, n)
                                    /\ Selects(pos[n], view[n].cnt, x)}
  <2>1. /\ pos[n] >= 0 /\ view[n].cnt > 0
        /\ lastUpdated' = [lastUpdated EXCEPT ![n] = t[n]]
        /\ seen' = [x \in Order |-> IF x \in rows THEN ver[x] ELSE seen[x]]
        /\ gap' = IF pos[n] = view[n].pos THEN gap
                  ELSE gap \cup {g \in Skipped(view, lastUpdated') : g.order \notin rows}
        /\ UNCHANGED <<ver, updated, view>>
    BY <1>10 DEF QueryUserOrder, tables, env
  <2>2. o \notin rows /\ seen[o] < ver[o] /\ gap \subseteq gap'
    BY <1>1, <2>1
  <2>3. CASE Lost(o)
    BY <1>2, <2>1, <2>2, <2>3
  <2>4. CASE ~ Lost(o) /\ pos[n] # view[n].pos
    <3>1. PICK g \in Skipped(view, lastUpdated') : g.order = o /\ g.ver = ver[o]
      BY <2>1, <2>2, <2>4, SkippedIsLost
    <3>2. g \in gap'
      BY <2>1, <2>2, <2>4, <3>1
    <3> QED BY <2>1, <3>1, <3>2 DEF Lost
  <2>5. CASE ~ Lost(o) /\ pos[n] = view[n].pos
    <3>1. n \in Owners(o, view) => ~ (updated[o] > lastUpdated[n])
      BY <1>1, <2>2, <2>5 DEF Owners, ChangedSince
    <3>2. \A m \in Node \ {n} : lastUpdated'[m] = lastUpdated[m]
      BY <2>1 DEF TypeOK
    <3>3. Owners(o, view) # {} /\ \A m \in Owners(o, view) : lastUpdated'[m] >= updated[o]
      BY <2>1 DEF Overlooked
    <3>4. \A m \in Owners(o, view) : m \in Node
      BY DEF Owners
    <3>5. Overlooked(o, view, lastUpdated, updated[o])
      BY <1>1, <3>1, <3>2, <3>3, <3>4 DEF Overlooked
    <3> QED BY <2>2, <2>5, <3>5 DEF UnfetchedWaits
  <2> QED BY <2>3, <2>4, <2>5
<1> QED BY <1>5, <1>6, <1>7, <1>8, <1>9, <1>10 DEF Next

LEMMA InitPoolFollows == Init => PoolFollows
<1> SUFFICES ASSUME Init PROVE PoolFollows
  OBVIOUS
<1>1. UnfetchedWaits
  BY DEF Init, UnfetchedWaits
<1>2. FetchedIsScheduled
  BY DEF Init, FetchedIsScheduled
<1> QED BY <1>1, <1>2 DEF PoolFollows

\* No change of an order gets lost between user_order_info and push_event_info but for
\* the causes gap names, though last_updated_ is moved and backed up, in a row the
\* nodes share, before the events are written (QueryUserOrder, BackupTimeToDb,
\* UpdateEventsToDb).
THEOREM PoolKeepsUp == Spec => []PoolFollows
<1>1. Init => FollowInv /\ PoolFollows
  BY InitFollow, InitPoolFollows
<1>2. FollowInv /\ PoolFollows /\ [Next]_vars => (FollowInv /\ PoolFollows)'
  <2> SUFFICES ASSUME FollowInv, PoolFollows, [Next]_vars PROVE FollowInv' /\ PoolFollows'
    OBVIOUS
  <2>1. FollowInv'
    BY NextFollow
  <2>2. UnfetchedWaits'
    BY NextUnfetched DEF FollowInv, PlaceInv, PoolFollows
  <2>3. FetchedIsScheduled'
    BY NextFetched DEF PoolFollows
  <2> QED BY <2>1, <2>2, <2>3 DEF PoolFollows
<1> QED BY <1>1, <1>2, PTL DEF Spec
-----------------------------------------------------------------------------
(***************************************************************************)
(* The events of an order tell one story                                   *)
(*                                                                         *)
(* As long as no version of an order got lost, a row may only be older     *)
(* than another of the order while an updater is on its way to write it    *)
(* (Follow); that a write of event at[n] keeps this needs the updater to   *)
(* have brought the events it passed up to its version (Passed).           *)
(***************************************************************************)
\* No version of the order is known to be lost.
Whole(o) == \A g \in gap : g.order # o

Passed ==
  \A n \in Node : \A s \in cur[n], j \in 1..Events :
    Whole(s.order) /\ j < at[n] => pool[s.order][j] >= s.ver

Follow ==
  \A o \in Order : Whole(o) =>
    \A j, k \in 1..Events : pool[o][j] >= pool[o][k] \/ InFlight(o, pool[o][k], j)

StoryInv == FollowInv /\ Passed /\ Follow

\* What is whole after a step was so before it.
LEMMA WholeBefore ==
  ASSUME PlaceInv, [Next]_vars, NEW o \in Order, Whole(o)'
  PROVE  Whole(o) /\ \A g \in gap' : g.order # o
BY GapGrows DEF Whole

\* The rows of a whole order only get newer.
LEMMA PoolGrows ==
  ASSUME FollowInv, [Next]_vars, NEW o \in Order, Whole(o)'
  PROVE  \A k \in 1..Events : pool'[o][k] >= pool[o][k] /\ pool'[o][k] \in Nat
<1> TAKE k \in 1..Events
<1>1. PlaceInv /\ TypeOK
  BY DEF FollowInv, PlaceInv
<1>2. \A g \in gap' : g.order # o
  BY <1>1, WholeBefore
<1>3. pool[o][k] \in Nat /\ \A s \in Snapshot : s.ver \in Nat
  BY <1>1 DEF TypeOK, Snapshot
<1>4. pool'[o][k] = pool[o][k] \/ (pool'[o][k] \in Nat /\ ~ (pool'[o][k] < pool[o][k]))
  BY <1>2, <1>3, PoolStays
<1> QED BY <1>3, <1>4

\* An updater has brought the events it passed up to its version.
LEMMA NextPassed == StoryInv /\ [Next]_vars => Passed'
<1> SUFFICES ASSUME StoryInv, [Next]_vars,
                    NEW m \in Node, NEW r \in cur'[m], NEW j \in 1..Events,
                    Whole(r.order)', j < at'[m]
             PROVE  pool'[r.order][j] >= r.ver
  BY DEF Passed
<1>1. FollowInv /\ PlaceInv /\ TypeOK /\ Passed
  BY DEF StoryInv, FollowInv, PlaceInv
<1>2. TypeOK'
  BY <1>1, NextTypes
<1>3. r \in Snapshot /\ r.order \in Order /\ r.ver \in Nat
  BY <1>2 DEF TypeOK, Snapshot
<1>4. /\ Whole(r.order) /\ \A g \in gap' : g.order # r.order
      /\ pool'[r.order][j] >= pool[r.order][j] /\ pool'[r.order][j] \in Nat
      /\ pool[r.order][j] \in Nat
  BY <1>1, <1>3, WholeBefore, PoolGrows DEF TypeOK
<1>5. ASSUME r \in cur[m], at'[m] = at[m] PROVE pool'[r.order][j] >= r.ver
  <2>1. pool[r.order][j] >= r.ver
    BY <1>1, <1>4, <1>5 DEF Passed
  <2> QED BY <1>3, <1>4, <2>1
<1>6. ASSUME \/ Stays
             \/ \E p \in Order : Changes(p)
             \/ \E n \in Node : Fetches(n)
             \/ \E n \in Node, s \in Snapshot : Drops(n, s)
      PROVE  r \in cur[m] /\ at'[m] = at[m]
  BY <1>6 DEF Stays, Changes, Fetches, Drops
<1>7. ASSUME NEW n \in Node, Ends(n) PROVE r \in cur[m] /\ at'[m] = at[m]
  <2>1. m # n
    BY <1>1, <1>7 DEF Ends, TypeOK
  <2> QED BY <1>1, <1>7, <2>1 DEF Ends, TypeOK
<1>8. ASSUME NEW n \in Node, NEW s \in Snapshot, Takes(n, s)
      PROVE  r \in cur[m] /\ at'[m] = at[m]
  <2>1. m # n
    <3>1. m = n => at'[m] = 1
      BY <1>8 DEF Takes
    <3> QED BY <3>1
  <2> QED BY <1>1, <1>8, <2>1 DEF Takes, TypeOK
<1>9. ASSUME NEW n \in Node, NEW s \in Snapshot, GivesUp(n, s), Advances(n), m = n
      PROVE  FALSE
  <2>1. r = s /\ \E c \in {"mismatch", "failed"} : Lose(s, c) \in gap'
    BY <1>9 DEF GivesUp, Advances
  <2> QED BY <1>4, <2>1 DEF Lose
<1>10. ASSUME NEW n \in Node, NEW s \in Snapshot, Writes(n, s), Advances(n), m = n
       PROVE  pool'[r.order][j] >= r.ver
  <2>1. r = s /\ r \in cur[n] /\ pool' = [pool EXCEPT ![r.order][at[n]] = r.ver]
    BY <1>10 DEF Writes, Advances
  <2>2. at[n] \in 1..Events /\ at'[n] = at[n] + 1
    BY <1>1, <1>10 DEF Advances, TypeOK
  <2>3. CASE j = at[n]
    <3>1. [pool EXCEPT ![r.order][at[n]] = r.ver][r.order][at[n]] = r.ver
      BY <1>1, <1>3, <2>2, PoolAt
    <3>2. pool'[r.order][j] = r.ver
      BY <2>1, <2>3, <3>1
    <3> QED BY <1>3, <3>2
  <2>4. CASE j < at[n]
    <3>1. pool[r.order][j] >= r.ver
      BY <1>1, <1>4, <2>1, <2>4 DEF Passed
    <3> QED BY <1>3, <1>4, <3>1
  <2>5. j = at[n] \/ j < at[n]
    BY <1>10, <2>2
  <2> QED BY <2>3, <2>4, <2>5
<1>11. ASSUME NEW n \in Node, Advances(n), m # n PROVE r \in cur[m] /\ at'[m] = at[m]
  BY <1>1, <1>11 DEF Advances, TypeOK
<1>12. ASSUME NEW n \in Node, NEW s \in Snapshot, GivesUp(n, s) \/ Writes(n, s) \/ Forgets(n)
       PROVE  pool'[r.order][j] >= r.ver
  <2>1. Ends(n) \/ (Advances(n) /\ (GivesUp(n, s) \/ Writes(n, s)))
    BY <1>12 DEF GivesUp, Writes, Forgets
  <2> QED BY <1>5, <1>7, <1>9, <1>10, <1>11, <2>1
<1>13. ASSUME NEW n \in Node, Forgets(n) PROVE pool'[r.order][j] >= r.ver
  BY <1>5, <1>7, <1>13 DEF Forgets
<1> QED BY <1>1, <1>5, <1>6, <1>8, <1>12, <1>13, Effects

\* A row is older than another of its order only while it is about to be written.
LEMMA NextStory == StoryInv /\ [Next]_vars => Follow'
<1> SUFFICES ASSUME StoryInv, [Next]_vars, NEW o \in Order, Whole(o)',
                    NEW j \in 1..Events, NEW k \in 1..Events
             PROVE  pool'[o][j] >= pool'[o][k] \/ InFlight(o, pool[o][k], j)'
  BY DEF Follow
<1>1. FollowInv /\ PlaceInv /\ TypeOK /\ Passed /\ Follow
  BY DEF StoryInv, FollowInv, PlaceInv
<1>2. /\ Whole(o) /\ \A g \in gap' : g.order # o
      /\ \A i \in 1..Events : /\ pool'[o][i] >= pool[o][i]
                              /\ pool'[o][i] \in Nat /\ pool[o][i] \in Nat
  BY <1>1, WholeBefore, PoolGrows DEF TypeOK
<1>3. PICK v \in Nat : v = pool'[o][k]
  BY <1>2
<1>4. CASE pool'[o][k] = pool[o][k]
  <2>1. pool[o][j] >= v \/ InFlight(o, v, j)
    BY <1>1, <1>2, <1>3, <1>4 DEF Follow, InFlight
  <2>2. CASE pool[o][j] >= v
    BY <1>2, <1>3, <2>2
  <2>3. CASE InFlight(o, v, j)
    <3>1. InFlight(o, v, j)' \/ pool'[o][j] = v
      BY <1>1, <1>2, <2>3, FlightGoesOn
    <3> QED BY <1>2, <1>3, <3>1 DEF InFlight
  <2> QED BY <2>1, <2>2, <2>3
<1>5. CASE pool'[o][k] # pool[o][k]
  <2>1. PICK n \in Node, s \in Snapshot :
          Writes(n, s) /\ s.order = o /\ at[n] = k /\ pool'[o][k] = s.ver
    BY <1>1, <1>5, PoolStays
  <2>2. s \in cur[n] /\ s = [order |-> o, ver |-> v] /\ s.ver = v
    BY <1>3, <2>1 DEF Writes, Snapshot
  <2>3. CASE j < k
    <3>1. pool[o][j] >= v
      BY <1>1, <1>2, <2>1, <2>2, <2>3 DEF Passed
    <3> QED BY <1>2, <1>3, <3>1
  <2>4. CASE j > k
    <3>1. Advances(n)
      BY <2>1, <2>4, PoolConstantsOK DEF Writes
    <3>2. cur'[n] = cur[n] /\ at'[n] = k + 1
      BY <1>1, <2>1, <3>1 DEF Advances, TypeOK
    <3>3. at'[n] <= j
      BY <2>4, <3>2
    <3>4. [order |-> o, ver |-> v] \in cur'[n] /\ at'[n] <= j
      BY <2>2, <3>2, <3>3
    <3> QED BY <1>3, <3>4 DEF InFlight
  <2>5. CASE j = k
    BY <1>2, <2>5
  <2> QED BY <2>3, <2>4, <2>5
<1> QED BY <1>4, <1>5

LEMMA NextStoryInv == StoryInv /\ [Next]_vars => StoryInv'
BY NextFollow, NextPassed, NextStory DEF StoryInv

LEMMA InitStory == Init => StoryInv
<1> SUFFICES ASSUME Init PROVE Passed /\ Follow
  BY InitFollow DEF StoryInv
<1>1. Passed
  BY DEF Init, Passed
<1>2. Follow
  BY DEF Init, Follow
<1> QED BY <1>1, <1>2

\* A whole order no updater carries has all its rows from one version.
LEMMA StoryAgrees == StoryInv => EventsAgree
<1> SUFFICES ASSUME StoryInv, NEW o \in Order, Whole(o),
                    \A n \in Node : \A s \in todo[n] \cup cur[n] : s.order # o,
                    NEW j \in 1..Events, NEW k \in 1..Events
             PROVE  pool[o][j] = pool[o][k]
  BY DEF EventsAgree, Whole
<1>1. TypeOK /\ Follow
  BY DEF StoryInv, FollowInv, PlaceInv
<1>2. \A v, i : ~ InFlight(o, v, i)
  BY DEF InFlight
<1>3. pool[o][j] >= pool[o][k] /\ pool[o][k] >= pool[o][j]
  BY <1>1, <1>2 DEF Follow
<1>4. pool[o][j] \in Nat /\ pool[o][k] \in Nat
  BY <1>1 DEF TypeOK
<1> QED BY <1>3, <1>4

\* Whatever the cluster, between two rounds all rows of an order that lost no version
\* come from one version of it, though UpdateEventsToDb writes them one by one, outside
\* a transaction, and two updaters may be at the same order.
THEOREM EventsTellOneStory == Spec => []EventsAgree
BY InitStory, NextStoryInv, StoryAgrees, PTL DEF Spec
-----------------------------------------------------------------------------
(***************************************************************************)
(* A lone node                                                             *)
(*                                                                         *)
(* With one node n, whose views are at most those of the whole cluster,    *)
(* the clocks and the last_updated_ it goes by never pass an order no      *)
(* SELECT returned (LoneTimes), and it carries each order once, with a     *)
(* version no row is newer than (LoneCarries).                             *)
(***************************************************************************)
\* What ZkManager shows when one process is registered.
LoneView == [pos |-> 0, cnt |-> 1]

Alone(n) == Node = {n} /\ Views[n] \subseteq {NoView, LoneView}

LoneTypes(n) ==
  /\ view[n] \in {NoView, LoneView} /\ pos[n] \in {-1, 0}
  /\ t[n] <= clock /\ lastUpdated[n] <= clock /\ backup <= clock

\* last_updated_ and its backup are not past an order still to be fetched.
LoneTimes(n) ==
  \A o \in Order : seen[o] < ver[o] /\ ~ Lost(o) =>
                     lastUpdated[n] <= updated[o] /\ backup <= updated[o]

LoneCarries(n) ==
  /\ \A r, s \in Carried(n) : r.order = s.order => r = s
  /\ \A s \in Carried(n), k \in 1..Events : pool[s.order][k] <= s.ver

LoneGaps == \A g \in gap : g.cause \notin {"skipped", "overwritten"}

LoneInv(n) == /\ FollowInv /\ UnfetchedWaits
              /\ LoneTypes(n) /\ LoneTimes(n) /\ LoneCarries(n) /\ LoneGaps

\* What an owner of an order is, when there is one node.
LEMMA LoneOwner ==
  ASSUME NEW n \in Node, Node = {n}, NEW o \in Order, NEW w, NEW l, NEW u
  PROVE  /\ Overlooked(o, w, l, u) => n \in Owners(o, w) /\ l[n] >= u
         /\ n \in Owners(o, w) /\ l[n] >= u => Overlooked(o, w, l, u)
         /\ w[n] = NoView => Owners(o, w) = {}
BY DEF Overlooked, Owners, NoView

LEMMA AllSelected == ASSUME NEW o \in Order PROVE Selects(0, 1, o)
<1>1. Fingerprint[o] \in Nat
  BY PoolConstantsOK
<1>2. \A x \in Nat : (x % 1) = 0
  OBVIOUS
<1> QED BY <1>1, <1>2 DEF Selects

LEMMA NextLoneTypes ==
  ASSUME NEW n \in Node, Alone(n), LoneInv(n), [Next]_vars
  PROVE  LoneTypes(n)'
<1>1. TypeOK /\ LoneTypes(n) /\ Node = {n}
  BY DEF LoneInv, FollowInv, PlaceInv, Alone
<1>2. clock \in Nat /\ t[n] \in Nat /\ lastUpdated[n] \in Nat /\ backup \in Nat
  BY <1>1 DEF TypeOK
<1>3. CASE Tick
  BY <1>1, <1>2, <1>3 DEF Tick, LoneTypes, tables, query
<1>4. CASE UNCHANGED vars \/ \E o \in Order : ChangeOrder(o)
  BY <1>1, <1>4 DEF vars, tables, env, query, ChangeOrder, LoneTypes
<1>5. CASE ChangeView(n)
  <2>1. PICK v \in Views[n] : view' = [view EXCEPT ![n] = v]
    BY <1>5 DEF ChangeView
  <2>2. view'[n] \in {NoView, LoneView}
    BY <1>1, <2>1 DEF Alone, TypeOK
  <2> QED BY <1>1, <1>5, <2>2 DEF ChangeView, LoneTypes, tables, query
<1>6. CASE BeginQuery(n)
  <2>1. /\ t' = [t EXCEPT ![n] = clock] /\ pos' = [pos EXCEPT ![n] = view[n].pos]
        /\ UNCHANGED <<view, clock, lastUpdated, backup>>
    BY <1>6 DEF BeginQuery, tables, env
  <2>2. t'[n] = clock /\ pos'[n] = view[n].pos /\ view[n].pos \in {-1, 0}
    BY <1>1, <2>1 DEF TypeOK, LoneTypes, NoView, LoneView
  <2> QED BY <1>1, <1>2, <2>1, <2>2 DEF LoneTypes
<1>7. CASE QueryFails(n) \/ QueryUserOrder(n)
  <2>1. /\ LeaveQuery(n) /\ UNCHANGED <<view, clock, backup>>
        /\ (lastUpdated' = lastUpdated \/ lastUpdated' = [lastUpdated EXCEPT ![n] = t[n]])
    BY <1>7 DEF QueryFails, QueryUserOrder, tables, env
  <2>2. pos'[n] = -1 /\ t'[n] = 0 /\ lastUpdated'[n] \in {lastUpdated[n], t[n]}
    BY <1>1, <2>1 DEF LeaveQuery, TypeOK
  <2> QED BY <1>1, <1>2, <2>1, <2>2 DEF LoneTypes
<1>8. CASE BackupTimeToDb(n)
  BY <1>1, <1>8 DEF BackupTimeToDb, LoneTypes, env, query
<1>9. CASE SkipOrder(n) \/ CreatePushEvent(n) \/ SelectEvent(n) \/ WriteEvent(n)
  <2>1. UNCHANGED <<view, pos, t, lastUpdated, clock, backup>>
    BY <1>9 DEF SkipOrder, CreatePushEvent, SelectEvent, WriteEvent, env, query, tables
  <2> QED BY <1>1, <2>1 DEF LoneTypes
<1>10. CASE Crash(n) \/ AbortOrder(n)
  <2>1. Restart(n)
    BY <1>10 DEF Crash, AbortOrder
  <2>2. PICK b \in RestoredTimes : lastUpdated' = [lastUpdated EXCEPT ![n] = b]
    BY <2>1 DEF Restart
  <2>3. lastUpdated'[n] \in {backup, 0}
    BY <1>1, <2>2 DEF RestoredTimes, TypeOK
  <2>4. view'[n] = NoView /\ pos'[n] = -1 /\ t'[n] = 0 /\ UNCHANGED <<clock, backup>>
    BY <1>1, <2>1 DEF Restart, TypeOK, tables
  <2> QED BY <1>1, <1>2, <2>3, <2>4 DEF LoneTypes
<1> QED BY <1>1, <1>3, <1>4, <1>5, <1>6, <1>7, <1>8, <1>9, <1>10 DEF Next

\* After its query the lone node has no order left that it could miss: one it passed
\* over has been changed in the second of its last query.
LEMMA QueryLeavesNone ==
  ASSUME NEW n \in Node, Alone(n), LoneInv(n), QueryUserOrder(n), NEW o \in Order,
         seen'[o] < ver[o]
  PROVE  Lost(o)
<1> SUFFICES ASSUME ~ Lost(o) PROVE FALSE
  OBVIOUS
<1> DEFINE rows == {x \in Order : ver[x] > 0 /\ ChangedSince(x, n)
                                  /\ Selects(pos[n], view[n].cnt, x)}
<1>1. TypeOK /\ LoneTypes(n) /\ LoneTimes(n) /\ UnfetchedWaits /\ Node = {n}
  BY DEF LoneInv, FollowInv, PlaceInv, Alone
<1>2. /\ pos[n] >= 0 /\ view[n].cnt > 0
      /\ seen' = [x \in Order |-> IF x \in rows THEN ver[x] ELSE seen[x]]
  BY DEF QueryUserOrder
<1>3. /\ ver[o] \in Nat /\ seen[o] \in Nat /\ updated[o] \in Nat /\ lastUpdated[n] \in Nat
  BY <1>1 DEF TypeOK
<1>4. o \notin rows /\ seen[o] < ver[o]
  BY <1>2, <1>3
<1>5. pos[n] = 0 /\ view[n] = LoneView
  BY <1>1, <1>2 DEF LoneTypes, NoView
<1>6. Selects(pos[n], view[n].cnt, o) /\ n \in Owners(o, view)
  BY <1>5, AllSelected DEF LoneView, Owners
<1>7. lastUpdated[n] >= updated[o]
  BY <1>3, <1>4, <1>6 DEF ChangedSince
<1>8. Overlooked(o, view, lastUpdated, updated[o])
  BY <1>1, <1>6, <1>7, LoneOwner
<1> QED BY <1>1, <1>4, <1>8 DEF UnfetchedWaits

LEMMA NextLoneTimes ==
  ASSUME NEW n \in Node, Alone(n), LoneInv(n), [Next]_vars
  PROVE  LoneTimes(n)'
<1> SUFFICES ASSUME NEW o \in Order, seen'[o] < ver'[o], ~ Lost(o)'
             PROVE  lastUpdated'[n] <= updated'[o] /\ backup' <= updated'[o]
  BY DEF LoneTimes
<1>1. TypeOK /\ PlaceInv /\ LoneTypes(n) /\ LoneTimes(n) /\ Node = {n}
  BY DEF LoneInv, FollowInv, PlaceInv, Alone
<1>2. /\ clock \in Nat /\ lastUpdated[n] \in Nat /\ backup \in Nat /\ updated[o] \in Nat
  BY <1>1 DEF TypeOK
<1>3. ver'[o] = ver[o] => ~ Lost(o)
  BY <1>1, GapGrows DEF Lost
<1>4. ASSUME UNCHANGED <<ver, seen, updated>>,
             lastUpdated'[n] \in {lastUpdated[n], backup, 0},
             backup' \in {backup, lastUpdated[n]}
      PROVE  lastUpdated'[n] <= updated'[o] /\ backup' <= updated'[o]
  <2>1. lastUpdated[n] <= updated[o] /\ backup <= updated[o]
    BY <1>1, <1>3, <1>4 DEF LoneTimes
  <2> QED BY <1>2, <1>4, <2>1
<1>5. CASE UNCHANGED <<ver, seen, updated, lastUpdated, backup>>
  BY <1>4, <1>5
<1>6. \/ Tick \/ UNCHANGED vars \/ ChangeView(n) \/ BeginQuery(n) \/ QueryFails(n)
      \/ SkipOrder(n) \/ CreatePushEvent(n) \/ SelectEvent(n) \/ WriteEvent(n)
      => UNCHANGED <<ver, seen, updated, lastUpdated, backup>>
  BY DEF Tick, vars, ChangeView, BeginQuery, QueryFails, SkipOrder, CreatePushEvent, SelectEvent,
         WriteEvent, tables, query, hist
<1>7. ASSUME NEW p \in Order, ChangeOrder(p)
      PROVE  lastUpdated'[n] <= updated'[o] /\ backup' <= updated'[o]
  <2>1. /\ ver' = [ver EXCEPT ![p] = @ + 1] /\ updated' = [updated EXCEPT ![p] = clock]
        /\ UNCHANGED <<seen, lastUpdated, backup>>
    BY <1>7 DEF ChangeOrder, query
  <2>2. CASE p = o
    <3>1. updated'[o] = clock
      BY <1>1, <2>1, <2>2 DEF TypeOK
    <3> QED BY <1>1, <2>1, <3>1 DEF LoneTypes
  <2>3. CASE p # o
    <3>1. ver'[o] = ver[o] /\ updated'[o] = updated[o]
      BY <1>1, <2>1, <2>3 DEF TypeOK
    <3> QED BY <1>1, <1>3, <2>1, <3>1 DEF LoneTimes
  <2> QED BY <2>2, <2>3
<1>8. CASE QueryUserOrder(n)
  <2>1. ver' = ver
    BY <1>8 DEF QueryUserOrder, tables
  <2> QED BY <1>3, <1>8, <2>1, QueryLeavesNone
<1>9. CASE BackupTimeToDb(n)
  BY <1>4, <1>9 DEF BackupTimeToDb, query, hist
<1>10. CASE Crash(n) \/ AbortOrder(n)
  <2>1. Restart(n)
    BY <1>10 DEF Crash, AbortOrder
  <2>2. PICK b \in RestoredTimes : lastUpdated' = [lastUpdated EXCEPT ![n] = b]
    BY <2>1 DEF Restart
  <2>3. lastUpdated'[n] \in {backup, 0}
    BY <1>1, <2>2 DEF RestoredTimes, TypeOK
  <2>4. UNCHANGED <<ver, seen, updated, backup>>
    BY <2>1 DEF Restart, tables
  <2> QED BY <1>4, <2>3, <2>4
<1> QED BY <1>1, <1>5, <1>6, <1>7, <1>8, <1>9, <1>10 DEF Next

\* The lone node carries an order once, and no row is newer.
LEMMA NextLoneCarries ==
  ASSUME NEW n \in Node, Alone(n), LoneInv(n), [Next]_vars
  PROVE  LoneCarries(n)'
<1>1. TypeOK /\ PlaceInv /\ NotNewer /\ LoneCarries(n) /\ Node = {n}
  BY DEF LoneInv, FollowInv, PlaceInv, Alone
<1>2. ASSUME Carried(n)' \subseteq Carried(n), UNCHANGED pool PROVE LoneCarries(n)'
  BY <1>1, <1>2 DEF LoneCarries
<1>3. ASSUME Stays \/ \E p \in Order : Changes(p) PROVE LoneCarries(n)'
  BY <1>2, <1>3 DEF Stays, Changes, Counters, Carried
<1>4. CASE Fetches(n)
  <2>1. PICK rows \in SUBSET Order :
          todo' = [todo EXCEPT ![n] = {Snap(o) : o \in rows}] /\ cur[n] = {}
          /\ UNCHANGED <<pool, cur>>
    BY <1>4 DEF Fetches
  <2>2. \A s \in Carried(n)' : \E o \in Order : s = Snap(o)
    BY <1>1, <2>1 DEF Carried, TypeOK
  <2>3. \A o \in Order : Snap(o).order = o /\ Snap(o).ver = ver[o]
    BY DEF Snap
  <2>4. \A o \in Order, k \in 1..Events : pool[o][k] <= ver[o]
    BY <1>1 DEF NotNewer
  <2>5. \A r, s \in Carried(n)' : r.order = s.order => r = s
    BY <2>2, <2>3
  <2>6. \A s \in Carried(n)', k \in 1..Events : pool'[s.order][k] <= s.ver
    BY <2>1, <2>2, <2>3, <2>4
  <2> QED BY <2>5, <2>6 DEF LoneCarries
<1>5. CASE Forgets(n)
  <2>1. Carried(n)' = {} /\ UNCHANGED pool
    BY <1>1, <1>5 DEF Forgets, Ends, Carried, Counters, TypeOK
  <2> QED BY <1>2, <2>1
<1>6. ASSUME NEW s \in Snapshot, Drops(n, s) \/ Takes(n, s) \/ GivesUp(n, s)
      PROVE  LoneCarries(n)'
  <2>1. CASE Drops(n, s)
    BY <1>1, <1>2, <2>1 DEF Drops, Carried, Counters, TypeOK
  <2>2. CASE Takes(n, s)
    BY <1>1, <1>2, <2>2 DEF Takes, Carried, Counters, TypeOK
  <2>3. CASE GivesUp(n, s)
    BY <1>1, <1>2, <2>3 DEF GivesUp, Ends, Advances, Carried, Counters, TypeOK
  <2> QED BY <1>6, <2>1, <2>2, <2>3
<1>7. ASSUME NEW s \in Snapshot, Writes(n, s) PROVE LoneCarries(n)'
  <2>1. /\ s \in cur[n] /\ Carried(n)' \subseteq Carried(n)
        /\ pool' = [pool EXCEPT ![s.order][at[n]] = s.ver] /\ at[n] \in 1..Events
    BY <1>1, <1>7 DEF Writes, Ends, Advances, Carried, TypeOK
  <2>2. s \in Carried(n) /\ s.order \in Order /\ s.ver \in Nat
    BY <1>1, <2>1, CarriedTypes DEF Carried
  <2>3. ASSUME NEW r \in Carried(n)', NEW k \in 1..Events
        PROVE  pool'[r.order][k] <= r.ver
    <3>1. r \in Carried(n) /\ r.order \in Order /\ r.ver \in Nat
      BY <1>1, <2>1, <2>3, CarriedTypes
    <3>2. CASE r.order = s.order /\ k = at[n]
      <4>1. [pool EXCEPT ![s.order][at[n]] = s.ver][s.order][at[n]] = s.ver
        <5>1. pool \in [Order -> [1..Events -> Nat]] /\ s.order \in Order /\ at[n] \in 1..Events
          BY <1>1, <2>1, <2>2 DEF TypeOK
        <5> QED BY ONLY <5>1
      <4>2. pool'[r.order][k] = s.ver
        BY <2>1, <3>2, <4>1
      <4>3. r = s
        BY <1>1, <2>2, <3>1, <3>2 DEF LoneCarries
      <4> QED BY <2>2, <4>2, <4>3
    <3>3. CASE ~ (r.order = s.order /\ k = at[n])
      BY <1>1, <2>1, <2>2, <3>1, <3>3, PoolAt DEF LoneCarries
    <3> QED BY <3>2, <3>3
  <2> QED BY <1>1, <2>1, <2>3 DEF LoneCarries
<1> QED BY <1>1, <1>3, <1>4, <1>5, <1>6, <1>7, Effects

\* Without other nodes no partition moves and no older version comes back.
LEMMA NextLoneGaps ==
  ASSUME NEW n \in Node, Alone(n), LoneInv(n), [Next]_vars
  PROVE  LoneGaps'
<1>1. /\ TypeOK /\ PlaceInv /\ Node = {n}
      /\ LoneTypes(n) /\ LoneTimes(n) /\ LoneCarries(n) /\ LoneGaps
  BY DEF LoneInv, FollowInv, PlaceInv, Alone
<1>2. ASSUME NEW c \in {"late", "failed", "mismatch", "crash"}, NEW s
      PROVE  Lose(s, c).cause \notin {"skipped", "overwritten"}
  BY DEF Lose
<1>3. ASSUME UNCHANGED gap PROVE LoneGaps'
  BY <1>1, <1>3 DEF LoneGaps
<1>4. CASE Tick \/ UNCHANGED vars \/ BeginQuery(n) \/ QueryFails(n) \/ BackupTimeToDb(n)
           \/ CreatePushEvent(n)
  BY <1>3, <1>4 DEF Tick, vars, BeginQuery, QueryFails, BackupTimeToDb, CreatePushEvent, hist
<1>5. ASSUME NEW o \in Order, ChangeOrder(o) PROVE LoneGaps'
  BY <1>1, <1>5 DEF ChangeOrder, LoneGaps
<1>6. CASE ChangeView(n)
  <2>1. ASSUME NEW g \in Skipped(view', lastUpdated) PROVE g.cause = "late"
    <3>1. PICK o \in Order :
            /\ seen[o] < ver[o] /\ ~ Lost(o) /\ Overlooked(o, view', lastUpdated, updated[o])
            /\ g = [order |-> o, ver |-> ver[o],
                    cause |-> IF \E m \in Owners(o, view') : lastUpdated[m] = updated[o]
                                THEN "late" ELSE "skipped"]
      BY <2>1 DEF Skipped
    <3>2. n \in Owners(o, view') /\ lastUpdated[n] >= updated[o]
      BY <1>1, <3>1, LoneOwner
    <3>3. lastUpdated[n] <= updated[o] /\ lastUpdated[n] \in Nat /\ updated[o] \in Nat
      BY <1>1, <3>1 DEF LoneTimes, TypeOK
    <3>4. lastUpdated[n] = updated[o]
      BY <3>2, <3>3
    <3> QED BY <3>1, <3>2, <3>4
  <2> QED BY <1>1, <1>6, <2>1 DEF ChangeView, LoneGaps
<1>7. CASE QueryUserOrder(n)
  <2>1. pos[n] = view[n].pos
    BY <1>1, <1>7 DEF QueryUserOrder, LoneTypes, NoView, LoneView
  <2> QED BY <1>3, <1>7, <2>1 DEF QueryUserOrder
<1>8. CASE SkipOrder(n)
  BY <1>1, <1>2, <1>8 DEF SkipOrder, LoneGaps
<1>9. CASE SelectEvent(n)
  BY <1>1, <1>2, <1>9 DEF SelectEvent, EventFails, LoneGaps
<1>10. CASE WriteEvent(n)
  <2>1. PICK s \in cur[n] :
          \/ gap' = IF s.ver < pool[s.order][at[n]]
                      THEN gap \cup {Lose(Snap(s.order), "overwritten")}
                      ELSE gap
          \/ gap' = gap \cup {Lose(s, "failed")}
    BY <1>10 DEF WriteEvent, EventFails
  <2>2. pool[s.order][at[n]] <= s.ver /\ pool[s.order][at[n]] \in Nat /\ s.ver \in Nat
    BY <1>1, <2>1, CarriedTypes DEF LoneCarries, Carried, TypeOK
  <2> QED BY <1>1, <1>2, <2>1, <2>2 DEF LoneGaps
<1>11. CASE Crash(n) \/ AbortOrder(n)
  <2>1. Restart(n)
    BY <1>11 DEF Crash, AbortOrder
  <2>2. gap' = gap \cup {Lose(s, "crash") : s \in todo[n] \cup cur[n]}
                   \cup Skipped(view', lastUpdated')
        /\ view' = [view EXCEPT ![n] = NoView]
    BY <2>1 DEF Restart
  <2>3. view'[n] = NoView
    BY <1>1, <2>2 DEF TypeOK
  <2>4. Skipped(view', lastUpdated') = {}
    BY <1>1, <2>3, LoneOwner DEF Skipped, Overlooked
  <2> QED BY <1>1, <1>2, <2>2, <2>4 DEF LoneGaps
<1> QED BY <1>1, <1>4, <1>5, <1>6, <1>7, <1>8, <1>9, <1>10, <1>11 DEF Next

LEMMA NextLone ==
  ASSUME NEW n \in Node, Alone(n)
  PROVE  LoneInv(n) /\ [Next]_vars => LoneInv(n)'
BY NextFollow, NextUnfetched, NextLoneTypes, NextLoneTimes, NextLoneCarries, NextLoneGaps
   DEF LoneInv, FollowInv, PlaceInv

LEMMA InitLone == ASSUME NEW n \in Node PROVE Init => LoneInv(n)
<1> SUFFICES ASSUME Init
             PROVE  LoneTypes(n) /\ LoneTimes(n) /\ LoneCarries(n) /\ LoneGaps
  BY InitFollow, InitPoolFollows DEF LoneInv, PoolFollows
<1> QED BY DEF Init, LoneTypes, LoneTimes, LoneCarries, LoneGaps, Carried

\* A lone node passes over an order only if it changed in the second of a query, its
\* restarts from the backup included, and never puts a row back to an older version;
\* and the rows of an order tell one story in any cluster.  That a lone node sees the
\* whole cluster, once it is registered, is what ZkManager computes from one child.
THEOREM LonePool ==
  ASSUME IsFiniteSet(Node),
         \A n \in Node : Node = {n} => Views[n] \subseteq {NoView, LoneView}
  PROVE  Spec => []LonePoolIsSound
<1>1. CASE Cardinality(Node) # 1
  <2>1. StoryInv => LonePoolIsSound
    BY <1>1, StoryAgrees DEF LonePoolIsSound, OneNodeGaps
  <2> QED BY <2>1, InitStory, NextStoryInv, PTL DEF Spec
<1>2. CASE Cardinality(Node) = 1
  <2>1. PICK n : Node = {n}
    BY <1>2, FS_Singleton
  <2>2. n \in Node /\ Alone(n)
    BY <2>1 DEF Alone
  <2>3. StoryInv /\ LoneInv(n) => LonePoolIsSound
    BY StoryAgrees DEF LonePoolIsSound, OneNodeGaps, LoneInv, LoneGaps
  <2>4. Init => LoneInv(n)
    BY <2>2, InitLone
  <2>5. LoneInv(n) /\ [Next]_vars => LoneInv(n)'
    BY <2>2, NextLone
  <2> QED BY <2>3, <2>4, <2>5, InitStory, NextStoryInv, PTL DEF Spec
<1> QED BY <1>1, <1>2
=============================================================================
