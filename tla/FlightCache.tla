----------------------------- MODULE FlightCache -----------------------------
(***************************************************************************)
(* The flight info service: one flight and day in Redis, a hash of twenty  *)
(* fields, and the threads that refresh it.                                *)
(*                                                                         *)
(* FlightDataUpdater refreshes every known flight in a loop, and a query   *)
(* that finds nothing refreshes its flight on the spot; both run           *)
(* UpdateFlightDataToRedis, each on its own connection.  A refresh looks   *)
(* whether the key has a plan_gate (three commands), writes the hash with  *)
(* or without a plan_gate, up to three times, and sets the expiry, up to   *)
(* three times.  Redis executes single commands only, so two refreshes     *)
(* interleave.  Of the twenty fields plan_gate and actual_gate matter: the *)
(* others are written together with actual_gate.                           *)
(***************************************************************************)
EXTENDS Naturals, FiniteSets

CONSTANTS
  Worker,       \* threads that refresh the flight
  Gate,         \* the gates the flight may be given
  None,         \* the empty string: no gate yet; Missing: the field is not in the hash
  Missing,
  MaxChanges,   \* bound: how often the airport changes the gate
  MaxExpiries,  \* bound: how often the key expires
  MaxFaults     \* bound: error replies and lost connections

ASSUME CacheConstantsOK ==
  /\ None \notin Gate /\ Missing \notin Gate \cup {None}
  /\ MaxChanges \in Nat /\ MaxExpiries \in Nat /\ MaxFaults \in Nat

VARIABLES
  gate,       \* the gate the flight data provider reports
  key,        \* the hashes under the key: none or one [plan, actual, ttl]
  \* per worker
  pc,         \* where UpdateFlightDataToRedis is
  fetched,    \* plan_gate and actual_gate of the response: both are the gate
  insert,     \* plan_gate is in flight_data_map
  tries,      \* attempts left, retry_cnt
  broken,     \* the connection is in error: every command fails from now on
  \* history
  plans,      \* the non-empty plan gates stored since the key was last absent
  overlap,    \* workers that another worker's HMSET overtook since their EXISTS
  raced,      \* an overtaken worker inserted a plan_gate
  untimed,    \* the last HMSET was not followed by a successful EXPIRE, for good
  vanished,   \* the key expired while a worker looked at it
  changes, expiries, faults

local == <<pc, fetched, insert, tries, broken>>
hist  == <<plans, overlap, raced, untimed, vanished, changes, expiries, faults>>
vars  == <<gate, key, local, hist>>

Hash == [plan : Gate \cup {None, Missing}, actual : Gate \cup {None}, ttl : BOOLEAN]

-----------------------------------------------------------------------------
Init ==
  /\ gate = None
  /\ key = {}
  /\ pc = [w \in Worker |-> "idle"]
  /\ fetched = [w \in Worker |-> None]
  /\ insert = [w \in Worker |-> FALSE]
  /\ tries = [w \in Worker |-> 3]
  /\ broken = [w \in Worker |-> FALSE]
  /\ plans = {}
  /\ overlap = {} /\ raced = FALSE /\ untimed = FALSE /\ vanished = FALSE
  /\ changes = 0 /\ expiries = 0 /\ faults = 0

\* The airport assigns another gate.
ChangeGate ==
  /\ changes < MaxChanges
  /\ changes' = changes + 1
  /\ gate' \in Gate \ {gate}
  /\ UNCHANGED <<key, local, plans, overlap, raced, untimed, vanished, expiries, faults>>

\* redis_expire_time is over.
KeyExpires ==
  /\ expiries < MaxExpiries
  /\ expiries' = expiries + 1
  /\ \E h \in key : h.ttl
  /\ key' = {}
  /\ plans' = {}
  /\ untimed' = FALSE
  /\ vanished' = (vanished \/ \E w \in Worker : pc[w] \in {"hexists", "hget", "hmset"})
  /\ UNCHANGED <<gate, local, overlap, raced, changes, faults>>

GoTo(w, label) == pc' = [pc EXCEPT ![w] = label]

\* FetchFlightData, then InitConnection; a failure of either ends the refresh.
FetchFlightData(w) ==
  /\ pc[w] = "idle"
  /\ fetched' = [fetched EXCEPT ![w] = gate]
  /\ overlap' = overlap \ {w}
  /\ GoTo(w, "exists")
  /\ UNCHANGED <<gate, key, insert, tries, broken, plans, raced, untimed, vanished,
                 changes, expiries, faults>>

(***************************************************************************)
(* SetPlanGateToMap.  A command on a lost connection answers false, as for *)
(* a key or a field that does not exist; only Hget keeps the two apart.    *)
(***************************************************************************)
Lose(w) == /\ faults < MaxFaults
           /\ faults' = faults + 1
           /\ broken' = [broken EXCEPT ![w] = TRUE]
Keep    == UNCHANGED <<faults, broken>>

Look(w, label, there, next) ==
  /\ pc[w] = label
  /\ \/ /\ there /\ Keep
        /\ GoTo(w, next)
        /\ UNCHANGED insert
     \/ /\ (~ there /\ Keep) \/ Lose(w)
        /\ GoTo(w, "hmset")
        /\ insert' = [insert EXCEPT ![w] = TRUE]
  /\ UNCHANGED <<gate, key, fetched, tries, plans, overlap, raced, untimed, vanished,
                 changes, expiries>>

Exists(w)  == Look(w, "exists", key # {}, "hexists")
Hexists(w) == Look(w, "hexists", \E h \in key : h.plan # Missing, "hget")

\* Whether Hget's answer lets plan_gate be inserted: nil and an error do not.
InsertAfterHget(found) == None \in found
Hget(w) ==
  /\ pc[w] = "hget"
  /\ \/ /\ Keep
        /\ insert' = [insert EXCEPT ![w] =
                        InsertAfterHget({h.plan : h \in key} \ {Missing})]
     \/ /\ Lose(w)
        /\ UNCHANGED insert
  /\ GoTo(w, "hmset")
  /\ UNCHANGED <<gate, key, fetched, tries, plans, overlap, raced, untimed, vanished,
                 changes, expiries>>

(***************************************************************************)
(* The two retry loops.  while (retry_cnt-- > 0) leaves -1 when every      *)
(* attempt failed and 0 when the last succeeded: if (retry_cnt == 0) takes *)
(* the second for a failure, and the first for a success.                  *)
(***************************************************************************)
\* The hash after HMSET of the worker's fields.
OverwritePlan(w, h) == fetched[w]            \* (mutant) plan_gate is always in the map
SkipEmptyPlan(w, h) ==                       \* (mutant) an empty plan_gate is not inserted
  IF insert[w] /\ fetched[w] # None THEN fetched[w] ELSE h.plan
PlanAfter(w, h) == IF insert[w] THEN fetched[w] ELSE h.plan

Hash0 == [plan |-> Missing, actual |-> None, ttl |-> FALSE]
WrittenBeside(w) ==                          \* (mutant) the hash goes under another key
  key \cup {[plan |-> fetched[w], actual |-> fetched[w], ttl |-> FALSE]}
Written(w) ==
  {[plan |-> PlanAfter(w, h), actual |-> fetched[w], ttl |-> h.ttl] :
     h \in IF key = {} THEN {Hash0} ELSE key}

\* HMSET executed by Redis.
Apply(w) ==
  /\ key' = Written(w)
  /\ plans' = plans \cup ({h.plan : h \in Written(w)} \cap Gate)
  /\ overlap' = overlap \cup {v \in Worker \ {w} : pc[v] \in {"hexists", "hget", "hmset"}}
  /\ raced' = (raced \/ (w \in overlap /\ insert[w]))

\* What follows an attempt that succeeded and left so many: none left is taken for a
\* failure.
AfterHmsetDone(left) == "idle"               \* (mutant) return before the second loop
AfterHmset(left) == IF left = 0 THEN "idle" ELSE "expire"

\* The loop over HMSET is left, and what only it needs goes out of use.
LeaveHmset(w, label) ==
  /\ GoTo(w, label)
  /\ fetched' = [fetched EXCEPT ![w] = None]
  /\ insert' = [insert EXCEPT ![w] = FALSE]
  /\ broken' = [broken EXCEPT ![w] = FALSE]
  /\ tries' = [tries EXCEPT ![w] = 3]

Fault == faults < MaxFaults /\ faults' = faults + 1

Hmset(w) ==
  /\ pc[w] = "hmset" /\ ~ broken[w]
  /\ \/ /\ Apply(w)
        /\ LeaveHmset(w, AfterHmset(tries[w] - 1))
        /\ untimed' = (untimed \/ (tries[w] = 1 /\ \E h \in Written(w) : ~ h.ttl))
        /\ UNCHANGED faults
     \/ /\ Fault                              \* an error reply, attempts left
        /\ tries[w] > 1
        /\ tries' = [tries EXCEPT ![w] = @ - 1]
        /\ UNCHANGED <<key, plans, overlap, raced, untimed, pc, fetched, insert, broken>>
     \/ /\ Fault                              \* the third: taken for a success
        /\ tries[w] = 1
        /\ LeaveHmset(w, "expire")
        /\ UNCHANGED <<key, plans, overlap, raced, untimed>>
     \/ /\ Fault                              \* executed, the reply and the connection lost
        /\ Apply(w)
        /\ LeaveHmset(w, "idle")
        /\ untimed' = (untimed \/ \E h \in Written(w) : ~ h.ttl)
     \/ /\ Fault                              \* not executed, the connection lost
        /\ LeaveHmset(w, "idle")
        /\ UNCHANGED <<key, plans, overlap, raced, untimed>>
  /\ UNCHANGED <<gate, vanished, changes, expiries>>

\* On a lost connection all attempts of both loops fail, and the refresh reports success.
HmsetBroken(w) ==
  /\ pc[w] = "hmset" /\ broken[w]
  /\ LeaveHmset(w, "idle")
  /\ UNCHANGED <<gate, key, hist>>

\* EXPIRE answers 0 without the key; three attempts, then the refresh is over.
Expire(w) ==
  /\ pc[w] = "expire"
  /\ \/ /\ key # {}
        /\ key' = {[h EXCEPT !.ttl = TRUE] : h \in key}
        /\ untimed' = FALSE
        /\ GoTo(w, "idle")
        /\ tries' = [tries EXCEPT ![w] = 3]
        /\ UNCHANGED faults
     \/ /\ key = {}
        /\ tries' = [tries EXCEPT ![w] = IF @ = 1 THEN 3 ELSE @ - 1]
        /\ GoTo(w, IF tries[w] = 1 THEN "idle" ELSE "expire")
        /\ UNCHANGED <<key, untimed, faults>>
     \/ /\ Fault                              \* the connection lost
        /\ untimed' = (untimed \/ \E h \in key : ~ h.ttl)
        /\ GoTo(w, "idle")
        /\ tries' = [tries EXCEPT ![w] = 3]
        /\ UNCHANGED key
  /\ UNCHANGED <<gate, fetched, insert, broken, plans, overlap, raced, vanished, changes,
                 expiries>>

\* A reply of a type the code does not expect, an error to EXISTS say, fails a CHECK:
\* the process dies and is started again.
Abort ==
  /\ faults < MaxFaults
  /\ faults' = faults + 1
  /\ \E w \in Worker : pc[w] \in {"exists", "hexists", "hget", "expire"}
  /\ pc' = [w \in Worker |-> "idle"]
  /\ fetched' = [w \in Worker |-> None]
  /\ insert' = [w \in Worker |-> FALSE]
  /\ tries' = [w \in Worker |-> 3]
  /\ broken' = [w \in Worker |-> FALSE]
  /\ overlap' = {}
  /\ untimed' = (untimed \/ \E h \in key : ~ h.ttl)
  /\ UNCHANGED <<gate, key, plans, raced, vanished, changes, expiries>>

Refresh(w) ==
  \/ FetchFlightData(w) \/ Exists(w) \/ Hexists(w) \/ Hget(w)
  \/ Hmset(w) \/ HmsetBroken(w) \/ Expire(w)

Next ==
  \/ ChangeGate
  \/ KeyExpires
  \/ Abort
  \/ \E w \in Worker :
       \/ FetchFlightData(w) \/ Exists(w) \/ Hexists(w) \/ Hget(w)
       \/ Hmset(w) \/ HmsetBroken(w) \/ Expire(w)

Spec == Init /\ [][Next]_vars

\* The updater's loop goes on and Redis answers or fails.
FairSpec == Spec /\ \A w \in Worker : WF_vars(Refresh(w))

-----------------------------------------------------------------------------
TypeOK ==
  /\ gate \in Gate \cup {None}
  /\ key \in SUBSET Hash /\ Cardinality(key) <= 1
  /\ pc \in [Worker -> {"idle", "exists", "hexists", "hget", "hmset", "expire"}]
  /\ fetched \in [Worker -> Gate \cup {None}]
  /\ insert \in [Worker -> BOOLEAN]
  /\ tries \in [Worker -> 1..3]
  /\ broken \in [Worker -> BOOLEAN]
  /\ plans \subseteq Gate
  /\ overlap \subseteq Worker
  /\ raced \in BOOLEAN /\ untimed \in BOOLEAN /\ vanished \in BOOLEAN
  /\ changes \in 0..MaxChanges /\ expiries \in 0..MaxExpiries /\ faults \in 0..MaxFaults

\* "plan_gate is inserted the first time, as the planned gate, and never updated"
\* (flight_db_interface.cc:213): while the key exists its plan gate is one gate.
PlanGateKept == Cardinality(plans) <= 1

\* The plan gate is replaced only if two refreshes overlapped: the later one looked
\* before the earlier one wrote.  Lost connections and error replies never replace it.
PlanGateNeedsRace == PlanGateKept \/ raced

\* A hash that will never expire is one whose refresh has not come to EXPIRE yet, or
\* lost its connection, or succeeded only at the third HMSET.
NoTtlHasCause ==
  (\E h \in key : ~ h.ttl) => untimed \/ \E w \in Worker : pc[w] = "expire"

\* A hash without plan_gate, which no query accepts, appears only if the key expired
\* while a refresh looked at it.
IncompleteHasCause == (\E h \in key : h.plan = Missing) => vanished

\* What Redis holds of a flight can be used, and goes away, but for these causes.
BrokenHashHasCause == NoTtlHasCause /\ IncompleteHasCause

\* Once expiries and faults are over the flight becomes and stays answerable.
EventuallyAnswered == <>[](\E h \in key : h.plan # Missing)
=============================================================================
