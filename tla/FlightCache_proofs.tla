-------------------------- MODULE FlightCache_proofs --------------------------
(***************************************************************************)
(* Proofs about FlightCache, for any number of workers, any gates, and any *)
(* bounds on changes, expiries and faults.                                 *)
(***************************************************************************)
EXTENDS FlightCache, FiniteSetTheorems, TLAPS

-----------------------------------------------------------------------------
(***************************************************************************)
(* The invariant                                                           *)
(***************************************************************************)
\* The key holds one hash or none.
OneHash == key = {} \/ \E h \in Hash : key = {h}

\* TypeOK, with the hash itself in place of a cardinality.
TypeInv ==
  /\ gate \in Gate \cup {None}
  /\ OneHash
  /\ pc \in [Worker -> {"idle", "exists", "hexists", "hget", "hmset", "expire"}]
  /\ fetched \in [Worker -> Gate \cup {None}]
  /\ insert \in [Worker -> BOOLEAN]
  /\ tries \in [Worker -> 1..3]
  /\ broken \in [Worker -> BOOLEAN]
  /\ plans \subseteq Gate
  /\ overlap \subseteq Worker
  /\ raced \in BOOLEAN /\ untimed \in BOOLEAN /\ vanished \in BOOLEAN
  /\ changes \in 0..MaxChanges /\ expiries \in 0..MaxExpiries /\ faults \in 0..MaxFaults

\* Without a race the only plan gate stored since the key appeared is the one it has.
PlansOfHash == ~ raced => \A g \in plans : key # {} /\ \A h \in key : h.plan = g

\* The worker's next HMSET carries a plan_gate, and nobody has written since it looked.
WillInsert(w) == /\ pc[w] = "hmset" /\ insert[w] /\ ~ broken[w]
                 /\ w \notin overlap

\* Without a race whoever is to insert the plan gate finds none stored.
InsertIsFirst == ~ raced => \A w \in Worker : WillInsert(w) => plans = {}

\* The worker has found the key, and has no reason to insert a plan gate.
HasSeenKey(w) == \/ pc[w] \in {"hexists", "hget"}
                 \/ pc[w] = "hmset" /\ ~ insert[w] /\ ~ broken[w]

\* A key that a worker has found is there until it expires.
SeenKeyIsThere == \A w \in Worker : HasSeenKey(w) => key # {} \/ vanished

PlanInv == TypeInv /\ PlansOfHash /\ InsertIsFirst
HashInv == TypeInv /\ NoTtlHasCause /\ IncompleteHasCause /\ SeenKeyIsThere

-----------------------------------------------------------------------------
(***************************************************************************)
(* Types                                                                   *)
(***************************************************************************)
LEMMA InitTypeInv == Init => TypeInv
<1>1. 0 \in 0..MaxChanges /\ 0 \in 0..MaxExpiries /\ 0 \in 0..MaxFaults /\ 3 \in 1..3
  BY CacheConstantsOK
<1> QED  BY <1>1 DEF Init, TypeInv, OneHash

\* A worker that leaves the loop over HMSET is of its type.
LEMMA LeaveTypes ==
  ASSUME TypeInv, NEW w \in Worker, NEW label \in {"idle", "expire"}, LeaveHmset(w, label)
  PROVE  /\ pc' \in [Worker -> {"idle", "exists", "hexists", "hget", "hmset", "expire"}]
         /\ fetched' \in [Worker -> Gate \cup {None}]
         /\ insert' \in [Worker -> BOOLEAN]
         /\ tries' \in [Worker -> 1..3]
         /\ broken' \in [Worker -> BOOLEAN]
BY DEF TypeInv, LeaveHmset, GoTo

\* What HMSET writes is one hash.
LEMMA WrittenIsOne ==
  ASSUME TypeInv, NEW w \in Worker
  PROVE  \E h \in Hash :
            /\ Written(w) = {h}
            /\ h.actual = fetched[w]
            /\ insert[w] => h.plan = fetched[w]
            /\ ~ insert[w] => IF key = {} THEN h.plan = Missing ELSE \A g \in key : h.plan = g.plan
<1> DEFINE New(g) == [plan |-> PlanAfter(w, g), actual |-> fetched[w], ttl |-> g.ttl]
<1>1. fetched[w] \in Gate \cup {None} /\ insert[w] \in BOOLEAN
  BY DEF TypeInv
<1>2. Hash0 \in Hash
  BY DEF Hash0, Hash
<1>3. ASSUME NEW g \in Hash PROVE New(g) \in Hash
  BY <1>1, <1>3 DEF Hash, PlanAfter
<1>4. CASE key = {}
  <2>1. Written(w) = {New(Hash0)}
    BY <1>4 DEF Written
  <2>2. New(Hash0).actual = fetched[w]
    OBVIOUS
  <2>3. New(Hash0).plan = IF insert[w] THEN fetched[w] ELSE Missing
    BY DEF PlanAfter, Hash0
  <2> QED  BY <1>1, <1>2, <1>3, <1>4, <2>1, <2>2, <2>3
<1>5. CASE key # {}
  <2>1. PICK g \in Hash : key = {g}
    BY <1>5 DEF TypeInv, OneHash
  <2>2. Written(w) = {New(g)}
    BY <2>1 DEF Written
  <2>3. New(g).plan = IF insert[w] THEN fetched[w] ELSE g.plan
    BY DEF PlanAfter
  <2>4. New(g).actual = fetched[w]
    OBVIOUS
  <2> QED  BY <1>1, <1>3, <1>5, <2>1, <2>2, <2>3, <2>4
<1> QED  BY <1>4, <1>5

\* Redis's side of HMSET.
LEMMA ApplyTypes ==
  ASSUME TypeInv, NEW w \in Worker, Apply(w)
  PROVE  OneHash' /\ plans' \subseteq Gate /\ overlap' \subseteq Worker /\ raced' \in BOOLEAN
<1>1. PICK h \in Hash : Written(w) = {h}
  BY WrittenIsOne
<1>2. OneHash'
  BY <1>1 DEF Apply, OneHash, Hash
<1> QED  BY <1>2 DEF Apply, TypeInv

LEMMA HmsetTypes ==
  ASSUME TypeInv, NEW w \in Worker, Hmset(w) PROVE TypeInv'
<1> DEFINE Rest == /\ gate' \in Gate \cup {None} /\ vanished' \in BOOLEAN
                   /\ changes' \in 0..MaxChanges /\ expiries' \in 0..MaxExpiries
           Of(l) == l \in {"idle", "expire"} /\ LeaveHmset(w, l)
           Shared == /\ OneHash' /\ plans' \subseteq Gate /\ overlap' \subseteq Worker
                     /\ raced' \in BOOLEAN
           Left == /\ pc' \in [Worker -> {"idle", "exists", "hexists", "hget", "hmset", "expire"}]
                   /\ fetched' \in [Worker -> Gate \cup {None}]
                   /\ insert' \in [Worker -> BOOLEAN]
                   /\ tries' \in [Worker -> 1..3]
                   /\ broken' \in [Worker -> BOOLEAN]
           Counts == untimed' \in BOOLEAN /\ faults' \in 0..MaxFaults
<1>1. Rest
  BY DEF Hmset, TypeInv
<1>2. ASSUME NEW l, Of(l) PROVE Left
  BY <1>2, LeaveTypes
<1>3. Apply(w) => Shared
  BY ApplyTypes
<1>4. UNCHANGED <<key, plans, overlap, raced>> => Shared
  BY DEF TypeInv, OneHash
<1>5. Fault => faults' \in 0..MaxFaults
  BY CacheConstantsOK DEF Fault, TypeInv
<1>6. faults \in 0..MaxFaults /\ untimed \in BOOLEAN
  BY DEF TypeInv
<1>7. AfterHmset(tries[w] - 1) \in {"idle", "expire"}
  BY DEF AfterHmset
<1>8. CASE /\ tries[w] > 1 /\ Fault
           /\ tries' = [tries EXCEPT ![w] = @ - 1]
           /\ UNCHANGED <<key, plans, overlap, raced, untimed, pc, fetched, insert, broken>>
  <2>1. Left
    BY <1>8 DEF TypeInv
  <2> QED  BY <1>1, <1>4, <1>5, <1>6, <1>8, <2>1 DEF TypeInv
<1>9. CASE ~ (/\ tries[w] > 1 /\ Fault
              /\ tries' = [tries EXCEPT ![w] = @ - 1]
              /\ UNCHANGED <<key, plans, overlap, raced, untimed, pc, fetched, insert, broken>>)
  <2>1. Left
    BY <1>2, <1>7, <1>9 DEF Hmset
  <2>2. Shared
    BY <1>3, <1>4, <1>9 DEF Hmset
  <2>3. Counts
    BY <1>5, <1>6, <1>9 DEF Hmset
  <2> QED  BY <1>1, <2>1, <2>2, <2>3 DEF TypeInv
<1> QED  BY <1>8, <1>9

LEMMA ExpireTypes ==
  ASSUME TypeInv, NEW w \in Worker, Expire(w) PROVE TypeInv'
<1>1. OneHash'
  <2>1. CASE key' = {[h EXCEPT !.ttl = TRUE] : h \in key} /\ key # {}
    <3>1. PICK g \in Hash : key = {g}
      BY <2>1 DEF TypeInv, OneHash
    <3>2. key' = {[g EXCEPT !.ttl = TRUE]} /\ [g EXCEPT !.ttl = TRUE] \in Hash
      BY <2>1, <3>1 DEF Hash
    <3> QED  BY <3>2 DEF OneHash, Hash
  <2>2. CASE UNCHANGED key
    BY <2>2 DEF TypeInv, OneHash
  <2> QED  BY <2>1, <2>2 DEF Expire
<1>2. pc' \in [Worker -> {"idle", "exists", "hexists", "hget", "hmset", "expire"}]
  BY DEF Expire, TypeInv, GoTo
<1>3. tries' \in [Worker -> 1..3]
  BY DEF Expire, TypeInv
<1>4. untimed' \in BOOLEAN
  BY DEF Expire, TypeInv
<1>5. faults' \in 0..MaxFaults
  BY CacheConstantsOK DEF Expire, TypeInv, Fault
<1> QED  BY <1>1, <1>2, <1>3, <1>4, <1>5 DEF Expire, TypeInv

\* The three commands that look for a plan_gate.
LEMMA LookTypes ==
  ASSUME TypeInv, NEW w \in Worker, Exists(w) \/ Hexists(w) \/ Hget(w) PROVE TypeInv'
<1>1. pc' \in [Worker -> {"idle", "exists", "hexists", "hget", "hmset", "expire"}]
  BY DEF Exists, Hexists, Hget, Look, TypeInv, GoTo
<1>2. insert' \in [Worker -> BOOLEAN]
  <2>1. InsertAfterHget({h.plan : h \in key} \ {Missing}) \in BOOLEAN
    BY DEF InsertAfterHget
  <2>2. \/ insert' = insert
        \/ \E yes \in BOOLEAN : insert' = [insert EXCEPT ![w] = yes]
    BY <2>1 DEF Exists, Hexists, Hget, Look
  <2> QED  BY <2>2 DEF TypeInv
<1>3. broken' \in [Worker -> BOOLEAN] /\ faults' \in 0..MaxFaults
  <2>1. Keep \/ Lose(w)
    BY DEF Exists, Hexists, Hget, Look
  <2>2. faults + 1 \in 0..MaxFaults \/ ~ (faults < MaxFaults)
    BY CacheConstantsOK DEF TypeInv
  <2> QED  BY <2>1, <2>2 DEF TypeInv, Lose, Keep
<1>4. UNCHANGED <<gate, key, fetched, tries, plans, overlap, raced, untimed, vanished,
                  changes, expiries>>
  BY DEF Exists, Hexists, Hget, Look
<1> QED  BY <1>1, <1>2, <1>3, <1>4 DEF TypeInv, OneHash

LEMMA NextTypeInv == TypeInv /\ [Next]_vars => TypeInv'
<1> SUFFICES ASSUME TypeInv, [Next]_vars PROVE TypeInv'
  OBVIOUS
<1>1. CASE ChangeGate
  BY <1>1, CacheConstantsOK DEF ChangeGate, TypeInv, OneHash, local
<1>2. CASE KeyExpires
  <2>1. vanished' \in BOOLEAN
    BY <1>2 DEF KeyExpires, TypeInv
  <2>2. expiries' \in 0..MaxExpiries
    BY <1>2, CacheConstantsOK DEF KeyExpires, TypeInv
  <2> QED  BY <1>2, <2>1, <2>2 DEF KeyExpires, TypeInv, OneHash, local
<1>3. CASE Abort
  BY <1>3, CacheConstantsOK DEF Abort, TypeInv, OneHash
<1>4. ASSUME NEW w \in Worker, FetchFlightData(w) PROVE TypeInv'
  BY <1>4 DEF FetchFlightData, TypeInv, OneHash, GoTo
<1>5. ASSUME NEW w \in Worker, HmsetBroken(w) PROVE TypeInv'
  BY <1>5, LeaveTypes DEF HmsetBroken, TypeInv, OneHash, hist
<1>6. CASE UNCHANGED vars
  BY <1>6 DEF TypeInv, OneHash, vars, local, hist
<1> QED  BY <1>1, <1>2, <1>3, <1>4, <1>5, <1>6, LookTypes, HmsetTypes, ExpireTypes DEF Next

\* The state of the service is of its type: in Redis at most one hash, with its fields
\* (UpdateFlightDataToRedis and its retry counters).
THEOREM FlightCacheTypes == Spec => []TypeOK
<1>1. TypeInv => TypeOK
  <2> SUFFICES ASSUME TypeInv PROVE TypeOK
    OBVIOUS
  <2>1. key \in SUBSET Hash /\ Cardinality(key) <= 1
    <3>1. CASE key = {}
      BY <3>1, FS_EmptySet
    <3>2. ASSUME NEW h \in Hash, key = {h} PROVE key \in SUBSET Hash /\ Cardinality(key) <= 1
      <4>1. Cardinality({h}) = 1
        BY FS_Singleton
      <4> QED  BY <3>2, <4>1
    <3> QED  BY <3>1, <3>2 DEF TypeInv, OneHash
  <2> QED  BY <2>1 DEF TypeInv, TypeOK
<1> QED  BY <1>1, InitTypeInv, NextTypeInv, PTL DEF Spec
-----------------------------------------------------------------------------
(***************************************************************************)
(* The plan gate                                                           *)
(***************************************************************************)
\* An HMSET that Redis executes: without a race the plan gate it stores is the one that
\* was there, or the first.
LEMMA ApplyKeepsPlan ==
  ASSUME PlanInv, NEW w \in Worker, pc[w] = "hmset", ~ broken[w], Apply(w),
         LeaveHmset(w, "idle") \/ LeaveHmset(w, "expire")
  PROVE  PlansOfHash' /\ InsertIsFirst'
<1>1. PICK h \in Hash :
        /\ Written(w) = {h}
        /\ insert[w] => h.plan = fetched[w]
        /\ ~ insert[w] => IF key = {} THEN h.plan = Missing ELSE \A g \in key : h.plan = g.plan
  BY WrittenIsOne DEF PlanInv
<1>2. key' = {h} /\ plans' = plans \cup ({h.plan} \cap Gate)
  BY <1>1 DEF Apply
<1>3. PlansOfHash'
  <2> SUFFICES ASSUME ~ raced', NEW g \in plans' PROVE h.plan = g
    BY <1>2 DEF PlansOfHash
  <2>1. ~ raced /\ ~ (w \in overlap /\ insert[w])
    BY DEF Apply
  <2>2. CASE insert[w]
    <3>1. plans = {}
      BY <2>1, <2>2 DEF PlanInv, InsertIsFirst, WillInsert
    <3> QED  BY <1>2, <3>1
  <2>3. CASE ~ insert[w]
    <3>1. \A f \in plans : h.plan = f
      BY <1>1, <2>1, <2>3 DEF PlanInv, PlansOfHash
    <3> QED  BY <1>2, <3>1
  <2> QED  BY <2>2, <2>3
<1>4. ASSUME NEW v \in Worker PROVE ~ WillInsert(v)'
  <2>1. CASE v = w
    BY <2>1 DEF WillInsert, LeaveHmset, GoTo, PlanInv, TypeInv
  <2>2. CASE v # w
    <3>1. pc'[v] = pc[v]
      BY <2>2 DEF LeaveHmset, GoTo, PlanInv, TypeInv
    <3>2. pc[v] = "hmset" => v \in overlap'
      BY <2>2 DEF Apply
    <3> QED  BY <3>1, <3>2 DEF WillInsert
  <2> QED  BY <2>1, <2>2
<1> QED  BY <1>3, <1>4 DEF InsertIsFirst

\* A step that stores nothing and sends no worker to HMSET with a plan gate.
LEMMA PlanStands ==
  ASSUME PlanInv, UNCHANGED <<key, plans, raced>>,
         \A v \in Worker : WillInsert(v)' => WillInsert(v)
  PROVE  PlansOfHash' /\ InsertIsFirst'
BY DEF PlanInv, PlansOfHash, InsertIsFirst

\* A worker that leaves the loop over HMSET inserts nothing, the others as before.
LEMMA LeaverInsertsNothing ==
  ASSUME TypeInv, NEW w \in Worker, NEW label \in {"idle", "expire"}, LeaveHmset(w, label),
         UNCHANGED overlap
  PROVE  \A v \in Worker : WillInsert(v)' => WillInsert(v)
BY DEF TypeInv, LeaveHmset, GoTo, WillInsert

LEMMA HmsetKeepsPlan ==
  ASSUME PlanInv, NEW w \in Worker, Hmset(w) PROVE PlansOfHash' /\ InsertIsFirst'
<1>1. TypeInv /\ pc[w] = "hmset" /\ ~ broken[w]
  BY DEF Hmset, PlanInv
<1>2. AfterHmset(tries[w] - 1) \in {"idle", "expire"}
  BY DEF AfterHmset
<1>3. CASE Apply(w) /\ (LeaveHmset(w, "idle") \/ LeaveHmset(w, "expire"))
  BY <1>1, <1>3, ApplyKeepsPlan
<1>4. CASE UNCHANGED <<key, plans, overlap, raced>>
  <2>1. \A v \in Worker : WillInsert(v)' => WillInsert(v)
    <3>1. CASE UNCHANGED <<pc, insert, broken>>
      BY <1>4, <3>1 DEF WillInsert
    <3>2. CASE \E l \in {"idle", "expire"} : LeaveHmset(w, l)
      BY <1>1, <1>4, <3>2, LeaverInsertsNothing
    <3> QED  BY <1>2, <3>1, <3>2 DEF Hmset
  <2> QED  BY <1>4, <2>1, PlanStands
<1>5. \/ Apply(w) /\ (LeaveHmset(w, "idle") \/ LeaveHmset(w, "expire"))
      \/ UNCHANGED <<key, plans, overlap, raced>>
  BY <1>2 DEF Hmset
<1> QED  BY <1>3, <1>4, <1>5

\* Whoever is told that there is no plan gate is told so because none was stored.
LEMMA LookKeepsPlan ==
  ASSUME PlanInv, NEW w \in Worker, Exists(w) \/ Hexists(w) \/ Hget(w)
  PROVE  PlansOfHash' /\ InsertIsFirst'
<1>1. TypeInv /\ UNCHANGED <<key, plans, overlap, raced>>
  BY DEF PlanInv, Exists, Hexists, Hget, Look
<1>2. PlansOfHash'
  BY <1>1 DEF PlanInv, PlansOfHash
<1>3. ASSUME ~ raced, NEW v \in Worker, WillInsert(v)', v # w PROVE plans = {}
  <2>1. pc'[v] = pc[v] /\ insert'[v] = insert[v] /\ broken'[v] = broken[v]
    BY <1>1, <1>3 DEF TypeInv, Exists, Hexists, Hget, Look, GoTo, Lose, Keep
  <2> QED  BY <1>1, <1>3, <2>1 DEF PlanInv, InsertIsFirst, WillInsert
<1>4. ASSUME ~ raced, WillInsert(w)' PROVE plans = {}
  <2>1. ~ Lose(w)
    BY <1>1, <1>4 DEF WillInsert, Lose, TypeInv
  <2>2. CASE Exists(w)
    <3>1. pc'[w] = "hexists" \/ key = {}
      BY <1>1, <2>1, <2>2 DEF Exists, Look, GoTo, TypeInv
    <3> QED  BY <1>4, <3>1 DEF WillInsert, PlanInv, PlansOfHash
  <2>3. CASE Hexists(w)
    <3>1. pc'[w] = "hget" \/ ~ \E h \in key : h.plan # Missing
      BY <1>1, <2>1, <2>3 DEF Hexists, Look, GoTo, TypeInv
    <3>2. \A g \in plans : g # Missing /\ key # {} /\ \A h \in key : h.plan = g
      BY <1>1, <1>4, CacheConstantsOK DEF PlanInv, PlansOfHash, TypeInv
    <3> QED  BY <1>4, <3>1, <3>2 DEF WillInsert
  <2>4. CASE Hget(w)
    <3>1. \E h \in key : h.plan = None
      BY <1>1, <1>4, <2>1, <2>4 DEF Hget, InsertAfterHget, WillInsert, TypeInv
    <3>2. \A g \in plans : g # None /\ \A h \in key : h.plan = g
      BY <1>1, <1>4, CacheConstantsOK DEF PlanInv, PlansOfHash, TypeInv
    <3> QED  BY <3>1, <3>2
  <2> QED  BY <2>2, <2>3, <2>4
<1> QED  BY <1>1, <1>2, <1>3, <1>4 DEF InsertIsFirst

LEMMA NextPlanInv == PlanInv /\ [Next]_vars => PlanInv'
<1> SUFFICES ASSUME PlanInv, [Next]_vars PROVE PlansOfHash' /\ InsertIsFirst'
  BY NextTypeInv DEF PlanInv
<1>1. TypeInv
  BY DEF PlanInv
<1>2. CASE ChangeGate
  BY <1>2, PlanStands DEF ChangeGate, local, WillInsert
<1>3. CASE KeyExpires
  BY <1>3 DEF KeyExpires, PlansOfHash, InsertIsFirst
<1>4. CASE Abort
  BY <1>4, PlanStands DEF Abort, WillInsert
<1>5. ASSUME NEW w \in Worker, FetchFlightData(w) PROVE PlansOfHash' /\ InsertIsFirst'
  BY <1>1, <1>5, PlanStands DEF FetchFlightData, GoTo, WillInsert, TypeInv
<1>6. ASSUME NEW w \in Worker, HmsetBroken(w) PROVE PlansOfHash' /\ InsertIsFirst'
  BY <1>1, <1>6, PlanStands, LeaverInsertsNothing DEF HmsetBroken, hist
<1>7. ASSUME NEW w \in Worker, Expire(w) PROVE PlansOfHash' /\ InsertIsFirst'
  <2>1. UNCHANGED <<plans, raced>> /\ \A v \in Worker : WillInsert(v)' => WillInsert(v)
    BY <1>1, <1>7 DEF Expire, GoTo, WillInsert, TypeInv
  <2>2. ASSUME NEW g PROVE (key # {} /\ \A h \in key : h.plan = g) => (key # {} /\ \A h \in key : h.plan = g)'
    <3>1. CASE key' = {[h EXCEPT !.ttl = TRUE] : h \in key} /\ key # {}
      <4>1. PICK h \in Hash : key = {h}
        BY <1>1, <3>1 DEF TypeInv, OneHash
      <4>2. [h EXCEPT !.ttl = TRUE].plan = h.plan
        BY DEF Hash
      <4> QED  BY <3>1, <4>1, <4>2
    <3>2. CASE UNCHANGED key
      BY <3>2
    <3> QED  BY <1>7, <3>1, <3>2 DEF Expire
  <2> QED  BY <2>1, <2>2 DEF PlanInv, PlansOfHash, InsertIsFirst
<1>8. CASE UNCHANGED vars
  BY <1>8, PlanStands DEF vars, local, hist, WillInsert
<1> QED  BY <1>2, <1>3, <1>4, <1>5, <1>6, <1>7, <1>8, LookKeepsPlan, HmsetKeepsPlan DEF Next

\* While the key exists its plan gate changes only after a race of two refreshes, for any
\* number of threads and any run of lost connections and error replies (SetPlanGateToMap).
THEOREM PlanGateChangesInRaces == Spec => []PlanGateNeedsRace
<1>1. Init => PlanInv
  BY InitTypeInv DEF Init, PlanInv, PlansOfHash, InsertIsFirst, WillInsert
<1>2. PlanInv => PlanGateNeedsRace
  <2> SUFFICES ASSUME PlanInv, ~ raced PROVE Cardinality(plans) <= 1
    BY DEF PlanGateNeedsRace, PlanGateKept
  <2>1. CASE plans = {}
    BY <2>1, FS_EmptySet
  <2>2. CASE plans # {}
    <3>1. PICK g \in plans : TRUE
      BY <2>2
    <3>2. plans = {g}
      BY <3>1 DEF PlanInv, PlansOfHash
    <3>3. Cardinality({g}) = 1
      BY FS_Singleton
    <3> QED  BY <3>2, <3>3
  <2> QED  BY <2>1, <2>2
<1> QED  BY <1>1, <1>2, NextPlanInv, PTL DEF Spec
-----------------------------------------------------------------------------
(***************************************************************************)
(* The hash                                                                *)
(***************************************************************************)
\* What the key holds is complete or has its cause, whatever the worker writes.
LEMMA ApplyKeepsHash ==
  ASSUME HashInv, NEW w \in Worker, pc[w] = "hmset", ~ broken[w], Apply(w), UNCHANGED vanished,
         LeaveHmset(w, "idle") \/ LeaveHmset(w, "expire")
  PROVE  IncompleteHasCause' /\ SeenKeyIsThere'
<1>1. PICK h \in Hash :
        /\ Written(w) = {h}
        /\ insert[w] => h.plan = fetched[w]
        /\ ~ insert[w] => IF key = {} THEN h.plan = Missing ELSE \A g \in key : h.plan = g.plan
  BY WrittenIsOne DEF HashInv
<1>2. key' = {h}
  BY <1>1 DEF Apply
<1>3. CASE insert[w]
  BY <1>1, <1>2, <1>3, CacheConstantsOK
     DEF IncompleteHasCause, SeenKeyIsThere, HashInv, TypeInv
<1>4. CASE ~ insert[w]
  <2>1. key # {} \/ vanished
    BY <1>4 DEF HashInv, SeenKeyIsThere, HasSeenKey
  <2> QED  BY <1>1, <1>2, <1>4, <2>1 DEF HashInv, IncompleteHasCause, SeenKeyIsThere
<1> QED  BY <1>3, <1>4

\* A worker that leaves the loop over HMSET relies on no key it has found.
LEMMA LeaverRelies ==
  ASSUME TypeInv, NEW w \in Worker, NEW label \in {"idle", "expire"}, LeaveHmset(w, label)
  PROVE  \A v \in Worker : HasSeenKey(v)' => HasSeenKey(v)
BY DEF TypeInv, LeaveHmset, GoTo, HasSeenKey

\* A step that leaves the key alone and after which no more workers rely on it.
LEMMA SeenKeyStands ==
  ASSUME HashInv, UNCHANGED <<key, vanished>>,
         \A v \in Worker : HasSeenKey(v)' => HasSeenKey(v)
  PROVE  IncompleteHasCause' /\ SeenKeyIsThere'
BY DEF HashInv, IncompleteHasCause, SeenKeyIsThere

\* A hash without expiry is followed by EXPIRE, unless the attempt was the third or the
\* reply was lost.
LEMMA HmsetKeepsTtl ==
  ASSUME HashInv, NEW w \in Worker, Hmset(w) PROVE NoTtlHasCause'
<1>1. TypeInv /\ pc[w] = "hmset"
  BY DEF Hmset, HashInv
<1>2. CASE Apply(w) /\ LeaveHmset(w, AfterHmset(tries[w] - 1))
           /\ untimed' = (untimed \/ (tries[w] = 1 /\ \E h \in Written(w) : ~ h.ttl))
  <2>1. CASE tries[w] = 1
    BY <1>2, <2>1 DEF Apply, NoTtlHasCause
  <2>2. CASE tries[w] # 1
    <3>1. AfterHmset(tries[w] - 1) = "expire"
      BY <1>1, <2>2 DEF TypeInv, AfterHmset
    <3>2. pc'[w] = "expire"
      BY <1>1, <1>2, <3>1 DEF TypeInv, LeaveHmset, GoTo
    <3> QED  BY <3>2 DEF NoTtlHasCause
  <2> QED  BY <2>1, <2>2
<1>3. CASE Apply(w) /\ untimed' = (untimed \/ \E h \in Written(w) : ~ h.ttl)
  BY <1>3 DEF Apply, NoTtlHasCause
<1>4. CASE UNCHANGED <<key, untimed>> /\ (UNCHANGED pc \/ \E l \in {"idle", "expire"} : LeaveHmset(w, l))
  <2>1. \A v \in Worker : pc[v] = "expire" => pc'[v] = "expire"
    BY <1>1, <1>4 DEF TypeInv, LeaveHmset, GoTo
  <2> QED  BY <1>4, <2>1 DEF HashInv, NoTtlHasCause
<1> QED  BY <1>2, <1>3, <1>4 DEF Hmset

LEMMA HmsetKeepsHash ==
  ASSUME HashInv, NEW w \in Worker, Hmset(w) PROVE IncompleteHasCause' /\ SeenKeyIsThere'
<1>1. TypeInv /\ pc[w] = "hmset" /\ ~ broken[w] /\ UNCHANGED vanished
  BY DEF Hmset, HashInv
<1>2. AfterHmset(tries[w] - 1) \in {"idle", "expire"}
  BY DEF AfterHmset
<1>3. CASE Apply(w) /\ (LeaveHmset(w, "idle") \/ LeaveHmset(w, "expire"))
  BY <1>1, <1>3, ApplyKeepsHash
<1>4. CASE UNCHANGED key /\ UNCHANGED <<pc, insert, broken>>
  BY <1>1, <1>4, SeenKeyStands DEF HasSeenKey
<1>5. CASE UNCHANGED key /\ \E l \in {"idle", "expire"} : LeaveHmset(w, l)
  BY <1>1, <1>5, SeenKeyStands, LeaverRelies
<1> QED  BY <1>2, <1>3, <1>4, <1>5 DEF Hmset

\* Whoever goes on, or is not to insert a plan gate, has been told that the key is there.
LEMMA LookKeepsHash ==
  ASSUME HashInv, NEW w \in Worker, Exists(w) \/ Hexists(w) \/ Hget(w)
  PROVE  NoTtlHasCause' /\ IncompleteHasCause' /\ SeenKeyIsThere'
<1>1. TypeInv /\ UNCHANGED <<key, untimed, vanished>>
  BY DEF HashInv, Exists, Hexists, Hget, Look
<1>2. NoTtlHasCause'
  <2>1. \A v \in Worker : pc[v] = "expire" => pc'[v] = "expire"
    BY <1>1 DEF TypeInv, Exists, Hexists, Hget, Look, GoTo
  <2> QED  BY <1>1, <2>1 DEF HashInv, NoTtlHasCause
<1>3. IncompleteHasCause'
  BY <1>1 DEF HashInv, IncompleteHasCause
<1>4. ASSUME NEW v \in Worker, HasSeenKey(v)' PROVE key # {} \/ vanished
  <2>1. CASE v # w
    <3>1. pc'[v] = pc[v] /\ insert'[v] = insert[v] /\ broken'[v] = broken[v]
      BY <1>1, <2>1 DEF TypeInv, Exists, Hexists, Hget, Look, GoTo, Lose, Keep
    <3> QED  BY <1>4, <3>1 DEF HasSeenKey, HashInv, SeenKeyIsThere
  <2>2. CASE v = w /\ Exists(w)
    <3>1. \/ pc'[w] = "hexists" /\ key # {}
          \/ pc'[w] = "hmset" /\ insert' = [insert EXCEPT ![w] = TRUE]
      BY <1>1, <2>2 DEF TypeInv, Exists, Look, GoTo
    <3>2. insert' = [insert EXCEPT ![w] = TRUE] => insert'[w]
      BY <1>1 DEF TypeInv
    <3> QED  BY <1>4, <2>2, <3>1, <3>2 DEF HasSeenKey
  <2>3. CASE v = w /\ (Hexists(w) \/ Hget(w))
    <3>1. HasSeenKey(w)
      BY <2>3 DEF HasSeenKey, Hexists, Hget, Look
    <3> QED  BY <3>1 DEF HashInv, SeenKeyIsThere
  <2> QED  BY <2>1, <2>2, <2>3
<1> QED  BY <1>1, <1>2, <1>3, <1>4 DEF SeenKeyIsThere

LEMMA ExpireKeepsHash ==
  ASSUME HashInv, NEW w \in Worker, Expire(w)
  PROVE  NoTtlHasCause' /\ IncompleteHasCause' /\ SeenKeyIsThere'
<1>1. TypeInv /\ pc[w] = "expire" /\ UNCHANGED <<insert, broken, vanished>>
  BY DEF HashInv, Expire
<1>2. \A v \in Worker : HasSeenKey(v)' => HasSeenKey(v)
  BY <1>1 DEF Expire, TypeInv, GoTo, HasSeenKey
<1>3. \A v \in Worker : v # w => pc'[v] = pc[v]
  BY <1>1 DEF Expire, TypeInv, GoTo
<1>4. CASE key # {} /\ key' = {[h EXCEPT !.ttl = TRUE] : h \in key}
  <2>1. PICK h \in Hash : key = {h}
    BY <1>1, <1>4 DEF TypeInv, OneHash
  <2>2. [h EXCEPT !.ttl = TRUE].plan = h.plan /\ [h EXCEPT !.ttl = TRUE].ttl
    BY DEF Hash
  <2> QED  BY <1>1, <1>4, <2>1, <2>2 DEF HashInv, NoTtlHasCause, IncompleteHasCause, SeenKeyIsThere
<1>5. CASE key = {} /\ UNCHANGED key
  BY <1>1, <1>2, <1>5, SeenKeyStands DEF NoTtlHasCause
<1>6. CASE UNCHANGED key /\ untimed' = (untimed \/ \E h \in key : ~ h.ttl)
  BY <1>1, <1>2, <1>6, SeenKeyStands DEF NoTtlHasCause
<1> QED  BY <1>4, <1>5, <1>6 DEF Expire

LEMMA NextHashInv == HashInv /\ [Next]_vars => HashInv'
<1> DEFINE Good == NoTtlHasCause /\ IncompleteHasCause /\ SeenKeyIsThere
<1> SUFFICES ASSUME HashInv, [Next]_vars PROVE Good'
  BY NextTypeInv DEF HashInv
<1>1. TypeInv
  BY DEF HashInv
<1>2. CASE ChangeGate \/ UNCHANGED vars
  BY <1>2, SeenKeyStands DEF ChangeGate, vars, local, hist, HasSeenKey, HashInv, NoTtlHasCause
<1>3. CASE KeyExpires
  BY <1>3 DEF KeyExpires, local, HasSeenKey, HashInv, NoTtlHasCause, IncompleteHasCause,
              SeenKeyIsThere
<1>4. CASE Abort
  BY <1>4, SeenKeyStands DEF Abort, HasSeenKey, NoTtlHasCause
<1>5. ASSUME NEW w \in Worker, FetchFlightData(w) \/ HmsetBroken(w) PROVE Good'
  <2>1. UNCHANGED <<key, untimed, vanished>>
    BY <1>5 DEF FetchFlightData, HmsetBroken, hist
  <2>2. \A v \in Worker : HasSeenKey(v)' => HasSeenKey(v)
    BY <1>1, <1>5, LeaverRelies DEF FetchFlightData, HmsetBroken, GoTo, HasSeenKey, TypeInv
  <2>3. \A v \in Worker : pc[v] = "expire" => pc'[v] = "expire"
    BY <1>1, <1>5 DEF FetchFlightData, HmsetBroken, LeaveHmset, GoTo, TypeInv
  <2> QED  BY <2>1, <2>2, <2>3, SeenKeyStands DEF HashInv, NoTtlHasCause
<1> QED  BY <1>2, <1>3, <1>4, <1>5, LookKeepsHash, HmsetKeepsTtl, HmsetKeepsHash,
            ExpireKeepsHash DEF Next

\* A hash without expiry or without plan_gate has its cause, for any number of threads
\* (UpdateFlightDataToRedis: the test of retry_cnt, and the key that expires meanwhile).
THEOREM BrokenHashesHaveCauses == Spec => []BrokenHashHasCause
<1>1. Init => HashInv
  BY InitTypeInv
     DEF Init, HashInv, NoTtlHasCause, IncompleteHasCause, SeenKeyIsThere, HasSeenKey
<1>2. HashInv => BrokenHashHasCause
  BY DEF HashInv, BrokenHashHasCause
<1> QED  BY <1>1, <1>2, NextHashInv, PTL DEF Spec
=============================================================================
