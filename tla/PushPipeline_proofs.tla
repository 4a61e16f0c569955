------------------------ MODULE PushPipeline_proofs -------------------------
(***************************************************************************)
(* Proofs about PushPipeline, for every cluster, every set of rows, every  *)
(* view ZkManager may show and every combination of failing statements.    *)
(***************************************************************************)
EXTENDS PushPipeline, FiniteSetTheorems, TLAPS

-----------------------------------------------------------------------------
(***************************************************************************)
(* Queues                                                                  *)
(***************************************************************************)
\* PushToQueue appends: what a queue contains afterwards.
LEMMA AppendFacts ==
  ASSUME NEW S, NEW s \in Seq(S), NEW x \in S
  PROVE  /\ Append(s, x) \in Seq(S)
         /\ Append(s, x) # <<>>
         /\ Range(Append(s, x)) = Range(s) \cup {x}
         /\ s # <<>> => Head(Append(s, x)) = Head(s)
         /\ IsInjective(s) /\ x \notin Range(s) => IsInjective(Append(s, x))
<1>1. Append(s, x) \in Seq(S) /\ Append(s, x) # <<>>
  BY SMTT(30)
<1>2. Range(Append(s, x)) = Range(s) \cup {x}
  <2>1. \A i \in 1..Len(s) : Append(s, x)[i] = s[i]
    OBVIOUS
  <2>2. Append(s, x)[Len(s) + 1] = x /\ DOMAIN Append(s, x) = 1..(Len(s) + 1)
    OBVIOUS
  <2>3. DOMAIN s = 1..Len(s) /\ 1..(Len(s) + 1) = 1..Len(s) \cup {Len(s) + 1}
    OBVIOUS
  <2> QED BY <2>1, <2>2, <2>3 DEF Range
<1>3. s # <<>> => Head(Append(s, x)) = Head(s)
  OBVIOUS
<1>4. IsInjective(s) /\ x \notin Range(s) => IsInjective(Append(s, x))
  BY DEF Range, IsInjective
<1> QED BY <1>1, <1>2, <1>3, <1>4

\* Pop takes the head: what a queue without repetitions contains afterwards.
LEMMA TailFacts ==
  ASSUME NEW S, NEW s \in Seq(S), s # <<>>
  PROVE  /\ Head(s) \in S
         /\ Head(s) \in Range(s)
         /\ Tail(s) \in Seq(S)
         /\ Range(Tail(s)) \subseteq Range(s)
         /\ Range(s) = Range(Tail(s)) \cup {Head(s)}
         /\ IsInjective(s) => IsInjective(Tail(s)) /\ Head(s) \notin Range(Tail(s))
<1>1. Head(s) \in S /\ Tail(s) \in Seq(S) /\ Head(s) = s[1] /\ 1 \in DOMAIN s
  OBVIOUS
<1>2. DOMAIN Tail(s) = 1..(Len(s) - 1) /\ \A i \in 1..(Len(s) - 1) : Tail(s)[i] = s[i + 1]
  OBVIOUS
<1>3. \A j \in DOMAIN s : j = 1 \/ (j - 1 \in 1..(Len(s) - 1) /\ j = (j - 1) + 1)
  OBVIOUS
<1>4. Range(s) = Range(Tail(s)) \cup {Head(s)}
  <2>1. ASSUME NEW j \in DOMAIN s PROVE s[j] \in Range(Tail(s)) \cup {Head(s)}
    <3>1. CASE j = 1
      BY <3>1, <1>1
    <3>2. CASE j - 1 \in 1..(Len(s) - 1)
      <4>1. Tail(s)[j - 1] = s[j]
        BY <3>2, <1>2
      <4> QED BY <4>1, <3>2, <1>2 DEF Range
    <3> QED BY <3>1, <3>2, <1>3
  <2>2. ASSUME NEW i \in DOMAIN Tail(s) PROVE Tail(s)[i] \in Range(s)
    BY <1>2 DEF Range
  <2> QED BY <2>1, <2>2, <1>1 DEF Range
<1>5. IsInjective(s) => IsInjective(Tail(s)) /\ Head(s) \notin Range(Tail(s))
  BY <1>1, <1>2 DEF Range, IsInjective
<1> QED BY <1>1, <1>4, <1>5 DEF Range

\* An assignment to one row's entry; to one queue, or one result, of one node.
LEMMA Update ==
  ASSUME NEW D, NEW R, NEW f \in [D -> R], NEW d \in D, NEW v \in R
  PROVE  [f EXCEPT ![d] = v] \in [D -> R]
OBVIOUS

\* EXCEPT at one node and business keeps the type and touches nothing else: queue and
\* result after a step of one PushProcessor.
LEMMA UpdateAt ==
  ASSUME NEW N, NEW B, NEW V, NEW f \in [N -> [B -> V]], NEW n \in N, NEW b \in B,
         NEW v \in V
  PROVE  /\ [f EXCEPT ![n][b] = v] \in [N -> [B -> V]]
         /\ \A m \in N, c \in B :
              [f EXCEPT ![n][b] = v][m][c] = IF m = n /\ c = b THEN v ELSE f[m][c]
OBVIOUS

-----------------------------------------------------------------------------
(***************************************************************************)
(* Type correctness                                                        *)
(***************************************************************************)
\* While Process or the final UPDATE runs, the popped event is at the head.
PoppedIsHead ==
  \A n \in Node, b \in Business : result[n][b] # "none" => queue[n][b] # <<>>

TypeInv == TypeOK /\ PoppedIsHead

\* The initial state has the types: no row, vector or queue holds anything.
LEMMA InitTypeInv == Init => TypeInv
BY ConstantsOK DEF Init, TypeInv, TypeOK, PoppedIsHead, PushStatus, View, NoView, Row, Claim

\* Every action keeps the types; Lock and PushToQueue move claims, UpdatePushStatus
\* needs the popped event to be there.
LEMMA NextTypeInv == TypeInv /\ [Next]_vars => TypeInv'
<1> SUFFICES ASSUME TypeInv, [Next]_vars PROVE TypeInv'
  OBVIOUS
<1> USE ConstantsOK
<1> USE DEF TypeInv, TypeOK, PoppedIsHead, db, sched, procs, hist
<1>1. CASE Tick
  BY <1>1 DEF Tick
<1>2. ASSUME NEW n \in Node, ChangeView(n) PROVE TypeInv'
  <2>1. PICK v \in Views[n] : view' = [view EXCEPT ![n] = v]
    BY <1>2 DEF ChangeView
  <2>2. v \in View
    BY <2>1
  <2> QED BY <1>2, <2>1, <2>2 DEF ChangeView
<1>3. ASSUME NEW n \in Node, GetNodePos(n) PROVE TypeInv'
  BY <1>3 DEF GetNodePos, View
<1>4. ASSUME NEW n \in Node, FetchPushEvents(n) PROVE TypeInv'
  <2>1. PICK got \in SUBSET {RowOf(e) : e \in Event} :
          /\ batch' = [batch EXCEPT ![n] = got]
          /\ pc' = [pc EXCEPT ![n] = IF got = {} THEN "sleep" ELSE "filter"]
    <3> DEFINE rows == IF pos[n] < 0 \/ view[n].cnt <= 0 THEN {}
                       ELSE {RowOf(e) : e \in {x \in Event :
                               /\ Selects(pos[n], view[n].cnt, x)
                               /\ claims[x] < MaxClaims[x]}}
    <3>1. PICK got \in IF "select" \in SqlFaults THEN SUBSET rows ELSE {rows} :
            /\ batch' = [batch EXCEPT ![n] = got]
            /\ pc' = [pc EXCEPT ![n] = IF got = {} THEN "sleep" ELSE "filter"]
      BY <1>4 DEF FetchPushEvents
    <3>2. rows \subseteq {RowOf(e) : e \in Event}
      OBVIOUS
    <3>3. got \subseteq rows
      BY <3>1
    <3> HIDE DEF rows
    <3> QED BY <3>1, <3>2, <3>3
  <2>2. got \subseteq Row
    BY DEF RowOf, Row
  <2> QED BY <1>4, <2>1, <2>2 DEF FetchPushEvents
<1>5. ASSUME NEW n \in Node, FilterPushEvents(n) PROVE TypeInv'
  <2>1. PICK kept \in SUBSET batch[n] :
          /\ batch' = [batch EXCEPT ![n] = kept]
          /\ pc' = [pc EXCEPT ![n] = IF kept = {} THEN "sleep" ELSE "lock"]
    BY <1>5 DEF FilterPushEvents
  <2> QED BY <1>5, <2>1 DEF FilterPushEvents
<1>6. ASSUME NEW n \in Node, SkipLocked(n) PROVE TypeInv'
  BY <1>6 DEF SkipLocked, NextPc
<1>7. ASSUME NEW n \in Node, Lock(n) PROVE TypeInv'
  <2>1. PICK r \in batch[n], ok \in BOOLEAN :
          /\ status' = IF ok THEN [status EXCEPT ![r.event] = "Processing"] ELSE status
          /\ batch' = [batch EXCEPT ![n] = @ \ {r}]
          /\ ready' = [ready EXCEPT
                         ![n] = @ \cup {[event |-> r.event, no |-> claims[r.event] + 1]}]
          /\ pc' = [pc EXCEPT ![n] = NextPc(batch[n] \ {r}, ready'[n])]
          /\ claims' = [claims EXCEPT ![r.event] = @ + 1]
          /\ unlocked' = IF ok THEN unlocked ELSE [unlocked EXCEPT ![r.event] = @ + 1]
          /\ stale' \in {stale, [stale EXCEPT ![r.event] = @ + 1]}
    BY <1>7 DEF Lock
  <2>2. r.event \in Event
    BY DEF Row
  <2>3. [event |-> r.event, no |-> claims[r.event] + 1] \in Claim
    BY <2>2 DEF Claim
  <2>4. NextPc(batch[n] \ {r}, ready'[n]) \in {"lock", "sleep", "enqueue"}
    BY DEF NextPc
  <2>5. status' \in [Event -> PushStatus]
    BY <2>1, <2>2, Update DEF PushStatus
  <2>6. batch' \in [Node -> SUBSET Row] /\ ready' \in [Node -> SUBSET Claim]
    <3>1. batch \in [Node -> SUBSET Row] /\ ready \in [Node -> SUBSET Claim]
      OBVIOUS
    <3>2. /\ batch' = [batch EXCEPT ![n] = @ \ {r}]
          /\ ready' = [ready EXCEPT ![n] = @ \cup {[event |-> r.event, no |-> claims[r.event] + 1]}]
      BY <2>1
    <3> QED BY ONLY <2>3, <3>1, <3>2, n \in Node
  <2>7. pc' \in [Node -> {"sleep", "fetch", "filter", "lock", "enqueue"}]
    BY <2>1, <2>4
  <2>8. claims' \in [Event -> Nat] /\ unlocked' \in [Event -> Nat] /\ stale' \in [Event -> Nat]
    <3>1. /\ [claims EXCEPT ![r.event] = @ + 1] \in [Event -> Nat]
          /\ [unlocked EXCEPT ![r.event] = @ + 1] \in [Event -> Nat]
          /\ [stale EXCEPT ![r.event] = @ + 1] \in [Event -> Nat]
      <4>1. claims \in [Event -> Nat] /\ unlocked \in [Event -> Nat] /\ stale \in [Event -> Nat]
        OBVIOUS
      <4> QED BY ONLY <2>2, <4>1
    <3> QED BY <2>1, <3>1
  <2> QED BY <1>7, <2>5, <2>6, <2>7, <2>8 DEF Lock
<1>8. ASSUME NEW n \in Node, PushToQueue(n) PROVE TypeInv'
  <2>1. PICK c \in ready[n] :
          /\ ready' = [ready EXCEPT ![n] = @ \ {c}]
          /\ pc' = [pc EXCEPT ![n] = IF ready[n] = {c} THEN "sleep" ELSE "enqueue"]
          /\ IF BusinessOf[c.event] \in Registered
               THEN /\ queue' = [queue EXCEPT ![n][BusinessOf[c.event]] = Append(@, c)]
                    /\ UNCHANGED abandoned
               ELSE /\ abandoned' = abandoned \cup {c.event}
                    /\ UNCHANGED queue
    BY <1>8 DEF PushToQueue
  <2>2. c \in Claim /\ c.event \in Event /\ BusinessOf[c.event] \in Business
    BY DEF Claim
  <2>3. queue[n][BusinessOf[c.event]] \in Seq(Claim)
    <3>1. queue \in [Node -> [Business -> Seq(Claim)]]
      OBVIOUS
    <3> QED BY <2>2, <3>1
  <2>4. Append(queue[n][BusinessOf[c.event]], c) \in Seq(Claim) \ {<<>>}
    BY <2>2, <2>3, AppendFacts
  <2> DEFINE d == BusinessOf[c.event]
             q == Append(queue[n][d], c)
  <2>5. /\ [queue EXCEPT ![n][d] = q] \in [Node -> [Business -> Seq(Claim)]]
        /\ \A m \in Node, b \in Business :
             [queue EXCEPT ![n][d] = q][m][b] = IF m = n /\ b = d THEN q ELSE queue[m][b]
    <3> HIDE DEF d
    <3>1. d \in Business /\ q \in Seq(Claim) /\ queue \in [Node -> [Business -> Seq(Claim)]]
      BY <2>2, <2>4 DEF d
    <3> HIDE DEF q
    <3> QED BY <3>1, UpdateAt
  <2>6. queue' \in [Node -> [Business -> Seq(Claim)]] /\ abandoned' \subseteq Event
    <3>1. CASE BusinessOf[c.event] \in Registered
      <4>1. queue' = [queue EXCEPT ![n][d] = q]
        BY <2>1, <3>1
      <4> QED BY <2>1, <3>1, <2>5, <4>1
    <3>2. CASE BusinessOf[c.event] \notin Registered
      BY <3>2, <2>1, <2>2
    <3> QED BY <3>1, <3>2
  <2>7. \A m \in Node, b \in Business : queue[m][b] # <<>> => queue'[m][b] # <<>>
    <3>1. CASE BusinessOf[c.event] \in Registered
      <4>1. queue' = [queue EXCEPT ![n][d] = q]
        BY <2>1, <3>1
      <4> QED BY <2>4, <2>5, <4>1
    <3>2. CASE BusinessOf[c.event] \notin Registered
      BY <3>2, <2>1
    <3> QED BY <3>1, <3>2
  <2>8. PoppedIsHead'
    BY <1>8, <2>7 DEF PushToQueue
  <2>9. ready' \in [Node -> SUBSET Claim]
        /\ pc' \in [Node -> {"sleep", "fetch", "filter", "lock", "enqueue"}]
    BY <2>1
  <2> QED BY <1>8, <2>6, <2>8, <2>9 DEF PushToQueue
<1>9. ASSUME NEW n \in Node, NEW b \in Business, Process(n, b) PROVE TypeInv'
  <2>1. Head(queue[n][b]) \in Claim
    BY <1>9, TailFacts DEF Process
  <2>2. Head(queue[n][b]).event \in Event /\ Head(queue[n][b]).no \in Nat
    BY <2>1 DEF Claim
  <2>3. PICK r \in {"true", "false"} : result' = [result EXCEPT ![n][b] = r]
    BY <1>9 DEF Process
  <2>4. /\ result' \in [Node -> [Business -> {"none", "true", "false"}]]
        /\ \A m \in Node, d \in Business :
             result'[m][d] = IF m = n /\ d = b THEN r ELSE result[m][d]
    BY <2>3, UpdateAt
  <2> DEFINE e == Head(queue[n][b]).event
             no == Head(queue[n][b]).no
  <2>5. /\ acked' = acked \/ acked' = [acked EXCEPT ![e] = @ \cup {no}]
        /\ lost' = lost \/ lost' = [lost EXCEPT ![e] = @ \cup {no}]
    BY <1>9 DEF Process
  <2>6. acked' \in [Event -> SUBSET Nat] /\ lost' \in [Event -> SUBSET Nat]
    <3> HIDE DEF e, no
    <3>1. e \in Event /\ no \in Nat
      BY <2>2 DEF e, no
    <3>2. /\ [acked EXCEPT ![e] = @ \cup {no}] \in [Event -> SUBSET Nat]
          /\ [lost EXCEPT ![e] = @ \cup {no}] \in [Event -> SUBSET Nat]
      BY <3>1
    <3> QED BY <2>5, <3>2
  <2>7. PoppedIsHead'
    <3>1. queue' = queue /\ queue[n][b] # <<>>
      BY <1>9 DEF Process
    <3> QED BY <2>4, <3>1
  <2> QED BY <1>9, <2>4, <2>6, <2>7 DEF Process
<1>10. ASSUME NEW n \in Node, NEW b \in Business, UpdatePushStatus(n, b) PROVE TypeInv'
  <2>1. Head(queue[n][b]) \in Claim /\ Tail(queue[n][b]) \in Seq(Claim)
    BY <1>10, TailFacts DEF UpdatePushStatus
  <2>2. Head(queue[n][b]).event \in Event /\ Head(queue[n][b]).no \in Nat
    BY <2>1 DEF Claim
  <2>3. FinalStatus(result[n][b]) \in PushStatus
    BY DEF FinalStatus, PushStatus
  <2> DEFINE e == Head(queue[n][b]).event
             no == Head(queue[n][b]).no
  <2>4. /\ status' = status \/ status' = [status EXCEPT ![e] = FinalStatus(result[n][b])]
        /\ failed' = failed \/ failed' = [failed EXCEPT ![e] = @ \cup {no}]
        /\ abandoned' = abandoned \/ abandoned' = abandoned \cup {e}
    BY <1>10 DEF UpdatePushStatus
  <2>5. status' \in [Event -> PushStatus] /\ failed' \in [Event -> SUBSET Nat]
        /\ abandoned' \subseteq Event
    <3> HIDE DEF e, no
    <3>1. e \in Event /\ no \in Nat
      BY <2>2 DEF e, no
    <3>2. /\ [status EXCEPT ![e] = FinalStatus(result[n][b])] \in [Event -> PushStatus]
          /\ [failed EXCEPT ![e] = @ \cup {no}] \in [Event -> SUBSET Nat]
      BY <2>3, <3>1
    <3> QED BY <2>4, <3>1, <3>2
  <2>6. /\ queue' = [queue EXCEPT ![n][b] = Tail(queue[n][b])]
        /\ result' = [result EXCEPT ![n][b] = "none"]
    BY <1>10 DEF UpdatePushStatus
  <2>7. /\ queue' \in [Node -> [Business -> Seq(Claim)]]
        /\ \A m \in Node, d \in Business :
             queue'[m][d] = IF m = n /\ d = b THEN Tail(queue[n][b]) ELSE queue[m][d]
    BY <2>1, <2>6, UpdateAt
  <2>8. /\ result' \in [Node -> [Business -> {"none", "true", "false"}]]
        /\ \A m \in Node, d \in Business :
             result'[m][d] = IF m = n /\ d = b THEN "none" ELSE result[m][d]
    BY <2>6, UpdateAt
  <2>9. PoppedIsHead'
    BY <2>7, <2>8
  <2> QED BY <1>10, <2>5, <2>7, <2>8, <2>9 DEF UpdatePushStatus
<1>11. ASSUME NEW n \in Node, Crash(n) PROVE TypeInv'
  <2>1. HeldEvents(n) \subseteq Event
    <3>1. ASSUME NEW b \in Business PROVE Range(queue[n][b]) \subseteq Claim
      BY DEF Range
    <3> QED BY <3>1 DEF HeldEvents, Held, Claim
  <2> QED BY <1>11, <2>1 DEF Crash, NoView, View
<1>12. CASE UNCHANGED vars
  BY <1>12 DEF vars
<1> QED BY <1>1, <1>2, <1>3, <1>4, <1>5, <1>6, <1>7, <1>8, <1>9, <1>10, <1>11, <1>12 DEF Next

\* The variables of every run of the pipeline have their types, and a popped event
\* is there as long as its processor works on it.
THEOREM TypeCorrect == Spec => []TypeOK
<1>1. Spec => []TypeInv
  BY InitTypeInv, NextTypeInv, PTL DEF Spec
<1> QED BY <1>1, PTL DEF TypeInv

-----------------------------------------------------------------------------
(***************************************************************************)
(* Every acknowledged push is accounted for                                *)
(*                                                                         *)
(* A claim of e uses up the right to claim e, which the row has while it   *)
(* is pending or failed.  A claim without that right was made on a stale   *)
(* row; a failed lock does not use the right up; writing kPushFailed gives *)
(* it back, and is done only by a claim that was not acknowledged.  So     *)
(* claims, and with them acknowledgements, are bounded (Balance).  That    *)
(* needs the claims in flight to be distinct: each is settled once.        *)
(***************************************************************************)
\* A claim in flight was made; a queue holds its business only.
Numbered ==
  /\ \A n \in Node : \A c \in ready[n] : c.no \in 1..claims[c.event]
  /\ \A n \in Node, b \in Business : \A c \in Range(queue[n][b]) :
       BusinessOf[c.event] = b /\ c.no \in 1..claims[c.event]

\* A claim in flight is in one place.
Distinct ==
  /\ \A n, m \in Node : n # m => ready[n] \cap ready[m] = {}
  /\ \A n, m \in Node, b \in Business : ready[n] \cap Range(queue[m][b]) = {}
  /\ \A n, m \in Node, b \in Business : n # m => Range(queue[n][b]) \cap Range(queue[m][b]) = {}
  /\ \A n \in Node, b \in Business : IsInjective(queue[n][b])

\* A claim is acknowledged or failed, not both, and neither while it is in flight,
\* but for the head of a queue between Process and the final UPDATE.
Unsettled ==
  /\ \A e \in Event : /\ acked[e] \subseteq 1..claims[e]
                      /\ failed[e] \subseteq 1..claims[e]
                      /\ acked[e] \cap failed[e] = {}
  /\ \A n \in Node : \A c \in ready[n] : c.no \notin acked[c.event] \cup failed[c.event]
  /\ \A n \in Node, b \in Business : \A c \in Range(queue[n][b]) :
       /\ c.no \notin failed[c.event]
       /\ c.no \in acked[c.event] => c = Head(queue[n][b]) /\ result[n][b] = "true"

MayBeClaimed(e) == IF Claimable(status[e]) THEN 1 ELSE 0

Balance ==
  \A e \in Event :
    claims[e] + MayBeClaimed(e) <= 1 + unlocked[e] + stale[e] + Cardinality(failed[e])

ClaimInv == TypeInv /\ Numbered /\ Distinct /\ Unsettled /\ Balance

\* The claim invariant holds before anything is claimed.
LEMMA InitClaimInv == Init => ClaimInv
<1> SUFFICES ASSUME Init PROVE ClaimInv
  OBVIOUS
<1>1. TypeInv
  BY InitTypeInv
<1>2. \A n \in Node, b \in Business : Range(queue[n][b]) = {} /\ IsInjective(queue[n][b])
  BY DEF Init, Range, IsInjective
<1>3. Numbered /\ Distinct /\ Unsettled
  BY <1>2 DEF Init, Numbered, Distinct, Unsettled
<1>4. Balance
  BY FS_EmptySet DEF Init, Balance, MayBeClaimed, Claimable
<1> QED BY <1>1, <1>3, <1>4 DEF ClaimInv

\* The steps that touch neither a claim nor a row.
LEMMA OtherStep ==
  ASSUME ClaimInv,
         UNCHANGED <<status, ready, queue, result, claims, unlocked, stale, acked, failed>>
  PROVE  Numbered' /\ Distinct' /\ Unsettled' /\ Balance'
<1>1. Numbered /\ Distinct /\ Unsettled /\ Balance
  BY DEF ClaimInv
<1>2. Numbered' /\ Distinct'
  BY <1>1 DEF Numbered, Distinct
<1>3. Unsettled'
  BY <1>1 DEF Unsettled
<1>4. Balance'
  BY <1>1 DEF Balance, MayBeClaimed
<1> QED BY <1>2, <1>3, <1>4

\* What Lock does: a claim with a new number appears in push_events.
LEMMA LockStep ==
  ASSUME ClaimInv, NEW n \in Node, Lock(n)
  PROVE  Numbered' /\ Distinct' /\ Unsettled' /\ Balance'
<1>0. /\ TypeOK
      /\ claims \in [Event -> Nat] /\ unlocked \in [Event -> Nat] /\ stale \in [Event -> Nat]
      /\ ready \in [Node -> SUBSET Claim] /\ queue \in [Node -> [Business -> Seq(Claim)]]
      /\ status \in [Event -> PushStatus] /\ batch \in [Node -> SUBSET Row]
      /\ Numbered /\ Distinct /\ Unsettled /\ Balance
  BY DEF ClaimInv, TypeInv, TypeOK
<1>1. PICK r \in batch[n], ok \in BOOLEAN :
        /\ Claimable(r.status)
        /\ status' = IF ok THEN [status EXCEPT ![r.event] = "Processing"] ELSE status
        /\ ready' = [ready EXCEPT
                       ![n] = @ \cup {[event |-> r.event, no |-> claims[r.event] + 1]}]
        /\ claims' = [claims EXCEPT ![r.event] = @ + 1]
        /\ unlocked' = IF ok THEN unlocked ELSE [unlocked EXCEPT ![r.event] = @ + 1]
        /\ stale' = IF status[r.event] \in {"Processing", "Success"}
                       /\ r.status \in {"Pending", "Failed"}
                    THEN [stale EXCEPT ![r.event] = @ + 1] ELSE stale
  BY DEF Lock
<1>2. UNCHANGED <<queue, result, acked, failed>>
  BY DEF Lock, procs
<1> DEFINE e == r.event
           c == [event |-> e, no |-> claims[e] + 1]
<1>3. e \in Event /\ r.status \in PushStatus
  BY <1>0 DEF Row
<1>4. \A x \in Event : claims'[x] = IF x = e THEN claims[x] + 1 ELSE claims[x]
  BY <1>0, <1>1, <1>3
<1>5. \A m \in Node : ready'[m] = IF m = n THEN ready[m] \cup {c} ELSE ready[m]
  BY <1>0, <1>1
<1>6. /\ \A m \in Node : c \notin ready[m]
      /\ \A m \in Node, b \in Business : c \notin Range(queue[m][b])
  <2>1. c.event = e /\ c.no = claims[e] + 1 /\ claims[e] \in Nat
    BY <1>0, <1>3
  <2>2. c.no \notin 1..claims[c.event]
    BY <2>1
  <2> HIDE DEF c, e
  <2> QED BY <1>0, <2>2 DEF Numbered
<1>7. c.event = e /\ c.no = claims[e] + 1 /\ claims[e] \in Nat
  BY <1>0, <1>3
<1>8. \A d \in Claim : d.event \in Event
  BY DEF Claim
<1>9. \A m \in Node : \A d \in ready[m] : d.event \in Event
  BY <1>0, <1>8
<1>10. \A m \in Node, b \in Business : \A d \in Range(queue[m][b]) : d.event \in Event
  BY <1>0, <1>8 DEF Range
<1> HIDE DEF c, e
<1>15. \A x \in Event : 1..claims[x] \subseteq 1..claims'[x]
  <2> TAKE x \in Event
  <2>1. claims[x] \in Nat /\ claims'[x] \in {claims[x], claims[x] + 1}
    BY <1>0, <1>4
  <2> QED BY <2>1
<1>11. Numbered'
  <2>2. c.no \in 1..claims'[c.event]
    BY <1>3, <1>4, <1>7
  <2>3. ASSUME NEW m \in Node, NEW d \in ready'[m] PROVE d.no \in 1..claims'[d.event]
    <3>1. CASE d \in ready[m]
      <4>1. d.no \in 1..claims[d.event] /\ d.event \in Event
        BY <1>0, <1>9, <3>1 DEF Numbered
      <4> QED BY <1>15, <4>1
    <3>2. CASE d = c
      BY <2>2, <3>2
    <3> QED BY <1>5, <3>1, <3>2
  <2>4. ASSUME NEW m \in Node, NEW b \in Business, NEW d \in Range(queue[m][b])
        PROVE  BusinessOf[d.event] = b /\ d.no \in 1..claims'[d.event]
    <3>1. d.no \in 1..claims[d.event] /\ d.event \in Event /\ BusinessOf[d.event] = b
      BY <1>0, <1>10 DEF Numbered
    <3> QED BY <1>15, <3>1
  <2> QED BY <1>2, <2>3, <2>4 DEF Numbered
<1>12. Distinct'
  <2>1. \A i, j \in Node : i # j => ready'[i] \cap ready'[j] = {}
    <3> SUFFICES ASSUME NEW i \in Node, NEW j \in Node, i # j,
                        NEW d \in ready'[i], d \in ready'[j]
                 PROVE  FALSE
      OBVIOUS
    <3>1. d \in ready[i] \/ (d = c /\ i = n)
      BY <1>5
    <3>2. d \in ready[j] \/ (d = c /\ j = n)
      BY <1>5
    <3>3. ready[i] \cap ready[j] = {}
      BY <1>0 DEF Distinct
    <3> QED BY <1>6, <3>1, <3>2, <3>3
  <2>2. \A i, j \in Node, b \in Business : ready'[i] \cap Range(queue[j][b]) = {}
    <3> SUFFICES ASSUME NEW i \in Node, NEW j \in Node, NEW b \in Business,
                        NEW d \in ready'[i], d \in Range(queue[j][b])
                 PROVE  FALSE
      OBVIOUS
    <3>1. d \in ready[i] \/ d = c
      BY <1>5
    <3>2. ready[i] \cap Range(queue[j][b]) = {}
      BY <1>0 DEF Distinct
    <3> QED BY <1>6, <3>1, <3>2
  <2> QED BY <1>0, <1>2, <2>1, <2>2 DEF Distinct
<1>13. Unsettled'
  <2>2. c.no \notin acked[c.event] \cup failed[c.event]
    <3>1. claims[e] + 1 \notin 1..claims[e]
      BY <1>7
    <3> QED BY <1>0, <1>3, <1>7, <3>1 DEF Unsettled
  <2>3. \A x \in Event : /\ acked[x] \subseteq 1..claims'[x]
                         /\ failed[x] \subseteq 1..claims'[x]
                          /\ acked[x] \cap failed[x] = {}
    BY <1>0, <1>15 DEF Unsettled
  <2>4. \A m \in Node : \A d \in ready'[m] : d.no \notin acked[d.event] \cup failed[d.event]
    <3> TAKE m \in Node
    <3> TAKE d \in ready'[m]
    <3>1. CASE d \in ready[m]
      BY <1>0, <3>1 DEF Unsettled
    <3>2. CASE d = c
      BY <2>2, <3>2
    <3> QED BY <1>5, <3>1, <3>2
  <2> QED BY <1>0, <1>2, <2>3, <2>4 DEF Unsettled
<1>14. Balance'
  <2> SUFFICES ASSUME NEW x \in Event
               PROVE  claims'[x] + MayBeClaimed(x)'
                        <= 1 + unlocked'[x] + stale'[x] + Cardinality(failed[x])
    BY <1>2 DEF Balance
  <2>1. IsFiniteSet(failed[x])
    <3>1. claims[x] \in Nat /\ failed[x] \in SUBSET (1..claims[x])
      BY <1>0 DEF Unsettled
    <3>2. IsFiniteSet(1..claims[x])
      BY <3>1, FS_Interval
    <3> QED BY <3>1, <3>2, FS_Subset
  <2>2. Cardinality(failed[x]) \in Nat
    BY <2>1, FS_CardinalityType
  <2>3. claims[x] + MayBeClaimed(x) <= 1 + unlocked[x] + stale[x] + Cardinality(failed[x])
    BY <1>0 DEF Balance
  <2>4. CASE x # e
    <3>1. status'[x] = status[x] /\ unlocked'[x] = unlocked[x] /\ stale'[x] = stale[x]
      BY <1>0, <1>1, <1>3, <2>4 DEF e
    <3> QED BY <1>4, <2>3, <2>4, <3>1 DEF MayBeClaimed
  <2>5. CASE x = e
    <3>1. r.status \in {"Pending", "Failed"}
      BY <1>1 DEF Claimable
    <3>2. unlocked'[x] = IF ok THEN unlocked[x] ELSE unlocked[x] + 1
      BY <1>0, <1>1, <2>5 DEF e
    <3>3. stale'[x] = IF status[x] \in {"Processing", "Success"} THEN stale[x] + 1 ELSE stale[x]
      BY <1>0, <1>1, <2>5, <3>1 DEF e
    <3>4. status'[x] = IF ok THEN "Processing" ELSE status[x]
      BY <1>0, <1>1, <2>5 DEF e
    <3>5. status[x] \in {"Processing", "Success"} <=> ~ Claimable(status[x])
      BY <1>0 DEF Claimable, PushStatus
    <3>6. unlocked[x] \in Nat /\ stale[x] \in Nat /\ claims[x] \in Nat
      BY <1>0
    <3>7. CASE ok
      <4>1. ~ Claimable(status'[x])
        BY <3>4, <3>7 DEF Claimable
      <4> QED BY <1>4, <2>2, <2>3, <2>5, <3>2, <3>3, <3>5, <3>6, <3>7, <4>1 DEF MayBeClaimed
    <3>8. CASE ~ ok
      BY <1>4, <2>2, <2>3, <2>5, <3>2, <3>3, <3>4, <3>6, <3>8 DEF MayBeClaimed
    <3> QED BY <3>7, <3>8
  <2> QED BY <2>4, <2>5
<1> QED BY <1>11, <1>12, <1>13, <1>14

\* What the inductive invariant says of the types of what it is about.
LEMMA ClaimTypes ==
  ASSUME ClaimInv
  PROVE  /\ Numbered /\ Distinct /\ Unsettled /\ Balance
         /\ claims \in [Event -> Nat] /\ unlocked \in [Event -> Nat] /\ stale \in [Event -> Nat]
         /\ ready \in [Node -> SUBSET Claim] /\ queue \in [Node -> [Business -> Seq(Claim)]]
         /\ result \in [Node -> [Business -> {"none", "true", "false"}]]
         /\ status \in [Event -> PushStatus]
         /\ acked \in [Event -> SUBSET Nat] /\ failed \in [Event -> SUBSET Nat]
         /\ \A n \in Node, b \in Business : queue[n][b] \in Seq(Claim)
         /\ \A n \in Node : \A d \in ready[n] : d \in Claim /\ d.event \in Event
         /\ \A n \in Node, b \in Business : \A d \in Range(queue[n][b]) :
              d \in Claim /\ d.event \in Event
<1>1. TypeOK /\ Numbered /\ Distinct /\ Unsettled /\ Balance
  BY DEF ClaimInv, TypeInv
<1>2. /\ ready \in [Node -> SUBSET Claim] /\ queue \in [Node -> [Business -> Seq(Claim)]]
  BY <1>1 DEF TypeOK
<1>3. \A n \in Node, b \in Business : queue[n][b] \in Seq(Claim)
  BY <1>2
<1>4. \A d \in Claim : d.event \in Event
  BY DEF Claim
<1> QED BY <1>1, <1>2, <1>3, <1>4 DEF TypeOK, Range

\* A claim goes from push_events to the queue of its business, or is dropped.
LEMMA PushToQueueStep ==
  ASSUME ClaimInv, NEW n \in Node, PushToQueue(n)
  PROVE  Numbered' /\ Distinct' /\ Unsettled' /\ Balance'
<1>1. PICK c \in ready[n] :
        /\ ready' = [ready EXCEPT ![n] = @ \ {c}]
        /\ \/ queue' = [queue EXCEPT ![n][BusinessOf[c.event]] = Append(@, c)]
           \/ queue' = queue
  BY DEF PushToQueue
<1>2. UNCHANGED <<status, result, claims, unlocked, stale, acked, failed>>
  BY DEF PushToQueue, db
<1> DEFINE d == BusinessOf[c.event]
           q == Append(queue[n][d], c)
<1>3. c \in Claim /\ d \in Business /\ c.event \in Event
  BY ClaimTypes, ConstantsOK
<1>4. \A m \in Node : ready'[m] = IF m = n THEN ready[m] \ {c} ELSE ready[m]
  BY <1>1, ClaimTypes
<1>5. /\ q \in Seq(Claim)
      /\ Range(q) = Range(queue[n][d]) \cup {c}
      /\ queue[n][d] # <<>> => Head(q) = Head(queue[n][d])
      /\ IsInjective(q)
  <2>1. queue[n][d] \in Seq(Claim)
    BY <1>3, ClaimTypes
  <2>2. IsInjective(queue[n][d]) /\ c \notin Range(queue[n][d])
    BY <1>3, ClaimTypes DEF Distinct
  <2> HIDE DEF d
  <2> QED BY <1>3, <2>1, <2>2, AppendFacts
<1>6. \/ \A m \in Node, b \in Business :
           queue'[m][b] = IF m = n /\ b = d THEN q ELSE queue[m][b]
      \/ \A m \in Node, b \in Business : queue'[m][b] = queue[m][b]
  <2>1. CASE queue' = queue
    BY <2>1
  <2>2. CASE queue' = [queue EXCEPT ![n][d] = q]
    <3>1. queue \in [Node -> [Business -> Seq(Claim)]]
      BY ClaimTypes
    <3> HIDE DEF q, d
    <3> QED BY <1>3, <1>5, <2>2, <3>1, UpdateAt
  <2>3. queue' = [queue EXCEPT ![n][d] = q] \/ queue' = queue
    BY <1>1
  <2> HIDE DEF q, d
  <2> QED BY <2>1, <2>2, <2>3
<1> HIDE DEF q, d
\* Where the claims of a queue come from.
<1>7. ASSUME NEW m \in Node, NEW b \in Business
      PROVE  \/ queue'[m][b] = queue[m][b]
             \/ m = n /\ b = d /\ queue'[m][b] = q
  BY <1>6
<1>8. \A m \in Node, b \in Business :
        Range(queue'[m][b]) \subseteq
          Range(queue[m][b]) \cup (IF m = n /\ b = d THEN {c} ELSE {})
  BY <1>5, <1>7
<1>9. Numbered'
  <2>1. ASSUME NEW m \in Node, NEW b \in Business, NEW x \in Range(queue'[m][b])
        PROVE  BusinessOf[x.event] = b /\ x.no \in 1..claims[x.event]
    <3>1. CASE x \in Range(queue[m][b])
      BY <3>1, ClaimTypes DEF Numbered
    <3>2. CASE x = c /\ b = d
      BY <3>2, ClaimTypes DEF Numbered, d
    <3> QED BY <1>8, <3>1, <3>2
  <2>2. \A m \in Node : \A x \in ready'[m] : x.no \in 1..claims[x.event]
    BY <1>4, ClaimTypes DEF Numbered
  <2> QED BY <1>2, <2>1, <2>2 DEF Numbered
<1>10. Distinct'
  <2>1. \A i, j \in Node : i # j => ready'[i] \cap ready'[j] = {}
    <3> SUFFICES ASSUME NEW i \in Node, NEW j \in Node, i # j PROVE ready'[i] \cap ready'[j] = {}
      OBVIOUS
    <3>1. ready'[i] \subseteq ready[i] /\ ready'[j] \subseteq ready[j]
      BY <1>4
    <3>2. ready[i] \cap ready[j] = {}
      BY ClaimTypes DEF Distinct
    <3> QED BY <3>1, <3>2
  <2>2. \A i, j \in Node, b \in Business : ready'[i] \cap Range(queue'[j][b]) = {}
    <3> SUFFICES ASSUME NEW i \in Node, NEW j \in Node, NEW b \in Business,
                        NEW x \in ready'[i], x \in Range(queue'[j][b])
                 PROVE  FALSE
      OBVIOUS
    <3>1. x \in ready[i] /\ (i = n => x # c)
      BY <1>4
    <3>2. x \in Range(queue[j][b]) \/ x = c
      BY <1>8
    <3>3. ready[i] \cap Range(queue[j][b]) = {} /\ (i # n => ready[i] \cap ready[n] = {})
      BY ClaimTypes DEF Distinct
    <3> QED BY <3>1, <3>2, <3>3
  <2>3. \A i, j \in Node, b \in Business :
          i # j => Range(queue'[i][b]) \cap Range(queue'[j][b]) = {}
    <3> SUFFICES ASSUME NEW i \in Node, NEW j \in Node, NEW b \in Business, i # j,
                        NEW x \in Range(queue'[i][b]), x \in Range(queue'[j][b])
                 PROVE  FALSE
      OBVIOUS
    <3>1. /\ x \in Range(queue[i][b]) \/ (x = c /\ i = n)
          /\ x \in Range(queue[j][b]) \/ (x = c /\ j = n)
      BY <1>8
    <3>2. /\ Range(queue[i][b]) \cap Range(queue[j][b]) = {}
          /\ ready[n] \cap Range(queue[i][b]) = {}
          /\ ready[n] \cap Range(queue[j][b]) = {}
      BY ClaimTypes DEF Distinct
    <3> QED BY <3>1, <3>2
  <2>4. \A m \in Node, b \in Business : IsInjective(queue'[m][b])
    <3> TAKE m \in Node, b \in Business
    <3>1. IsInjective(queue[m][b])
      BY ClaimTypes DEF Distinct
    <3> QED BY <1>5, <1>7, <3>1
  <2> QED BY <2>1, <2>2, <2>3, <2>4 DEF Distinct
<1>11. Unsettled'
  <2>1. \A m \in Node : \A x \in ready'[m] : x.no \notin acked[x.event] \cup failed[x.event]
    BY <1>4, ClaimTypes DEF Unsettled
  <2>2. ASSUME NEW m \in Node, NEW b \in Business, NEW x \in Range(queue'[m][b])
        PROVE  /\ x.no \notin failed[x.event]
               /\ x.no \in acked[x.event] =>
                    x = Head(queue'[m][b]) /\ result[m][b] = "true"
    <3>1. CASE x = c
      BY <3>1, ClaimTypes DEF Unsettled
    <3>2. CASE x \in Range(queue[m][b])
      <4>1. queue[m][b] # <<>>
        BY <3>2 DEF Range
      <4>2. Head(queue'[m][b]) = Head(queue[m][b])
        BY <1>5, <1>7, <4>1
      <4> QED BY <3>2, <4>2, ClaimTypes DEF Unsettled
    <3> QED BY <1>8, <3>1, <3>2
  <2>3. \A e \in Event : /\ acked[e] \subseteq 1..claims[e]
                         /\ failed[e] \subseteq 1..claims[e]
                         /\ acked[e] \cap failed[e] = {}
    BY ClaimTypes DEF Unsettled
  <2> QED BY <1>2, <2>1, <2>2, <2>3 DEF Unsettled
<1>12. Balance'
  BY <1>2, ClaimTypes DEF Balance, MayBeClaimed
<1> QED BY <1>9, <1>10, <1>11, <1>12

\* A claim in two queues is in one: the business fixes the queue of a node, and
\* Distinct the node.
LEMMA OneQueue ==
  ASSUME ClaimInv, NEW m \in Node, NEW n \in Node, NEW b \in Business, NEW d \in Business,
         NEW x \in Range(queue[n][b]), x \in Range(queue[m][d])
  PROVE  m = n /\ d = b
<1>1. BusinessOf[x.event] = b /\ BusinessOf[x.event] = d
  BY ClaimTypes DEF Numbered
<1>2. m # n => Range(queue[n][b]) \cap Range(queue[m][b]) = {}
  BY ClaimTypes DEF Distinct
<1> QED BY <1>1, <1>2

\* Claims with the same event and number are the same claim.
LEMMA SameClaim ==
  ASSUME NEW x \in Claim, NEW y \in Claim, x.event = y.event, x.no = y.no
  PROVE  x = y
BY DEF Claim

\* Process settles the claim at the head, if the link server acknowledges it.
LEMMA ProcessStep ==
  ASSUME ClaimInv, NEW n \in Node, NEW b \in Business, Process(n, b)
  PROVE  Numbered' /\ Distinct' /\ Unsettled' /\ Balance'
<1> DEFINE c == Head(queue[n][b])
           e == c.event
<1>1. PICK r \in {"true", "false"} :
        /\ result' = [result EXCEPT ![n][b] = r]
        /\ \/ acked' = acked
           \/ acked' = [acked EXCEPT ![e] = @ \cup {c.no}] /\ r = "true"
  BY DEF Process
<1>2. /\ UNCHANGED <<status, ready, queue, claims, unlocked, stale, failed>>
      /\ queue[n][b] # <<>> /\ result[n][b] = "none"
  BY DEF Process, db, sched
<1>3. c \in Range(queue[n][b]) /\ c \in Claim /\ e \in Event
  <2>1. queue[n][b] \in Seq(Claim)
    BY ClaimTypes
  <2>2. c \in Range(queue[n][b])
    BY <1>2, <2>1, TailFacts
  <2> QED BY <2>2, ClaimTypes
<1>4. \A m \in Node, d \in Business :
        result'[m][d] = IF m = n /\ d = b THEN r ELSE result[m][d]
  BY <1>1, ClaimTypes, UpdateAt
<1> HIDE DEF c, e
<1>5. \A x \in Event : \/ acked'[x] = acked[x]
                       \/ x = e /\ acked'[x] = acked[x] \cup {c.no} /\ r = "true"
  BY <1>1, <1>3, ClaimTypes
<1>6. c.no \in 1..claims[e] /\ c.no \notin failed[e]
  BY <1>3, ClaimTypes DEF Numbered, Unsettled, e
<1>7. Numbered' /\ Distinct'
  <2>1. Numbered /\ Distinct
    BY ClaimTypes
  <2>2. ready' = ready /\ queue' = queue /\ claims' = claims
    BY <1>2
  <2>3. Numbered'
    BY <2>1, <2>2 DEF Numbered
  <2>4. Distinct'
    BY <2>1, <2>2 DEF Distinct
  <2> QED BY <2>3, <2>4
<1>8. Balance'
  BY <1>2, ClaimTypes DEF Balance, MayBeClaimed
<1>9. Unsettled'
  <2>1. \A x \in Event : /\ acked'[x] \subseteq 1..claims[x]
                         /\ failed[x] \subseteq 1..claims[x]
                         /\ acked'[x] \cap failed[x] = {}
    BY <1>5, <1>6, ClaimTypes DEF Unsettled
  <2>2. ASSUME NEW m \in Node, NEW x \in ready[m]
        PROVE  x.no \notin acked'[x.event] \cup failed[x.event]
    <3>1. x.no \notin acked[x.event] \cup failed[x.event] /\ x \in Claim /\ x.event \in Event
      BY ClaimTypes DEF Unsettled
    <3>2. x # c
      BY <1>3, ClaimTypes DEF Distinct
    <3>3. ~ (x.event = e /\ x.no = c.no)
      BY <1>3, <3>1, <3>2, SameClaim DEF e
    <3> QED BY <1>5, <3>1, <3>3
  <2>3. ASSUME NEW m \in Node, NEW d \in Business, NEW x \in Range(queue[m][d])
        PROVE  /\ x.no \notin failed[x.event]
               /\ x.no \in acked'[x.event] =>
                    x = Head(queue[m][d]) /\ result'[m][d] = "true"
    <3>1. /\ x.no \notin failed[x.event] /\ x \in Claim /\ x.event \in Event
          /\ x.no \in acked[x.event] => x = Head(queue[m][d]) /\ result[m][d] = "true"
      BY ClaimTypes DEF Unsettled
    <3>2. CASE x.no \in acked[x.event]
      <4>1. ~ (m = n /\ d = b)
        BY <1>2, <3>1, <3>2
      <4> QED BY <1>4, <3>1, <3>2, <4>1
    <3>3. CASE x.no \notin acked[x.event] /\ x.no \in acked'[x.event]
      <4>1. x.event = e /\ x.no = c.no /\ r = "true"
        BY <1>5, <3>1, <3>3
      <4>2. x = c
        BY <1>3, <3>1, <4>1, SameClaim DEF e
      <4>3. m = n /\ d = b
        BY <1>3, <4>2, OneQueue
      <4> QED BY <1>4, <3>1, <4>1, <4>2, <4>3 DEF c
    <3> QED BY <3>1, <3>2, <3>3
  <2> QED BY <1>2, <2>1, <2>2, <2>3 DEF Unsettled
<1> QED BY <1>7, <1>8, <1>9

\* The final UPDATE lets the claim go; kPushFailed gives the right back.
LEMMA UpdateStep ==
  ASSUME ClaimInv, NEW n \in Node, NEW b \in Business, UpdatePushStatus(n, b)
  PROVE  Numbered' /\ Distinct' /\ Unsettled' /\ Balance'
<1> DEFINE c == Head(queue[n][b])
           e == c.event
           t == Tail(queue[n][b])
           s == FinalStatus(result[n][b])
<1>1. /\ queue' = [queue EXCEPT ![n][b] = t]
      /\ result' = [result EXCEPT ![n][b] = "none"]
      /\ \/ status' = [status EXCEPT ![e] = s]
            /\ failed' = IF s = "Failed" THEN [failed EXCEPT ![e] = @ \cup {c.no}] ELSE failed
         \/ UNCHANGED <<status, failed>>
      /\ result[n][b] # "none"
  BY DEF UpdatePushStatus
<1>2. UNCHANGED <<ready, claims, unlocked, stale, acked>>
  BY DEF UpdatePushStatus, sched
<1>3. queue[n][b] \in Seq(Claim) /\ queue[n][b] # <<>>
  BY <1>1, ClaimTypes DEF ClaimInv, TypeInv, PoppedIsHead
<1>4. /\ c \in Range(queue[n][b]) /\ c \in Claim /\ e \in Event
      /\ t \in Seq(Claim) /\ Range(t) \subseteq Range(queue[n][b])
      /\ IsInjective(t) /\ c \notin Range(t)
  <2>1. IsInjective(queue[n][b])
    BY ClaimTypes DEF Distinct
  <2>2. c \in Range(queue[n][b])
    BY <1>3, TailFacts
  <2>3. c \in Claim /\ e \in Event
    BY <2>2, ClaimTypes
  <2> QED BY <1>3, <2>1, <2>2, <2>3, TailFacts
<1>5. result[n][b] = "true" \/ result[n][b] = "false"
  <2>1. result[n][b] \in {"none", "true", "false"}
    BY ClaimTypes
  <2> QED BY <1>1, <2>1
<1>6. \A m \in Node, d \in Business :
        queue'[m][d] = IF m = n /\ d = b THEN t ELSE queue[m][d]
  <2>1. queue \in [Node -> [Business -> Seq(Claim)]]
    BY ClaimTypes
  <2> HIDE DEF t
  <2> QED BY <1>1, <1>4, <2>1, UpdateAt
<1>7. \A m \in Node, d \in Business :
        result'[m][d] = IF m = n /\ d = b THEN "none" ELSE result[m][d]
  BY <1>1, ClaimTypes, UpdateAt
<1>8. (result[n][b] = "true" => s = "Success") /\ (result[n][b] = "false" => s = "Failed")
  BY DEF FinalStatus
<1> HIDE DEF c, e, t, s
<1>9. \A m \in Node, d \in Business : Range(queue'[m][d]) \subseteq Range(queue[m][d])
  BY <1>4, <1>6
<1>10. \A m \in Node, d \in Business : c \notin Range(queue'[m][d])
  BY <1>4, <1>6, OneQueue
<1>11. \A x \in Event :
         \/ failed'[x] = failed[x] /\ (status'[x] = status[x] \/ status'[x] = "Success")
         \/ /\ x = e /\ failed'[x] = failed[x] \cup {c.no}
            /\ result[n][b] = "false"
  <2>1. CASE UNCHANGED <<status, failed>>
    BY <2>1
  <2>2. CASE status' = [status EXCEPT ![e] = s] /\ failed' = failed /\ s # "Failed"
    BY <1>4, <1>5, <1>8, <2>2, ClaimTypes
  <2>3. CASE /\ status' = [status EXCEPT ![e] = s] /\ s = "Failed"
             /\ failed' = [failed EXCEPT ![e] = @ \cup {c.no}]
    BY <1>4, <1>5, <1>8, <2>3, ClaimTypes
  <2> QED BY <1>1, <2>1, <2>2, <2>3
<1>12. c.no \in 1..claims[e] /\ c.no \notin failed[e]
  BY <1>4, ClaimTypes DEF Numbered, Unsettled, e
<1>13. result[n][b] = "false" => c.no \notin acked[e]
  BY <1>4, ClaimTypes DEF Unsettled, e
<1>14. Numbered'
  BY <1>2, <1>9, ClaimTypes DEF Numbered
<1>15. Distinct'
  <2>1. \A i, j \in Node, d \in Business : ready[i] \cap Range(queue'[j][d]) = {}
    BY <1>9, ClaimTypes DEF Distinct
  <2>2. \A i, j \in Node, d \in Business :
          i # j => Range(queue'[i][d]) \cap Range(queue'[j][d]) = {}
    <3> TAKE i, j \in Node, d \in Business
    <3>1. i # j => Range(queue[i][d]) \cap Range(queue[j][d]) = {}
      BY ClaimTypes DEF Distinct
    <3>2. /\ Range(queue'[i][d]) \subseteq Range(queue[i][d])
          /\ Range(queue'[j][d]) \subseteq Range(queue[j][d])
      BY <1>9
    <3> QED BY <3>1, <3>2
  <2>3. \A m \in Node, d \in Business : IsInjective(queue'[m][d])
    BY <1>4, <1>6, ClaimTypes DEF Distinct
  <2>4. \A i, j \in Node : i # j => ready[i] \cap ready[j] = {}
    BY ClaimTypes DEF Distinct
  <2> QED BY <1>2, <2>1, <2>2, <2>3, <2>4 DEF Distinct
<1>16. Unsettled'
  <2>1. \A x \in Event : /\ acked[x] \subseteq 1..claims[x]
                         /\ failed'[x] \subseteq 1..claims[x]
                         /\ acked[x] \cap failed'[x] = {}
    BY <1>11, <1>12, <1>13, ClaimTypes DEF Unsettled
  <2>2. ASSUME NEW m \in Node, NEW x \in ready[m]
        PROVE  x.no \notin acked[x.event] \cup failed'[x.event]
    <3>1. x.no \notin acked[x.event] \cup failed[x.event] /\ x \in Claim /\ x.event \in Event
      BY ClaimTypes DEF Unsettled
    <3>2. x # c
      BY <1>4, ClaimTypes DEF Distinct
    <3>3. ~ (x.event = e /\ x.no = c.no)
      BY <1>4, <3>1, <3>2, SameClaim DEF e
    <3> QED BY <1>11, <3>1, <3>3
  <2>3. ASSUME NEW m \in Node, NEW d \in Business, NEW x \in Range(queue'[m][d])
        PROVE  /\ x.no \notin failed'[x.event]
               /\ x.no \in acked[x.event] =>
                    x = Head(queue'[m][d]) /\ result'[m][d] = "true"
    <3>1. /\ x \in Range(queue[m][d])
          /\ x.no \notin failed[x.event] /\ x \in Claim /\ x.event \in Event
          /\ x.no \in acked[x.event] => x = Head(queue[m][d]) /\ result[m][d] = "true"
      BY <1>9, ClaimTypes DEF Unsettled
    <3>2. x # c
      BY <1>10
    <3>3. ~ (x.event = e /\ x.no = c.no)
      BY <1>4, <3>1, <3>2, SameClaim DEF e
    <3>4. x.no \notin failed'[x.event]
      BY <1>11, <3>1, <3>3
    <3>5. CASE m = n /\ d = b
      BY <3>1, <3>2, <3>4, <3>5 DEF c
    <3>6. CASE ~ (m = n /\ d = b)
      BY <1>6, <1>7, <3>1, <3>4, <3>6
    <3> QED BY <3>5, <3>6
  <2> QED BY <1>2, <2>1, <2>2, <2>3 DEF Unsettled
<1>17. Balance'
  <2> SUFFICES ASSUME NEW x \in Event
               PROVE  claims[x] + MayBeClaimed(x)'
                        <= 1 + unlocked[x] + stale[x] + Cardinality(failed'[x])
    BY <1>2 DEF Balance
  <2>1. claims[x] + MayBeClaimed(x) <= 1 + unlocked[x] + stale[x] + Cardinality(failed[x])
    BY ClaimTypes DEF Balance
  <2>2. IsFiniteSet(failed[x])
    <3>1. claims[x] \in Nat /\ failed[x] \in SUBSET (1..claims[x])
      BY ClaimTypes DEF Unsettled
    <3>2. IsFiniteSet(1..claims[x])
      BY <3>1, FS_Interval
    <3> QED BY <3>1, <3>2, FS_Subset
  <2>3. Cardinality(failed[x]) \in Nat /\ claims[x] \in Nat /\ unlocked[x] \in Nat /\ stale[x] \in Nat
    BY <2>2, FS_CardinalityType, ClaimTypes
  <2>4. MayBeClaimed(x) \in 0..1 /\ MayBeClaimed(x)' \in 0..1
    BY DEF MayBeClaimed
  <2>5. CASE failed'[x] = failed[x] /\ (status'[x] = status[x] \/ status'[x] = "Success")
    <3>1. MayBeClaimed(x)' <= MayBeClaimed(x)
      BY <2>4, <2>5 DEF MayBeClaimed, Claimable
    <3> QED BY <2>1, <2>3, <2>4, <2>5, <3>1
  <2>6. CASE x = e /\ failed'[x] = failed[x] \cup {c.no}
    <3>1. Cardinality(failed'[x]) = Cardinality(failed[x]) + 1
      BY <1>12, <2>2, <2>6, FS_AddElement
    <3> QED BY <2>1, <2>3, <2>4, <3>1
  <2> QED BY <1>11, <2>5, <2>6
<1> QED BY <1>14, <1>15, <1>16, <1>17

\* A crash takes claims out of flight and leaves the rows alone.
LEMMA CrashStep ==
  ASSUME ClaimInv, NEW n \in Node, Crash(n)
  PROVE  Numbered' /\ Distinct' /\ Unsettled' /\ Balance'
<1>1. /\ ready' = [ready EXCEPT ![n] = {}]
      /\ queue' = [queue EXCEPT ![n] = [b \in Business |-> <<>>]]
      /\ result' = [result EXCEPT ![n] = [b \in Business |-> "none"]]
      /\ UNCHANGED <<status, claims, unlocked, stale, acked, failed>>
  BY DEF Crash
<1>2. \A m \in Node : \/ m # n /\ ready'[m] = ready[m] /\ queue'[m] = queue[m]
                               /\ result'[m] = result[m]
                      \/ /\ m = n /\ ready'[m] = {}
                         /\ \A b \in Business : queue'[m][b] = <<>>
  BY <1>1, ClaimTypes
<1>3. Range(<<>>) = {} /\ IsInjective(<<>>)
  BY DEF Range, IsInjective
<1>4. \A m \in Node, b \in Business :
        /\ ready'[m] \subseteq ready[m]
        /\ Range(queue'[m][b]) \subseteq Range(queue[m][b])
        /\ IsInjective(queue[m][b]) => IsInjective(queue'[m][b])
  BY <1>2, <1>3
<1>5. \A m \in Node : ready'[m] \subseteq ready[m]
  BY <1>2
<1>6. Numbered'
  <2>1. Numbered
    BY ClaimTypes
  <2>2. ASSUME NEW m \in Node, NEW c \in ready'[m] PROVE c.no \in 1..claims[c.event]
    BY <1>5, <2>1 DEF Numbered
  <2>3. ASSUME NEW m \in Node, NEW b \in Business, NEW c \in Range(queue'[m][b])
        PROVE  BusinessOf[c.event] = b /\ c.no \in 1..claims[c.event]
    BY <1>4, <2>1 DEF Numbered
  <2> QED BY <1>1, <2>2, <2>3 DEF Numbered
<1>7. Distinct'
  <2>1. \A i, j \in Node : i # j => ready'[i] \cap ready'[j] = {}
    BY <1>5, ClaimTypes DEF Distinct
  <2>2. \A i, j \in Node, d \in Business : ready'[i] \cap Range(queue'[j][d]) = {}
    BY <1>4, ClaimTypes DEF Distinct
  <2>3. \A i, j \in Node, d \in Business :
          i # j => Range(queue'[i][d]) \cap Range(queue'[j][d]) = {}
    BY <1>4, ClaimTypes DEF Distinct
  <2>4. \A m \in Node, d \in Business : IsInjective(queue'[m][d])
    BY <1>4, ClaimTypes DEF Distinct
  <2> QED BY <2>1, <2>2, <2>3, <2>4 DEF Distinct
<1>8. Unsettled'
  <2>1. \A m \in Node : \A x \in ready'[m] : x.no \notin acked[x.event] \cup failed[x.event]
    BY <1>5, ClaimTypes DEF Unsettled
  <2>2. ASSUME NEW m \in Node, NEW d \in Business, NEW x \in Range(queue'[m][d])
        PROVE  /\ x.no \notin failed[x.event]
               /\ x.no \in acked[x.event] =>
                    x = Head(queue'[m][d]) /\ result'[m][d] = "true"
    <3>1. m # n
      BY <1>2, <1>3
    <3> QED BY <1>2, <3>1, ClaimTypes DEF Unsettled
  <2>3. \A e \in Event : /\ acked[e] \subseteq 1..claims[e]
                         /\ failed[e] \subseteq 1..claims[e]
                         /\ acked[e] \cap failed[e] = {}
    BY ClaimTypes DEF Unsettled
  <2> QED BY <1>1, <2>1, <2>2, <2>3 DEF Unsettled
<1>9. Balance'
  BY <1>1, ClaimTypes DEF Balance, MayBeClaimed
<1> QED BY <1>6, <1>7, <1>8, <1>9

\* Every step of a scheduler, a processor or the environment keeps the claim invariant.
LEMMA NextClaimInv == ClaimInv /\ [Next]_vars => ClaimInv'
<1> SUFFICES ASSUME ClaimInv, [Next]_vars PROVE ClaimInv'
  OBVIOUS
<1>1. TypeInv'
  BY NextTypeInv DEF ClaimInv
<1>2. CASE Tick \/ UNCHANGED vars
  <2>1. UNCHANGED <<status, ready, queue, result, claims, unlocked, stale, acked, failed>>
    BY <1>2 DEF Tick, vars, db, sched, procs, hist
  <2> QED BY <1>1, <2>1, OtherStep DEF ClaimInv
<1>3. ASSUME NEW n \in Node,
             \/ ChangeView(n) \/ GetNodePos(n) \/ FetchPushEvents(n)
             \/ FilterPushEvents(n) \/ SkipLocked(n)
      PROVE  ClaimInv'
  <2>1. UNCHANGED <<status, ready, queue, result, claims, unlocked, stale, acked, failed>>
    BY <1>3 DEF ChangeView, GetNodePos, FetchPushEvents, FilterPushEvents, SkipLocked,
                db, sched, procs, hist
  <2> QED BY <1>1, <2>1, OtherStep DEF ClaimInv
<1>4. ASSUME NEW n \in Node, Lock(n) PROVE ClaimInv'
  BY <1>1, <1>4, LockStep DEF ClaimInv
<1>5. ASSUME NEW n \in Node, PushToQueue(n) PROVE ClaimInv'
  BY <1>1, <1>5, PushToQueueStep DEF ClaimInv
<1>6. ASSUME NEW n \in Node, NEW b \in Business, Process(n, b) PROVE ClaimInv'
  BY <1>1, <1>6, ProcessStep DEF ClaimInv
<1>7. ASSUME NEW n \in Node, NEW b \in Business, UpdatePushStatus(n, b) PROVE ClaimInv'
  BY <1>1, <1>7, UpdateStep DEF ClaimInv
<1>8. ASSUME NEW n \in Node, Crash(n) PROVE ClaimInv'
  BY <1>1, <1>8, CrashStep DEF ClaimInv
<1> QED BY <1>2, <1>3, <1>4, <1>5, <1>6, <1>7, <1>8 DEF Next

\* Acknowledged and failed claims of an event are different claims that were made.
LEMMA AckBound ==
  ASSUME ClaimInv, NEW e \in Event
  PROVE  /\ IsFiniteSet(acked[e])
         /\ Cardinality(acked[e]) \in Nat
         /\ Cardinality(acked[e]) + MayBeClaimed(e) <= 1 + unlocked[e] + stale[e]
<1>1. claims[e] \in Nat /\ unlocked[e] \in Nat /\ stale[e] \in Nat
  BY ClaimTypes
<1>2. acked[e] \subseteq 1..claims[e] /\ failed[e] \subseteq 1..claims[e]
      /\ acked[e] \cap failed[e] = {}
  BY ClaimTypes DEF Unsettled
<1>3. IsFiniteSet(1..claims[e]) /\ Cardinality(1..claims[e]) = claims[e]
  <2>1. \A k \in Nat : IsFiniteSet(1..k)
                       /\ Cardinality(1..k) = IF 1 > k THEN 0 ELSE k - 1 + 1
    BY FS_Interval
  <2>2. claims[e] = IF 1 > claims[e] THEN 0 ELSE claims[e] - 1 + 1
    BY <1>1
  <2> QED BY <1>1, <2>1, <2>2
<1>4. IsFiniteSet(acked[e]) /\ IsFiniteSet(failed[e])
  BY <1>2, <1>3, FS_Subset
<1>5. Cardinality(acked[e]) \in Nat /\ Cardinality(failed[e]) \in Nat
  BY <1>4, FS_CardinalityType
<1>6. Cardinality(acked[e] \cup failed[e]) = Cardinality(acked[e]) + Cardinality(failed[e])
  <2>1. Cardinality(acked[e] \cap failed[e]) = 0
    BY <1>2, FS_EmptySet
  <2>2. Cardinality(acked[e] \cup failed[e])
          = Cardinality(acked[e]) + Cardinality(failed[e]) - Cardinality(acked[e] \cap failed[e])
    BY <1>4, FS_Union
  <2> QED BY <1>5, <2>1, <2>2
<1>7. Cardinality(acked[e] \cup failed[e]) <= claims[e]
  <2>1. acked[e] \cup failed[e] \in SUBSET (1..claims[e])
    BY <1>2
  <2>2. Cardinality(acked[e] \cup failed[e]) <= Cardinality(1..claims[e])
    BY ONLY <1>3, <2>1, FS_Subset
  <2> QED BY <1>3, <2>2
<1>8. claims[e] + MayBeClaimed(e) <= 1 + unlocked[e] + stale[e] + Cardinality(failed[e])
  BY ClaimTypes DEF Balance
<1>9. MayBeClaimed(e) \in 0..1
  BY DEF MayBeClaimed
<1> QED BY <1>1, <1>4, <1>5, <1>6, <1>7, <1>8, <1>9

\* The claim invariant holds throughout: PushStatusFilter and PushProcessor::Run never
\* lose count of who may still push an event.
LEMMA Claims == Spec => []ClaimInv
BY InitClaimInv, NextClaimInv, PTL DEF Spec

\* However many nodes, rows, crashes, failing statements and views: an event is
\* acknowledged at most once, plus once for every lock whose UPDATE failed and
\* every lock taken on a stale row.
THEOREM DuplicatesBounded == Spec => []DuplicatesAccounted
<1>1. ClaimInv => DuplicatesAccounted
  <2> SUFFICES ASSUME ClaimInv, NEW e \in Event
               PROVE  Cardinality(acked[e]) <= 1 + unlocked[e] + stale[e]
    BY DEF DuplicatesAccounted
  <2>1. MayBeClaimed(e) \in 0..1 /\ unlocked[e] \in Nat /\ stale[e] \in Nat
    BY ClaimTypes DEF MayBeClaimed
  <2> QED BY <2>1, AckBound
<1> QED BY <1>1, Claims, PTL

\* An acknowledged event is not open to PushStatusFilter, unless one of its locks
\* failed or was taken on a stale row.
THEOREM AckedNotReopened == Spec => []AckedStaysClosed
<1>1. ClaimInv => AckedStaysClosed
  <2> SUFFICES ASSUME ClaimInv, NEW e \in Event, acked[e] # {}, unlocked[e] = 0, stale[e] = 0,
                      Claimable(status[e])
               PROVE  FALSE
    BY DEF AckedStaysClosed
  <2>1. Cardinality(acked[e]) \in Nat /\ Cardinality(acked[e]) # 0
    BY AckBound, FS_EmptySet
  <2>2. MayBeClaimed(e) = 1
    BY DEF MayBeClaimed
  <2> QED BY <2>1, <2>2, AckBound
<1> QED BY <1>1, Claims, PTL
-----------------------------------------------------------------------------
(***************************************************************************)
(* Who holds which claim                                                   *)
(*                                                                         *)
(* Lock gives a node a claim, PushToQueue keeps or drops it, the final     *)
(* UPDATE lets it go and a crash loses all of a node's claims; no other    *)
(* step changes what a node holds.                                         *)
(***************************************************************************)
\* What it means to hold a claim, and an event, before and after a step.
LEMMA HeldMeans ==
  ASSUME NEW n \in Node
  PROVE  /\ \A c : c \in Held(n) <=> c \in ready[n] \/ \E b \in Business : c \in Range(queue[n][b])
         /\ \A c : c \in Held(n)' <=> c \in ready'[n] \/ \E b \in Business : c \in Range(queue'[n][b])
         /\ \A e : e \in HeldEvents(n) <=> \E c \in Held(n) : c.event = e
         /\ \A e : e \in HeldEvents(n)' <=> \E c \in Held(n)' : c.event = e
BY DEF Held, HeldEvents

\* The claims in flight, of their type, made, and each in one node.
LEMMA HeldTypes ==
  ASSUME ClaimInv, NEW n \in Node, NEW c \in Held(n)
  PROVE  /\ c \in Claim /\ c.event \in Event /\ c.no \in 1..claims[c.event]
         /\ \A m \in Node : m # n => c \notin Held(m)
<1>1. c \in ready[n] \/ \E b \in Business : c \in Range(queue[n][b])
  BY HeldMeans
<1>2. c \in Claim /\ c.event \in Event
  BY <1>1, ClaimTypes
<1>3. c.no \in 1..claims[c.event]
  BY <1>1, ClaimTypes DEF Numbered
<1>4. ASSUME NEW m \in Node, m # n, c \in Held(m) PROVE FALSE
  <2>1. c \in ready[m] \/ \E b \in Business : c \in Range(queue[m][b])
    BY <1>4, HeldMeans
  <2>2. \A b \in Business : Range(queue[n][b]) \cap Range(queue[m][b]) = {}
    BY <1>4, ClaimTypes DEF Distinct
  <2>3. \A b, d \in Business : ~ (c \in Range(queue[n][b]) /\ c \in Range(queue[m][d]))
    BY <1>4, OneQueue
  <2> QED BY <1>1, <1>4, <2>1, <2>3, ClaimTypes DEF Distinct
<1> QED BY <1>2, <1>3, <1>4

\* Steps that move no claim.
LEMMA HeldStands ==
  ASSUME UNCHANGED <<ready, queue>>
  PROVE  \A n \in Node : Held(n)' = Held(n)
BY DEF Held

\* The lock of PushStatusFilter: the row, the claim, and the node that holds it.
LEMMA LockHeld ==
  ASSUME ClaimInv, NEW n \in Node, Lock(n)
  PROVE  \E r \in batch[n], c \in Claim :
           /\ Claimable(r.status) /\ r.event \in Event /\ c.event = r.event
           /\ batch' = [batch EXCEPT ![n] = @ \ {r}]
           /\ \/ status' = [status EXCEPT ![r.event] = "Processing"]
              \/ "lock" \in SqlFaults /\ status' = status
           /\ Held(n)' = Held(n) \cup {c} /\ c \notin Held(n)
           /\ \A m \in Node : m # n => Held(m)' = Held(m)
<1>1. PICK r \in batch[n] :
        /\ Claimable(r.status)
        /\ batch' = [batch EXCEPT ![n] = @ \ {r}]
        /\ \/ status' = [status EXCEPT ![r.event] = "Processing"]
           \/ "lock" \in SqlFaults /\ status' = status
        /\ ready' = [ready EXCEPT
                       ![n] = @ \cup {[event |-> r.event, no |-> claims[r.event] + 1]}]
  BY DEF Lock
<1>2. UNCHANGED queue
  BY DEF Lock, procs
<1> DEFINE c == [event |-> r.event, no |-> claims[r.event] + 1]
<1>3. r.event \in Event
  BY DEF ClaimInv, TypeInv, TypeOK, Row
<1>4. claims[r.event] \in Nat
  BY <1>3, ClaimTypes
<1>5. c \in Claim /\ c.event = r.event /\ c.no = claims[r.event] + 1
  BY <1>3, <1>4 DEF Claim
<1>6. \A m \in Node : ready'[m] = IF m = n THEN ready[m] \cup {c} ELSE ready[m]
  BY <1>1, ClaimTypes
<1> HIDE DEF c
<1>7. c \notin Held(n)
  <2>1. c.no \notin 1..claims[c.event]
    BY <1>4, <1>5
  <2> QED BY <2>1, HeldTypes
<1>8. \A m \in Node : Held(m)' = IF m = n THEN Held(m) \cup {c} ELSE Held(m)
  BY <1>2, <1>6 DEF Held
<1> QED BY <1>1, <1>3, <1>5, <1>7, <1>8

\* PushToQueue moves the claim or drops it.
LEMMA PushToQueueHeld ==
  ASSUME ClaimInv, NEW n \in Node, PushToQueue(n)
  PROVE  \/ abandoned' = abandoned /\ \A m \in Node : Held(m)' = Held(m)
         \/ \E c \in Held(n) : /\ abandoned' = abandoned \cup {c.event}
                               /\ Held(n)' = Held(n) \ {c}
                               /\ \A m \in Node : m # n => Held(m)' = Held(m)
<1>1. PICK c \in ready[n] :
        /\ ready' = [ready EXCEPT ![n] = @ \ {c}]
        /\ \/ /\ queue' = [queue EXCEPT ![n][BusinessOf[c.event]] = Append(@, c)]
              /\ UNCHANGED abandoned
           \/ abandoned' = abandoned \cup {c.event} /\ UNCHANGED queue
  BY DEF PushToQueue
<1> DEFINE d == BusinessOf[c.event]
           q == Append(queue[n][d], c)
<1>2. c \in Claim /\ c.event \in Event /\ d \in Business
  BY ClaimTypes, ConstantsOK
<1>3. \A m \in Node : ready'[m] = IF m = n THEN ready[m] \ {c} ELSE ready[m]
  BY <1>1, ClaimTypes
<1>4. \A b \in Business : c \notin Range(queue[n][b])
  BY ClaimTypes DEF Distinct
<1>5. CASE queue' = [queue EXCEPT ![n][d] = q] /\ UNCHANGED abandoned
  <2>1. queue[n][d] \in Seq(Claim)
    BY <1>2, ClaimTypes
  <2>2. q \in Seq(Claim) /\ Range(q) = Range(queue[n][d]) \cup {c}
    <3> HIDE DEF d
    <3> QED BY <1>2, <2>1, AppendFacts
  <2>3. \A m \in Node, b \in Business :
          queue'[m][b] = IF m = n /\ b = d THEN q ELSE queue[m][b]
    <3>1. queue \in [Node -> [Business -> Seq(Claim)]]
      BY ClaimTypes
    <3> HIDE DEF q, d
    <3> QED BY <1>2, <1>5, <2>2, <3>1, UpdateAt
  <2> HIDE DEF q, d
  <2>4. ASSUME NEW m \in Node, NEW x PROVE x \in Held(m)' <=> x \in Held(m)
    <3>1. CASE m # n
      <4>1. ready'[m] = ready[m] /\ \A b \in Business : queue'[m][b] = queue[m][b]
        BY <1>3, <2>3, <3>1
      <4> QED BY <4>1, HeldMeans
    <3>2. CASE m = n /\ x # c
      <4>1. \A b \in Business : x \in Range(queue'[n][b]) <=> x \in Range(queue[n][b])
        BY <2>2, <2>3, <3>2
      <4>2. x \in ready'[n] <=> x \in ready[n]
        BY <1>3, <3>2
      <4> QED BY <3>2, <4>1, <4>2, HeldMeans
    <3>3. CASE m = n /\ x = c
      <4>1. c \in Range(queue'[n][d])
        BY <1>2, <2>2, <2>3
      <4> QED BY <1>2, <3>3, <4>1, HeldMeans
    <3> QED BY <3>1, <3>2, <3>3
  <2> QED BY <1>5, <2>4
<1>6. CASE abandoned' = abandoned \cup {c.event} /\ UNCHANGED queue
  <2>1. c \in Held(n)
    BY HeldMeans
  <2>2. ASSUME NEW m \in Node, m # n PROVE Held(m)' = Held(m)
    BY <1>3, <1>6, <2>2 DEF Held
  <2>3. ASSUME NEW x PROVE x \in Held(n)' <=> x \in Held(n) /\ x # c
    <3>1. \A b \in Business : x \in Range(queue'[n][b]) => x \in Range(queue[n][b]) /\ x # c
      BY <1>4, <1>6
    <3>2. \A b \in Business : x \in Range(queue[n][b]) => x \in Range(queue'[n][b])
      BY <1>6
    <3>3. x \in ready'[n] <=> x \in ready[n] /\ x # c
      BY <1>3
    <3> QED BY <3>1, <3>2, <3>3, HeldMeans
  <2> QED BY <1>6, <2>1, <2>2, <2>3
<1> QED BY <1>1, <1>5, <1>6

\* UpdatePushStatus lets the claim at the head go.
LEMMA UpdateHeld ==
  ASSUME ClaimInv, NEW n \in Node, NEW b \in Business, UpdatePushStatus(n, b)
  PROVE  /\ Head(queue[n][b]) \in Held(n)
         /\ Head(queue[n][b]) \in Range(queue[n][b])
         /\ Held(n)' = Held(n) \ {Head(queue[n][b])}
         /\ \A m \in Node : m # n => Held(m)' = Held(m)
<1> DEFINE c == Head(queue[n][b])
           t == Tail(queue[n][b])
<1>1. queue' = [queue EXCEPT ![n][b] = t] /\ result[n][b] # "none" /\ UNCHANGED ready
  BY DEF UpdatePushStatus, sched
<1>2. queue[n][b] \in Seq(Claim) /\ queue[n][b] # <<>> /\ IsInjective(queue[n][b])
  BY <1>1, ClaimTypes DEF ClaimInv, TypeInv, PoppedIsHead, Distinct
<1>3. /\ c \in Range(queue[n][b]) /\ t \in Seq(Claim)
      /\ Range(queue[n][b]) = Range(t) \cup {c} /\ c \notin Range(t)
  BY <1>2, TailFacts
<1>4. \A m \in Node, d \in Business :
        queue'[m][d] = IF m = n /\ d = b THEN t ELSE queue[m][d]
  <2>1. queue \in [Node -> [Business -> Seq(Claim)]]
    BY ClaimTypes
  <2> HIDE DEF t
  <2> QED BY <1>1, <1>3, <2>1, UpdateAt
<1> HIDE DEF c, t
<1>5. c \notin ready[n] /\ \A d \in Business : d # b => c \notin Range(queue[n][d])
  BY <1>3, ClaimTypes, OneQueue DEF Distinct
<1>6. c \in Held(n)
  BY <1>3, HeldMeans
<1>7. ASSUME NEW m \in Node, m # n PROVE Held(m)' = Held(m)
  BY <1>1, <1>4, <1>7 DEF Held
<1>8. ASSUME NEW x PROVE x \in Held(n)' <=> x \in Held(n) /\ x # c
  <2>1. \A d \in Business : x \in Range(queue'[n][d]) <=> x \in Range(queue[n][d]) /\ x # c
    BY <1>3, <1>4, <1>5
  <2> QED BY <1>1, <1>5, <2>1, HeldMeans
<1> QED BY <1>3, <1>6, <1>7, <1>8 DEF c

\* A crash leaves the node with nothing.
LEMMA CrashHeld ==
  ASSUME ClaimInv, NEW n \in Node, Crash(n)
  PROVE  Held(n)' = {} /\ \A m \in Node : m # n => Held(m)' = Held(m)
<1>1. /\ ready' = [ready EXCEPT ![n] = {}]
      /\ queue' = [queue EXCEPT ![n] = [b \in Business |-> <<>>]]
  BY DEF Crash
<1>2. ready'[n] = {} /\ \A b \in Business : queue'[n][b] = <<>>
  BY <1>1, ClaimTypes
<1>3. Range(<<>>) = {}
  BY DEF Range
<1>4. \A m \in Node : m # n => ready'[m] = ready[m] /\ queue'[m] = queue[m]
  BY <1>1, ClaimTypes
<1> QED BY <1>2, <1>3, <1>4 DEF Held
-----------------------------------------------------------------------------
(***************************************************************************)
(* What the table says of a push is true                                   *)
(***************************************************************************)
\* The event is in a scheduler's vector or a processor's queue.
InFlight(e) == \E n \in Node : \E c \in Held(n) : c.event = e

\* A processor that is to write kPushSuccess sent the push, or had none to send.
TrueMeansAcked ==
  \A n \in Node, b \in Business :
    result[n][b] = "true" => acked[Head(queue[n][b]).event] # {} \/ b \in Muted

TrueInv == StatusIsTrue /\ TrueMeansAcked

\* StuckHasCause in terms of claims.
LEMMA StuckMeans ==
  StuckHasCause <=> \A e \in Event : status[e] = "Processing" => InFlight(e) \/ e \in abandoned
BY HeldMeans DEF StuckHasCause, InFlight

\* The same of the state after a step.
LEMMA StuckMeansNext ==
  ASSUME \A e \in Event : status'[e] = "Processing" => InFlight(e)' \/ e \in abandoned'
  PROVE  StuckHasCause'
BY HeldMeans DEF StuckHasCause, InFlight

\* A step that neither locks a row nor lets a claim go.
LEMMA StuckStands ==
  ASSUME StuckHasCause, UNCHANGED <<status, abandoned>>, \A n \in Node : Held(n)' = Held(n)
  PROVE  StuckHasCause'
BY StuckMeans, StuckMeansNext DEF InFlight

\* A locked row is held by the node that locked it.
LEMMA LockKeepsStuck ==
  ASSUME ClaimInv, StuckHasCause, NEW n \in Node, Lock(n) PROVE StuckHasCause'
<1>1. PICK r \in batch[n], c \in Claim :
        /\ r.event \in Event /\ c.event = r.event
        /\ status' = [status EXCEPT ![r.event] = "Processing"] \/ status' = status
        /\ Held(n)' = Held(n) \cup {c}
        /\ \A m \in Node : m # n => Held(m)' = Held(m)
  BY LockHeld
<1>2. UNCHANGED abandoned
  BY DEF Lock
<1>3. \A m \in Node : Held(m) \subseteq Held(m)'
  BY <1>1
<1>4. ASSUME NEW e \in Event, status'[e] = "Processing" PROVE InFlight(e)' \/ e \in abandoned'
  <2>1. CASE e = r.event
    BY <1>1, <2>1 DEF InFlight
  <2>2. CASE e # r.event
    <3>1. status[e] = "Processing"
      BY <1>1, <1>4, <2>2, ClaimTypes
    <3> QED BY <1>2, <1>3, <3>1, StuckMeans DEF InFlight
  <2> QED BY <2>1, <2>2
<1> QED BY <1>4, StuckMeansNext

\* Whatever lets a claim go writes a final status or remembers why not.
LEMMA ReleaseKeepsStuck ==
  ASSUME ClaimInv, StuckHasCause, NEW n \in Node, NEW c \in Held(n),
         Held(n)' = Held(n) \ {c},
         \A m \in Node : m # n => Held(m)' = Held(m),
         \/ status' = [status EXCEPT ![c.event] = "Success"]
         \/ status' = [status EXCEPT ![c.event] = "Failed"]
         \/ status' = status /\ c.event \in abandoned',
         abandoned \subseteq abandoned'
  PROVE  StuckHasCause'
<1>1. c.event \in Event
  BY HeldTypes
<1>2. ASSUME NEW e \in Event, status'[e] = "Processing" PROVE InFlight(e)' \/ e \in abandoned'
  <2>1. CASE e = c.event
    BY <1>1, <1>2, <2>1, ClaimTypes
  <2>2. CASE e # c.event
    <3>1. status[e] = "Processing"
      BY <1>1, <1>2, <2>2, ClaimTypes
    <3>2. CASE e \in abandoned
      BY <3>2
    <3>3. CASE InFlight(e)
      <4>1. PICK m \in Node : \E d \in Held(m) : d.event = e
        BY <3>3 DEF InFlight
      <4>2. PICK d \in Held(m) : d.event = e
        BY <4>1
      <4>3. d \in Held(m)'
        BY <2>2, <4>2
      <4> QED BY <4>2, <4>3 DEF InFlight
    <3> QED BY <3>1, <3>2, <3>3, StuckMeans
  <2> QED BY <2>1, <2>2
<1> QED BY <1>2, StuckMeansNext

LEMMA CrashKeepsStuck ==
  ASSUME ClaimInv, StuckHasCause, NEW n \in Node, Crash(n) PROVE StuckHasCause'
<1>1. /\ abandoned' = abandoned \cup HeldEvents(n) /\ UNCHANGED status
      /\ \A m \in Node : m # n => Held(m)' = Held(m)
  BY CrashHeld DEF Crash
<1>2. ASSUME NEW e \in Event, status'[e] = "Processing" PROVE InFlight(e)' \/ e \in abandoned'
  <2>1. InFlight(e) \/ e \in abandoned
    BY <1>1, <1>2, StuckMeans
  <2>2. ASSUME NEW m \in Node, NEW c \in Held(m), c.event = e PROVE InFlight(e)' \/ e \in abandoned'
    <3>1. CASE m = n
      BY <1>1, <2>2, <3>1, HeldMeans
    <3>2. CASE m # n
      BY <1>1, <2>2, <3>2 DEF InFlight
    <3> QED BY <3>1, <3>2
  <2> QED BY <1>1, <2>1, <2>2 DEF InFlight
<1> QED BY <1>2, StuckMeansNext

LEMMA NextStuck == ClaimInv /\ StuckHasCause /\ [Next]_vars => StuckHasCause'
<1> SUFFICES ASSUME ClaimInv, StuckHasCause, [Next]_vars PROVE StuckHasCause'
  OBVIOUS
<1>1. CASE Tick \/ UNCHANGED vars
  BY <1>1, HeldStands, StuckStands DEF Tick, vars, db, sched, procs, hist
<1>2. ASSUME NEW n \in Node,
             \/ ChangeView(n) \/ GetNodePos(n) \/ FetchPushEvents(n)
             \/ FilterPushEvents(n) \/ SkipLocked(n)
      PROVE  StuckHasCause'
  <2>1. UNCHANGED <<status, ready, queue, abandoned>>
    BY <1>2 DEF ChangeView, GetNodePos, FetchPushEvents, FilterPushEvents, SkipLocked,
                db, sched, procs, hist
  <2> QED BY <2>1, HeldStands, StuckStands
<1>3. ASSUME NEW n \in Node, PushToQueue(n) PROVE StuckHasCause'
  <2>1. UNCHANGED status
    BY <1>3 DEF PushToQueue, db
  <2>2. CASE abandoned' = abandoned /\ \A m \in Node : Held(m)' = Held(m)
    BY <2>1, <2>2, StuckStands
  <2>3. ASSUME NEW c \in Held(n), abandoned' = abandoned \cup {c.event},
               Held(n)' = Held(n) \ {c}, \A m \in Node : m # n => Held(m)' = Held(m)
        PROVE  StuckHasCause'
    BY <2>1, <2>3, ReleaseKeepsStuck
  <2> QED BY <1>3, <2>2, <2>3, PushToQueueHeld
<1>4. ASSUME NEW n \in Node, NEW b \in Business, Process(n, b) PROVE StuckHasCause'
  <2>1. UNCHANGED <<status, ready, queue, abandoned>>
    BY <1>4 DEF Process, db, sched
  <2> QED BY <2>1, HeldStands, StuckStands
<1>5. ASSUME NEW n \in Node, NEW b \in Business, UpdatePushStatus(n, b) PROVE StuckHasCause'
  <2> DEFINE c == Head(queue[n][b])
  <2>1. /\ \/ /\ status' = [status EXCEPT ![c.event] = FinalStatus(result[n][b])]
              /\ abandoned' = abandoned
           \/ status' = status /\ abandoned' = abandoned \cup {c.event}
    BY <1>5 DEF UpdatePushStatus
  <2>2. FinalStatus(result[n][b]) \in {"Success", "Failed"}
    BY DEF FinalStatus
  <2>3. c \in Held(n) /\ Held(n)' = Held(n) \ {c} /\ \A m \in Node : m # n => Held(m)' = Held(m)
    BY <1>5, UpdateHeld
  <2> HIDE DEF c
  <2> QED BY <2>1, <2>2, <2>3, ReleaseKeepsStuck
<1> QED BY <1>1, <1>2, <1>3, <1>4, <1>5, LockKeepsStuck, CrashKeepsStuck DEF Next

-----------------------------------------------------------------------------
\* A step that writes no kPushSuccess and forgets no acknowledgement.
LEMMA SuccessStands ==
  ASSUME SuccessMeansAcked, \A e \in Event : acked[e] \subseteq acked'[e],
         \A e \in Event : status'[e] = "Success" => status[e] = "Success"
  PROVE  SuccessMeansAcked'
BY DEF SuccessMeansAcked

\* A step that changes no queue's head and no result.
LEMMA TrueStands ==
  ASSUME TypeInv, TrueMeansAcked, UNCHANGED <<queue, result, acked>>
  PROVE  TrueMeansAcked'
BY DEF TrueMeansAcked

LEMMA LockKeepsTrue ==
  ASSUME ClaimInv, SuccessMeansAcked, TrueMeansAcked, NEW n \in Node, Lock(n)
  PROVE  SuccessMeansAcked' /\ TrueMeansAcked'
<1>1. UNCHANGED <<queue, result, acked>>
  BY DEF Lock, procs
<1>2. \A e \in Event : status'[e] = "Success" => status[e] = "Success"
  BY LockHeld, ClaimTypes
<1> QED BY <1>1, <1>2, SuccessStands, TrueStands DEF ClaimInv

LEMMA PushToQueueKeepsTrue ==
  ASSUME ClaimInv, SuccessMeansAcked, TrueMeansAcked, NEW n \in Node, PushToQueue(n)
  PROVE  SuccessMeansAcked' /\ TrueMeansAcked'
<1>1. UNCHANGED <<status, result, acked>>
  BY DEF PushToQueue, db
<1>2. SuccessMeansAcked'
  BY <1>1, SuccessStands
<1>3. PICK c \in ready[n] :
        \/ queue' = [queue EXCEPT ![n][BusinessOf[c.event]] = Append(@, c)]
        \/ queue' = queue
  BY DEF PushToQueue
<1> DEFINE d == BusinessOf[c.event]
           q == Append(queue[n][d], c)
<1>4. c \in Claim /\ d \in Business
  BY ClaimTypes, ConstantsOK
<1>5. q \in Seq(Claim) /\ (queue[n][d] # <<>> => Head(q) = Head(queue[n][d]))
  <2>1. queue[n][d] \in Seq(Claim)
    BY <1>4, ClaimTypes
  <2> HIDE DEF d
  <2> QED BY <1>4, <2>1, AppendFacts
<1>6. \A m \in Node, b \in Business :
        queue[m][b] # <<>> => Head(queue'[m][b]) = Head(queue[m][b])
  <2>1. CASE queue' = queue
    BY <2>1
  <2>2. CASE queue' = [queue EXCEPT ![n][d] = q]
    <3>1. queue \in [Node -> [Business -> Seq(Claim)]]
      BY ClaimTypes
    <3>2. \A m \in Node, b \in Business :
            queue'[m][b] = IF m = n /\ b = d THEN q ELSE queue[m][b]
      <4> HIDE DEF q, d
      <4> QED BY <1>4, <1>5, <2>2, <3>1, UpdateAt
    <3> QED BY <1>5, <3>2
  <2> QED BY <1>3, <2>1, <2>2
<1>7. ASSUME NEW m \in Node, NEW b \in Business, result[m][b] = "true"
      PROVE  acked[Head(queue'[m][b]).event] # {} \/ b \in Muted
  <2>1. queue[m][b] # <<>>
    BY <1>7 DEF ClaimInv, TypeInv, PoppedIsHead
  <2> QED BY <1>6, <1>7, <2>1 DEF TrueMeansAcked
<1> QED BY <1>1, <1>2, <1>7 DEF TrueMeansAcked

\* true comes with an acknowledgement, or from a business that sends nothing.
LEMMA ProcessKeepsTrue ==
  ASSUME ClaimInv, SuccessMeansAcked, TrueMeansAcked, NEW n \in Node, NEW b \in Business,
         Process(n, b)
  PROVE  SuccessMeansAcked' /\ TrueMeansAcked'
<1> DEFINE c == Head(queue[n][b])
           e == c.event
<1>1. /\ UNCHANGED <<status, queue>>
      /\ \/ result' = [result EXCEPT ![n][b] = "false"] /\ acked' = acked
         \/ /\ result' = [result EXCEPT ![n][b] = "true"]
            /\ acked' = [acked EXCEPT ![e] = @ \cup {c.no}]
         \/ result' = [result EXCEPT ![n][b] = "true"] /\ acked' = acked /\ b \in Muted
  BY DEF Process, db
<1>2. e \in Event
  <2>1. queue[n][b] \in Seq(Claim) /\ queue[n][b] # <<>>
    BY ClaimTypes DEF Process
  <2>2. c \in Claim
    BY <2>1, TailFacts
  <2> QED BY <2>2 DEF Claim
<1>3. PICK r \in {"true", "false"} : result' = [result EXCEPT ![n][b] = r]
  BY <1>1
<1>4. \A m \in Node, d \in Business :
        result'[m][d] = IF m = n /\ d = b THEN r ELSE result[m][d]
  BY <1>3, ClaimTypes, UpdateAt
<1> HIDE DEF c
<1>5. acked' = acked \/ acked' = [acked EXCEPT ![e] = @ \cup {c.no}]
  BY <1>1
<1>6. \A x \in Event : acked[x] \subseteq acked'[x]
  BY <1>2, <1>5, ClaimTypes
<1>7. SuccessMeansAcked'
  BY <1>1, <1>6, SuccessStands
<1>8. ASSUME NEW m \in Node, NEW d \in Business, result'[m][d] = "true"
      PROVE  acked'[Head(queue[m][d]).event] # {} \/ d \in Muted
  <2>1. CASE m = n /\ d = b
    <3>1. result'[n][b] = "true" /\ result[n][b] \in {"none", "true", "false"}
      BY <1>8, <2>1, ClaimTypes
    <3>2. r = "true"
      BY <1>4, <3>1
    <3>3. acked' = [acked EXCEPT ![e] = @ \cup {c.no}] \/ b \in Muted
      <4>1. [result EXCEPT ![n][b] = "false"][n][b] = "false"
        BY ClaimTypes
      <4> QED BY <1>1, <3>1, <4>1
    <3>4. acked' = [acked EXCEPT ![e] = @ \cup {c.no}] => acked'[e] # {}
      BY <1>2, ClaimTypes
    <3> QED BY <2>1, <3>3, <3>4 DEF c
  <2>2. CASE ~ (m = n /\ d = b)
    <3>1. result[m][d] = "true"
      BY <1>4, <1>8, <2>2
    <3>2. Head(queue[m][d]).event \in Event
      <4>1. queue[m][d] \in Seq(Claim) /\ queue[m][d] # <<>>
        BY <3>1, ClaimTypes DEF ClaimInv, TypeInv, PoppedIsHead
      <4>2. Head(queue[m][d]) \in Claim
        BY <4>1, TailFacts
      <4> QED BY <4>2 DEF Claim
    <3> QED BY <1>6, <3>1, <3>2 DEF TrueMeansAcked
  <2> QED BY <2>1, <2>2
<1> QED BY <1>1, <1>7, <1>8 DEF TrueMeansAcked

\* kPushSuccess is written for the event whose push returned true.
LEMMA UpdateKeepsTrue ==
  ASSUME ClaimInv, SuccessMeansAcked, TrueMeansAcked, NEW n \in Node, NEW b \in Business,
         UpdatePushStatus(n, b)
  PROVE  SuccessMeansAcked' /\ TrueMeansAcked'
<1> DEFINE c == Head(queue[n][b])
           e == c.event
           t == Tail(queue[n][b])
           s == FinalStatus(result[n][b])
<1>1. /\ result[n][b] # "none"
      /\ status' = [status EXCEPT ![e] = s] \/ status' = status
      /\ queue' = [queue EXCEPT ![n][b] = t]
      /\ result' = [result EXCEPT ![n][b] = "none"]
      /\ UNCHANGED acked
  BY DEF UpdatePushStatus
<1>2. c \in Range(queue[n][b]) /\ e \in Event /\ BusinessOf[e] = b
  <2>1. c \in Range(queue[n][b])
    BY UpdateHeld
  <2>2. BusinessOf[c.event] = b
    BY <2>1, ClaimTypes DEF Numbered
  <2> QED BY <2>1, <2>2, ClaimTypes
<1>3. s = "Success" => acked[e] # {} \/ BusinessOf[e] \in Muted
  <2>1. s = "Success" => result[n][b] = "true"
    BY DEF FinalStatus
  <2> QED BY <1>2, <2>1 DEF TrueMeansAcked
<1>4. \A m \in Node, d \in Business :
        /\ result'[m][d] = IF m = n /\ d = b THEN "none" ELSE result[m][d]
        /\ ~ (m = n /\ d = b) => queue'[m][d] = queue[m][d]
  <2>1. \A m \in Node, d \in Business :
          result'[m][d] = IF m = n /\ d = b THEN "none" ELSE result[m][d]
    BY <1>1, ClaimTypes, UpdateAt
  <2>2. \A m \in Node, d \in Business : ~ (m = n /\ d = b) => queue'[m][d] = queue[m][d]
    <3>1. queue \in [Node -> [Business -> Seq(Claim)]]
      BY ClaimTypes
    <3> HIDE DEF t
    <3> QED BY <1>1, <3>1
  <2> QED BY <2>1, <2>2
<1> HIDE DEF c, s, t
<1>5. SuccessMeansAcked'
  <2> SUFFICES ASSUME NEW x \in Event, status'[x] = "Success"
               PROVE  acked[x] # {} \/ BusinessOf[x] \in Muted
    BY <1>1 DEF SuccessMeansAcked
  <2>1. CASE x = e /\ status' = [status EXCEPT ![e] = s]
    BY <1>2, <1>3, <2>1, ClaimTypes
  <2>2. CASE ~ (x = e /\ status' = [status EXCEPT ![e] = s])
    <3>1. status[x] = "Success"
      BY <1>1, <1>2, <2>2, ClaimTypes
    <3> QED BY <3>1 DEF SuccessMeansAcked
  <2> QED BY <2>1, <2>2
<1>6. TrueMeansAcked'
  BY <1>1, <1>4 DEF TrueMeansAcked
<1> QED BY <1>5, <1>6

LEMMA CrashKeepsTrue ==
  ASSUME ClaimInv, SuccessMeansAcked, TrueMeansAcked, NEW n \in Node, Crash(n)
  PROVE  SuccessMeansAcked' /\ TrueMeansAcked'
<1>1. /\ UNCHANGED <<status, acked>>
      /\ queue' = [queue EXCEPT ![n] = [b \in Business |-> <<>>]]
      /\ result' = [result EXCEPT ![n] = [b \in Business |-> "none"]]
  BY DEF Crash
<1>2. SuccessMeansAcked'
  BY <1>1, SuccessStands
<1>3. \A m \in Node, b \in Business :
        result'[m][b] = "true" => result[m][b] = "true" /\ queue'[m][b] = queue[m][b]
  <2> TAKE m \in Node, b \in Business
  <2>1. CASE m = n
    BY <1>1, <2>1, ClaimTypes
  <2>2. CASE m # n
    BY <1>1, <2>2, ClaimTypes
  <2> QED BY <2>1, <2>2
<1> QED BY <1>1, <1>2, <1>3 DEF TrueMeansAcked

LEMMA NextTrue ==
  ClaimInv /\ SuccessMeansAcked /\ TrueMeansAcked /\ [Next]_vars
    => SuccessMeansAcked' /\ TrueMeansAcked'
<1> SUFFICES ASSUME ClaimInv, SuccessMeansAcked, TrueMeansAcked, [Next]_vars
             PROVE  SuccessMeansAcked' /\ TrueMeansAcked'
  OBVIOUS
<1>1. CASE Tick \/ UNCHANGED vars
  <2>1. UNCHANGED <<status, queue, result, acked>>
    BY <1>1 DEF Tick, vars, db, sched, procs, hist
  <2> QED BY <2>1, SuccessStands, TrueStands DEF ClaimInv
<1>2. ASSUME NEW n \in Node,
             \/ ChangeView(n) \/ GetNodePos(n) \/ FetchPushEvents(n)
             \/ FilterPushEvents(n) \/ SkipLocked(n)
      PROVE  SuccessMeansAcked' /\ TrueMeansAcked'
  <2>1. UNCHANGED <<status, queue, result, acked>>
    BY <1>2 DEF ChangeView, GetNodePos, FetchPushEvents, FilterPushEvents, SkipLocked,
                db, sched, procs, hist
  <2> QED BY <2>1, SuccessStands, TrueStands DEF ClaimInv
<1> QED BY <1>1, <1>2, LockKeepsTrue, PushToQueueKeepsTrue, ProcessKeepsTrue, UpdateKeepsTrue,
           CrashKeepsTrue DEF Next

\* Whatever fails: a row that stays kPushProcessing with nobody working on it met a crash, a
\* failed final UPDATE or a business without processor, and kPushSuccess means that some
\* push was acknowledged or sending is switched off.
THEOREM StatusTells == Spec => []StatusIsTrue
<1>1. Init => TrueInv
  <2> SUFFICES ASSUME Init PROVE TrueInv
    OBVIOUS
  <2>1. \A e \in Event : status[e] = "Pending"
    BY DEF Init
  <2>2. \A n \in Node, b \in Business : result[n][b] = "none"
    BY DEF Init
  <2> QED BY <2>1, <2>2 DEF TrueInv, StatusIsTrue, StuckHasCause, SuccessMeansAcked, TrueMeansAcked
<1>2. ClaimInv /\ TrueInv /\ [Next]_vars => TrueInv'
  BY NextStuck, NextTrue DEF TrueInv, StatusIsTrue
<1>3. Spec => []TrueInv
  BY <1>1, <1>2, Claims, PTL DEF Spec
<1> QED BY <1>3, PTL DEF TrueInv
-----------------------------------------------------------------------------
(***************************************************************************)
(* The pipeline implements PushLifecycle                                   *)
(*                                                                         *)
(* With exclusive partitions an event belongs to one node, whatever views  *)
(* node_pos and node_cnt are read from.  So if no lock fails, a row that a *)
(* snapshot shows pending or failed still is so when PushStatusFilter gets *)
(* to it, a claim is the only one of its event, and its row is             *)
(* kPushProcessing until the claim is let go.                              *)
(***************************************************************************)
\* What the theorem assumes of the cluster and of MySQL.
Exclusive == ExclusiveViews /\ "lock" \notin SqlFaults /\ None \notin Node

\* The rows node n may ever select.
Partition(n) ==
  {e \in Event : \E v, w \in Views[n] : v.pos >= 0 /\ w.cnt > 0 /\ Selects(v.pos, w.cnt, e)}

\* A node's position comes from one of its views.
ViewsGiven ==
  \A n \in Node : /\ view[n] \in Views[n] \cup {NoView}
                  /\ \E v \in Views[n] \cup {NoView} : pos[n] = v.pos

InPartition ==
  \A n \in Node : /\ \A r \in batch[n] : r.event \in Partition(n)
                  /\ \A c \in Held(n) : c.event \in Partition(n)

OneClaim == \A n \in Node : \A c, d \in Held(n) : c.event = d.event => c = d

HeldIsLocked == \A n \in Node : \A c \in Held(n) : status[c.event] = "Processing"

SnapshotIsFresh ==
  \A n \in Node : \A r \in batch[n] : Claimable(r.status) => status[r.event] = r.status

OwnInv == InPartition /\ OneClaim /\ HeldIsLocked /\ SnapshotIsFresh

\* An event is in one partition.
LEMMA OnePartition ==
  ASSUME Exclusive, NEW n \in Node, NEW m \in Node, n # m, NEW e \in Partition(n)
  PROVE  e \notin Partition(m)
BY DEF Exclusive, ExclusiveViews, Partition

LEMMA NextViewsGiven == TypeInv /\ ViewsGiven /\ [Next]_vars => ViewsGiven'
<1> SUFFICES ASSUME TypeInv, ViewsGiven, [Next]_vars PROVE ViewsGiven'
  OBVIOUS
<1>1. CASE UNCHANGED <<view, pos>>
  BY <1>1 DEF ViewsGiven
<1>2. ASSUME NEW n \in Node, ChangeView(n) PROVE ViewsGiven'
  <2>1. PICK v \in Views[n] : view' = [view EXCEPT ![n] = v]
    BY <1>2 DEF ChangeView
  <2>2. UNCHANGED pos
    BY <1>2 DEF ChangeView, sched
  <2> QED BY <2>1, <2>2 DEF ViewsGiven, TypeInv, TypeOK
<1>3. ASSUME NEW n \in Node, GetNodePos(n) PROVE ViewsGiven'
  BY <1>3 DEF GetNodePos, db, ViewsGiven, TypeInv, TypeOK
<1>4. ASSUME NEW n \in Node, Crash(n) PROVE ViewsGiven'
  <2>1. NoView.pos = -1
    BY DEF NoView
  <2> QED BY <1>4, <2>1 DEF Crash, ViewsGiven, TypeInv, TypeOK
<1>5. Tick => UNCHANGED <<view, pos>>
  BY DEF Tick, sched
<1>6. \A n \in Node :
        FetchPushEvents(n) \/ FilterPushEvents(n) \/ SkipLocked(n) \/ Lock(n) \/ PushToQueue(n)
          => UNCHANGED <<view, pos>>
  BY DEF FetchPushEvents, FilterPushEvents, SkipLocked, Lock, PushToQueue, db
<1>7. \A n \in Node, b \in Business :
        Process(n, b) \/ UpdatePushStatus(n, b) => UNCHANGED <<view, pos>>
  BY DEF Process, UpdatePushStatus, db, sched
<1>8. UNCHANGED vars => UNCHANGED <<view, pos>>
  BY DEF vars, db, sched
<1> QED BY <1>1, <1>2, <1>3, <1>4, <1>5, <1>6, <1>7, <1>8 DEF Next

\* Steps that only drop rows and claims.
LEMMA ShrinkKeepsOwn ==
  ASSUME OwnInv, UNCHANGED status,
         \A n \in Node : batch'[n] \subseteq batch[n] /\ Held(n)' \subseteq Held(n)
  PROVE  OwnInv'
BY DEF OwnInv, InPartition, OneClaim, HeldIsLocked, SnapshotIsFresh, Partition, Claimable

\* The SELECT takes the rows of the partition, with the status they have.
LEMMA FetchKeepsOwn ==
  ASSUME ClaimInv, ViewsGiven, OwnInv, NEW n \in Node, FetchPushEvents(n) PROVE OwnInv'
<1>1. UNCHANGED <<status, ready, queue>>
  BY DEF FetchPushEvents, db, procs
<1>2. \A m \in Node : Held(m)' = Held(m)
  BY <1>1, HeldStands
<1>3. PICK got : /\ batch' = [batch EXCEPT ![n] = got]
                 /\ \A r \in got : \E e \in Event : /\ r = RowOf(e) /\ pos[n] >= 0 /\ view[n].cnt > 0
                                                    /\ Selects(pos[n], view[n].cnt, e)
  <2> DEFINE rows == IF pos[n] < 0 \/ view[n].cnt <= 0 THEN {}
                     ELSE {RowOf(e) : e \in {x \in Event :
                             /\ Selects(pos[n], view[n].cnt, x)
                             /\ claims[x] < MaxClaims[x]}}
  <2>1. PICK got \in IF "select" \in SqlFaults THEN SUBSET rows ELSE {rows} :
          batch' = [batch EXCEPT ![n] = got]
    BY DEF FetchPushEvents
  <2>2. pos[n] \in Int /\ view[n].cnt \in Int
    BY DEF ClaimInv, TypeInv, TypeOK, View
  <2>3. \A r \in rows : \E e \in Event : /\ r = RowOf(e) /\ pos[n] >= 0 /\ view[n].cnt > 0
                                         /\ Selects(pos[n], view[n].cnt, e)
    BY <2>2
  <2>4. got \subseteq rows
    BY <2>1
  <2> HIDE DEF rows
  <2> QED BY <2>1, <2>3, <2>4
<1>4. \A m \in Node : batch'[m] = IF m = n THEN got ELSE batch[m]
  BY <1>3 DEF ClaimInv, TypeInv, TypeOK
<1>5. ASSUME NEW r \in got PROVE r.event \in Partition(n) /\ status[r.event] = r.status
  <2>1. PICK e \in Event : /\ r = RowOf(e) /\ pos[n] >= 0 /\ view[n].cnt > 0
                           /\ Selects(pos[n], view[n].cnt, e)
    BY <1>3, <1>5
  <2>2. r.event = e /\ r.status = status[e]
    BY <2>1 DEF RowOf
  <2>3. NoView.pos = -1 /\ NoView.cnt = 0
    BY DEF NoView
  <2>4. view[n] \in Views[n] /\ \E v \in Views[n] : pos[n] = v.pos
    BY <2>1, <2>3 DEF ViewsGiven
  <2>5. e \in Partition(n)
    BY <2>1, <2>4 DEF Partition
  <2> QED BY <2>2, <2>5
<1>6. InPartition'
  BY <1>2, <1>4, <1>5 DEF OwnInv, InPartition, Partition
<1>7. OneClaim' /\ HeldIsLocked'
  BY <1>1, <1>2 DEF OwnInv, OneClaim, HeldIsLocked
<1>8. SnapshotIsFresh'
  BY <1>1, <1>4, <1>5 DEF OwnInv, SnapshotIsFresh
<1> QED BY <1>6, <1>7, <1>8 DEF OwnInv

\* Nobody holds an event that a snapshot shows pending or failed.
LEMMA ClaimableIsFree ==
  ASSUME Exclusive, OwnInv, NEW n \in Node, NEW r \in batch[n], Claimable(r.status)
  PROVE  /\ status[r.event] = r.status /\ r.event \in Partition(n)
         /\ \A m \in Node : \A c \in Held(m) : c.event # r.event
<1>1. status[r.event] = r.status
  BY DEF OwnInv, SnapshotIsFresh
<1>2. status[r.event] # "Processing"
  BY <1>1 DEF Claimable
<1> QED BY <1>1, <1>2 DEF OwnInv, HeldIsLocked, InPartition

\* The lock is taken on a row that is free.
LEMMA LockKeepsOwn ==
  ASSUME Exclusive, ClaimInv, OwnInv, NEW n \in Node, Lock(n) PROVE OwnInv'
<1>1. PICK r \in batch[n], c \in Claim :
        /\ Claimable(r.status) /\ r.event \in Event /\ c.event = r.event
        /\ batch' = [batch EXCEPT ![n] = @ \ {r}]
        /\ status' = [status EXCEPT ![r.event] = "Processing"]
        /\ Held(n)' = Held(n) \cup {c}
        /\ \A m \in Node : m # n => Held(m)' = Held(m)
  BY LockHeld DEF Exclusive
<1>2. /\ status[r.event] = r.status /\ r.event \in Partition(n)
      /\ \A m \in Node : \A d \in Held(m) : d.event # r.event
  BY <1>1, ClaimableIsFree
<1>3. \A m \in Node : batch'[m] = IF m = n THEN batch[m] \ {r} ELSE batch[m]
  BY <1>1 DEF ClaimInv, TypeInv, TypeOK
<1>4. ASSUME NEW m \in Node, NEW d \in Held(m)' PROVE d \in Held(m) \/ (d = c /\ m = n)
  <2>1. CASE m = n
    BY <1>1, <1>4, <2>1
  <2>2. CASE m # n
    BY <1>1, <1>4, <2>2
  <2> QED BY <2>1, <2>2
<1>5. \A e \in Event : status'[e] = IF e = r.event THEN "Processing" ELSE status[e]
  BY <1>1, ClaimTypes
<1>6. InPartition'
  BY <1>1, <1>2, <1>3, <1>4 DEF OwnInv, InPartition, Partition
<1>7. OneClaim'
  BY <1>1, <1>2, <1>4 DEF OwnInv, OneClaim
<1>8. HeldIsLocked'
  <2> SUFFICES ASSUME NEW m \in Node, NEW d \in Held(m)' PROVE status'[d.event] = "Processing"
    BY DEF HeldIsLocked
  <2>1. CASE d \in Held(m)
    BY <1>5, <2>1, HeldTypes DEF OwnInv, HeldIsLocked
  <2>2. CASE d = c
    BY <1>1, <1>5, <2>2
  <2> QED BY <1>4, <2>1, <2>2
<1>9. SnapshotIsFresh'
  <2> SUFFICES ASSUME NEW m \in Node, NEW q \in batch'[m], Claimable(q.status)
               PROVE  status'[q.event] = q.status
    BY DEF SnapshotIsFresh, Claimable
  <2>1. q \in batch[m] /\ q \in Row /\ r \in Row /\ q.event \in Event /\ status[q.event] = q.status
    <3>1. q \in batch[m] /\ batch[m] \in SUBSET Row /\ batch[n] \in SUBSET Row
      BY <1>3 DEF ClaimInv, TypeInv, TypeOK
    <3>2. q \in Row /\ r \in Row /\ q.event \in Event
      BY <3>1 DEF Row
    <3>3. status[q.event] = q.status
      BY <3>1 DEF OwnInv, SnapshotIsFresh
    <3> QED BY <3>1, <3>2, <3>3
  <2>2. q.event # r.event
    <3>1. CASE m # n
      <4>1. q.event \in Partition(m)
        BY <2>1 DEF OwnInv, InPartition
      <4> QED BY <1>2, <3>1, <4>1, OnePartition
    <3>2. CASE m = n
      <4>1. q # r
        BY <1>3, <3>2
      <4> QED BY <1>2, <2>1, <4>1 DEF Row
    <3> QED BY <3>1, <3>2
  <2> QED BY <1>5, <2>1, <2>2
<1> QED BY <1>6, <1>7, <1>8, <1>9 DEF OwnInv

\* A final status is written for a row only its holder knows of.
LEMMA FinishKeepsOwn ==
  ASSUME Exclusive, ClaimInv, OwnInv, NEW n \in Node, NEW c \in Held(n), UNCHANGED batch,
         Held(n)' = Held(n) \ {c}, \A m \in Node : m # n => Held(m)' = Held(m),
         NEW s, status' = [status EXCEPT ![c.event] = s]
  PROVE  OwnInv'
<1>1. c.event \in Event /\ c.event \in Partition(n) /\ status[c.event] = "Processing"
  BY HeldTypes DEF OwnInv, InPartition, HeldIsLocked
<1>2. \A e \in Event : e # c.event => status'[e] = status[e]
  BY ClaimTypes
<1>3. \A m \in Node : Held(m)' \subseteq Held(m)
  OBVIOUS
<1>4. InPartition' /\ OneClaim'
  BY <1>3 DEF OwnInv, InPartition, OneClaim, Partition
<1>5. HeldIsLocked'
  <2> SUFFICES ASSUME NEW m \in Node, NEW d \in Held(m)' PROVE status'[d.event] = "Processing"
    BY DEF HeldIsLocked
  <2>1. d \in Held(m) /\ d.event \in Event /\ status[d.event] = "Processing"
    BY <1>3, HeldTypes DEF OwnInv, HeldIsLocked
  <2>2. d.event # c.event
    <3>1. CASE m # n
      <4>1. d.event \in Partition(m)
        BY <2>1 DEF OwnInv, InPartition
      <4> QED BY <1>1, <3>1, <4>1, OnePartition
    <3>2. CASE m = n
      BY <2>1, <3>2 DEF OwnInv, OneClaim
    <3> QED BY <3>1, <3>2
  <2> QED BY <1>2, <2>1, <2>2
<1>6. SnapshotIsFresh'
  <2> SUFFICES ASSUME NEW m \in Node, NEW q \in batch[m], Claimable(q.status)
               PROVE  status'[q.event] = q.status
    BY DEF SnapshotIsFresh, Claimable
  <2>1. status[q.event] = q.status /\ q.event \in Event
    BY DEF OwnInv, SnapshotIsFresh, ClaimInv, TypeInv, TypeOK, Row
  <2>2. q.event # c.event
    BY <1>1, <2>1 DEF Claimable
  <2> QED BY <1>2, <2>1, <2>2
<1> QED BY <1>4, <1>5, <1>6 DEF OwnInv
-----------------------------------------------------------------------------
\* Crashes, drops and failed UPDATEs take rows and claims away.
LEMMA NextOwnInv == Exclusive /\ ClaimInv /\ ViewsGiven /\ OwnInv /\ [Next]_vars => OwnInv'
<1> SUFFICES ASSUME Exclusive, ClaimInv, ViewsGiven, OwnInv, [Next]_vars PROVE OwnInv'
  OBVIOUS
<1>1. CASE Tick \/ UNCHANGED vars
  <2>1. UNCHANGED <<status, batch, ready, queue>>
    BY <1>1 DEF Tick, vars, db, sched, procs
  <2> QED BY <2>1, HeldStands, ShrinkKeepsOwn
<1>2. ASSUME NEW n \in Node, ChangeView(n) \/ GetNodePos(n) PROVE OwnInv'
  <2>1. UNCHANGED <<status, batch, ready, queue>>
    BY <1>2 DEF ChangeView, GetNodePos, db, sched, procs
  <2> QED BY <2>1, HeldStands, ShrinkKeepsOwn
<1>3. ASSUME NEW n \in Node, FilterPushEvents(n) \/ SkipLocked(n) PROVE OwnInv'
  <2>1. UNCHANGED <<status, ready, queue>>
    BY <1>3 DEF FilterPushEvents, SkipLocked, db, procs
  <2>2. \E kept \in SUBSET batch[n] : batch' = [batch EXCEPT ![n] = kept]
    BY <1>3 DEF FilterPushEvents, SkipLocked
  <2>3. \A m \in Node : batch'[m] \subseteq batch[m]
    BY <2>2 DEF ClaimInv, TypeInv, TypeOK
  <2> QED BY <2>1, <2>3, HeldStands, ShrinkKeepsOwn
<1>4. ASSUME NEW n \in Node, PushToQueue(n) PROVE OwnInv'
  <2>1. UNCHANGED <<status, batch>>
    BY <1>4 DEF PushToQueue, db
  <2>2. \A m \in Node : Held(m)' \subseteq Held(m)
    BY <1>4, PushToQueueHeld
  <2> QED BY <2>1, <2>2, ShrinkKeepsOwn
<1>5. ASSUME NEW n \in Node, NEW b \in Business, Process(n, b) PROVE OwnInv'
  <2>1. UNCHANGED <<status, batch, ready, queue>>
    BY <1>5 DEF Process, db, sched
  <2> QED BY <2>1, HeldStands, ShrinkKeepsOwn
<1>6. ASSUME NEW n \in Node, NEW b \in Business, UpdatePushStatus(n, b) PROVE OwnInv'
  <2> DEFINE c == Head(queue[n][b])
  <2>1. /\ UNCHANGED batch
        /\ \/ status' = [status EXCEPT ![c.event] = FinalStatus(result[n][b])]
           \/ status' = status
    BY <1>6 DEF UpdatePushStatus, sched
  <2>2. c \in Held(n) /\ Held(n)' = Held(n) \ {c} /\ \A m \in Node : m # n => Held(m)' = Held(m)
    BY <1>6, UpdateHeld
  <2> HIDE DEF c
  <2>3. CASE status' = status
    BY <2>1, <2>2, <2>3, ShrinkKeepsOwn
  <2>4. CASE status' = [status EXCEPT ![c.event] = FinalStatus(result[n][b])]
    BY <2>1, <2>2, <2>4, FinishKeepsOwn
  <2> QED BY <2>1, <2>3, <2>4
<1>7. ASSUME NEW n \in Node, Crash(n) PROVE OwnInv'
  <2>1. UNCHANGED status /\ batch' = [batch EXCEPT ![n] = {}]
    BY <1>7 DEF Crash
  <2>2. \A m \in Node : batch'[m] \subseteq batch[m]
    BY <2>1 DEF ClaimInv, TypeInv, TypeOK
  <2>3. \A m \in Node : Held(m)' \subseteq Held(m)
    BY <1>7, CrashHeld
  <2> QED BY <2>1, <2>2, <2>3, ShrinkKeepsOwn
<1> QED BY <1>1, <1>2, <1>3, <1>4, <1>5, <1>6, <1>7, FetchKeepsOwn, LockKeepsOwn DEF Next

\* The node that works on an event is determined by what the nodes hold.
LEMMA HolderMeans ==
  ASSUME Exclusive, InPartition, NEW e \in Event
  PROVE  /\ \A n \in Node : Holder(e) = n <=> e \in HeldEvents(n)
         /\ Holder(e) = None <=> \A n \in Node : e \notin HeldEvents(n)
<1>1. \A n \in Node : n # None
  BY DEF Exclusive
<1>2. \A n, m \in Node : e \in HeldEvents(n) /\ e \in HeldEvents(m) => n = m
  BY HeldMeans, OnePartition DEF InPartition
<1> QED BY <1>1, <1>2 DEF Holder

LEMMA HolderMeansNext ==
  ASSUME Exclusive, InPartition', NEW e \in Event
  PROVE  /\ \A n \in Node : Holder(e)' = n <=> e \in HeldEvents(n)'
         /\ Holder(e)' = None <=> \A n \in Node : e \notin HeldEvents(n)'
<1>1. \A n \in Node : n # None
  BY DEF Exclusive
<1>2. ASSUME NEW n \in Node, NEW m \in Node, e \in HeldEvents(n)', e \in HeldEvents(m)' PROVE n = m
  <2>1. (\E c \in Held(n)' : c.event = e) /\ (\E c \in Held(m)' : c.event = e)
    BY <1>2, HeldMeans
  <2>2. e \in Partition(n) /\ e \in Partition(m)
    BY <2>1 DEF InPartition, Partition
  <2> QED BY <2>2, OnePartition
<1> QED BY <1>1, <1>2 DEF Holder

\* The abstract state, and what its steps come to.
Holders == [e \in Event |-> Holder(e)]

LEMMA AbstractSteps ==
  /\ \A e \in Event, n \in Node :
       /\ Holders[e] = None /\ status[e] \in {"Pending", "Failed"}
       /\ status' = [status EXCEPT ![e] = "Processing"]
       /\ Holders' = [Holders EXCEPT ![e] = n]
       => Lifecycle!Next
  /\ \A e \in Event, s \in {"Success", "Failed"} :
       /\ Holders[e] # None /\ status[e] = "Processing"
       /\ status' = [status EXCEPT ![e] = s]
       /\ Holders' = [Holders EXCEPT ![e] = None]
       => Lifecycle!Next
  /\ \A E \in SUBSET Event :
       /\ \E n \in Node : \A e \in E : Holders[e] = n /\ status[e] = "Processing"
       /\ Holders' = [e \in Event |-> IF e \in E THEN None ELSE Holders[e]]
       /\ UNCHANGED status
       => Lifecycle!Next
  /\ UNCHANGED <<status, Holders>> => UNCHANGED Lifecycle!vars
BY DEF Holders, Lifecycle!Next, Lifecycle!Claim, Lifecycle!Finish, Lifecycle!Abandon,
       Lifecycle!vars

\* Steps after which the nodes hold what they held.
LEMMA HoldersStand ==
  ASSUME Exclusive, OwnInv, OwnInv', UNCHANGED status, \A n \in Node : Held(n)' = Held(n)
  PROVE  UNCHANGED Lifecycle!vars
<1>1. ASSUME NEW e \in Event PROVE Holder(e)' = Holder(e)
  <2>1. \A n \in Node : e \in HeldEvents(n)' <=> e \in HeldEvents(n)
    BY HeldMeans
  <2>2. CASE \E n \in Node : e \in HeldEvents(n)
    BY <2>1, <2>2, HolderMeans, HolderMeansNext DEF OwnInv
  <2>3. CASE ~ \E n \in Node : e \in HeldEvents(n)
    BY <2>1, <2>3, HolderMeans, HolderMeansNext DEF OwnInv
  <2> QED BY <2>2, <2>3
<1>2. Holders' = Holders
  BY <1>1 DEF Holders
<1> QED BY <1>2, AbstractSteps

\* A claim let go is the only one of its event: the event is held no more, and no other
\* event changes hands.
LEMMA ReleaseHolders ==
  ASSUME Exclusive, ClaimInv, OwnInv, OwnInv', NEW n \in Node, NEW c \in Held(n),
         Held(n)' = Held(n) \ {c}, \A m \in Node : m # n => Held(m)' = Held(m)
  PROVE  /\ c.event \in Event /\ Holders[c.event] = n /\ status[c.event] = "Processing"
         /\ Holders' = [Holders EXCEPT ![c.event] = None]
<1>1. c.event \in Event /\ status[c.event] = "Processing" /\ c.event \in HeldEvents(n)
  BY HeldTypes, HeldMeans DEF OwnInv, HeldIsLocked
<1>2. Holder(c.event) = n
  BY <1>1, HolderMeans DEF OwnInv
<1>3. Holder(c.event)' = None
  <2>1. ASSUME NEW m \in Node, c.event \in HeldEvents(m)' PROVE FALSE
    <3>1. PICK d \in Held(m)' : d.event = c.event
      BY <2>1, HeldMeans
    <3>2. d \in Held(m)
      BY <3>1
    <3>3. c.event \in HeldEvents(m)
      BY <3>1, <3>2, HeldMeans
    <3>4. m = n
      BY <1>1, <1>2, <3>3, HolderMeans DEF OwnInv
    <3> QED BY <3>1, <3>2, <3>4 DEF OwnInv, OneClaim
  <2> QED BY <1>1, <2>1, HolderMeansNext DEF OwnInv
<1>4. ASSUME NEW e \in Event, e # c.event PROVE Holder(e)' = Holder(e)
  <2>1. ASSUME NEW m \in Node PROVE e \in HeldEvents(m)' <=> e \in HeldEvents(m)
    <3>1. CASE m = n
      BY <1>4, <3>1, HeldMeans
    <3>2. CASE m # n
      BY <3>2, HeldMeans
    <3> QED BY <3>1, <3>2
  <2>2. CASE \E m \in Node : e \in HeldEvents(m)
    BY <2>1, <2>2, HolderMeans, HolderMeansNext DEF OwnInv
  <2>3. CASE ~ \E m \in Node : e \in HeldEvents(m)
    BY <2>1, <2>3, HolderMeans, HolderMeansNext DEF OwnInv
  <2> QED BY <2>2, <2>3
<1> QED BY <1>1, <1>2, <1>3, <1>4 DEF Holders

\* A claim dropped by PushToQueue, or whose final UPDATE failed.
LEMMA ReleaseIsAbandon ==
  ASSUME Exclusive, ClaimInv, OwnInv, OwnInv', NEW n \in Node, NEW c \in Held(n),
         Held(n)' = Held(n) \ {c}, \A m \in Node : m # n => Held(m)' = Held(m), UNCHANGED status
  PROVE  Lifecycle!Next
<1>1. /\ c.event \in Event /\ Holders[c.event] = n /\ status[c.event] = "Processing"
      /\ Holders' = [Holders EXCEPT ![c.event] = None]
  BY ReleaseHolders
<1> DEFINE E == {c.event}
<1>2. E \in SUBSET Event /\ \A e \in E : Holders[e] = n /\ status[e] = "Processing"
  BY <1>1
<1>3. Holders' = [e \in Event |-> IF e \in E THEN None ELSE Holders[e]]
  BY <1>1 DEF Holders
<1> HIDE DEF E
<1> QED BY <1>2, <1>3, AbstractSteps

\* The final UPDATE finishes the event; if it fails the event is abandoned.
LEMMA UpdateRefines ==
  ASSUME Exclusive, ClaimInv, OwnInv, OwnInv', NEW n \in Node, NEW b \in Business,
         UpdatePushStatus(n, b)
  PROVE  Lifecycle!Next
<1> DEFINE c == Head(queue[n][b])
           s == FinalStatus(result[n][b])
<1>1. status' = [status EXCEPT ![c.event] = s] \/ status' = status
  BY DEF UpdatePushStatus
<1>2. c \in Held(n) /\ Held(n)' = Held(n) \ {c} /\ \A m \in Node : m # n => Held(m)' = Held(m)
  BY UpdateHeld
<1>3. s \in {"Success", "Failed"}
  BY DEF FinalStatus
<1> HIDE DEF c, s
<1>4. CASE status' = status
  BY <1>2, <1>4, ReleaseIsAbandon
<1>5. CASE status' = [status EXCEPT ![c.event] = s]
  <2>1. /\ c.event \in Event /\ Holders[c.event] = n /\ status[c.event] = "Processing"
        /\ Holders' = [Holders EXCEPT ![c.event] = None]
    BY <1>2, ReleaseHolders
  <2>2. n # None
    BY DEF Exclusive
  <2> QED BY <1>3, <1>5, <2>1, <2>2, AbstractSteps
<1> QED BY <1>1, <1>4, <1>5

\* The lock of PushStatusFilter claims the event.
LEMMA LockRefines ==
  ASSUME Exclusive, ClaimInv, OwnInv, OwnInv', NEW n \in Node, Lock(n)
  PROVE  Lifecycle!Next
<1>1. PICK r \in batch[n], c \in Claim :
        /\ Claimable(r.status) /\ r.event \in Event /\ c.event = r.event
        /\ status' = [status EXCEPT ![r.event] = "Processing"]
        /\ Held(n)' = Held(n) \cup {c}
        /\ \A m \in Node : m # n => Held(m)' = Held(m)
  BY LockHeld DEF Exclusive
<1>2. /\ status[r.event] \in {"Pending", "Failed"}
      /\ \A m \in Node : \A d \in Held(m) : d.event # r.event
  BY <1>1, ClaimableIsFree DEF Claimable
<1>3. Holder(r.event) = None
  <2>1. \A m \in Node : r.event \notin HeldEvents(m)
    BY <1>2, HeldMeans
  <2> QED BY <1>1, <2>1, HolderMeans DEF OwnInv
<1>4. Holder(r.event)' = n
  <2>1. r.event \in HeldEvents(n)'
    BY <1>1, HeldMeans
  <2> QED BY <1>1, <2>1, HolderMeansNext DEF OwnInv
<1>5. ASSUME NEW e \in Event, e # r.event PROVE Holder(e)' = Holder(e)
  <2>1. ASSUME NEW m \in Node PROVE e \in HeldEvents(m)' <=> e \in HeldEvents(m)
    <3>1. CASE m = n
      BY <1>1, <1>5, <3>1, HeldMeans
    <3>2. CASE m # n
      BY <1>1, <3>2, HeldMeans
    <3> QED BY <3>1, <3>2
  <2>2. CASE \E m \in Node : e \in HeldEvents(m)
    BY <2>1, <2>2, HolderMeans, HolderMeansNext DEF OwnInv
  <2>3. CASE ~ \E m \in Node : e \in HeldEvents(m)
    BY <2>1, <2>3, HolderMeans, HolderMeansNext DEF OwnInv
  <2> QED BY <2>2, <2>3
<1>6. Holders[r.event] = None /\ Holders' = [Holders EXCEPT ![r.event] = n]
  BY <1>1, <1>3, <1>4, <1>5 DEF Holders
<1> QED BY <1>1, <1>2, <1>6, AbstractSteps

\* A crash abandons everything the node holds.
LEMMA CrashRefines ==
  ASSUME Exclusive, ClaimInv, OwnInv, OwnInv', NEW n \in Node, Crash(n)
  PROVE  Lifecycle!Next
<1> DEFINE E == HeldEvents(n)
<1>1. UNCHANGED status /\ Held(n)' = {} /\ \A m \in Node : m # n => Held(m)' = Held(m)
  BY CrashHeld DEF Crash
<1>2. E \in SUBSET Event /\ \A e \in E : Holders[e] = n /\ status[e] = "Processing"
  <2>1. ASSUME NEW e \in E PROVE e \in Event /\ status[e] = "Processing"
    BY HeldMeans, HeldTypes DEF OwnInv, HeldIsLocked
  <2>2. \A e \in E : Holder(e) = n
    BY <2>1, HolderMeans DEF OwnInv
  <2> QED BY <2>1, <2>2 DEF Holders
<1>3. ASSUME NEW e \in Event PROVE Holder(e)' = IF e \in E THEN None ELSE Holder(e)
  <2>1. e \notin HeldEvents(n)' /\ \A m \in Node : m # n => (e \in HeldEvents(m)' <=> e \in HeldEvents(m))
    BY <1>1, HeldMeans
  <2>2. CASE e \in HeldEvents(n)
    <3>1. \A m \in Node : m # n => e \notin HeldEvents(m)
      BY <2>2, HolderMeans DEF OwnInv
    <3> QED BY <2>1, <2>2, <3>1, HolderMeansNext DEF OwnInv
  <2>3. CASE e \notin HeldEvents(n) /\ \E m \in Node : e \in HeldEvents(m)
    BY <2>1, <2>3, HolderMeans, HolderMeansNext DEF OwnInv
  <2>4. CASE \A m \in Node : e \notin HeldEvents(m)
    BY <2>1, <2>4, HolderMeans, HolderMeansNext DEF OwnInv
  <2> QED BY <2>2, <2>3, <2>4
<1>4. Holders' = [e \in Event |-> IF e \in E THEN None ELSE Holders[e]]
  BY <1>3 DEF Holders
<1> HIDE DEF E
<1> QED BY <1>1, <1>2, <1>4, AbstractSteps

\* Every step of the pipeline is a step of PushLifecycle, or changes nothing it knows of.
LEMMA NextRefines ==
  Exclusive /\ ClaimInv /\ OwnInv /\ OwnInv' /\ [Next]_vars => [Lifecycle!Next]_(Lifecycle!vars)
<1> SUFFICES ASSUME Exclusive, ClaimInv, OwnInv, OwnInv', [Next]_vars
             PROVE  Lifecycle!Next \/ UNCHANGED Lifecycle!vars
  OBVIOUS
<1>1. CASE Tick \/ UNCHANGED vars
  <2>1. UNCHANGED <<status, ready, queue>>
    BY <1>1 DEF Tick, vars, db, sched, procs
  <2> QED BY <2>1, HeldStands, HoldersStand
<1>2. ASSUME NEW n \in Node,
             \/ ChangeView(n) \/ GetNodePos(n) \/ FetchPushEvents(n)
             \/ FilterPushEvents(n) \/ SkipLocked(n)
      PROVE  UNCHANGED Lifecycle!vars
  <2>1. UNCHANGED <<status, ready, queue>>
    BY <1>2 DEF ChangeView, GetNodePos, FetchPushEvents, FilterPushEvents, SkipLocked,
                db, sched, procs
  <2> QED BY <2>1, HeldStands, HoldersStand
<1>3. ASSUME NEW n \in Node, PushToQueue(n) PROVE Lifecycle!Next \/ UNCHANGED Lifecycle!vars
  <2>1. UNCHANGED status
    BY <1>3 DEF PushToQueue, db
  <2>2. CASE \A m \in Node : Held(m)' = Held(m)
    BY <2>1, <2>2, HoldersStand
  <2>3. ASSUME NEW c \in Held(n), Held(n)' = Held(n) \ {c},
               \A m \in Node : m # n => Held(m)' = Held(m)
        PROVE  Lifecycle!Next
    BY <2>1, <2>3, ReleaseIsAbandon
  <2> QED BY <1>3, <2>2, <2>3, PushToQueueHeld
<1>4. ASSUME NEW n \in Node, NEW b \in Business, Process(n, b) PROVE UNCHANGED Lifecycle!vars
  <2>1. UNCHANGED <<status, ready, queue>>
    BY <1>4 DEF Process, db, sched
  <2> QED BY <2>1, HeldStands, HoldersStand
<1> QED BY <1>1, <1>2, <1>3, <1>4, LockRefines, UpdateRefines, CrashRefines DEF Next

\* If partitions never overlap and no lock fails, the scheduler's rounds and the processors
\* implement PushLifecycle: one node at a time works on an event, from a lock on a free row
\* to a final status, whatever crashes and whichever final UPDATE fails.
THEOREM PipelineImplementsLifecycle ==
  ASSUME ExclusiveViews, "lock" \notin SqlFaults, None \notin Node
  PROVE  Spec => ImplementsLifecycle
<1>1. Exclusive
  BY DEF Exclusive
<1>2. Init => ViewsGiven /\ OwnInv /\ Lifecycle!Init
  <2> SUFFICES ASSUME Init PROVE ViewsGiven /\ OwnInv /\ Lifecycle!Init
    OBVIOUS
  <2>1. ViewsGiven
    BY DEF Init, ViewsGiven, NoView
  <2>2. \A n \in Node : Held(n) = {}
    BY DEF Init, Held, Range
  <2>3. OwnInv
    BY <2>2 DEF Init, OwnInv, InPartition, OneClaim, HeldIsLocked, SnapshotIsFresh
  <2>4. \A e \in Event : Holder(e) = None
    BY <2>2 DEF Holder, HeldEvents
  <2> QED BY <2>1, <2>3, <2>4 DEF Init, Lifecycle!Init
<1>3. ClaimInv /\ ViewsGiven /\ OwnInv /\ [Next]_vars => ViewsGiven' /\ OwnInv'
  BY <1>1, NextViewsGiven, NextOwnInv DEF ClaimInv
<1>4. ClaimInv /\ OwnInv /\ OwnInv' /\ [Next]_vars => [Lifecycle!Next]_(Lifecycle!vars)
  BY <1>1, NextRefines
<1> QED BY <1>2, <1>3, <1>4, Claims, PTL DEF Spec, ImplementsLifecycle, Lifecycle!Spec

\* So does a cluster that does not change: every node counts the same number of nodes, or
\* knows none yet, and no two have the same position.
THEOREM StableClusterImplementsLifecycle ==
  ASSUME NEW count \in Nat \ {0}, NEW place \in [Node -> Int],
         \A n, m \in Node : place[n] = place[m] => n = m,
         \A n \in Node : Views[n] \subseteq {NoView, [pos |-> place[n], cnt |-> count]},
         "lock" \notin SqlFaults, None \notin Node
  PROVE  Spec => ImplementsLifecycle
<1>1. ASSUME NEW n \in Node, NEW v \in Views[n], NEW w \in Views[n], v.pos >= 0, w.cnt > 0
      PROVE  v.pos = place[n] /\ w.cnt = count
  <2>1. v = [pos |-> place[n], cnt |-> count] \/ v.pos = -1
    BY DEF NoView
  <2>2. w = [pos |-> place[n], cnt |-> count] \/ w.cnt = 0
    BY DEF NoView
  <2> QED BY <1>1, <2>1, <2>2
<1>2. ExclusiveViews
  BY <1>1 DEF ExclusiveViews, Selects
<1> QED BY <1>2, PipelineImplementsLifecycle
=============================================================================
