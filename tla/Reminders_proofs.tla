-------------------------- MODULE Reminders_proofs --------------------------
(***************************************************************************)
(* Proofs about Reminders, in three parts with an invariant each:          *)
(*   - FeedbackInv: what a user has been told about a business is what the *)
(*     table of feedback holds, however the statements of the requests     *)
(*     interleave and fail;                                                *)
(*   - RoundInv: what the scheduler and the processor hold was wanted and  *)
(*     is of the right day;                                                *)
(*   - TrainInv: what the tables of the time tables hold is of one edition *)
(*     of each train, and a query tells it as it is.                       *)
(***************************************************************************)
EXTENDS Reminders, FiniteSetTheorems, SequenceTheorems, WellFoundedInduction, TLAPS

-----------------------------------------------------------------------------
(***************************************************************************)
(* The inductive invariant                                                 *)
(***************************************************************************)
RequestRecord ==
  [pc : {"new", "select", "write", "success", "error"}, left : Seq(KnownItem),
   found : BOOLEAN, body : Seq(KnownItem), alone : SUBSET Business]

FeedbackTyped ==
  /\ feedback \in [Business -> {"none", "on", "off"}]
  /\ request \in [Request -> RequestRecord]
  /\ said \in [Business -> {"unknown", "on", "off"}]

\* How many of its items a request has written.
Done(q) == Len(q.body) - Len(q.left)

\* What is left of a request is the end of its body.
LeftIsEnd ==
  \A r \in Request : InFlight(r) =>
    /\ Len(request[r].left) \in 1..Len(request[r].body)
    /\ \A i \in 1..Len(request[r].left) :
         request[r].left[i] = request[r].body[Done(request[r]) + i]

\* A business a request has to itself is in its body and in no other's.
AloneIsAlone ==
  \A r \in Request : InFlight(r) =>
    /\ request[r].alone \subseteq Names(request[r].body)
    /\ \A q \in Request \ {r} : InFlight(q) => request[r].alone \cap Names(request[q].body) = {}

\* Of a business it has to itself, the last item a request has written is stored.
LastWritten(q, i) ==
  \A j \in (i + 1)..Done(q) : q.body[j].business # q.body[i].business

WrittenIsStored ==
  \A r \in Request : InFlight(r) =>
    \A i \in 1..Done(request[r]) :
      request[r].body[i].business \in request[r].alone /\ LastWritten(request[r], i) =>
        feedback[request[r].body[i].business] = request[r].body[i].status

\* Nothing is said of a business while a request for it is under way.
NothingSaid ==
  \A r \in Request : InFlight(r) => \A b \in Names(request[r].body) : said[b] = "unknown"

FeedbackInv ==
  /\ FeedbackTyped /\ LeftIsEnd /\ AloneIsAlone /\ WrittenIsStored /\ NothingSaid
  /\ SaidIsStored

-----------------------------------------------------------------------------
(***************************************************************************)
(* The last item of a body that names a business                           *)
(***************************************************************************)
\* There is one, and it is what Asked takes.
LEMMA AskedIsLast ==
  ASSUME NEW body \in Seq(KnownItem), NEW b \in Names(body)
  PROVE  \E i \in 1..Len(body) :
           /\ body[i].business = b /\ Asked(body, b) = body[i].status
           /\ \A j \in (i + 1)..Len(body) : body[j].business # b
<1> DEFINE R == OpToRel(<, Nat)
           T == {n \in Nat : \E i \in 1..Len(body) : n = Len(body) - i /\ body[i].business = b}
           IsLast(i) == /\ body[i].business = b
                        /\ \A k \in DOMAIN body : body[k].business = b => k <= i
<1>1. DOMAIN body = 1..Len(body) /\ Len(body) \in Nat
  OBVIOUS
<1>2. T # {}
  <2>1. PICK i \in 1..Len(body) : body[i].business = b
    BY <1>1 DEF Names
  <2>2. Len(body) - i \in Nat
    BY <1>1, <2>1
  <2> QED  BY <2>1, <2>2
<1>3. PICK n \in T : \A m \in T : ~ (<<m, n>> \in R)
  <2> T \subseteq Nat
    OBVIOUS
  <2> HIDE DEF T, R
  <2>1. IsWellFoundedOn(R, Nat)
    BY NatLessThanWellFounded DEF R
  <2> QED  BY <1>2, <2>1, WFMin
<1>4. PICK i \in 1..Len(body) : n = Len(body) - i /\ body[i].business = b
  BY <1>3
<1>5. \A m \in T : ~ (m < n)
  BY <1>3 DEF OpToRel
<1>6. IsLast(i)
  <2> SUFFICES ASSUME NEW k \in 1..Len(body), body[k].business = b PROVE k <= i
    BY <1>1, <1>4
  <2>1. Len(body) - k \in T
    <3>1. Len(body) - k \in Nat
      <4> HIDE DEF T, R
      <4> QED  BY <1>1
    <3> QED  BY <3>1
  <2> HIDE DEF T
  <2> QED  BY <1>1, <1>4, <1>5, <2>1
<1>7. \A k \in DOMAIN body : IsLast(k) => k = i
  BY <1>1, <1>4, <1>6
<1>8. Asked(body, b) = body[i].status
  <2>1. Asked(body, b) = body[CHOOSE j \in DOMAIN body : IsLast(j)].status
    BY DEF Asked
  <2> HIDE DEF IsLast
  <2>2. (CHOOSE j \in DOMAIN body : IsLast(j)) = i
    BY <1>1, <1>6, <1>7
  <2> QED  BY <2>1, <2>2
<1>9. \A j \in (i + 1)..Len(body) : body[j].business # b
  <2> HIDE DEF T, R
  <2> QED  BY <1>1, <1>4, <1>6
<1> QED  BY <1>4, <1>8, <1>9

-----------------------------------------------------------------------------
(***************************************************************************)
(* The steps                                                               *)
(***************************************************************************)
LEMMA FeedbackStarts ==
  ASSUME Init PROVE FeedbackInv
<1>1. /\ feedback = [b \in Business |-> IF b \in scene.feedbackRows THEN "on" ELSE "none"]
      /\ request = [r \in Request |-> NoRequest]
      /\ said = [b \in Business |-> "unknown"]
  BY DEF Init, FeedbackInit
<1>2. NoRequest \in RequestRecord /\ NoRequest.pc = "new"
  BY DEF NoRequest, RequestRecord
<1>3. FeedbackTyped
  BY <1>1, <1>2 DEF FeedbackTyped
<1>4. \A r \in Request : ~ InFlight(r)
  BY <1>1, <1>2 DEF InFlight
<1>5. SaidIsStored
  BY <1>1 DEF SaidIsStored
<1> QED  BY <1>3, <1>4, <1>5 DEF FeedbackInv, LeftIsEnd, AloneIsAlone, WrittenIsStored, NothingSaid

LEMMA FeedbackStands ==
  ASSUME FeedbackInv, UNCHANGED feedbackVars PROVE FeedbackInv'
<1>1. feedback' = feedback /\ request' = request /\ said' = said
  BY DEF feedbackVars
<1>2. \A r : InFlight(r)' = InFlight(r)
  BY <1>1 DEF InFlight
<1>3. FeedbackTyped' /\ SaidIsStored'
  BY <1>1 DEF FeedbackInv, FeedbackTyped, SaidIsStored
<1>4. LeftIsEnd' /\ AloneIsAlone' /\ WrittenIsStored' /\ NothingSaid'
  BY <1>1, <1>2 DEF FeedbackInv, LeftIsEnd, AloneIsAlone, WrittenIsStored, NothingSaid
<1> QED  BY <1>3, <1>4 DEF FeedbackInv

\* A request comes in: it has to itself what no request under way names, and takes from
\* these what it names.
LEMMA BeginKeeps ==
  ASSUME FeedbackInv, NEW r \in Request, NEW body \in Body, BeginRequest(r, body)
  PROVE  FeedbackInv'
<1> DEFINE items == Known(body)
           free == Names(items) \ UNION {Names(request[o].body) : o \in {q \in Request : InFlight(q)}}
           new == [pc |-> IF items = <<>> THEN "success" ELSE "select", left |-> items,
                   found |-> FALSE, body |-> items, alone |-> free]
<1>1. items \in Seq(KnownItem) /\ Names(items) \subseteq Business
  <2>1. items \in Seq(KnownItem)
    BY FeedbackConstantsOK
  <2> HIDE DEF items
  <2>2. \A i \in DOMAIN items : items[i] \in KnownItem
    BY <2>1
  <2> QED  BY <2>1, <2>2 DEF Names, KnownItem
<1>2. /\ request[r].pc = "new"
      /\ request' = [q \in Request |-> IF q = r THEN new
                                       ELSE [request[q] EXCEPT !.alone = @ \ Names(items)]]
      /\ said' = [b \in Business |-> IF b \in Names(items) THEN "unknown" ELSE said[b]]
      /\ feedback' = feedback
  BY DEF BeginRequest
<1> HIDE DEF items
<1>3. FeedbackTyped
  BY DEF FeedbackInv
<1>4. new \in RequestRecord
  BY <1>1 DEF RequestRecord
<1>5. /\ request'[r] = new
      /\ \A q \in Request \ {r} :
           /\ request'[q] \in RequestRecord
           /\ request'[q].pc = request[q].pc /\ request'[q].left = request[q].left
           /\ request'[q].body = request[q].body
           /\ request'[q].alone = request[q].alone \ Names(items)
  <2>1. request'[r] = new
    BY <1>2
  <2>2. ASSUME NEW q \in Request \ {r}
        PROVE  /\ request'[q] \in RequestRecord
               /\ request'[q].pc = request[q].pc /\ request'[q].left = request[q].left
               /\ request'[q].body = request[q].body
               /\ request'[q].alone = request[q].alone \ Names(items)
    <3>1. request[q] \in RequestRecord
      BY <1>3 DEF FeedbackTyped
    <3>2. request'[q] = [request[q] EXCEPT !.alone = request[q].alone \ Names(items)]
      BY <1>2
    <3> QED  BY <3>1, <3>2 DEF RequestRecord
  <2> QED  BY <2>1, <2>2
<1>6. FeedbackTyped'
  <2>1. request' \in [Request -> RequestRecord]
    BY <1>2, <1>4, <1>5
  <2> QED  BY <1>2, <1>3, <2>1 DEF FeedbackTyped
<1>7. \A q \in Request \ {r} : InFlight(q)' = InFlight(q)
  BY <1>5 DEF InFlight
<1>8. InFlight(r)' => Len(items) \in 1..Len(items)
  BY <1>1, <1>5 DEF InFlight
<1> HIDE DEF new
<1>9. /\ new.left = items /\ new.body = items /\ new.alone = free
  BY DEF new
<1>10. LeftIsEnd'
  <2>1. ASSUME NEW q \in Request, InFlight(q)'
        PROVE  /\ Len(request'[q].left) \in 1..Len(request'[q].body)
               /\ \A i \in 1..Len(request'[q].left) :
                    request'[q].left[i] = request'[q].body[Done(request'[q]) + i]
    <3>1. CASE q = r
      <4>1. Done(request'[q]) = 0
        BY <1>1, <1>5, <1>9, <3>1 DEF Done
      <4> QED  BY <1>1, <1>5, <1>8, <1>9, <2>1, <3>1, <4>1
    <3>2. CASE q # r
      <4>1. Done(request'[q]) = Done(request[q])
        BY <1>5, <3>2 DEF Done
      <4> QED  BY <1>5, <1>7, <2>1, <3>2, <4>1 DEF FeedbackInv, LeftIsEnd
    <3> QED  BY <3>1, <3>2
  <2> QED  BY <2>1 DEF LeftIsEnd
<1>11. AloneIsAlone'
  <2>1. ASSUME NEW q \in Request, InFlight(q)'
        PROVE  /\ request'[q].alone \subseteq Names(request'[q].body)
               /\ \A p \in Request \ {q} :
                    InFlight(p)' => request'[q].alone \cap Names(request'[p].body) = {}
    <3>1. CASE q = r
      BY <1>5, <1>7, <1>9, <3>1
    <3>2. CASE q # r
      BY <1>5, <1>7, <1>9, <2>1, <3>2 DEF FeedbackInv, AloneIsAlone
    <3> QED  BY <3>1, <3>2
  <2> QED  BY <2>1 DEF AloneIsAlone
<1>12. WrittenIsStored'
  <2>1. ASSUME NEW q \in Request, InFlight(q)', NEW i \in 1..Done(request'[q]),
               request'[q].body[i].business \in request'[q].alone, LastWritten(request'[q], i)
        PROVE  feedback'[request'[q].body[i].business] = request'[q].body[i].status
    <3>1. q # r
      <4>1. q = r => Done(request'[q]) = 0
        BY <1>1, <1>5, <1>9 DEF Done
      <4> QED  BY <4>1
    <3>2. Done(request'[q]) = Done(request[q])
      BY <1>5, <3>1 DEF Done
    <3>3. LastWritten(request[q], i)
      BY <1>5, <2>1, <3>1, <3>2 DEF LastWritten
    <3>4. /\ InFlight(q) /\ request'[q].body = request[q].body
          /\ i \in 1..Done(request[q]) /\ request[q].body[i].business \in request[q].alone
      <4>1. /\ request'[q].body = request[q].body
            /\ request'[q].alone = request[q].alone \ Names(items)
        BY <1>5, <3>1
      <4>2. InFlight(q)
        BY <1>7, <2>1, <3>1
      <4> QED  BY <2>1, <3>2, <4>1, <4>2
    <3>5. feedback[request[q].body[i].business] = request[q].body[i].status
      BY <3>3, <3>4 DEF FeedbackInv, WrittenIsStored
    <3> QED  BY <1>2, <3>4, <3>5
  <2> QED  BY <2>1 DEF WrittenIsStored
<1>13. NothingSaid'
  <2>1. ASSUME NEW q \in Request, InFlight(q)', NEW b \in Names(request'[q].body)
        PROVE  said'[b] = "unknown"
    <3>1. CASE q = r
      BY <1>1, <1>2, <1>5, <1>9, <3>1
    <3>2. CASE q # r
      <4>1. b \in Business
        <5>1. request[q].body \in Seq(KnownItem) /\ b \in Names(request[q].body)
          BY <1>3, <1>5, <3>2 DEF FeedbackTyped, RequestRecord
        <5>2. \A i \in DOMAIN request[q].body : request[q].body[i] \in KnownItem
          BY <5>1
        <5> QED  BY <5>1, <5>2 DEF Names, KnownItem
      <4> QED  BY <1>2, <1>5, <1>7, <2>1, <3>2, <4>1 DEF FeedbackInv, NothingSaid
    <3> QED  BY <3>1, <3>2
  <2> QED  BY <2>1 DEF NothingSaid
<1>14. SaidIsStored'
  BY <1>2 DEF FeedbackInv, SaidIsStored
<1> QED  BY <1>6, <1>10, <1>11, <1>12, <1>13, <1>14 DEF FeedbackInv

\* A request ends with an error: what it has written stays, and nothing is said of it.
LEMMA FailureKeeps ==
  ASSUME FeedbackInv, NEW r \in Request, RequestFails(r), UNCHANGED <<feedback, said>>
  PROVE  FeedbackInv'
<1>1. FeedbackTyped
  BY DEF FeedbackInv
<1>2. /\ [NoRequest EXCEPT !.pc = "error"] \in RequestRecord
      /\ [NoRequest EXCEPT !.pc = "error"].pc = "error"
  <2>1. NoRequest \in RequestRecord
    BY DEF NoRequest, RequestRecord
  <2> QED  BY <2>1 DEF RequestRecord
<1>3. /\ request'[r] \in RequestRecord /\ request'[r].pc = "error"
      /\ \A q \in Request \ {r} : request'[q] = request[q]
      /\ request' \in [Request -> RequestRecord]
  BY <1>1, <1>2 DEF FeedbackTyped, RequestFails
<1>4. ~ InFlight(r)' /\ \A q \in Request \ {r} : InFlight(q)' = InFlight(q)
  BY <1>3 DEF InFlight
<1>5. FeedbackTyped' /\ SaidIsStored'
  BY <1>1, <1>3 DEF FeedbackInv, FeedbackTyped, SaidIsStored
<1>6. \A q \in Request : InFlight(q)' => InFlight(q) /\ q # r /\ request'[q] = request[q]
  BY <1>3, <1>4
<1>7. LeftIsEnd'
  BY <1>6 DEF FeedbackInv, LeftIsEnd
<1>8. AloneIsAlone'
  BY <1>6 DEF FeedbackInv, AloneIsAlone
<1>9. WrittenIsStored'
  BY <1>6 DEF FeedbackInv, WrittenIsStored
<1>10. NothingSaid'
  BY <1>6 DEF FeedbackInv, NothingSaid
<1> QED  BY <1>5, <1>7, <1>8, <1>9, <1>10 DEF FeedbackInv

LEMMA SelectKeeps ==
  ASSUME FeedbackInv, NEW r \in Request, SelectFeedback(r) PROVE FeedbackInv'
<1>1. CASE RequestFails(r)
  BY <1>1, FailureKeeps DEF SelectFeedback
<1>2. CASE request' = [request EXCEPT ![r].pc = "write",
                         ![r].found = feedback[Head(request[r].left).business] # "none"]
  <2>1. FeedbackTyped /\ InFlight(r) /\ UNCHANGED <<feedback, said>>
    BY DEF FeedbackInv, SelectFeedback, InFlight
  <2> DEFINE found == feedback[Head(request[r].left).business] # "none"
             new == [[request[r] EXCEPT !.pc = "write"] EXCEPT !.found = found]
  <2>2. request[r] \in RequestRecord /\ found \in BOOLEAN
    BY <2>1 DEF FeedbackTyped
  <2>3. request' = [request EXCEPT ![r] = new]
    BY <1>2, <2>1 DEF FeedbackTyped
  <2> HIDE DEF found
  <2>4. /\ new \in RequestRecord /\ new.pc = "write" /\ new.left = request[r].left
        /\ new.body = request[r].body /\ new.alone = request[r].alone
    BY <2>2 DEF RequestRecord
  <2> HIDE DEF new
  <2>5. \A q \in Request :
          /\ InFlight(q)' = InFlight(q) /\ request'[q].left = request[q].left
          /\ request'[q].body = request[q].body /\ request'[q].alone = request[q].alone
    BY <2>1, <2>3, <2>4 DEF FeedbackTyped, InFlight
  <2>6. FeedbackTyped' /\ SaidIsStored'
    BY <2>1, <2>3, <2>4 DEF FeedbackInv, FeedbackTyped, SaidIsStored
  <2>7. \A q \in Request : /\ Done(request'[q]) = Done(request[q])
                           /\ \A i : LastWritten(request'[q], i) = LastWritten(request[q], i)
    BY <2>5 DEF Done, LastWritten
  <2>8. LeftIsEnd'
    BY <2>5, <2>7 DEF FeedbackInv, LeftIsEnd
  <2>9. AloneIsAlone'
    BY <2>5 DEF FeedbackInv, AloneIsAlone
  <2>10. WrittenIsStored'
    BY <2>1, <2>5, <2>7 DEF FeedbackInv, WrittenIsStored
  <2>11. NothingSaid'
    BY <2>1, <2>5 DEF FeedbackInv, NothingSaid
  <2> QED  BY <2>6, <2>8, <2>9, <2>10, <2>11 DEF FeedbackInv
<1> QED  BY <1>1, <1>2 DEF SelectFeedback

\* What a statement writes: the first of what is left, one after what is done.
LEMMA NextItem ==
  ASSUME FeedbackInv, NEW r \in Request, InFlight(r)
  PROVE  LET q == request[r]
             item == Head(q.left)
         IN  /\ q \in RequestRecord
             /\ item \in KnownItem /\ item.business \in Names(q.body)
             /\ said[item.business] = "unknown"
             /\ Done(q) \in Nat /\ Done(q) + 1 \in 1..Len(q.body)
             /\ item = q.body[Done(q) + 1]
             /\ \A p \in Request \ {r} : InFlight(p) => item.business \notin request[p].alone
<1> DEFINE q == request[r]
           item == Head(q.left)
<1>1. q \in RequestRecord
  BY DEF FeedbackInv, FeedbackTyped
<1>2. q.left \in Seq(KnownItem) /\ q.body \in Seq(KnownItem)
  BY <1>1 DEF RequestRecord
<1>3. /\ Len(q.left) \in 1..Len(q.body)
      /\ \A i \in 1..Len(q.left) : q.left[i] = q.body[Done(q) + i]
  BY DEF FeedbackInv, LeftIsEnd
<1>4. \A p \in Request \ {r} : InFlight(p) => request[p].alone \cap Names(q.body) = {}
  BY DEF FeedbackInv, AloneIsAlone
<1>5. \A b \in Names(q.body) : said[b] = "unknown"
  BY DEF FeedbackInv, NothingSaid
<1> HIDE DEF q
<1>6. /\ item = q.left[1] /\ item \in KnownItem
  BY <1>2, <1>3
<1>7. Done(q) \in Nat /\ Done(q) + 1 \in 1..Len(q.body)
  <2>1. Len(q.left) \in Nat /\ Len(q.body) \in Nat
    BY <1>2
  <2>2. Len(q.left) \in 1..Len(q.body)
    BY <1>3
  <2>3. Done(q) = Len(q.body) - Len(q.left)
    BY DEF Done
  <2>4. \A a, b \in Nat : a \in 1..b => b - a \in Nat /\ (b - a) + 1 \in 1..b
    OBVIOUS
  <2> QED  BY <2>1, <2>2, <2>3, <2>4
<1>8. item = q.body[Done(q) + 1]
  BY <1>2, <1>3, <1>6
<1> HIDE DEF item
<1>9. item.business \in Names(q.body)
  <2>1. Done(q) + 1 \in DOMAIN q.body
    BY <1>2, <1>7
  <2> QED  BY <1>8, <2>1 DEF Names
<1>10. said[item.business] = "unknown"
  BY <1>5, <1>9
<1>11. \A p \in Request \ {r} : InFlight(p) => item.business \notin request[p].alone
  BY <1>4, <1>9
<1> QED  BY <1>1, <1>6, <1>7, <1>8, <1>9, <1>10, <1>11 DEF q, item

\* An item is written and others are left.
LEMMA WriteOneKeeps ==
  ASSUME FeedbackInv, NEW r \in Request, InFlight(r),
         Tail(request[r].left) # <<>>,
         feedback' = [feedback EXCEPT ![Head(request[r].left).business] = Head(request[r].left).status],
         request' = [request EXCEPT ![r].pc = "select", ![r].left = Tail(request[r].left)],
         said' = said
  PROVE  FeedbackInv'
<1> DEFINE q == request[r]
           item == Head(q.left)
           c == item.business
           new == [[q EXCEPT !.pc = "select"] EXCEPT !.left = Tail(q.left)]
<1>1. FeedbackTyped
  BY DEF FeedbackInv
<1>2. /\ q \in RequestRecord
      /\ item \in KnownItem /\ c \in Names(q.body) /\ said[c] = "unknown"
      /\ Done(q) \in Nat /\ Done(q) + 1 \in 1..Len(q.body)
      /\ item = q.body[Done(q) + 1]
      /\ \A p \in Request \ {r} : InFlight(p) => c \notin request[p].alone
  BY NextItem
<1>3. q.left \in Seq(KnownItem) /\ q.body \in Seq(KnownItem) /\ q.alone \subseteq Business
  BY <1>2 DEF RequestRecord
<1>4. /\ Len(q.left) \in 1..Len(q.body)
      /\ \A i \in 1..Len(q.left) : q.left[i] = q.body[Done(q) + i]
  BY DEF FeedbackInv, LeftIsEnd
<1>5. request' = [request EXCEPT ![r] = new]
  BY <1>1 DEF FeedbackTyped
<1>6. Tail(q.left) \in Seq(KnownItem) /\ Len(Tail(q.left)) = Len(q.left) - 1
      /\ \A i \in 1..(Len(q.left) - 1) : Tail(q.left)[i] = q.left[i + 1]
  <2> HIDE DEF q
  <2> QED  BY <1>3, <1>4
<1>7. Len(q.left) > 1
  <2> HIDE DEF q, item
  <2>1. q.left # <<>> /\ Tail(q.left) # <<>>
    BY <1>3, <1>4 DEF q
  <2> QED  BY <1>3, <1>4, <1>6, <2>1
<1>8. /\ new \in RequestRecord /\ new.pc = "select" /\ new.left = Tail(q.left)
      /\ new.body = q.body /\ new.alone = q.alone
  BY <1>2, <1>6 DEF RequestRecord
<1>9. feedback' = [feedback EXCEPT ![c] = item.status]
  OBVIOUS
<1>10. /\ request'[r] = new /\ InFlight(r)'
       /\ \A p \in Request \ {r} : request'[p] = request[p] /\ InFlight(p)' = InFlight(p)
       /\ request' \in [Request -> RequestRecord]
  BY <1>1, <1>5, <1>8 DEF FeedbackTyped, InFlight
<1>11. c \in Business /\ item.status \in {"on", "off"}
  BY <1>2 DEF KnownItem
<1> HIDE DEF q, item, c, new
<1>12. /\ feedback'[c] = item.status
       /\ \A b \in Business \ {c} : feedback'[b] = feedback[b]
       /\ feedback' \in [Business -> {"none", "on", "off"}]
  BY <1>1, <1>9, <1>11 DEF FeedbackTyped
<1>13. Done(request'[r]) = Done(q) + 1
  <2>1. Len(q.left) \in Nat /\ Len(q.body) \in Nat
    BY <1>3
  <2>2. Done(request'[r]) = Len(q.body) - (Len(q.left) - 1)
    BY <1>6, <1>8, <1>10 DEF Done
  <2>3. Done(q) = Len(q.body) - Len(q.left)
    BY DEF Done
  <2>4. \A a, b \in Nat : b - (a - 1) = (b - a) + 1
    OBVIOUS
  <2> QED  BY <2>1, <2>2, <2>3, <2>4
<1>14. FeedbackTyped'
  BY <1>1, <1>10, <1>12 DEF FeedbackTyped
<1>15. LeftIsEnd'
  <2>1. /\ Len(new.left) \in 1..Len(new.body)
        /\ \A i \in 1..Len(new.left) : new.left[i] = new.body[Done(new) + i]
    <3>1. Len(new.left) \in 1..Len(new.body)
      BY <1>3, <1>4, <1>6, <1>7, <1>8
    <3>2. ASSUME NEW i \in 1..Len(new.left) PROVE new.left[i] = new.body[Done(new) + i]
      <4>1. i \in Int /\ i \in 1..(Len(q.left) - 1) /\ i + 1 \in 1..Len(q.left)
        BY <1>3, <1>4, <1>6, <1>8
      <4>2. new.left[i] = q.body[Done(q) + (i + 1)]
        BY <1>4, <1>6, <1>8, <4>1
      <4>3. Done(q) + (i + 1) = Done(new) + i
        BY <1>2, <1>10, <1>13, <4>1
      <4> QED  BY <1>8, <4>2, <4>3
    <3> QED  BY <3>1, <3>2
  <2>2. \A p \in Request \ {r} : Done(request'[p]) = Done(request[p])
    BY <1>10
  <2>3. ASSUME NEW p \in Request, InFlight(p)'
        PROVE  /\ Len(request'[p].left) \in 1..Len(request'[p].body)
               /\ \A i \in 1..Len(request'[p].left) :
                    request'[p].left[i] = request'[p].body[Done(request'[p]) + i]
    <3>1. CASE p = r
      BY <1>10, <2>1, <3>1
    <3>2. CASE p # r
      BY <1>10, <2>2, <2>3, <3>2 DEF FeedbackInv, LeftIsEnd
    <3> QED  BY <3>1, <3>2
  <2> QED  BY <2>3 DEF LeftIsEnd
<1>16. AloneIsAlone'
  BY <1>8, <1>10 DEF FeedbackInv, AloneIsAlone, q
<1>17. WrittenIsStored'
  <2>1. ASSUME NEW p \in Request, InFlight(p)', NEW i \in 1..Done(request'[p]),
               request'[p].body[i].business \in request'[p].alone, LastWritten(request'[p], i)
        PROVE  feedback'[request'[p].body[i].business] = request'[p].body[i].status
    <3>1. CASE p = r /\ i = Done(q) + 1
      BY <1>2, <1>8, <1>10, <1>12, <3>1 DEF c
    <3>2. CASE p = r /\ i # Done(q) + 1
      <4>1. i \in 1..Done(q) /\ Done(q) + 1 \in (i + 1)..Done(request'[r])
        BY <1>2, <1>13, <3>2
      <4>2. q.body[Done(q) + 1].business # q.body[i].business
        BY <1>8, <1>10, <2>1, <3>2, <4>1 DEF LastWritten
      <4>3. LastWritten(q, i)
        <5>1. (i + 1)..Done(q) \subseteq (i + 1)..Done(request'[r])
          BY <1>2, <1>13, <4>1
        <5> QED  BY <1>8, <1>10, <2>1, <3>2, <5>1 DEF LastWritten
      <4>4. q.body[i].business \in q.alone
        BY <1>8, <1>10, <2>1, <3>2
      <4>5. feedback[q.body[i].business] = q.body[i].status
        BY <4>1, <4>3, <4>4 DEF FeedbackInv, WrittenIsStored, q
      <4>6. q.body[i].business \in Business \ {c}
        BY <1>2, <1>3, <4>2, <4>4 DEF c
      <4> QED  BY <1>8, <1>10, <1>12, <3>2, <4>5, <4>6
    <3>3. CASE p # r
      <4>1. feedback[request[p].body[i].business] = request[p].body[i].status
        BY <1>10, <2>1, <3>3 DEF FeedbackInv, WrittenIsStored
      <4>2. request[p].body[i].business \in Business \ {c}
        BY <1>1, <1>2, <1>10, <2>1, <3>3 DEF FeedbackTyped, RequestRecord
      <4> QED  BY <1>10, <1>12, <3>3, <4>1, <4>2
    <3> QED  BY <3>1, <3>2, <3>3
  <2> QED  BY <2>1 DEF WrittenIsStored
<1>18. NothingSaid'
  BY <1>8, <1>10 DEF FeedbackInv, NothingSaid, q
<1>19. SaidIsStored'
  BY <1>2, <1>12 DEF FeedbackInv, SaidIsStored
<1> QED  BY <1>14, <1>15, <1>16, <1>17, <1>18, <1>19 DEF FeedbackInv

\* The last item is written and the request answered: what is said then of the businesses
\* it has to itself is what it has stored, item by item.
LEMMA WriteLastKeeps ==
  ASSUME FeedbackInv, NEW r \in Request, InFlight(r),
         Tail(request[r].left) = <<>>,
         feedback' = [feedback EXCEPT ![Head(request[r].left).business] = Head(request[r].left).status],
         request' = [request EXCEPT ![r] = [NoRequest EXCEPT !.pc = "success"]],
         said' = [b \in Business |->
                    IF b \in request[r].alone THEN Asked(request[r].body, b) ELSE said[b]]
  PROVE  FeedbackInv'
<1> DEFINE q == request[r]
           item == Head(q.left)
           c == item.business
           new == [NoRequest EXCEPT !.pc = "success"]
<1>1. FeedbackTyped
  BY DEF FeedbackInv
<1>2. /\ q \in RequestRecord
      /\ item \in KnownItem /\ c \in Names(q.body) /\ said[c] = "unknown"
      /\ Done(q) \in Nat /\ Done(q) + 1 \in 1..Len(q.body)
      /\ item = q.body[Done(q) + 1]
      /\ \A p \in Request \ {r} : InFlight(p) => c \notin request[p].alone
  BY NextItem
<1>3. q.left \in Seq(KnownItem) /\ q.body \in Seq(KnownItem) /\ q.alone \subseteq Business
  BY <1>2 DEF RequestRecord
<1>4. Len(q.left) \in 1..Len(q.body)
  BY DEF FeedbackInv, LeftIsEnd
<1>5. Len(q.body) = Done(q) + 1
  <2> HIDE DEF q
  <2>1. Len(q.left) = 1
    <3>1. q.left # <<>>
      BY <1>3, <1>4
    <3>2. Len(Tail(q.left)) = Len(q.left) - 1 /\ Len(q.left) \in Nat
      BY <1>3, <3>1
    <3>3. Len(Tail(q.left)) = 0
      <4>1. Tail(q.left) = <<>>
        BY DEF q
      <4>2. Len(<<>>) = 0
        OBVIOUS
      <4> QED  BY <4>1, <4>2
    <3>4. \A n \in Nat : n - 1 = 0 => n = 1
      OBVIOUS
    <3> QED  BY <3>2, <3>3, <3>4
  <2>2. Done(q) = Len(q.body) - 1 /\ Len(q.body) \in Nat
    BY <1>3, <2>1 DEF Done
  <2>3. \A n \in Nat : (n - 1) + 1 = n
    OBVIOUS
  <2> QED  BY <2>2, <2>3
<1>6. /\ q.alone \subseteq Names(q.body)
      /\ \A p \in Request \ {r} : InFlight(p) => q.alone \cap Names(request[p].body) = {}
  BY DEF FeedbackInv, AloneIsAlone
<1>7. \A i \in 1..Done(q) : q.body[i].business \in q.alone /\ LastWritten(q, i) =>
                              feedback[q.body[i].business] = q.body[i].status
  BY DEF FeedbackInv, WrittenIsStored
<1>8. new \in RequestRecord /\ new.pc = "success"
  <2>1. NoRequest \in RequestRecord
    BY DEF NoRequest, RequestRecord
  <2> QED  BY <2>1 DEF RequestRecord
<1>9. /\ feedback' = [feedback EXCEPT ![c] = item.status]
      /\ said' = [b \in Business |-> IF b \in q.alone THEN Asked(q.body, b) ELSE said[b]]
  OBVIOUS
<1>10. /\ ~ InFlight(r)'
       /\ \A p \in Request \ {r} : request'[p] = request[p] /\ InFlight(p)' = InFlight(p)
       /\ request' \in [Request -> RequestRecord]
  BY <1>1, <1>8 DEF FeedbackTyped, InFlight
<1>11. c \in Business /\ item.status \in {"on", "off"}
  BY <1>2 DEF KnownItem
<1> HIDE DEF q, item, c, new
<1>12. /\ feedback'[c] = item.status
       /\ \A b \in Business \ {c} : feedback'[b] = feedback[b]
       /\ feedback' \in [Business -> {"none", "on", "off"}]
  BY <1>1, <1>9, <1>11 DEF FeedbackTyped
<1>13. ASSUME NEW b \in q.alone
       PROVE  Asked(q.body, b) \in {"on", "off"} /\ feedback'[b] = Asked(q.body, b)
  <2>1. b \in Names(q.body)
    BY <1>6
  <2>2. PICK i \in 1..Len(q.body) :
          /\ q.body[i].business = b /\ Asked(q.body, b) = q.body[i].status
          /\ \A j \in (i + 1)..Len(q.body) : q.body[j].business # b
    BY <1>3, <2>1, AskedIsLast
  <2>3. q.body[i] \in KnownItem
    BY <1>3
  <2>4. CASE i = Done(q) + 1
    BY <1>2, <1>12, <2>2, <2>3, <2>4 DEF c, KnownItem
  <2>5. CASE i # Done(q) + 1
    <3>1. i \in 1..Done(q) /\ Done(q) + 1 \in (i + 1)..Len(q.body)
      BY <1>2, <1>5, <2>5
    <3>2. b # c
      BY <1>2, <2>2, <3>1 DEF c
    <3>3. LastWritten(q, i)
      <4>1. (i + 1)..Done(q) \subseteq (i + 1)..Len(q.body)
        BY <1>2, <1>5, <3>1
      <4> QED  BY <2>2, <4>1 DEF LastWritten
    <3>4. feedback[b] = q.body[i].status
      BY <1>7, <2>2, <3>1, <3>3
    <3> QED  BY <1>3, <1>12, <2>2, <2>3, <3>2, <3>4 DEF KnownItem
  <2> QED  BY <2>4, <2>5
<1>14. said' \in [Business -> {"unknown", "on", "off"}]
  BY <1>1, <1>9, <1>13 DEF FeedbackTyped
<1>15. FeedbackTyped'
  BY <1>10, <1>12, <1>14 DEF FeedbackTyped
<1>16. SaidIsStored'
  <2>1. ASSUME NEW b \in Business, said'[b] # "unknown" PROVE feedback'[b] = said'[b]
    <3>1. CASE b \in q.alone
      BY <1>9, <1>13, <3>1
    <3>2. CASE b \notin q.alone
      <4>1. said'[b] = said[b]
        BY <1>9, <3>2
      <4>2. b # c
        BY <1>2, <2>1, <4>1
      <4> QED  BY <1>12, <2>1, <4>1, <4>2 DEF FeedbackInv, SaidIsStored
    <3> QED  BY <3>1, <3>2
  <2> QED  BY <2>1 DEF SaidIsStored
<1>17. \A p \in Request : InFlight(p)' =>
         InFlight(p) /\ p \in Request \ {r} /\ request'[p] = request[p]
  BY <1>10
<1>18. LeftIsEnd'
  BY <1>17 DEF FeedbackInv, LeftIsEnd
<1>19. AloneIsAlone'
  BY <1>17 DEF FeedbackInv, AloneIsAlone
<1>20. WrittenIsStored'
  <2>1. ASSUME NEW p \in Request, InFlight(p)', NEW i \in 1..Done(request'[p]),
               request'[p].body[i].business \in request'[p].alone, LastWritten(request'[p], i)
        PROVE  feedback'[request'[p].body[i].business] = request'[p].body[i].status
    <3>1. feedback[request[p].body[i].business] = request[p].body[i].status
      BY <1>17, <2>1 DEF FeedbackInv, WrittenIsStored
    <3>2. request[p].body[i].business \in Business \ {c}
      BY <1>1, <1>2, <1>17, <2>1 DEF FeedbackTyped, RequestRecord
    <3> QED  BY <1>12, <1>17, <2>1, <3>1, <3>2
  <2> QED  BY <2>1 DEF WrittenIsStored
<1>21. NothingSaid'
  <2>1. ASSUME NEW p \in Request, InFlight(p)', NEW b \in Names(request'[p].body)
        PROVE  said'[b] = "unknown"
    <3>1. b \in Names(request[p].body) /\ said[b] = "unknown" /\ b \notin q.alone
      BY <1>6, <1>17, <2>1 DEF FeedbackInv, NothingSaid
    <3>2. b \in Business
      <4>1. request[p].body \in Seq(KnownItem)
        BY <1>1, <1>17, <2>1 DEF FeedbackTyped, RequestRecord
      <4>2. \A i \in DOMAIN request[p].body : request[p].body[i] \in KnownItem
        BY <4>1
      <4> QED  BY <3>1, <4>2 DEF Names, KnownItem
    <3> QED  BY <1>9, <3>1, <3>2
  <2> QED  BY <2>1 DEF NothingSaid
<1> QED  BY <1>15, <1>16, <1>18, <1>19, <1>20, <1>21 DEF FeedbackInv

LEMMA WriteKeeps ==
  ASSUME FeedbackInv, NEW r \in Request, WriteFeedback(r) PROVE FeedbackInv'
<1>1. InFlight(r)
  BY DEF WriteFeedback, InFlight
<1>2. CASE RequestFails(r) /\ UNCHANGED <<feedback, said>>
  BY <1>2, FailureKeeps
<1>3. CASE ~ (RequestFails(r) /\ UNCHANGED <<feedback, said>>)
  <2>1. feedback' = [feedback EXCEPT ![Head(request[r].left).business] = Head(request[r].left).status]
    BY <1>3 DEF WriteFeedback, Written
  <2>2. CASE Tail(request[r].left) = <<>>
    BY <1>1, <1>3, <2>1, <2>2, WriteLastKeeps DEF WriteFeedback
  <2>3. CASE Tail(request[r].left) # <<>>
    BY <1>1, <1>3, <2>1, <2>3, WriteOneKeeps DEF WriteFeedback
  <2> QED  BY <2>2, <2>3
<1> QED  BY <1>2, <1>3

-----------------------------------------------------------------------------
(***************************************************************************)
(* The theorem                                                             *)
(***************************************************************************)
\* Scheduler, processor, train service and the world leave the feedback alone.
LEMMA OthersStand ==
  ASSUME \/ Tick \/ ChangeOrder \/ ChangeWatch \/ ChangeFlight \/ UpdatePushEvent
         \/ PushScheduler \/ PushProcessor \/ TrainService
  PROVE  UNCHANGED feedbackVars
<1> USE DEF services
<1>1. CASE Tick \/ ChangeOrder \/ ChangeWatch \/ ChangeFlight \/ UpdatePushEvent
  BY <1>1 DEF Tick, ChangeOrder, ChangeWatch, ChangeFlight, UpdatePushEvent
<1>2. CASE PushScheduler
  BY <1>2 DEF PushScheduler, FetchPushEvents, FetchDevices, FilterUserFeedback, LockPushEvents
<1>3. CASE PushProcessor
  BY <1>3 DEF PushProcessor, GetUserOrder, ProcessMovie, ProcessHotel, ProcessTrain, GetTimeTable,
              ProcessFlight, FetchWeather, SendPush, UpdatePushStatus
<1>4. CASE TrainService
  BY <1>4 DEF TrainService
<1> QED  BY <1>1, <1>2, <1>3, <1>4

LEMMA NextFeedback == FeedbackInv /\ [Next]_vars => FeedbackInv'
<1> SUFFICES ASSUME FeedbackInv, [Next]_vars PROVE FeedbackInv'
  OBVIOUS
<1>1. CASE FeedbackService
  BY <1>1, BeginKeeps, SelectKeeps, WriteKeeps DEF FeedbackService, FeedbackNext
<1>2. CASE UNCHANGED vars
  BY <1>2, FeedbackStands DEF vars
<1>3. CASE \/ Tick \/ ChangeOrder \/ ChangeWatch \/ ChangeFlight \/ UpdatePushEvent
           \/ PushScheduler \/ PushProcessor \/ TrainService
  BY <1>3, OthersStand, FeedbackStands
<1> QED  BY <1>1, <1>2, <1>3 DEF Next

\* What a user has been told about a business is what the table of feedback holds, for any
\* number of requests with any items (WriteFeedback, InsertUserFeedback in the code).
THEOREM FeedbackKept == Spec => []SaidIsStored
<1>1. FeedbackInv => SaidIsStored
  BY DEF FeedbackInv
<1> QED  BY <1>1, FeedbackStarts, NextFeedback, PTL DEF Spec
-----------------------------------------------------------------------------
(***************************************************************************)
(* The rows of a round                                                     *)
(*                                                                         *)
(* What a row carries from the SELECT to the watch: when it was due, which *)
(* watch the look-up found, what the user had been told, and that it was   *)
(* in time when it was filtered (RoundInv).  Together with FeedbackInv     *)
(* this is inductive; PushIsWanted and DayIsRight follow from it.          *)
(***************************************************************************)
Statuses == {"pending", "processing", "success", "failed"}
WatchRow == [abroad : BOOLEAN, version : Seq(Int)]
OrderRow == [time : Int, parses : BOOLEAN, phone : BOOLEAN]
Messages == {"nothing", "tomorrow", "time", "gate", "delay", "arrival", "date", "seats"}

RowRecord ==
  [type : scene.types, time : Int, status : Statuses, made : DOMAIN scene.orders,
   watch : WatchRow, worn : WatchRow, filtered : Int, told : {"unknown", "on", "off"}]

WorkerRecord ==
  [pc : {"ask", "wait", "weather", "send", "sent", "disabled", "failed"}, row : RowRecord,
   read : DOMAIN scene.orders, flight : Nat, message : Messages, sent : Int]

RoundTyped ==
  /\ scene \in Scenes /\ clock \in scene.moments
  /\ order \in DOMAIN scene.orders /\ watch \in DOMAIN scene.watches
  /\ flight \in DOMAIN scene.flights
  /\ pushTime \in [scene.types -> Int]
  /\ status \in [scene.types -> Statuses \cup {"none"}]
  /\ made \in [scene.types -> Nat]
  /\ pc \in {"asleep", "lookup", "feedback", "lock"}
  /\ batch \in Seq(RowRecord) /\ queue \in Seq(RowRecord)
  /\ worker = Idle \/ worker \in WorkerRecord
  /\ faults \in Nat

\* The filter is at a row of the round, and begins with the first.
AtRow ==
  /\ at \in Nat \ {0}
  /\ pc \in {"asleep", "lookup"} => at = 1
  /\ pc = "feedback" => at <= Len(batch)

\* An event is due when its booking says so, in the version it was made from.
Scheduled ==
  \A e \in scene.types :
    /\ status[e] # "none" => made[e] # 0
    /\ made[e] # 0 => /\ made[e] \in DOMAIN scene.orders
                      /\ pushTime[e] = EventTime(scene.kind, e, Booking(made[e]))

RowSound(r) ==
  /\ made[r.type] # 0
  /\ r.time = EventTime(scene.kind, r.type, Booking(r.made))
  /\ r.told # "off"
  /\ r.watch \in {NoWatch, r.worn}

RowInTime(r) == r.filtered <= clock /\ IsValidPushTime(r.time, r.filtered)

RowReady(r) == RowSound(r) /\ RowInTime(r) /\ ~ r.watch.abroad

\* Only trains and flights speak of tomorrow or of a time, each in its events.
MessageFits(r, message) ==
  /\ message = "tomorrow" => r.type = "LastDay" /\ scene.kind \in {"flight", "train"}
  /\ message = "time" => r.type \in {"Today", "3Hour", "1Hour"} /\ scene.kind \in {"flight", "train"}

\* Only trains wait for a time table, and only flights for the weather.
StageFits(stage) ==
  /\ stage = "wait" => scene.kind = "train"
  /\ stage = "weather" => scene.kind = "flight"

BatchSound ==
  \A i \in DOMAIN batch : RowSound(batch[i]) /\ (pc \in {"feedback", "lock"} => RowInTime(batch[i]))

QueueReady == \A i \in DOMAIN queue : RowReady(queue[i])

WorkerReady ==
  worker # Idle =>
    /\ RowReady(worker.row) /\ MessageFits(worker.row, worker.message) /\ StageFits(worker.pc)
    /\ worker.pc = "sent" => worker.row.filtered <= worker.sent /\ worker.sent <= clock

RoundInv ==
  /\ RoundTyped /\ AtRow /\ Scheduled /\ BatchSound /\ QueueReady /\ WorkerReady

-----------------------------------------------------------------------------
(***************************************************************************)
(* The rows that stay                                                      *)
(***************************************************************************)
\* A set of numbers that is not empty has a least one.
LEMMA Least ==
  ASSUME NEW T, T \subseteq Nat, T # {}
  PROVE  \E n \in T : \A m \in T : n <= m
<1>1. IsWellFoundedOn(OpToRel(<, Nat), Nat)
  BY NatLessThanWellFounded
<1>2. PICK n \in T : \A m \in T : ~ (<<m, n>> \in OpToRel(<, Nat))
  BY <1>1, WFMin
<1>3. \A m \in T : ~ (m < n)
  BY <1>2 DEF OpToRel
<1> QED BY <1>3

\* g does what the loop of Kept does, up to row n.
KeptUpto(rs, keep, g, n) ==
  g = [i \in 0..n |->
         IF i = 0 THEN <<>> ELSE IF i \in keep THEN Append(g[i - 1], rs[i]) ELSE g[i - 1]]

LEMMA KeptExists ==
  ASSUME NEW rs, NEW keep
  PROVE  \A n \in Nat : \E g : KeptUpto(rs, keep, g, n)
<1> DEFINE T == {n \in Nat : ~ \E g : KeptUpto(rs, keep, g, n)}
<1> SUFFICES ASSUME T # {} PROVE FALSE
  OBVIOUS
<1>1. T \subseteq Nat
  OBVIOUS
<1>2. PICK n \in T : \A m \in T : n <= m
  <2> HIDE DEF T
  <2> QED BY <1>1, Least
<1>3. n # 0
  <2>1. KeptUpto(rs, keep, [i \in 0..0 |-> <<>>], 0)
    BY DEF KeptUpto
  <2> QED BY <2>1
<1>4. n \in Nat /\ n - 1 \in Nat /\ n - 1 \notin T
  <2> HIDE DEF T
  <2> QED BY <1>1, <1>2, <1>3
<1>5. PICK g : KeptUpto(rs, keep, g, n - 1)
  BY <1>4
<1> HIDE DEF T
<1> DEFINE h == [i \in 0..n |-> IF i < n THEN g[i]
                                ELSE IF n \in keep THEN Append(g[n - 1], rs[n]) ELSE g[n - 1]]
<1>6. KeptUpto(rs, keep, h, n)
  <2>1. \A i \in 0..(n - 1) :
          g[i] = IF i = 0 THEN <<>> ELSE IF i \in keep THEN Append(g[i - 1], rs[i]) ELSE g[i - 1]
    BY <1>5 DEF KeptUpto
  <2>2. ASSUME NEW i \in 0..n
        PROVE  h[i] = IF i = 0 THEN <<>>
                      ELSE IF i \in keep THEN Append(h[i - 1], rs[i]) ELSE h[i - 1]
    <3>1. CASE i = n
      BY <1>3, <1>4, <3>1
    <3>2. CASE i < n
      <4>1. i \in 0..(n - 1) /\ h[i] = g[i] /\ (i # 0 => h[i - 1] = g[i - 1])
        BY <1>4, <3>2
      <4> QED BY <2>1, <4>1
    <3> QED BY <1>4, <3>1, <3>2
  <2>3. h = [i \in 0..n |-> h[i]]
    OBVIOUS
  <2> HIDE DEF h
  <2> QED BY <2>2, <2>3 DEF KeptUpto
<1> QED BY <1>6, <1>4 DEF T

\* What stays are rows that were there, each at a number to be kept.
LEMMA KeptRows ==
  ASSUME NEW S, NEW rs \in Seq(S), NEW keep
  PROVE  /\ Kept(rs, keep) \in Seq(S)
         /\ \A j \in DOMAIN Kept(rs, keep) :
              \E i \in DOMAIN rs : i \in keep /\ Kept(rs, keep)[j] = rs[i]
<1> DEFINE g == CHOOSE f : KeptUpto(rs, keep, f, Len(rs))
           Sound(s) == /\ s \in Seq(S)
                       /\ \A j \in DOMAIN s : \E i \in DOMAIN rs : i \in keep /\ s[j] = rs[i]
           T == {n \in Nat : n <= Len(rs) /\ ~ Sound(g[n])}
<1>1. Len(rs) \in Nat /\ DOMAIN rs = 1..Len(rs)
  OBVIOUS
<1>2. KeptUpto(rs, keep, g, Len(rs))
  BY <1>1, KeptExists
<1>3. Kept(rs, keep) = g[Len(rs)]
  BY DEF Kept, KeptUpto
<1> HIDE DEF g
<1>4. \A n \in 0..Len(rs) :
        g[n] = IF n = 0 THEN <<>> ELSE IF n \in keep THEN Append(g[n - 1], rs[n]) ELSE g[n - 1]
  BY <1>2 DEF KeptUpto
<1>5. Sound(g[0])
  <2>1. g[0] = <<>>
    BY <1>1, <1>4
  <2> QED BY <2>1
<1>6. ASSUME NEW n \in 1..Len(rs), Sound(g[n - 1]) PROVE Sound(g[n])
  <2>1. g[n] = IF n \in keep THEN Append(g[n - 1], rs[n]) ELSE g[n - 1]
    BY <1>1, <1>4
  <2>2. CASE n \notin keep
    BY <1>6, <2>1, <2>2
  <2>3. CASE n \in keep
    <3>1. rs[n] \in S /\ g[n - 1] \in Seq(S) /\ g[n] = Append(g[n - 1], rs[n])
      BY <1>1, <1>6, <2>1, <2>3
    <3>2. /\ g[n] \in Seq(S) /\ DOMAIN g[n] = 1..(Len(g[n - 1]) + 1)
          /\ g[n][Len(g[n - 1]) + 1] = rs[n]
          /\ \A j \in 1..Len(g[n - 1]) : g[n][j] = g[n - 1][j]
          /\ DOMAIN g[n - 1] = 1..Len(g[n - 1]) /\ Len(g[n - 1]) \in Nat
      BY <3>1
    <3>3. ASSUME NEW j \in DOMAIN g[n]
          PROVE  \E i \in DOMAIN rs : i \in keep /\ g[n][j] = rs[i]
      <4>1. j \in 1..Len(g[n - 1]) \/ j = Len(g[n - 1]) + 1
        BY <3>2
      <4> QED BY <1>1, <1>6, <2>3, <3>2, <4>1
    <3> QED BY <3>2, <3>3
  <2> QED BY <2>2, <2>3
<1>7. T = {}
  <2> SUFFICES ASSUME T # {} PROVE FALSE
    OBVIOUS
  <2>1. T \subseteq Nat
    OBVIOUS
  <2>2. PICK n \in T : \A m \in T : n <= m
    <3> HIDE DEF T
    <3> QED BY <2>1, Least
  <2>3. n \in 1..Len(rs) /\ ~ Sound(g[n])
    <3> HIDE DEF Sound
    <3>1. n \in Nat /\ n <= Len(rs) /\ ~ Sound(g[n])
      OBVIOUS
    <3> QED BY <1>1, <1>5, <3>1
  <2>4. n - 1 \notin T
    <3> HIDE DEF T
    <3> QED BY <2>1, <2>2
  <2>5. Sound(g[n - 1])
    <3> HIDE DEF Sound
    <3>1. n - 1 \in Nat /\ n - 1 <= Len(rs)
      BY <1>1, <2>3
    <3> QED BY <2>4, <3>1
  <2> HIDE DEF Sound
  <2> QED BY <1>6, <2>3, <2>5
<1>8. Sound(g[Len(rs)])
  <2> HIDE DEF Sound
  <2> QED BY <1>1, <1>7
<1> QED BY <1>3, <1>8
-----------------------------------------------------------------------------
(***************************************************************************)
(* What a round and a push processor are told                              *)
(***************************************************************************)
\* The scene is one of the scenes the constants describe.
LEMMA SceneOK ==
  ASSUME scene \in Scenes
  PROVE  /\ scene.kind \in {"flight", "train", "movie", "hotel"}
         /\ scene.types \subseteq EventTypes(scene.kind) /\ scene.types \subseteq EventType
         /\ scene.orders \in Seq(OrderRow) /\ Len(scene.orders) \in Nat \ {0}
         /\ scene.watches \in Seq(WatchRow) /\ Len(scene.watches) \in Nat \ {0}
         /\ Len(scene.flights) \in Nat \ {0} /\ DOMAIN scene.flights = 1..Len(scene.flights)
         /\ scene.moments \subseteq Int /\ \E first \in scene.moments : \A t \in scene.moments : first <= t
         /\ scene.faults \in Nat
         /\ \A v \in DOMAIN scene.orders : Booking(v) \in Int
<1>1. scene.types \subseteq EventType
  BY RemindersConstantsOK DEF EventTypes, EventType
<1>2. scene.flights \in Seq(Range(scene.flights)) \ {<<>>}
  BY RemindersConstantsOK
<1>3. scene.orders \in Seq(OrderRow) \ {<<>>} /\ scene.watches \in Seq(WatchRow) \ {<<>>}
  BY RemindersConstantsOK DEF OrderRow, WatchRow
<1>4. \A v \in DOMAIN scene.orders : scene.orders[v] \in OrderRow
  BY <1>3
<1>5. \A v \in DOMAIN scene.orders : Booking(v) \in Int
  BY <1>4 DEF Booking, OrderRow
<1> QED BY <1>1, <1>2, <1>3, <1>5, RemindersConstantsOK

\* EventTime is a time.
LEMMA EventTimeIsTime ==
  ASSUME NEW kind, NEW e \in EventType, NEW t \in Int
  PROVE  EventTime(kind, e, t) \in Int
<1>1. EventTimeRelation(kind, e).seconds \in Int /\ EventTimeRelation(kind, e).hour \in Int
  BY DEF EventTimeRelation, EventType, Fixed, Relative, Day, Hour
<1> DEFINE s == EventTimeRelation(kind, e).seconds
           h == EventTimeRelation(kind, e).hour
<1>2. EventTime(kind, e, t) \in {t + s, MakePushTime(t + s, h)}
  BY DEF EventTime
<1> HIDE DEF s, h
<1>3. t + s \in Int /\ MakePushTime(t + s, h) \in Int
  BY <1>1 DEF s, h, MakePushTime, DayOf, Day, Hour
<1> QED BY <1>2, <1>3

\* What is known of a row stays so while time goes on.
LEMMA RowsStay ==
  ASSUME UNCHANGED <<scene, made>>
  PROVE  /\ RowRecord' = RowRecord /\ WorkerRecord' = WorkerRecord
         /\ \A r : RowSound(r)' = RowSound(r)
         /\ \A r, m : MessageFits(r, m)' = MessageFits(r, m)
         /\ \A stage : StageFits(stage)' = StageFits(stage)
         /\ \A r : clock' = clock => RowInTime(r)' = RowInTime(r) /\ RowReady(r)' = RowReady(r)
BY DEF RowRecord, WorkerRecord, RowSound, MessageFits, StageFits, RowInTime, RowReady, Booking

\* A business the filter is not told is switched off is not said to be so.
LEMMA OpenIsNotOff ==
  ASSUME FeedbackInv, ~ IsUserClosedPush(scene.kind, FeedbackAnswer)
  PROVE  Told \in {"unknown", "on"}
<1>1. ASSUME NEW b \in {"schedule", "movie"}, said[b] = "off",
             FeedbackBusiness(scene.kind) = b
      PROVE  FALSE
  <2>1. feedback[b] = "off" /\ b \in Business \cap Reported
    BY <1>1 DEF FeedbackInv, SaidIsStored, Business, Reported
  <2>2. b \in QueryUserFeedback
    BY <2>1 DEF QueryUserFeedback
  <2>3. /\ FeedbackAnswer.status = "success"
        /\ [business |-> b, status |-> "off"] \in FeedbackAnswer.data
    BY <2>1, <2>2 DEF FeedbackAnswer
  <2> QED BY <1>1, <2>3 DEF IsUserClosedPush
<1>2. \A b \in {"schedule", "movie"} : said[b] \in {"unknown", "on", "off"}
  BY DEF FeedbackInv, FeedbackTyped, Business
<1> QED BY <1>1, <1>2 DEF Told, FeedbackBusiness

\* Who speaks of tomorrow, and who of a time.
LEMMA MessagesFit ==
  ASSUME NEW e \in EventType, NEW f
  PROVE  /\ FlightMessage(e, f) \in Messages
         /\ FlightMessage(e, f) = "tomorrow" => e = "LastDay"
         /\ FlightMessage(e, f) = "time" => e \in {"Today", "3Hour"}
         /\ TrainMessage(e) \in Messages
         /\ TrainMessage(e) = "tomorrow" => e = "LastDay"
         /\ TrainMessage(e) = "time" => e \in {"Today", "3Hour", "1Hour"}
         /\ MovieMessage(e) \in Messages \ {"tomorrow", "time"}
         /\ HotelMessage(e) \in Messages \ {"tomorrow", "time"}
BY DEF EventType, Messages, Nothing, FlightMessage, TrainMessage, MovieMessage, HotelMessage,
       HandleLastDay, HandleToday, Handle3Hour, Handle1Hour, HandleTakeoff, HandleArrival

\* The order of a set of rows is a sequence of its members.
LEMMA OrdersAreSequences ==
  ASSUME NEW S, S \subseteq EventType, NEW s \in SetToSeqs(S)
  PROVE  s \in Seq(S) /\ Len(s) \in Nat
<1>1. IsFiniteSet(EventType)
  <2> DEFINE F(T) == IsFiniteSet(T)
  <2>1. IsFiniteSet({})
    BY FS_EmptySet
  <2>2. IsFiniteSet({} \cup {"LastDay"} \cup {"Today"} \cup {"3Hour"} \cup {"1Hour"}
                      \cup {"30Min"} \cup {"Takeoff"} \cup {"Arrive"})
    BY <2>1, FS_AddElement
  <2>3. EventType = {} \cup {"LastDay"} \cup {"Today"} \cup {"3Hour"} \cup {"1Hour"}
                      \cup {"30Min"} \cup {"Takeoff"} \cup {"Arrive"}
    BY DEF EventType
  <2> QED BY <2>2, <2>3
<1>2. Cardinality(S) \in Nat
  BY <1>1, FS_Subset, FS_CardinalityType
<1>3. s \in [1..Cardinality(S) -> S]
  BY DEF SetToSeqs
<1> QED BY <1>2, <1>3

-----------------------------------------------------------------------------
(***************************************************************************)
(* The steps of a round                                                    *)
(***************************************************************************)
LEMMA RoundStarts == Init => RoundInv
<1> SUFFICES ASSUME Init PROVE RoundInv
  OBVIOUS
<1>1. scene \in Scenes
  BY DEF Init
<1>2. clock \in scene.moments
  <2>1. clock = CHOOSE t \in scene.moments : \A u \in scene.moments : t <= u
    BY DEF Init
  <2> QED BY <1>1, <2>1, SceneOK
<1>3. /\ order = 1 /\ watch = 1 /\ flight = 1
      /\ pushTime = [e \in scene.types |-> 0] /\ status = [e \in scene.types |-> "none"]
      /\ made = [e \in scene.types |-> 0] /\ pc = "asleep" /\ batch = <<>> /\ at = 1
      /\ queue = <<>> /\ worker = Idle /\ faults = scene.faults
  BY DEF Init
<1>4. RoundTyped
  BY <1>1, <1>2, <1>3, SceneOK DEF RoundTyped
<1> QED BY <1>3, <1>4 DEF RoundInv, AtRow, Scheduled, BatchSound, QueueReady, WorkerReady

\* The world changes: time goes on, the order, the watch and the flight change.
LEMMA WorldKeeps ==
  ASSUME RoundInv, Tick \/ ChangeOrder \/ ChangeWatch \/ ChangeFlight
  PROVE  RoundInv'
<1>1. RoundTyped /\ scene \in Scenes
  BY DEF RoundInv, RoundTyped
<1>2. /\ scene' = scene
      /\ UNCHANGED <<pushTime, status, made, pc, batch, at, queue, worker, faults>>
  BY DEF Tick, ChangeOrder, ChangeWatch, ChangeFlight, rows, round
<1>3. clock' \in scene.moments /\ clock <= clock'
  BY <1>1, SceneOK DEF Tick, ChangeOrder, ChangeWatch, ChangeFlight, RoundTyped
<1>4. clock \in Int /\ clock' \in Int
  BY <1>1, <1>3, SceneOK DEF RoundTyped
<1>5. /\ order' \in DOMAIN scene.orders /\ watch' \in DOMAIN scene.watches
      /\ flight' \in DOMAIN scene.flights
  <2>1. /\ order \in DOMAIN scene.orders /\ watch \in DOMAIN scene.watches
        /\ flight \in DOMAIN scene.flights
    BY <1>1 DEF RoundTyped
  <2>2. /\ order' = order \/ (order < Len(scene.orders) /\ order' = order + 1)
        /\ watch' = watch \/ (watch < Len(scene.watches) /\ watch' = watch + 1)
        /\ flight' = flight \/ (flight < Len(scene.flights) /\ flight' = flight + 1)
    BY Zenon, <1>1 DEF Tick, ChangeOrder, ChangeWatch, ChangeFlight
  <2>3. /\ DOMAIN scene.orders = 1..Len(scene.orders) /\ Len(scene.orders) \in Nat
        /\ DOMAIN scene.watches = 1..Len(scene.watches) /\ Len(scene.watches) \in Nat
        /\ DOMAIN scene.flights = 1..Len(scene.flights) /\ Len(scene.flights) \in Nat
    BY <1>1, SceneOK DEF RoundTyped
  <2> QED BY ONLY <2>1, <2>2, <2>3
<1>6. RoundTyped'
  BY <1>1, <1>2, <1>3, <1>5, RowsStay DEF RoundTyped
<1>7. \A r \in RowRecord : (RowInTime(r) => RowInTime(r)') /\ (RowReady(r) => RowReady(r)')
  <2>1. \A r \in RowRecord : r.filtered \in Int
    BY DEF RowRecord
  <2>2. \A r \in RowRecord : RowInTime(r) => RowInTime(r)'
    BY <1>3, <1>4, <2>1 DEF RowInTime
  <2> QED BY <1>2, <2>2, RowsStay DEF RowReady
<1>8. /\ \A i \in DOMAIN batch : batch[i] \in RowRecord
      /\ \A i \in DOMAIN queue : queue[i] \in RowRecord
      /\ worker # Idle => worker.row \in RowRecord /\ worker.sent \in Int
  BY <1>1 DEF RoundTyped, WorkerRecord
<1>9. BatchSound' /\ QueueReady'
  BY <1>2, <1>7, <1>8, RowsStay DEF RoundInv, BatchSound, QueueReady
<1>10. WorkerReady'
  BY <1>2, <1>3, <1>4, <1>7, <1>8, RowsStay DEF RoundInv, WorkerReady
<1>11. AtRow' /\ Scheduled'
  BY <1>2 DEF RoundInv, AtRow, Scheduled, Booking
<1> QED BY <1>6, <1>9, <1>10, <1>11 DEF RoundInv

\* The updater writes the events anew.
LEMMA UpdateKeeps == ASSUME RoundInv, UpdatePushEvent PROVE RoundInv'
<1>1. RoundTyped /\ scene \in Scenes
  BY DEF RoundInv, RoundTyped
<1>2. /\ pushTime' = [e \in scene.types |-> EventTime(scene.kind, e, Booking(order))]
      /\ status' = [e \in scene.types |-> IF status[e] = "none" THEN "pending" ELSE status[e]]
      /\ made' = [e \in scene.types |-> order]
      /\ UNCHANGED <<scene, clock, order, watch, flight, pc, batch, at, queue, worker, faults>>
  BY DEF UpdatePushEvent, outside, round
<1>3. order \in DOMAIN scene.orders /\ order \in Nat /\ Booking(order) \in Int
  BY <1>1, SceneOK DEF RoundTyped
<1>4. pushTime' \in [scene.types -> Int]
  BY <1>1, <1>2, <1>3, SceneOK, EventTimeIsTime
<1>5. status' \in [scene.types -> Statuses \cup {"none"}]
  BY <1>1, <1>2 DEF RoundTyped, Statuses
<1>6. RoundTyped'
  <2>1. RowRecord' = RowRecord /\ WorkerRecord' = WorkerRecord
    BY <1>2 DEF RowRecord, WorkerRecord
  <2>2. made' \in [scene.types -> Nat]
    BY <1>2, <1>3
  <2> QED BY <1>1, <1>2, <1>4, <1>5, <2>1, <2>2 DEF RoundTyped
<1>7. Scheduled'
  <2>1. 0 \notin DOMAIN scene.orders
    BY <1>1, SceneOK
  <2> QED BY <1>2, <1>3, <2>1 DEF Scheduled, Booking
<1>8. ASSUME NEW r \in RowRecord
      PROVE  (RowSound(r) => RowSound(r)') /\ (RowReady(r) => RowReady(r)')
             /\ RowInTime(r)' = RowInTime(r)
             /\ \A m : MessageFits(r, m)' = MessageFits(r, m)
  <2>1. made'[r.type] # 0
    <3>1. r.type \in scene.types
      BY DEF RowRecord
    <3>2. 0 \notin DOMAIN scene.orders
      BY <1>1, SceneOK
    <3> QED BY <1>2, <1>3, <3>1, <3>2
  <2> QED BY <1>2, <2>1 DEF RowSound, RowReady, RowInTime, MessageFits, Booking
<1>9. /\ \A i \in DOMAIN batch : batch[i] \in RowRecord
      /\ \A i \in DOMAIN queue : queue[i] \in RowRecord
      /\ worker # Idle => worker.row \in RowRecord
      /\ \A stage : StageFits(stage)' = StageFits(stage)
  BY <1>1, <1>2 DEF RoundTyped, WorkerRecord, StageFits
<1>10. AtRow' /\ BatchSound' /\ QueueReady'
  BY <1>2, <1>8, <1>9 DEF RoundInv, AtRow, BatchSound, QueueReady
<1>11. WorkerReady'
  BY <1>2, <1>8, <1>9 DEF RoundInv, WorkerReady
<1> QED BY <1>6, <1>7, <1>10, <1>11 DEF RoundInv

\* A step of the scheduler that leaves the rows of the table to be read: what is left to
\* show is that the batch and the place in it are right.
LEMMA SchedulerFrame ==
  ASSUME RoundInv, UNCHANGED <<scene, clock, order, watch, flight, pushTime, made, worker>>,
         pc' \in {"asleep", "lookup", "feedback", "lock"}, batch' \in Seq(RowRecord),
         faults' \in Nat
  PROVE  /\ UNCHANGED <<status, queue>> => RoundTyped' /\ Scheduled' /\ QueueReady'
         /\ WorkerReady'
<1>1. RoundTyped
  BY DEF RoundInv
<1>2. UNCHANGED <<status, queue>> => RoundTyped'
  BY <1>1, RowsStay DEF RoundTyped
<1>3. UNCHANGED <<status, queue>> => Scheduled' /\ QueueReady'
  BY RowsStay DEF RoundInv, Scheduled, QueueReady, Booking
<1>4. WorkerReady'
  BY RowsStay DEF RoundInv, WorkerReady
<1> QED BY <1>2, <1>3, <1>4

LEMMA FetchKeeps == ASSUME RoundInv, FetchPushEvents PROVE RoundInv'
<1> DEFINE found == {e \in scene.types : status[e] # "none" /\ Selects(pushTime[e], clock)}
           row(e) == [type |-> e, time |-> pushTime[e], status |-> status[e], made |-> made[e],
                      watch |-> NoWatch, worn |-> NoWatch, filtered |-> 0, told |-> "unknown"]
<1>1. RoundTyped /\ scene \in Scenes /\ Scheduled /\ AtRow
  BY DEF RoundInv, RoundTyped
<1>2. PICK s \in SetToSeqs(found) : batch' = [i \in DOMAIN s |-> row(s[i])]
  BY DEF FetchPushEvents
<1>3. /\ UNCHANGED <<scene, clock, order, watch, flight, pushTime, made, worker>>
      /\ UNCHANGED <<status, queue, faults, at>> /\ pc = "asleep" /\ pc' = "lookup"
  BY DEF FetchPushEvents, outside, rows
<1>4. s \in Seq(found) /\ Len(s) \in Nat
  BY <1>1, OrdersAreSequences, SceneOK
<1>5. ASSUME NEW e \in found PROVE row(e) \in RowRecord /\ RowSound(row(e))
  <2>1. /\ e \in scene.types /\ pushTime[e] \in Int /\ status[e] \in Statuses
        /\ made[e] # 0 /\ made[e] \in DOMAIN scene.orders
        /\ pushTime[e] = EventTime(scene.kind, e, Booking(made[e]))
    BY <1>1 DEF RoundTyped, Scheduled
  <2>2. NoWatch \in WatchRow
    BY DEF NoWatch, NoVersion, WatchRow
  <2>3. row(e) \in RowRecord
    BY <2>1, <2>2 DEF RowRecord
  <2>4. RowSound(row(e))
    BY <2>1 DEF RowSound
  <2> QED BY <2>3, <2>4
<1> HIDE DEF found, row
<1>6. batch' \in Seq(RowRecord) /\ \A i \in DOMAIN batch' : RowSound(batch'[i])
  <2>1. \A i \in 1..Len(s) : s[i] \in found
    BY <1>4
  <2>2. batch' = [i \in 1..Len(s) |-> row(s[i])]
    BY <1>2, <1>4
  <2> QED BY <1>4, <1>5, <2>1, <2>2
<1>7. BatchSound' /\ AtRow'
  BY <1>1, <1>3, <1>6, RowsStay DEF BatchSound, AtRow
<1> QED BY <1>1, <1>3, <1>6, <1>7, SchedulerFrame DEF RoundInv, RoundTyped

LEMMA LookupKeeps == ASSUME RoundInv, FetchDevices PROVE RoundInv'
<1>1. RoundTyped /\ scene \in Scenes /\ AtRow /\ BatchSound
  BY DEF RoundInv, RoundTyped
<1> DEFINE worn == scene.watches[watch]
           keep == {i \in DOMAIN batch : IsValidPushTime(batch[i].time, clock)}
<1>2. PICK n \in 0..Len(batch) :
        /\ IF n = Len(batch) THEN NoFault ELSE Fault
        /\ batch' = Kept(LookedUp(batch, n, worn), keep)
  BY DEF FetchDevices
<1>3. /\ UNCHANGED <<scene, clock, order, watch, flight, pushTime, made, worker>>
      /\ UNCHANGED <<status, queue, at>> /\ pc = "lookup"
      /\ pc' = IF batch' = <<>> THEN "asleep" ELSE "feedback"
  BY DEF FetchDevices, outside, rows
<1>4. faults' \in Nat
  BY <1>1, <1>2 DEF NoFault, Fault, RoundTyped
<1>5. worn \in WatchRow /\ NoWatch \in WatchRow /\ clock \in Int
  <2>1. NoWatch \in WatchRow
    BY DEF NoWatch, NoVersion, WatchRow
  <2>2. watch \in DOMAIN scene.watches /\ scene.watches \in Seq(WatchRow)
    BY <1>1, SceneOK DEF RoundTyped
  <2>3. clock \in Int
    BY <1>1, SceneOK DEF RoundTyped
  <2> QED BY <2>1, <2>2, <2>3
<1> DEFINE looked == LookedUp(batch, n, worn)
<1> HIDE DEF worn
<1>6. ASSUME NEW i \in DOMAIN batch
      PROVE  /\ looked[i] \in RowRecord /\ RowSound(looked[i])
             /\ i \in keep => RowInTime(looked[i])
  <2>1. batch[i] \in RowRecord /\ RowSound(batch[i])
    BY <1>1 DEF RoundTyped, BatchSound
  <2>2. PICK w \in {worn, NoWatch} :
          looked[i] = [batch[i] EXCEPT !.watch = w, !.worn = worn, !.filtered = clock]
    BY DEF LookedUp
  <2>3. /\ looked[i] \in RowRecord /\ looked[i].watch = w /\ looked[i].worn = worn
        /\ looked[i].filtered = clock /\ looked[i].time = batch[i].time
        /\ looked[i].type = batch[i].type /\ looked[i].made = batch[i].made
        /\ looked[i].told = batch[i].told
    <3>1. w \in WatchRow
      BY <1>5
    <3> DEFINE x == batch[i]
    <3>2. looked[i] = [type |-> x.type, time |-> x.time, status |-> x.status, made |-> x.made,
                       watch |-> w, worn |-> worn, filtered |-> clock, told |-> x.told]
      BY <2>1, <2>2 DEF RowRecord
    <3>3. /\ x.type \in scene.types /\ x.time \in Int /\ x.status \in Statuses
          /\ x.made \in DOMAIN scene.orders /\ x.told \in {"unknown", "on", "off"}
      BY <2>1 DEF RowRecord
    <3> HIDE DEF x, looked
    <3>4. looked[i] \in RowRecord
      BY <1>5, <3>1, <3>2, <3>3 DEF RowRecord
    <3> QED BY <3>2, <3>4 DEF x
  <2> HIDE DEF looked
  <2>4. RowSound(looked[i])
    BY <2>1, <2>3 DEF RowSound
  <2>5. i \in keep => RowInTime(looked[i])
    BY <1>5, <2>3 DEF RowInTime
  <2> QED BY <2>3, <2>4, <2>5
<1>7. looked \in Seq(RowRecord) /\ DOMAIN looked = DOMAIN batch
  <2>1. batch \in Seq(RowRecord)
    BY <1>1 DEF RoundTyped
  <2>2. looked = [i \in 1..Len(batch) |-> looked[i]] /\ DOMAIN batch = 1..Len(batch)
    BY <2>1 DEF LookedUp
  <2> HIDE DEF looked
  <2> QED BY <1>6, <2>1, <2>2
<1> HIDE DEF looked, keep
<1>8. /\ batch' \in Seq(RowRecord)
      /\ \A j \in DOMAIN batch' : \E i \in DOMAIN batch : i \in keep /\ batch'[j] = looked[i]
  BY <1>2, <1>7, KeptRows DEF looked
<1>9. BatchSound'
  BY <1>3, <1>6, <1>8, RowsStay DEF BatchSound
<1>10. AtRow'
  <2>1. batch' # <<>> => 1 <= Len(batch')
    BY <1>8
  <2> QED BY <1>1, <1>3, <2>1 DEF AtRow
<1> QED BY <1>3, <1>4, <1>8, <1>9, <1>10, SchedulerFrame DEF RoundInv

\* What is left of a sequence when one element is taken out.
LEMMA RemovedRows ==
  ASSUME NEW S, NEW s \in Seq(S), NEW i \in 1..Len(s)
  PROVE  /\ RemoveAt(s, i) \in Seq(S)
         /\ \A j \in DOMAIN RemoveAt(s, i) : \E k \in DOMAIN s : RemoveAt(s, i)[j] = s[k]
<1> DEFINE a == SubSeq(s, 1, i - 1)
           b == SubSeq(s, i + 1, Len(s))
<1>1. Len(s) \in Nat /\ DOMAIN s = 1..Len(s)
  OBVIOUS
<1>2. /\ a \in Seq(S) /\ Len(a) = i - 1
      /\ \A j \in 1..(i - 1) : a[j] = s[j]
  <2>1. i - 1 \in Int /\ i \in Int /\ i >= 1 /\ \A j \in 1..(i - 1) : s[j] \in S
    BY <1>1
  <2>2. /\ SubSeq(s, 1, i - 1) \in Seq(S)
        /\ Len(SubSeq(s, 1, i - 1)) = IF 1 <= i - 1 THEN (i - 1) - 1 + 1 ELSE 0
        /\ \A j \in 1..((i - 1) - 1 + 1) : SubSeq(s, 1, i - 1)[j] = s[1 + j - 1]
    BY ONLY <2>1, SubSeqProperties
  <2>3. /\ (IF 1 <= i - 1 THEN (i - 1) - 1 + 1 ELSE 0) = i - 1 /\ (i - 1) - 1 + 1 = i - 1
        /\ \A j \in Int : 1 + j - 1 = j
    BY <2>1
  <2> QED BY <2>2, <2>3
<1>3. /\ b \in Seq(S) /\ Len(b) = Len(s) - i
      /\ \A j \in 1..(Len(s) - i) : b[j] = s[i + j]
  <2>1. /\ i + 1 \in Int /\ Len(s) \in Int /\ i \in Int /\ i <= Len(s)
        /\ \A j \in (i + 1)..Len(s) : s[j] \in S
    BY <1>1
  <2>2. /\ SubSeq(s, i + 1, Len(s)) \in Seq(S)
        /\ Len(SubSeq(s, i + 1, Len(s))) = IF i + 1 <= Len(s) THEN Len(s) - (i + 1) + 1 ELSE 0
        /\ \A j \in 1..(Len(s) - (i + 1) + 1) :
             SubSeq(s, i + 1, Len(s))[j] = s[(i + 1) + j - 1]
    BY ONLY <2>1, SubSeqProperties
  <2>3. /\ (IF i + 1 <= Len(s) THEN Len(s) - (i + 1) + 1 ELSE 0) = Len(s) - i
        /\ Len(s) - (i + 1) + 1 = Len(s) - i
        /\ \A j \in Int : (i + 1) + j - 1 = i + j
    BY <2>1
  <2>4. ASSUME NEW j \in 1..(Len(s) - i) PROVE b[j] = s[i + j]
    <3>1. j \in 1..(Len(s) - (i + 1) + 1) /\ (i + 1) + j - 1 = i + j
      <4>1. j \in Int /\ 1 <= j /\ j <= Len(s) - i
        BY <2>1
      <4> QED BY <2>1, <2>3, <4>1
    <3> QED BY <2>2, <3>1
  <2>5. b \in Seq(S) /\ Len(b) = Len(s) - i
    BY <2>2, <2>3
  <2> QED BY <2>4, <2>5
<1>4. RemoveAt(s, i) = a \o b
  BY DEF RemoveAt
<1> HIDE DEF a, b
<1>5. /\ a \o b \in Seq(S) /\ Len(a \o b) = Len(a) + Len(b)
      /\ \A j \in 1..(Len(a) + Len(b)) : (a \o b)[j] = IF j <= Len(a) THEN a[j] ELSE b[j - Len(a)]
  BY <1>2, <1>3, ConcatProperties
<1>6. ASSUME NEW j \in 1..(Len(a) + Len(b)) PROVE \E k \in 1..Len(s) : (a \o b)[j] = s[k]
  <2>1. CASE j <= i - 1
    <3>1. j \in 1..(i - 1) /\ j \in 1..Len(s)
      BY <1>1, <2>1
    <3> QED BY <1>2, <1>5, <2>1, <3>1
  <2>2. CASE j > i - 1
    <3>1. j - (i - 1) \in 1..(Len(s) - i) /\ i + (j - (i - 1)) \in 1..Len(s) /\ j > Len(a)
      <4>1. i \in Int /\ j \in Int /\ Len(s) \in Int /\ i >= 1 /\ i <= Len(s)
            /\ j > i - 1 /\ j <= (i - 1) + (Len(s) - i)
        BY <1>1, <1>2, <1>3, <1>6, <2>2
      <4> QED BY <1>2, <4>1
    <3>2. (a \o b)[j] = s[i + (j - (i - 1))]
      BY <1>2, <1>3, <1>5, <3>1
    <3> QED BY <3>1, <3>2
  <2> QED BY <1>1, <2>1, <2>2
<1>7. DOMAIN (a \o b) = 1..(Len(a) + Len(b))
  BY <1>5
<1> QED BY ONLY <1>1, <1>4, <1>5, <1>6, <1>7

LEMMA FilterKeeps == ASSUME RoundInv, FeedbackInv, FilterUserFeedback PROVE RoundInv'
<1>1. RoundTyped /\ scene \in Scenes /\ AtRow /\ BatchSound
  BY DEF RoundInv, RoundTyped
<1>2. /\ UNCHANGED <<scene, clock, order, watch, flight, pushTime, made, worker>>
      /\ UNCHANGED <<status, queue>> /\ pc = "feedback"
      /\ pc' = IF AllAsked(batch', at') THEN "lock" ELSE "feedback"
  BY DEF FilterUserFeedback, outside, rows
<1>3. at \in 1..Len(batch) /\ Len(batch) \in Nat /\ DOMAIN batch = 1..Len(batch)
  BY <1>1, <1>2 DEF AtRow, RoundTyped
<1>4. \A i \in DOMAIN batch : batch[i] \in RowRecord /\ RowSound(batch[i]) /\ RowInTime(batch[i])
  BY <1>1, <1>2 DEF RoundTyped, BatchSound
<1>5. faults' \in Nat
  BY <1>1 DEF FilterUserFeedback, NoFault, Fault, RoundTyped
<1>6. ASSUME at' \in Nat \ {0}, batch' \in Seq(RowRecord),
             \A j \in DOMAIN batch' : RowSound(batch'[j]) /\ RowInTime(batch'[j])
      PROVE  RoundInv'
  <2>1. BatchSound'
    BY <1>2, <1>6, RowsStay DEF BatchSound
  <2>2. AtRow'
    <3>1. Len(batch') \in Nat
      BY <1>6
    <3> QED BY <1>2, <1>6, <3>1 DEF AtRow, AllAsked
  <2> QED BY <1>2, <1>5, <1>6, <2>1, <2>2, SchedulerFrame DEF RoundInv
<1>7. CASE IsUserClosedPush(scene.kind, FeedbackAnswer) /\ batch' = RemoveAt(batch, at) /\ at' = at
  <2>1. batch \in Seq(RowRecord)
    BY <1>1 DEF RoundTyped
  <2>2. /\ batch' \in Seq(RowRecord)
        /\ \A j \in DOMAIN batch' : \E k \in DOMAIN batch : batch'[j] = batch[k]
    <3>1. /\ RemoveAt(batch, at) \in Seq(RowRecord)
          /\ \A j \in DOMAIN RemoveAt(batch, at) :
               \E k \in DOMAIN batch : RemoveAt(batch, at)[j] = batch[k]
      BY ONLY <1>3, <2>1, RemovedRows
    <3>2. batch' = RemoveAt(batch, at)
      BY <1>7
    <3> QED BY ONLY <3>1, <3>2
  <2> QED BY <1>3, <1>4, <1>6, <1>7, <2>2
<1>8. CASE /\ ~ IsUserClosedPush(scene.kind, FeedbackAnswer)
           /\ batch' = [batch EXCEPT ![at].told = Told] /\ at' = at + 1
  <2>1. Told \in {"unknown", "on"}
    BY <1>8, OpenIsNotOff
  <2> DEFINE x == [batch[at] EXCEPT !.told = Told]
  <2>2. batch[at] \in RowRecord /\ RowSound(batch[at]) /\ RowInTime(batch[at])
    BY <1>3, <1>4
  <2>3. /\ x \in RowRecord /\ x.told = Told /\ x.type = batch[at].type /\ x.time = batch[at].time
        /\ x.made = batch[at].made /\ x.watch = batch[at].watch /\ x.worn = batch[at].worn
        /\ x.filtered = batch[at].filtered
    BY <2>1, <2>2 DEF RowRecord
  <2>4. batch' = [batch EXCEPT ![at] = x]
    BY <1>8
  <2> HIDE DEF x
  <2>5. RowSound(x) /\ RowInTime(x)
    BY <2>1, <2>2, <2>3 DEF RowSound, RowInTime
  <2>6. batch \in Seq(RowRecord)
    BY <1>1 DEF RoundTyped
  <2>7. /\ batch' \in Seq(RowRecord) /\ DOMAIN batch' = DOMAIN batch
        /\ \A j \in DOMAIN batch : batch'[j] = IF j = at THEN x ELSE batch[j]
    BY <1>3, <2>3, <2>4, <2>6
  <2> QED BY <1>3, <1>4, <1>6, <1>8, <2>5, <2>7
<1>9. CASE batch' = batch /\ at' = at + 1
  <2>1. batch \in Seq(RowRecord)
    BY <1>1 DEF RoundTyped
  <2> QED BY <1>3, <1>4, <1>6, <1>9, <2>1
<1> QED BY <1>7, <1>8, <1>9 DEF FilterUserFeedback

LEMMA LockKeeps == ASSUME RoundInv, LockPushEvents PROVE RoundInv'
<1> DEFINE keep == {i \in DOMAIN batch : IsAtHome(batch[i].watch) /\ Claimable(batch[i].status)}
           pass == Kept(batch, keep)
<1>1. RoundTyped /\ scene \in Scenes /\ BatchSound /\ QueueReady /\ Scheduled
  BY DEF RoundInv, RoundTyped
<1>2. /\ pc = "lock" /\ pc' = "asleep" /\ batch' = <<>> /\ at' = 1 /\ queue' = queue \o pass
      /\ status' = [e \in scene.types |->
                      IF \E i \in DOMAIN pass : pass[i].type = e THEN "processing" ELSE status[e]]
      /\ UNCHANGED <<scene, clock, order, watch, flight, pushTime, made, worker, faults>>
  BY DEF LockPushEvents, outside
<1>3. batch \in Seq(RowRecord) /\ queue \in Seq(RowRecord) /\ faults \in Nat
  BY <1>1 DEF RoundTyped
<1> HIDE DEF keep
<1>4. /\ pass \in Seq(RowRecord)
      /\ \A j \in DOMAIN pass : \E i \in DOMAIN batch : i \in keep /\ pass[j] = batch[i]
  BY <1>3, KeptRows
<1> HIDE DEF pass
<1>5. ASSUME NEW j \in DOMAIN pass PROVE pass[j] \in RowRecord /\ RowReady(pass[j])
  <2>1. PICK i \in DOMAIN batch : i \in keep /\ pass[j] = batch[i]
    BY <1>4
  <2>2. RowSound(batch[i]) /\ RowInTime(batch[i])
    BY <1>1, <1>2 DEF BatchSound
  <2>3. ~ batch[i].watch.abroad
    BY <2>1 DEF keep, IsAtHome
  <2> QED BY <1>4, <2>1, <2>2, <2>3 DEF RowReady
<1>6. status' \in [scene.types -> Statuses \cup {"none"}]
  BY <1>1, <1>2 DEF RoundTyped, Statuses
<1>7. /\ queue \o pass \in Seq(RowRecord) /\ DOMAIN (queue \o pass) = 1..(Len(queue) + Len(pass))
      /\ \A j \in 1..(Len(queue) + Len(pass)) :
           (queue \o pass)[j] = IF j <= Len(queue) THEN queue[j] ELSE pass[j - Len(queue)]
      /\ Len(queue) \in Nat /\ Len(pass) \in Nat
      /\ DOMAIN queue = 1..Len(queue) /\ DOMAIN pass = 1..Len(pass)
  BY <1>3, <1>4, ConcatProperties
<1>8. QueueReady'
  <2>1. ASSUME NEW j \in 1..(Len(queue) + Len(pass)) PROVE RowReady(queue'[j])
    <3>1. CASE j <= Len(queue)
      BY <1>1, <1>2, <1>7, <3>1 DEF QueueReady
    <3>2. CASE j > Len(queue)
      <4>1. j - Len(queue) \in 1..Len(pass)
        BY <1>7, <3>2
      <4>2. queue'[j] = pass[j - Len(queue)]
        BY <1>2, <1>7, <3>2
      <4> QED BY <1>5, <1>7, <4>1, <4>2
    <3> QED BY <1>7, <3>1, <3>2
  <2> QED BY <1>2, <1>7, <2>1, RowsStay DEF QueueReady
<1>9. Scheduled'
  <2>1. ASSUME NEW e \in scene.types, status'[e] # "none" PROVE made[e] # 0
    <3>1. CASE \E i \in DOMAIN pass : pass[i].type = e
      BY <1>5, <3>1 DEF RowReady, RowSound
    <3>2. CASE ~ \E i \in DOMAIN pass : pass[i].type = e
      BY <1>1, <1>2, <2>1, <3>2 DEF Scheduled
    <3> QED BY <3>1, <3>2
  <2> QED BY <1>1, <1>2, <2>1 DEF Scheduled, Booking
<1>10. RoundTyped'
  BY <1>1, <1>2, <1>6, <1>7, RowsStay DEF RoundTyped
<1>11. BatchSound' /\ AtRow'
  BY <1>2 DEF BatchSound, AtRow
<1>12. WorkerReady'
  BY <1>2, RowsStay DEF RoundInv, WorkerReady
<1> QED BY <1>8, <1>9, <1>10, <1>11, <1>12 DEF RoundInv

-----------------------------------------------------------------------------
(***************************************************************************)
(* The steps of a push processor                                           *)
(***************************************************************************)
\* A step of the processor that leaves the table and the queue alone.
LEMMA WorkerFrame ==
  ASSUME RoundInv, UNCHANGED <<outside, rows, round, queue>>, faults' \in Nat,
         worker' = Idle \/ worker' \in WorkerRecord
  PROVE  WorkerReady' => RoundInv'
<1>1. /\ UNCHANGED <<scene, clock, order, watch, flight, pushTime, status, made, pc, batch, at>>
  BY DEF outside, rows, round
<1>2. RoundTyped'
  BY <1>1, RowsStay DEF RoundInv, RoundTyped
<1>3. AtRow' /\ Scheduled' /\ BatchSound' /\ QueueReady'
  BY <1>1, RowsStay DEF RoundInv, AtRow, Scheduled, BatchSound, QueueReady, Booking
<1> QED BY <1>2, <1>3 DEF RoundInv

\* The processor takes a row.
LEMMA TakeKeeps == ASSUME RoundInv, GetUserOrder PROVE RoundInv'
<1>1. RoundTyped /\ scene \in Scenes /\ QueueReady
  BY DEF RoundInv, RoundTyped
<1>2. PICK ok \in BOOLEAN :
        /\ IF ok THEN NoFault ELSE Fault
        /\ worker' = [pc |-> IF ok THEN "ask" ELSE "failed", row |-> Head(queue), read |-> order,
                      flight |-> 0, message |-> Nothing, sent |-> 0]
  BY DEF GetUserOrder
<1>3. /\ queue # <<>> /\ queue' = Tail(queue)
      /\ UNCHANGED <<scene, clock, order, watch, flight, pushTime, status, made, pc, batch, at>>
  BY DEF GetUserOrder, outside, rows, round
<1>4. faults' \in Nat
  BY <1>1, <1>2 DEF NoFault, Fault, RoundTyped
<1>5. queue \in Seq(RowRecord) /\ order \in DOMAIN scene.orders
  BY <1>1 DEF RoundTyped
<1>6. /\ Head(queue) \in RowRecord /\ 1 \in DOMAIN queue /\ Head(queue) = queue[1]
      /\ Tail(queue) \in Seq(RowRecord)
      /\ \A i \in DOMAIN Tail(queue) : i + 1 \in DOMAIN queue /\ Tail(queue)[i] = queue[i + 1]
  BY <1>3, <1>5
<1>7. worker' \in WorkerRecord /\ worker'.row = Head(queue) /\ worker'.message = "nothing"
      /\ worker'.pc # "sent"
  <2>1. Nothing \in Messages /\ Nothing = "nothing"
    BY DEF Nothing, Messages
  <2> QED BY <1>2, <1>5, <1>6, <2>1 DEF WorkerRecord
<1>8. RowReady(Head(queue)) /\ \A i \in DOMAIN Tail(queue) : RowReady(Tail(queue)[i])
  BY <1>1, <1>6 DEF QueueReady
<1>9. RoundTyped'
  BY <1>1, <1>3, <1>4, <1>6, <1>7, RowsStay DEF RoundTyped
<1>10. AtRow' /\ Scheduled' /\ BatchSound'
  BY <1>3, RowsStay DEF RoundInv, AtRow, Scheduled, BatchSound, Booking
<1>11. QueueReady'
  BY <1>3, <1>8, RowsStay DEF QueueReady
<1>12. WorkerReady'
  <2>1. RowReady(worker'.row) /\ MessageFits(worker'.row, worker'.message) /\ StageFits(worker'.pc)
    BY <1>2, <1>7, <1>8 DEF MessageFits, StageFits
  <2>2. (RowReady(worker.row) /\ MessageFits(worker.row, worker.message) /\ StageFits(worker.pc))'
    BY <1>3, <2>1 DEF RowReady, RowSound, RowInTime, MessageFits, StageFits, Booking
  <2> QED BY <1>7, <2>2 DEF WorkerReady
<1> QED BY <1>9, <1>10, <1>11, <1>12 DEF RoundInv

\* The processor works on its row: it asks, builds a message that fits or none, sends.
Enters(p, f, m) ==
  /\ p \in {"wait", "weather", "send", "disabled", "failed"} /\ f \in Nat /\ m \in Messages
  /\ MessageFits(worker.row, m) /\ StageFits(p)
  /\ worker' = [worker EXCEPT !.pc = p, !.flight = f, !.message = m]

Sends == worker' = [worker EXCEPT !.pc = "sent", !.sent = clock]

Works == worker # Idle /\ (Sends \/ \E p, f, m : Enters(p, f, m))

LEMMA WorkKeeps ==
  ASSUME RoundInv, Works, UNCHANGED <<outside, rows, round, queue>>, faults' \in Nat
  PROVE  RoundInv'
<1>1. /\ worker \in WorkerRecord /\ WorkerReady /\ worker # Idle /\ scene \in Scenes
      /\ clock \in Int
  BY SceneOK DEF RoundInv, RoundTyped, Works
<1>2. UNCHANGED <<scene, made, clock>>
  BY DEF outside, rows
<1>3. CASE Sends
  <2>1. worker' \in WorkerRecord /\ worker'.row = worker.row /\ worker'.message = worker.message
        /\ worker'.sent = clock
    BY <1>1, <1>3 DEF WorkerRecord, Sends
  <2>4. StageFits(worker'.pc)
    BY <1>1, <1>3 DEF WorkerRecord, StageFits, Sends
  <2>2. worker.row.filtered <= clock
    BY <1>1 DEF WorkerReady, RowReady, RowInTime
  <2>3. WorkerReady'
    BY <1>1, <1>2, <2>1, <2>2, <2>4, RowsStay DEF WorkerReady
  <2> QED BY <2>1, <2>3, WorkerFrame
<1>4. ASSUME NEW p, NEW f, NEW m, Enters(p, f, m) PROVE RoundInv'
  <2>1. worker' \in WorkerRecord /\ worker'.row = worker.row /\ worker'.message = m
        /\ worker'.pc = p
    BY <1>1, <1>4 DEF WorkerRecord, Enters
  <2>2. WorkerReady'
    BY <1>1, <1>2, <1>4, <2>1, RowsStay DEF WorkerReady, Enters
  <2> QED BY <2>1, <2>2, WorkerFrame
<1> QED BY <1>3, <1>4 DEF Works

\* What the processes of the four businesses do is to work.
LEMMA ProcessorWorks ==
  ASSUME RoundInv,
         \/ ProcessMovie \/ ProcessHotel \/ ProcessTrain \/ GetTimeTable \/ ProcessFlight
         \/ SendPush \/ (FetchWeather /\ ~ crashed')
  PROVE  Works /\ UNCHANGED <<outside, rows, round, queue>> /\ faults' \in Nat
<1>1. RoundTyped /\ scene \in Scenes /\ WorkerReady
  BY DEF RoundInv, RoundTyped
<1>2. worker # Idle
  <2>1. worker.pc # "idle"
    BY DEF ProcessMovie, ProcessHotel, ProcessTrain, GetTimeTable, ProcessFlight, FetchWeather,
           SendPush, Processes
  <2> QED BY <2>1 DEF Idle
<1>3. /\ worker \in WorkerRecord /\ MessageFits(worker.row, worker.message)
      /\ StageFits(worker.pc)
  BY <1>1, <1>2 DEF RoundTyped, WorkerReady
<1>4. faults' \in Nat
  BY <1>1 DEF ProcessMovie, ProcessHotel, ProcessTrain, GetTimeTable, ProcessFlight, FetchWeather,
              SendPush, NoFault, Fault, RoundTyped
<1>5. UNCHANGED <<outside, rows, round, queue>>
  BY DEF ProcessMovie, ProcessHotel, ProcessTrain, GetTimeTable, ProcessFlight, FetchWeather, SendPush
<1> SUFFICES Works
  BY <1>4, <1>5
<1>6. worker.row.type \in EventType /\ worker.flight \in Nat /\ worker.message \in Messages
  BY <1>1, <1>3, SceneOK DEF WorkerRecord, RowRecord
<1>7. ASSUME NEW p \in {"wait", "weather", "disabled", "failed"}, NEW f \in Nat,
             StageFits(p), worker' = [worker EXCEPT !.pc = p, !.flight = f]
      PROVE  Works
  <2>1. worker' = [worker EXCEPT !.pc = p, !.flight = f, !.message = worker.message]
    BY <1>3, <1>7 DEF WorkerRecord
  <2>2. Enters(p, f, worker.message)
    BY <1>3, <1>6, <1>7, <2>1 DEF Enters
  <2> QED BY <1>2, <2>2 DEF Works
<1>8. ASSUME NEW p \in {"wait", "disabled", "failed"}, StageFits(p),
             worker' = [worker EXCEPT !.pc = p]
      PROVE  Works
  <2>1. worker' = [worker EXCEPT !.pc = p, !.flight = worker.flight]
    BY <1>3, <1>8 DEF WorkerRecord
  <2>2. p \in {"wait", "weather", "disabled", "failed"}
    OBVIOUS
  <2> QED BY <1>6, <1>7, <1>8, <2>1, <2>2
<1>9. ASSUME NEW m \in Messages, MessageFits(worker.row, m), worker' = Built(m)
      PROVE  Works
  <2>1. PICK p \in {"send", "failed"} : worker' = [worker EXCEPT !.pc = p, !.message = m]
    BY <1>9 DEF Built
  <2>2. worker' = [worker EXCEPT !.pc = p, !.flight = worker.flight, !.message = m]
    BY <1>3, <2>1 DEF WorkerRecord
  <2>3. Enters(p, worker.flight, m)
    BY <1>6, <1>9, <2>2 DEF Enters, StageFits
  <2> QED BY <1>2, <2>3 DEF Works
<1>10. ASSUME worker' = Failed PROVE Works
  BY <1>8, <1>10 DEF Failed, StageFits
<1>11. CASE ProcessMovie
  <2>1. MessageFits(worker.row, MovieMessage(worker.row.type))
        /\ MovieMessage(worker.row.type) \in Messages
    BY <1>6, MessagesFit DEF MessageFits
  <2>2. worker' = Built(MovieMessage(worker.row.type)) \/ worker' = Failed
    BY <1>11 DEF ProcessMovie, IfComplete
  <2> QED BY <1>9, <1>10, <2>1, <2>2
<1>12. CASE ProcessHotel
  <2>1. MessageFits(worker.row, HotelMessage(worker.row.type))
        /\ HotelMessage(worker.row.type) \in Messages
    BY <1>6, MessagesFit DEF MessageFits
  <2>2. worker' = Built(HotelMessage(worker.row.type)) \/ worker' = Failed
    BY <1>12 DEF ProcessHotel, IfComplete
  <2> QED BY <1>9, <1>10, <2>1, <2>2
<1>13. CASE ProcessTrain
  <2>1. worker' = [worker EXCEPT !.pc = "wait"] \/ worker' = Failed
    BY <1>13 DEF ProcessTrain, IfComplete
  <2>2. StageFits("wait")
    BY <1>13 DEF ProcessTrain, Processes, StageFits
  <2> QED BY <1>8, <1>10, <2>1, <2>2
<1>14. CASE SendPush
  <2>1. \/ worker' = [worker EXCEPT !.pc = "disabled"]
        \/ Sends
        \/ worker' = Failed
    BY <1>14 DEF SendPush, Sends
  <2>2. StageFits("disabled")
    BY DEF StageFits
  <2>3. Sends => Works
    BY <1>2 DEF Works
  <2> QED BY <1>8, <1>10, <2>1, <2>2, <2>3
<1>15. CASE ProcessFlight
  <2>1. \/ worker' = [worker EXCEPT !.pc = "weather", !.flight = flight]
        \/ worker' = Failed
    BY <1>15 DEF ProcessFlight, IfComplete
  <2>3. scene.kind = "flight"
    BY <1>15 DEF ProcessFlight, Processes
  <2>2. flight \in Nat
    BY <1>1, SceneOK DEF RoundTyped
  <2>4. StageFits("weather")
    BY <2>3 DEF StageFits
  <2> QED BY <1>7, <1>10, <2>1, <2>2, <2>4
<1>16. CASE GetTimeTable
  <2>1. worker.pc = "wait" /\ (worker' = Built(TrainMessage(worker.row.type)) \/ worker' = Failed)
    BY <1>16 DEF GetTimeTable
  <2>2. MessageFits(worker.row, TrainMessage(worker.row.type))
        /\ TrainMessage(worker.row.type) \in Messages
    BY <1>3, <1>6, <2>1, MessagesFit DEF MessageFits, StageFits
  <2> QED BY <1>9, <1>10, <2>1, <2>2
<1>17. CASE FetchWeather /\ ~ crashed'
  <2> DEFINE m == FlightMessage(worker.row.type, scene.flights[worker.flight])
  <2>1. worker.pc = "weather" /\ (worker' = Built(m) \/ worker' = Failed)
    BY <1>17 DEF FetchWeather
  <2>2. MessageFits(worker.row, m) /\ m \in Messages
    BY <1>3, <1>6, <2>1, MessagesFit DEF MessageFits, StageFits
  <2> HIDE DEF m
  <2> QED BY <1>9, <1>10, <2>1, <2>2
<1> QED BY <1>11, <1>12, <1>13, <1>14, <1>15, <1>16, <1>17

\* The process dies of a page that is not there.
LEMMA CrashKeeps == ASSUME RoundInv, FetchWeather, crashed' PROVE RoundInv'
<1>1. /\ worker' = Idle /\ pc' = "asleep" /\ batch' = <<>> /\ at' = 1 /\ queue' = <<>>
      /\ UNCHANGED <<scene, clock, order, watch, flight, pushTime, status, made>>
  BY DEF FetchWeather, outside, rows
<1>2. faults' \in Nat
  <2>1. faults \in Nat
    BY DEF RoundInv, RoundTyped
  <2>2. faults' = faults \/ (faults > 0 /\ faults' = faults - 1)
    BY DEF FetchWeather, NoFault, Fault
  <2> QED BY <2>1, <2>2
<1>3. RoundTyped'
  BY <1>1, <1>2, RowsStay DEF RoundInv, RoundTyped
<1>4. Scheduled'
  BY <1>1 DEF RoundInv, Scheduled, Booking
<1> QED BY <1>1, <1>3, <1>4 DEF RoundInv, AtRow, BatchSound, QueueReady, WorkerReady

LEMMA StatusKeeps == ASSUME RoundInv, UpdatePushStatus PROVE RoundInv'
<1>1. RoundTyped /\ scene \in Scenes /\ Scheduled /\ WorkerReady
  BY DEF RoundInv, RoundTyped
<1>2. /\ worker' = Idle /\ worker # Idle
      /\ UNCHANGED <<scene, clock, order, watch, flight, pushTime, made, pc, batch, at, queue>>
  BY DEF UpdatePushStatus, outside, round, Idle
<1>3. faults' \in Nat
  BY <1>1 DEF UpdatePushStatus, NoFault, Fault, RoundTyped
<1>4. worker.row.type \in scene.types /\ made[worker.row.type] # 0
  BY <1>1, <1>2 DEF RoundTyped, WorkerRecord, RowRecord, WorkerReady, RowReady, RowSound
<1>5. PICK v \in Statuses : status' \in {status, [status EXCEPT ![worker.row.type] = v]}
  BY DEF UpdatePushStatus, Statuses
<1>6. /\ status' \in [scene.types -> Statuses \cup {"none"}]
      /\ \A e \in scene.types : status'[e] = status[e] \/ e = worker.row.type
  BY <1>1, <1>4, <1>5 DEF RoundTyped
<1>7. RoundTyped'
  BY <1>1, <1>2, <1>3, <1>6, RowsStay DEF RoundTyped
<1>8. Scheduled'
  BY <1>1, <1>2, <1>4, <1>6 DEF Scheduled, Booking
<1>9. AtRow' /\ BatchSound' /\ QueueReady' /\ WorkerReady'
  BY <1>2, RowsStay DEF RoundInv, AtRow, BatchSound, QueueReady, WorkerReady
<1> QED BY <1>7, <1>8, <1>9 DEF RoundInv

LEMMA RoundStands ==
  ASSUME RoundInv, UNCHANGED <<outside, rows, round, queue, worker, faults>>
  PROVE  RoundInv'
<1>1. UNCHANGED <<scene, clock, order, watch, flight, pushTime, status, made, pc, batch, at>>
  BY DEF outside, rows, round
<1>2. RoundTyped'
  BY <1>1, RowsStay DEF RoundInv, RoundTyped
<1>3. AtRow' /\ Scheduled' /\ BatchSound' /\ QueueReady' /\ WorkerReady'
  BY <1>1, RowsStay DEF RoundInv, AtRow, Scheduled, BatchSound, QueueReady, WorkerReady, Booking
<1> QED BY <1>2, <1>3 DEF RoundInv

LEMMA NextRound == RoundInv /\ FeedbackInv /\ [Next]_vars => RoundInv'
<1> SUFFICES ASSUME RoundInv, FeedbackInv, [Next]_vars PROVE RoundInv'
  OBVIOUS
<1>1. CASE Tick \/ ChangeOrder \/ ChangeWatch \/ ChangeFlight \/ UpdatePushEvent
  BY <1>1, WorldKeeps, UpdateKeeps
<1>2. CASE PushScheduler
  BY <1>2, FetchKeeps, LookupKeeps, FilterKeeps, LockKeeps DEF PushScheduler
<1>3. CASE PushProcessor
  <2>1. CASE \/ ProcessMovie \/ ProcessHotel \/ ProcessTrain \/ GetTimeTable \/ ProcessFlight
             \/ SendPush \/ (FetchWeather /\ ~ crashed')
    BY <2>1, ProcessorWorks, WorkKeeps
  <2>2. CASE GetUserOrder \/ UpdatePushStatus \/ (FetchWeather /\ crashed')
    BY <2>2, TakeKeeps, StatusKeeps, CrashKeeps
  <2> QED BY <1>3, <2>1, <2>2 DEF PushProcessor
<1>4. CASE TrainService \/ FeedbackService \/ UNCHANGED vars
  BY <1>4, RoundStands DEF TrainService, FeedbackService, here, vars
<1> QED BY <1>1, <1>2, <1>3, <1>4 DEF Next

\* The two invariants hold together.
LEMMA RoundsHold == Spec => [](RoundInv /\ FeedbackInv)
<1>1. Init => RoundInv /\ FeedbackInv
  BY RoundStarts, FeedbackStarts
<1>2. FeedbackInv /\ [Next]_vars => FeedbackInv'
  BY NextFeedback
<1> QED BY <1>1, <1>2, NextRound, PTL DEF Spec

-----------------------------------------------------------------------------
(***************************************************************************)
(* The theorems about rounds                                               *)
(***************************************************************************)
\* No reminder goes out that the user had been told is switched off when the filter asked,
\* and none to a watch abroad, unless its look-up failed (UserFeedbackFilter,
\* WearModelFilter, FetchDeviceTable): for any order, any watches and any requests, at any
\* moments.
THEOREM OnlyWantedPushes == Spec => []PushIsWanted
<1>1. RoundInv => PushIsWanted
  BY DEF RoundInv, PushIsWanted, Sent, WorkerReady, RowReady, RowSound, Idle
<1> QED BY <1>1, RoundsHold, PTL

\* The arithmetic: an event let through within an hour of its time, and told on the day it
\* was let through, speaks of the right day.
LEMMA DayArithmetic ==
  ASSUME NEW kind \in {"flight", "train"}, NEW e \in EventType, NEW b \in Int,
         NEW filtered \in Int, NEW sent \in Int, Window \in Int, Window <= Hour,
         IsValidPushTime(EventTime(kind, e, b), filtered),
         filtered <= sent, DayOf(sent) = DayOf(filtered)
  PROVE  /\ e = "LastDay" => DayOf(b) = DayOf(sent) + 1
         /\ e \in {"Today", "3Hour", "1Hour"} =>
              \/ DayOf(b) = DayOf(sent)
              \/ b > sent /\ b - sent < Day
<1>1. CASE e = "LastDay"
  <2>1. EventTime(kind, e, b) = 86400 * ((b + (-86400)) \div 86400) + 3600 * 7
    BY <1>1 DEF EventTime, EventTimeRelation, Fixed, MakePushTime, DayOf, Day, Hour
  <2> QED BY <1>1, <2>1 DEF IsValidPushTime, DayOf, Day, Hour
<1>2. CASE e = "Today"
  <2>1. EventTime(kind, e, b) = 86400 * ((b + 0) \div 86400) + 3600 * 7
    BY <1>2 DEF EventTime, EventTimeRelation, Fixed, MakePushTime, DayOf, Day, Hour
  <2> QED BY <1>2, <2>1 DEF IsValidPushTime, DayOf, Day, Hour
<1>3. CASE e \in {"3Hour", "1Hour"}
  <2>1. PICK s \in {3600, 10800} : EventTime(kind, e, b) = b + (-s)
    BY <1>3 DEF EventTime, EventTimeRelation, Relative, Hour
  <2>2. filtered < b /\ b - filtered <= 10800
    BY <2>1 DEF IsValidPushTime, Hour
  <2>3. CASE b > sent
    BY <1>3, <2>2, <2>3 DEF Day
  <2>4. CASE b <= sent
    BY <1>3, <2>2, <2>4 DEF DayOf, Day
  <2> QED BY <2>3, <2>4
<1> QED BY <1>1, <1>2, <1>3

\* Tomorrow is tomorrow and a time is one the clock shows next, on the day the event was
\* let through and as long as the order is the one it was scheduled from
\* (PushTimeFilter, CreatePushEvent, the Build functions), provided the window events are
\* let through in is not longer than an hour: it is FLAGS_valid_push_time_internal, 20
\* minutes by default.
THEOREM RightDay ==
  ASSUME Window \in Int, Window <= Hour
  PROVE  Spec => []DayIsRight
<1>1. RoundInv => DayIsRight
  <2> SUFFICES ASSUME RoundInv, Sent, worker.read = worker.row.made,
                      DayOf(worker.sent) = DayOf(worker.row.filtered)
               PROVE  LET booking == Booking(worker.read)
                      IN  CASE worker.message = "tomorrow" ->
                                 DayOf(booking) = DayOf(worker.sent) + 1
                            [] worker.message = "time" ->
                                 \/ DayOf(booking) = DayOf(worker.sent)
                                 \/ booking > worker.sent /\ booking - worker.sent < Day
                            [] OTHER -> TRUE
    BY DEF DayIsRight
  <2> DEFINE r == worker.row
             b == Booking(worker.read)
  <2>1. worker \in WorkerRecord /\ scene \in Scenes /\ WorkerReady /\ worker # Idle
    BY DEF RoundInv, RoundTyped, Sent, Idle
  <2>2. /\ RowReady(r) /\ MessageFits(r, worker.message)
        /\ r.filtered <= worker.sent
    BY <2>1 DEF WorkerReady, Sent
  <2>3. /\ r.type \in EventType /\ b \in Int /\ r.filtered \in Int /\ worker.sent \in Int
    BY <2>1, SceneOK DEF WorkerRecord, RowRecord
  <2>4. IsValidPushTime(EventTime(scene.kind, r.type, b), r.filtered)
    BY <2>2 DEF RowReady, RowInTime, RowSound
  <2>7. ASSUME scene.kind \in {"flight", "train"}
        PROVE  /\ r.type = "LastDay" => DayOf(b) = DayOf(worker.sent) + 1
               /\ r.type \in {"Today", "3Hour", "1Hour"} =>
                    \/ DayOf(b) = DayOf(worker.sent)
                    \/ b > worker.sent /\ b - worker.sent < Day
    <3> HIDE DEF r, b
    <3>1. DayOf(worker.sent) = DayOf(r.filtered)
      BY DEF r
    <3> QED BY <2>2, <2>3, <2>4, <2>7, <3>1, DayArithmetic
  <2>5. worker.message = "tomorrow" => DayOf(b) = DayOf(worker.sent) + 1
    BY <2>2, <2>7 DEF MessageFits
  <2>6. worker.message = "time" =>
          DayOf(b) = DayOf(worker.sent) \/ (b > worker.sent /\ b - worker.sent < Day)
    BY <2>2, <2>7 DEF MessageFits
  <2> QED BY <2>5, <2>6
<1> QED BY <1>1, RoundsHold, PTL
-----------------------------------------------------------------------------
(***************************************************************************)
(* The time tables                                                         *)
(*                                                                         *)
(* What every train that is not torn keeps (TrainSound): one thread at     *)
(* most has rows of it; while it writes, the table is its edition but for  *)
(* the rows it still has; when nobody writes, the table is one edition;    *)
(* and an edition an update has taken over, or is about to, is not undone. *)
(***************************************************************************)
Work ==
  [pc : {"idle", "fetch", "select", "write"}, batches : Seq(Seq(Train)), pages : Seq(Train),
   rows : Seq(Entry), found : BOOLEAN, whole : BOOLEAN, began : [Train -> Nat]]

Asking ==
  [pc : {"position", "stations"}, train : Train, asked : Station, no : Nat, crossed : BOOLEAN]

TrainTyped ==
  /\ edition \in [Train -> Nat] /\ \A t \in Train : edition[t] \in DOMAIN Editions[t]
  /\ trainNo \subseteq Train
  /\ timeTable \in [Train -> [StationNo -> Row \cup {NoRow}]]
  /\ trainNoQueue \in Seq(Train)
  /\ dumper \in [Dumper -> Work]
  /\ trainFaults \in Nat
  /\ torn \subseteq Train
  /\ covered \in [Train -> Nat]

\* The trains a thread has still to fetch, and the rows of a train among those it has.
Ahead(w) ==
  {t \in Train : \/ \E i \in DOMAIN w.pages : w.pages[i] = t
                 \/ \E i \in DOMAIN w.batches : \E j \in DOMAIN w.batches[i] : w.batches[i][j] = t}
RowsOf(entries, t) == {r \in ToSet(entries) : r.train = t}
Writes(w) == w.pc \in {"select", "write"}

\* A thread fetches no train twice in a batch, and all of a batch before it writes.
Apart(s) == \A i, j \in DOMAIN s : s[i] = s[j] => i = j
WorkOK(w) ==
  /\ Writes(w) => w.rows # <<>> /\ w.pages = <<>>
  /\ w.pc = "idle" => /\ w.rows = <<>> /\ w.pages = <<>> /\ w.batches = <<>>
                      /\ \A t \in Train : w.began[t] = 0
  /\ Apart(w.pages) /\ \A i \in DOMAIN w.pages : RowsOf(w.rows, w.pages[i]) = {}
  /\ \A i \in DOMAIN w.batches : Apart(w.batches[i])

\* Editions only go forward.
EditionsSeen ==
  \A t \in Train : covered[t] <= edition[t] /\ \A d \in Dumper : dumper[d].began[t] <= edition[t]

RowAt(t, e, k) == [station |-> Editions[t][e][k], edition |-> e]

TakenOver(t, entries) ==
  \E e \in DOMAIN Editions[t] :
    /\ \A r \in RowsOf(entries, t) : r.no \in DOMAIN Editions[t][e] /\ r.row = RowAt(t, e, r.no)
    /\ \A k \in DOMAIN Editions[t][e] :
         timeTable[t][k] = RowAt(t, e, k) \/ \E r \in RowsOf(entries, t) : r.no = k
    /\ \A k \in StationNo \ DOMAIN Editions[t][e] : timeTable[t][k] = NoRow

Whole(t) ==
  \/ \A k \in StationNo : timeTable[t][k] = NoRow
  \/ \E e \in DOMAIN Editions[t] :
       /\ \A k \in DOMAIN Editions[t][e] : timeTable[t][k] = RowAt(t, e, k)
       /\ \A k \in StationNo \ DOMAIN Editions[t][e] : timeTable[t][k] = NoRow

\* The table, and the rows threads have, are of edition n or a later one.
Filled(t, n) ==
  /\ timeTable[t][1] # NoRow
  /\ \A k \in StationNo : timeTable[t][k] # NoRow => timeTable[t][k].edition >= n
RowsSince(t, n) == \A d \in Dumper : \A r \in RowsOf(dumper[d].rows, t) : r.row.edition >= n

TrainSound(t) ==
  /\ \A d, o \in Dumper : d # o => RowsOf(dumper[d].rows, t) = {} \/ RowsOf(dumper[o].rows, t) = {}
  /\ \A d \in Dumper : RowsOf(dumper[d].rows, t) # {} => TakenOver(t, dumper[d].rows)
  /\ (\A d \in Dumper : Writes(dumper[d]) => RowsOf(dumper[d].rows, t) = {}) => Whole(t)
  /\ covered[t] > 0 => Filled(t, covered[t]) /\ RowsSince(t, covered[t])
  /\ \A d \in Dumper : dumper[d].began[t] > 0 /\ t \notin Ahead(dumper[d]) =>
       /\ RowsSince(t, dumper[d].began[t])
       /\ RowsOf(dumper[d].rows, t) # {} \/ Filled(t, dumper[d].began[t])

\* The place a query has found is the user's station as long as nobody writes.
QueryKnows ==
  /\ query.pc \in {"none", "position", "stations", "answered"}
  /\ query.pc \in {"position", "stations"} => query \in Asking
  /\ query.pc = "stations" =>
       /\ query.no \in StationNo
       /\ ~ query.crossed => timeTable[query.train][query.no].station = query.asked

TrainInv ==
  /\ TrainTyped /\ (\A d \in Dumper : WorkOK(dumper[d])) /\ EditionsSeen
  /\ (\A t \in Train \ torn : TrainSound(t)) /\ QueryKnows /\ TimetableTold

-----------------------------------------------------------------------------
(***************************************************************************)
(* Editions, pages and batches                                             *)
(***************************************************************************)
\* Each edition of a train has stations, numbered from 1.
LEMMA TimetablesHaveRows ==
  ASSUME NEW t \in Train
  PROVE  /\ DOMAIN Editions[t] = 1..Len(Editions[t]) /\ Len(Editions[t]) \in Nat \ {0}
         /\ \A e \in DOMAIN Editions[t] :
              /\ e \in Nat \ {0} /\ Editions[t][e] \in Seq(Station)
              /\ Len(Editions[t][e]) \in Nat \ {0}
              /\ DOMAIN Editions[t][e] = 1..Len(Editions[t][e])
              /\ \A k \in DOMAIN Editions[t][e] :
                   /\ k \in StationNo /\ Editions[t][e][k] \in Station
                   /\ RowAt(t, e, k) \in Row /\ RowAt(t, e, k) # NoRow
<1>1. Editions[t] \in Seq(Seq(Station) \ {<<>>}) /\ Editions[t] # <<>>
  BY TrainConstantsOK
<1>2. DOMAIN Editions[t] = 1..Len(Editions[t]) /\ Len(Editions[t]) \in Nat \ {0}
  BY <1>1
<1>3. ASSUME NEW e \in DOMAIN Editions[t]
      PROVE  /\ e \in Nat \ {0} /\ Editions[t][e] \in Seq(Station)
             /\ Len(Editions[t][e]) \in Nat \ {0}
             /\ DOMAIN Editions[t][e] = 1..Len(Editions[t][e])
             /\ \A k \in DOMAIN Editions[t][e] :
                  /\ k \in StationNo /\ Editions[t][e][k] \in Station
                  /\ RowAt(t, e, k) \in Row /\ RowAt(t, e, k) # NoRow
  <2>1. e \in Nat \ {0} /\ Editions[t][e] \in Seq(Station) \ {<<>>}
    BY <1>1, <1>2
  <2>2. /\ Len(Editions[t][e]) \in Nat \ {0}
        /\ DOMAIN Editions[t][e] = 1..Len(Editions[t][e])
    BY <2>1
  <2>3. ASSUME NEW k \in DOMAIN Editions[t][e]
        PROVE  /\ k \in StationNo /\ Editions[t][e][k] \in Station
               /\ RowAt(t, e, k) \in Row /\ RowAt(t, e, k) # NoRow
    <3>1. k \in StationNo
      <4>1. k \in UNION {DOMAIN Editions[t][f] : f \in DOMAIN Editions[t]}
        BY <1>3, <2>3
      <4> QED BY <4>1 DEF StationNo
    <3>2. Editions[t][e][k] \in Station
      BY <2>1, <2>2
    <3> QED BY <2>1, <3>1, <3>2 DEF RowAt, Row, NoRow
  <2> QED BY <2>1, <2>2, <2>3
<1> QED BY <1>2, <1>3

\* The numbers of stations count from 1.
LEMMA StationsAreNumbered ==
  /\ StationNo \subseteq Nat \ {0}
  /\ \A t \in Train : 1 \in StationNo
<1>1. ASSUME NEW k \in StationNo PROVE k \in Nat \ {0}
  <2>1. PICK t \in Train : k \in UNION {DOMAIN Editions[t][e] : e \in DOMAIN Editions[t]}
    BY Zenon DEF StationNo
  <2>2. PICK e \in DOMAIN Editions[t] : k \in DOMAIN Editions[t][e]
    BY Zenon, <2>1
  <2> QED BY <2>2, TimetablesHaveRows
<1>2. ASSUME NEW t \in Train PROVE 1 \in StationNo
  <2>1. 1 \in DOMAIN Editions[t] /\ \A e \in DOMAIN Editions[t] : 1 \in DOMAIN Editions[t][e]
    BY TimetablesHaveRows
  <2> QED BY <2>1, TimetablesHaveRows
<1> QED BY <1>1, <1>2

\* The rows of two vectors, and of a vector and what comes after its first row.
LEMMA RowsAdd ==
  ASSUME NEW a \in Seq(Entry), NEW b \in Seq(Entry), NEW t
  PROVE  RowsOf(a \o b, t) = RowsOf(a, t) \cup RowsOf(b, t)
<1>1. /\ a \o b \in Seq(Entry) /\ Len(a \o b) = Len(a) + Len(b)
      /\ \A i \in 1..Len(a \o b) : (a \o b)[i] = IF i <= Len(a) THEN a[i] ELSE b[i - Len(a)]
  BY ConcatProperties
<1>2. /\ DOMAIN (a \o b) = 1..(Len(a) + Len(b)) /\ DOMAIN a = 1..Len(a) /\ DOMAIN b = 1..Len(b)
      /\ Len(a) \in Nat /\ Len(b) \in Nat
  BY <1>1
<1> DEFINE c == a \o b
<1>3. \A i \in 1..Len(a) : i \in DOMAIN c /\ c[i] = a[i]
  BY <1>1, <1>2
<1>4. \A i \in 1..Len(b) : Len(a) + i \in DOMAIN c /\ c[Len(a) + i] = b[i]
  BY <1>1, <1>2
<1>5. \A i \in DOMAIN c : \/ i \in DOMAIN a /\ c[i] = a[i]
                          \/ i - Len(a) \in DOMAIN b /\ c[i] = b[i - Len(a)]
  BY <1>1, <1>2
<1> HIDE DEF c
<1>6. ToSet(c) = ToSet(a) \cup ToSet(b)
  BY <1>2, <1>3, <1>4, <1>5 DEF ToSet
<1> QED BY <1>6 DEF RowsOf, c

LEMMA RowsAfter ==
  ASSUME NEW a \in Seq(Entry), a # <<>>
  PROVE  /\ Head(a) \in Entry /\ Tail(a) \in Seq(Entry)
         /\ \A t : RowsOf(a, t) = RowsOf(Tail(a), t) \cup (IF Head(a).train = t THEN {Head(a)} ELSE {})
<1>1. Head(a) \in Entry /\ Tail(a) \in Seq(Entry) /\ Len(a) \in Nat /\ Len(a) >= 1 /\ Head(a) = a[1]
  OBVIOUS
<1>2. /\ DOMAIN Tail(a) = 1..(Len(a) - 1) /\ DOMAIN a = 1..Len(a)
      /\ \A i \in 1..(Len(a) - 1) : Tail(a)[i] = a[i + 1]
  BY <1>1
<1> DEFINE b == Tail(a)
<1> HIDE DEF b
<1>3. \A i \in DOMAIN b : i + 1 \in DOMAIN a /\ b[i] = a[i + 1]
  BY <1>1, <1>2 DEF b
<1>4. \A i \in DOMAIN a : i = 1 \/ (i - 1 \in DOMAIN b /\ b[i - 1] = a[i])
  BY <1>1, <1>2 DEF b
<1>5. 1 \in DOMAIN a
  BY <1>1, <1>2
<1>6. ToSet(a) = ToSet(b) \cup {Head(a)}
  BY <1>1, <1>3, <1>4, <1>5 DEF ToSet
<1>7. \A t : RowsOf(a, t) = RowsOf(b, t) \cup (IF Head(a).train = t THEN {Head(a)} ELSE {})
  BY <1>6 DEF RowsOf
<1> QED BY <1>1, <1>7 DEF b

\* A page holds the first n rows of the edition shown, and no rows of another train.
LEMMA PageHolds ==
  ASSUME TrainTyped, NEW t \in Train, NEW n \in 0..Len(Editions[t][edition[t]])
  PROVE  /\ Page(t, n) \in Seq(Entry)
         /\ \A u : u # t => RowsOf(Page(t, n), u) = {}
         /\ \A r \in RowsOf(Page(t, n), t) : r.no \in 1..n /\ r.row = RowAt(t, edition[t], r.no)
         /\ \A k \in 1..n : \E i \in DOMAIN Page(t, n) :
              Page(t, n)[i].train = t /\ Page(t, n)[i].no = k /\ Page(t, n)[i] \in RowsOf(Page(t, n), t)
<1> DEFINE e == edition[t]
           p == Page(t, n)
<1>1. e \in DOMAIN Editions[t] /\ Len(Editions[t][e]) \in Nat /\ n \in Nat
  BY TimetablesHaveRows DEF TrainTyped
<1>2. /\ 1..n \subseteq DOMAIN Editions[t][e]
      /\ \A k \in 1..n : k \in StationNo /\ RowAt(t, e, k) \in Row
  BY <1>1, TimetablesHaveRows
<1>3. p = [k \in 1..n |-> [train |-> t, no |-> k, row |-> RowAt(t, e, k)]]
  BY DEF Page, RowAt
<1> HIDE DEF p, e
<1>4. \A k \in 1..n : p[k] = [train |-> t, no |-> k, row |-> RowAt(t, e, k)] /\ p[k] \in Entry
  BY <1>2, <1>3 DEF Entry
<1>5. p \in Seq(Entry) /\ DOMAIN p = 1..n
  BY <1>1, <1>3, <1>4
<1>6. \A u : u # t => RowsOf(p, u) = {}
  BY <1>4, <1>5 DEF RowsOf, ToSet
<1>7. \A r \in RowsOf(p, t) : r.no \in 1..n /\ r.row = RowAt(t, e, r.no)
  BY <1>4, <1>5 DEF RowsOf, ToSet
<1>8. \A k \in 1..n : k \in DOMAIN p /\ p[k].train = t /\ p[k].no = k /\ p[k] \in RowsOf(p, t)
  BY <1>4, <1>5 DEF RowsOf, ToSet
<1> QED BY <1>5, <1>6, <1>7, <1>8 DEF p, e

\* A product grows with its second factor.
LEMMA ProductsGrow ==
  \A b \in Nat \ {0}, i, j \in Nat :
    /\ b * i \in Nat
    /\ i <= j => b * i <= b * j
    /\ i < j => b * i < b * j
<1> TAKE b \in Nat \ {0}, i \in Nat, j \in Nat
<1>1. b * i \in Nat /\ b * j \in Nat
  OBVIOUS
<1>2. ASSUME i <= j PROVE b * i <= b * j
  <2>1. j - i \in Nat /\ b * j = b * i + b * (j - i) /\ b * (j - i) \in Nat
    BY <1>2
  <2> QED BY <1>1, <2>1
<1>3. ASSUME i < j PROVE b * i < b * j
  <2>1. j - i \in Nat \ {0} /\ b * j = b * i + b * (j - i)
    BY <1>3
  <2>2. b * (j - i) \in Nat \ {0}
    BY <2>1
  <2> QED BY <1>1, <2>1, <2>2
<1> QED BY <1>1, <1>2, <1>3

\* No batch lists a train twice, and if there are batches they list all trains.
LEMMA BatchesList ==
  ASSUME NEW s \in Seq(Train), Apart(s)
  PROVE  /\ Batches(s) \in Seq(Seq(Train))
         /\ \A i \in DOMAIN Batches(s) : Apart(Batches(s)[i])
         /\ Batches(s) # <<>> =>
              \A j \in DOMAIN s : \E i \in DOMAIN Batches(s) :
                \E k \in DOMAIN Batches(s)[i] : Batches(s)[i][k] = s[j]
<1> DEFINE B == BatchSize
           L == Len(s)
           count == L \div B
           first(i) == B * (i - 1) + 1
           last(i) == IF i = count THEN L ELSE B * i
           slice(i) == SubSeq(s, first(i), last(i))
<1>1. B \in Nat \ {0} /\ L \in Nat /\ DOMAIN s = 1..L
  BY TrainConstantsOK
<1>2. count \in Nat /\ B * count <= L
  <2>1. \A l \in Nat, b \in Nat \ {0} :
          (l \div b) \in Nat /\ (l % b) \in Nat /\ l = b * (l \div b) + (l % b)
    OBVIOUS
  <2>2. count \in Nat /\ (L % B) \in Nat /\ L = B * count + (L % B)
    BY <1>1, <2>1
  <2> HIDE DEF count, B, L
  <2>3. B * count \in Nat
    BY <1>1, <2>2, ProductsGrow
  <2> QED BY <1>1, <2>2, <2>3
<1>3. Batches(s) = [i \in 1..count |-> slice(i)]
  BY DEF Batches
<1> HIDE DEF count
<1>4. ASSUME NEW i \in 1..count
      PROVE  first(i) \in 1..L /\ last(i) \in 1..L /\ B * i <= last(i) /\ B * (i - 1) \in Nat
  <2> HIDE DEF B, L
  <2>1. i \in Nat \ {0} /\ i <= count /\ i - 1 \in Nat
    BY <1>2
  <2>2. /\ B * (i - 1) \in Nat /\ B * i \in Nat /\ B * (i - 1) < B * i
        /\ B * i <= B * count /\ B * count \in Nat
    BY <1>1, <1>2, <2>1, ProductsGrow
  <2> QED BY <1>1, <1>2, <2>2
<1>5. ASSUME NEW i \in 1..count
      PROVE  /\ slice(i) \in Seq(Train) /\ DOMAIN slice(i) = 1..(last(i) - first(i) + 1)
             /\ \A k \in DOMAIN slice(i) :
                  first(i) + k - 1 \in DOMAIN s /\ slice(i)[k] = s[first(i) + k - 1]
  <2> DEFINE f == first(i)
             l == last(i)
  <2>1. f \in 1..L /\ l \in 1..L
    BY <1>4
  <2> HIDE DEF f, l, L
  <2>2. f \in Int /\ l \in Int /\ \A k \in f..l : s[k] \in Train
    BY <1>1, <2>1
  <2>3. /\ SubSeq(s, f, l) \in Seq(Train)
        /\ Len(SubSeq(s, f, l)) = IF f <= l THEN l - f + 1 ELSE 0
        /\ \A k \in 1..(l - f + 1) : SubSeq(s, f, l)[k] = s[f + k - 1]
    BY ONLY <2>2, SubSeqProperties
  <2>4. DOMAIN SubSeq(s, f, l) = 1..(l - f + 1)
    BY <2>1, <2>3
  <2>5. \A k \in 1..(l - f + 1) : f + k - 1 \in DOMAIN s
    BY <1>1, <2>1
  <2> QED BY <2>3, <2>4, <2>5 DEF f, l
<1>6. Batches(s) \in Seq(Seq(Train)) /\ DOMAIN Batches(s) = 1..count
  <2> HIDE DEF slice
  <2> QED BY <1>2, <1>3, <1>5
<1>7. ASSUME NEW i \in 1..count PROVE Apart(Batches(s)[i])
  <2> DEFINE c == slice(i)
             f == first(i)
  <2>1. c = Batches(s)[i] /\ f \in Int
    <3>1. first(i) \in Int
      BY <1>4
    <3>2. Batches(s)[i] = slice(i)
      <4> HIDE DEF slice
      <4> QED BY <1>3
    <3> QED BY ONLY <3>1, <3>2
  <2>2. /\ \A k \in DOMAIN c : f + k - 1 \in DOMAIN s /\ c[k] = s[f + k - 1]
        /\ DOMAIN c \subseteq Int
    BY <1>4, <1>5
  <2> HIDE DEF c, f
  <2>3. ASSUME NEW j \in DOMAIN c, NEW k \in DOMAIN c, c[j] = c[k] PROVE j = k
    <3>1. f + j - 1 = f + k - 1
      BY <2>2, <2>3 DEF Apart
    <3> QED BY <2>1, <2>2, <3>1
  <2> QED BY <2>1, <2>3 DEF Apart
<1>8. ASSUME count # 0, NEW j \in DOMAIN s
      PROVE  \E i \in 1..count : \E k \in DOMAIN slice(i) : slice(i)[k] = s[j]
  <2> DEFINE T == {b \in Nat : j <= B * b}
  <2>1. PICK b \in T : \A m \in T : b <= m
    <3>1. j \in T
      <4>1. j \in Nat /\ \A c \in Nat \ {0} : j <= c * j
        BY <1>1
      <4> QED BY <1>1, <4>1
    <3>2. T \subseteq Nat
      OBVIOUS
    <3> HIDE DEF T
    <3> QED BY <3>1, <3>2, Least
  <2>2. b \in Nat /\ j <= B * b /\ j \in 1..L
    BY <1>1, <2>1
  <2>3. b # 0
    <3>1. B * 0 = 0
      BY <1>1
    <3> QED BY <2>2, <3>1
  <2>4. b - 1 \in Nat /\ ~ j <= B * (b - 1)
    <3>1. b - 1 \in Nat
      BY <2>2, <2>3
    <3>2. b - 1 \notin T
      <4> HIDE DEF T
      <4> QED BY <2>1, <2>2, <3>1
    <3> QED BY <3>1, <3>2
  <2> DEFINE i == IF b <= count THEN b ELSE count
  <2> HIDE DEF T, B, L
  <2>5. i \in 1..count /\ i - 1 \in Nat
    BY <1>2, <1>8, <2>2, <2>3
  <2>6. B * (i - 1) < j
    <3>1. B * (i - 1) \in Nat /\ B * (i - 1) <= B * (b - 1) /\ B * (b - 1) \in Nat
      <4>1. i - 1 <= b - 1
        BY <1>2, <2>2
      <4> QED BY <1>1, <2>4, <2>5, <4>1, ProductsGrow
    <3> QED BY <2>2, <2>4, <3>1
  <2>7. j <= last(i)
    BY <1>1, <1>2, <1>4, <2>2, <2>5
  <2> HIDE DEF i
  <2>8. j - first(i) + 1 \in 1..(last(i) - first(i) + 1) /\ first(i) + (j - first(i) + 1) - 1 = j
    BY <1>1, <1>4, <2>2, <2>5, <2>6, <2>7
  <2> DEFINE k == j - first(i) + 1
  <2>9. k \in DOMAIN slice(i) /\ slice(i)[k] = s[first(i) + k - 1] /\ first(i) + k - 1 = j
    <3> HIDE DEF slice, first, last
    <3> QED BY <1>5, <2>5, <2>8
  <2> HIDE DEF k, slice, first
  <2> QED BY <2>5, <2>9
<1>9. Batches(s) # <<>> => count # 0
  BY <1>2, <1>3
<1> HIDE DEF slice
<1>10. \A i \in 1..count : Batches(s)[i] = slice(i)
  BY <1>3
<1>11. ASSUME Batches(s) # <<>>, NEW j \in DOMAIN s
       PROVE  \E i \in DOMAIN Batches(s) : \E k \in DOMAIN Batches(s)[i] : Batches(s)[i][k] = s[j]
  <2>1. PICK i \in 1..count : \E k \in DOMAIN slice(i) : slice(i)[k] = s[j]
    BY <1>8, <1>9, <1>11
  <2> QED BY ONLY <1>6, <1>10, <2>1
<1> QED BY <1>6, <1>7, <1>11

\* What a thread that is idle has.
LEMMA IdleFacts ==
  /\ IdleDumper \in Work /\ IdleDumper.pc = "idle" /\ IdleDumper.batches = <<>>
  /\ IdleDumper.pages = <<>> /\ IdleDumper.rows = <<>>
  /\ \A t \in Train : IdleDumper.began[t] = 0
BY DEF IdleDumper, Work

\* The next batch of a thread, or its end.
LEMMA NextBatch ==
  ASSUME NEW w \in Work, w.pages = <<>>, \A i \in DOMAIN w.batches : Apart(w.batches[i])
  PROVE  /\ AfterBatch(w) \in Work /\ WorkOK(AfterBatch(w)) /\ Ahead(AfterBatch(w)) = Ahead(w)
         /\ AfterBatch(w).rows = <<>> /\ ~ Writes(AfterBatch(w))
         /\ AfterBatch(w).pc = "idle" => Ahead(w) = {}
         /\ w.batches = <<>> => AfterBatch(w).pc = "idle"
         /\ \A t \in Train : AfterBatch(w).began[t] \in {0, w.began[t]}
<1> DEFINE v == AfterBatch(w)
<1>1. /\ IdleDumper \in Work /\ IdleDumper.pc = "idle" /\ IdleDumper.batches = <<>>
      /\ IdleDumper.pages = <<>> /\ IdleDumper.rows = <<>>
      /\ \A t \in Train : IdleDumper.began[t] = 0
  BY IdleFacts
<1>2. w.batches \in Seq(Seq(Train)) /\ w.whole \in BOOLEAN /\ \A t \in Train : w.began[t] \in Nat
  BY DEF Work
<1>3. RowsOf(<<>>, 0) = {} /\ \A t : RowsOf(<<>>, t) = {}
  BY DEF RowsOf, ToSet
<1>4. CASE w.batches = <<>>
  <2>1. /\ v \in Work /\ v.pc = "idle" /\ v.batches = <<>> /\ v.pages = <<>> /\ v.rows = <<>>
        /\ \A t \in Train : v.began[t] = 0
    <3>1. v = [IdleDumper EXCEPT !.whole = w.whole]
      BY <1>4 DEF AfterBatch
    <3> HIDE DEF v
    <3> QED BY <1>1, <1>2, <3>1 DEF Work
  <2> HIDE DEF v
  <2>2. WorkOK(v) /\ ~ Writes(v)
    BY <2>1 DEF WorkOK, Writes, Apart
  <2>3. Ahead(v) = {} /\ Ahead(w) = {}
    BY <1>4, <2>1 DEF Ahead
  <2> QED BY <2>1, <2>2, <2>3 DEF v
<1>5. CASE w.batches # <<>>
  <2> DEFINE bs == w.batches
  <2>1. /\ Head(bs) \in Seq(Train) /\ Tail(bs) \in Seq(Seq(Train)) /\ Head(bs) = bs[1]
        /\ Len(bs) \in Nat /\ Len(bs) >= 1 /\ DOMAIN bs = 1..Len(bs)
        /\ DOMAIN Tail(bs) = 1..(Len(bs) - 1)
        /\ \A i \in 1..(Len(bs) - 1) : Tail(bs)[i] = bs[i + 1]
    BY <1>2, <1>5
  <2>2. /\ v \in Work /\ v.pc = "fetch" /\ v.batches = Tail(bs) /\ v.pages = Head(bs)
        /\ v.rows = <<>> /\ v.began = w.began
    <3>1. v = [w EXCEPT !.pc = "fetch", !.pages = Head(w.batches), !.batches = Tail(w.batches),
                        !.rows = <<>>]
      BY <1>5 DEF AfterBatch
    <3>2. <<>> \in Seq(Entry)
      OBVIOUS
    <3> HIDE DEF v
    <3> QED BY <2>1, <3>1, <3>2 DEF Work
  <2> HIDE DEF v, bs
  <2>3. \A i \in DOMAIN Tail(bs) : i + 1 \in DOMAIN bs /\ Tail(bs)[i] = bs[i + 1]
    BY <2>1
  <2>4. \A i \in DOMAIN bs : i = 1 \/ (i - 1 \in DOMAIN Tail(bs) /\ Tail(bs)[i - 1] = bs[i])
    BY <2>1
  <2>5. 1 \in DOMAIN bs
    BY <2>1
  <2>6. WorkOK(v) /\ ~ Writes(v)
    BY <1>3, <2>1, <2>2, <2>3, <2>5 DEF WorkOK, Writes, bs
  <2>7. Ahead(v) = Ahead(w)
    <3>1. ASSUME NEW t \in Train PROVE t \in Ahead(v) <=> t \in Ahead(w)
      <4>1. t \in Ahead(w) <=> \E i \in DOMAIN bs : \E j \in DOMAIN bs[i] : bs[i][j] = t
        BY DEF Ahead, bs
      <4>2. t \in Ahead(v) <=> \/ \E j \in DOMAIN bs[1] : bs[1][j] = t
                               \/ \E i \in DOMAIN Tail(bs) : \E j \in DOMAIN Tail(bs)[i] : Tail(bs)[i][j] = t
        BY <2>1, <2>2 DEF Ahead
      <4>3. ASSUME NEW i \in DOMAIN bs, \E j \in DOMAIN bs[i] : bs[i][j] = t PROVE t \in Ahead(v)
        BY <2>4, <4>2, <4>3
      <4>4. ASSUME NEW i \in DOMAIN Tail(bs), \E j \in DOMAIN Tail(bs)[i] : Tail(bs)[i][j] = t
            PROVE  t \in Ahead(w)
        BY <2>3, <4>1, <4>4
      <4> QED BY ONLY <2>5, <4>1, <4>2, <4>3, <4>4
    <3> QED BY <3>1 DEF Ahead
  <2> QED BY <1>5, <2>2, <2>6, <2>7 DEF v
<1> QED BY <1>4, <1>5

-----------------------------------------------------------------------------
(***************************************************************************)
(* The steps of the train info service                                     *)
(***************************************************************************)
\* A train stays sound whose rows nobody moves; an update that ends covers trains it has
\* fetched and written.
LEMMA SoundStays ==
  ASSUME NEW t \in Train, TrainSound(t), timeTable'[t] = timeTable[t],
         \A d \in Dumper :
           /\ RowsOf(dumper'[d].rows, t) = RowsOf(dumper[d].rows, t)
           /\ RowsOf(dumper[d].rows, t) # {} /\ Writes(dumper[d]) => Writes(dumper'[d])
           /\ dumper'[d].began[t] > 0 /\ t \notin Ahead(dumper'[d]) =>
                dumper'[d].began[t] = dumper[d].began[t] /\ t \notin Ahead(dumper[d]),
         covered'[t] > 0 =>
           \/ covered'[t] = covered[t]
           \/ \E d \in Dumper : /\ covered'[t] = dumper[d].began[t] /\ t \notin Ahead(dumper[d])
                                /\ RowsOf(dumper[d].rows, t) = {}
  PROVE  TrainSound(t)'
<1>1. /\ \A d, o \in Dumper :
           d # o => RowsOf(dumper'[d].rows, t) = {} \/ RowsOf(dumper'[o].rows, t) = {}
      /\ (\A d \in Dumper : Writes(dumper'[d]) => RowsOf(dumper'[d].rows, t) = {})
           => \A d \in Dumper : Writes(dumper[d]) => RowsOf(dumper[d].rows, t) = {}
  BY DEF TrainSound
<1>2. ASSUME NEW d \in Dumper, TakenOver(t, dumper[d].rows) PROVE TakenOver(t, dumper[d].rows)'
  BY <1>2 DEF TakenOver
<1>3. ASSUME NEW d \in Dumper, RowsOf(dumper'[d].rows, t) # {} PROVE TakenOver(t, dumper[d].rows)'
  BY <1>2, <1>3 DEF TrainSound
<1>4. Whole(t) => Whole(t)'
  BY DEF Whole
<1>5. ASSUME covered'[t] > 0 PROVE Filled(t, covered[t])' /\ RowsSince(t, covered[t])'
  <2>1. CASE covered'[t] = covered[t]
    <3>1. Filled(t, covered[t]) /\ RowsSince(t, covered[t])
      BY <1>5, <2>1 DEF TrainSound
    <3> QED BY <2>1, <3>1 DEF Filled, RowsSince
  <2>2. CASE \E d \in Dumper : /\ covered'[t] = dumper[d].began[t] /\ t \notin Ahead(dumper[d])
                               /\ RowsOf(dumper[d].rows, t) = {}
    <3>1. PICK d \in Dumper : /\ covered'[t] = dumper[d].began[t] /\ t \notin Ahead(dumper[d])
                              /\ RowsOf(dumper[d].rows, t) = {}
      BY <2>2
    <3>2. Filled(t, dumper[d].began[t]) /\ RowsSince(t, dumper[d].began[t])
      BY <1>5, <3>1 DEF TrainSound
    <3> QED BY <3>1, <3>2 DEF Filled, RowsSince
  <2> QED BY <1>5, <2>1, <2>2
<1>6. ASSUME NEW d \in Dumper, dumper'[d].began[t] > 0, t \notin Ahead(dumper'[d])
      PROVE  /\ RowsSince(t, dumper[d].began[t])'
             /\ RowsOf(dumper'[d].rows, t) # {} \/ Filled(t, dumper[d].began[t])'
  <2>1. dumper'[d].began[t] = dumper[d].began[t] /\ t \notin Ahead(dumper[d])
    BY <1>6
  <2>2. /\ RowsSince(t, dumper[d].began[t])
        /\ RowsOf(dumper[d].rows, t) # {} \/ Filled(t, dumper[d].began[t])
    BY <1>6, <2>1 DEF TrainSound
  <2> QED BY <2>1, <2>2 DEF Filled, RowsSince
<1>7. ASSUME \A d \in Dumper : Writes(dumper'[d]) => RowsOf(dumper'[d].rows, t) = {}
      PROVE  Whole(t)'
  BY <1>1, <1>4, <1>7 DEF TrainSound
<1>8. \A d \in Dumper : RowsOf(dumper'[d].rows, t) # {} => TakenOver(t, dumper[d].rows)'
  BY <1>3
<1> QED BY ONLY <1>1, <1>5, <1>6, <1>7, <1>8 DEF TrainSound, Writes, RowsOf, ToSet, Ahead

\* A thread moves on, and editions stay ahead of it.
LEMMA ThreadMoves ==
  ASSUME TrainInv, NEW d \in Dumper, NEW v \in Work, WorkOK(v),
         dumper' = [dumper EXCEPT ![d] = v], UNCHANGED edition,
         \A t \in Train : v.began[t] <= edition[t] /\ covered'[t] <= edition[t]
  PROVE  /\ dumper' \in [Dumper -> Work]
         /\ dumper'[d] = v /\ \A o \in Dumper \ {d} : dumper'[o] = dumper[o]
         /\ (\A o \in Dumper : WorkOK(dumper[o]))'
         /\ EditionsSeen'
<1>1. dumper \in [Dumper -> Work]
  BY DEF TrainInv, TrainTyped
<1>2. /\ dumper' \in [Dumper -> Work]
      /\ dumper'[d] = v /\ \A o \in Dumper \ {d} : dumper'[o] = dumper[o]
  <2> HIDE DEF Work
  <2> QED BY <1>1
<1>3. ASSUME NEW o \in Dumper PROVE WorkOK(dumper'[o])
  BY <1>2, Zenon DEF TrainInv
<1>4. ASSUME NEW t \in Train, NEW o \in Dumper PROVE dumper'[o].began[t] <= edition[t]
  BY <1>2 DEF TrainInv, EditionsSeen
<1> QED BY <1>2, <1>3, <1>4 DEF EditionsSeen, WorkOK, Writes, Apart, RowsOf, ToSet

\* What its move means for a train it has no row of to take or to write.
LEMMA SoundElsewhere ==
  ASSUME NEW d \in Dumper, NEW v, dumper \in [Dumper -> Work],
         dumper'[d] = v, \A o \in Dumper \ {d} : dumper'[o] = dumper[o],
         NEW t \in Train, TrainSound(t), timeTable'[t] = timeTable[t],
         RowsOf(v.rows, t) = RowsOf(dumper[d].rows, t),
         RowsOf(dumper[d].rows, t) # {} /\ Writes(dumper[d]) => Writes(v),
         v.began[t] > 0 /\ t \notin Ahead(v) =>
           v.began[t] = dumper[d].began[t] /\ t \notin Ahead(dumper[d]),
         covered'[t] > 0 =>
           \/ covered'[t] = covered[t]
           \/ /\ covered'[t] = dumper[d].began[t] /\ t \notin Ahead(dumper[d])
              /\ RowsOf(dumper[d].rows, t) = {}
  PROVE  TrainSound(t)'
<1>1. \A o \in Dumper :
        /\ RowsOf(dumper'[o].rows, t) = RowsOf(dumper[o].rows, t)
        /\ RowsOf(dumper[o].rows, t) # {} /\ Writes(dumper[o]) => Writes(dumper'[o])
        /\ dumper'[o].began[t] > 0 /\ t \notin Ahead(dumper'[o]) =>
             dumper'[o].began[t] = dumper[o].began[t] /\ t \notin Ahead(dumper[o])
  <2> TAKE o \in Dumper
  <2>1. CASE o = d
    BY <2>1
  <2>2. CASE o # d
    <3>1. dumper'[o] = dumper[o]
      BY <2>2
    <3> QED BY <3>1
  <2> QED BY <2>1, <2>2
<1>2. covered'[t] > 0 =>
        \/ covered'[t] = covered[t]
        \/ \E o \in Dumper : /\ covered'[t] = dumper[o].began[t] /\ t \notin Ahead(dumper[o])
                             /\ RowsOf(dumper[o].rows, t) = {}
  OBVIOUS
<1> QED BY <1>1, <1>2, SoundStays

\* A thread without a row of its own in the table takes up or gives up work.
LEMMA CalmMove ==
  ASSUME TrainInv, NEW d \in Dumper, NEW v \in Work, WorkOK(v),
         dumper' = [dumper EXCEPT ![d] = v],
         UNCHANGED <<edition, trainNo, timeTable, covered, query>>,
         trainFaults' \in Nat, trainNoQueue' \in Seq(Train),
         torn \subseteq torn', torn' \subseteq Train,
         \A t \in Train : v.began[t] <= edition[t],
         \A t \in Train \ torn' :
           /\ RowsOf(v.rows, t) = RowsOf(dumper[d].rows, t)
           /\ RowsOf(dumper[d].rows, t) # {} /\ Writes(dumper[d]) => Writes(v)
           /\ v.began[t] > 0 /\ t \notin Ahead(v) =>
                v.began[t] = dumper[d].began[t] /\ t \notin Ahead(dumper[d])
  PROVE  TrainInv'
<1>1. /\ dumper \in [Dumper -> Work] /\ \A t \in Train : covered[t] <= edition[t]
      /\ \A t \in Train \ torn' : TrainSound(t)
  BY DEF TrainInv, TrainTyped, EditionsSeen
<1>2. /\ dumper' \in [Dumper -> Work]
      /\ dumper'[d] = v /\ \A o \in Dumper \ {d} : dumper'[o] = dumper[o]
      /\ (\A o \in Dumper : WorkOK(dumper[o]))'
      /\ EditionsSeen'
  BY <1>1, ThreadMoves
<1>3. ASSUME NEW t \in Train \ torn' PROVE TrainSound(t)'
  BY <1>1, <1>2, <1>3, SoundElsewhere
<1>4. TrainTyped'
  BY <1>2 DEF TrainInv, TrainTyped
<1>5. QueryKnows' /\ TimetableTold'
  BY DEF TrainInv, QueryKnows, TimetableTold
<1> QED BY <1>2, <1>3, <1>4, <1>5 DEF TrainInv

LEMMA PopKeeps == ASSUME TrainInv, PopTrainNo PROVE TrainInv'
<1> DEFINE d == "TrainDataUpdater"
           q == trainNoQueue
           w == [IdleDumper EXCEPT !.batches = <<<<Head(q)>>>>]
           v == AfterBatch(w)
<1>1. /\ d \in Dumper /\ dumper[d].pc = "idle" /\ q # <<>> /\ q \in Seq(Train)
      /\ dumper' = [dumper EXCEPT ![d] = v] /\ trainNoQueue' = Tail(q)
      /\ UNCHANGED <<edition, trainNo, timeTable, covered, query, trainFaults, torn>>
      /\ torn \subseteq Train /\ trainFaults \in Nat /\ edition \in [Train -> Nat]
  BY DEF PopTrainNo, tables, TrainInv, TrainTyped, Dumper
<1>2. Head(q) \in Train /\ Tail(q) \in Seq(Train)
  BY <1>1
<1>3. <<<<Head(q)>>>> \in Seq(Seq(Train))
  BY <1>2
<1>4. /\ w \in Work /\ w.batches = <<<<Head(q)>>>> /\ w.pages = <<>> /\ w.rows = <<>>
      /\ \A t \in Train : w.began[t] = 0
  BY <1>3, IdleFacts DEF Work
<1>5. \A i \in DOMAIN w.batches : Apart(w.batches[i])
  BY <1>4 DEF Apart
<1> HIDE DEF w
<1>6. /\ v \in Work /\ WorkOK(v) /\ v.rows = <<>> /\ \A t \in Train : v.began[t] = 0
  BY <1>4, <1>5, NextBatch
<1>7. dumper[d].rows = <<>>
  BY <1>1 DEF TrainInv, WorkOK
<1> HIDE DEF v, d, q
<1>8. ASSUME NEW t \in Train
      PROVE  /\ v.began[t] <= edition[t] /\ ~ v.began[t] > 0
             /\ RowsOf(v.rows, t) = RowsOf(dumper[d].rows, t) /\ RowsOf(dumper[d].rows, t) = {}
  <2>1. edition[t] \in Nat
    BY <1>1
  <2> QED BY <1>6, <1>7, <2>1 DEF RowsOf, ToSet
<1> QED BY <1>1, <1>2, <1>6, <1>8, CalmMove

\* An order of a set lists each member, and none twice.
LEMMA ListsAll ==
  ASSUME NEW S, IsFiniteSet(S), NEW s \in SetToSeqs(S)
  PROVE  s \in Seq(S) /\ Apart(s) /\ \A u \in S : \E i \in DOMAIN s : s[i] = u
<1> DEFINE n == Cardinality(S)
<1>1. n \in Nat /\ s \in [1..n -> S] /\ \A i, j \in 1..n : s[i] = s[j] => i = j
  BY FS_CardinalityType DEF SetToSeqs
<1>2. s \in Injection(1..n, S)
  BY <1>1 DEF Injection, IsInjective
<1>3. Cardinality(1..n) = n
  <2> HIDE DEF n
  <2>1. Cardinality(1..n) = IF 1 > n THEN 0 ELSE n - 1 + 1
    BY <1>1, FS_Interval
  <2> QED BY <1>1, <2>1
<1>4. s \in Surjection(1..n, S)
  <2>1. IsFiniteSet(1..n) /\ (Cardinality(1..n) = Cardinality(S) <=> s \in Surjection(1..n, S))
    BY <1>2, FS_Injection
  <2> QED BY <1>3, <2>1
<1>5. \A u \in S : \E i \in 1..n : s[i] = u
  BY <1>4 DEF Surjection
<1> HIDE DEF n
<1>6. s \in Seq(S) /\ DOMAIN s = 1..n
  BY <1>1
<1>7. Apart(s)
  BY <1>1, <1>6 DEF Apart
<1> QED BY <1>5, <1>6, <1>7

LEMMA BeginUpdateKeeps == ASSUME TrainInv, BeginUpdate PROVE TrainInv'
<1> DEFINE d == "UpdateTimeTable"
           g == [t \in Train |-> IF t \in trainNo THEN edition[t] ELSE 0]
           w(s) == [IdleDumper EXCEPT !.batches = Batches(s), !.began = g]
<1>1. /\ d \in Dumper /\ dumper[d].pc = "idle"
      /\ UNCHANGED <<edition, trainNo, timeTable, covered, query, trainFaults, torn, trainNoQueue>>
      /\ torn \subseteq Train /\ trainFaults \in Nat /\ edition \in [Train -> Nat]
      /\ trainNoQueue \in Seq(Train) /\ trainNo \subseteq Train
  BY DEF BeginUpdate, tables, TrainInv, TrainTyped, Dumper
<1>2. PICK s \in SetToSeqs(trainNo) : dumper' = [dumper EXCEPT ![d] = AfterBatch(w(s))]
  BY Zenon DEF BeginUpdate
<1>3. s \in Seq(Train) /\ Apart(s) /\ \A t \in trainNo : \E i \in DOMAIN s : s[i] = t
  <2>1. IsFiniteSet(trainNo)
    BY <1>1, TrainConstantsOK, FS_Subset
  <2> QED BY <1>1, <1>2, <2>1, ListsAll
<1> HIDE DEF g
<1>4. /\ g \in [Train -> Nat]
      /\ \A t \in Train : g[t] <= edition[t] /\ (g[t] > 0 => t \in trainNo)
  BY <1>1 DEF g
<1>5. /\ Batches(s) \in Seq(Seq(Train))
      /\ \A i \in DOMAIN Batches(s) : Apart(Batches(s)[i])
      /\ Batches(s) # <<>> =>
           \A j \in DOMAIN s : \E i \in DOMAIN Batches(s) :
             \E k \in DOMAIN Batches(s)[i] : Batches(s)[i][k] = s[j]
  BY <1>3, BatchesList
<1> DEFINE x == w(s)
           v == AfterBatch(x)
<1>6. /\ x \in Work /\ x.batches = Batches(s) /\ x.pages = <<>> /\ x.rows = <<>> /\ x.began = g
  <2> HIDE DEF g
  <2>1. IdleDumper \in Work /\ IdleDumper.pages = <<>> /\ IdleDumper.rows = <<>>
    BY IdleFacts
  <2>2. x = [IdleDumper EXCEPT !.batches = Batches(s), !.began = g]
    BY DEF x
  <2> HIDE DEF x
  <2> QED BY <1>4, <1>5, <2>1, <2>2 DEF Work
<1>7. dumper' = [dumper EXCEPT ![d] = v]
  BY <1>2
<1> HIDE DEF x, w
<1>8. /\ v \in Work /\ WorkOK(v) /\ v.rows = <<>> /\ Ahead(v) = Ahead(x)
      /\ v.pc = "idle" => \A t \in Train : v.began[t] = 0
      /\ x.batches = <<>> => v.pc = "idle"
      /\ \A t \in Train : v.began[t] \in {0, g[t]}
  <2>1. v \in Work /\ WorkOK(v) /\ v.rows = <<>> /\ Ahead(v) = Ahead(x)
        /\ (x.batches = <<>> => v.pc = "idle") /\ \A t \in Train : v.began[t] \in {0, x.began[t]}
    BY <1>5, <1>6, NextBatch
  <2> HIDE DEF v
  <2> QED BY <1>6, <2>1 DEF WorkOK
<1>9. dumper[d].rows = <<>>
  BY <1>1 DEF TrainInv, WorkOK
<1> HIDE DEF v
<1>10. ASSUME NEW t \in Train, v.began[t] > 0 PROVE t \in Ahead(v)
  <2>1. t \in trainNo /\ x.batches # <<>>
    <3>1. v.began[t] = g[t] /\ v.pc # "idle"
      BY <1>8, <1>10
    <3> QED BY <1>4, <1>8, <1>10, <3>1
  <2>2. PICK j \in DOMAIN s : s[j] = t
    BY <1>3, <2>1
  <2>3. \E i \in DOMAIN x.batches : \E k \in DOMAIN x.batches[i] : x.batches[i][k] = t
    BY <1>5, <1>6, <2>1, <2>2
  <2> QED BY <1>8, <2>3 DEF Ahead
<1>11. ASSUME NEW t \in Train
       PROVE  /\ v.began[t] <= edition[t]
              /\ RowsOf(v.rows, t) = RowsOf(dumper[d].rows, t) /\ RowsOf(dumper[d].rows, t) = {}
  <2>1. v.began[t] \in {0, g[t]} /\ g[t] <= edition[t] /\ edition[t] \in Nat
    BY <1>1, <1>4, <1>8
  <2> QED BY <1>8, <1>9, <2>1 DEF RowsOf, ToSet
<1> HIDE DEF d
<1> QED BY <1>1, <1>7, <1>8, <1>10, <1>11, CalmMove

\* A thread that has fetched a batch writes it, has nothing to write, or gives it up.
LEMMA BeginDumpKeeps == ASSUME TrainInv, NEW d \in Dumper, BeginDump(d) PROVE TrainInv'
<1> DEFINE w == dumper[d]
<1>1. /\ w \in Work /\ WorkOK(w) /\ w.pc = "fetch" /\ w.pages = <<>> /\ ~ Writes(w)
      /\ UNCHANGED <<edition, trainNo, timeTable, covered, query, trainNoQueue>>
      /\ torn \subseteq Train /\ trainFaults \in Nat /\ edition \in [Train -> Nat]
      /\ trainNoQueue \in Seq(Train) /\ dumper \in [Dumper -> Work]
      /\ \A t \in Train : w.began[t] <= edition[t]
  BY DEF BeginDump, tables, TrainInv, TrainTyped, EditionsSeen, Writes
<1>2. ASSUME w.rows # <<>>, dumper' = [dumper EXCEPT ![d].pc = "select"],
             UNCHANGED <<trainFaults, torn>>
      PROVE  TrainInv'
  <2> DEFINE v == [w EXCEPT !.pc = "select"]
  <2>1. dumper' = [dumper EXCEPT ![d] = v]
    BY <1>1, <1>2
  <2>2. /\ v \in Work /\ v.rows = w.rows /\ v.began = w.began /\ v.pages = w.pages
        /\ v.batches = w.batches /\ v.pc = "select"
    <3> HIDE DEF w
    <3> QED BY <1>1 DEF Work
  <2> HIDE DEF v, w
  <2>3. WorkOK(v) /\ Writes(v) /\ Ahead(v) = Ahead(w)
    BY <1>1, <1>2, <2>2 DEF WorkOK, Writes, Ahead, Apart
  <2> QED BY <1>1, <1>2, <2>1, <2>2, <2>3, CalmMove DEF w
<1>3. ASSUME w.rows = <<>>, dumper' = [dumper EXCEPT ![d] = AfterBatch(w)],
             UNCHANGED <<trainFaults, torn>>
      PROVE  TrainInv'
  <2> DEFINE v == AfterBatch(w)
  <2>1. /\ v \in Work /\ WorkOK(v) /\ Ahead(v) = Ahead(w) /\ v.rows = <<>>
        /\ \A t \in Train : v.began[t] \in {0, w.began[t]}
    <3> HIDE DEF w
    <3> QED BY <1>1, NextBatch DEF WorkOK
  <2> HIDE DEF v
  <2>2. ASSUME NEW t \in Train
        PROVE  v.began[t] <= edition[t] /\ (v.began[t] > 0 => v.began[t] = w.began[t])
    <3>1. edition[t] \in Nat
      BY <1>1
    <3> QED BY <1>1, <2>1, <3>1
  <2> QED BY <1>1, <1>3, <2>1, <2>2, CalmMove DEF v
<1>4. ASSUME trainFaults > 0, trainFaults' = trainFaults - 1, torn' = torn \cup Pending(d),
             dumper' = [dumper EXCEPT ![d] = AfterBatch([w EXCEPT !.whole = FALSE])]
      PROVE  TrainInv'
  <2> DEFINE x == [w EXCEPT !.whole = FALSE]
             v == AfterBatch(x)
  <2>1. /\ x \in Work /\ x.batches = w.batches /\ x.pages = <<>> /\ x.began = w.began
        /\ Ahead(x) = Ahead(w)
    <3> HIDE DEF w
    <3>1. /\ x \in Work /\ x.batches = w.batches /\ x.pages = w.pages /\ x.began = w.began
      BY <1>1 DEF Work
    <3> HIDE DEF x
    <3> QED BY <1>1, <3>1 DEF Ahead
  <2>2. v = AfterBatch(x) /\ dumper' = [dumper EXCEPT ![d] = v]
    BY <1>4
  <2>3. \A i \in DOMAIN w.batches : Apart(w.batches[i])
    BY <1>1 DEF WorkOK
  <2> HIDE DEF x, v
  <2>4. /\ v \in Work /\ WorkOK(v) /\ Ahead(v) = Ahead(w) /\ v.rows = <<>>
        /\ \A t \in Train : v.began[t] \in {0, w.began[t]}
    BY <2>1, <2>2, <2>3, NextBatch
  <2>5. ASSUME NEW t \in Train
        PROVE  v.began[t] <= edition[t] /\ (v.began[t] > 0 => v.began[t] = w.began[t])
    <3>1. edition[t] \in Nat
      BY <1>1
    <3> QED BY <1>1, <2>4, <3>1
  <2>6. torn' \subseteq Train /\ torn \subseteq torn' /\ trainFaults' \in Nat
    <3>1. Pending(d) \subseteq Train
      <4>1. w.rows \in Seq(Entry)
        BY <1>1 DEF Work
      <4>2. \A i \in DOMAIN w.rows : w.rows[i] \in Entry
        BY <4>1
      <4>3. \A r \in Entry : r.train \in Train
        BY DEF Entry
      <4> QED BY <4>2, <4>3 DEF Pending
    <3> QED BY <1>1, <1>4, <3>1
  <2>7. ASSUME NEW t \in Train \ torn'
        PROVE  RowsOf(v.rows, t) = RowsOf(w.rows, t)
    BY <1>4, <2>4, <2>7 DEF Pending, RowsOf, ToSet
  <2> QED BY <1>1, <2>2, <2>4, <2>5, <2>6, <2>7, CalmMove
<1>5. \/ /\ w.rows # <<>> /\ dumper' = [dumper EXCEPT ![d].pc = "select"]
         /\ UNCHANGED <<trainFaults, torn>>
      \/ /\ w.rows = <<>> /\ dumper' = [dumper EXCEPT ![d] = AfterBatch(w)]
         /\ UNCHANGED <<trainFaults, torn>>
      \/ /\ trainFaults > 0 /\ trainFaults' = trainFaults - 1 /\ torn' = torn \cup Pending(d)
         /\ dumper' = [dumper EXCEPT ![d] = AfterBatch([w EXCEPT !.whole = FALSE])]
  BY DEF BeginDump
<1> QED BY <1>2, <1>3, <1>4, <1>5

LEMMA SelectRowKeeps == ASSUME TrainInv, NEW d \in Dumper, SelectRow(d) PROVE TrainInv'
<1> DEFINE w == dumper[d]
           e == Head(w.rows)
           f == timeTable[e.train][e.no] # NoRow
           v == [w EXCEPT !.pc = "write", !.found = f]
<1>1. /\ w \in Work /\ WorkOK(w) /\ w.pc = "select"
      /\ UNCHANGED <<edition, trainNo, timeTable, covered, query, trainNoQueue, trainFaults, torn>>
      /\ torn \subseteq Train /\ trainFaults \in Nat /\ edition \in [Train -> Nat]
      /\ trainNoQueue \in Seq(Train) /\ dumper \in [Dumper -> Work]
      /\ \A t \in Train : w.began[t] <= edition[t]
  BY DEF SelectRow, tables, TrainInv, TrainTyped, EditionsSeen
<1>2. dumper' = [dumper EXCEPT ![d] = v] /\ f \in BOOLEAN
  BY <1>1 DEF SelectRow
<1> HIDE DEF f, w
<1>3. /\ v \in Work /\ v.rows = w.rows /\ v.began = w.began /\ v.pages = w.pages
      /\ v.batches = w.batches /\ v.pc = "write"
  BY <1>1, <1>2 DEF Work
<1> HIDE DEF v
<1>4. WorkOK(v) /\ Writes(v) /\ Ahead(v) = Ahead(w)
  BY <1>1, <1>3 DEF WorkOK, Writes, Ahead, Apart
<1> QED BY <1>1, <1>2, <1>3, <1>4, CalmMove DEF w

LEMMA ChangeEditionKeeps == ASSUME TrainInv, NEW t \in Train, ChangeEdition(t) PROVE TrainInv'
<1>1. /\ UNCHANGED <<trainNo, timeTable, trainNoQueue, dumper, query, trainFaults, torn, covered>>
      /\ edition[t] < Len(Editions[t]) /\ edition' = [edition EXCEPT ![t] = @ + 1]
      /\ edition \in [Train -> Nat] /\ edition[t] \in DOMAIN Editions[t]
  BY DEF ChangeEdition, tables, TrainInv, TrainTyped
<1>2. edition[t] + 1 \in DOMAIN Editions[t]
  BY <1>1, TimetablesHaveRows
<1>3. /\ edition' \in [Train -> Nat] /\ \A u \in Train : edition'[u] \in DOMAIN Editions[u]
      /\ \A u \in Train : edition[u] \in Nat /\ edition[u] <= edition'[u]
  BY <1>1, <1>2 DEF TrainInv, TrainTyped
<1>4. TrainTyped'
  BY <1>1, <1>3 DEF TrainInv, TrainTyped
<1>5. EditionsSeen'
  <2>1. ASSUME NEW u \in Train, NEW o \in Dumper
        PROVE  covered[u] <= edition'[u] /\ dumper[o].began[u] <= edition'[u]
    <3>1. dumper[o].began[u] \in Nat /\ covered[u] \in Nat /\ edition'[u] \in Nat
      BY <1>3 DEF TrainInv, TrainTyped, Work
    <3>2. covered[u] <= edition[u] /\ dumper[o].began[u] <= edition[u]
      BY DEF TrainInv, EditionsSeen
    <3> QED BY <1>3, <3>1, <3>2
  <2>2. "TrainDataUpdater" \in Dumper
    BY DEF Dumper
  <2> QED BY <1>1, <2>1, <2>2 DEF EditionsSeen
<1>6. (\A o \in Dumper : WorkOK(dumper[o]))'
  BY <1>1, Zenon DEF TrainInv
<1>7. \A u \in Train \ torn : TrainSound(u)'
  <2> TAKE u \in Train \ torn
  <2> QED BY <1>1, SoundStays DEF TrainInv
<1>8. QueryKnows' /\ TimetableTold'
  <2>1. QueryKnows /\ TimetableTold
    BY DEF TrainInv
  <2>2. query' = query /\ timeTable' = timeTable
    BY <1>1
  <2> QED BY ONLY <2>1, <2>2 DEF QueryKnows, TimetableTold
<1> QED BY <1>1, <1>4, <1>5, <1>6, <1>7, <1>8 DEF TrainInv

\* A thread that takes a page has its rows after those it had, and one train less ahead.
LEMMA PageTaken ==
  ASSUME TrainInv, NEW d \in Dumper, dumper[d].pc = "fetch", dumper[d].pages # <<>>,
         NEW n \in 0..Len(FullPage(Head(dumper[d].pages))), NEW v,
         v = [dumper[d] EXCEPT !.pages = Tail(dumper[d].pages),
                               !.rows = dumper[d].rows \o Page(Head(dumper[d].pages), n)]
  PROVE  LET w == dumper[d]
             t == Head(w.pages)
         IN  /\ t \in Train /\ Len(FullPage(t)) = Len(Editions[t][edition[t]])
             /\ v \in Work /\ WorkOK(v) /\ v.began = w.began /\ ~ Writes(w) /\ ~ Writes(v)
             /\ RowsOf(w.rows, t) = {} /\ RowsOf(v.rows, t) = RowsOf(Page(t, n), t)
             /\ \A u \in Train \ {t} : /\ RowsOf(v.rows, u) = RowsOf(w.rows, u)
                                       /\ u \notin Ahead(v) => u \notin Ahead(w)
<1> DEFINE w == dumper[d]
           ps == w.pages
           t == Head(ps)
           p == Page(t, n)
<1>1. /\ w \in Work /\ WorkOK(w) /\ ps \in Seq(Train) /\ ps # <<>> /\ w.rows \in Seq(Entry)
      /\ w.pc = "fetch" /\ TrainTyped
  BY DEF TrainInv, TrainTyped, Work
<1> HIDE DEF w, ps
<1>2. /\ t = ps[1] /\ t \in Train /\ Tail(ps) \in Seq(Train) /\ 1 \in DOMAIN ps
      /\ DOMAIN ps = 1..Len(ps) /\ Len(ps) \in Nat /\ DOMAIN Tail(ps) = 1..(Len(ps) - 1)
      /\ \A i \in 1..(Len(ps) - 1) : Tail(ps)[i] = ps[i + 1]
  BY <1>1
<1>3. /\ \A i \in DOMAIN Tail(ps) : i + 1 \in DOMAIN ps /\ i + 1 # 1 /\ Tail(ps)[i] = ps[i + 1]
      /\ \A i \in DOMAIN ps : i = 1 \/ (i - 1 \in DOMAIN Tail(ps) /\ Tail(ps)[i - 1] = ps[i])
  BY <1>2
<1>4. Len(FullPage(t)) = Len(Editions[t][edition[t]]) /\ n \in 0..Len(Editions[t][edition[t]])
  <2>1. edition[t] \in DOMAIN Editions[t] /\ Len(Editions[t][edition[t]]) \in Nat
    BY <1>1, <1>2, TimetablesHaveRows DEF TrainTyped
  <2> DEFINE N == Len(Editions[t][edition[t]])
  <2>2. Len(FullPage(t)) = N
    <3>1. DOMAIN FullPage(t) = 1..N
      BY DEF FullPage, Page
    <3>2. FullPage(t) = [k \in 1..N |-> FullPage(t)[k]]
      BY DEF FullPage, Page
    <3> HIDE DEF N
    <3> QED BY <2>1, <3>1, <3>2 DEF N
  <2> QED BY <2>2 DEF w, ps
<1>5. /\ p \in Seq(Entry) /\ \A u : u # t => RowsOf(p, u) = {}
  BY <1>1, <1>2, <1>4, PageHolds
<1> HIDE DEF p, t
<1>6. v = [w EXCEPT !.pages = Tail(ps), !.rows = w.rows \o p]
  BY DEF w, ps, p, t
<1>7. w.rows \o p \in Seq(Entry)
  BY <1>1, <1>5
<1>8. /\ v \in Work /\ v.pages = Tail(ps) /\ v.rows = w.rows \o p /\ v.began = w.began
      /\ v.batches = w.batches /\ v.pc = "fetch"
  BY <1>1, <1>2, <1>6, <1>7 DEF Work
<1>9. \A u : RowsOf(v.rows, u) = RowsOf(w.rows, u) \cup RowsOf(p, u)
  <2>1. \A u : RowsOf(w.rows \o p, u) = RowsOf(w.rows, u) \cup RowsOf(p, u)
    BY ONLY <1>1, <1>5, RowsAdd
  <2> QED BY <1>8, <2>1
<1>10. Apart(ps) /\ \A i \in DOMAIN ps : RowsOf(w.rows, ps[i]) = {}
  BY <1>1 DEF WorkOK, ps
<1>11. Apart(Tail(ps)) /\ \A i \in DOMAIN Tail(ps) : Tail(ps)[i] # t
  <2>1. ASSUME NEW i \in DOMAIN Tail(ps), NEW j \in DOMAIN Tail(ps), Tail(ps)[i] = Tail(ps)[j]
        PROVE  i = j
    <3>1. i + 1 = j + 1 /\ i \in Int /\ j \in Int
      BY <1>2, <1>3, <1>10, <2>1 DEF Apart
    <3> QED BY <3>1
  <2>2. ASSUME NEW i \in DOMAIN Tail(ps) PROVE Tail(ps)[i] # t
    BY <1>2, <1>3, <1>10 DEF Apart
  <2> QED BY <2>1, <2>2 DEF Apart
<1>12. RowsOf(w.rows, t) = {}
  BY <1>2, <1>10
<1>13. WorkOK(v)
  <2>1. \A i \in DOMAIN Tail(ps) : RowsOf(v.rows, Tail(ps)[i]) = {}
    BY <1>3, <1>5, <1>9, <1>10, <1>11
  <2>2. \A i \in DOMAIN v.batches : Apart(v.batches[i])
    BY <1>1, <1>8 DEF WorkOK
  <2> QED BY <1>8, <1>11, <2>1, <2>2 DEF WorkOK, Writes
<1>14. ASSUME NEW u \in Train \ {t}, u \in Ahead(w) PROVE u \in Ahead(v)
  <2>1. CASE \E i \in DOMAIN ps : ps[i] = u
    <3>1. PICK i \in DOMAIN ps : ps[i] = u
      BY <2>1
    <3>2. i - 1 \in DOMAIN Tail(ps) /\ Tail(ps)[i - 1] = u
      BY <1>2, <1>3, <1>14, <3>1
    <3>3. \E j \in DOMAIN v.pages : v.pages[j] = u
      BY <1>8, <3>2
    <3> QED BY <1>14, <3>3 DEF Ahead
  <2>2. CASE ~ \E i \in DOMAIN ps : ps[i] = u
    BY <1>8, <1>14, <2>2 DEF Ahead, ps
  <2> QED BY <2>1, <2>2
<1>15. ~ Writes(w) /\ ~ Writes(v)
  BY <1>1, <1>8 DEF Writes
<1>16. \A u : RowsOf(v.rows, u) = IF u = t THEN RowsOf(p, t) ELSE RowsOf(w.rows, u)
  BY <1>5, <1>9, <1>12
<1> QED BY <1>2, <1>4, <1>8, <1>12, <1>13, <1>14, <1>15, <1>16 DEF w, ps, t, p

\* A complete page of a train nobody else has rows of, with a number for every row there
\* is, leaves the train sound.
LEMMA PageIsTakenOver ==
  ASSUME TrainInv, NEW d \in Dumper, NEW t \in Train, TrainSound(t), NEW v,
         \A o \in Dumper : RowsOf(dumper[o].rows, t) = {},
         \A k \in StationNo : k > Len(Editions[t][edition[t]]) => timeTable[t][k] = NoRow,
         RowsOf(v.rows, t) = RowsOf(Page(t, Len(Editions[t][edition[t]])), t), ~ Writes(v),
         v.began = dumper[d].began,
         dumper'[d] = v, \A o \in Dumper \ {d} : dumper'[o] = dumper[o],
         UNCHANGED <<timeTable, covered>>
  PROVE  TrainSound(t)'
<1> DEFINE e == edition[t]
           n == Len(Editions[t][e])
           p == RowsOf(v.rows, t)
<1>1. e \in DOMAIN Editions[t] /\ n \in Nat \ {0} /\ DOMAIN Editions[t][e] = 1..n /\ e \in Nat
  BY TimetablesHaveRows DEF TrainInv, TrainTyped
<1>2. /\ \A r \in p : r.no \in 1..n /\ r.row = RowAt(t, e, r.no)
      /\ \A k \in 1..n : \E r \in p : r.no = k
  <2>1. n \in 0..Len(Editions[t][edition[t]]) /\ TrainTyped /\ t \in Train
    BY <1>1 DEF TrainInv
  <2> HIDE DEF n
  <2>2. /\ \A r \in RowsOf(Page(t, n), t) : r.no \in 1..n /\ r.row = RowAt(t, e, r.no)
        /\ \A k \in 1..n : \E i \in DOMAIN Page(t, n) :
             Page(t, n)[i].no = k /\ Page(t, n)[i] \in RowsOf(Page(t, n), t)
    BY ONLY <2>1, PageHolds
  <2>3. p = RowsOf(Page(t, n), t)
    BY DEF n
  <2> HIDE DEF p
  <2> QED BY <2>2, <2>3
<1> HIDE DEF p
<1>3. \A o \in Dumper \ {d} : RowsOf(dumper'[o].rows, t) = {}
  OBVIOUS
<1>4. TakenOver(t, v.rows)'
  <2>1. \A k \in StationNo \ DOMAIN Editions[t][e] : timeTable[t][k] = NoRow
    <3> TAKE k \in StationNo \ DOMAIN Editions[t][e]
    <3>1. k \in Nat \ {0} /\ k \notin 1..n
      BY <1>1, StationsAreNumbered
    <3>2. k > n
      <4> HIDE DEF n
      <4> QED BY <1>1, <3>1
    <3> QED BY <3>2
  <2>2. /\ \A r \in RowsOf(v.rows, t) : r.no \in DOMAIN Editions[t][e] /\ r.row = RowAt(t, e, r.no)
        /\ \A k \in DOMAIN Editions[t][e] : \E r \in RowsOf(v.rows, t) : r.no = k
    BY <1>1, <1>2 DEF p
  <2> HIDE DEF e
  <2>3. TakenOver(t, v.rows)
    BY <1>1, <2>1, <2>2 DEF TakenOver
  <2> QED BY <1>1, <2>1, <2>2 DEF TakenOver
<1>5. Whole(t)'
  <2>1. Whole(t)
    BY DEF TrainSound
  <2> QED BY <2>1 DEF Whole
<1>6. ASSUME NEW m \in Nat, m <= e, RowsSince(t, m) PROVE RowsSince(t, m)'
  <2>1. \A r \in p : r.row.edition >= m
    <3> TAKE r \in p
    <3>1. r.row.edition = e
      <4> HIDE DEF e, n
      <4>1. r.row = RowAt(t, e, r.no)
        BY <1>2
      <4> QED BY <4>1 DEF RowAt
    <3> QED BY <1>6, <3>1
  <2>2. ASSUME NEW o \in Dumper, NEW r \in RowsOf(dumper'[o].rows, t) PROVE r.row.edition >= m
    BY <1>3, <2>1, <2>2 DEF p
  <2> QED BY <2>2 DEF RowsSince
<1>7. ASSUME NEW m \in Nat PROVE RowsSince(t, m)
  BY DEF RowsSince
<1>8. covered[t] \in Nat /\ covered[t] <= e
  BY DEF TrainInv, TrainTyped, EditionsSeen
<1>9. ASSUME covered'[t] > 0 PROVE Filled(t, covered[t])' /\ RowsSince(t, covered[t])'
  <2>1. Filled(t, covered[t])
    BY <1>9 DEF TrainSound
  <2>2. Filled(t, covered[t])'
    BY <2>1 DEF Filled
  <2>3. RowsSince(t, covered[t])'
    BY <1>6, <1>7, <1>8 DEF RowsSince
  <2> QED BY <2>2, <2>3
<1>10. ASSUME NEW o \in Dumper, dumper'[o].began[t] > 0, t \notin Ahead(dumper'[o])
       PROVE  /\ RowsSince(t, dumper[o].began[t])'
              /\ RowsOf(dumper'[o].rows, t) # {} \/ Filled(t, dumper[o].began[t])'
  <2>1. /\ dumper'[o].began[t] = dumper[o].began[t] /\ dumper[o].began[t] \in Nat
        /\ dumper[o].began[t] <= e
    <3>1. dumper'[o].began = dumper[o].began
      BY <1>10
    <3> QED BY <3>1 DEF TrainInv, TrainTyped, EditionsSeen, Work
  <2>2. RowsSince(t, dumper[o].began[t])'
    BY <1>6, <1>7, <2>1 DEF RowsSince
  <2>3. CASE o = d
    <3>1. RowsOf(dumper'[o].rows, t) # {}
      <4>1. \E r \in p : r.no = 1
        BY <1>1, <1>2
      <4>2. RowsOf(dumper'[o].rows, t) = p
        BY <2>3 DEF p
      <4> QED BY ONLY <4>1, <4>2
    <3> QED BY <2>2, <3>1
  <2>4. CASE o # d
    <3>1. Filled(t, dumper[o].began[t])
      BY <1>10, <2>1, <2>4 DEF TrainSound
    <3> QED BY <2>1, <2>2, <3>1 DEF Filled
  <2> QED BY <2>3, <2>4
<1>11. \A o \in Dumper : RowsOf(dumper'[o].rows, t) # {} => TakenOver(t, dumper[o].rows)'
  <2> TAKE o \in Dumper
  <2>1. CASE o = d
    <3>1. dumper'[o].rows = v.rows
      BY <2>1
    <3> QED BY <1>4, <3>1 DEF TakenOver
  <2> QED BY <1>3, <2>1
<1>12. \A o, q \in Dumper : o # q => RowsOf(dumper'[o].rows, t) = {} \/ RowsOf(dumper'[q].rows, t) = {}
  BY <1>3
<1> QED BY ONLY <1>5, <1>9, <1>10, <1>11, <1>12
        DEF TrainSound, Writes, RowsOf, ToSet, Ahead

LEMMA FetchPageKeeps == ASSUME TrainInv, NEW d \in Dumper, FetchPage(d) PROVE TrainInv'
<1> DEFINE w == dumper[d]
<1>1. /\ w.pc = "fetch" /\ w.pages # <<>>
      /\ UNCHANGED <<edition, trainNo, timeTable, trainNoQueue, query, covered>>
      /\ torn \subseteq Train /\ trainFaults \in Nat /\ dumper \in [Dumper -> Work]
  BY DEF FetchPage, tables, TrainInv, TrainTyped
<1>2. PICK t \in Train : t = Head(w.pages)
  <2>1. w.pages \in Seq(Train)
    BY <1>1 DEF Work
  <2> QED BY <1>1, <2>1
<1>3. PICK n \in 0..Len(FullPage(t)) :
        /\ dumper' = [dumper EXCEPT ![d].pages = Tail(w.pages), ![d].rows = w.rows \o Page(t, n)]
        /\ \/ n = Len(FullPage(t)) /\ torn' = torn \cup Clashes(d, FullPage(t))
           \/ torn' = torn \cup {t}
        /\ trainFaults' = trainFaults \/ (trainFaults > 0 /\ trainFaults' = trainFaults - 1)
  <2>1. Len(FullPage(t)) \in Nat /\ FullPage(t) = Page(t, Len(FullPage(t)))
    <3>1. edition[t] \in DOMAIN Editions[t]
      BY DEF TrainInv, TrainTyped
    <3>2. Len(Editions[t][edition[t]]) \in Nat
      BY <3>1, TimetablesHaveRows
    <3> QED BY <3>2 DEF FullPage, Page
  <2>2. \/ /\ dumper' = [dumper EXCEPT ![d].pages = Tail(w.pages), ![d].rows = w.rows \o FullPage(t)]
           /\ torn' = torn \cup Clashes(d, FullPage(t)) /\ trainFaults' = trainFaults
        \/ /\ trainFaults > 0 /\ trainFaults' = trainFaults - 1 /\ torn' = torn \cup {t}
           /\ \E n \in 0..(Len(FullPage(t)) - 1) :
                dumper' = [dumper EXCEPT ![d].pages = Tail(w.pages), ![d].rows = w.rows \o Page(t, n)]
    BY Zenon, <1>2 DEF FetchPage
  <2> HIDE DEF w
  <2>3. Len(FullPage(t)) \in 0..Len(FullPage(t)) /\ 0..(Len(FullPage(t)) - 1) \subseteq 0..Len(FullPage(t))
    BY <2>1
  <2> QED BY Zenon, <2>1, <2>2, <2>3
<1> DEFINE v == [w EXCEPT !.pages = Tail(w.pages), !.rows = w.rows \o Page(t, n)]
<1>4. dumper' = [dumper EXCEPT ![d] = v]
  BY <1>3, <1>1
<1>5. /\ t \in Train /\ Len(FullPage(t)) = Len(Editions[t][edition[t]])
      /\ v \in Work /\ WorkOK(v) /\ v.began = w.began /\ ~ Writes(w) /\ ~ Writes(v)
      /\ RowsOf(w.rows, t) = {} /\ RowsOf(v.rows, t) = RowsOf(Page(t, n), t)
      /\ \A u \in Train \ {t} : /\ RowsOf(v.rows, u) = RowsOf(w.rows, u)
                                /\ u \notin Ahead(v) => u \notin Ahead(w)
  <2>1. n \in 0..Len(FullPage(Head(dumper[d].pages))) /\ dumper[d].pc = "fetch" /\ dumper[d].pages # <<>>
    BY <1>1, <1>2
  <2>2. v = [dumper[d] EXCEPT !.pages = Tail(dumper[d].pages),
                              !.rows = dumper[d].rows \o Page(Head(dumper[d].pages), n)]
    BY <1>2
  <2> HIDE DEF v
  <2>3. /\ Head(w.pages) \in Train /\ Len(FullPage(Head(w.pages))) = Len(Editions[t][edition[t]])
        /\ v \in Work /\ WorkOK(v) /\ v.began = w.began /\ ~ Writes(w) /\ ~ Writes(v)
        /\ RowsOf(w.rows, Head(w.pages)) = {}
        /\ RowsOf(v.rows, Head(w.pages)) = RowsOf(Page(Head(w.pages), n), Head(w.pages))
        /\ \A u \in Train \ {Head(w.pages)} :
             /\ RowsOf(v.rows, u) = RowsOf(w.rows, u)
             /\ u \notin Ahead(v) => u \notin Ahead(w)
    BY ONLY TrainInv, d \in Dumper, <1>2, <2>1, <2>2, PageTaken
  <2> HIDE DEF w
  <2>4. Head(w.pages) = t
    BY <1>2
  <2> QED BY <2>3, <2>4
<1> HIDE DEF v
<1>6. /\ dumper' \in [Dumper -> Work]
      /\ dumper'[d] = v /\ \A o \in Dumper \ {d} : dumper'[o] = dumper[o]
      /\ (\A o \in Dumper : WorkOK(dumper[o]))'
      /\ EditionsSeen'
  <2>1. \A u \in Train : v.began[u] <= edition[u] /\ covered'[u] <= edition[u]
    BY <1>1, <1>5 DEF TrainInv, EditionsSeen
  <2> QED BY <1>1, <1>4, <1>5, <2>1, ThreadMoves
<1> HIDE DEF w
<1>7. TrainTyped'
  <2>1. Clashes(d, FullPage(t)) \subseteq Train
    BY DEF Clashes
  <2>2. torn' \subseteq Train /\ trainFaults' \in Nat
    BY <1>3, <1>1, <1>5, <2>1
  <2>3. TrainTyped
    BY DEF TrainInv
  <2> QED BY ONLY <1>1, <1>6, <2>2, <2>3 DEF TrainTyped
<1>8. ASSUME NEW u \in Train \ torn', u # t PROVE TrainSound(u)'
  <2>1. TrainSound(u) /\ u \in Train
    BY <1>3, <1>8 DEF TrainInv
  <2>2. /\ RowsOf(v.rows, u) = RowsOf(dumper[d].rows, u) /\ ~ Writes(dumper[d])
        /\ v.began[u] = dumper[d].began[u]
        /\ u \notin Ahead(v) => u \notin Ahead(dumper[d])
        /\ timeTable'[u] = timeTable[u] /\ covered'[u] = covered[u]
    BY <1>1, <1>5, <1>8, <2>1 DEF w
  <2> QED BY <1>1, <1>6, <2>1, <2>2, SoundElsewhere
<1>9. ASSUME t \notin torn' PROVE TrainSound(t)'
  <2>1. TrainSound(t) /\ t \notin Clashes(d, FullPage(t)) /\ n = Len(FullPage(t))
    BY <1>3, <1>5, <1>9 DEF TrainInv
  <2> DEFINE N == Len(Editions[t][edition[t]])
             p == Page(t, N)
  <2>2. n = N /\ FullPage(t) = p
    BY <1>5, <2>1 DEF FullPage
  <2>3. /\ N \in Nat \ {0} /\ TrainTyped /\ N \in 0..N
    <3>1. edition[t] \in DOMAIN Editions[t] /\ TrainTyped
      BY <1>5 DEF TrainInv, TrainTyped
    <3>2. N \in Nat \ {0}
      BY <1>5, <3>1, TimetablesHaveRows
    <3> QED BY <3>1, <3>2
  <2>4. \A k \in 1..N : \E i \in DOMAIN p : p[i].train = t /\ p[i].no = k
    <3>1. N \in 0..Len(Editions[t][edition[t]])
      BY <2>3
    <3> HIDE DEF N
    <3>2. \A k \in 1..N : \E i \in DOMAIN Page(t, N) :
            Page(t, N)[i].train = t /\ Page(t, N)[i].no = k /\ Page(t, N)[i] \in RowsOf(Page(t, N), t)
      BY ONLY <1>5, <2>3, <3>1, PageHolds
    <3> QED BY <3>2
  <2>5. \A i \in DOMAIN p : p[i].no \in 1..N
    BY DEF Page
  <2> HIDE DEF N, p
  <2>6. \E i \in DOMAIN p : p[i].train = t
    BY <2>3, <2>4
  <2>7. /\ \A o \in Dumper \ {d} : t \notin Pending(o)
        /\ \A k \in StationNo : timeTable[t][k] # NoRow => \E i \in DOMAIN p : p[i].no = k
    BY <1>5, <2>1, <2>2, <2>6 DEF Clashes
  <2>8. \A o \in Dumper : RowsOf(dumper[o].rows, t) = {}
    BY <1>5, <2>7 DEF w, Pending, RowsOf, ToSet
  <2>9. \A k \in StationNo : k > N => timeTable[t][k] = NoRow
    BY <2>3, <2>5, <2>7
  <2>10. RowsOf(v.rows, t) = RowsOf(Page(t, N), t)
    BY <1>5, <2>2
  <2>11. v.began = dumper[d].began /\ timeTable' = timeTable /\ covered' = covered
    BY <1>1, <1>5 DEF w
  <2>12. /\ \A k \in StationNo : k > Len(Editions[t][edition[t]]) => timeTable[t][k] = NoRow
         /\ RowsOf(v.rows, t) = RowsOf(Page(t, Len(Editions[t][edition[t]])), t)
    BY <2>9, <2>10 DEF N
  <2>13. TrainInv /\ d \in Dumper /\ t \in Train /\ ~ Writes(v)
    BY <1>5
  <2> QED BY ONLY <1>6, <2>1, <2>8, <2>11, <2>12, <2>13, PageIsTakenOver
<1>10. QueryKnows' /\ TimetableTold'
  <2>1. QueryKnows /\ TimetableTold
    BY DEF TrainInv
  <2> QED BY ONLY <1>1, <2>1 DEF QueryKnows, TimetableTold
<1>11. \A u \in Train \ torn' : TrainSound(u)'
  BY <1>8, <1>9
<1> QED BY ONLY <1>6, <1>7, <1>10, <1>11 DEF TrainInv

\* A thread that has written a row, or passed it over, has the rest to write, or goes on to
\* its next batch; when nothing is ahead of it, the trains its update began with are covered.
LEMMA RowDone ==
  ASSUME TrainInv, NEW d \in Dumper, WriteRow(d)
  PROVE  LET w == dumper[d]
             e == Head(w.rows)
         IN  \E v \in Work :
               /\ dumper' = [dumper EXCEPT ![d] = v] /\ WorkOK(v)
               /\ w.rows \in Seq(Entry) /\ w.rows # <<>> /\ Writes(w)
               /\ v.rows = Tail(w.rows) /\ (v.rows # <<>> => Writes(v))
               /\ Ahead(v) = Ahead(w) /\ \A t \in Train : v.began[t] \in {0, w.began[t]}
               /\ covered' \in [Train -> Nat]
               /\ \A t \in Train :
                    \/ covered'[t] = covered[t]
                    \/ covered'[t] = w.began[t] /\ v.rows = <<>> /\ Ahead(w) = {}
<1> DEFINE w == dumper[d]
           rest == [w EXCEPT !.rows = Tail(w.rows), !.pc = "select", !.found = FALSE]
           done == Tail(w.rows) = <<>>
           v == IF done THEN AfterBatch(rest) ELSE rest
<1>1. /\ w \in Work /\ WorkOK(w) /\ w.pc = "write" /\ covered \in [Train -> Nat]
      /\ dumper' = [dumper EXCEPT ![d] = v]
      /\ covered' = IF v.pc = "idle" /\ v.whole
                      THEN [t \in Train |-> IF w.began[t] > 0 THEN w.began[t] ELSE covered[t]]
                      ELSE covered
  BY Zenon DEF WriteRow, TrainInv, TrainTyped
<1> HIDE DEF w
<1>2. /\ w.rows \in Seq(Entry) /\ w.rows # <<>> /\ Writes(w) /\ w.pages = <<>>
      /\ w.began \in [Train -> Nat] /\ \A i \in DOMAIN w.batches : Apart(w.batches[i])
  BY <1>1 DEF Work, WorkOK, Writes
<1>3. Tail(w.rows) \in Seq(Entry)
  BY <1>2
<1>4. /\ rest \in Work /\ rest.rows = Tail(w.rows) /\ rest.pages = <<>>
      /\ rest.batches = w.batches /\ rest.began = w.began /\ rest.pc = "select"
  BY <1>1, <1>2, <1>3 DEF Work
<1> HIDE DEF rest
<1>5. Ahead(rest) = Ahead(w) /\ Writes(rest)
  BY <1>2, <1>4 DEF Ahead, Writes
<1>6. /\ v \in Work /\ WorkOK(v) /\ v.rows = Tail(w.rows) /\ (v.rows # <<>> => Writes(v))
      /\ Ahead(v) = Ahead(w) /\ \A t \in Train : v.began[t] \in {0, w.began[t]}
      /\ v.pc = "idle" => v.rows = <<>> /\ Ahead(w) = {}
  <2>1. CASE done
    <3>1. v = AfterBatch(rest)
      BY <2>1
    <3> HIDE DEF v
    <3> QED BY <1>2, <1>4, <1>5, <2>1, <3>1, NextBatch
  <2>2. CASE ~ done
    <3>1. v = rest
      BY <2>2
    <3> HIDE DEF v
    <3>2. WorkOK(rest)
      BY <1>2, <1>4, <1>5, <2>2 DEF WorkOK, Apart
    <3> QED BY <1>4, <1>5, <3>1, <3>2
  <2> QED BY <2>1, <2>2
<1> HIDE DEF v
<1>7. /\ covered' \in [Train -> Nat]
      /\ \A t \in Train : \/ covered'[t] = covered[t]
                          \/ covered'[t] = w.began[t] /\ v.pc = "idle"
  BY <1>1, <1>2
<1> QED BY <1>1, <1>2, <1>6, <1>7 DEF w

\* What a written row does to its train: the rows left keep the edition, and when none is
\* left the table is the whole of it.
LEMMA RowIsTakenOver ==
  ASSUME NEW t \in Train, NEW a \in Seq(Entry), a # <<>>, Head(a).train = t, TakenOver(t, a),
         timeTable \in [Train -> [StationNo -> Row \cup {NoRow}]],
         timeTable' = [timeTable EXCEPT ![t] = WrittenRow(Head(a))]
  PROVE  /\ TakenOver(t, Tail(a))'
         /\ RowsOf(Tail(a), t) = {} =>
              /\ Whole(t)'
              /\ \A n \in Nat : n <= Head(a).row.edition => Filled(t, n)'
<1> DEFINE x == Head(a)
           b == Tail(a)
<1>1. x \in Entry /\ b \in Seq(Entry) /\ RowsOf(a, t) = RowsOf(b, t) \cup {x}
  BY RowsAfter
<1> HIDE DEF x, b
<1>2. PICK e \in DOMAIN Editions[t] :
        /\ \A r \in RowsOf(a, t) : r.no \in DOMAIN Editions[t][e] /\ r.row = RowAt(t, e, r.no)
        /\ \A k \in DOMAIN Editions[t][e] :
             timeTable[t][k] = RowAt(t, e, k) \/ \E r \in RowsOf(a, t) : r.no = k
        /\ \A k \in StationNo \ DOMAIN Editions[t][e] : timeTable[t][k] = NoRow
  BY Zenon DEF TakenOver
<1>3. x.no \in DOMAIN Editions[t][e] /\ x.row = RowAt(t, e, x.no) /\ x.no \in StationNo
  BY <1>1, <1>2 DEF Entry
<1>4. \A k \in StationNo : timeTable'[t][k] = IF k = x.no THEN x.row ELSE timeTable[t][k]
  <2>1. timeTable[t] \in [StationNo -> Row \cup {NoRow}] /\ x.train = t
    BY DEF x
  <2>2. timeTable'[t] = [timeTable[t] EXCEPT ![x.no] = x.row]
    BY <2>1 DEF WrittenRow, x
  <2> QED BY <2>1, <2>2
<1>5. /\ DOMAIN Editions[t][e] \subseteq StationNo /\ 1 \in DOMAIN Editions[t][e] /\ e \in Nat
      /\ \A k \in DOMAIN Editions[t][e] : RowAt(t, e, k) # NoRow /\ RowAt(t, e, k).edition = e
  <2>1. \A k : RowAt(t, e, k).edition = e
    BY DEF RowAt
  <2> QED BY <2>1, TimetablesHaveRows
<1>6. /\ \A r \in RowsOf(b, t) : r.no \in DOMAIN Editions[t][e] /\ r.row = RowAt(t, e, r.no)
      /\ \A k \in DOMAIN Editions[t][e] :
           timeTable'[t][k] = RowAt(t, e, k) \/ \E r \in RowsOf(b, t) : r.no = k
      /\ \A k \in StationNo \ DOMAIN Editions[t][e] : timeTable'[t][k] = NoRow
  <2>1. ASSUME NEW k \in DOMAIN Editions[t][e]
        PROVE  timeTable'[t][k] = RowAt(t, e, k) \/ \E r \in RowsOf(b, t) : r.no = k
    <3>1. CASE k = x.no
      BY <1>3, <1>4, <3>1
    <3>2. CASE k # x.no
      BY <1>1, <1>2, <1>4, <1>5, <3>2
    <3> QED BY <3>1, <3>2
  <2>2. \A k \in StationNo \ DOMAIN Editions[t][e] : timeTable'[t][k] = NoRow
    BY <1>2, <1>3, <1>4
  <2> QED BY <1>1, <1>2, <2>1, <2>2
<1>7. TakenOver(t, b)'
  BY ONLY <1>6, e \in DOMAIN Editions[t] DEF TakenOver, RowsOf, ToSet
<1>8. ASSUME RowsOf(b, t) = {} PROVE Whole(t)' /\ \A n \in Nat : n <= x.row.edition => Filled(t, n)'
  <2>1. /\ \A k \in DOMAIN Editions[t][e] : timeTable'[t][k] = RowAt(t, e, k)
        /\ \A k \in StationNo \ DOMAIN Editions[t][e] : timeTable'[t][k] = NoRow
    BY <1>6, <1>8
  <2>2. Whole(t)'
    BY <2>1 DEF Whole
  <2>3. x.row.edition = e
    BY <1>3, <1>5
  <2>4. ASSUME NEW n \in Nat, n <= e PROVE Filled(t, n)'
    <3>1. timeTable'[t][1] # NoRow
      BY <1>5, <2>1
    <3>2. ASSUME NEW k \in StationNo, timeTable'[t][k] # NoRow PROVE timeTable'[t][k].edition >= n
      BY <1>5, <2>1, <2>4, <3>2
    <3> QED BY <3>1, <3>2 DEF Filled
  <2> QED BY <2>2, <2>3, <2>4
<1> QED BY <1>7, <1>8 DEF x, b

\* The train of a row that is written stays sound.
LEMMA WrittenTrainSound ==
  ASSUME TrainInv, NEW d \in Dumper, NEW v, NEW t \in Train \ torn,
         NEW a \in Seq(Entry), a # <<>>, Head(a).train = t, a = dumper[d].rows,
         timeTable' = [timeTable EXCEPT ![t] = WrittenRow(Head(a))],
         dumper'[d] = v, \A o \in Dumper \ {d} : dumper'[o] = dumper[o],
         v.rows = Tail(a), Ahead(v) = Ahead(dumper[d]), Tail(a) # <<>> => Writes(v),
         v.began[t] \in {0, dumper[d].began[t]},
         \/ covered'[t] = covered[t]
         \/ covered'[t] = dumper[d].began[t] /\ v.rows = <<>> /\ Ahead(dumper[d]) = {}
  PROVE  TrainSound(t)'
<1> DEFINE x == Head(a)
           b == Tail(a)
           w == dumper[d]
<1>1. /\ TrainSound(t) /\ timeTable \in [Train -> [StationNo -> Row \cup {NoRow}]]
      /\ x \in Entry /\ b \in Seq(Entry) /\ RowsOf(a, t) = RowsOf(b, t) \cup {x}
  <2>1. x \in Entry /\ b \in Seq(Entry) /\ RowsOf(a, t) = RowsOf(b, t) \cup {x}
    BY RowsAfter
  <2> QED BY <2>1 DEF TrainInv, TrainTyped
<1>2. RowsOf(w.rows, t) # {} /\ \A o \in Dumper \ {d} : RowsOf(dumper[o].rows, t) = {}
  BY <1>1 DEF TrainSound
<1>3. \A o \in Dumper \ {d} : RowsOf(dumper'[o].rows, t) = {}
  BY <1>2
<1>4. /\ TakenOver(t, b)'
      /\ RowsOf(b, t) = {} => Whole(t)' /\ \A n \in Nat : n <= x.row.edition => Filled(t, n)'
  <2>1. TakenOver(t, a)
    BY <1>1, <1>2 DEF TrainSound
  <2> QED BY <1>1, <2>1, RowIsTakenOver
<1>5. ASSUME NEW n \in Nat, RowsSince(t, n)
      PROVE  RowsSince(t, n)' /\ n <= x.row.edition /\ (Filled(t, n) => Filled(t, n)')
  <2>1. \A r \in RowsOf(b, t) \cup {x} : r.row.edition >= n
    BY <1>1, <1>5 DEF RowsSince
  <2>2. ASSUME NEW o \in Dumper, NEW r \in RowsOf(dumper'[o].rows, t) PROVE r.row.edition >= n
    <3>1. CASE o = d
      BY <2>1, <2>2, <3>1
    <3>2. CASE o # d
      BY <1>3, <2>2, <3>2
    <3> QED BY <3>1, <3>2
  <2>3. x.row.edition \in Nat /\ x.no \in StationNo /\ x.train = t
    BY <1>1 DEF Entry, Row
  <2>4. n <= x.row.edition
    BY <2>1, <2>3
  <2>5. x.row # NoRow
    <3>1. x.row \in Row /\ NoRow.station \notin Station
      BY <1>1, TrainConstantsOK DEF Entry
    <3> QED BY <3>1 DEF Row
  <2>6. \A k \in StationNo : timeTable'[t][k] = IF k = x.no THEN x.row ELSE timeTable[t][k]
    <3> HIDE DEF x
    <3>1. timeTable[t] \in [StationNo -> Row \cup {NoRow}]
      BY <1>1
    <3>2. timeTable'[t] = [timeTable[t] EXCEPT ![x.no] = x.row]
      BY <1>1, <2>3 DEF WrittenRow, x
    <3> QED BY <3>1, <3>2
  <2> HIDE DEF x
  <2>7. ASSUME Filled(t, n) PROVE Filled(t, n)'
    <3>1. 1 \in StationNo
      BY StationsAreNumbered
    <3>2. timeTable'[t][1] # NoRow
      BY <2>5, <2>6, <2>7, <3>1 DEF Filled
    <3>3. ASSUME NEW k \in StationNo, timeTable'[t][k] # NoRow PROVE timeTable'[t][k].edition >= n
      BY <2>3, <2>4, <2>6, <2>7, <3>3 DEF Filled
    <3> QED BY <3>2, <3>3 DEF Filled
  <2> QED BY <2>2, <2>4, <2>7 DEF RowsSince
<1> HIDE DEF x, b
<1>6. v.rows = b /\ w.rows = a /\ (\A n \in Nat : RowsSince(t, n) => n <= x.row.edition)
  BY <1>5 DEF b
<1>7. covered[t] \in Nat /\ \A o \in Dumper : dumper[o].began[t] \in Nat
  BY DEF TrainInv, TrainTyped, Work
<1>8. ASSUME \A o \in Dumper : Writes(dumper'[o]) => RowsOf(dumper'[o].rows, t) = {}
      PROVE  Whole(t)'
  <2>1. RowsOf(b, t) = {}
    <3>1. CASE b = <<>>
      BY <3>1 DEF RowsOf, ToSet
    <3>2. CASE b # <<>>
      BY <1>6, <1>8, <3>2 DEF b
    <3> QED BY <3>1, <3>2
  <2> QED BY <1>4, <2>1
<1>9. ASSUME covered'[t] > 0 PROVE Filled(t, covered[t])' /\ RowsSince(t, covered[t])'
  <2>1. CASE covered'[t] = covered[t]
    <3>1. Filled(t, covered[t]) /\ RowsSince(t, covered[t])
      BY <1>1, <1>9, <2>1 DEF TrainSound
    <3> QED BY <1>5, <1>7, <2>1, <3>1 DEF Filled, RowsSince
  <2>2. CASE covered'[t] = w.began[t] /\ v.rows = <<>> /\ Ahead(w) = {}
    <3>1. RowsSince(t, w.began[t])
      BY <1>1, <1>9, <2>2 DEF TrainSound
    <3>2. RowsOf(b, t) = {}
      BY <1>6, <2>2 DEF RowsOf, ToSet
    <3> QED BY <1>4, <1>5, <1>6, <1>7, <2>2, <3>1, <3>2 DEF Filled, RowsSince
  <2> QED BY <2>1, <2>2
<1>10. ASSUME NEW o \in Dumper, dumper'[o].began[t] > 0, t \notin Ahead(dumper'[o])
       PROVE  /\ RowsSince(t, dumper[o].began[t])'
              /\ RowsOf(dumper'[o].rows, t) # {} \/ Filled(t, dumper[o].began[t])'
  <2>1. dumper'[o].began[t] = dumper[o].began[t] /\ t \notin Ahead(dumper[o])
    <3>1. CASE o = d
      BY <1>10, <3>1
    <3>2. CASE o # d
      BY <1>10, <3>2
    <3> QED BY <3>1, <3>2
  <2>2. /\ RowsSince(t, dumper[o].began[t])
        /\ RowsOf(dumper[o].rows, t) # {} \/ Filled(t, dumper[o].began[t])
    BY <1>1, <1>10, <2>1 DEF TrainSound
  <2>3. RowsSince(t, dumper[o].began[t])'
    BY <1>5, <1>7, <2>1, <2>2 DEF RowsSince
  <2>4. CASE o = d
    <3>1. CASE RowsOf(b, t) = {}
      BY <1>4, <1>6, <1>7, <2>1, <2>2, <2>3, <2>4, <3>1 DEF Filled
    <3>2. CASE RowsOf(b, t) # {}
      BY <1>6, <2>3, <2>4, <3>2
    <3> QED BY <3>1, <3>2
  <2>5. CASE o # d
    <3>1. Filled(t, dumper[o].began[t])
      BY <1>2, <2>2, <2>5
    <3> QED BY <1>5, <1>7, <2>1, <2>2, <2>3, <3>1 DEF Filled
  <2> QED BY <2>4, <2>5
<1>11. \A o \in Dumper : RowsOf(dumper'[o].rows, t) # {} => TakenOver(t, dumper[o].rows)'
  <2> TAKE o \in Dumper
  <2>1. CASE o = d
    <3>1. dumper'[o].rows = b
      BY <1>6, <2>1
    <3> QED BY <1>4, <3>1 DEF TakenOver
  <2> QED BY <1>3, <2>1
<1>12. \A o, q \in Dumper : o # q => RowsOf(dumper'[o].rows, t) = {} \/ RowsOf(dumper'[q].rows, t) = {}
  BY <1>3
<1> QED BY ONLY <1>8, <1>9, <1>10, <1>11, <1>12
        DEF TrainSound, Writes, RowsOf, ToSet, Ahead

LEMMA WriteRowKeeps == ASSUME TrainInv, NEW d \in Dumper, WriteRow(d) PROVE TrainInv'
<1> DEFINE w == dumper[d]
<1>1. PICK v \in Work :
        /\ dumper' = [dumper EXCEPT ![d] = v] /\ WorkOK(v)
        /\ w.rows \in Seq(Entry) /\ w.rows # <<>> /\ Writes(w)
        /\ v.rows = Tail(w.rows) /\ (v.rows # <<>> => Writes(v))
        /\ Ahead(v) = Ahead(w) /\ \A t \in Train : v.began[t] \in {0, w.began[t]}
        /\ covered' \in [Train -> Nat]
        /\ \A t \in Train :
             \/ covered'[t] = covered[t]
             \/ covered'[t] = w.began[t] /\ v.rows = <<>> /\ Ahead(w) = {}
  BY RowDone
<1>2. PICK a \in Seq(Entry) : a = w.rows
  BY <1>1
<1>3. PICK t \in Train : t = Head(a).train
  <2>1. Head(a) \in Entry
    BY <1>1, <1>2
  <2> QED BY <2>1 DEF Entry
<1> DEFINE x == Head(a)
<1>4. /\ \/ /\ timeTable' = [timeTable EXCEPT ![t] = WrittenRow(x)] /\ torn' = torn
            /\ query' = IF query.pc = "stations" /\ query.train = t
                          THEN [query EXCEPT !.crossed = TRUE] ELSE query
            /\ trainFaults' = trainFaults
         \/ /\ torn' = torn \cup {t} /\ timeTable' = timeTable /\ query' = query
            /\ trainFaults' = trainFaults \/ (trainFaults > 0 /\ trainFaults' = trainFaults - 1)
      /\ UNCHANGED <<edition, trainNo, trainNoQueue>>
  BY <1>2, <1>3, Zenon DEF WriteRow
<1>5. /\ TrainTyped /\ EditionsSeen /\ QueryKnows /\ TimetableTold
      /\ \A u \in Train \ torn : TrainSound(u)
  BY DEF TrainInv
<1>6. /\ edition \in [Train -> Nat] /\ timeTable \in [Train -> [StationNo -> Row \cup {NoRow}]]
      /\ \A u \in Train : /\ covered[u] \in Nat /\ w.began[u] \in Nat /\ edition[u] \in Nat
                          /\ covered[u] <= edition[u] /\ w.began[u] <= edition[u]
      /\ dumper \in [Dumper -> Work] /\ torn \subseteq Train /\ trainFaults \in Nat
  <2>1. /\ edition \in [Train -> Nat] /\ timeTable \in [Train -> [StationNo -> Row \cup {NoRow}]]
        /\ dumper \in [Dumper -> Work] /\ torn \subseteq Train /\ trainFaults \in Nat
        /\ covered \in [Train -> Nat]
    BY <1>5 DEF TrainTyped
  <2>2. w.began \in [Train -> Nat]
    BY <2>1 DEF Work
  <2>3. \A u \in Train : covered[u] <= edition[u] /\ w.began[u] <= edition[u]
    BY <1>5 DEF EditionsSeen
  <2> QED BY ONLY <2>1, <2>2, <2>3
<1> HIDE DEF w, x
<1>7. /\ dumper' \in [Dumper -> Work]
      /\ dumper'[d] = v /\ \A o \in Dumper \ {d} : dumper'[o] = dumper[o]
      /\ (\A o \in Dumper : WorkOK(dumper[o]))'
      /\ EditionsSeen'
  <2>1. ASSUME NEW u \in Train PROVE v.began[u] <= edition[u] /\ covered'[u] <= edition[u]
    <3>1. /\ v.began[u] = 0 \/ v.began[u] = w.began[u]
          /\ covered'[u] = covered[u] \/ covered'[u] = w.began[u]
      BY <1>1
    <3>2. /\ covered[u] \in Nat /\ w.began[u] \in Nat /\ edition[u] \in Nat
          /\ covered[u] <= edition[u] /\ w.began[u] <= edition[u]
      BY <1>6
    <3> QED BY ONLY <3>1, <3>2
  <2> QED BY <1>1, <1>4, <2>1, ThreadMoves
<1>8. x \in Entry /\ x.train = t /\ x.no \in StationNo /\ x.row \in Row
  <2>1. x \in Entry
    BY <1>1, <1>2 DEF x
  <2> QED BY <1>3, <2>1 DEF Entry, x
<1>9. \A u \in Train \ {t} : timeTable'[u] = timeTable[u]
  BY <1>4, <1>6
<1>10. TrainTyped'
  <2>1. timeTable' \in [Train -> [StationNo -> Row \cup {NoRow}]]
    <3>1. WrittenRow(x) \in [StationNo -> Row \cup {NoRow}]
      BY <1>6, <1>8 DEF WrittenRow
    <3> QED BY <1>4, <1>6, <3>1
  <2>2. torn' \subseteq Train /\ trainFaults' \in Nat
    BY <1>4, <1>6
  <2> QED BY ONLY <1>1, <1>4, <1>5, <1>7, <2>1, <2>2 DEF TrainTyped
<1>11. ASSUME NEW u \in Train \ torn', u # t PROVE TrainSound(u)'
  <2>1. TrainSound(u) /\ u \in Train /\ timeTable'[u] = timeTable[u]
    BY <1>4, <1>5, <1>9, <1>11
  <2>2. RowsOf(v.rows, u) = RowsOf(w.rows, u)
    <3>1. a # <<>> /\ v.rows = Tail(a) /\ w.rows = a /\ Head(a).train # u
      BY <1>1, <1>2, <1>3, <1>11
    <3>2. RowsOf(a, u) = RowsOf(Tail(a), u) \cup (IF Head(a).train = u THEN {Head(a)} ELSE {})
      BY <3>1, RowsAfter
    <3> QED BY <3>1, <3>2
  <2>3. RowsOf(w.rows, u) # {} => v.rows # <<>>
    BY <2>2 DEF RowsOf, ToSet
  <2>4. /\ v.began[u] > 0 /\ u \notin Ahead(v) => v.began[u] = w.began[u] /\ u \notin Ahead(w)
        /\ \/ covered'[u] = covered[u]
           \/ covered'[u] = w.began[u] /\ u \notin Ahead(w) /\ RowsOf(w.rows, u) = {}
    BY <1>1, <2>1, <2>3
  <2> QED BY <1>1, <1>6, <1>7, <2>1, <2>2, <2>3, <2>4, SoundElsewhere DEF w
<1>12. ASSUME t \notin torn' PROVE TrainSound(t)'
  <2>1. timeTable' = [timeTable EXCEPT ![t] = WrittenRow(Head(a))] /\ t \in Train \ torn
    BY <1>4, <1>12 DEF x
  <2>2. /\ a # <<>> /\ Head(a).train = t /\ a = dumper[d].rows
        /\ v.rows = Tail(a) /\ Ahead(v) = Ahead(dumper[d]) /\ (Tail(a) # <<>> => Writes(v))
        /\ v.began[t] \in {0, dumper[d].began[t]}
        /\ \/ covered'[t] = covered[t]
           \/ covered'[t] = dumper[d].began[t] /\ v.rows = <<>> /\ Ahead(dumper[d]) = {}
    BY <1>1, <1>2, <1>3 DEF w
  <2>3. TrainInv /\ d \in Dumper /\ a \in Seq(Entry)
    OBVIOUS
  <2> QED BY ONLY <1>7, <2>1, <2>2, <2>3, WrittenTrainSound
<1>13. QueryKnows'
  <2>1. CASE query' = query /\ (query.pc = "stations" => timeTable'[query.train] = timeTable[query.train])
    BY <1>5, <2>1 DEF QueryKnows
  <2>2. CASE query.pc = "stations" /\ query' = [query EXCEPT !.crossed = TRUE]
    <3>1. query \in Asking /\ query.no \in StationNo
      BY <1>5, <2>2 DEF QueryKnows
    <3> QED BY <2>2, <3>1 DEF QueryKnows, Asking
  <2>3. query.pc = "stations" => query.train \in Train
    BY <1>5 DEF QueryKnows, Asking
  <2> QED BY <1>4, <1>9, <2>1, <2>2, <2>3
<1>14. TimetableTold'
  <2>1. CASE query' = query
    BY <1>5, <2>1 DEF TimetableTold
  <2>2. CASE query.pc = "stations" /\ query' = [query EXCEPT !.crossed = TRUE]
    <3>1. query \in Asking
      BY <1>5, <2>2 DEF QueryKnows
    <3>2. query'.pc = "stations"
      BY <2>2, <3>1 DEF Asking
    <3> QED BY <3>2 DEF TimetableTold
  <2> QED BY <1>4, <2>1, <2>2
<1>15. \A u \in Train \ torn' : TrainSound(u)'
  BY <1>11, <1>12
<1> QED BY ONLY <1>7, <1>10, <1>13, <1>14, <1>15 DEF TrainInv

\* Steps that leave the rows, the threads and the editions alone.
LEMMA TablesStand ==
  ASSUME TrainInv, UNCHANGED <<edition, timeTable, dumper, torn, covered>>,
         trainNo' \subseteq Train, trainNoQueue' \in Seq(Train), trainFaults' \in Nat
  PROVE  /\ TrainTyped' /\ (\A o \in Dumper : WorkOK(dumper[o]))' /\ EditionsSeen'
         /\ \A u \in Train \ torn' : TrainSound(u)'
         /\ query' = query => QueryKnows' /\ TimetableTold'
<1>1. /\ TrainTyped /\ (\A o \in Dumper : WorkOK(dumper[o])) /\ EditionsSeen /\ QueryKnows
      /\ TimetableTold /\ \A u \in Train \ torn : TrainSound(u)
  BY DEF TrainInv
<1>2. TrainTyped'
  BY ONLY <1>1, UNCHANGED <<edition, timeTable, dumper, torn, covered>>,
     trainNo' \subseteq Train, trainNoQueue' \in Seq(Train), trainFaults' \in Nat DEF TrainTyped
<1>3. (\A o \in Dumper : WorkOK(dumper[o]))'
  BY <1>1, Zenon
<1>4. EditionsSeen'
  BY <1>1 DEF EditionsSeen
<1>5. ASSUME NEW u \in Train \ torn' PROVE TrainSound(u)'
  BY <1>1, SoundStays
<1>6. query' = query => QueryKnows' /\ TimetableTold'
  BY <1>1 DEF QueryKnows, TimetableTold
<1> QED BY <1>2, <1>3, <1>4, <1>5, <1>6

LEMMA InsertKeeps == ASSUME TrainInv, NEW t \in Train, InsertTrainNo(t) PROVE TrainInv'
<1>1. /\ UNCHANGED <<edition, timeTable, trainNoQueue, dumper, query, trainFaults, torn, covered>>
      /\ trainNo' \subseteq Train /\ trainNoQueue' \in Seq(Train) /\ trainFaults' \in Nat
  BY DEF InsertTrainNo, TrainInv, TrainTyped
<1> QED BY <1>1, TablesStand DEF TrainInv

LEMMA QueryPositionKeeps == ASSUME TrainInv, QueryPosition PROVE TrainInv'
<1> DEFINE t == query.train
           found == {k \in StationNo : timeTable[t][k].station = query.asked}
<1>1. /\ UNCHANGED <<edition, trainNo, timeTable, dumper, torn, covered>> /\ query.pc = "position"
      /\ trainNo \subseteq Train /\ trainNoQueue \in Seq(Train) /\ trainFaults \in Nat
      /\ query \in Asking
  BY DEF QueryPosition, tables, TrainInv, TrainTyped, QueryKnows
<1>2. t \in Train
  BY <1>1 DEF Asking
<1>3. trainNoQueue' \in Seq(Train) /\ trainFaults' \in Nat
  <2>1. Append(trainNoQueue, t) \in Seq(Train)
    BY <1>1, <1>2
  <2>2. /\ trainNoQueue' = trainNoQueue \/ trainNoQueue' = Append(trainNoQueue, t)
        /\ trainFaults' = trainFaults \/ (trainFaults > 0 /\ trainFaults' = trainFaults - 1)
    BY Zenon DEF QueryPosition
  <2> HIDE DEF t, found
  <2> QED BY <1>1, <2>1, <2>2
<1>4. /\ TrainTyped' /\ (\A o \in Dumper : WorkOK(dumper[o]))' /\ EditionsSeen'
      /\ \A u \in Train \ torn' : TrainSound(u)'
  BY <1>1, <1>3, TablesStand
<1>5. CASE \E k \in found : query' = [query EXCEPT !.pc = "stations", !.no = k]
  <2>1. PICK k \in found : query' = [query EXCEPT !.pc = "stations", !.no = k]
    BY <1>5
  <2>2. k \in StationNo /\ k \in Nat /\ timeTable[t][k].station = query.asked
    BY StationsAreNumbered
  <2>3. query' \in Asking /\ query'.pc = "stations" /\ query'.no = k
        /\ query'.train = t /\ query'.asked = query.asked
    BY <1>1, <2>1, <2>2 DEF Asking
  <2>4. QueryKnows'
    BY <1>1, <2>2, <2>3 DEF QueryKnows
  <2>5. TimetableTold'
    BY <2>3 DEF TimetableTold
  <2> QED BY ONLY <1>4, <2>4, <2>5 DEF TrainInv
<1>6. CASE \E answer \in {"not found", "failure"} : Answer(answer, {}, FALSE)
  <2>1. query'.pc = "answered" /\ query'.status # "success"
    <3>1. PICK answer \in {"not found", "failure"} : Answer(answer, {}, FALSE)
      BY <1>6
    <3>2. query'.pc = "answered" /\ query'.status = answer
      BY ONLY <3>1 DEF Answer
    <3> QED BY <3>2
  <2>2. QueryKnows' /\ TimetableTold'
    BY <2>1 DEF QueryKnows, TimetableTold
  <2> QED BY ONLY <1>4, <2>2 DEF TrainInv
<1> QED BY <1>5, <1>6, Zenon DEF QueryPosition

\* The answer lists the stations from the one that was found on; if nobody was writing they
\* are the rest of one edition.
LEMMA StationsAreTold ==
  ASSUME TrainInv, query.pc = "stations",
         query'.train = query.train, query'.asked = query.asked, query'.crossed = query.crossed,
         query'.rows = {[no |-> k, row |-> timeTable[query.train][k]] :
                          k \in {j \in FromHere(query.no) : timeTable[query.train][j] # NoRow}},
         query'.clean = (/\ ~ query.crossed /\ query.train \notin torn
                         /\ ~ \E d \in Dumper : /\ dumper[d].pc \in {"select", "write"}
                                                /\ query.train \in Pending(d))
  PROVE  TimetableTold'
<1> DEFINE t == query.train
           no == query.no
           told == query'.rows
<1>1. /\ t \in Train /\ no \in StationNo /\ query.asked \in Station
      /\ ~ query.crossed => timeTable[t][no].station = query.asked
      /\ FromHere(no) \subseteq StationNo /\ \A k \in FromHere(no) : k >= no
  <2>1. query \in Asking /\ no \in StationNo /\ (~ query.crossed => timeTable[t][no].station = query.asked)
    BY DEF TrainInv, QueryKnows
  <2>2. t \in Train /\ query.asked \in Station
    BY <2>1 DEF Asking
  <2>3. FromHere(no) \subseteq StationNo /\ \A k \in FromHere(no) : k >= no
    BY DEF FromHere
  <2> QED BY <2>1, <2>2, <2>3
<1>2. timeTable[t][no].station = query.asked => timeTable[t][no] # NoRow
  BY <1>1, TrainConstantsOK
<1>3. no \in FromHere(no)
  <2>1. no \in StationNo /\ no \in Nat
    BY <1>1, StationsAreNumbered
  <2> HIDE DEF no
  <2> QED BY <2>1 DEF FromHere
<1>4. ASSUME ~ query.crossed
      PROVE  \E x \in told : x.row.station = query.asked /\ \A y \in told : x.no <= y.no
  <2> DEFINE x == [no |-> no, row |-> timeTable[t][no]]
  <2>1. x \in told
    BY <1>1, <1>2, <1>3, <1>4
  <2>2. x.row.station = query.asked
    BY <1>1, <1>4
  <2>3. \A y \in told : x.no <= y.no
    BY <1>1, StationsAreNumbered
  <2> QED BY <2>1, <2>2, <2>3
<1>5. ASSUME query'.clean
      PROVE  \E e \in DOMAIN Editions[t] : \E k \in DOMAIN Editions[t][e] :
               /\ Editions[t][e][k] = query.asked
               /\ told = {[no |-> j, row |-> [station |-> Editions[t][e][j], edition |-> e]] :
                            j \in k..Len(Editions[t][e])}
  <2>1. ~ query.crossed /\ t \notin torn /\ timeTable[t][no] # NoRow
    BY <1>1, <1>2, <1>5
  <2>2. \A d \in Dumper : Writes(dumper[d]) => RowsOf(dumper[d].rows, t) = {}
    BY <1>5 DEF Writes, Pending, RowsOf, ToSet
  <2>3. Whole(t)
    BY <1>1, <2>1, <2>2 DEF TrainInv, TrainSound
  <2>4. PICK e \in DOMAIN Editions[t] :
          /\ \A k \in DOMAIN Editions[t][e] : timeTable[t][k] = RowAt(t, e, k)
          /\ \A k \in StationNo \ DOMAIN Editions[t][e] : timeTable[t][k] = NoRow
    BY <1>1, <2>1, <2>3, Zenon DEF Whole
  <2>5. no \in DOMAIN Editions[t][e] /\ timeTable[t][no] = RowAt(t, e, no)
    BY <1>1, <2>1, <2>4
  <2>6. Editions[t][e][no] = query.asked
    BY <1>1, <2>1, <2>5 DEF RowAt
  <2> DEFINE N == Len(Editions[t][e])
  <2>7. /\ DOMAIN Editions[t][e] = 1..N /\ N \in Nat
        /\ \A k \in DOMAIN Editions[t][e] : k \in StationNo /\ RowAt(t, e, k) # NoRow
    BY <1>1, TimetablesHaveRows
  <2> HIDE DEF N
  <2>8. {j \in FromHere(no) : timeTable[t][j] # NoRow} = no..N
    <3>1. ASSUME NEW j \in FromHere(no), timeTable[t][j] # NoRow PROVE j \in no..N
      <4>1. j \in 1..N /\ j >= no
        BY <1>1, <2>4, <2>7, <3>1
      <4> QED BY <2>5, <2>7, <4>1
    <3>2. ASSUME NEW j \in no..N PROVE j \in FromHere(no) /\ timeTable[t][j] # NoRow
      <4>1. j \in 1..N /\ j >= no
        BY <2>5, <2>7, <3>2
      <4> QED BY <2>4, <2>7, <4>1 DEF FromHere
    <3> QED BY <3>1, <3>2
  <2>9. told = {[no |-> j, row |-> timeTable[t][j]] : j \in no..N}
    BY <2>8
  <2>10. \A j \in no..N : timeTable[t][j] = [station |-> Editions[t][e][j], edition |-> e]
    BY <2>4, <2>5, <2>7 DEF RowAt
  <2>11. told = {[no |-> j, row |-> [station |-> Editions[t][e][j], edition |-> e]] : j \in no..N}
    BY <2>9, <2>10
  <2> QED BY <2>5, <2>6, <2>11 DEF N
<1> HIDE DEF told
<1> QED BY <1>4, <1>5 DEF TimetableTold, told

LEMMA QueryStationsKeeps == ASSUME TrainInv, QueryStations PROVE TrainInv'
<1>1. /\ UNCHANGED <<edition, trainNo, timeTable, dumper, torn, covered, trainNoQueue>>
      /\ query.pc = "stations" /\ trainNo \subseteq Train /\ trainNoQueue \in Seq(Train)
      /\ trainFaults \in Nat
  BY DEF QueryStations, tables, TrainInv, TrainTyped
<1>2. trainFaults' \in Nat
  <2>1. trainFaults' = trainFaults \/ (trainFaults > 0 /\ trainFaults' = trainFaults - 1)
    BY Zenon DEF QueryStations
  <2> QED BY <1>1, <2>1
<1>3. /\ TrainTyped' /\ (\A o \in Dumper : WorkOK(dumper[o]))' /\ EditionsSeen'
      /\ \A u \in Train \ torn' : TrainSound(u)'
  BY <1>1, <1>2, TablesStand
<1>4. query'.pc = "answered"
  BY DEF QueryStations, Answer
<1>5. QueryKnows'
  BY <1>4 DEF QueryKnows
<1>6. TimetableTold'
  <2> DEFINE writing == \E d \in Dumper : dumper[d].pc \in {"select", "write"} /\ query.train \in Pending(d)
             told == {[no |-> k, row |-> timeTable[query.train][k]] :
                        k \in {j \in FromHere(query.no) : timeTable[query.train][j] # NoRow}}
  <2>1. CASE Answer("failure", {}, FALSE)
    <3>1. query'.status # "success"
      BY <2>1 DEF Answer
    <3> QED BY <3>1 DEF TimetableTold
  <2>2. CASE Answer("success", told, ~ query.crossed /\ ~ writing /\ query.train \notin torn)
    <3>1. /\ query'.train = query.train /\ query'.asked = query.asked
          /\ query'.crossed = query.crossed /\ query'.rows = told
          /\ query'.clean = (~ query.crossed /\ ~ writing /\ query.train \notin torn)
      BY <2>2, Zenon DEF Answer
    <3> QED BY <1>1, <3>1, StationsAreTold
  <2> QED BY <2>1, <2>2, Zenon DEF QueryStations
<1> QED BY ONLY <1>3, <1>5, <1>6 DEF TrainInv

LEMMA TrainStepKeeps == ASSUME TrainInv, TrainNext PROVE TrainInv'
<1>1. CASE \E t \in Train : ChangeEdition(t) \/ InsertTrainNo(t)
  BY <1>1, ChangeEditionKeeps, InsertKeeps
<1>2. CASE BeginUpdate \/ PopTrainNo
  BY <1>2, BeginUpdateKeeps, PopKeeps
<1>3. CASE \E d \in Dumper : FetchPage(d) \/ BeginDump(d) \/ SelectRow(d) \/ WriteRow(d)
  BY <1>3, FetchPageKeeps, BeginDumpKeeps, SelectRowKeeps, WriteRowKeeps
<1>4. CASE QueryPosition \/ QueryStations
  BY <1>4, QueryPositionKeeps, QueryStationsKeeps
<1> QED BY <1>1, <1>2, <1>3, <1>4 DEF TrainNext

\* The push processor of trains sends its query, and takes the answer.
LEMMA QuerySent ==
  ASSUME RoundInv, TrainInv, ProcessTrain \/ GetTimeTable PROVE TrainInv'
<1>1. /\ UNCHANGED <<edition, trainNo, timeTable, trainNoQueue, dumper, trainFaults, torn, covered>>
      /\ scene \in Scenes /\ trainNo \subseteq Train /\ trainNoQueue \in Seq(Train)
      /\ trainFaults \in Nat
  BY DEF ProcessTrain, GetTimeTable, tables, RoundInv, RoundTyped, TrainInv, TrainTyped
<1>2. /\ TrainTyped' /\ (\A o \in Dumper : WorkOK(dumper[o]))' /\ EditionsSeen'
      /\ \A u \in Train \ torn' : TrainSound(u)'
      /\ query' = query => QueryKnows' /\ TimetableTold'
  BY <1>1, TablesStand
<1>3. CASE query' = query
  BY ONLY <1>2, <1>3 DEF TrainInv
<1>4. CASE SendQuery(scene.train, scene.station)
  <2>1. scene.train \in Train /\ scene.station \in Station
    BY <1>1, RemindersConstantsOK
  <2>2. query' \in Asking /\ query'.pc = "position"
    BY <1>4, <2>1 DEF SendQuery, Asking
  <2>3. QueryKnows' /\ TimetableTold'
    BY <2>2 DEF QueryKnows, TimetableTold
  <2> QED BY ONLY <1>2, <2>3 DEF TrainInv
<1>5. CASE query' = NoQuery
  <2>1. query'.pc = "none"
    BY <1>5 DEF NoQuery
  <2>2. QueryKnows' /\ TimetableTold'
    BY <2>1 DEF QueryKnows, TimetableTold
  <2> QED BY ONLY <1>2, <2>2 DEF TrainInv
<1>6. query' = query \/ SendQuery(scene.train, scene.station) \/ query' = NoQuery
  BY Zenon DEF ProcessTrain, GetTimeTable
<1> QED BY <1>3, <1>4, <1>5, <1>6

LEMMA TablesStart == Init => TrainInv
<1> SUFFICES ASSUME Init PROVE TrainInv
  OBVIOUS
<1>1. /\ edition = [t \in Train |-> 1] /\ trainNo = scene.trainNo
      /\ timeTable = [t \in Train |-> [k \in StationNo |-> NoRow]] /\ trainNoQueue = <<>>
      /\ dumper = [d \in Dumper |-> IdleDumper] /\ query = NoQuery
      /\ trainFaults = scene.trainFaults /\ torn = {} /\ covered = [t \in Train |-> 0]
      /\ scene \in Scenes
  BY DEF Init, TrainInit
<1>2. /\ IdleDumper \in Work /\ IdleDumper.pc = "idle" /\ IdleDumper.batches = <<>>
      /\ IdleDumper.pages = <<>> /\ IdleDumper.rows = <<>>
      /\ \A t \in Train : IdleDumper.began[t] = 0
  BY IdleFacts
<1>3. TrainTyped
  <2>1. trainNo \subseteq Train /\ trainFaults \in Nat
    BY <1>1, RemindersConstantsOK
  <2>2. /\ edition \in [Train -> Nat] /\ covered \in [Train -> Nat]
        /\ \A t \in Train : edition[t] \in DOMAIN Editions[t]
    BY <1>1, TimetablesHaveRows
  <2>3. timeTable \in [Train -> [StationNo -> Row \cup {NoRow}]]
    BY <1>1
  <2>4. dumper \in [Dumper -> Work]
    BY <1>1, <1>2
  <2>5. trainNoQueue \in Seq(Train) /\ torn \subseteq Train
    BY <1>1
  <2> QED BY ONLY <2>1, <2>2, <2>3, <2>4, <2>5 DEF TrainTyped
<1>4. \A d \in Dumper : WorkOK(dumper[d])
  <2>1. WorkOK(IdleDumper)
    BY <1>2 DEF WorkOK, Writes, Apart
  <2>2. \A d \in Dumper : dumper[d] = IdleDumper
    BY <1>1
  <2> QED BY <2>1, <2>2
<1>5. EditionsSeen
  BY <1>1, <1>2 DEF EditionsSeen
<1>6. ASSUME NEW t \in Train PROVE TrainSound(t)
  <2>1. \A d \in Dumper : RowsOf(dumper[d].rows, t) = {} /\ ~ dumper[d].began[t] > 0
    BY <1>1, <1>2 DEF RowsOf, ToSet
  <2>2. Whole(t) /\ ~ covered[t] > 0
    BY <1>1 DEF Whole
  <2> QED BY ONLY <2>1, <2>2 DEF TrainSound
<1>7. QueryKnows /\ TimetableTold
  BY <1>1 DEF QueryKnows, TimetableTold, NoQuery
<1> QED BY ONLY <1>3, <1>4, <1>5, <1>6, <1>7 DEF TrainInv

LEMMA TablesUntouched == ASSUME TrainInv, UNCHANGED trainVars PROVE TrainInv'
<1>1. /\ UNCHANGED <<edition, trainNo, timeTable, trainNoQueue, dumper, query, trainFaults, torn, covered>>
      /\ trainNo' \subseteq Train /\ trainNoQueue' \in Seq(Train) /\ trainFaults' \in Nat
  BY DEF trainVars, tables, TrainInv, TrainTyped
<1> QED BY <1>1, TablesStand DEF TrainInv

LEMMA NextTables == RoundInv /\ TrainInv /\ [Next]_vars => TrainInv'
<1> SUFFICES ASSUME RoundInv, TrainInv, [Next]_vars PROVE TrainInv'
  OBVIOUS
<1>1. CASE ProcessTrain \/ GetTimeTable
  BY <1>1, QuerySent
<1>2. CASE TrainNext
  BY <1>2, TrainStepKeeps
<1>3. UNCHANGED trainVars \/ ProcessTrain \/ GetTimeTable \/ TrainNext
  BY DEF Next, vars, services, Tick, ChangeOrder, ChangeWatch, ChangeFlight, UpdatePushEvent,
         PushScheduler, FetchPushEvents, FetchDevices, FilterUserFeedback, LockPushEvents,
         PushProcessor, GetUserOrder, ProcessMovie, ProcessHotel, ProcessFlight, FetchWeather,
         SendPush, UpdatePushStatus, TrainService, FeedbackService
<1> QED BY <1>1, <1>2, <1>3, TablesUntouched

\* The three invariants hold together.
LEMMA TablesHold == Spec => [](RoundInv /\ FeedbackInv /\ TrainInv)
<1>1. Init => RoundInv /\ TrainInv
  BY RoundStarts, TablesStart
<1> QED BY <1>1, RoundsHold, NextTables, PTL DEF Spec

-----------------------------------------------------------------------------
(***************************************************************************)
(* The theorems about time tables                                          *)
(***************************************************************************)
\* The stations a train's reminder lists are the rest of one edition of its time table from
\* the user's own station on, unless the table was being written, was torn by a failure, by
\* a shorter edition or by two threads, or a row was written between the two SELECTs
\* (QueryTimeTable, DumpResultIntoDb): for any trains and editions, any batch size and any
\* number of failures.
THEOREM TimetablesAreTold == Spec => []TimetableTold
<1>1. TrainInv => TimetableTold
  BY DEF TrainInv
<1> QED BY <1>1, TablesHold, PTL

\* An update of all trains that is answered with success has brought every train it listed
\* to the edition shown when it began or a later one, but for torn trains (UpdateTimeTable
\* and its batches): the last batch takes what is left over, whatever the number of trains.
THEOREM UpdatesReachAll == Spec => []UpdateReachesAll
<1>1. TrainInv => UpdateReachesAll
  <2> SUFFICES ASSUME TrainInv, NEW t \in Train, covered[t] > 0, t \notin torn
               PROVE  /\ timeTable[t][1] # NoRow
                      /\ \A k \in StationNo : timeTable[t][k] # NoRow => timeTable[t][k].edition >= covered[t]
    BY DEF UpdateReachesAll
  <2>1. TrainSound(t)
    BY DEF TrainInv
  <2> QED BY <2>1 DEF TrainSound, Filled
<1> QED BY <1>1, TablesHold, PTL

\* Every variable of the rounds and of both services has its type.
THEOREM ReminderTypes == Spec => []TypeOK
<1>1. RoundInv /\ FeedbackInv /\ TrainInv => TypeOK
  <2> SUFFICES ASSUME RoundInv, FeedbackInv, TrainInv PROVE TypeOK
    OBVIOUS
  <2>1. FeedbackTypeOK
    <3>1. FeedbackTyped /\ LeftIsEnd
      BY DEF FeedbackInv
    <3>2. ASSUME NEW r \in Request
          PROVE  /\ request[r].pc \in {"new", "select", "write", "success", "error"}
                 /\ request[r].found \in BOOLEAN /\ request[r].alone \subseteq Business
                 /\ InFlight(r) => request[r].left # <<>>
      <4>1. request[r] \in RequestRecord
        BY <3>1 DEF FeedbackTyped
      <4>2. InFlight(r) => Len(request[r].left) \in 1..Len(request[r].body)
        BY <3>1 DEF LeftIsEnd
      <4> QED BY <4>1, <4>2 DEF RequestRecord
    <3> QED BY <3>1, <3>2 DEF FeedbackTyped, FeedbackTypeOK
  <2>2. TrainTypeOK
    <3>1. TrainTyped /\ QueryKnows /\ \A d \in Dumper : WorkOK(dumper[d])
      BY DEF TrainInv
    <3>2. ASSUME NEW d \in Dumper
          PROVE  /\ dumper[d].pc \in {"idle", "fetch", "select", "write"}
                 /\ \A i \in DOMAIN dumper[d].rows : dumper[d].rows[i] \in Entry
                 /\ dumper[d].pc \in {"select", "write"} => dumper[d].rows # <<>>
      <4>1. dumper[d] \in Work /\ WorkOK(dumper[d])
        BY <3>1 DEF TrainTyped
      <4>2. dumper[d].rows \in Seq(Entry) /\ dumper[d].pc \in {"idle", "fetch", "select", "write"}
        BY <4>1 DEF Work
      <4> QED BY <4>1, <4>2 DEF WorkOK, Writes
    <3> QED BY ONLY <3>1, <3>2 DEF TrainTyped, QueryKnows, TrainTypeOK
  <2>3. /\ RoundTyped /\ AtRow /\ WorkerReady
    BY DEF RoundInv
  <2>4. \A r \in RowRecord : RowOK(r)
    BY DEF RowOK, RowRecord, Statuses
  <2>5. (\A i \in DOMAIN batch : RowOK(batch[i])) /\ \A i \in DOMAIN queue : RowOK(queue[i])
    BY <2>3, <2>4 DEF RoundTyped
  <2>6. /\ worker.pc \in {"idle", "ask", "wait", "weather", "send", "sent", "disabled", "failed"}
        /\ worker.pc # "idle" => RowOK(worker.row)
    BY <2>3, <2>4 DEF RoundTyped, WorkerRecord, Idle
  <2>7. pc = "feedback" => at \in DOMAIN batch
    BY <2>3 DEF RoundTyped, AtRow
  <2> QED BY <2>1, <2>2, <2>3, <2>5, <2>6, <2>7 DEF TypeOK, RoundTyped, Statuses
<1> QED BY <1>1, TablesHold, PTL
=============================================================================
