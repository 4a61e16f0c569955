--------------------------- MODULE Ingestion_proofs ---------------------------
(***************************************************************************)
(* Proofs about Ingestion: its type invariant, and that a booking is       *)
(* stored in its own year and once, for any messages, partitions, faults   *)
(* and bounds.                                                             *)
(***************************************************************************)
EXTENDS Ingestion, SequenceTheorems, TLAPS

-----------------------------------------------------------------------------
\* Between month n and a month at most three away there is at most one new year, and
\* the inferred year is on the right side of it.
LEMMA YearInferred ==
  ASSUME NEW n \in Nat, NEW w \in Nat, -3 <= w - n, w - n <= 3
  PROVE  ShortDatetimeToTimestampNew(n, MonthOf(w)) = w
<1> DEFINE y == n \div 12
           k == n % 12
           v == w \div 12
           j == w % 12
<1>1. /\ y \in Int /\ k \in 0..11 /\ n = 12 * y + k
      /\ v \in Int /\ j \in 0..11 /\ w = 12 * v + j
  OBVIOUS
<1>2. v = y \/ v = y + 1 \/ v = y - 1
  <2> HIDE DEF y, k, v, j
  <2> QED  BY <1>1
<1>3. v = y + 1 => j \in 0..2 /\ k \in 9..11
  <2> HIDE DEF y, k, v, j
  <2> QED  BY <1>1
<1>4. v = y - 1 => k \in 0..2 /\ j \in 9..11
  <2> HIDE DEF y, k, v, j
  <2> QED  BY <1>1
<1>5. v = y => ~ (j \in 0..2 /\ k \in 9..11) /\ ~ (k \in 0..2 /\ j \in 9..11)
  <2> HIDE DEF y, k, v, j
  <2> QED  BY <1>1
<1>6. ShortDatetimeToTimestampNew(n, MonthOf(w)) =
        12 * (IF j \in 0..2 /\ k \in 9..11 THEN y + 1
              ELSE IF k \in 0..2 /\ j \in 9..11 THEN y - 1 ELSE y) + j
  BY DEF ShortDatetimeToTimestampNew, MonthOf, YearOf, kMonthBeginSet, kMonthEndSet
<1> HIDE DEF y, k, v, j
<1>7. ASSUME v = y + 1 PROVE 12 * (y + 1) + j = w  BY <1>1, <1>7
<1>8. ASSUME v = y - 1 PROVE 12 * (y - 1) + j = w  BY <1>1, <1>8
<1> QED  BY <1>1, <1>2, <1>3, <1>4, <1>5, <1>6, <1>7, <1>8

\* Within the year of the arrival the current year is the right one.
LEMMA YearOfArrival ==
  ASSUME NEW n \in Nat, NEW w \in Nat, YearOf(n) = YearOf(w)
  PROVE  ShortDatetimeToTimestamp(n, MonthOf(w)) = w
BY DEF ShortDatetimeToTimestamp, MonthOf, YearOf

\* Whatever the text says, the time is a number.
LEMMA TimesAreNumbers ==
  ASSUME NEW m \in Message, NEW n \in Nat
  PROVE  BusinessTimes(m, n) \subseteq Int
<1>1. YearOf(n) \in Int /\ MonthOf(n) \in Int
  BY DEF YearOf, MonthOf
<1>2. When[m] \in Nat \/ When[m] = NoDate
  BY IngestionConstantsOK
<1>3. When[m] # NoDate => MonthOf(When[m]) \in Int
  BY <1>2 DEF MonthOf
<1>4. ASSUME NEW k \in Int
      PROVE  ShortDatetimeToTimestamp(n, k) \in Int /\ ShortDatetimeToTimestampNew(n, k) \in Int
  BY <1>1, <1>4 DEF ShortDatetimeToTimestamp, ShortDatetimeToTimestampNew
<1>5. CASE Kind[m] = "hotel"
  <2>1. (IF When[m] = NoDate THEN -1 ELSE MonthOf(When[m])) \in Int
    BY <1>3
  <2> QED  BY <1>4, <1>5, <2>1 DEF BusinessTimes
<1>6. CASE Kind[m] # "hotel" /\ When[m] = NoDate
  BY <1>6, IngestionConstantsOK DEF BusinessTimes
<1>7. CASE Kind[m] # "hotel" /\ When[m] # NoDate
  BY <1>3, <1>4, <1>7 DEF BusinessTimes
<1> QED  BY <1>5, <1>6, <1>7

-----------------------------------------------------------------------------
(***************************************************************************)
(* Type correctness                                                        *)
(***************************************************************************)
\* A sequence over a set is a sequence over a larger one.
LEMMA SeqMonotone ==
  ASSUME NEW S, NEW T, S \subseteq T, NEW q \in Seq(S)
  PROVE  q \in Seq(T)
<1>1. /\ Len(q) \in Nat /\ DOMAIN q = 1..Len(q)
      /\ q = [i \in 1..Len(q) |-> q[i]]
      /\ \A i \in 1..Len(q) : q[i] \in S
  OBVIOUS
<1> QED  BY <1>1

\* What the message of an entry is.
LEMMA MessageOfPlace ==
  ASSUME TypeOK, NEW e \in Place, e.off > 0
  PROVE  topic[e.part][e.off] \in Message
<1>1. /\ e.part \in Partition /\ e.off \in Nat /\ e.off <= Len(topic[e.part])
  BY DEF Place, Entry
<1>2. topic[e.part] \in Seq(Message)
  BY <1>1 DEF TypeOK
<1> QED  BY <1>1, <1>2

\* Adding to the topic leaves every place a place.
LEMMA PlacesStay ==
  ASSUME NEW p \in Partition, NEW c \in Seq(Message),
         TypeOK, topic' = [topic EXCEPT ![p] = @ \o c]
  PROVE  /\ topic' \in [Partition -> Seq(Message)]
         /\ \A r \in Partition : Len(topic[r]) <= Len(topic'[r])
         /\ Place \subseteq Place'
<1>1. /\ topic \in [Partition -> Seq(Message)]
  BY DEF TypeOK
<1>2. /\ topic[p] \o c \in Seq(Message)
      /\ Len(topic[p] \o c) = Len(topic[p]) + Len(c)
      /\ Len(c) \in Nat /\ Len(topic[p]) \in Nat
  BY <1>1
<1>3. topic' \in [Partition -> Seq(Message)]
  BY <1>1, <1>2
<1>4. ASSUME NEW r \in Partition PROVE Len(topic[r]) <= Len(topic'[r])
  <2>1. CASE r = p
    <3>1. topic'[r] = topic[p] \o c  BY <1>1, <2>1
    <3> QED  BY <1>2, <2>1, <3>1
  <2>2. CASE r # p
    <3>1. topic'[r] = topic[r]  BY <1>1, <2>2
    <3>2. Len(topic[r]) \in Nat  BY <1>1
    <3> QED  BY <3>1, <3>2
  <2> QED  BY <2>1, <2>2
<1>5. Place \subseteq Place'
  <2> SUFFICES ASSUME NEW e \in Place PROVE e \in Place'
    OBVIOUS
  <2>1. e \in Entry /\ e.part \in Partition /\ e.off \in Nat /\ e.off <= Len(topic[e.part])
    BY DEF Place, Entry
  <2>2. /\ Len(topic[e.part]) \in Nat /\ Len(topic'[e.part]) \in Nat
        /\ Len(topic[e.part]) <= Len(topic'[e.part])
    BY <1>1, <1>3, <1>4, <2>1
  <2>3. e.off <= Len(topic'[e.part])
    <3> DEFINE a == Len(topic[e.part])
               b == Len(topic'[e.part])
    <3> HIDE DEF a, b
    <3>1. e.off <= a /\ a <= b /\ a \in Nat /\ b \in Nat  BY <2>1, <2>2 DEF a, b
    <3>2. e.off <= b  BY <2>1, <3>1
    <3> QED  BY <3>2 DEF b
  <2> QED  BY <2>1, <2>3 DEF Place
<1> QED  BY <1>3, <1>4, <1>5

\* The initial state is well typed.
LEMMA InitTypeOK == Init => TypeOK
<1> SUFFICES ASSUME Init PROVE TypeOK
  OBVIOUS
<1>1. /\ topic \in [Partition -> Seq(Message)]
      /\ committed \in [Partition -> Nat] /\ position \in [Partition -> Nat]
      /\ \A p \in Partition : committed[p] <= position[p] /\ position[p] <= Len(topic[p])
  BY DEF Init
<1> QED  BY <1>1, IngestionConstantsOK DEF Init, TypeOK

\* The members of the type invariant, for use one by one.
LEMMA Typed ==
  ASSUME TypeOK
  PROVE  /\ month \in Nat
         /\ topic \in [Partition -> Seq(Message)]
         /\ committed \in [Partition -> Nat] /\ position \in [Partition -> Nat]
         /\ \A p \in Partition : /\ committed[p] <= position[p] /\ position[p] <= Len(topic[p])
                                 /\ Len(topic[p]) \in Nat
         /\ queue \in Seq(Place) /\ cur \in SUBSET Place
         /\ order \in SUBSET OrderRow /\ rows \in SUBSET OrderRow
         /\ gap \in SUBSET Gap
BY DEF TypeOK

\* What is forgotten when the process dies are messages.
LEMMA ForgottenAreGaps ==
  ASSUME TypeOK
  PROVE  Forgotten \in SUBSET Gap
<1>1. InMemory \subseteq Place
  <2>1. \A i \in 1..Len(queue) : queue[i] \in Place
    BY Typed
  <2> QED  BY <2>1, Typed DEF InMemory
<1> SUFFICES ASSUME NEW e \in InMemory, e.off > 0
             PROVE  Lose(topic[e.part][e.off], "crash") \in Gap
  BY DEF Forgotten
<1>2. topic[e.part][e.off] \in Message
  BY <1>1, MessageOfPlace
<1> QED  BY <1>2 DEF Lose, Gap

\* A restart leaves the types alone.
LEMMA RestartTypeOK ==
  ASSUME TypeOK, Restart, gap' \in SUBSET Gap, mishaps' \in 0..MaxMishaps
  PROVE  TypeOK'
<1>1. \A p \in Partition : position'[p] = committed[p] /\ committed[p] <= Len(topic[p])
  <2> SUFFICES ASSUME NEW p \in Partition
               PROVE  position'[p] = committed[p] /\ committed[p] <= Len(topic[p])
    OBVIOUS
  <2>1. /\ committed[p] \in Nat /\ position[p] \in Nat /\ Len(topic[p]) \in Nat
        /\ committed[p] <= position[p] /\ position[p] <= Len(topic[p])
    BY Typed
  <2>2. committed[p] <= Len(topic[p])
    BY <2>1
  <2> QED  BY <2>2 DEF Restart
<1>2. position' \in [Partition -> Nat]
  BY Typed DEF Restart
<1>3. \A p \in Partition : committed'[p] <= position'[p] /\ position'[p] <= Len(topic'[p])
  BY <1>1, Typed DEF Restart
<1>4. queue' \in Seq(Place') /\ cur' \in SUBSET Place' /\ order' \in SUBSET OrderRow
  BY DEF Restart
<1> QED  BY <1>2, <1>3, <1>4 DEF Restart, TypeOK

\* A request keeps the types: the topic grows, so every place stays one.
LEMMA HandleRequestTypeOK ==
  ASSUME TypeOK, NEW m \in Message, HandleRequest(m)
  PROVE  TypeOK'
<1>1. PICK p \in Partition, c \in Copies(m) :
        /\ topic' = [topic EXCEPT ![p] = @ \o c]
        /\ mishaps' = IF Len(c) = 2 THEN mishaps + 1 ELSE mishaps
        /\ gap' = IF c = <<>> THEN gap \cup {Lose(m, "unproduced")} ELSE gap
  BY DEF HandleRequest
<1>2. /\ c \in Seq(Message)
      /\ Len(c) = 2 => mishaps < MaxMishaps
  <2>1. c = <<m>> \/ c = <<>> \/ (c = <<m, m>> /\ mishaps < MaxMishaps)
    BY DEF Copies
  <2>2. CASE c = <<m>>  BY <2>2
  <2>3. CASE c = <<>>  BY <2>3
  <2>4. CASE c = <<m, m>> /\ mishaps < MaxMishaps  BY <2>4
  <2> QED  BY <2>1, <2>2, <2>3, <2>4
<1>3. /\ topic' \in [Partition -> Seq(Message)]
      /\ \A r \in Partition : Len(topic[r]) <= Len(topic'[r])
      /\ Place \subseteq Place'
  BY <1>1, <1>2, PlacesStay
<1>4. \A r \in Partition : position'[r] <= Len(topic'[r])
  <2> SUFFICES ASSUME NEW r \in Partition PROVE position[r] <= Len(topic'[r])
    BY DEF HandleRequest
  <2> DEFINE a == Len(topic[r])
             b == Len(topic'[r])
  <2>1. a \in Nat /\ b \in Nat /\ a <= b /\ position[r] <= a /\ position[r] \in Nat
    BY <1>3, Typed
  <2> HIDE DEF a, b
  <2>2. position[r] <= b
    BY <2>1
  <2> QED  BY <2>2 DEF b
<1>5. queue \in Seq(Place') /\ cur \in SUBSET Place'
  BY <1>3, SeqMonotone, Typed
<1>6. gap' \in SUBSET Gap
  BY <1>1, Typed DEF Gap, Lose
<1>7. mishaps' \in 0..MaxMishaps
  BY <1>1, <1>2, IngestionConstantsOK DEF TypeOK
<1>8. posts' \in 0..MaxPosts /\ sent' \in SUBSET Message
  BY IngestionConstantsOK DEF TypeOK, HandleRequest
<1> QED  BY <1>3, <1>4, <1>5, <1>6, <1>7, <1>8 DEF TypeOK, HandleRequest, proc

\* consume() and Push keep the types: what is queued is a place of the topic.
LEMMA PushTypeOK ==
  ASSUME TypeOK, NEW p \in Partition, Push(p)
  PROVE  TypeOK'
<1> DEFINE e == [part |-> p, off |-> position[p] + 1]
           m == topic[p][position[p] + 1]
<1>1. /\ position[p] \in Nat /\ position[p] + 1 <= Len(topic[p]) /\ Len(topic[p]) \in Nat
      /\ committed[p] <= position[p] /\ committed[p] \in Nat
  BY Typed DEF Push
<1>2. e \in Place
  BY <1>1 DEF Place, Entry
<1>3. m \in Message
  BY <1>2, <1>1, MessageOfPlace
<1>4. queue' \in Seq(Place)
  <2>1. queue' = Append(queue, e) \/ queue' = queue
    BY DEF Push, PushQueue
  <2>2. queue \in Seq(Place)
    BY Typed
  <2> HIDE DEF e
  <2> QED  BY <1>2, <2>1, <2>2
<1>5. gap' \in SUBSET Gap
  BY <1>3, Typed DEF Push, Gap, Lose
<1>6. position' \in [Partition -> Nat]
  BY <1>1, Typed DEF Push
<1>7. \A r \in Partition : committed[r] <= position'[r] /\ position'[r] <= Len(topic[r])
  <2> SUFFICES ASSUME NEW r \in Partition
               PROVE  committed[r] <= position'[r] /\ position'[r] <= Len(topic[r])
    OBVIOUS
  <2>1. CASE r = p
    <3>1. position'[r] = position[p] + 1  BY <2>1, Typed DEF Push
    <3> QED  BY <1>1, <2>1, <3>1
  <2>2. CASE r # p
    <3>1. position'[r] = position[r]  BY <2>2, Typed DEF Push
    <3> QED  BY <3>1, Typed
  <2> QED  BY <2>1, <2>2
<1>8. Place' = Place
  BY DEF Place, Push
<1> QED  BY <1>4, <1>5, <1>6, <1>7, <1>8 DEF TypeOK, Push, proc, bounds

\* Error events, commits and rebalances keep the types.
LEMMA ConsumerTypeOK ==
  ASSUME TypeOK, NEW p \in Partition, PushError(p) \/ Commit(p) \/ Rebalance(p)
  PROVE  TypeOK'
<1>1. Place' = Place
  BY DEF Place, PushError, Commit, Rebalance, log
<1>2. CASE PushError(p)
  <2>1. [part |-> p, off |-> 0] \in Place
    BY Typed DEF Place, Entry
  <2>2. queue' \in Seq(Place)
    BY <1>2, <2>1, Typed DEF PushError, PushQueue
  <2>3. mishaps' \in 0..MaxMishaps
    BY <1>2, IngestionConstantsOK DEF TypeOK, PushError
  <2> QED  BY <1>1, <1>2, <2>2, <2>3 DEF TypeOK, PushError, log, proc
<1>3. CASE Commit(p)
  <2>1. committed' \in [Partition -> Nat]
    BY <1>3, Typed DEF Commit
  <2>2. \A r \in Partition : committed'[r] <= position[r]
    BY <1>3, Typed DEF Commit
  <2> QED  BY <1>1, <1>3, <2>1, <2>2 DEF TypeOK, Commit, proc, bounds
<1>4. CASE Rebalance(p)
  <2>1. position' \in [Partition -> Nat]
    BY <1>4, Typed DEF Rebalance
  <2>2. \A r \in Partition : committed[r] <= position'[r] /\ position'[r] <= position[r]
    BY <1>4, Typed DEF Rebalance
  <2>3. \A r \in Partition : position'[r] <= Len(topic[r])
    BY <2>1, <2>2, Typed
  <2>4. mishaps' \in 0..MaxMishaps
    BY <1>4, IngestionConstantsOK DEF TypeOK, Rebalance
  <2> QED  BY <1>1, <1>4, <2>1, <2>2, <2>3, <2>4 DEF TypeOK, Rebalance, proc
<1> QED  BY <1>2, <1>3, <1>4

\* An entry the processor reads a message from is a place of the topic.
LEMMA ParsedMessage ==
  ASSUME TypeOK, NEW e \in cur, KindOf(e) # "broken" \/ e.off # 0
  PROVE  e.off > 0 /\ topic[e.part][e.off] \in Message
         /\ KindOf(e) = Kind[topic[e.part][e.off]]
<1>1. e \in Place /\ e.off \in Nat
  BY Typed DEF Place, Entry
<1>2. e.off # 0
  BY DEF KindOf
<1>3. e.off > 0
  BY <1>1, <1>2
<1> QED  BY <1>1, <1>2, <1>3, MessageOfPlace DEF KindOf

\* What ParseOrder makes of a message is a row.
LEMMA ParseOrderRow ==
  ASSUME TypeOK, ParseOrder
  PROVE  \E m \in Message : \E time \in BusinessTimes(m, month) :
           /\ Kind[m] \in Orders
           /\ order' = {[user |-> User[m], kind |-> Kind[m], time |-> time,
                          msg |-> m, at |-> month]}
<1>1. PICK e \in cur :
        /\ KindOf(e) \in Orders
        /\ \E time \in BusinessTimes(topic[e.part][e.off], month) :
             order' = {[user |-> User[topic[e.part][e.off]], kind |-> Kind[topic[e.part][e.off]],
                        time |-> time, msg |-> topic[e.part][e.off], at |-> month]}
  BY DEF ParseOrder
<1>2. KindOf(e) # "broken"
  BY <1>1 DEF Orders, Dated
<1> QED  BY <1>1, <1>2, ParsedMessage

\* The steps of ProcessQueue keep the types.
LEMMA ProcessorTypeOK ==
  ASSUME TypeOK, Pop \/ Reject \/ ParseOrder \/ UpdateToDb \/ UploadDataToKafka
  PROVE  TypeOK'
<1>1. Place' = Place
  BY DEF Place, Pop, Reject, ParseOrder, UpdateToDb, UploadDataToKafka, log
<1>2. CASE Pop
  <2>1. queue \in Seq(Place) /\ queue # <<>>
    BY <1>2, Typed DEF Pop
  <2>2. Head(queue) \in Place /\ Tail(queue) \in Seq(Place)
    BY <2>1
  <2> QED  BY <1>1, <1>2, <2>2 DEF TypeOK, Pop, log, bounds
<1>3. CASE Reject
  <2>1. PICK e \in cur : gap' = IF e.off = 0 THEN gap
                                ELSE gap \cup {Lose(topic[e.part][e.off], "broken")}
    BY <1>3 DEF Reject
  <2>2. gap' \in SUBSET Gap
    <3>1. CASE e.off = 0  BY <2>1, <3>1, Typed
    <3>2. CASE e.off # 0
      <4>1. topic[e.part][e.off] \in Message  BY <3>2, ParsedMessage
      <4> QED  BY <2>1, <3>2, <4>1, Typed DEF Gap, Lose
    <3> QED  BY <3>1, <3>2
  <2> QED  BY <1>1, <1>3, <2>2 DEF TypeOK, Reject, AfterFailure, log, bounds
<1>4. CASE ParseOrder
  <2> PICK m \in Message : \E time \in BusinessTimes(m, month) :
          /\ Kind[m] \in Orders
          /\ order' = {[user |-> User[m], kind |-> Kind[m], time |-> time,
                         msg |-> m, at |-> month]}
    BY <1>4, ParseOrderRow
  <2>1. PICK time \in BusinessTimes(m, month) :
          /\ Kind[m] \in Orders
          /\ order' = {[user |-> User[m], kind |-> Kind[m], time |-> time,
                         msg |-> m, at |-> month]}
    OBVIOUS
  <2>2. time \in Int /\ month \in Nat
    BY TimesAreNumbers, Typed
  <2>3. order' \in SUBSET OrderRow
    <3>1. User[m] \in {User[x] : x \in Message}
      OBVIOUS
    <3> DEFINE U == {User[x] : x \in Message}
    <3> HIDE DEF U
    <3>2. User[m] \in U
      BY <3>1 DEF U
    <3>3. OrderRow = [user : U, kind : Orders, time : Int, msg : Message, at : Nat]
      BY DEF OrderRow, U
    <3>4. [user |-> User[m], kind |-> Kind[m], time |-> time, msg |-> m, at |-> month]
            \in [user : U, kind : Orders, time : Int, msg : Message, at : Nat]
      BY <2>1, <2>2, <3>2
    <3> QED  BY <2>1, <3>3, <3>4
  <2> QED  BY <1>1, <1>4, <2>3 DEF TypeOK, ParseOrder, log, bounds
<1>5. CASE UpdateToDb
  <2>1. PICK o \in order : \/ rows' = rows \cup {o} /\ gap' = gap
                           \/ /\ rows' = rows
                              /\ gap' \subseteq gap \cup {Lose(o.msg, "taken"), Lose(o.msg, "sql")}
    BY <1>5 DEF UpdateToDb
  <2>2. o \in OrderRow /\ o.msg \in Message
    BY Typed DEF OrderRow
  <2>3. rows' \in SUBSET OrderRow /\ gap' \in SUBSET Gap
    BY <2>1, <2>2, Typed DEF Gap, Lose
  <2> QED  BY <1>1, <1>5, <2>3 DEF TypeOK, UpdateToDb, log, bounds
<1>6. CASE UploadDataToKafka
  BY <1>1, <1>6 DEF TypeOK, UploadDataToKafka, log, bounds
<1> QED  BY <1>2, <1>3, <1>4, <1>5, <1>6

\* The end of the process keeps the types.
LEMMA DeathTypeOK ==
  ASSUME TypeOK, Crash \/ Abort
  PROVE  TypeOK'
<1>1. CASE Crash
  <2>1. gap' \in SUBSET Gap
    BY <1>1, ForgottenAreGaps, Typed DEF Crash
  <2>2. mishaps' \in 0..MaxMishaps
    BY <1>1, IngestionConstantsOK DEF TypeOK, Crash
  <2> QED  BY <1>1, <2>1, <2>2, RestartTypeOK DEF Crash
<1>2. CASE Abort
  <2>1. PICK e \in cur : /\ KindOf(e) = "misshapen"
                         /\ gap' = gap \cup Forgotten
                                      \cup {Lose(topic[e.part][e.off], "misshapen")}
    BY <1>2 DEF Abort
  <2>2. topic[e.part][e.off] \in Message
    BY <2>1, ParsedMessage
  <2>3. gap' \in SUBSET Gap
    BY <2>1, <2>2, ForgottenAreGaps, Typed DEF Gap, Lose
  <2>4. mishaps' \in 0..MaxMishaps
    BY <1>2 DEF TypeOK, Abort
  <2> QED  BY <1>2, <2>3, <2>4, RestartTypeOK DEF Abort
<1> QED  BY <1>1, <1>2

\* Every step keeps the types.
LEMMA NextTypeOK == TypeOK /\ [Next]_vars => TypeOK'
<1> SUFFICES ASSUME TypeOK, [Next]_vars PROVE TypeOK'
  OBVIOUS
<1>1. CASE NextMonth
  <2>1. Place' = Place /\ month' \in Nat
    BY <1>1, Typed DEF NextMonth, Place, log
  <2> QED  BY <1>1, <2>1 DEF TypeOK, NextMonth, log, proc, bounds
<1>2. CASE \E m \in Message : HandleRequest(m)
  BY <1>2, HandleRequestTypeOK
<1>3. CASE \E p \in Partition : Push(p) \/ PushError(p) \/ Commit(p) \/ Rebalance(p)
  BY <1>3, PushTypeOK, ConsumerTypeOK
<1>4. CASE Pop \/ Reject \/ ParseOrder \/ UpdateToDb \/ UploadDataToKafka
  BY <1>4, ProcessorTypeOK
<1>5. CASE Crash \/ Abort
  BY <1>5, DeathTypeOK
<1>6. CASE UNCHANGED vars
  <2>1. Place' = Place
    BY <1>6 DEF Place, vars, log
  <2> QED  BY <1>6, <2>1 DEF TypeOK, vars, log, proc, bounds
<1> QED  BY <1>1, <1>2, <1>3, <1>4, <1>5, <1>6 DEF Next

\* Every variable keeps its type; the committed offset stays at or below the consumed
\* one, and what the queue and the processor hold is in the topic.
THEOREM MessagesTyped == Spec => []TypeOK
BY InitTypeOK, NextTypeOK, PTL DEF Spec

-----------------------------------------------------------------------------
(***************************************************************************)
(* BookedOnce and UploadedHasRow.  Every order carries the time its        *)
(* message is given in the month it is parsed; the primary key does the    *)
(* rest.                                                                   *)
(***************************************************************************)
MadeFrom(r) ==
  /\ r.msg \in Message /\ r.at \in Nat
  /\ r.kind = Kind[r.msg] /\ r.user = User[r.msg]
  /\ r.time \in BusinessTimes(r.msg, r.at)

HasRow(o) == (\E r \in rows : SameId(r, o)) \/ Lose(o.msg, "sql") \in gap

RowInv ==
  /\ month \in Nat
  /\ \A r \in order \cup rows : MadeFrom(r)
  /\ \A r, s \in rows : SameId(r, s) => r = s
  /\ \A u \in uploads : HasRow(u)
  /\ \A o, x \in order : o = x
  /\ pc = "upload" => \A o \in order : HasRow(o)

\* A booking parsed close to its time is given its own year.
LEMMA NearIsRight ==
  ASSUME NEW r, MadeFrom(r), Near(r)
  PROVE  r.time = When[r.msg]
<1>1. /\ r.msg \in Message /\ r.at \in Nat /\ When[r.msg] \in Nat
      /\ r.kind = Kind[r.msg] /\ r.time \in BusinessTimes(r.msg, r.at)
  BY IngestionConstantsOK DEF MadeFrom, Near
<1>2. CASE r.kind = "hotel"
  <2>1. YearOf(r.at) = YearOf(When[r.msg])
    BY <1>2 DEF Near
  <2>2. r.time = ShortDatetimeToTimestamp(r.at, MonthOf(When[r.msg]))
    BY <1>1, <1>2 DEF BusinessTimes, Near
  <2> QED  BY <1>1, <2>1, <2>2, YearOfArrival
<1>3. CASE r.kind # "hotel"
  <2>1. -3 <= When[r.msg] - r.at /\ When[r.msg] - r.at <= 3
    BY <1>3 DEF Near
  <2>2. r.time = ShortDatetimeToTimestampNew(r.at, MonthOf(When[r.msg]))
    BY <1>1, <1>3 DEF BusinessTimes, Near
  <2> QED  BY <1>1, <2>1, <2>2, YearInferred
<1> QED  BY <1>2, <1>3

\* The row invariant gives the two properties of the tables.
LEMMA RowInvIsEnough == RowInv => BookedOnce /\ UploadedHasRow
<1> SUFFICES ASSUME RowInv PROVE BookedOnce /\ UploadedHasRow
  OBVIOUS
<1>1. BookedOnce
  <2> SUFFICES ASSUME NEW r \in rows, Near(r)
               PROVE  /\ r.time = When[r.msg]
                      /\ \A s \in rows : s.msg = r.msg /\ Near(s) => s = r
    BY DEF BookedOnce
  <2>1. MadeFrom(r) /\ r.time = When[r.msg]
    BY NearIsRight DEF RowInv
  <2>2. ASSUME NEW s \in rows, s.msg = r.msg, Near(s) PROVE s = r
    <3>1. MadeFrom(s) /\ s.time = When[s.msg]
      BY <2>2, NearIsRight DEF RowInv
    <3>2. SameId(s, r)
      BY <2>1, <2>2, <3>1 DEF SameId, MadeFrom
    <3> QED  BY <3>2 DEF RowInv
  <2> QED  BY <2>1, <2>2
<1>2. UploadedHasRow
  BY DEF RowInv, HasRow, SameId, UploadedHasRow
<1> QED  BY <1>1, <1>2

\* Every step keeps the row invariant; only ParseOrder, UpdateToDb and UploadDataToKafka touch it.
LEMMA NextRowInv == TypeOK /\ RowInv /\ [Next]_vars => RowInv'
<1> SUFFICES ASSUME TypeOK, RowInv, [Next]_vars PROVE RowInv'
  OBVIOUS
\* the steps that leave the table, the order and the uploads alone
<1> DEFINE Quiet == /\ rows' = rows /\ order' = order /\ uploads' = uploads
                    /\ gap \subseteq gap' /\ month' \in Nat /\ (pc' = "upload" => pc = "upload")
<1>1. ASSUME Quiet PROVE RowInv'
  BY <1>1 DEF RowInv, MadeFrom, HasRow
<1>2. CASE NextMonth
  BY <1>1, <1>2, Typed DEF NextMonth, proc
<1>3. CASE \E m \in Message : HandleRequest(m)
  BY <1>1, <1>3, Typed DEF HandleRequest, proc
<1>4. CASE \E p \in Partition : Push(p) \/ PushError(p) \/ Commit(p) \/ Rebalance(p)
  BY <1>1, <1>4, Typed DEF Push, PushError, Commit, Rebalance, proc
<1>5. CASE Pop \/ Reject
  BY <1>1, <1>5, Typed DEF Pop, Reject, AfterFailure
<1>6. CASE ParseOrder
  <2> PICK m \in Message : \E time \in BusinessTimes(m, month) :
          /\ Kind[m] \in Orders
          /\ order' = {[user |-> User[m], kind |-> Kind[m], time |-> time,
                         msg |-> m, at |-> month]}
    BY <1>6, ParseOrderRow
  <2>1. PICK time \in BusinessTimes(m, month) :
          order' = {[user |-> User[m], kind |-> Kind[m], time |-> time,
                     msg |-> m, at |-> month]}
    OBVIOUS
  <2>2. \A r \in order' : MadeFrom(r)
    BY <2>1, Typed DEF MadeFrom
  <2>3. rows' = rows /\ uploads' = uploads /\ gap' = gap /\ month' = month /\ pc' = "insert"
    BY <1>6 DEF ParseOrder
  <2> QED  BY <2>2, <2>3 DEF RowInv, MadeFrom, HasRow
<1>7. CASE UpdateToDb
  <2>1. order' = order /\ uploads' = uploads /\ month' = month /\ gap \subseteq gap'
    BY <1>7 DEF UpdateToDb
  <2>2. PICK o \in order : \/ (\A r \in rows : ~ SameId(r, o)) /\ rows' = rows \cup {o}
                           \/ (\E r \in rows : SameId(r, o)) /\ rows' = rows
                           \/ Lose(o.msg, "sql") \in gap' /\ rows' = rows
    BY <1>7 DEF UpdateToDb
  <2>3. \A r, s \in rows' : SameId(r, s) => r = s
    <3>1. \A r, s : SameId(r, s) => SameId(s, r)
      BY DEF SameId
    <3> QED  BY <2>2, <3>1 DEF RowInv
  <2>4. \A r \in order' \cup rows' : MadeFrom(r)
    BY <2>1, <2>2 DEF RowInv
  <2>5. \A u \in uploads : HasRow(u)'
    BY <2>1, <2>2 DEF RowInv, HasRow
  <2>6. HasRow(o)'
    BY <2>1, <2>2 DEF HasRow, SameId
  <2>7. \A x \in order : x = o
    BY <1>7 DEF RowInv
  <2> QED  BY <2>1, <2>3, <2>4, <2>5, <2>6, <2>7 DEF RowInv, MadeFrom
<1>8. CASE UploadDataToKafka
  <2>1. /\ order' = {} /\ uploads' \subseteq uploads \cup order /\ pc = "upload" /\ pc' = "pop"
        /\ rows' = rows /\ gap' = gap /\ month' = month
    BY <1>8 DEF UploadDataToKafka
  <2>2. \A u \in uploads' : HasRow(u)'
    BY <2>1 DEF RowInv, HasRow
  <2> QED  BY <2>1, <2>2 DEF RowInv, MadeFrom
<1>9. CASE Crash \/ Abort
  <2>1. /\ order' = {} /\ uploads' = uploads /\ pc' = "pop"
        /\ rows' = rows /\ gap \subseteq gap' /\ month' = month
    BY <1>9 DEF Crash, Abort, Restart
  <2> QED  BY <2>1 DEF RowInv, MadeFrom, HasRow
<1>10. CASE UNCHANGED vars
  BY <1>1, <1>10, Typed DEF vars, proc
<1> QED
  BY <1>2, <1>3, <1>4, <1>5, <1>6, <1>7, <1>8, <1>9, <1>10 DEF Next

\* There are no rows at first.
LEMMA InitRowInv == Init => RowInv
BY IngestionConstantsOK DEF Init, RowInv

\* The row invariant holds of every behaviour.
LEMMA AlwaysRowInv == Spec => []RowInv
BY InitRowInv, NextRowInv, MessagesTyped, PTL DEF Spec

\* However often and across whatever new year its message is consumed, a booking parsed
\* within three months of it, a hotel within the year, is in the table in its own year,
\* and once.
THEOREM BookingsOnce == Spec => []BookedOnce
<1>1. RowInv => BookedOnce
  BY RowInvIsEnough
<1> QED  BY <1>1, AlwaysRowInv, PTL

\* Whatever is reported to the log server is in the table, or its INSERT failed.
THEOREM UploadsHaveRows == Spec => []UploadedHasRow
<1>1. RowInv => UploadedHasRow
  BY RowInvIsEnough
<1> QED  BY <1>1, AlwaysRowInv, PTL

-----------------------------------------------------------------------------
(***************************************************************************)
(* LossHasCause.  Every message consumed is settled or in memory, as far   *)
(* as the consumed offset and not only the committed one: so a commit      *)
(* takes nothing away, and a restart only what it forgets.                 *)
(***************************************************************************)
InTopic(m) == \E p \in Partition : \E i \in 1..Len(topic[p]) : topic[p][i] = m

Consumed ==
  \A p \in Partition : \A i \in 1..Len(topic[p]) :
    i <= position[p] => Settled(topic[p][i]) \/ [part |-> p, off |-> i] \in InMemory

\* What the processor holds: one entry, and the order made of it.
Holding ==
  /\ pc = "pop" => cur = {}
  /\ \A e, f \in cur : e = f
  /\ pc = "insert" => \A e \in cur : \A o \in order :
                          e.off > 0 /\ o.msg = topic[e.part][e.off]

LossInv ==
  /\ \A m \in sent : Settled(m) \/ InTopic(m)
  /\ Consumed
  /\ Holding

\* What is neither on its way nor in memory was consumed, committed and settled.
LEMMA LossInvIsEnough == TypeOK /\ LossInv => LossHasCause
<1> SUFFICES ASSUME TypeOK, LossInv, NEW m \in sent, ~ Settled(m)
             PROVE  \E p \in Partition : \E i \in 1..Len(topic[p]) :
                      /\ topic[p][i] = m
                      /\ i > committed[p] \/ [part |-> p, off |-> i] \in InMemory
  BY DEF LossHasCause
<1>1. PICK p \in Partition : \E i \in 1..Len(topic[p]) : topic[p][i] = m
  BY DEF LossInv, InTopic
<1>2. PICK i \in 1..Len(topic[p]) : topic[p][i] = m
  BY <1>1
<1>3. CASE i > committed[p]
  BY <1>2, <1>3
<1>4. CASE ~ (i > committed[p])
  <2>1. i \in Nat /\ committed[p] \in Nat /\ position[p] \in Nat /\ committed[p] <= position[p]
    BY Typed
  <2>2. i <= position[p]
    BY <1>4, <2>1
  <2> QED  BY <1>2, <2>2 DEF LossInv, Consumed
<1> QED  BY <1>3, <1>4

\* A row and a gap stay, and so does what they settle.
LEMMA StaySettled ==
  ASSUME NEW m, Settled(m), rows \subseteq rows', gap \subseteq gap'
  PROVE  Settled(m)'
BY DEF Settled

\* A step that leaves the topic alone, consumes nothing and settles what leaves memory.
LEMMA LossKept ==
  ASSUME LossInv, topic' = topic, sent' = sent, rows \subseteq rows', gap \subseteq gap',
         Holding',
         \A p \in Partition : \A i \in 1..Len(topic[p]) :
           i <= position'[p] =>
             /\ i <= position[p]
             /\ [part |-> p, off |-> i] \in InMemory =>
                  [part |-> p, off |-> i] \in InMemory' \/ Settled(topic[p][i])'
  PROVE  LossInv'
<1>1. Consumed'
  BY StaySettled DEF LossInv, Consumed
<1>2. \A m \in sent' : Settled(m)' \/ InTopic(m)'
  BY StaySettled DEF LossInv, InTopic
<1> QED  BY <1>1, <1>2 DEF LossInv

\* A posted message is in the topic, beyond the committed offset, or a gap.
LEMMA HandleRequestLoss ==
  ASSUME TypeOK, LossInv, NEW m \in Message, HandleRequest(m)
  PROVE  LossInv'
<1>1. PICK p \in Partition, c \in Copies(m) :
        /\ topic' = [topic EXCEPT ![p] = @ \o c]
        /\ gap' = IF c = <<>> THEN gap \cup {Lose(m, "unproduced")} ELSE gap
  BY DEF HandleRequest
<1>2. (c = <<>> \/ c = <<m>> \/ c = <<m, m>>) /\ c \in Seq(Message)
  <2>1. c = <<m>> \/ c = <<>> \/ c = <<m, m>>
    BY DEF Copies
  <2>2. CASE c = <<m>>  BY <2>2
  <2>3. CASE c = <<>>  BY <2>3
  <2>4. CASE c = <<m, m>>  BY <2>4
  <2> QED  BY <2>1, <2>2, <2>3, <2>4
<1>3. /\ rows' = rows /\ gap \subseteq gap' /\ position' = position /\ InMemory' = InMemory
      /\ pc' = pc /\ cur' = cur /\ order' = order /\ sent' = sent \cup {m}
  BY <1>1 DEF HandleRequest, proc, InMemory
\* the old messages stay where they are
<1>4. \A r \in Partition : /\ Len(topic[r]) \in Nat /\ Len(topic'[r]) \in Nat
                           /\ Len(topic[r]) <= Len(topic'[r])
                           /\ \A i \in 1..Len(topic[r]) : topic'[r][i] = topic[r][i]
  <2> SUFFICES ASSUME NEW r \in Partition
               PROVE  /\ Len(topic[r]) \in Nat /\ Len(topic'[r]) \in Nat
                      /\ Len(topic[r]) <= Len(topic'[r])
                      /\ \A i \in 1..Len(topic[r]) : topic'[r][i] = topic[r][i]
    OBVIOUS
  <2>1. topic[r] \in Seq(Message)
    BY Typed
  <2>2. CASE r = p
    <3>1. topic'[r] = topic[r] \o c  BY <1>1, <2>2, Typed
    <3> QED  BY <1>2, <2>1, <3>1
  <2>3. CASE r # p
    <3>1. topic'[r] = topic[r]  BY <1>1, <2>3, Typed
    <3> QED  BY <2>1, <3>1
  <2> QED  BY <2>2, <2>3
<1>5. Settled(m)' \/ InTopic(m)'
  <2>1. CASE c = <<>>
    <3>1. Lose(m, "unproduced") \in gap' /\ Lose(m, "unproduced").msg = m
      BY <1>1, <2>1 DEF Lose
    <3> QED  BY <3>1 DEF Settled
  <2>2. CASE c # <<>>
    <3>1. topic[p] \in Seq(Message) /\ topic'[p] = topic[p] \o c
      BY <1>1, Typed
    <3>2. c[1] = m /\ Len(c) >= 1
      BY <1>2, <2>2
    <3>3. /\ Len(topic'[p]) = Len(topic[p]) + Len(c) /\ Len(topic[p]) \in Nat /\ Len(c) \in Nat
          /\ topic'[p][Len(topic[p]) + 1] = c[1]
      BY <1>2, <3>1, <3>2
    <3>4. Len(topic[p]) + 1 \in 1..Len(topic'[p])
      BY <3>2, <3>3
    <3> QED  BY <3>2, <3>3, <3>4 DEF InTopic
  <2> QED  BY <2>1, <2>2
<1>6. \A x \in sent' : Settled(x)' \/ InTopic(x)'
  <2> SUFFICES ASSUME NEW x \in sent PROVE Settled(x)' \/ InTopic(x)'
    BY <1>3, <1>5
  <2>1. CASE Settled(x)
    BY <1>3, <2>1, StaySettled
  <2>2. CASE InTopic(x)
    <3>1. PICK r \in Partition : \E i \in 1..Len(topic[r]) : topic[r][i] = x
      BY <2>2 DEF InTopic
    <3>2. PICK i \in 1..Len(topic[r]) : topic[r][i] = x
      BY <3>1
    <3>3. i \in 1..Len(topic'[r]) /\ topic'[r][i] = x
      BY <1>4, <3>2
    <3> QED  BY <3>3 DEF InTopic
  <2> QED  BY <2>1, <2>2 DEF LossInv
<1>7. Consumed'
  <2> SUFFICES ASSUME NEW r \in Partition, NEW i \in 1..Len(topic'[r]), i <= position[r]
               PROVE  Settled(topic[r][i])' \/ [part |-> r, off |-> i] \in InMemory'
    BY <1>3 DEF Consumed
  <2>1. i \in 1..Len(topic[r])
    <3>1. /\ position[r] \in Nat /\ position[r] <= Len(topic[r]) /\ Len(topic[r]) \in Nat
          /\ i \in Nat /\ i >= 1
      BY <1>4, Typed
    <3> QED  BY <3>1
  <2>2. topic'[r][i] = topic[r][i]
    BY <1>4, <2>1
  <2>3. Settled(topic[r][i]) \/ [part |-> r, off |-> i] \in InMemory
    BY <2>1 DEF LossInv, Consumed
  <2> QED  BY <1>3, <2>2, <2>3 DEF Settled
<1>8. Holding'
  <2> SUFFICES ASSUME pc = "insert", NEW e \in cur, NEW o \in order
               PROVE  e.off > 0 /\ o.msg = topic'[e.part][e.off]
    BY <1>3 DEF LossInv, Holding
  <2>1. e.off > 0 /\ o.msg = topic[e.part][e.off]
    BY DEF LossInv, Holding
  <2>2. e.part \in Partition /\ e.off \in Nat /\ e.off <= Len(topic[e.part])
    BY Typed DEF Place, Entry
  <2>3. e.off \in 1..Len(topic[e.part])
    BY <1>4, <2>1, <2>2
  <2> QED  BY <1>4, <2>1, <2>2, <2>3
<1> QED  BY <1>6, <1>7, <1>8 DEF LossInv

\* Nothing that is in the queue leaves memory when an entry is appended to it.
LEMMA AppendedInMemory ==
  ASSUME TypeOK, NEW e \in Place, queue' = Append(queue, e), cur' = cur, pc' = pc
  PROVE  InMemory \subseteq InMemory' /\ e \in InMemory'
<1>1. queue \in Seq(Place)
  BY Typed
<1>2. /\ Len(queue') = Len(queue) + 1 /\ Len(queue) \in Nat
      /\ \A i \in 1..Len(queue) : queue'[i] = queue[i]
      /\ queue'[Len(queue) + 1] = e
  BY <1>1
<1>3. \A i \in 1..Len(queue) : i \in 1..Len(queue')
  BY <1>2
<1>4. Len(queue) + 1 \in 1..Len(queue')
  BY <1>2
<1> QED  BY <1>2, <1>3, <1>4 DEF InMemory

\* A consumed message is queued, or dropped with a gap.
LEMMA PushLoss ==
  ASSUME TypeOK, LossInv, NEW p \in Partition, Push(p)
  PROVE  LossInv'
<1> DEFINE e == [part |-> p, off |-> position[p] + 1]
           m == topic[p][position[p] + 1]
           Done(x) == (\E r \in rows' : r.msg = x) \/ \E g \in gap' : g.msg = x
<1>1. /\ rows' = rows /\ gap \subseteq gap' /\ topic' = topic
      /\ pc' = pc /\ cur' = cur /\ order' = order /\ sent' = sent
  BY DEF Push, proc
<1>2. /\ position[p] \in Nat /\ position[p] + 1 <= Len(topic[p]) /\ Len(topic[p]) \in Nat
  BY Typed DEF Push
<1>3. e \in Place
  BY <1>2 DEF Place, Entry
<1>4. \/ queue' = Append(queue, e)
      \/ queue' = queue /\ Done(m)
  <2>1. \/ queue' = Append(queue, e)
        \/ queue' = queue /\ gap' = gap \cup {Lose(m, "empty")}
    BY DEF Push, PushQueue
  <2>2. Lose(m, "empty").msg = m
    BY DEF Lose
  <2>3. ASSUME gap' = gap \cup {Lose(m, "empty")} PROVE Done(m)
    <3>1. Lose(m, "empty") \in gap'
      BY <2>3
    <3> QED  BY <2>2, <3>1
  <2> QED  BY <2>1, <2>3
<1>5. InMemory \subseteq InMemory' /\ (e \in InMemory' \/ Done(m))
  <2>1. CASE queue' = Append(queue, e)
    <3> HIDE DEF e
    <3> QED  BY <1>1, <1>3, <2>1, AppendedInMemory
  <2>2. CASE queue' = queue /\ Done(m)
    BY <1>1, <2>2 DEF InMemory
  <2> QED  BY <1>4, <2>1, <2>2
<1>6. Consumed'
  <2> SUFFICES ASSUME NEW r \in Partition, NEW i \in 1..Len(topic[r]), i <= position'[r]
               PROVE  Settled(topic[r][i])' \/ [part |-> r, off |-> i] \in InMemory'
    BY <1>1 DEF Consumed
  <2>1. CASE r = p /\ i = position[p] + 1
    BY <1>1, <1>5, <2>1 DEF Settled
  <2>2. CASE ~ (r = p /\ i = position[p] + 1)
    <3>1. position' = [position EXCEPT ![p] = @ + 1]
      BY DEF Push
    <3>2. i <= position[r]
      <4>1. CASE r = p
        <5>1. position'[p] = position[p] + 1  BY <3>1, Typed
        <5> QED  BY <1>2, <2>2, <4>1, <5>1
      <4>2. CASE r # p
        BY <3>1, <4>2, Typed
      <4> QED  BY <4>1, <4>2
    <3>3. Settled(topic[r][i]) \/ [part |-> r, off |-> i] \in InMemory
      BY <3>2 DEF LossInv, Consumed
    <3> QED  BY <1>1, <1>5, <3>3 DEF Settled
  <2> QED  BY <2>1, <2>2
<1>7. \A x \in sent' : Settled(x)' \/ InTopic(x)'
  BY <1>1, StaySettled DEF LossInv, InTopic
<1>8. Holding'
  BY <1>1 DEF LossInv, Holding
<1> QED  BY <1>6, <1>7, <1>8 DEF LossInv

\* The steps of the consumer threads that consume nothing new.
LEMMA ConsumerLoss ==
  ASSUME TypeOK, LossInv, NEW p \in Partition, PushError(p) \/ Commit(p) \/ Rebalance(p)
  PROVE  LossInv'
<1>1. /\ rows' = rows /\ gap' = gap /\ topic' = topic
      /\ pc' = pc /\ cur' = cur /\ order' = order /\ sent' = sent
  BY DEF PushError, Commit, Rebalance, proc, log
<1>2. Holding'
  BY <1>1 DEF LossInv, Holding
<1>3. InMemory \subseteq InMemory'
  <2>1. CASE PushError(p)
    <3>1. [part |-> p, off |-> 0] \in Place
      BY Typed DEF Place, Entry
    <3>2. queue' = Append(queue, [part |-> p, off |-> 0])
      BY <2>1 DEF PushError, PushQueue
    <3> DEFINE e == [part |-> p, off |-> 0]
    <3> HIDE DEF e
    <3>3. e \in Place /\ queue' = Append(queue, e)
      BY <3>1, <3>2 DEF e
    <3> QED  BY <1>1, <3>3, AppendedInMemory
  <2>2. CASE Commit(p) \/ Rebalance(p)
    BY <1>1, <2>2 DEF Commit, Rebalance, InMemory
  <2> QED  BY <2>1, <2>2
<1>4. \A r \in Partition : \A i \in 1..Len(topic[r]) : i <= position'[r] => i <= position[r]
  <2>1. CASE PushError(p) \/ Commit(p)
    BY <2>1 DEF PushError, Commit, log
  <2>2. CASE Rebalance(p)
    <3>1. \A r \in Partition : /\ position'[r] <= position[r]
                               /\ position'[r] \in Nat /\ position[r] \in Nat
      BY <2>2, Typed DEF Rebalance
    <3> QED  BY <3>1
  <2> QED  BY <2>1, <2>2
<1> QED  BY <1>1, <1>2, <1>3, <1>4, LossKept

\* A popped entry stays in memory.
LEMMA PopLoss ==
  ASSUME TypeOK, LossInv, Pop
  PROVE  LossInv'
<1>1. /\ queue \in Seq(Place) /\ queue # <<>> /\ pc = "pop" /\ cur = {}
      /\ queue' = Tail(queue) /\ cur' = {Head(queue)} /\ pc' = "parse"
  BY Typed DEF Pop, LossInv, Holding
<1>2. /\ Len(queue) \in Nat /\ Len(queue) >= 1 /\ Len(queue') = Len(queue) - 1
      /\ Head(queue) = queue[1]
      /\ \A j \in 1..(Len(queue) - 1) : queue'[j] = queue[j + 1]
  BY <1>1
<1>3. InMemory \subseteq InMemory'
  <2> SUFFICES ASSUME NEW j \in 1..Len(queue) PROVE queue[j] \in InMemory'
    BY <1>1 DEF InMemory
  <2>1. CASE j = 1
    BY <1>1, <1>2, <2>1 DEF InMemory
  <2>2. CASE j # 1
    <3>1. j - 1 \in 1..Len(queue') /\ queue'[j - 1] = queue[j]
      BY <1>2, <2>2
    <3> QED  BY <3>1 DEF InMemory
  <2> QED  BY <2>1, <2>2
<1>4. Holding'
  BY <1>1 DEF Holding
<1> QED  BY <1>3, <1>4, LossKept DEF Pop, log

\* A rejected message is a gap.
LEMMA RejectLoss ==
  ASSUME TypeOK, LossInv, Reject
  PROVE  LossInv'
<1>1. PICK e \in cur : gap' = IF e.off = 0 THEN gap
                              ELSE gap \cup {Lose(topic[e.part][e.off], "broken")}
  BY DEF Reject
<1>2. /\ \A x \in cur : x = e
      /\ pc = "parse" /\ cur' = {} /\ pc' = "pop" /\ queue' = queue
  BY DEF LossInv, Holding, Reject, AfterFailure
<1>3. InMemory = InMemory' \cup {e}
  BY <1>2 DEF InMemory
<1>4. ASSUME NEW p \in Partition, NEW i \in 1..Len(topic[p]), e = [part |-> p, off |-> i]
      PROVE  Lose(topic[p][i], "broken") \in gap' /\ Lose(topic[p][i], "broken").msg = topic[p][i]
  <2>1. i # 0
    BY Typed
  <2> QED  BY <1>1, <1>4, <2>1 DEF Lose
<1>5. Holding'
  BY <1>2 DEF Holding
<1>6. gap \subseteq gap' /\ rows' = rows /\ topic' = topic /\ position' = position /\ sent' = sent
  BY <1>1 DEF Reject, log
<1>7. \A p \in Partition : \A i \in 1..Len(topic[p]) :
        [part |-> p, off |-> i] \in InMemory =>
          [part |-> p, off |-> i] \in InMemory' \/ Settled(topic[p][i])'
  BY <1>3, <1>4, <1>6 DEF Settled
<1> QED  BY <1>5, <1>6, <1>7, LossKept

\* A parsed message stays in memory, and the order is of it.
LEMMA ParseOrderLoss ==
  ASSUME TypeOK, LossInv, ParseOrder
  PROVE  LossInv'
<1>1. /\ rows' = rows /\ gap' = gap /\ topic' = topic /\ position' = position /\ sent' = sent
      /\ cur' = cur /\ queue' = queue /\ pc = "parse" /\ pc' = "insert"
  BY DEF ParseOrder, log
<1>2. Holding'
  <2>1. PICK e \in cur :
          /\ KindOf(e) \in Orders
          /\ \E time \in BusinessTimes(topic[e.part][e.off], month) :
               order' = {[user |-> User[topic[e.part][e.off]],
                          kind |-> Kind[topic[e.part][e.off]],
                          time |-> time, msg |-> topic[e.part][e.off], at |-> month]}
    BY DEF ParseOrder
  <2>2. KindOf(e) # "broken"
    BY <2>1 DEF Orders, Dated
  <2>3. e.off > 0
    BY <2>2, ParsedMessage
  <2>4. \A x \in cur : x = e
    BY DEF LossInv, Holding
  <2>5. \A o \in order' : o.msg = topic[e.part][e.off]
    BY <2>1
  <2> QED  BY <1>1, <2>3, <2>4, <2>5 DEF Holding
<1>3. InMemory' = InMemory
  BY <1>1 DEF InMemory
<1> QED  BY <1>1, <1>2, <1>3, LossKept

\* After the INSERT the message has a row or a gap.
LEMMA UpdateToDbLoss ==
  ASSUME TypeOK, LossInv, UpdateToDb
  PROVE  LossInv'
<1> DEFINE Done(m) == (\E r \in rows' : r.msg = m) \/ \E g \in gap' : g.msg = m
<1>1. /\ topic' = topic /\ position' = position /\ sent' = sent
      /\ cur' = cur /\ queue' = queue /\ pc = "insert" /\ pc' = "upload"
      /\ rows \subseteq rows' /\ gap \subseteq gap'
  BY DEF UpdateToDb, log
<1>2. PICK o \in order :
        \/ rows' = rows \cup {o}
        \/ \E r \in rows : r.msg = o.msg
        \/ Lose(o.msg, "taken") \in gap'
        \/ Lose(o.msg, "sql") \in gap'
  BY DEF UpdateToDb
<1>3. Done(o.msg)
  <2>1. \A m, c : Lose(m, c).msg = m
    BY DEF Lose
  <2> QED  BY <1>1, <1>2, <2>1
<1>4. \A e \in cur : o.msg = topic[e.part][e.off]
  BY <1>1 DEF LossInv, Holding
<1>5. \A e \in InMemory : e \in InMemory' \/ Done(topic[e.part][e.off])
  BY <1>1, <1>3, <1>4 DEF InMemory
<1>6. \A p \in Partition : \A i \in 1..Len(topic[p]) :
        [part |-> p, off |-> i] \in InMemory =>
          [part |-> p, off |-> i] \in InMemory' \/ Settled(topic[p][i])'
  BY <1>1, <1>5 DEF Settled
<1>7. Holding'
  BY <1>1 DEF LossInv, Holding
<1> QED  BY <1>1, <1>6, <1>7, LossKept

\* After the report nothing is held that is not settled.
LEMMA UploadLoss ==
  ASSUME TypeOK, LossInv, UploadDataToKafka
  PROVE  LossInv'
<1>1. InMemory' = InMemory
  BY DEF InMemory, UploadDataToKafka
<1>2. Holding'
  BY DEF Holding, UploadDataToKafka
<1> QED  BY <1>1, <1>2, LossKept DEF UploadDataToKafka, log

\* What a restart takes from memory was committed and is forgotten, or is consumed again.
LEMMA DeathLoss ==
  ASSUME TypeOK, LossInv, Crash \/ Abort
  PROVE  LossInv'
<1>1. /\ topic' = topic /\ sent' = sent /\ rows' = rows
      /\ gap \cup Forgotten \subseteq gap' /\ position' = committed /\ cur' = {} /\ pc' = "pop"
  BY DEF Crash, Abort, Restart
<1>2. ASSUME NEW p \in Partition, NEW i \in 1..Len(topic[p]), i <= committed[p]
      PROVE  /\ i <= position[p]
             /\ [part |-> p, off |-> i] \in InMemory => Settled(topic[p][i])'
  <2>1. i \in Nat /\ i > 0 /\ committed[p] \in Nat /\ position[p] \in Nat /\ committed[p] <= position[p]
    BY Typed
  <2>2. ASSUME [part |-> p, off |-> i] \in InMemory PROVE Settled(topic[p][i])'
    <3> DEFINE e == [part |-> p, off |-> i]
    <3>1. e.off > 0 /\ e.off <= committed[e.part] /\ topic[e.part][e.off] = topic[p][i]
      BY <1>2, <2>1
    <3>2. Lose(topic[p][i], "crash") \in Forgotten
      BY <2>2, <3>1 DEF Forgotten
    <3>3. Lose(topic[p][i], "crash").msg = topic[p][i]
      BY DEF Lose
    <3> QED  BY <1>1, <3>2, <3>3 DEF Settled
  <2> QED  BY <1>2, <2>1, <2>2
<1>3. Holding'
  BY <1>1 DEF Holding
<1> QED  BY <1>1, <1>2, <1>3, LossKept

\* Every step keeps the loss invariant.
LEMMA NextLossInv == TypeOK /\ LossInv /\ [Next]_vars => LossInv'
<1> SUFFICES ASSUME TypeOK, LossInv, [Next]_vars PROVE LossInv'
  OBVIOUS
<1>1. CASE NextMonth \/ UNCHANGED vars
  <2>1. /\ UNCHANGED <<topic, position, sent, rows, gap, pc, cur, order>> /\ InMemory' = InMemory
    BY <1>1 DEF NextMonth, vars, log, proc, InMemory
  <2>2. Holding'
    BY <2>1 DEF LossInv, Holding
  <2> QED  BY <2>1, <2>2, LossKept
<1>2. CASE \E m \in Message : HandleRequest(m)
  BY <1>2, HandleRequestLoss
<1>3. CASE \E p \in Partition : Push(p) \/ PushError(p) \/ Commit(p) \/ Rebalance(p)
  BY <1>3, PushLoss, ConsumerLoss
<1>4. CASE Pop \/ Reject \/ ParseOrder \/ UpdateToDb \/ UploadDataToKafka
  BY <1>4, PopLoss, RejectLoss, ParseOrderLoss, UpdateToDbLoss, UploadLoss
<1>5. CASE Crash \/ Abort
  BY <1>5, DeathLoss
<1> QED  BY <1>1, <1>2, <1>3, <1>4, <1>5 DEF Next

\* Nothing is sent at first.
LEMMA InitLossInv == Init => LossInv
BY DEF Init, LossInv, Holding, Consumed

\* A message answered with success is an order, on its way or lost for a named cause.
THEOREM NothingElseLost == Spec => []LossHasCause
<1>1. Spec => []LossInv
  BY InitLossInv, NextLossInv, MessagesTyped, PTL DEF Spec
<1> QED  BY <1>1, LossInvIsEnough, MessagesTyped, PTL
=============================================================================
