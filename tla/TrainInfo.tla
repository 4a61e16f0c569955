----------------------------- MODULE TrainInfo -----------------------------
(***************************************************************************)
(* The train info service: train_time_table, the threads that fill it from *)
(* a web site, and the queries push processors send.                       *)
(*                                                                         *)
(* Two threads write: TrainDataUpdater, for the numbers a query did not    *)
(* find, and the handler of /train/update_timetable, for all numbers in    *)
(* batches.  Both fetch pages first and then write row by row, a SELECT    *)
(* and an UPDATE or INSERT each, with no transaction; no row is ever       *)
(* deleted.  A query is two SELECTs.                                       *)
(***************************************************************************)
EXTENDS Integers, Sequences, FiniteSets, SequencesExt

CONSTANTS
  Editions,         \* per train, the time tables the site shows one after the other;
                    \* each is the sequence of its stations
  BatchSize,        \* batch_size of UpdateTimeTable, 50
  MaxTrainNoQueue   \* bound on the length of the queue

Train == DOMAIN Editions
Station == UNION {UNION {Range(Editions[t][e]) : e \in DOMAIN Editions[t]} : t \in Train}
StationNo == UNION {UNION {DOMAIN Editions[t][e] : e \in DOMAIN Editions[t]} : t \in Train}
Dumper == {"TrainDataUpdater", "UpdateTimeTable"}

\* A row carries its station and the edition its times are from.
Row == [station : Station, edition : Nat]
NoRow == [station |-> "none", edition |-> 0]
Entry == [train : Train, no : StationNo, row : Row]

\* The site lists so many trains, each with a time table at any moment; "none" is no station.
ASSUME TrainConstantsOK ==
  /\ BatchSize \in Nat \ {0} /\ MaxTrainNoQueue \in Nat \ {0}
  /\ IsFiniteSet(Train) /\ NoRow.station \notin Station
  /\ \A t \in Train : Editions[t] \in Seq(Seq(Station) \ {<<>>}) \ {<<>>}

VARIABLES
  edition,          \* per train: the edition the site shows
  trainNo,          \* the table train_no
  timeTable,        \* the table train_time_table, per train and station number
  trainNoQueue,     \* train_no_queue_
  dumper,           \* per writing thread: where it is, and what it has in hand
  query,            \* the query a push processor waits for
  trainFaults,      \* the number of pages and statements that may still fail
  \* history
  torn,             \* trains some edition of which was not taken over completely
  covered           \* per train: the edition shown when an update of all trains began
                    \* that listed it, wrote something and was answered with success

tables == <<trainNo, timeTable>>
trainVars == <<edition, tables, trainNoQueue, dumper, query, trainFaults, torn, covered>>

IdleDumper == [pc |-> "idle", batches |-> <<>>, pages |-> <<>>, rows |-> <<>>,
               found |-> FALSE, whole |-> TRUE, began |-> [t \in Train |-> 0]]
NoQuery == [pc |-> "none"]

TrainInit(known, faults) ==
  /\ edition = [t \in Train |-> 1]
  /\ trainNo = known
  /\ timeTable = [t \in Train |-> [k \in StationNo |-> NoRow]]
  /\ trainNoQueue = <<>>
  /\ dumper = [d \in Dumper |-> IdleDumper]
  /\ query = NoQuery
  /\ trainFaults = faults
  /\ torn = {}
  /\ covered = [t \in Train |-> 0]

-----------------------------------------------------------------------------
(***************************************************************************)
(* What a page holds, and what a thread is about to write.                 *)
(***************************************************************************)
\* FetchTimeTableByTrainNo: an item that cannot be read ends the loop, and the rows
\* before it stay in the vector.
Page(t, n) ==
  [k \in 1..n |-> [train |-> t, no |-> k,
                   row |-> [station |-> Editions[t][edition[t]][k], edition |-> edition[t]]]]
FullPage(t) == Page(t, Len(Editions[t][edition[t]]))

Pending(d) == {dumper[d].rows[i].train : i \in DOMAIN dumper[d].rows}

\* Rows of an earlier edition that the new one has no number for, and rows another
\* thread holds, leave a table of two editions.
Clashes(d, rows) ==
  {t \in Train :
     /\ \E i \in DOMAIN rows : rows[i].train = t
     /\ \/ \E o \in Dumper \ {d} : t \in Pending(o)
        \/ \E k \in StationNo : /\ timeTable[t][k] # NoRow
                                /\ \A i \in DOMAIN rows : ~ (rows[i].train = t /\ rows[i].no = k)}

(***************************************************************************)
(* The site, and /train/update_trainno                                     *)
(***************************************************************************)
ChangeEdition(t) ==
  /\ edition[t] < Len(Editions[t])
  /\ edition' = [edition EXCEPT ![t] = @ + 1]
  /\ UNCHANGED <<tables, trainNoQueue, dumper, query, trainFaults, torn, covered>>

\* One INSERT of SaveMapIntoDb; a number that is there, or an INSERT that fails, is
\* passed over, and so is a type whose page cannot be fetched.
InsertTrainNo(t) ==
  /\ t \notin trainNo
  /\ trainNo' = trainNo \cup {t}
  /\ UNCHANGED <<edition, timeTable, trainNoQueue, dumper, query, trainFaults, torn, covered>>

(***************************************************************************)
(* UpdateTimeTable, FetchTimeTable and DumpResultIntoDb                    *)
(***************************************************************************)
\* The numbers in batches; the last batch takes what is left over.
BatchesNoRest(s) ==                            \* (mutant) what is left over is left out
  [i \in 1..(Len(s) \div BatchSize) |-> SubSeq(s, BatchSize * (i - 1) + 1, BatchSize * i)]
Batches(s) ==
  LET count == Len(s) \div BatchSize
  IN  [i \in 1..count |-> SubSeq(s, BatchSize * (i - 1) + 1,
                                    IF i = count THEN Len(s) ELSE BatchSize * i)]

\* On to the next batch, or to the end.
AfterBatch(w) ==
  IF w.batches = <<>> THEN [IdleDumper EXCEPT !.whole = w.whole]
  ELSE [w EXCEPT !.pc = "fetch", !.pages = Head(w.batches), !.batches = Tail(w.batches),
                 !.rows = <<>>]

\* QueryAllTrainNo; the order of the SELECT is any.
BeginUpdate ==
  LET d == "UpdateTimeTable"
  IN  /\ dumper[d].pc = "idle"
      /\ \E s \in SetToSeqs(trainNo) :
           dumper' = [dumper EXCEPT ![d] =
             AfterBatch([IdleDumper EXCEPT !.batches = Batches(s),
                           !.began = [t \in Train |-> IF t \in trainNo THEN edition[t] ELSE 0]])]
      /\ UNCHANGED <<edition, tables, trainNoQueue, query, trainFaults, torn, covered>>

\* TrainDataUpdater::Run takes a number that was not found.
PopTrainNo ==
  LET d == "TrainDataUpdater"
  IN  /\ dumper[d].pc = "idle" /\ trainNoQueue # <<>>
      /\ dumper' = [dumper EXCEPT ![d] =
           AfterBatch([IdleDumper EXCEPT !.batches = <<<<Head(trainNoQueue)>>>>])]
      /\ trainNoQueue' = Tail(trainNoQueue)
      /\ UNCHANGED <<edition, tables, query, trainFaults, torn, covered>>

\* The page of the next train: all of it, the part before an item that cannot be read,
\* or nothing.
FetchPage(d) ==
  LET w == dumper[d]
      t == Head(w.pages)
      Take(rows) ==
        /\ dumper' = [dumper EXCEPT ![d].pages = Tail(w.pages), ![d].rows = w.rows \o rows]
        /\ UNCHANGED <<edition, tables, trainNoQueue, query, covered>>
  IN  /\ w.pc = "fetch" /\ w.pages # <<>>
      /\ \/ /\ Take(FullPage(t))
            /\ torn' = torn \cup Clashes(d, FullPage(t))
            /\ UNCHANGED trainFaults
         \/ /\ trainFaults > 0
            /\ trainFaults' = trainFaults - 1
            /\ \E n \in 0..(Len(FullPage(t)) - 1) :
                 /\ Take(Page(t, n))
                 /\ torn' = torn \cup {t}

\* All pages of the batch are there: DumpResultIntoDb, which without a connection
\* writes nothing and returns false.
BeginDump(d) ==
  LET w == dumper[d]
  IN  /\ w.pc = "fetch" /\ w.pages = <<>>
      /\ \/ /\ w.rows # <<>>
            /\ dumper' = [dumper EXCEPT ![d].pc = "select"]
            /\ UNCHANGED <<trainFaults, torn>>
         \/ /\ w.rows = <<>>
            /\ dumper' = [dumper EXCEPT ![d] = AfterBatch(w)]
            /\ UNCHANGED <<trainFaults, torn>>
         \/ /\ trainFaults > 0
            /\ trainFaults' = trainFaults - 1
            /\ torn' = torn \cup Pending(d)
            /\ dumper' = [dumper EXCEPT ![d] = AfterBatch([w EXCEPT !.whole = FALSE])]
      /\ UNCHANGED <<edition, tables, trainNoQueue, query, covered>>

SelectRow(d) ==
  LET e == Head(dumper[d].rows)
  IN  /\ dumper[d].pc = "select"
      /\ dumper' = [dumper EXCEPT ![d].pc = "write",
                                  ![d].found = timeTable[e.train][e.no] # NoRow]
      /\ UNCHANGED <<edition, tables, trainNoQueue, query, trainFaults, torn, covered>>

\* The UPDATE or INSERT; an exception in it, or in the SELECT, passes the row over.
WrittenRow(e) == [timeTable[e.train] EXCEPT ![e.no] = e.row]

WriteRow(d) ==
  LET w == dumper[d]
      e == Head(w.rows)
      rest == [w EXCEPT !.rows = Tail(w.rows), !.pc = "select", !.found = FALSE]
      done == Tail(w.rows) = <<>>
      next == IF done THEN AfterBatch(rest) ELSE rest
  IN  /\ w.pc = "write"
      /\ dumper' = [dumper EXCEPT ![d] = next]
      /\ \/ /\ w.found \/ timeTable[e.train][e.no] = NoRow
            /\ timeTable' = [timeTable EXCEPT ![e.train] = WrittenRow(e)]
            /\ query' = IF query.pc = "stations" /\ query.train = e.train
                          THEN [query EXCEPT !.crossed = TRUE] ELSE query
            /\ UNCHANGED <<trainFaults, torn>>
         \/ /\ ~ w.found /\ timeTable[e.train][e.no] # NoRow    \* duplicate key
            /\ torn' = torn \cup {e.train}
            /\ UNCHANGED <<timeTable, query, trainFaults>>
         \/ /\ trainFaults > 0
            /\ trainFaults' = trainFaults - 1
            /\ torn' = torn \cup {e.train}
            /\ UNCHANGED <<timeTable, query>>
      /\ covered' = IF next.pc = "idle" /\ next.whole
                      THEN [t \in Train |-> IF w.began[t] > 0 THEN w.began[t] ELSE covered[t]]
                      ELSE covered
      /\ UNCHANGED <<edition, trainNo, trainNoQueue>>

(***************************************************************************)
(* TimeTableQueryHandler::HandleRequest and QueryTimeTable.  The push      *)
(* processor of trains, one thread, has one query at a time.               *)
(***************************************************************************)
SendQuery(t, s) ==
  query' = [pc |-> "position", train |-> t, asked |-> s, no |-> 0, crossed |-> FALSE]

Answer(status, rows, clean) ==
  query' = [pc |-> "answered", train |-> query.train, asked |-> query.asked, no |-> query.no,
            crossed |-> query.crossed, status |-> status, rows |-> rows, clean |-> clean]

\* The first SELECT: where the station is; a train that is not found is put on the queue.
QueryPosition ==
  LET t == query.train
      found == {k \in StationNo : timeTable[t][k].station = query.asked}
  IN  /\ query.pc = "position"
      /\ \/ \E k \in found :
              /\ query' = [query EXCEPT !.pc = "stations", !.no = k]
              /\ UNCHANGED <<trainNoQueue, trainFaults>>
         \/ /\ found = {} /\ Len(trainNoQueue) < MaxTrainNoQueue
            /\ Answer("not found", {}, FALSE)
            /\ trainNoQueue' = Append(trainNoQueue, t)
            /\ UNCHANGED trainFaults
         \/ /\ trainFaults > 0
            /\ trainFaults' = trainFaults - 1
            /\ Answer("failure", {}, FALSE)
            /\ UNCHANGED trainNoQueue
      /\ UNCHANGED <<edition, tables, dumper, torn, covered>>

\* The second SELECT: the stations from there on.
FromAfter(no) == {k \in StationNo : k > no}     \* (mutant)
FromHere(no) == {k \in StationNo : k >= no}

QueryStations ==
  LET t == query.train
      writing == \E d \in Dumper : dumper[d].pc \in {"select", "write"} /\ t \in Pending(d)
  IN  /\ query.pc = "stations"
      /\ \/ /\ Answer("success", {[no |-> k, row |-> timeTable[t][k]] :
                                    k \in {j \in FromHere(query.no) : timeTable[t][j] # NoRow}},
                      ~ query.crossed /\ ~ writing /\ t \notin torn)
            /\ UNCHANGED trainFaults
         \/ /\ trainFaults > 0
            /\ trainFaults' = trainFaults - 1
            /\ Answer("failure", {}, FALSE)
      /\ UNCHANGED <<edition, tables, trainNoQueue, dumper, torn, covered>>

TrainDataUpdater ==
  LET d == "TrainDataUpdater"
  IN  PopTrainNo \/ FetchPage(d) \/ BeginDump(d) \/ SelectRow(d) \/ WriteRow(d)

TrainNext ==
  \/ \E t \in Train : ChangeEdition(t) \/ InsertTrainNo(t)
  \/ BeginUpdate
  \/ PopTrainNo
  \/ \E d \in Dumper : FetchPage(d) \/ BeginDump(d) \/ SelectRow(d) \/ WriteRow(d)
  \/ QueryPosition
  \/ QueryStations

-----------------------------------------------------------------------------
TrainTypeOK ==
  /\ edition \in [Train -> Nat]
  /\ trainNo \subseteq Train
  /\ timeTable \in [Train -> [StationNo -> Row \cup {NoRow}]]
  /\ trainNoQueue \in Seq(Train)
  /\ \A d \in Dumper :
       /\ dumper[d].pc \in {"idle", "fetch", "select", "write"}
       /\ \A i \in DOMAIN dumper[d].rows : dumper[d].rows[i] \in Entry
       /\ dumper[d].pc \in {"select", "write"} => dumper[d].rows # <<>>
  /\ query.pc \in {"none", "position", "stations", "answered"}
  /\ torn \subseteq Train
  /\ covered \in [Train -> Nat]

\* What a train's reminder lists: the stations from the user's own on.  They are the rest
\* of one edition of the time table, unless the table was being written, or had been
\* left torn by a page or a row that failed, by an edition with fewer stations or by two
\* threads at once; and the list begins where the user gets on unless a row was written
\* between the two SELECTs.
TimetableTold ==
  query.pc = "answered" /\ query.status = "success" =>
    LET t == query.train
    IN  /\ ~ query.crossed =>
             \E x \in query.rows : /\ x.row.station = query.asked
                                   /\ \A y \in query.rows : x.no <= y.no
        /\ query.clean =>
             \E e \in DOMAIN Editions[t] : \E k \in DOMAIN Editions[t][e] :
               /\ Editions[t][e][k] = query.asked
               /\ query.rows = {[no |-> j, row |-> [station |-> Editions[t][e][j], edition |-> e]] :
                                  j \in k..Len(Editions[t][e])}

\* An update of all trains that is answered with success has brought every train it
\* listed to the edition shown when it began, or a later one, whatever the number of
\* batches, but for torn trains.  (With less than one batch it does nothing, and is
\* answered with success too.)
UpdateReachesAll ==
  \A t \in Train :
    covered[t] > 0 /\ t \notin torn =>
      /\ timeTable[t][1] # NoRow
      /\ \A k \in StationNo : timeTable[t][k] # NoRow => timeTable[t][k].edition >= covered[t]
=============================================================================
