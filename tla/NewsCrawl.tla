----------------------------- MODULE NewsCrawl -----------------------------
(***************************************************************************)
(* The news crawler: one FetcherThread per site, each with a fetcher of its*)
(* own, and the content threads they start.  Once an hour a fetcher reads  *)
(* the link pages of its site, then the pages linked that it has not       *)
(* visited, and inserts a row of news_info for each it can use.            *)
(*                                                                         *)
(* visited_set_ is kept in memory, is cleared on the first pass of a day,  *)
(* and is written when a page has been fetched: before anything is stored. *)
(***************************************************************************)
EXTENDS Integers, FiniteSets, Sequences, SequencesExt

CONSTANTS
  Url,              \* the pages there are; a row of news_info per page
  Page,             \* what each page holds
  Site,             \* the sites crawled
  Seeds,            \* per site, what each link page lists
  DayLength,        \* the instants of a day told apart
  ThreadNumber      \* FLAGS_content_fetcher_thread_number

\* Of a page: whether a template finds its title and text (parses), "\r\n" in the text
\* (crlf), a summary of 500 bytes (long), whether its URL is one of a known topic, the
\* placeholder of a video (loading), its source and publish time (or the meta tags of both),
\* which may be missing or unreadable, and the terms of its title and text.
Unreadable == -1
Missing == 0
ASSUME NewsCrawlConstantsOK ==
  /\ Site \subseteq {"xinhua", "sina", "tencent"}
  /\ IsFiniteSet(Url) /\ {ThreadNumber, DayLength} \subseteq Nat \ {0}
  /\ \A u \in Url :
       /\ {Page[u].parses, Page[u].crlf, Page[u].long, Page[u].topic, Page[u].loading} \subseteq BOOLEAN
       /\ Page[u].source \in STRING /\ Page[u].time \in Int
  /\ \A s \in Site : Seeds[s] \in Seq(Seq(Url))

VARIABLES
  clock,
  news,             \* news_info: its rows, by page
  listed,           \* the pages the sites link to at present
  coming,           \* those they will link to
  visited,          \* visited_set_, per site
  lastClear,        \* last_clear_time_, per site
  crawler,          \* where FetcherThread::Run is, per site
  started,          \* when its last pass began
  tasks,            \* its content threads, per site
  unsaved,          \* news_info_vec, per site: the pages still to be saved
  crawlFaults,      \* the number of calls that may still fail
  \* history
  lost              \* per site: the pages whose row could not be saved since the last clear

crawlVars == <<news, listed, coming, visited, lastClear, crawler, started, tasks, unsaved,
               crawlFaults, lost>>
crawlers  == <<visited, lastClear, crawler, started, tasks, unsaved, lost>>

Day(t) == t \div DayLength

Unscored == [hit |-> {}, terms |-> <<>>]

CrawlInit(running, rows, links, later, faults) ==
  /\ news = rows
  /\ listed = links
  /\ coming = later
  /\ visited = [s \in Site |-> {}]
  /\ lastClear = [s \in Site |-> 0]
  /\ crawler = [s \in Site |-> IF s \in running THEN "asleep" ELSE "off"]
  /\ started = [s \in Site |-> 0]
  /\ tasks = [s \in Site |-> <<>>]
  /\ unsaved = [s \in Site |-> <<>>]
  /\ crawlFaults = faults
  /\ lost = [s \in Site |-> {}]

-----------------------------------------------------------------------------
(***************************************************************************)
(* What a fetcher makes of a page                                          *)
(***************************************************************************)
\* FilterURL: of xinhua and tencent the URLs without a topic are dropped; the links of
\* sina's feeds are unwrapped, and kept without one.
FilterURL(s, u) == s # "sina" /\ ~ Page[u].topic

SetCategory(s, p) == p.topic \/ s = "sina"
SetContent(s, p) == ~ p.crlf
SetSummary(s, p) == p.long
SetPublishSource(s, p) == s = "xinhua" => p.source # "unreadable"
SetPublishTime(s, p) == p.time # Unreadable
CustomFilter(s, p) == s = "tencent" /\ p.loading

\* A page that fails one of the setters is dropped.
Parse(s, p) ==
  /\ SetContent(s, p) /\ SetCategory(s, p) /\ SetPublishSource(s, p)
  /\ SetPublishTime(s, p) /\ SetSummary(s, p) /\ ~ CustomFilter(s, p)

\* The row inserted.  Sina's pages only train: their source and time are the meta tags'.
NewsInfo(s, p) ==
  [category |-> p.topic, published |-> IF s = "sina" THEN 0 ELSE p.time,
   source |-> IF s = "sina" \/ p.source = "missing" THEN "" ELSE p.source,
   use |-> IF s = "sina" THEN "training" ELSE "recommend",
   score |-> Unscored, updated |-> clock]

-----------------------------------------------------------------------------
(***************************************************************************)
(* FetcherThread::Process                                                  *)
(***************************************************************************)
\* The pass begins: on another day than the last clear, everything is forgotten.
DoClear(s) ==
  /\ crawler[s] = "asleep" /\ started[s] # clock
  /\ started' = [started EXCEPT ![s] = clock]
  /\ crawler' = [crawler EXCEPT ![s] = "links"]
  /\ IF Day(clock) = Day(lastClear[s])
       THEN UNCHANGED <<visited, lastClear, lost>>
       ELSE /\ visited' = [visited EXCEPT ![s] = {}]
            /\ lastClear' = [lastClear EXCEPT ![s] = clock]
            /\ lost' = [lost EXCEPT ![s] = {}]
  /\ UNCHANGED <<news, listed, coming, tasks, unsaved, crawlFaults>>

\* The loops that copy what they can use: the members of us that are in keep, in their order.
Only(us, keep) ==
  LET only[n \in 0..Len(us)] ==
        IF n = 0 THEN <<>> ELSE IF us[n] \in keep THEN Append(only[n - 1], us[n]) ELSE only[n - 1]
  IN  only[Len(us)]

\* The links of the link pages in skipped are not had: these pages could not be read.
LinkVec(s, skipped) ==
  LET read == [i \in DOMAIN Seeds[s] |-> IF i \in skipped THEN <<>> ELSE Seeds[s][i]]
  IN  Only(FlattenSeq(read), {u \in listed \ visited[s] : ~ FilterURL(s, u)})

\* SplitVector: n runs of consecutive links, whose lengths differ by one at most.
SplitVector(links, n) ==
  LET length == Len(links) \div n
      remain == Len(links) % n
      begin(i) == (i - 1) * length + (IF i - 1 < remain THEN i - 1 ELSE remain)
  IN  [i \in 1..(IF n < Len(links) THEN n ELSE Len(links)) |->
         SubSeq(links, begin(i) + 1, begin(i + 1))]

\* Only xinhua's pages are read by the fetcher thread itself.
Threads(s) == IF s = "xinhua" THEN 1 ELSE ThreadNumber

FetchLinkVec(s) ==
  /\ crawler[s] = "links"
  /\ \E skipped \in {{}} \cup (IF crawlFaults > 0 THEN {{i} : i \in DOMAIN Seeds[s]} ELSE {}) :
       LET runs == SplitVector(LinkVec(s, skipped), Threads(s))
       IN  /\ tasks' = [tasks EXCEPT ![s] =
                [i \in DOMAIN runs |-> [todo |-> runs[i], fetching |-> FALSE, got |-> <<>>]]]
           /\ crawlFaults' = crawlFaults - Cardinality(skipped)
  /\ crawler' = [crawler EXCEPT ![s] = "content"]
  /\ UNCHANGED <<news, listed, coming, visited, lastClear, started, unsaved, lost>>

\* FetchContent, up to the fetch: what another thread has fetched meanwhile is not fetched.
CheckVisited(s, t) ==
  LET task == tasks[s][t]
  IN  /\ crawler[s] = "content" /\ ~ task.fetching /\ task.todo # <<>>
      /\ tasks' = [tasks EXCEPT ![s][t] =
           IF Head(task.todo) \in visited[s] THEN [task EXCEPT !.todo = Tail(@)]
                                             ELSE [task EXCEPT !.fetching = TRUE]]
      /\ UNCHANGED <<news, listed, coming, visited, lastClear, crawler, started, unsaved, crawlFaults, lost>>

\* FetchNewsContent: one of the templates finds a title and a text.
FetchNewsContent(u, fault) == fault = 0 /\ Page[u].parses

\* FetchContent, from the fetch: without a page it may be tried again.
VisitedAnyway(set, u, ok) == set \cup {u}     \* (mutant) visited whether fetched or not
VisitedAfter(set, u, ok) == IF ok THEN set \cup {u} ELSE set

FetchContent(s, t) ==
  LET task == tasks[s][t]
      u == Head(task.todo)
  IN  /\ crawler[s] = "content" /\ task.fetching
      /\ \E fault \in {0} \cup (IF crawlFaults > 0 THEN {1} ELSE {}) :
           LET ok == FetchNewsContent(u, fault)
           IN  /\ tasks' = [tasks EXCEPT ![s][t] =
                    [todo |-> Tail(task.todo), fetching |-> FALSE,
                     got |-> IF ok THEN Append(task.got, u) ELSE task.got]]
               /\ visited' = [visited EXCEPT ![s] = VisitedAfter(@, u, ok)]
               /\ crawlFaults' = crawlFaults - fault
      /\ UNCHANGED <<news, listed, coming, lastClear, crawler, started, unsaved, lost>>

\* The threads are joined, their pages merged and parsed, and the connection made: without
\* it nothing is saved.
ParseVec(s) ==
  LET content == FlattenSeq([t \in DOMAIN tasks[s] |-> tasks[s][t].got])
      infos == Only(content, {u \in Url : Parse(s, Page[u])})
  IN  /\ crawler[s] = "content"
      /\ \A t \in DOMAIN tasks[s] : tasks[s][t].todo = <<>>
      /\ tasks' = [tasks EXCEPT ![s] = <<>>]
      /\ \/ /\ crawler' = [crawler EXCEPT ![s] = "save"]
            /\ unsaved' = [unsaved EXCEPT ![s] = infos]
            /\ UNCHANGED <<crawlFaults, lost>>
         \/ /\ crawlFaults > 0
            /\ crawlFaults' = crawlFaults - 1
            /\ crawler' = [crawler EXCEPT ![s] = "asleep"]
            /\ lost' = [lost EXCEPT ![s] = @ \cup ToSet(infos)]
            /\ UNCHANGED unsaved
      /\ UNCHANGED <<news, listed, coming, visited, lastClear, started>>

\* SaveStatementToMysql: a row that exists is left as it is; an exception loses this one.
SaveNews(s) ==
  LET u == Head(unsaved[s])
  IN  /\ crawler[s] = "save" /\ unsaved[s] # <<>>
      /\ unsaved' = [unsaved EXCEPT ![s] = Tail(@)]
      /\ \/ /\ news' = [v \in DOMAIN news \cup {u} |->
                 IF v \in DOMAIN news THEN news[v] ELSE NewsInfo(s, Page[u])]
            /\ UNCHANGED <<crawlFaults, lost>>
         \/ /\ crawlFaults > 0
            /\ crawlFaults' = crawlFaults - 1
            /\ lost' = [lost EXCEPT ![s] = @ \cup {u}]
            /\ UNCHANGED news
      /\ UNCHANGED <<listed, coming, visited, lastClear, crawler, started, tasks>>

PassEnds(s) ==
  /\ crawler[s] = "save" /\ unsaved[s] = <<>>
  /\ crawler' = [crawler EXCEPT ![s] = "asleep"]
  /\ UNCHANGED <<news, listed, coming, visited, lastClear, started, tasks, unsaved, crawlFaults, lost>>

\* The process dies and is started again: nothing of the pass is left, nor of visited_set_.
CrawlerRestart ==
  /\ crawlFaults > 0
  /\ crawlFaults' = crawlFaults - 1
  /\ visited' = [s \in Site |-> {}]
  /\ lastClear' = [s \in Site |-> 0]
  /\ crawler' = [s \in Site |-> IF crawler[s] = "off" THEN "off" ELSE "asleep"]
  /\ tasks' = [s \in Site |-> <<>>]
  /\ unsaved' = [s \in Site |-> <<>>]
  /\ lost' = [s \in Site |-> {}]
  /\ UNCHANGED <<news, listed, coming, started>>

\* External: a site links to one more page.
Publish ==
  \E u \in coming :
    /\ listed' = listed \cup {u}
    /\ coming' = coming \ {u}
    /\ UNCHANGED <<news, crawlers, crawlFaults>>

CrawlNext ==
  \/ \E s \in Site : DoClear(s) \/ FetchLinkVec(s) \/ ParseVec(s)
                     \/ SaveNews(s) \/ PassEnds(s)
  \/ \E s \in Site : \E t \in DOMAIN tasks[s] : CheckVisited(s, t) \/ FetchContent(s, t)
  \/ CrawlerRestart
  \/ Publish

-----------------------------------------------------------------------------
(***************************************************************************)
(* Properties                                                              *)
(***************************************************************************)
\* What the variables of the crawler hold: a row is of a page a site has listed, and has its
\* source or none.
CrawlTypeOK ==
  /\ DOMAIN news \subseteq listed /\ listed \subseteq Url /\ coming \subseteq Url \ listed
  /\ \A u \in DOMAIN news :
       /\ news[u].category \in BOOLEAN /\ news[u].source \in {"", Page[u].source}
       /\ news[u].published \in Int /\ news[u].updated \in Nat
       /\ news[u].use \in {"training", "recommend"}
  /\ visited \in [Site -> SUBSET Url]
  /\ lastClear \in [Site -> Nat]
  /\ crawler \in [Site -> {"off", "asleep", "links", "content", "save"}]
  /\ started \in [Site -> Nat]
  /\ \A s \in Site :
       /\ unsaved[s] \in Seq(Url)
       /\ \A t \in DOMAIN tasks[s] :
            /\ tasks[s][t].todo \in Seq(Url) /\ tasks[s][t].got \in Seq(Url)
            /\ tasks[s][t].fetching \in BOOLEAN
  /\ crawlFaults \in Nat
  /\ lost \in [Site -> SUBSET Url]

\* The pages a fetcher has in hand: fetched by a thread, or parsed and not yet saved.
InHand(s) ==
  (UNION {ToSet(tasks[s][t].got) : t \in DOMAIN tasks[s]}) \cup ToSet(unsaved[s])

\* What is visited and could be used is stored or is about to be, unless a statement or the
\* connection failed since visited_set_ was last cleared: then, and only then, the page is
\* out of reach until the next day, although the site still lists it.  Two threads may fetch
\* a page listed twice, and a crash may lose everything in hand: neither loses a page.
NewsAccountedFor ==
  \A s \in Site : \A u \in visited[s] :
    Parse(s, Page[u]) => u \in DOMAIN news \cup InHand(s) \cup lost[s]
=============================================================================
