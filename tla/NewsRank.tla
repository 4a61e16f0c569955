------------------------------ MODULE NewsRank ------------------------------
(***************************************************************************)
(* The news ranker: RankingThread looks every half hour whether news_info  *)
(* was written since its last pass; if so it takes the hot terms of the    *)
(* titles of the day, then the documents of the day, and writes to each    *)
(* document the hot terms it holds and its score.  These writes touch      *)
(* `updated' too, if they change the score.                                *)
(***************************************************************************)
EXTENDS NewsCrawl

CONSTANT MaxTermCount       \* FLAGS_ranker_max_term_count

ASSUME NewsRankConstantsOK ==
  /\ MaxTermCount \in Nat \ {0}
  /\ \A u \in Url : IsFiniteSet(Page[u].title) /\ IsFiniteSet(Page[u].content)

VARIABLES
  ranker,           \* where RankingThread::Run is
  looked,           \* when it last looked
  lastRanking,      \* last_ranking_time_
  rankingTime,      \* ranking_time of the pass
  hotTerms,         \* term_vec
  docs,             \* doc_info_map: the documents to score
  results,          \* doc_hot_score_vec: the documents whose score is still to be written
  rankFaults,       \* the number of calls that may still fail
  \* history
  pass              \* of the last pass: the documents its terms are of and those it scored,
                    \* when each were read, and whether a call failed

rankVars == <<ranker, looked, lastRanking, rankingTime, hotTerms, docs, results, rankFaults, pass>>

NoTerms == [t \in {} |-> 0]
NoPass == [hot |-> {}, docs |-> {}, hotAt |-> 0, docsAt |-> 0, failed |-> FALSE]

RankInit(faults) ==
  /\ ranker = "asleep"
  /\ lastRanking = 0
  /\ rankingTime = 0
  /\ hotTerms = NoTerms
  /\ docs = {}
  /\ results = {}
  /\ looked = 0
  /\ rankFaults = faults
  /\ pass = NoPass

-----------------------------------------------------------------------------
(***************************************************************************)
(* CosineRanker                                                            *)
(***************************************************************************)
\* GetTerms: the terms of the titles, with their frequency.
TermFreq(ds) ==
  [t \in UNION {Page[u].title : u \in ds} |-> Cardinality({u \in ds : t \in Page[u].title})]

\* GetTopnTerms: the n most frequent; the sort decides between terms equally frequent.
TopnTerms(freq, n) ==
  LET top == CHOOSE ts \in SUBSET DOMAIN freq :
        /\ Cardinality(ts) = IF n < Cardinality(DOMAIN freq) THEN n ELSE Cardinality(DOMAIN freq)
        /\ \A t \in ts, r \in DOMAIN freq \ ts : freq[t] >= freq[r]
  IN  [t \in top |-> freq[t]]

\* ExecuteRanking: the terms of a document that are hot, weighed by the whole term vector.
Score(u, terms) == [hit |-> Page[u].content \cap DOMAIN terms, terms |-> terms]
Hits(u, terms) == Page[u].content \cap DOMAIN terms # {}

-----------------------------------------------------------------------------
(***************************************************************************)
(* RankingThread                                                           *)
(***************************************************************************)
DailyDocs(t) == {u \in DOMAIN news : Day(news[u].updated) = Day(t)}
WrittenSince(t) == \E u \in DOMAIN news : news[u].updated > t

\* IfExecutingTask.  Without an answer the pass is made, and the next one too, as its
\* ranking_time is 0.
WakeRanker ==
  /\ ranker = "asleep" /\ looked # clock
  /\ looked' = clock
  /\ \/ /\ IF WrittenSince(lastRanking)
             THEN /\ rankingTime' = clock
                  /\ ranker' = "terms"
                  /\ pass' = NoPass
             ELSE UNCHANGED <<rankingTime, ranker, pass>>
        /\ UNCHANGED rankFaults
     \/ /\ rankFaults > 0
        /\ rankFaults' = rankFaults - 1
        /\ rankingTime' = 0
        /\ ranker' = "terms"
        /\ pass' = NoPass
  /\ UNCHANGED <<lastRanking, hotTerms, docs, results>>

\* PrepareRankingInput: what FetchDoc answers is not looked at; no documents then.
ReadHotDocs ==
  /\ ranker = "terms"
  /\ \E fault \in {0} \cup (IF rankFaults > 0 THEN {1} ELSE {}) :
       LET ds == IF fault = 0 THEN DailyDocs(clock) ELSE {}
       IN  /\ hotTerms' = TopnTerms(TermFreq(ds), MaxTermCount)
           /\ pass' = [pass EXCEPT !.hot = ds, !.hotAt = clock, !.failed = fault = 1]
           /\ rankFaults' = rankFaults - fault
  /\ ranker' = "docs"
  /\ UNCHANGED <<looked, lastRanking, rankingTime, docs, results>>

\* The documents of the day, and ExecuteRanking: only those hit have a result.
ReadRankingDocs ==
  /\ ranker = "docs"
  /\ \E fault \in {0} \cup (IF rankFaults > 0 THEN {1} ELSE {}) :
       LET ds == IF fault = 0 THEN DailyDocs(clock) ELSE {}
       IN  /\ docs' = ds
           /\ results' = {u \in ds : Hits(u, hotTerms)}
           /\ pass' = [pass EXCEPT !.docs = ds, !.docsAt = clock, !.failed = @ \/ fault = 1]
           /\ rankFaults' = rankFaults - fault
  /\ ranker' = "write"
  /\ UNCHANGED <<looked, lastRanking, rankingTime, hotTerms>>

\* WriteDoc, one document; `updated' changes with the score only.
Rescored(row, score) ==
  IF row.score = score THEN row ELSE [row EXCEPT !.score = score, !.updated = clock]

WriteDoc ==
  /\ ranker = "write"
  /\ \E u \in results :
       /\ results' = results \ {u}
       /\ \/ /\ news' = [news EXCEPT ![u] = Rescored(@, Score(u, hotTerms))]
             /\ UNCHANGED <<rankFaults, pass>>
          \/ /\ rankFaults > 0
             /\ rankFaults' = rankFaults - 1
             /\ pass' = [pass EXCEPT !.failed = TRUE]
             /\ UNCHANGED news
  /\ UNCHANGED <<ranker, looked, lastRanking, rankingTime, hotTerms, docs>>

\* ExecuteTask ends: the time the pass began is the one kept.
RankedNow(began) == clock     \* (mutant) the time it ended
RankedAt(began) == began

RankingEnds ==
  /\ ranker = "write" /\ results = {}
  /\ lastRanking' = RankedAt(rankingTime)
  /\ ranker' = "asleep"
  /\ hotTerms' = NoTerms
  /\ docs' = {}
  /\ rankingTime' = 0
  /\ UNCHANGED <<looked, results, rankFaults, pass>>

RankerRestart ==
  /\ rankFaults > 0
  /\ rankFaults' = rankFaults - 1
  /\ ranker' = "asleep"
  /\ lastRanking' = 0
  /\ rankingTime' = 0
  /\ hotTerms' = NoTerms
  /\ docs' = {}
  /\ results' = {}
  /\ UNCHANGED <<looked, pass>>

RankNext ==
  \/ (WakeRanker \/ ReadHotDocs \/ ReadRankingDocs \/ RankingEnds
      \/ RankerRestart) /\ UNCHANGED news
  \/ WriteDoc

-----------------------------------------------------------------------------
(***************************************************************************)
(* Properties                                                              *)
(***************************************************************************)
\* What the variables of the ranker hold.
RankTypeOK ==
  /\ ranker \in {"asleep", "terms", "docs", "write"}
  /\ {looked, lastRanking, rankingTime, rankFaults} \subseteq Nat
  /\ DOMAIN hotTerms \subseteq UNION {Page[u].title : u \in Url}
  /\ results \subseteq docs /\ docs \subseteq DOMAIN news

\* The ranker is at rest and will stay so until somebody writes.
Settled == ranker = "asleep" /\ lastRanking > 0 /\ ~ WrittenSince(lastRanking)

\* A ranker that has settled has scored every document of the day that holds a hot term, by
\* the hot terms of all of them, unless a call of its last pass failed (the pass counts as
\* made), midnight came between the time it keeps and what it read, or a document was
\* written in the very second it keeps, after it had read.
SettledIsRanked ==
  LET ds == DailyDocs(lastRanking)
      terms == TopnTerms(TermFreq(ds), MaxTermCount)
      missed == {u \in ds : news[u].updated = lastRanking /\ u \notin pass.hot \cap pass.docs}
  IN  Settled =>
        \/ pass.failed
        \/ {Day(pass.hotAt), Day(pass.docsAt)} # {Day(lastRanking)}
        \/ missed # {}
        \/ \A u \in ds : Hits(u, terms) => news[u].score = Score(u, terms)
=============================================================================
