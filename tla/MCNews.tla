------------------------------- MODULE MCNews -------------------------------
(***************************************************************************)
(* Scenes of News for TLC.  A day has three instants, the second is 20:00; *)
(* days 1 and 2 are the instants 3 to 8.                                   *)
(***************************************************************************)
EXTENDS News

Good == [parses |-> TRUE, crlf |-> FALSE, long |-> TRUE, topic |-> TRUE, loading |-> FALSE,
         source |-> "agency", time |-> 4, title |-> {"a"}, content |-> {"a"}]

MUrl == {"x1", "x2", "x3", "q1", "q2", "q3", "q4", "s1", "s2"}
MPage ==
  [x1 |-> [Good EXCEPT !.title = {"a", "b"}, !.content = {"a"}],
   x2 |-> [Good EXCEPT !.title = {"b", "c"}, !.content = {"b"}, !.time = 5],
   x3 |-> [Good EXCEPT !.source = "unreadable"],
   q1 |-> [Good EXCEPT !.content = {"a", "b"}, !.source = "daily"],
   q2 |-> [Good EXCEPT !.long = FALSE],
   q3 |-> [Good EXCEPT !.parses = FALSE],
   q4 |-> [Good EXCEPT !.source = "missing"],
   s1 |-> [Good EXCEPT !.topic = FALSE, !.title = {"d"}, !.content = {"d"}],
   s2 |-> [Good EXCEPT !.time = Unreadable]]
MSite == {"xinhua", "sina", "tencent"}
MSeeds ==
  [xinhua |-> <<<<"x1", "x2">>, <<"x3">>>>, sina |-> <<<<"s1", "s2">>>>,
   tencent |-> <<<<"q1", "q2", "q3">>, <<"q4", "q1">>>>]

MUser == {"u1", "u2", "u3"}
Internal == [version |-> <<4, 9, 0>>, channel |-> "internal"]
MWatch == [u1 |-> Internal, u2 |-> [Internal EXCEPT !.version = <<5, 0, 0>>],
           u3 |-> [Internal EXCEPT !.channel = "release"]]
MHash == [u1 |-> 2, u2 |-> 3, u3 |-> 4]
MVersionsEqual == {<<4, 9, 0>>}
MVersionGreater == <<4, 9, 0>>
MView == {[pos |-> -1, cnt |-> 0], [pos |-> 0, cnt |-> 1], [pos |-> 1, cnt |-> 2]}
MToutiao == {<<>>, <<"t1", "t2">>, <<"t1", "">>}

NoRows == [u \in {} |-> 0]
Base ==
  [moments |-> {3, 5, 7}, sites |-> {}, listed |-> {}, coming |-> {}, rows |-> NoRows,
   ranks |-> FALSE, requests |-> 0, crawlFaults |-> 0, rankFaults |-> 0, pushFaults |-> 0]

CrawlOne == [Base EXCEPT !.sites = {"tencent"}, !.listed = {"q1", "q2", "q3"}, !.crawlFaults = 2]
CrawlAll == [Base EXCEPT !.sites = {"xinhua", "sina"}, !.listed = {"x1", "x3", "s1"},
                         !.coming = {"s2"}, !.crawlFaults = 1, !.moments = {5, 7}]
Rank == [Base EXCEPT !.sites = {"xinhua"}, !.listed = {"s1"}, !.coming = {"x2"},
                     !.rows = [s1 |-> 3], !.ranks = TRUE, !.rankFaults = 1, !.moments = {4, 5, 6}]
RankOnly == [Base EXCEPT !.listed = {"x1", "x2", "q1"}, !.rows = [x1 |-> 2, x2 |-> 4, q1 |-> 4],
                         !.ranks = TRUE, !.rankFaults = 2, !.moments = {4, 5, 7, 8}]
Push == [Base EXCEPT !.listed = {"x1", "x2", "q1"},
                     !.rows = [x1 |-> 4, x2 |-> 4, q1 |-> 4], !.ranks = TRUE,
                     !.requests = 2, !.pushFaults = 1, !.moments = {5, 7}]
PushToutiao == [Base EXCEPT !.listed = {"q4"}, !.rows = [q4 |-> 4], !.requests = 2, !.pushFaults = 1, !.moments = {5, 7, 8}]
All == [Base EXCEPT !.sites = {"xinhua"}, !.listed = {"x1", "x2"}, !.rows = [x2 |-> 4],
                    !.ranks = TRUE, !.requests = 1, !.moments = {5, 7}]

MScenes == {CrawlOne, CrawlAll, Rank, RankOnly, Push, PushToutiao, All}
=============================================================================
