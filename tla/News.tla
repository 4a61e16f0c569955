-------------------------------- MODULE News --------------------------------
(***************************************************************************)
(* Crawler, ranker, recommender and news push, composed: separate processes*)
(* that share the table news_info and the clock, and nothing else.         *)
(***************************************************************************)
EXTENDS NewsPush

CONSTANT Scenes     \* what TLC explores: the bounds and inputs of a behaviour

VARIABLE scene      \* the scene; never changes

\* A scene: the instants at which anything happens, which are before Forever; the sites
\* crawled; the pages listed at first and later; the rows there are at first, per page the
\* time of its last update, which is past; whether there is a ranker; the number of pushes
\* requested; and how many calls of each kind may fail.
ASSUME NewsScenesOK ==
  \A s \in Scenes :
    /\ s.moments \subseteq 1..(Forever - 1)
    /\ \E first \in s.moments : \A t \in s.moments : first <= t
    /\ s.sites \subseteq Site /\ s.ranks \in BOOLEAN
    /\ s.listed \subseteq Url /\ s.coming \subseteq Url \ s.listed
    /\ DOMAIN s.rows \subseteq s.listed
    /\ \A u \in DOMAIN s.rows : s.rows[u] \in Nat /\ \A t \in s.moments : s.rows[u] <= t
    /\ {s.requests, s.crawlFaults, s.rankFaults, s.pushFaults} \subseteq Nat

vars == <<scene, clock, crawlVars, rankVars, pushVars>>

SiteOf(u) == CHOOSE s \in Site : \E i \in DOMAIN Seeds[s] : u \in ToSet(Seeds[s][i])

Init ==
  /\ scene \in Scenes
  /\ clock = CHOOSE t \in scene.moments : \A r \in scene.moments : t <= r
  /\ CrawlInit(scene.sites,
               [u \in DOMAIN scene.rows |->
                  [NewsInfo(SiteOf(u), Page[u]) EXCEPT !.updated = scene.rows[u]]],
               scene.listed, scene.coming, scene.crawlFaults)
  /\ RankInit(scene.rankFaults)
  /\ PushInit(scene.requests, scene.pushFaults)

Tick ==
  /\ clock' \in {t \in scene.moments : t > clock}
  /\ UNCHANGED <<scene, crawlVars, rankVars, pushVars>>

Next ==
  \/ Tick
  \/ CrawlNext /\ UNCHANGED <<scene, clock, rankVars, pushVars>>
  \/ scene.ranks /\ RankNext /\ UNCHANGED <<scene, clock, listed, coming, crawlers, crawlFaults, pushVars>>
  \/ PushNext /\ UNCHANGED <<scene, clock, crawlVars, rankVars>>

Spec == Init /\ [][Next]_vars

-----------------------------------------------------------------------------
\* What the variables of the four hold.
TypeOK == CrawlTypeOK /\ RankTypeOK /\ PushTypeOK
=============================================================================
