------------------------------ MODULE NewsPush ------------------------------
(***************************************************************************)
(* The news recommender and the news push.  A request makes the push       *)
(* processor go through the users of its node; for each it asks the        *)
(* recommender for a list of stories, keeps the first in Redis, where the  *)
(* watch will read it, and sends the watch a message.  The recommender     *)
(* lists the recent pages of news_info by the hot terms they hold, or,     *)
(* without any, what the toutiao service has.                              *)
(***************************************************************************)
EXTENDS NewsRank, PushMessages

CONSTANTS
  User,             \* the users with a watch
  Watch,            \* the version of each user's watch, and its channel
  Hash,             \* the fingerprint of each user's name
  UseChannelFilter, UseVersionFilter,   \* FLAGS_use_channel_filter and the other
  VersionsEqual, VersionGreater,        \* FLAGS_news_version_equal and the other
  View,             \* what ZkManager may answer: a position and a number of nodes
  Toutiao,          \* what the toutiao service may list; a story without a usable id is ""
  Evening,          \* the instant of a day that is 20:00
  MaxResultNum, MinHitWordCount,
  ContentExpire     \* FLAGS_recommendation_content_expire_seconds

ASSUME NewsPushConstantsOK ==
  /\ IsFiniteSet(User) /\ {UseChannelFilter, UseVersionFilter} \subseteq BOOLEAN
  /\ \A v \in View : v.pos \in Int /\ v.cnt \in Nat
  /\ Evening \in 0..(DayLength - 1)
  /\ {MaxResultNum, MinHitWordCount, ContentExpire} \subseteq Nat \ {0}

VARIABLES
  view,             \* what ZkManager answers at present
  pusher,           \* where NewsPushProcessor::Process is
  nodePos,          \* node_pos
  users,            \* user_device_vec: the users still to be served
  chosen,           \* rec_content, and on what it was chosen
  redis,            \* per story ever kept: when its key runs out
  broken,           \* the connection to Redis is broken
  requests,         \* the number of requests that may still come
  pushFaults,       \* the number of calls that may still fail
  \* history
  share,            \* the users of the round
  told,             \* the messages of the round that reached a watch
  passed            \* the users of the round passed over: a call failed, or no usable story

pushVars == <<view, pusher, nodePos, users, chosen, redis, broken, requests, pushFaults,
              share, told, passed>>

NoStory == [story |-> "", hits |-> <<>>, kept |-> 0]
Forever == 1000

PushInit(rounds, faults) ==
  /\ view \in View
  /\ pusher = "idle"
  /\ nodePos = 0
  /\ users = <<>>
  /\ chosen = NoStory
  /\ redis = [s \in {} |-> 0]
  /\ broken = FALSE
  /\ requests = rounds
  /\ pushFaults = faults
  /\ share = {} /\ told = {} /\ passed = {}

-----------------------------------------------------------------------------
(***************************************************************************)
(* NewsTrigger                                                             *)
(***************************************************************************)
\* FetchDoc: the pages to recommend published since yesterday, 20:00.
FetchDoc ==
  {u \in DOMAIN news : /\ news[u].published > (Day(clock) - 1) * DayLength + Evening
                       /\ news[u].use = "recommend"}

\* TransformDoc: a story has a category, a time and a source.
TransformDoc(us) ==
  {u \in us : news[u].category /\ news[u].published # 0 /\ news[u].source # ""}

HitNum(u) == Cardinality(news[u].score.hit)
ByHitNum(us) ==
  {q \in SetToSeqs(us) : \A i, j \in DOMAIN q : i < j => HitNum(q[i]) >= HitNum(q[j])}

\* Sort: those with enough hot terms first, none of a title or a source that is there already.
Picks(picked, u) ==
  /\ HitNum(u) >= MinHitWordCount
  /\ \A v \in ToSet(picked) :
       Page[u].title # Page[v].title /\ news[u].source # news[v].source
Picked(q) ==
  LET picked[n \in 0..Len(q)] ==
        IF n = 0 THEN <<>>
        ELSE IF Picks(picked[n - 1], q[n]) THEN Append(picked[n - 1], q[n]) ELSE picked[n - 1]
  IN  picked[Len(q)]
\* Then the others, shuffled, until there are enough.
FilledUp(us, picked) ==
  IF Len(picked) >= MaxResultNum
    THEN {SubSeq(picked, 1, MaxResultNum)}
    ELSE {picked \o SubSeq(rest, 1, MaxResultNum - Len(picked)) : rest \in SetToSeqs(us \ ToSet(picked))}

Sort(us) ==
  IF Cardinality(us) <= MaxResultNum
    THEN ByHitNum(us)
    ELSE UNION {FilledUp(us, Picked(q)) : q \in ByHitNum(us)}

-----------------------------------------------------------------------------
(***************************************************************************)
(* NewsPushProcessor::Process                                              *)
(***************************************************************************)
\* GetNodePos and GetTotalNodeCnt are two reads.
BeginNewsPush ==
  /\ pusher = "idle" /\ requests > 0
  /\ requests' = requests - 1
  /\ nodePos' = view.pos
  /\ pusher' = "count"
  /\ share' = {} /\ told' = {} /\ passed' = {}
  /\ UNCHANGED <<view, users, chosen, redis, broken, pushFaults>>

\* GetClusterUserDeviceVec: nobody, if the position is not below the number of nodes.
UsersOf(pos, cnt) ==
  IF pos < 0 \/ cnt <= 0 \/ pos >= cnt THEN {} ELSE {u \in User : Hash[u] % cnt = pos}

GetUsers ==
  /\ pusher = "count"
  /\ share' = UsersOf(nodePos, view.cnt)
  /\ users' = SetToSeq(share')
  /\ pusher' = IF share' = {} THEN "idle" ELSE "user"
  /\ nodePos' = 0
  /\ UNCHANGED <<view, chosen, redis, broken, requests, pushFaults, told, passed>>

\* On to the next user, whatever became of this one.
StopAtFailure(us, ok) == IF ok THEN Tail(us) ELSE <<>>     \* (mutant) the round ends
NextUsers(us, ok) == Tail(us)
PastTheLast(ok) == users' = NextUsers(users, ok) /\ pusher' = "user" /\ chosen' = NoStory   \* (mutant)
GoOn(ok) ==
  /\ users' = NextUsers(users, ok)
  /\ pusher' = IF users' = <<>> THEN "idle" ELSE "user"
  /\ chosen' = NoStory

PassOver ==
  /\ GoOn(FALSE)
  /\ passed' = passed \cup {Head(users)}

\* A call of the present step fails, and the user is passed over.
PushFault ==
  /\ pushFaults > 0
  /\ pushFaults' = pushFaults - 1
  /\ PassOver

\* GetDeviceInfo, the two filters.
CheckChannelInternal(w) == w.channel = "internal"
IsServed(u) ==
  /\ UseVersionFilter => ~ FilterVersion(Watch[u].version, VersionsEqual, VersionGreater)
  /\ UseChannelFilter => CheckChannelInternal(Watch[u])

CheckWatch ==
  /\ pusher = "user"
  /\ \/ /\ IF IsServed(Head(users))
             THEN pusher' = "list" /\ UNCHANGED <<users, chosen>>
             ELSE GoOn(TRUE)
        /\ UNCHANGED <<pushFaults, passed>>
     \/ PushFault
  /\ UNCHANGED <<view, nodePos, redis, broken, requests, share, told>>

\* GetRecList, answered by RecommendationHandler: the toutiao service if nothing of news_info
\* can be recommended, or it cannot be read.  Then ChooseRecContent: the first, if all of
\* them have an id.
Choose(list, hits) ==
  IF list = <<>> \/ "" \in ToSet(list)
    THEN PassOver
    ELSE /\ chosen' = [story |-> Head(list), hits |-> hits, kept |-> 0]
         /\ pusher' = "save"
         /\ UNCHANGED <<users, passed>>

GetRecList ==
  LET stories == TransformDoc(FetchDoc)
      hits == [u \in stories |-> HitNum(u)]
  IN  /\ pusher = "list"
      /\ \/ /\ stories # {}
            /\ \E list \in Sort(stories) : Choose(list, hits)
            /\ UNCHANGED pushFaults
         \/ /\ \/ stories = {} /\ UNCHANGED pushFaults
               \/ pushFaults > 0 /\ pushFaults' = pushFaults - 1
            /\ \E list \in Toutiao : Choose(list, <<>>)
         \/ PushFault
      /\ UNCHANGED <<view, nodePos, redis, broken, requests, share, told>>

Kept(s) == s \in DOMAIN redis /\ redis[s] > clock

\* SaveRecContentToDb.  A story that is there keeps the time it runs out at; a new one has
\* none until EXPIRE.  If Redis refuses it, EXPIRE finds no key.
SaveRecContent ==
  /\ pusher = "save" /\ ~ broken
  /\ \/ /\ Kept(chosen.story)
        /\ pusher' = "send"
        /\ chosen' = [chosen EXCEPT !.kept = clock]
        /\ UNCHANGED <<users, redis, pushFaults, passed>>
     \/ /\ ~ Kept(chosen.story)
        /\ redis' = [s \in DOMAIN redis \cup {chosen.story} |->
                       IF s = chosen.story THEN Forever ELSE redis[s]]
        /\ pusher' = "expire"
        /\ UNCHANGED <<users, chosen, pushFaults, passed>>
     \/ /\ ~ Kept(chosen.story)
        /\ PushFault
        /\ UNCHANGED redis
  /\ UNCHANGED <<view, nodePos, broken, requests, share, told>>

\* Without an answer the user is passed over, the key stays for ever, and the connection
\* is of no more use.
ExpireRecContent ==
  /\ pusher = "expire"
  /\ \/ /\ redis' = [redis EXCEPT ![chosen.story] = clock + ContentExpire]
        /\ pusher' = "send"
        /\ chosen' = [chosen EXCEPT !.kept = clock]
        /\ UNCHANGED <<users, broken, pushFaults, passed>>
     \/ /\ broken' = TRUE
        /\ PushFault
        /\ UNCHANGED redis
  /\ UNCHANGED <<view, nodePos, requests, share, told>>

\* SendPush: without an answer the message may have arrived.
Message == [user |-> Head(users), story |-> chosen.story, kept |-> chosen.kept]

SendNews ==
  /\ pusher = "send"
  /\ \/ /\ told' = told \cup {Message}
        /\ GoOn(TRUE)
        /\ UNCHANGED <<pushFaults, passed>>
     \/ /\ told' \in {told, told \cup {Message}}
        /\ PushFault
  /\ UNCHANGED <<view, nodePos, redis, broken, requests, share>>

\* GET and SET without a reply are LOG(FATAL): the process dies, and is started again.
RedisFatal ==
  /\ pusher = "save"
  /\ IF broken THEN UNCHANGED pushFaults
               ELSE pushFaults > 0 /\ pushFaults' = pushFaults - 1
  /\ pusher' = "idle"
  /\ users' = <<>>
  /\ chosen' = NoStory
  /\ broken' = FALSE
  /\ passed' = passed \cup ToSet(users)
  /\ UNCHANGED <<view, nodePos, redis, requests, share, told>>

\* External: nodes come and go.
ChangeView ==
  /\ view' \in View \ {view}
  /\ pusher = "count"               \* matters only between the two reads
  /\ UNCHANGED <<nodePos, pusher, users, chosen, redis, broken, requests, pushFaults,
                 share, told, passed>>

PushNext ==
  \/ BeginNewsPush \/ GetUsers \/ CheckWatch \/ GetRecList
  \/ SaveRecContent \/ ExpireRecContent \/ SendNews \/ RedisFatal \/ ChangeView

-----------------------------------------------------------------------------
(***************************************************************************)
(* Properties                                                              *)
(***************************************************************************)
\* What the variables of the push hold.
PushTypeOK ==
  /\ view \in View
  /\ pusher \in {"idle", "count", "user", "list", "save", "expire", "send"}
  /\ ToSet(users) \subseteq share /\ share \subseteq User /\ passed \subseteq share
  /\ \A s \in DOMAIN redis : redis[s] \in Nat
  /\ {requests, pushFaults} \subseteq Nat
  /\ pusher \in {"idle", "count"} <=> users = <<>>

\* Every user of a round gets the message, unless the watch is not served, a call failed for
\* this user or no usable story was listed, or the process died before: one user's failure
\* is not another's.
RoundServesAll ==
  pusher = "idle" =>
    \A u \in share : (\E m \in told : m.user = u) \/ u \in passed \/ ~ IsServed(u)

\* A message is of a story that Redis held when it was looked up or kept: the watch can read
\* it for as long as the key lives.
ToldIsKept == \A m \in told : m.story \in DOMAIN redis /\ redis[m.story] > m.kept

\* The story chosen of news_info is the one with most hot terms, unless there were more than
\* a list holds and none had enough of them.
BestIsChosen ==
  chosen.hits # <<>> =>
    \/ \A u \in DOMAIN chosen.hits : chosen.hits[u] <= chosen.hits[chosen.story]
    \/ /\ Cardinality(DOMAIN chosen.hits) > MaxResultNum
       /\ \A u \in DOMAIN chosen.hits : chosen.hits[u] < MinHitWordCount

\* What a round of NewsPushProcessor::Process says to whom: all three of the above.
PushedIsSound == RoundServesAll /\ ToldIsKept /\ BestIsChosen
=============================================================================
