----------------------------- MODULE News_proofs -----------------------------
(***************************************************************************)
(* Proofs about News: the crawler, the ranker and the news push, for any   *)
(* pages, sites, users and instants.                                       *)
(***************************************************************************)
EXTENDS News, FiniteSetTheorems, WellFoundedInduction, TLAPS

-----------------------------------------------------------------------------
(***************************************************************************)
(* Loops.  What a loop preserves holds at its end, and a loop that adds to *)
(* a list of pages has a result: the function defined by its recursion.    *)
(***************************************************************************)
LEMMA Upward ==
  \A N \in Nat : \A T : 0 \in T /\ (\A n \in 1..N : n - 1 \in T => n \in T) => N \in T
<1> SUFFICES ASSUME NEW N \in Nat, NEW T, 0 \in T, \A n \in 1..N : n - 1 \in T => n \in T
             PROVE  \A n \in 0..N : n \in T
  OBVIOUS
<1> DEFINE Bad == {n \in Nat : n <= N /\ n \notin T}
<1> SUFFICES ASSUME Bad # {} PROVE FALSE
  OBVIOUS
<1>1. Bad \subseteq Nat
  OBVIOUS
<1>2. IsWellFoundedOn(OpToRel(<, Nat), Nat)
  BY NatLessThanWellFounded
<1>3. PICK n \in Bad : \A m \in Bad : ~ (<<m, n>> \in OpToRel(<, Nat))
  <2> HIDE DEF Bad
  <2> QED BY <1>1, <1>2, WFMin
<1>4. n \in Nat /\ n <= N /\ n \notin T
  OBVIOUS
<1>5. n - 1 \in Nat /\ n - 1 < n /\ n \in 1..N
  BY <1>4
<1>6. n - 1 \notin Bad
  BY <1>3, <1>4, <1>5 DEF OpToRel
<1>7. n - 1 \in T
  BY <1>4, <1>5, <1>6
<1> QED BY <1>4, <1>5, <1>7

LEMMA Recursion ==
  \A N \in Nat : \A step \in [1..N -> [Seq(Url) -> Seq(Url)]] :
    \E f \in [0..N -> Seq(Url)] : f[0] = <<>> /\ \A n \in 1..N : f[n] = step[n][f[n - 1]]
<1> DEFINE X == Seq(Url)
<1>X. <<>> \in X
  OBVIOUS
<1> HIDE DEF X
<1> SUFFICES ASSUME NEW N \in Nat, NEW step \in [1..N -> [X -> X]]
             PROVE  \E f \in [0..N -> X] : /\ f[0] = <<>>
                                           /\ \A n \in 1..N : f[n] = step[n][f[n - 1]]
  BY DEF X
<1> DEFINE Reaches(f, n) == /\ f \in [0..n -> X] /\ f[0] = <<>>
                            /\ \A i \in 1..n : f[i] = step[i][f[i - 1]]
           T == {n \in 0..N : \E f : Reaches(f, n)}
<1>1. 0 \in T
  <2>1. Reaches([i \in 0..0 |-> <<>>], 0)
    BY <1>X
  <2> HIDE DEF Reaches
  <2> QED BY <2>1
<1>2. ASSUME NEW n \in 1..N, n - 1 \in T PROVE n \in T
  <2>1. PICK f : Reaches(f, n - 1)
    BY <1>2
  <2> DEFINE h == [i \in 0..n |-> IF i < n THEN f[i] ELSE step[n][f[n - 1]]]
  <2>2. \A i \in 0..(n - 1) : i \in 0..n /\ h[i] = f[i] /\ f[i] \in X
    BY <2>1
  <2>3. h[n] = step[n][f[n - 1]] /\ h[n] \in X
    <3> HIDE DEF h
    <3>0. n - 1 \in 0..(n - 1)
      BY <1>2
    <3>1. f[n - 1] \in X /\ step[n] \in [X -> X]
      BY <2>2, <3>0
    <3> USE DEF h
    <3>2. h[n] = step[n][f[n - 1]]
      OBVIOUS
    <3> QED BY ONLY <3>1, <3>2
  <2>4. \A i \in 0..n : i \in 0..(n - 1) \/ i = n
    OBVIOUS
  <2>5. h \in [0..n -> X]
    <3> SUFFICES \A i \in 0..n : h[i] \in X
      OBVIOUS
    <3> HIDE DEF h
    <3> QED BY <2>2, <2>3, <2>4
  <2>6. ASSUME NEW i \in 1..n PROVE h[i] = step[i][h[i - 1]]
    <3>1. i - 1 \in 0..(n - 1) /\ (i \in 1..(n - 1) \/ i = n)
      OBVIOUS
    <3> HIDE DEF h
    <3>2. h[i - 1] = f[i - 1]
      BY <2>2, <3>1
    <3>3. CASE i = n
      BY <2>3, <3>2, <3>3
    <3>4. CASE i \in 1..(n - 1)
      <4>1. f[i] = step[i][f[i - 1]] /\ i \in 0..(n - 1)
        BY <2>1, <3>4
      <4> QED BY <2>2, <3>2, <4>1
    <3> QED BY <3>1, <3>3, <3>4
  <2>7. h[0] = <<>>
    BY <2>1, <2>2
  <2>8. Reaches(h, n)
    <3> HIDE DEF h
    <3> QED BY <2>5, <2>6, <2>7
  <2> HIDE DEF Reaches, h
  <2> QED BY <2>8
<1> HIDE DEF T
<1>3. N \in T
  <2>1. \A n \in 1..N : n - 1 \in T => n \in T
    BY <1>2
  <2> QED BY ONLY <1>1, <2>1, Upward, N \in Nat
<1> QED BY <1>3 DEF T

\* What Only copies are the members that are in keep.
LEMMA OnlyThose ==
  ASSUME NEW us \in Seq(Url), NEW keep
  PROVE  Only(us, keep) \in Seq(Url) /\ ToSet(Only(us, keep)) = ToSet(us) \cap keep
<1> DEFINE N == Len(us)
           Loop(f) == [n \in 0..N |->
                        IF n = 0 THEN <<>>
                        ELSE IF us[n] \in keep THEN Append(f[n - 1], us[n]) ELSE f[n - 1]]
           step == [n \in 1..N |-> [s \in Seq(Url) |-> IF us[n] \in keep THEN Append(s, us[n]) ELSE s]]
           g == CHOOSE f : f = Loop(f)
<1>1. N \in Nat /\ DOMAIN us = 1..N /\ \A n \in 1..N : us[n] \in Url
  OBVIOUS
<1>2. PICK f \in [0..N -> Seq(Url)] : f[0] = <<>> /\ \A n \in 1..N : f[n] = step[n][f[n - 1]]
  <2>1. \A n \in 1..N : \A s \in Seq(Url) : Append(s, us[n]) \in Seq(Url)
    BY <1>1
  <2>2. step \in [1..N -> [Seq(Url) -> Seq(Url)]] /\ <<>> \in Seq(Url)
    BY <2>1
  <2> HIDE DEF step, N
  <2>3. \A next \in [1..N -> [Seq(Url) -> Seq(Url)]] :
          \E f \in [0..N -> Seq(Url)] : f[0] = <<>> /\ \A n \in 1..N : f[n] = next[n][f[n - 1]]
    BY ONLY <1>1, Recursion
  <2> QED BY ONLY <2>2, <2>3
<1>3. f = Loop(f)
  <2>1. ASSUME NEW n \in 0..N PROVE f[n] = Loop(f)[n]
    <3>1. CASE n = 0
      BY <1>2, <3>1
    <3>2. CASE n # 0
      <4>1. n \in 1..N /\ n - 1 \in 0..N
        BY <1>1, <3>2
      <4> QED BY <1>2, <3>2, <4>1
    <3> QED BY <3>1, <3>2
  <2> HIDE DEF N
  <2> QED BY <1>2, <2>1
<1>4. g = Loop(g)
  <2> HIDE DEF Loop
  <2> QED BY <1>3
<1>5. Only(us, keep) = g[N]
  BY DEF Only
<1> HIDE DEF g
<1> DEFINE T == {n \in 0..N : /\ g[n] \in Seq(Url)
                              /\ ToSet(g[n]) = {us[i] : i \in 1..n} \cap keep}
<1>6. 0 \in T
  <2>1. g[0] = <<>> /\ 0 \in 0..N
    BY <1>1, <1>4
  <2>2. ToSet(<<>>) = {} /\ {us[i] : i \in 1..0} = {}
    BY DEF ToSet
  <2> QED BY <2>1, <2>2
<1>7. ASSUME NEW n \in 1..N, n - 1 \in T PROVE n \in T
  <2>1. /\ n \in 0..N /\ n - 1 \in 0..N /\ n # 0
        /\ g[n] = IF us[n] \in keep THEN Append(g[n - 1], us[n]) ELSE g[n - 1]
    <3>1. n \in 0..N /\ n # 0
      BY <1>1
    <3> QED BY <1>4, <1>7, <3>1
  <2>2. g[n - 1] \in Seq(Url) /\ ToSet(g[n - 1]) = {us[i] : i \in 1..(n - 1)} \cap keep
    BY <1>7
  <2>3. {us[i] : i \in 1..n} = {us[i] : i \in 1..(n - 1)} \cup {us[n]}
    BY <1>1
  <2>4. ASSUME NEW s \in Seq(Url) PROVE ToSet(Append(s, us[n])) = ToSet(s) \cup {us[n]}
    <3>1. DOMAIN Append(s, us[n]) = DOMAIN s \cup {Len(s) + 1}
      OBVIOUS
    <3>2. /\ \A i \in DOMAIN s : Append(s, us[n])[i] = s[i]
          /\ Append(s, us[n])[Len(s) + 1] = us[n]
      OBVIOUS
    <3> QED BY <3>1, <3>2 DEF ToSet
  <2>5. us[n] \in Url
    BY <1>1
  <2> HIDE DEF N
  <2>6. CASE us[n] \in keep
    <3>1. g[n] = Append(g[n - 1], us[n])
      BY <2>1, <2>6
    <3>2. g[n] \in Seq(Url) /\ ToSet(g[n]) = ToSet(g[n - 1]) \cup {us[n]}
      BY ONLY <2>2, <2>4, <2>5, <3>1
    <3> QED BY <2>1, <2>2, <2>3, <2>6, <3>2
  <2>7. CASE us[n] \notin keep
    BY <2>1, <2>2, <2>3, <2>7
  <2> QED BY <2>6, <2>7
<1>8. N \in T
  <2> HIDE DEF T, N
  <2>1. \A n \in 1..N : n - 1 \in T => n \in T
    BY <1>7
  <2> QED BY ONLY <1>1, <1>6, <2>1, Upward
<1>9. {us[i] : i \in 1..N} = ToSet(us)
  BY <1>1 DEF ToSet
<1> QED BY <1>5, <1>8, <1>9

\* A list is its first member and the others.
LEMMA FirstAndRest ==
  ASSUME NEW S, NEW s \in Seq(S), s # <<>>
  PROVE  Head(s) \in S /\ Tail(s) \in Seq(S) /\ ToSet(s) = {Head(s)} \cup ToSet(Tail(s))
<1>1. Head(s) \in S /\ Tail(s) \in Seq(S) /\ Len(s) >= 1 /\ Head(s) = s[1]
  OBVIOUS
<1>2. /\ DOMAIN Tail(s) = 1..(Len(s) - 1) /\ DOMAIN s = 1..Len(s)
      /\ \A i \in 1..(Len(s) - 1) : Tail(s)[i] = s[i + 1]
  BY <1>1
<1>3. ASSUME NEW u PROVE u \in ToSet(s) <=> u = Head(s) \/ u \in ToSet(Tail(s))
  <2>1. ASSUME u \in ToSet(s) PROVE u = Head(s) \/ u \in ToSet(Tail(s))
    <3>1. PICK i \in 1..Len(s) : u = s[i]
      BY <2>1, <1>2 DEF ToSet
    <3>2. CASE i = 1
      BY <1>1, <3>1, <3>2
    <3>3. CASE i # 1
      <4>1. i - 1 \in 1..(Len(s) - 1) /\ (i - 1) + 1 = i
        BY <1>1, <3>3
      <4> QED BY <1>2, <3>1, <4>1 DEF ToSet
    <3> QED BY <3>2, <3>3
  <2>2. ASSUME u = Head(s) PROVE u \in ToSet(s)
    BY <1>1, <1>2, <2>2 DEF ToSet
  <2>3. ASSUME u \in ToSet(Tail(s)) PROVE u \in ToSet(s)
    <3>1. PICK i \in 1..(Len(s) - 1) : u = Tail(s)[i]
      BY <2>3, <1>2 DEF ToSet
    <3>2. i + 1 \in 1..Len(s)
      BY <1>1
    <3> QED BY <1>2, <3>1, <3>2 DEF ToSet
  <2> QED BY <2>1, <2>2, <2>3
<1> QED BY <1>1, <1>3

\* The pages of a list, of its parts, and of two lists.
LEMMA Elements ==
  /\ \A s \in Seq(Url) : ToSet(s) \subseteq Url /\ \A i \in 1..Len(s) : s[i] \in ToSet(s)
  /\ \A s \in Seq(Url) : \A u \in Url :
       Append(s, u) \in Seq(Url) /\ ToSet(Append(s, u)) = ToSet(s) \cup {u}
  /\ \A s \in Seq(Url) : s # <<>> =>
       Head(s) \in Url /\ Tail(s) \in Seq(Url) /\ ToSet(s) = {Head(s)} \cup ToSet(Tail(s))
  /\ <<>> \in Seq(Url) /\ ToSet(<<>>) = {}
<1>1. ASSUME NEW s \in Seq(Url)
      PROVE  ToSet(s) \subseteq Url /\ \A i \in 1..Len(s) : s[i] \in ToSet(s)
  BY DEF ToSet
<1>2. ASSUME NEW s \in Seq(Url), NEW u \in Url
      PROVE  Append(s, u) \in Seq(Url) /\ ToSet(Append(s, u)) = ToSet(s) \cup {u}
  <2>1. DOMAIN Append(s, u) = DOMAIN s \cup {Len(s) + 1}
    OBVIOUS
  <2>2. (\A i \in DOMAIN s : Append(s, u)[i] = s[i]) /\ Append(s, u)[Len(s) + 1] = u
    OBVIOUS
  <2> QED BY <2>1, <2>2 DEF ToSet
<1>3. ASSUME NEW s \in Seq(Url), s # <<>>
      PROVE  /\ Head(s) \in Url /\ Tail(s) \in Seq(Url)
             /\ ToSet(s) = {Head(s)} \cup ToSet(Tail(s))
  BY <1>3, FirstAndRest
<1>4. <<>> \in Seq(Url) /\ ToSet(<<>>) = {}
  BY DEF ToSet
<1> QED BY <1>1, <1>2, <1>3, <1>4

\* What FlattenSeq merges are the members of all the lists.
LEMMA Merged ==
  ASSUME NEW us \in Seq(Seq(Url))
  PROVE  FlattenSeq(us) \in Seq(Url) /\ ToSet(FlattenSeq(us)) = UNION {ToSet(us[i]) : i \in DOMAIN us}
<1> DEFINE N == Len(us)
           Loop(f) == [i \in 1..N |-> IF i = 1 THEN us[i] ELSE f[i - 1] \o us[i]]
           step == [n \in 1..N |-> [s \in Seq(Url) |-> s \o us[n]]]
           g == CHOOSE f : f = Loop(f)
<1>1. N \in Nat /\ DOMAIN us = 1..N /\ \A n \in 1..N : us[n] \in Seq(Url)
  OBVIOUS
<1>2. PICK f \in [0..N -> Seq(Url)] : f[0] = <<>> /\ \A n \in 1..N : f[n] = step[n][f[n - 1]]
  <2>1. \A n \in 1..N : \A s \in Seq(Url) : s \o us[n] \in Seq(Url)
    BY <1>1
  <2>2. step \in [1..N -> [Seq(Url) -> Seq(Url)]]
    BY <2>1
  <2> HIDE DEF step, N
  <2>3. \A next \in [1..N -> [Seq(Url) -> Seq(Url)]] :
          \E f \in [0..N -> Seq(Url)] : f[0] = <<>> /\ \A n \in 1..N : f[n] = next[n][f[n - 1]]
    BY ONLY <1>1, Recursion
  <2> QED BY ONLY <2>2, <2>3
<1>3. \A n \in 1..N : f[n] = f[n - 1] \o us[n] /\ f[n - 1] \in Seq(Url) /\ f[n] \in Seq(Url)
  <2> TAKE n \in 1..N
  <2>1. n - 1 \in 0..N /\ n \in 0..N
    BY <1>1
  <2> QED BY <1>2, <2>1
<1> DEFINE h == [i \in 1..N |-> f[i]]
<1>4. h = Loop(h)
  <2>1. ASSUME NEW n \in 1..N PROVE h[n] = Loop(h)[n]
    <3>1. CASE n = 1
      <4>1. f[1] = <<>> \o us[1] /\ us[1] \in Seq(Url)
        <5>1. 1 - 1 = 0 /\ 1 \in 1..N
          BY <3>1
        <5>2. f[1 - 1] = <<>>
          BY <1>2, <5>1
        <5>3. f[1] = f[1 - 1] \o us[1] /\ us[1] \in Seq(Url)
          BY <1>1, <1>3, <5>1
        <5> QED BY <5>2, <5>3
      <4> QED BY <3>1, <4>1
    <3>2. CASE n # 1
      <4>1. n - 1 \in 1..N
        BY <1>1, <3>2
      <4> QED BY <1>3, <3>2, <4>1
    <3> QED BY <3>1, <3>2
  <2> HIDE DEF N
  <2> QED BY <2>1
<1>5. g = Loop(g)
  <2> HIDE DEF Loop, h
  <2> QED BY <1>4
<1>6. N # 0 => FlattenSeq(us) = g[N]
  BY DEF FlattenSeq
<1>7. N = 0 => FlattenSeq(us) = <<>>
  BY DEF FlattenSeq
<1> HIDE DEF g
<1> DEFINE T == {n \in 0..N : n # 0 => /\ g[n] \in Seq(Url)
                                       /\ ToSet(g[n]) = UNION {ToSet(us[i]) : i \in 1..n}}
<1>8. 0 \in T
  BY <1>1
<1>9. ASSUME NEW n \in 1..N, n - 1 \in T PROVE n \in T
  <2>1. g[n] = IF n = 1 THEN us[n] ELSE g[n - 1] \o us[n]
    BY <1>5
  <2>2. us[n] \in Seq(Url) /\ n \in 0..N
    BY <1>1
  <2>3. CASE n = 1
    <3>1. {ToSet(us[i]) : i \in 1..n} = {ToSet(us[1])}
      BY <2>3
    <3> HIDE DEF N
    <3> QED BY <2>1, <2>2, <2>3, <3>1
  <2>4. CASE n # 1
    <3>1. g[n - 1] \in Seq(Url) /\ ToSet(g[n - 1]) = UNION {ToSet(us[i]) : i \in 1..(n - 1)}
      BY <1>9, <2>4
    <3>2. {ToSet(us[i]) : i \in 1..n} = {ToSet(us[i]) : i \in 1..(n - 1)} \cup {ToSet(us[n])}
      <4>1. 1..n = 1..(n - 1) \cup {n}
        OBVIOUS
      <4> QED BY <4>1
    <3>3. ASSUME NEW a \in Seq(Url), NEW b \in Seq(Url) PROVE ToSet(a \o b) = ToSet(a) \cup ToSet(b)
      <4>1. /\ DOMAIN (a \o b) = 1..(Len(a) + Len(b)) /\ DOMAIN a = 1..Len(a) /\ DOMAIN b = 1..Len(b)
            /\ \A i \in 1..Len(a) : (a \o b)[i] = a[i] /\ i \in 1..(Len(a) + Len(b))
            /\ \A i \in 1..Len(b) : /\ (a \o b)[Len(a) + i] = b[i]
                                    /\ Len(a) + i \in 1..(Len(a) + Len(b))
        OBVIOUS
      <4>2. ASSUME NEW i \in 1..(Len(a) + Len(b))
            PROVE  (a \o b)[i] \in ToSet(a) \cup ToSet(b)
        <5>1. CASE i <= Len(a)
          <6>1. i \in 1..Len(a)
            BY <5>1
          <6> QED BY <4>1, <6>1 DEF ToSet
        <5>2. CASE ~ i <= Len(a)
          <6>1. i - Len(a) \in 1..Len(b) /\ Len(a) + (i - Len(a)) = i
            BY <5>2
          <6> QED BY <4>1, <6>1 DEF ToSet
        <5> QED BY <5>1, <5>2
      <4> DEFINE c == a \o b
      <4> HIDE DEF c
      <4>3. DOMAIN c = 1..(Len(a) + Len(b)) /\ \A i \in DOMAIN c : c[i] \in ToSet(a) \cup ToSet(b)
        BY <4>1, <4>2 DEF c
      <4>4. ToSet(c) \subseteq ToSet(a) \cup ToSet(b)
        BY <4>3 DEF ToSet
      <4>5. ToSet(a) \subseteq ToSet(c) /\ ToSet(b) \subseteq ToSet(c)
        BY <4>1 DEF ToSet, c
      <4> QED BY <4>4, <4>5 DEF c
    <3> HIDE DEF N
    <3>4. g[n] \in Seq(Url)
      BY <2>1, <2>2, <2>4, <3>1
    <3>5. ToSet(g[n]) = ToSet(g[n - 1]) \cup ToSet(us[n])
      BY <2>1, <2>2, <2>4, <3>1, <3>3
    <3> QED BY <2>2, <3>1, <3>2, <3>4, <3>5
  <2> QED BY <2>3, <2>4
<1>10. N \in T
  <2> HIDE DEF T, N
  <2>1. \A n \in 1..N : n - 1 \in T => n \in T
    BY <1>9
  <2> QED BY ONLY <1>1, <1>8, <2>1, Upward
<1>11. CASE N = 0
  <2>1. ToSet(<<>>) = {} /\ UNION {ToSet(us[i]) : i \in DOMAIN us} = {}
    BY <1>1, <1>11 DEF ToSet
  <2> QED BY <1>7, <1>11, <2>1
<1>12. CASE N # 0
  <2> HIDE DEF N
  <2> QED BY <1>1, <1>6, <1>10, <1>12
<1> QED BY <1>11, <1>12

-----------------------------------------------------------------------------
(***************************************************************************)
(* The invariant.  The clock runs within the scene; a row of news_info has *)
(* its fields, and was written by now.                                     *)
(***************************************************************************)
TimeInv == scene \in Scenes /\ clock \in scene.moments

RowOK(u, r) ==
  /\ r = [category |-> r.category, published |-> r.published, source |-> r.source,
          use |-> r.use, score |-> r.score, updated |-> r.updated]
  /\ r.category \in BOOLEAN /\ r.source \in {"", Page[u].source} /\ r.published \in Int
  /\ r.use \in {"training", "recommend"}
  /\ IsFiniteSet(r.score.hit) /\ r.updated \in 0..clock

RowsInv ==
  /\ DOMAIN news \subseteq listed /\ listed \subseteq Url /\ coming \subseteq Url \ listed
  /\ \A u \in DOMAIN news : RowOK(u, news[u])
  /\ news = [u \in DOMAIN news |-> news[u]]

\* What a thread or a fetcher has in hand is listed; a thread that fetches has a page to
\* fetch; the threads are gone before anything is saved, and what is saved is gone before
\* the next pass.
Tasks == [todo : Seq(Url), fetching : BOOLEAN, got : Seq(Url)]
Listed(us) == ToSet(us) \subseteq listed
TaskOK(task) == Listed(task.todo) /\ Listed(task.got) /\ (task.fetching => task.todo # <<>>)

CrawlTyped ==
  /\ visited \in [Site -> SUBSET Url]
  /\ lastClear \in [Site -> Nat]
  /\ crawler \in [Site -> {"off", "asleep", "links", "content", "save"}]
  /\ started \in [Site -> Nat]
  /\ tasks \in [Site -> Seq(Tasks)]
  /\ unsaved \in [Site -> Seq(Url)]
  /\ crawlFaults \in Nat
  /\ lost \in [Site -> SUBSET Url]

HandInv(s) ==
  /\ \A t \in DOMAIN tasks[s] : TaskOK(tasks[s][t])
  /\ Listed(unsaved[s])
  /\ crawler[s] # "content" => tasks[s] = <<>>
  /\ crawler[s] # "save" => unsaved[s] = <<>>

AccountedInv(s) ==
  \A u \in visited[s] : Parse(s, Page[u]) => u \in DOMAIN news \cup InHand(s) \cup lost[s]

SiteInv(s) == HandInv(s) /\ AccountedInv(s)

CrawlInv == RowsInv /\ CrawlTyped /\ \A s \in Site : SiteInv(s)

\* What a pass has read at some instant, of the rows of that day: all that are older than
\* the time the pass keeps, and they are no older now than they were.
Snapshot(read, at, began) ==
  /\ at \in Nat /\ began <= at /\ at <= clock
  /\ \A u \in read : u \in DOMAIN news /\ Day(news[u].updated) >= Day(at)
  /\ ~ pass.failed =>
       \A u \in DOMAIN news :
         news[u].updated < began /\ Day(news[u].updated) = Day(at) => u \in read

TermsOf(ds) == TopnTerms(TermFreq(ds), MaxTermCount)

RankTyped ==
  /\ ranker \in {"asleep", "terms", "docs", "write"}
  /\ {looked, lastRanking, rankingTime, rankFaults} \subseteq Nat
  /\ rankingTime <= clock
  /\ DOMAIN hotTerms \subseteq UNION {Page[u].title : u \in Url}
  /\ results \subseteq docs /\ docs \subseteq DOMAIN news
  /\ pass = [hot |-> pass.hot, docs |-> pass.docs, hotAt |-> pass.hotAt,
             docsAt |-> pass.docsAt, failed |-> pass.failed]
  /\ pass.failed \in BOOLEAN

\* What has been read and scored of the pass under way.
PassReads ==
  /\ ranker \in {"docs", "write"} =>
       /\ Snapshot(pass.hot, pass.hotAt, rankingTime)
       /\ hotTerms = TermsOf(pass.hot)
  /\ ranker = "write" =>
       /\ Snapshot(pass.docs, pass.docsAt, rankingTime)
       /\ pass.failed \/ \A u \in pass.docs :
            Hits(u, hotTerms) => u \in results \/ news[u].score = Score(u, hotTerms)

\* The same of the last pass, while its time is kept.
PassDone ==
  ranker = "asleep" /\ lastRanking > 0 =>
    /\ Snapshot(pass.hot, pass.hotAt, lastRanking)
    /\ Snapshot(pass.docs, pass.docsAt, lastRanking)
    /\ pass.failed \/ \A u \in pass.docs :
         Hits(u, TermsOf(pass.hot)) => news[u].score = Score(u, TermsOf(pass.hot))

RankInv == RankTyped /\ PassReads /\ PassDone

\* Who is still to be served, what Redis holds, and what was chosen.
PushTyped ==
  /\ view \in View
  /\ pusher \in {"idle", "count", "user", "list", "save", "expire", "send"}
  /\ users \in Seq(User) /\ ToSet(users) \subseteq share
  /\ share \subseteq User /\ passed \subseteq share
  /\ pusher \in {"idle", "count"} <=> users = <<>>
  /\ pusher = "count" => share = {}
  /\ {requests, pushFaults} \subseteq Nat
  /\ chosen = [story |-> chosen.story, hits |-> chosen.hits, kept |-> chosen.kept]

UsersLeft ==
  \A u \in share : \/ u \in ToSet(users) \/ u \in passed \/ ~ IsServed(u)
                   \/ \E m \in told : m.user = u

KeptInv ==
  /\ \A s \in DOMAIN redis : redis[s] \in Nat
  /\ \A m \in told : /\ m.story \in DOMAIN redis /\ redis[m.story] > m.kept
                     /\ m.kept \in 0..clock
  /\ pusher = "expire" => chosen.story \in DOMAIN redis
  /\ pusher = "send" => /\ chosen.story \in DOMAIN redis /\ redis[chosen.story] > chosen.kept
                        /\ chosen.kept \in 0..clock

PushInv == PushTyped /\ UsersLeft /\ KeptInv /\ BestIsChosen

NewsInv == TimeInv /\ CrawlInv /\ RankInv /\ PushInv

-----------------------------------------------------------------------------
(***************************************************************************)
(* Lists of links                                                          *)
(***************************************************************************)
\* SplitVector makes runs of the links it is given.
LEMMA SplitRuns ==
  ASSUME NEW links \in Seq(Url), NEW n \in Nat \ {0}
  PROVE  /\ SplitVector(links, n) \in Seq(Seq(Url))
         /\ \A i \in DOMAIN SplitVector(links, n) :
              ToSet(SplitVector(links, n)[i]) \subseteq ToSet(links)
<1> DEFINE L == Len(links)
           length == L \div n
           remain == L % n
           begin(i) == (i - 1) * length + (IF i - 1 < remain THEN i - 1 ELSE remain)
           k == IF n < L THEN n ELSE L
<1>1. L \in Nat /\ k \in Nat /\ k <= n
  OBVIOUS
<1>2. length \in Nat /\ remain \in Nat /\ L = n * length + remain
  <2>1. \A l \in Nat : (l \div n) \in Nat /\ (l % n) \in Nat /\ l = n * (l \div n) + (l % n)
    OBVIOUS
  <2> QED BY <1>1, <2>1
<1>3. ASSUME NEW i \in 1..k
      PROVE  begin(i) + 1 \in Nat \ {0} /\ begin(i + 1) \in Int /\ begin(i + 1) <= L
  <2> HIDE DEF length, remain, L, k
  <2>0. i \in Nat /\ 1 <= i /\ i <= n
    BY <1>1
  <2>1. (i - 1) * length \in Nat /\ i * length \in Nat
    BY <1>2, <2>0
  <2>2. i * length <= n * length
    <3>1. \A a, b, c \in Nat : a <= b => a * c <= b * c
      <4> TAKE a, b, c \in Nat
      <4>1. ASSUME a <= b PROVE a * c <= b * c
        <5>1. b - a \in Nat /\ b * c = a * c + (b - a) * c /\ (b - a) * c \in Nat
          BY <4>1
        <5>2. a * c \in Nat /\ b * c \in Nat
          OBVIOUS
        <5> QED BY <5>1, <5>2
      <4> QED BY <4>1
    <3> QED BY <1>2, <2>0, <3>1
  <2>3. begin(i) \in Nat /\ begin(i + 1) = i * length + (IF i < remain THEN i ELSE remain)
    <3>1. (i + 1) - 1 = i
      BY <2>0
    <3> QED BY <1>2, <2>0, <2>1, <3>1
  <2>4. n * length \in Nat
    BY <1>2
  <2> HIDE DEF begin
  <2> QED BY <1>1, <1>2, <2>0, <2>1, <2>2, <2>3, <2>4
<1>4. ASSUME NEW a \in Nat \ {0}, NEW b \in Int, b <= L
      PROVE  SubSeq(links, a, b) \in Seq(Url) /\ ToSet(SubSeq(links, a, b)) \subseteq ToSet(links)
  <2>1. /\ SubSeq(links, a, b) \in Seq(Url)
        /\ \A i \in 1..Len(SubSeq(links, a, b)) :
             /\ SubSeq(links, a, b)[i] = links[a + i - 1]
             /\ a + i - 1 \in 1..L
    BY <1>4
  <2> DEFINE c == SubSeq(links, a, b)
  <2>2. DOMAIN c = 1..Len(c) /\ DOMAIN links = 1..L
    BY <2>1
  <2>3. \A i \in DOMAIN c : c[i] \in ToSet(links)
    BY <2>1, <2>2 DEF ToSet
  <2> HIDE DEF c
  <2>4. ToSet(c) \subseteq ToSet(links)
    BY <2>3 DEF ToSet
  <2> QED BY <2>1, <2>4 DEF c
<1>5. SplitVector(links, n) = [i \in 1..k |-> SubSeq(links, begin(i) + 1, begin(i + 1))]
  BY DEF SplitVector
<1>6. ASSUME NEW i \in 1..k
      PROVE  /\ SubSeq(links, begin(i) + 1, begin(i + 1)) \in Seq(Url)
             /\ ToSet(SubSeq(links, begin(i) + 1, begin(i + 1))) \subseteq ToSet(links)
  <2> HIDE DEF begin, L, k
  <2> DEFINE a == begin(i) + 1
             b == begin(i + 1)
  <2>1. a \in Nat \ {0} /\ b \in Int /\ b <= L
    BY <1>3, <1>6
  <2>2. SubSeq(links, a, b) \in Seq(Url) /\ ToSet(SubSeq(links, a, b)) \subseteq ToSet(links)
    <3> HIDE DEF a, b
    <3> QED BY <1>4, <2>1
  <2> QED BY <2>2
<1> HIDE DEF begin, k, L
<1> QED BY <1>1, <1>5, <1>6

\* The links read are listed.
LEMMA LinksListed ==
  ASSUME NEW s \in Site, NEW skipped
  PROVE  LinkVec(s, skipped) \in Seq(Url) /\ ToSet(LinkVec(s, skipped)) \subseteq listed
<1> DEFINE read == [i \in DOMAIN Seeds[s] |-> IF i \in skipped THEN <<>> ELSE Seeds[s][i]]
<1>1. Seeds[s] \in Seq(Seq(Url))
  BY NewsCrawlConstantsOK
<1>2. read \in Seq(Seq(Url))
  <2>1. DOMAIN Seeds[s] = 1..Len(Seeds[s]) /\ Len(Seeds[s]) \in Nat
    BY <1>1
  <2>2. \A i \in 1..Len(Seeds[s]) : Seeds[s][i] \in Seq(Url)
    BY <1>1
  <2> QED BY <2>1, <2>2
<1> DEFINE us == FlattenSeq(read)
           keep == {u \in listed \ visited[s] : ~ FilterURL(s, u)}
<1>3. us \in Seq(Url)
  <2> HIDE DEF read
  <2> QED BY <1>2, Merged
<1>4. LinkVec(s, skipped) = Only(us, keep)
  BY DEF LinkVec
<1>5. Only(us, keep) \in Seq(Url) /\ ToSet(Only(us, keep)) = ToSet(us) \cap keep
  <2> HIDE DEF us, keep
  <2> QED BY <1>3, OnlyThose
<1>6. keep \subseteq listed
  OBVIOUS
<1> HIDE DEF us, keep
<1> QED BY <1>4, <1>5, <1>6

-----------------------------------------------------------------------------
(***************************************************************************)
(* The steps of the crawler                                                *)
(***************************************************************************)
LEMMA NowIsNatural ==
  /\ TimeInv => clock \in Nat /\ 0 < clock /\ clock < Forever
  /\ TimeInv' => clock' \in Nat /\ 0 < clock' /\ clock' < Forever
<1>1. \A s \in Scenes : s.moments \subseteq 1..(Forever - 1)
  BY NewsScenesOK
<1>2. TimeInv => clock \in 1..(Forever - 1)
  BY <1>1 DEF TimeInv
<1>3. TimeInv' => clock' \in 1..(Forever - 1)
  BY <1>1 DEF TimeInv
<1>4. \A n \in 1..(Forever - 1) : n \in Nat /\ 0 < n /\ n < Forever
  BY DEF Forever
<1> QED BY ONLY <1>2, <1>3, <1>4

\* The row inserted for a page is one.
LEMMA NewRow ==
  ASSUME clock \in Nat, NEW s, NEW u \in Url
  PROVE  RowOK(u, NewsInfo(s, Page[u])) /\ NewsInfo(s, Page[u]).updated = clock
<1>1. Page[u].topic \in BOOLEAN /\ Page[u].time \in Int
  BY NewsCrawlConstantsOK
<1> DEFINE r == NewsInfo(s, Page[u])
<1>2. /\ r.updated = clock /\ r.category = Page[u].topic /\ r.score = Unscored
      /\ r.published = (IF s = "sina" THEN 0 ELSE Page[u].time)
      /\ r.source = (IF s = "sina" \/ Page[u].source = "missing" THEN "" ELSE Page[u].source)
      /\ r.use = (IF s = "sina" THEN "training" ELSE "recommend")
  BY DEF NewsInfo
<1>3. IsFiniteSet(r.score.hit)
  <2>1. Unscored.hit = {}
    BY DEF Unscored
  <2> HIDE DEF r
  <2> QED BY <1>2, <2>1, FS_EmptySet
<1>4. r = [category |-> r.category, published |-> r.published, source |-> r.source,
           use |-> r.use, score |-> r.score, updated |-> r.updated]
  BY DEF NewsInfo
<1> HIDE DEF r
<1>5. r.category \in BOOLEAN
  BY <1>1, <1>2, Zenon
<1>6. r.source \in {"", Page[u].source}
  BY <1>2, Zenon
<1>7. r.published \in Int /\ r.updated \in 0..clock
  <2>1. r.updated \in 0..clock
    <3>1. clock \in 0..clock
      OBVIOUS
    <3> QED BY <1>2, <3>1, Zenon
  <2>2. 0 \in Int
    OBVIOUS
  <2> QED BY <1>1, <1>2, <2>1, <2>2, Zenon
<1>8. r.use \in {"training", "recommend"}
  BY <1>2, Zenon
<1> QED BY <1>2, <1>3, <1>4, <1>5, <1>6, <1>7, <1>8 DEF RowOK, r

\* A site that is left alone loses nothing by what happens to the others.
LEMMA SiteStays ==
  ASSUME NEW r \in Site, SiteInv(r), tasks'[r] = tasks[r], unsaved'[r] = unsaved[r],
         crawler'[r] = crawler[r], visited'[r] = visited[r], lost'[r] = lost[r],
         listed \subseteq listed', DOMAIN news \subseteq DOMAIN news'
  PROVE  SiteInv(r)'
<1>1. HandInv(r)'
  BY DEF SiteInv, HandInv, TaskOK, Listed
<1>2. AccountedInv(r)'
  <2>1. InHand(r)' = InHand(r)
    BY DEF InHand
  <2> QED BY <2>1 DEF SiteInv, AccountedInv
<1> QED BY <1>1, <1>2 DEF SiteInv

LEMMA RowsStay ==
  ASSUME RowsInv, UNCHANGED <<clock, news, listed, coming>>
  PROVE  RowsInv'
BY DEF RowsInv, RowOK

LEMMA ClearKeeps ==
  ASSUME TimeInv, CrawlInv, UNCHANGED <<scene, clock>>, NEW s \in Site, DoClear(s)
  PROVE  CrawlInv'
<1> USE DEF CrawlInv
<1>1. clock \in Nat
  BY NowIsNatural
<1>2. RowsInv'
  BY RowsStay DEF DoClear
<1>3. CrawlTyped'
  BY <1>1 DEF CrawlTyped, DoClear
<1>4. ASSUME NEW r \in Site PROVE SiteInv(r)'
  <2>1. /\ UNCHANGED <<news, listed, tasks, unsaved>>
        /\ crawler' = [crawler EXCEPT ![s] = "links"] /\ crawler[s] = "asleep"
    BY DEF DoClear
  <2>2. CASE r = s
    <3>1. HandInv(r)'
      BY <2>1, <2>2 DEF SiteInv, HandInv, TaskOK, Listed, CrawlTyped
    <3>2. AccountedInv(r)'
      <4>1. InHand(r)' = InHand(r)
        BY <2>1 DEF InHand
      <4>2. visited'[s] = {} \/ (visited' = visited /\ lost' = lost)
        BY DEF DoClear, CrawlTyped
      <4>3. ASSUME visited'[s] = {} PROVE AccountedInv(r)'
        BY <2>2, <4>3 DEF AccountedInv
      <4>4. ASSUME visited' = visited, lost' = lost PROVE AccountedInv(r)'
        BY <2>1, <4>1, <4>4 DEF SiteInv, AccountedInv
      <4> QED BY <4>2, <4>3, <4>4
    <3> QED BY <3>1, <3>2 DEF SiteInv
  <2>3. CASE r # s
    <3>1. visited'[r] = visited[r] /\ lost'[r] = lost[r] /\ crawler'[r] = crawler[r]
      BY <2>1, <2>3 DEF DoClear, CrawlTyped
    <3> QED BY <2>1, <3>1, SiteStays
  <2> QED BY <2>2, <2>3
<1> QED BY <1>2, <1>3, <1>4

LEMMA LinksKeep ==
  ASSUME TimeInv, CrawlInv, UNCHANGED <<scene, clock>>, NEW s \in Site, FetchLinkVec(s)
  PROVE  CrawlInv'
<1> USE DEF CrawlInv
<1>1. PICK skipped \in {{}} \cup (IF crawlFaults > 0 THEN {{i} : i \in DOMAIN Seeds[s]} ELSE {}) :
        LET runs == SplitVector(LinkVec(s, skipped), Threads(s))
        IN  /\ tasks' = [tasks EXCEPT ![s] = 
                                [i \in DOMAIN runs |-> [todo |-> runs[i], fetching |-> FALSE, got |-> <<>>]]]
            /\ crawlFaults' = crawlFaults - Cardinality(skipped)
  BY DEF FetchLinkVec
<1> DEFINE runs == SplitVector(LinkVec(s, skipped), Threads(s))
           fresh == [i \in DOMAIN runs |-> [todo |-> runs[i], fetching |-> FALSE, got |-> <<>>]]
<1>2. runs \in Seq(Seq(Url)) /\ \A i \in DOMAIN runs : ToSet(runs[i]) \subseteq listed
  <2>1. Threads(s) \in Nat \ {0}
    BY NewsCrawlConstantsOK DEF Threads
  <2> DEFINE links == LinkVec(s, skipped)
             n == Threads(s)
  <2>2. links \in Seq(Url) /\ ToSet(links) \subseteq listed
    BY LinksListed
  <2> HIDE DEF links, n
  <2>3. /\ SplitVector(links, n) \in Seq(Seq(Url))
        /\ \A i \in DOMAIN SplitVector(links, n) :
             ToSet(SplitVector(links, n)[i]) \subseteq ToSet(links)
    BY <2>1, <2>2, SplitRuns DEF n
  <2> QED BY <2>2, <2>3 DEF links, n
<1>3. tasks' = [tasks EXCEPT ![s] = fresh]
  BY <1>1
<1> HIDE DEF runs
<1>4. \A i \in DOMAIN runs : /\ runs[i] \in Seq(Url)
                             /\ fresh[i] = [todo |-> runs[i], fetching |-> FALSE, got |-> <<>>]
  BY <1>2
<1>5. fresh \in Seq(Tasks)
  <2>1. DOMAIN runs = 1..Len(runs) /\ Len(runs) \in Nat
    BY <1>2
  <2>2. \A i \in 1..Len(runs) : fresh[i] \in Tasks
    <3> HIDE DEF fresh
    <3>1. \A us \in Seq(Url) : [todo |-> us, fetching |-> FALSE, got |-> <<>>] \in Tasks
      BY DEF Tasks
    <3> QED BY <1>4, <2>1, <3>1
  <2>3. DOMAIN fresh = 1..Len(runs)
    BY <2>1
  <2>4. fresh = [i \in 1..Len(runs) |-> fresh[i]]
    BY <2>3
  <2> HIDE DEF fresh
  <2> QED BY <2>1, <2>2, <2>4
<1>6. \A i \in DOMAIN fresh : TaskOK(fresh[i])
  <2>1. \A i \in DOMAIN fresh : i \in DOMAIN runs
    OBVIOUS
  <2>2. \A us : [todo |-> us, fetching |-> FALSE, got |-> <<>>].fetching = FALSE
    OBVIOUS
  <2> HIDE DEF fresh
  <2>3. \A us : ToSet(us) \subseteq listed => TaskOK([todo |-> us, fetching |-> FALSE, got |-> <<>>])
    BY Elements DEF TaskOK, Listed
  <2> QED BY <1>2, <1>4, <2>1, <2>3
<1>7. crawlFaults' \in Nat
  <2>1. crawlFaults \in Nat
    BY DEF CrawlTyped
  <2>2. CASE skipped = {}
    BY <1>1, <2>1, <2>2, FS_EmptySet
  <2>3. CASE crawlFaults > 0 /\ \E i \in DOMAIN Seeds[s] : skipped = {i}
    <3>1. Cardinality(skipped) = 1
      BY <2>3, FS_Singleton
    <3> QED BY <1>1, <2>1, <2>3, <3>1
  <2> QED BY <1>1, <2>2, <2>3
<1> HIDE DEF fresh
<1>8. RowsInv'
  BY RowsStay DEF FetchLinkVec
<1>9. CrawlTyped'
  <2>1. tasks' \in [Site -> Seq(Tasks)]
    BY <1>3, <1>5 DEF CrawlTyped
  <2> QED BY <1>7, <2>1 DEF CrawlTyped, FetchLinkVec
<1>10. ASSUME NEW r \in Site PROVE SiteInv(r)'
  <2>1. UNCHANGED <<news, listed, visited, unsaved, lost>> /\ crawler[s] = "links"
        /\ crawler' = [crawler EXCEPT ![s] = "content"]
    BY DEF FetchLinkVec
  <2>2. CASE r = s
    <3>1. tasks[s] = <<>> /\ unsaved[s] = <<>> /\ unsaved'[s] = <<>>
      BY <2>1 DEF SiteInv, HandInv
    <3>2. tasks'[s] = fresh /\ crawler'[s] = "content"
      BY <1>3, <2>1 DEF CrawlTyped
    <3>3. HandInv(s)'
      <4>1. ASSUME NEW t \in DOMAIN tasks'[s] PROVE TaskOK(tasks[s][t])'
        <5>1. TaskOK(fresh[t]) /\ tasks'[s][t] = fresh[t]
          BY <1>6, <3>2
        <5> QED BY <2>1, <5>1 DEF TaskOK, Listed
      <4>2. Listed(unsaved[s])'
        BY <3>1, Elements DEF Listed
      <4> QED BY <3>1, <3>2, <4>1, <4>2 DEF HandInv
    <3>4. AccountedInv(s)'
      <4>1. InHand(s) = {}
        BY <3>1, Elements DEF InHand
      <4> QED BY <2>1, <4>1 DEF SiteInv, AccountedInv
    <3> QED BY <2>2, <3>3, <3>4 DEF SiteInv
  <2>3. CASE r # s
    <3>1. tasks'[r] = tasks[r] /\ crawler'[r] = crawler[r]
      BY <1>3, <2>1, <2>3 DEF CrawlTyped
    <3> QED BY <2>1, <3>1, SiteStays
  <2> QED BY <2>2, <2>3
<1> QED BY <1>8, <1>9, <1>10

\* One thread of a site moves on.
LEMMA ThreadMoves ==
  ASSUME CrawlTyped, NEW s \in Site, NEW t \in DOMAIN tasks[s], NEW task \in Tasks,
         tasks' = [tasks EXCEPT ![s][t] = task]
  PROVE  /\ tasks' \in [Site -> Seq(Tasks)]
         /\ DOMAIN tasks'[s] = DOMAIN tasks[s] /\ tasks'[s][t] = task
         /\ \A i \in DOMAIN tasks[s] : i # t => tasks'[s][i] = tasks[s][i]
         /\ \A r \in Site : r # s => tasks'[r] = tasks[r]
<1>1. tasks \in [Site -> Seq(Tasks)]
  BY DEF CrawlTyped
<1>2. tasks' = [tasks EXCEPT ![s] = [tasks[s] EXCEPT ![t] = task]]
  OBVIOUS
<1> DEFINE moved == [tasks[s] EXCEPT ![t] = task]
<1>3. moved \in Seq(Tasks)
  <2>1. tasks[s] \in Seq(Tasks)
    BY <1>1
  <2> QED BY <2>1
<1>4. /\ DOMAIN moved = DOMAIN tasks[s] /\ moved[t] = task
      /\ \A i \in DOMAIN tasks[s] : i # t => moved[i] = tasks[s][i]
  OBVIOUS
<1>5. tasks'[s] = moved /\ \A r \in Site : r # s => tasks'[r] = tasks[r]
  BY <1>1, <1>2
<1>6. tasks' \in [Site -> Seq(Tasks)]
  <2> HIDE DEF moved
  <2> QED BY <1>1, <1>2, <1>3 DEF moved
<1> QED BY <1>4, <1>5, <1>6

\* The first page a thread has left, and the pages after it, were listed.
LEMMA FirstPage ==
  ASSUME NEW task \in Tasks, TaskOK(task), task.todo # <<>>, listed' = listed
  PROVE  /\ Head(task.todo) \in listed /\ Head(task.todo) \in Url
         /\ Tail(task.todo) \in Seq(Url) /\ ToSet(Tail(task.todo)) \subseteq listed
<1>1. task.todo \in Seq(Url)
  BY DEF Tasks
<1> QED BY <1>1, Elements DEF TaskOK, Listed

LEMMA VisitedKeep ==
  ASSUME TimeInv, CrawlInv, UNCHANGED <<scene, clock>>,
         NEW s \in Site, NEW t \in DOMAIN tasks[s], CheckVisited(s, t)
  PROVE  CrawlInv'
<1> USE DEF CrawlInv
<1> DEFINE task == tasks[s][t]
           past == [task EXCEPT !.todo = Tail(@)]
           going == [task EXCEPT !.fetching = TRUE]
           next == IF Head(task.todo) \in visited[s] THEN past ELSE going
<1>1. task \in Tasks /\ TaskOK(task) /\ task.todo # <<>>
  BY DEF CheckVisited, CrawlTyped, SiteInv, HandInv
<1>2. /\ UNCHANGED <<news, listed, coming, visited, lastClear, crawler, started, unsaved,
                     crawlFaults, lost>>
      /\ crawler[s] = "content" /\ tasks' = [tasks EXCEPT ![s][t] = next]
  BY DEF CheckVisited
<1>3. next \in Tasks /\ TaskOK(next) /\ next.got = task.got
  <2>0. ~ task.fetching
    BY DEF CheckVisited
  <2> HIDE DEF task
  <2>1. /\ Head(task.todo) \in listed /\ Tail(task.todo) \in Seq(Url)
        /\ ToSet(Tail(task.todo)) \subseteq listed
    BY <1>1, <1>2, FirstPage
  <2>2. past \in Tasks /\ past.todo = Tail(task.todo) /\ past.got = task.got /\ past.fetching = task.fetching
    BY <1>1, <2>1 DEF Tasks
  <2>3. going \in Tasks /\ going.todo = task.todo /\ going.got = task.got
    BY <1>1 DEF Tasks
  <2> HIDE DEF past, going
  <2>4. TaskOK(past) /\ TaskOK(going)
    BY <1>1, <2>0, <2>1, <2>2, <2>3 DEF TaskOK, Listed
  <2> QED BY <2>2, <2>3, <2>4
<1> HIDE DEF next
<1>4. /\ tasks' \in [Site -> Seq(Tasks)]
      /\ DOMAIN tasks'[s] = DOMAIN tasks[s] /\ tasks'[s][t] = next
      /\ \A i \in DOMAIN tasks[s] : i # t => tasks'[s][i] = tasks[s][i]
      /\ \A r \in Site : r # s => tasks'[r] = tasks[r]
  <2> HIDE DEF task
  <2> QED BY <1>2, <1>3, ThreadMoves
<1>5. RowsInv'
  BY <1>2, RowsStay
<1>6. CrawlTyped'
  BY <1>2, <1>4 DEF CrawlTyped
<1>7. ASSUME NEW r \in Site PROVE SiteInv(r)'
  <2>1. CASE r = s
    <3>1. HandInv(s)'
      <4>1. ASSUME NEW i \in DOMAIN tasks'[s] PROVE TaskOK(tasks[s][i])'
        <5>1. TaskOK(tasks'[s][i])
          BY <1>3, <1>4 DEF SiteInv, HandInv
        <5> QED BY <1>2, <5>1 DEF TaskOK, Listed
      <4> QED BY <1>2, <4>1 DEF SiteInv, HandInv, Listed
    <3>2. AccountedInv(s)'
      <4>1. \A i \in DOMAIN tasks[s] : tasks'[s][i].got = tasks[s][i].got
        BY <1>3, <1>4
      <4>2. InHand(s)' = InHand(s)
        BY <1>2, <1>4, <4>1 DEF InHand
      <4> QED BY <1>2, <4>2 DEF SiteInv, AccountedInv
    <3> QED BY <2>1, <3>1, <3>2 DEF SiteInv
  <2>2. CASE r # s
    BY <1>2, <1>4, <2>2, SiteStays
  <2> QED BY <2>1, <2>2
<1> QED BY <1>5, <1>6, <1>7

LEMMA FetchKeeps ==
  ASSUME TimeInv, CrawlInv, UNCHANGED <<scene, clock>>,
         NEW s \in Site, NEW t \in DOMAIN tasks[s], FetchContent(s, t)
  PROVE  CrawlInv'
<1> USE DEF CrawlInv
<1> DEFINE task == tasks[s][t]
           u == Head(task.todo)
           next(ok) == [todo |-> Tail(task.todo), fetching |-> FALSE,
                        got |-> IF ok THEN Append(task.got, u) ELSE task.got]
<1>1. task \in Tasks /\ TaskOK(task) /\ task.todo # <<>> /\ task.got \in Seq(Url)
  <2>1. task \in Tasks /\ TaskOK(task) /\ task.fetching
    BY DEF FetchContent, CrawlTyped, SiteInv, HandInv
  <2> HIDE DEF task
  <2> QED BY <2>1 DEF TaskOK, Tasks
<1>2. PICK fault \in {0} \cup (IF crawlFaults > 0 THEN {1} ELSE {}) :
        /\ tasks' = [tasks EXCEPT ![s][t] = next(FetchNewsContent(u, fault))]
        /\ visited' = [visited EXCEPT ![s] = VisitedAfter(@, u, FetchNewsContent(u, fault))]
        /\ crawlFaults' = crawlFaults - fault
  BY DEF FetchContent
<1>3. /\ UNCHANGED <<news, listed, coming, lastClear, crawler, started, unsaved, lost>>
      /\ crawler[s] = "content"
  BY DEF FetchContent
<1> DEFINE ok == FetchNewsContent(u, fault)
           after == next(ok)
<1>4. u \in Url /\ u \in listed /\ Tail(task.todo) \in Seq(Url) /\ ToSet(Tail(task.todo)) \subseteq listed
  <2> HIDE DEF task
  <2> QED BY <1>1, <1>3, FirstPage
<1>5. /\ after \in Tasks /\ TaskOK(after)
      /\ ToSet(task.got) \subseteq ToSet(after.got) /\ (ok => u \in ToSet(after.got))
  <2>0. ok \in BOOLEAN
    BY <1>4, NewsCrawlConstantsOK DEF FetchNewsContent
  <2> HIDE DEF task, u, ok
  <2>1. Append(task.got, u) \in Seq(Url) /\ ToSet(Append(task.got, u)) = ToSet(task.got) \cup {u}
    BY <1>1, <1>4, Elements
  <2>2. after.got \in Seq(Url) /\ ToSet(after.got) = IF ok THEN ToSet(task.got) \cup {u} ELSE ToSet(task.got)
    BY <1>1, <2>1
  <2>3. after.todo = Tail(task.todo) /\ after.fetching = FALSE
    OBVIOUS
  <2>4. after \in Tasks
    BY <1>4, <2>2 DEF Tasks
  <2> HIDE DEF after
  <2>5. TaskOK(after)
    BY <1>1, <1>4, <2>2, <2>3 DEF TaskOK, Listed
  <2> QED BY <2>2, <2>4, <2>5
<1>6. tasks' = [tasks EXCEPT ![s][t] = after]
  BY <1>2
<1> HIDE DEF after, ok
<1>7. /\ tasks' \in [Site -> Seq(Tasks)]
      /\ DOMAIN tasks'[s] = DOMAIN tasks[s] /\ tasks'[s][t] = after
      /\ \A i \in DOMAIN tasks[s] : i # t => tasks'[s][i] = tasks[s][i]
      /\ \A r \in Site : r # s => tasks'[r] = tasks[r]
  <2> HIDE DEF task
  <2> QED BY <1>5, <1>6, ThreadMoves
<1>8. /\ visited' \in [Site -> SUBSET Url] /\ \A r \in Site : r # s => visited'[r] = visited[r]
      /\ visited'[s] = IF ok THEN visited[s] \cup {u} ELSE visited[s]
  <2> HIDE DEF u
  <2>1. visited' = [visited EXCEPT ![s] = VisitedAfter(@, u, ok)]
    BY <1>2 DEF ok
  <2> QED BY <1>4, <2>1 DEF CrawlTyped, VisitedAfter
<1>9. crawlFaults' \in Nat
  BY <1>2 DEF CrawlTyped
<1>10. RowsInv'
  BY <1>3, RowsStay
<1>11. CrawlTyped'
  BY <1>3, <1>7, <1>8, <1>9 DEF CrawlTyped
<1>12. ASSUME NEW r \in Site PROVE SiteInv(r)'
  <2>1. CASE r = s
    <3>1. HandInv(s)'
      <4>1. ASSUME NEW i \in DOMAIN tasks'[s] PROVE TaskOK(tasks[s][i])'
        <5>1. TaskOK(tasks'[s][i])
          BY <1>5, <1>7 DEF SiteInv, HandInv
        <5> QED BY <1>3, <5>1 DEF TaskOK, Listed
      <4> QED BY <1>3, <4>1 DEF SiteInv, HandInv, Listed
    <3>2. AccountedInv(s)'
      <4>1. \A i \in DOMAIN tasks[s] : ToSet(tasks[s][i].got) \subseteq ToSet(tasks'[s][i].got)
        BY <1>5, <1>7
      <4>2. InHand(s) \subseteq InHand(s)'
        <5>1. \A i \in DOMAIN tasks[s] : i \in DOMAIN tasks'[s]
          BY <1>7
        <5> QED BY <1>3, <4>1, <5>1 DEF InHand
      <4>3. ok => u \in InHand(s)'
        <5> HIDE DEF u
        <5> QED BY <1>5, <1>7 DEF InHand
      <4> HIDE DEF u
      <4> QED BY <1>3, <1>8, <4>2, <4>3 DEF SiteInv, AccountedInv
    <3> QED BY <2>1, <3>1, <3>2 DEF SiteInv
  <2>2. CASE r # s
    BY <1>3, <1>7, <1>8, <2>2, SiteStays
  <2> QED BY <2>1, <2>2
<1> QED BY <1>10, <1>11, <1>12

\* What the threads have fetched, merged, and what of it can be parsed.
LEMMA FetchedPages ==
  ASSUME CrawlTyped, NEW s \in Site, HandInv(s)
  PROVE  LET content == FlattenSeq([t \in DOMAIN tasks[s] |-> tasks[s][t].got])
             infos == Only(content, {u \in Url : Parse(s, Page[u])})
         IN  /\ infos \in Seq(Url) /\ ToSet(infos) \subseteq listed
             /\ \A t \in DOMAIN tasks[s] : \A u \in ToSet(tasks[s][t].got) :
                  Parse(s, Page[u]) => u \in ToSet(infos)
<1> DEFINE gots == [t \in DOMAIN tasks[s] |-> tasks[s][t].got]
           content == FlattenSeq(gots)
           keep == {u \in Url : Parse(s, Page[u])}
           infos == Only(content, keep)
<1>1. tasks[s] \in Seq(Tasks)
  BY DEF CrawlTyped
<1>2. \A t \in DOMAIN tasks[s] : tasks[s][t].got \in Seq(Url)
  <2>1. \A t \in DOMAIN tasks[s] : tasks[s][t] \in Tasks
    BY <1>1
  <2>2. \A task \in Tasks : task.got \in Seq(Url)
    BY DEF Tasks
  <2> QED BY <2>1, <2>2
<1>3. gots \in Seq(Seq(Url)) /\ DOMAIN gots = DOMAIN tasks[s]
  <2>1. DOMAIN tasks[s] = 1..Len(tasks[s]) /\ Len(tasks[s]) \in Nat
    BY <1>1
  <2> QED BY <1>2, <2>1
<1>4. \A t \in DOMAIN tasks[s] : ToSet(gots[t]) \subseteq listed /\ gots[t] = tasks[s][t].got
  BY DEF HandInv, TaskOK, Listed
<1> HIDE DEF gots
<1>5. content \in Seq(Url) /\ ToSet(content) = UNION {ToSet(gots[t]) : t \in DOMAIN gots}
  BY <1>3, Merged
<1>6. infos \in Seq(Url) /\ ToSet(infos) = ToSet(content) \cap keep
  <2> HIDE DEF content, keep
  <2> QED BY <1>5, OnlyThose
<1>7. ToSet(infos) \subseteq listed
  <2> HIDE DEF content, keep, infos
  <2> QED BY <1>3, <1>4, <1>5, <1>6
<1>8. \A t \in DOMAIN tasks[s] : \A u \in ToSet(tasks[s][t].got) :
        Parse(s, Page[u]) => u \in ToSet(infos)
  <2> TAKE t \in DOMAIN tasks[s]
  <2> TAKE u \in ToSet(tasks[s][t].got)
  <2>1. u \in ToSet(content)
    <3> HIDE DEF content
    <3> QED BY <1>3, <1>4, <1>5
  <2>2. u \in Url
    BY <1>2, Elements
  <2>3. Parse(s, Page[u]) => u \in keep
    BY <2>2
  <2> HIDE DEF content, keep, infos
  <2> QED BY <1>6, <2>1, <2>3
<1> HIDE DEF infos
<1> QED BY <1>6, <1>7, <1>8 DEF infos, gots

LEMMA ParseKeeps ==
  ASSUME TimeInv, CrawlInv, UNCHANGED <<scene, clock>>, NEW s \in Site, ParseVec(s)
  PROVE  CrawlInv'
<1> USE DEF CrawlInv
<1> DEFINE infos == Only(FlattenSeq([t \in DOMAIN tasks[s] |-> tasks[s][t].got]),
                         {u \in Url : Parse(s, Page[u])})
<1>1. /\ infos \in Seq(Url) /\ ToSet(infos) \subseteq listed
      /\ \A t \in DOMAIN tasks[s] : \A u \in ToSet(tasks[s][t].got) :
           Parse(s, Page[u]) => u \in ToSet(infos)
  BY FetchedPages DEF SiteInv
<1>2. /\ UNCHANGED <<news, listed, coming, visited, lastClear, started>>
      /\ crawler[s] = "content" /\ tasks' = [tasks EXCEPT ![s] = <<>>]
      /\ \/ /\ crawler' = [crawler EXCEPT ![s] = "save"]
            /\ unsaved' = [unsaved EXCEPT ![s] = infos]
            /\ UNCHANGED <<crawlFaults, lost>>
         \/ /\ crawlFaults > 0
            /\ crawlFaults' = crawlFaults - 1
            /\ crawler' = [crawler EXCEPT ![s] = "asleep"]
            /\ lost' = [lost EXCEPT ![s] = @ \cup ToSet(infos)]
            /\ UNCHANGED unsaved
  BY DEF ParseVec
<1> HIDE DEF infos
<1>3. unsaved[s] = <<>> /\ \A t \in DOMAIN tasks[s] : TaskOK(tasks[s][t])
  BY <1>2 DEF SiteInv, HandInv
<1>4. listed \subseteq Url
  BY DEF RowsInv
<1>5. RowsInv'
  BY <1>2, RowsStay
<1>6. tasks' \in [Site -> Seq(Tasks)] /\ tasks'[s] = <<>> /\ \A r \in Site : r # s => tasks'[r] = tasks[r]
  <2>1. <<>> \in Seq(Tasks)
    OBVIOUS
  <2> QED BY <1>2, <2>1 DEF CrawlTyped
<1>7. CrawlTyped'
  <2>1. unsaved' \in [Site -> Seq(Url)]
    BY <1>1, <1>2 DEF CrawlTyped
  <2>2. lost' \in [Site -> SUBSET Url]
    BY <1>1, <1>2, <1>4 DEF CrawlTyped
  <2>3. crawler' \in [Site -> {"off", "asleep", "links", "content", "save"}]
    BY <1>2 DEF CrawlTyped
  <2>4. crawlFaults' \in Nat
    BY <1>2 DEF CrawlTyped
  <2> QED BY <1>2, <1>6, <2>1, <2>2, <2>3, <2>4 DEF CrawlTyped
<1>8. ASSUME NEW r \in Site PROVE SiteInv(r)'
  <2>1. CASE r = s
    <3>1. \/ crawler'[s] = "save" /\ unsaved'[s] = infos /\ lost'[s] = lost[s]
          \/ crawler'[s] = "asleep" /\ unsaved'[s] = <<>> /\ lost'[s] = lost[s] \cup ToSet(infos)
      BY <1>2, <1>3 DEF CrawlTyped
    <3>2. HandInv(s)'
      <4>1. Listed(unsaved[s])'
        BY <1>1, <1>2, <3>1, Elements DEF Listed
      <4>2. DOMAIN <<>> = {}
        OBVIOUS
      <4> QED BY <1>6, <3>1, <4>1, <4>2 DEF HandInv
    <3>3. AccountedInv(s)'
      <4> SUFFICES ASSUME NEW u \in visited[s], Parse(s, Page[u])
                   PROVE  u \in (DOMAIN news \cup InHand(s) \cup lost[s])'
        BY <1>2 DEF AccountedInv
      <4>1. u \in DOMAIN news \cup InHand(s) \cup lost[s]
        BY DEF SiteInv, AccountedInv
      <4>2. u \in InHand(s) => u \in ToSet(infos)
        BY <1>1, <1>3, Elements DEF InHand
      <4>3. ToSet(infos) \subseteq InHand(s)' \cup lost'[s]
        <5>1. ToSet(unsaved'[s]) \subseteq InHand(s)'
          <6> DEFINE held == UNION {ToSet(tasks[s][t].got) : t \in DOMAIN tasks[s]}
          <6>1. InHand(s)' = held' \cup ToSet(unsaved'[s])
            BY DEF InHand
          <6> HIDE DEF held
          <6> QED BY <6>1
        <5> QED BY <3>1, <5>1
      <4> QED BY <1>2, <3>1, <4>1, <4>2, <4>3
    <3> QED BY <2>1, <3>2, <3>3 DEF SiteInv
  <2>2. CASE r # s
    <3>1. unsaved'[r] = unsaved[r] /\ lost'[r] = lost[r] /\ crawler'[r] = crawler[r]
      BY <1>2, <2>2 DEF CrawlTyped
    <3> QED BY <1>2, <1>6, <2>2, <3>1, SiteStays
  <2> QED BY <2>1, <2>2
<1> QED BY <1>5, <1>7, <1>8

LEMMA SaveKeeps ==
  ASSUME TimeInv, CrawlInv, UNCHANGED <<scene, clock>>, NEW s \in Site, SaveNews(s)
  PROVE  CrawlInv'
<1> USE DEF CrawlInv
<1> DEFINE u == Head(unsaved[s])
<1>1. /\ UNCHANGED <<listed, coming, visited, lastClear, crawler, started, tasks>>
      /\ crawler[s] = "save" /\ unsaved[s] # <<>>
      /\ unsaved' = [unsaved EXCEPT ![s] = Tail(@)]
      /\ \/ /\ news' = [v \in DOMAIN news \cup {u} |->
                 IF v \in DOMAIN news THEN news[v] ELSE NewsInfo(s, Page[u])]
            /\ UNCHANGED <<crawlFaults, lost>>
         \/ /\ crawlFaults > 0
            /\ crawlFaults' = crawlFaults - 1
            /\ lost' = [lost EXCEPT ![s] = @ \cup {u}]
            /\ UNCHANGED news
  BY DEF SaveNews
<1>2. unsaved[s] \in Seq(Url) /\ clock \in Nat
  BY NowIsNatural DEF CrawlTyped
<1>3. /\ u \in Url /\ u \in listed /\ Tail(unsaved[s]) \in Seq(Url)
      /\ ToSet(unsaved[s]) = {u} \cup ToSet(Tail(unsaved[s]))
      /\ ToSet(Tail(unsaved[s])) \subseteq listed
  <2>1. ToSet(unsaved[s]) \subseteq listed
    BY DEF SiteInv, HandInv, Listed
  <2> QED BY <1>1, <1>2, <2>1, Elements
<1> HIDE DEF u
<1>4. RowsInv'
  <2>1. CASE UNCHANGED news
    BY <1>1, <2>1, RowsStay
  <2>2. CASE news' = [v \in DOMAIN news \cup {u} |->
                 IF v \in DOMAIN news THEN news[v] ELSE NewsInfo(s, Page[u])]
    <3>1. DOMAIN news' = DOMAIN news \cup {u} /\ news' = [v \in DOMAIN news' |-> news'[v]]
      BY <2>2
    <3>2. ASSUME NEW v \in DOMAIN news' PROVE RowOK(v, news[v])'
      <4>1. RowOK(v, news'[v])
        <5>1. CASE v \in DOMAIN news
          BY <2>2, <5>1 DEF RowsInv
        <5>2. CASE v \notin DOMAIN news
          BY <1>2, <1>3, <2>2, <3>1, <5>2, NewRow
        <5> QED BY <5>1, <5>2
      <4> QED BY <4>1 DEF RowOK
    <3> QED BY <1>1, <1>3, <3>1, <3>2 DEF RowsInv
  <2> QED BY <1>1, <2>1, <2>2
<1>5. DOMAIN news \subseteq DOMAIN news' /\ (u \in DOMAIN news' \/ u \in lost'[s])
  BY <1>1, <1>3 DEF CrawlTyped
<1>6. /\ unsaved' \in [Site -> Seq(Url)] /\ lost' \in [Site -> SUBSET Url] /\ crawlFaults' \in Nat
      /\ unsaved'[s] = Tail(unsaved[s]) /\ lost[s] \subseteq lost'[s]
      /\ \A r \in Site : r # s => unsaved'[r] = unsaved[r] /\ lost'[r] = lost[r]
  <2>1. unsaved' \in [Site -> Seq(Url)] /\ unsaved'[s] = Tail(unsaved[s])
        /\ \A r \in Site : r # s => unsaved'[r] = unsaved[r]
    BY <1>1, <1>3 DEF CrawlTyped
  <2>2. lost' \in [Site -> SUBSET Url] /\ lost[s] \subseteq lost'[s]
        /\ \A r \in Site : r # s => lost'[r] = lost[r]
    BY <1>1, <1>3 DEF CrawlTyped
  <2>3. crawlFaults' \in Nat
    BY <1>1 DEF CrawlTyped
  <2> QED BY <2>1, <2>2, <2>3
<1>7. CrawlTyped'
  BY <1>1, <1>6 DEF CrawlTyped
<1>8. ASSUME NEW r \in Site PROVE SiteInv(r)'
  <2>1. CASE r = s
    <3>1. HandInv(s)'
      BY <1>1, <1>3, <1>6 DEF SiteInv, HandInv, TaskOK, Listed
    <3>2. AccountedInv(s)'
      <4> SUFFICES ASSUME NEW v \in visited[s], Parse(s, Page[v])
                   PROVE  v \in (DOMAIN news \cup InHand(s) \cup lost[s])'
        BY <1>1 DEF AccountedInv
      <4>1. v \in DOMAIN news \cup InHand(s) \cup lost[s]
        BY DEF SiteInv, AccountedInv
      <4>2. InHand(s) \subseteq InHand(s)' \cup {u}
        <5> DEFINE held == UNION {ToSet(tasks[s][t].got) : t \in DOMAIN tasks[s]}
        <5>1. InHand(s) = held \cup ToSet(unsaved[s])
          BY DEF InHand
        <5>2. InHand(s)' = held \cup ToSet(Tail(unsaved[s]))
          BY <1>1, <1>6 DEF InHand
        <5> HIDE DEF held
        <5> QED BY <1>3, <5>1, <5>2
      <4> QED BY <1>5, <1>6, <4>1, <4>2
    <3> QED BY <2>1, <3>1, <3>2 DEF SiteInv
  <2>2. CASE r # s
    BY <1>1, <1>5, <1>6, <2>2, SiteStays
  <2> QED BY <2>1, <2>2
<1> QED BY <1>4, <1>7, <1>8

LEMMA EndKeeps ==
  ASSUME TimeInv, CrawlInv, UNCHANGED <<scene, clock>>, NEW s \in Site, PassEnds(s)
  PROVE  CrawlInv'
<1> USE DEF CrawlInv
<1>1. /\ UNCHANGED <<news, listed, coming, visited, lastClear, started, tasks, unsaved,
                     crawlFaults, lost>>
      /\ crawler[s] = "save" /\ unsaved[s] = <<>> /\ crawler' = [crawler EXCEPT ![s] = "asleep"]
  BY DEF PassEnds
<1>2. RowsInv'
  BY <1>1, RowsStay
<1>3. CrawlTyped'
  BY <1>1 DEF CrawlTyped
<1>4. ASSUME NEW r \in Site PROVE SiteInv(r)'
  <2>1. CASE r = s
    <3>1. HandInv(s)'
      BY <1>1 DEF SiteInv, HandInv, TaskOK, Listed, CrawlTyped
    <3>2. AccountedInv(s)'
      BY <1>1 DEF SiteInv, AccountedInv, InHand
    <3> QED BY <2>1, <3>1, <3>2 DEF SiteInv
  <2>2. CASE r # s
    <3>1. crawler'[r] = crawler[r]
      BY <1>1, <2>2 DEF CrawlTyped
    <3> QED BY <1>1, <3>1, SiteStays
  <2> QED BY <2>1, <2>2
<1> QED BY <1>2, <1>3, <1>4

LEMMA RestartKeeps ==
  ASSUME TimeInv, CrawlInv, UNCHANGED <<scene, clock>>, CrawlerRestart
  PROVE  CrawlInv'
<1> USE DEF CrawlInv
<1>1. RowsInv'
  BY RowsStay DEF CrawlerRestart
<1>2. CrawlTyped'
  BY DEF CrawlTyped, CrawlerRestart
<1>3. ASSUME NEW r \in Site PROVE SiteInv(r)'
  <2>1. visited'[r] = {} /\ tasks'[r] = <<>> /\ unsaved'[r] = <<>> /\ DOMAIN <<>> = {}
    BY DEF CrawlerRestart
  <2>2. HandInv(r)'
    BY <2>1, Elements DEF HandInv, Listed
  <2>3. AccountedInv(r)'
    BY <2>1 DEF AccountedInv
  <2> QED BY <2>2, <2>3 DEF SiteInv
<1> QED BY <1>1, <1>2, <1>3

LEMMA PublishKeeps ==
  ASSUME TimeInv, CrawlInv, UNCHANGED <<scene, clock>>, Publish
  PROVE  CrawlInv'
<1> USE DEF CrawlInv
<1>1. PICK u \in coming : /\ listed' = listed \cup {u} /\ coming' = coming \ {u}
                          /\ UNCHANGED <<news, crawlers, crawlFaults>>
  BY DEF Publish
<1>2. RowsInv'
  BY <1>1 DEF RowsInv, RowOK
<1>3. CrawlTyped'
  BY <1>1 DEF CrawlTyped, crawlers
<1>4. ASSUME NEW r \in Site PROVE SiteInv(r)'
  BY <1>1, SiteStays DEF crawlers
<1> QED BY <1>2, <1>3, <1>4

LEMMA CrawlKeeps ==
  ASSUME TimeInv, CrawlInv, UNCHANGED <<scene, clock>>, CrawlNext
  PROVE  CrawlInv'
BY ClearKeeps, LinksKeep, ParseKeeps, SaveKeeps, EndKeeps, VisitedKeep, FetchKeeps,
   RestartKeeps, PublishKeeps DEF CrawlNext

-----------------------------------------------------------------------------
(***************************************************************************)
(* The ranker's writes                                                     *)
(***************************************************************************)
\* What WriteDoc makes of a row: another score, and it is new only with the score.
LEMMA RescoredRow ==
  ASSUME clock \in Nat, NEW u, NEW r, RowOK(u, r), NEW score, IsFiniteSet(score.hit)
  PROVE  /\ RowOK(u, Rescored(r, score)) /\ Rescored(r, score).score = score
         /\ Rescored(r, score).updated \in {r.updated, clock}
<1>1. CASE r.score = score
  <2>1. Rescored(r, score) = r
    BY <1>1 DEF Rescored
  <2> QED BY <1>1, <2>1
<1>2. CASE r.score # score
  <2> DEFINE n == Rescored(r, score)
  <2>1. n = [r EXCEPT !.score = score, !.updated = clock]
    BY <1>2 DEF Rescored
  <2>2. r = [category |-> r.category, published |-> r.published, source |-> r.source,
             use |-> r.use, score |-> r.score, updated |-> r.updated]
    BY DEF RowOK
  <2> HIDE DEF n
  <2>3. n = [category |-> r.category, published |-> r.published, source |-> r.source,
             use |-> r.use, score |-> score, updated |-> clock]
    BY ONLY <2>1, <2>2
  <2>4. /\ n.category = r.category /\ n.published = r.published /\ n.source = r.source
        /\ n.use = r.use /\ n.score = score /\ n.updated = clock
    BY <2>3
  <2>5. n = [category |-> n.category, published |-> n.published, source |-> n.source,
             use |-> n.use, score |-> n.score, updated |-> n.updated]
    BY <2>3, <2>4
  <2>6. n.updated \in 0..clock
    BY <2>4
  <2>7. RowOK(u, n)
    BY <2>4, <2>5, <2>6, Zenon DEF RowOK
  <2> QED BY <2>4, <2>7 DEF n
<1> QED BY <1>1, <1>2

\* A write leaves the crawlers what they need.
LEMMA WriteKeepsCrawl ==
  ASSUME TimeInv, CrawlInv, RankTyped, WriteDoc,
         UNCHANGED <<scene, clock, listed, coming, crawlers, crawlFaults>>
  PROVE  /\ CrawlInv'
         /\ DOMAIN news' = DOMAIN news
         /\ \A u \in DOMAIN news : news'[u].updated \in {news[u].updated, clock}
<1> USE DEF CrawlInv
<1>1. PICK u \in results :
        \/ news' = [news EXCEPT ![u] = Rescored(@, Score(u, hotTerms))]
        \/ UNCHANGED news
  BY DEF WriteDoc
<1>2. u \in DOMAIN news /\ u \in Url /\ clock \in Nat
  BY NowIsNatural DEF RankTyped, RowsInv
<1>3. IsFiniteSet(Score(u, hotTerms).hit)
  <2>1. IsFiniteSet(Page[u].content)
    BY <1>2, NewsRankConstantsOK
  <2>2. Score(u, hotTerms).hit = Page[u].content \cap DOMAIN hotTerms
    BY DEF Score
  <2> QED BY <2>1, <2>2, FS_Intersection
<1> DEFINE row == Rescored(news[u], Score(u, hotTerms))
<1>4. RowOK(u, row) /\ row.updated \in {news[u].updated, clock}
  <2>1. RowOK(u, news[u])
    BY <1>2 DEF RowsInv
  <2> QED BY <1>2, <1>3, <2>1, RescoredRow
<1> HIDE DEF row
<1>5. /\ DOMAIN news' = DOMAIN news /\ (news'[u] = row \/ news'[u] = news[u])
      /\ \A v \in DOMAIN news : v # u => news'[v] = news[v]
      /\ news' = [v \in DOMAIN news' |-> news'[v]]
  BY <1>1, <1>2 DEF row, RowsInv
<1>6. RowsInv'
  <2>1. ASSUME NEW v \in DOMAIN news PROVE RowOK(v, news[v])'
    <3>1. RowOK(v, news'[v])
      BY <1>4, <1>5 DEF RowsInv
    <3> QED BY <3>1 DEF RowOK
  <2> QED BY <1>5, <2>1 DEF RowsInv
<1>7. CrawlTyped'
  BY DEF CrawlTyped, crawlers
<1>8. ASSUME NEW r \in Site PROVE SiteInv(r)'
  BY <1>5, SiteStays DEF crawlers
<1> QED BY <1>4, <1>5, <1>6, <1>7, <1>8

-----------------------------------------------------------------------------
(***************************************************************************)
(* The hot terms                                                           *)
(***************************************************************************)
\* Among finitely many there is one of the largest number.
LEMMA LargestOf ==
  ASSUME NEW S, IsFiniteSet(S), S # {}, NEW f, \A x \in S : f[x] \in Nat
  PROVE  \E m \in S : \A x \in S : f[m] >= f[x]
<1> DEFINE N == Cardinality(S)
           Has(A) == \E m \in A : \A x \in A : f[m] >= f[x]
           T == {k \in 0..N : \A A \in SUBSET S : A # {} /\ Cardinality(A) <= k => Has(A)}
<1>1. N \in Nat
  BY FS_CardinalityType
<1>2. \A A \in SUBSET S : IsFiniteSet(A) /\ Cardinality(A) \in Nat /\ (Cardinality(A) = 0 <=> A = {})
  BY FS_Subset, FS_CardinalityType, FS_EmptySet
<1> HIDE DEF Has
<1>3. 0 \in T
  BY <1>1, <1>2
<1>4. ASSUME NEW k \in 1..N, k - 1 \in T PROVE k \in T
  <2> SUFFICES ASSUME NEW A \in SUBSET S, A # {}, Cardinality(A) <= k PROVE Has(A)
    BY <1>1
  <2>1. PICK x \in A : TRUE
    OBVIOUS
  <2>2. Cardinality(A \ {x}) = Cardinality(A) - 1
    BY <1>2, <2>1, FS_RemoveElement
  <2>3. A \ {x} \in SUBSET S /\ Cardinality(A \ {x}) <= k - 1
    BY <1>2, <2>2
  <2>4. CASE A \ {x} = {}
    <3>1. A = {x}
      BY <2>4
    <3> QED BY <3>1 DEF Has
  <2>5. CASE A \ {x} # {}
    <3>1. Has(A \ {x})
      BY <1>4, <2>3, <2>5
    <3>2. PICK y \in A \ {x} : \A z \in A \ {x} : f[y] >= f[z]
      BY <3>1 DEF Has
    <3>3. \A z \in A : f[z] \in Nat
      OBVIOUS
    <3>4. CASE f[x] >= f[y]
      <4>1. \A z \in A : f[x] >= f[z]
        BY <3>2, <3>3, <3>4
      <4> QED BY <4>1 DEF Has
    <3>5. CASE ~ f[x] >= f[y]
      <4>1. \A z \in A : f[y] >= f[z]
        BY <3>2, <3>3, <3>5
      <4> QED BY <4>1 DEF Has
    <3> QED BY <3>4, <3>5
  <2> QED BY <2>4, <2>5
<1>5. N \in T
  <2> HIDE DEF T, N
  <2>1. \A k \in 1..N : k - 1 \in T => k \in T
    BY <1>4
  <2> QED BY ONLY <1>1, <1>3, <2>1, Upward
<1>6. Has(S)
  BY <1>1, <1>5
<1> QED BY <1>6 DEF Has

\* Of finitely many, any number can be taken that are the most frequent.
LEMMA MostFrequent ==
  ASSUME NEW D, IsFiniteSet(D), NEW f, \A x \in D : f[x] \in Nat,
         NEW n \in Nat, n <= Cardinality(D)
  PROVE  \E ts \in SUBSET D : Cardinality(ts) = n /\ \A t \in ts, r \in D \ ts : f[t] >= f[r]
<1> DEFINE Top(ts) == \A t \in ts, r \in D \ ts : f[t] >= f[r]
           T == {k \in 0..n : \E ts \in SUBSET D : Cardinality(ts) = k /\ Top(ts)}
<1>1. 0 \in T
  <2>1. Top({}) /\ Cardinality({}) = 0
    BY FS_EmptySet
  <2> HIDE DEF Top
  <2> QED BY <2>1
<1>2. ASSUME NEW k \in 1..n, k - 1 \in T PROVE k \in T
  <2>1. PICK ts \in SUBSET D : Cardinality(ts) = k - 1 /\ Top(ts)
    BY <1>2
  <2>2. IsFiniteSet(ts) /\ IsFiniteSet(D \ ts)
    BY FS_Subset
  <2>3. D \ ts # {}
    <3>1. ASSUME D \ ts = {} PROVE FALSE
      <4>1. ts = D
        BY <3>1
      <4> QED BY <2>1, <4>1
    <3> QED BY <3>1
  <2>4. PICK m \in D \ ts : \A r \in D \ ts : f[m] >= f[r]
    BY <2>2, <2>3, LargestOf
  <2>5. Cardinality(ts \cup {m}) = k
    <3>1. Cardinality(ts \cup {m}) = Cardinality(ts) + 1
      BY <2>2, FS_AddElement
    <3> QED BY <2>1, <3>1
  <2>6. Top(ts \cup {m})
    BY <2>1, <2>4
  <2> HIDE DEF Top
  <2> QED BY <2>5, <2>6
<1>3. n \in T
  <2> HIDE DEF T
  <2>1. \A k \in 1..n : k - 1 \in T => k \in T
    BY <1>2
  <2> QED BY ONLY <1>1, <2>1, Upward, n \in Nat
<1> QED BY <1>3

\* TopnTerms: as many terms of the titles as it may take, none less frequent than one left out.
LEMMA TopTerms ==
  ASSUME NEW ds \in SUBSET Url
  PROVE  LET freq == TermFreq(ds)
             terms == TopnTerms(freq, MaxTermCount)
         IN  /\ DOMAIN terms \subseteq UNION {Page[u].title : u \in ds}
             /\ Cardinality(DOMAIN terms) = IF MaxTermCount < Cardinality(DOMAIN freq)
                                              THEN MaxTermCount ELSE Cardinality(DOMAIN freq)
             /\ \A t \in DOMAIN terms, r \in DOMAIN freq \ DOMAIN terms : freq[t] >= freq[r]
<1> DEFINE titles == {Page[u].title : u \in ds}
           freq == TermFreq(ds)
           D == DOMAIN freq
           k == IF MaxTermCount < Cardinality(D) THEN MaxTermCount ELSE Cardinality(D)
           Fit(ts) == Cardinality(ts) = k /\ \A t \in ts, r \in D \ ts : freq[t] >= freq[r]
           top == CHOOSE ts \in SUBSET D : Fit(ts)
<1>1. IsFiniteSet(ds)
  BY NewsCrawlConstantsOK, FS_Subset
<1>2. IsFiniteSet(titles)
  <2>1. [u \in ds |-> Page[u].title] \in Surjection(ds, titles)
    BY DEF Surjection
  <2> HIDE DEF titles
  <2> QED BY <1>1, <2>1, FS_Surjection
<1>3. D = UNION titles
  BY DEF TermFreq
<1>4. IsFiniteSet(D)
  <2>1. \A ts \in titles : IsFiniteSet(ts)
    BY NewsRankConstantsOK
  <2> HIDE DEF titles, D
  <2> QED BY <1>2, <1>3, <2>1, FS_UNION
<1>5. \A t \in D : freq[t] \in Nat
  <2> TAKE t \in D
  <2>1. freq[t] = Cardinality({u \in ds : t \in Page[u].title})
    BY DEF TermFreq
  <2>2. IsFiniteSet({u \in ds : t \in Page[u].title})
    BY <1>1, FS_Subset
  <2> QED BY <2>1, <2>2, FS_CardinalityType
<1>6. Cardinality(D) \in Nat
  <2> HIDE DEF D
  <2> QED BY <1>4, FS_CardinalityType
<1>7. k \in Nat /\ k <= Cardinality(D)
  <2> HIDE DEF D
  <2> QED BY <1>6, NewsRankConstantsOK
<1>8. \E ts \in SUBSET D : Fit(ts)
  <2> HIDE DEF D, k, freq
  <2> QED BY <1>4, <1>5, <1>7, MostFrequent
<1>9. TopnTerms(freq, MaxTermCount) = [t \in top |-> freq[t]]
  BY DEF TopnTerms
<1>10. top \in SUBSET D /\ Fit(top)
  <2> HIDE DEF D, Fit
  <2> QED BY <1>8
<1> HIDE DEF top, freq
<1> QED BY <1>3, <1>9, <1>10 DEF freq

-----------------------------------------------------------------------------
(***************************************************************************)
(* The steps of the ranker                                                 *)
(***************************************************************************)
LEMMA DaysInOrder ==
  ASSUME NEW a \in Nat, NEW b \in Nat, a <= b
  PROVE  Day(a) <= Day(b) /\ Day(a) \in Nat /\ Day(b) \in Nat
<1>1. DayLength \in Nat /\ DayLength > 0
  BY NewsCrawlConstantsOK
<1> DEFINE q == a \div DayLength
           p == b \div DayLength
<1>2. /\ q \in Nat /\ p \in Nat /\ (a % DayLength) \in 0..(DayLength - 1)
      /\ (b % DayLength) \in 0..(DayLength - 1)
      /\ a = DayLength * q + (a % DayLength) /\ b = DayLength * p + (b % DayLength)
  <2>1. \A c \in Nat, n \in Nat \ {0} : /\ (c \div n) \in Nat /\ (c % n) \in 0..(n - 1)
                                        /\ c = n * (c \div n) + (c % n)
    OBVIOUS
  <2> QED BY <1>1, <2>1
<1> HIDE DEF q, p
<1>3. ASSUME q > p PROVE FALSE
  <2>1. q - p - 1 \in Nat
    BY <1>2, <1>3
  <2>2. DayLength * q = DayLength * p + DayLength + DayLength * (q - p - 1)
    BY <1>1, <1>2
  <2>3. DayLength * (q - p - 1) \in Nat /\ DayLength * p \in Nat /\ DayLength * q \in Nat
    BY <1>1, <1>2, <2>1
  <2> QED BY <1>1, <1>2, <2>2, <2>3
<1>4. q <= p
  BY <1>2, <1>3
<1> QED BY <1>2, <1>4 DEF Day, q, p

\* A row is written now or is what it was.
RowsMove ==
  /\ DOMAIN news \subseteq DOMAIN news'
  /\ \A u \in DOMAIN news : news'[u].updated \in {news[u].updated, clock}
  /\ \A u \in DOMAIN news' \ DOMAIN news : news'[u].updated = clock

\* What a pass has read stays true whatever is written later.
LEMMA SnapshotStays ==
  ASSUME clock \in Nat, clock' \in Nat, clock <= clock', RowsInv, RowsMove,
         pass.failed => pass'.failed
  PROVE  \A read, at : \A began \in Nat :
           Snapshot(read, at, began) =>
             /\ at \in Nat /\ began <= at /\ at <= clock'
             /\ \A u \in read : u \in DOMAIN news' /\ Day(news'[u].updated) >= Day(at)
             /\ ~ pass'.failed =>
                  \A u \in DOMAIN news' :
                    news'[u].updated < began /\ Day(news'[u].updated) = Day(at) => u \in read
<1> SUFFICES ASSUME NEW read, NEW at, NEW began \in Nat, Snapshot(read, at, began)
             PROVE  /\ at \in Nat /\ began <= at /\ at <= clock'
                    /\ \A u \in read : u \in DOMAIN news' /\ Day(news'[u].updated) >= Day(at)
                    /\ ~ pass'.failed =>
                         \A u \in DOMAIN news' :
                           news'[u].updated < began /\ Day(news'[u].updated) = Day(at) => u \in read
  OBVIOUS
<1>1. at \in Nat /\ began <= at /\ at <= clock
  BY DEF Snapshot
<1>2. \A u \in DOMAIN news : news[u].updated \in 0..clock
  BY DEF RowsInv, RowOK
<1>3. ASSUME NEW u \in read
      PROVE  u \in DOMAIN news' /\ Day(news'[u].updated) >= Day(at)
  <2>1. u \in DOMAIN news /\ Day(news[u].updated) >= Day(at)
    BY DEF Snapshot
  <2>2. u \in DOMAIN news'
    BY <2>1 DEF RowsMove
  <2>3. CASE news'[u].updated = news[u].updated
    BY <2>1, <2>2, <2>3
  <2>4. CASE news'[u].updated = clock
    <3>1. Day(at) <= Day(clock) /\ Day(at) \in Nat /\ Day(clock) \in Nat
      BY <1>1, DaysInOrder
    <3> QED BY <2>2, <2>4, <3>1
  <2> QED BY <2>1, <2>3, <2>4 DEF RowsMove
<1>4. ASSUME ~ pass'.failed, NEW u \in DOMAIN news', news'[u].updated < began,
             Day(news'[u].updated) = Day(at)
      PROVE  u \in read
  <2>1. news'[u].updated # clock
    BY <1>1, <1>4
  <2>2. u \in DOMAIN news /\ news'[u].updated = news[u].updated
    BY <2>1 DEF RowsMove
  <2> QED BY <1>4, <2>2 DEF Snapshot
<1> QED BY <1>1, <1>3, <1>4

\* The crawler adds rows of now, and changes none.
LEMMA CrawlAdds ==
  ASSUME TimeInv, CrawlInv, CrawlNext
  PROVE  RowsMove /\ \A u \in DOMAIN news : news'[u] = news[u]
<1>1. CASE UNCHANGED news
  BY <1>1 DEF RowsMove
<1>2. ASSUME NEW s \in Site, SaveNews(s), ~ UNCHANGED news
      PROVE  RowsMove /\ \A u \in DOMAIN news : news'[u] = news[u]
  <2> DEFINE u == Head(unsaved[s])
  <2>1. news' = [v \in DOMAIN news \cup {u} |->
                   IF v \in DOMAIN news THEN news[v] ELSE NewsInfo(s, Page[u])]
    BY <1>2 DEF SaveNews
  <2>2. u \in Url
    BY <1>2, Elements DEF SaveNews, CrawlInv, CrawlTyped
  <2>3. NewsInfo(s, Page[u]).updated = clock
    BY <2>2, NewRow, NowIsNatural
  <2> HIDE DEF u
  <2> QED BY <2>1, <2>3 DEF RowsMove
<1> QED BY <1>1, <1>2 DEF CrawlNext, DoClear, FetchLinkVec, ParseVec, PassEnds, CheckVisited,
           FetchContent, CrawlerRestart, Publish

\* The ranker's state, when only rows are added or the clock moves.
LEMMA RankWaits ==
  ASSUME TimeInv, TimeInv', clock <= clock', CrawlInv, RankInv, UNCHANGED rankVars,
         RowsMove, \A u \in DOMAIN news : news'[u] = news[u]
  PROVE  RankInv'
<1> USE DEF RankInv
<1>1. clock \in Nat /\ clock' \in Nat
  BY NowIsNatural
<1>2. UNCHANGED <<ranker, looked, lastRanking, rankingTime, hotTerms, docs, results, rankFaults, pass>>
  BY DEF rankVars
<1>3. RankTyped'
  BY <1>1, <1>2 DEF RankTyped, RowsMove
<1>4. {lastRanking, rankingTime} \subseteq Nat
  BY DEF RankTyped
<1>5. \A read, at : \A began \in Nat :
        Snapshot(read, at, began) =>
          /\ at \in Nat /\ began <= at /\ at <= clock'
          /\ \A u \in read : u \in DOMAIN news' /\ Day(news'[u].updated) >= Day(at)
          /\ ~ pass'.failed =>
               \A u \in DOMAIN news' :
                 news'[u].updated < began /\ Day(news'[u].updated) = Day(at) => u \in read
  BY <1>1, <1>2, SnapshotStays DEF CrawlInv
<1>6. ASSUME Snapshot(pass.hot, pass.hotAt, rankingTime)
      PROVE  Snapshot(pass.hot, pass.hotAt, rankingTime)'
  BY <1>2, <1>4, <1>5, <1>6 DEF Snapshot
<1>7. ASSUME Snapshot(pass.docs, pass.docsAt, rankingTime)
      PROVE  Snapshot(pass.docs, pass.docsAt, rankingTime)'
  BY <1>2, <1>4, <1>5, <1>7 DEF Snapshot
<1>8. PassReads'
  <2>1. ranker = "write" => \A u \in pass.docs : u \in DOMAIN news
    BY DEF PassReads, Snapshot
  <2> QED BY <1>2, <1>6, <1>7, <2>1 DEF PassReads
<1>9. PassDone'
  <2> SUFFICES ASSUME ranker = "asleep", lastRanking > 0
               PROVE  /\ Snapshot(pass.hot, pass.hotAt, lastRanking)'
                      /\ Snapshot(pass.docs, pass.docsAt, lastRanking)'
                      /\ pass'.failed \/ \A u \in pass'.docs :
                           Hits(u, TermsOf(pass'.hot)) => news'[u].score = Score(u, TermsOf(pass'.hot))
    BY <1>2 DEF PassDone
  <2>1. Snapshot(pass.hot, pass.hotAt, lastRanking) /\ Snapshot(pass.docs, pass.docsAt, lastRanking)
    BY DEF PassDone
  <2>2. Snapshot(pass.hot, pass.hotAt, lastRanking)'
    BY <1>2, <1>4, <1>5, <2>1 DEF Snapshot
  <2>3. Snapshot(pass.docs, pass.docsAt, lastRanking)'
    BY <1>2, <1>4, <1>5, <2>1 DEF Snapshot
  <2>4. \A u \in pass.docs : u \in DOMAIN news
    BY <2>1 DEF Snapshot
  <2> QED BY <1>2, <2>2, <2>3, <2>4 DEF PassDone
<1> QED BY <1>3, <1>8, <1>9

LEMMA WakeRanks ==
  ASSUME TimeInv, CrawlInv, RankInv, UNCHANGED <<clock, news>>, WakeRanker
  PROVE  RankInv'
<1> USE DEF RankInv
<1>1. clock \in Nat
  BY NowIsNatural
<1>2. /\ UNCHANGED <<lastRanking, hotTerms, docs, results>> /\ looked' = clock /\ ranker = "asleep"
      /\ \/ /\ rankingTime' \in {clock, 0} /\ ranker' = "terms" /\ pass' = NoPass
            /\ rankFaults' = rankFaults \/ (rankFaults > 0 /\ rankFaults' = rankFaults - 1)
         \/ UNCHANGED <<rankingTime, ranker, pass, rankFaults>>
  BY DEF WakeRanker
<1>3. rankFaults' \in Nat
  BY <1>2 DEF RankTyped
<1>4. CASE UNCHANGED <<rankingTime, ranker, pass>>
  <2>1. RankTyped'
    BY <1>1, <1>2, <1>3, <1>4 DEF RankTyped
  <2>2. PassReads' /\ PassDone'
    BY <1>2, <1>4 DEF PassReads, PassDone, Snapshot
  <2> QED BY <2>1, <2>2
<1>5. CASE rankingTime' \in {clock, 0} /\ ranker' = "terms" /\ pass' = NoPass
  <2>1. /\ NoPass = [hot |-> NoPass.hot, docs |-> NoPass.docs, hotAt |-> NoPass.hotAt,
                     docsAt |-> NoPass.docsAt, failed |-> NoPass.failed]
        /\ NoPass.failed \in BOOLEAN
    BY DEF NoPass
  <2>2. rankingTime' \in Nat /\ rankingTime' <= clock
    BY <1>1, <1>5
  <2>3. RankTyped'
    BY <1>1, <1>2, <1>3, <1>5, <2>1, <2>2 DEF RankTyped
  <2>4. PassReads' /\ PassDone'
    BY <1>5 DEF PassReads, PassDone
  <2> QED BY <2>3, <2>4
<1> QED BY <1>2, <1>4, <1>5

\* The documents of a day, as they are read.
LEMMA DailySnapshot ==
  ASSUME clock \in Nat, RowsInv, NEW fault \in {0, 1}
  PROVE  LET ds == IF fault = 0 THEN DailyDocs(clock) ELSE {}
         IN  /\ ds \subseteq DOMAIN news /\ ds \in SUBSET Url
             /\ \A u \in ds : u \in DOMAIN news /\ Day(news[u].updated) >= Day(clock)
             /\ fault = 0 => \A u \in DOMAIN news : Day(news[u].updated) = Day(clock) => u \in ds
<1>1. Day(clock) \in Nat /\ Day(clock) >= Day(clock)
  BY DaysInOrder
<1>2. DOMAIN news \subseteq Url
  BY DEF RowsInv
<1>3. \A u \in DailyDocs(clock) : u \in DOMAIN news /\ Day(news[u].updated) = Day(clock)
  BY DEF DailyDocs
<1>4. \A u \in DOMAIN news : Day(news[u].updated) = Day(clock) => u \in DailyDocs(clock)
  BY DEF DailyDocs
<1> QED BY <1>1, <1>2, <1>3, <1>4

LEMMA HotDocsRank ==
  ASSUME TimeInv, CrawlInv, RankInv, UNCHANGED <<clock, news>>, ReadHotDocs
  PROVE  RankInv'
<1> USE DEF RankInv
<1>1. clock \in Nat /\ RowsInv
  BY NowIsNatural DEF CrawlInv
<1>2. PICK fault \in {0} \cup (IF rankFaults > 0 THEN {1} ELSE {}) :
        LET ds == IF fault = 0 THEN DailyDocs(clock) ELSE {}
        IN  /\ hotTerms' = TopnTerms(TermFreq(ds), MaxTermCount)
            /\ pass' = [pass EXCEPT !.hot = ds, !.hotAt = clock, !.failed = fault = 1]
            /\ rankFaults' = rankFaults - fault
  BY DEF ReadHotDocs
<1> DEFINE ds == IF fault = 0 THEN DailyDocs(clock) ELSE {}
<1>3. /\ ds \subseteq DOMAIN news /\ ds \in SUBSET Url
      /\ \A u \in ds : u \in DOMAIN news /\ Day(news[u].updated) >= Day(clock)
      /\ fault = 0 => \A u \in DOMAIN news : Day(news[u].updated) = Day(clock) => u \in ds
  BY <1>1, DailySnapshot
<1>4. /\ UNCHANGED <<looked, lastRanking, rankingTime, docs, results>>
      /\ ranker' = "docs" /\ ranker = "terms"
  BY DEF ReadHotDocs
<1>5. hotTerms' = TermsOf(ds) /\ pass' = [pass EXCEPT !.hot = ds, !.hotAt = clock, !.failed = fault = 1]
  BY <1>2 DEF TermsOf
<1>6. rankFaults' \in Nat
  BY <1>2 DEF RankTyped
<1> HIDE DEF ds
<1>7. pass' = [hot |-> ds, docs |-> pass.docs, hotAt |-> clock, docsAt |-> pass.docsAt,
               failed |-> (fault = 1)]
  BY <1>5 DEF RankTyped
<1>8. /\ pass'.hot = ds /\ pass'.hotAt = clock /\ pass'.failed = (fault = 1)
      /\ pass' = [hot |-> pass'.hot, docs |-> pass'.docs, hotAt |-> pass'.hotAt,
                  docsAt |-> pass'.docsAt, failed |-> pass'.failed]
  BY <1>7
<1>9. DOMAIN TermsOf(ds) \subseteq UNION {Page[u].title : u \in Url}
  <2>1. DOMAIN TermsOf(ds) \subseteq UNION {Page[u].title : u \in ds}
    BY <1>3, TopTerms DEF TermsOf
  <2> QED BY <1>3, <2>1
<1>10. RankTyped'
  <2>1. pass'.failed \in BOOLEAN
    BY <1>8
  <2> QED BY <1>4, <1>5, <1>6, <1>8, <1>9, <2>1 DEF RankTyped
<1>11. Snapshot(pass.hot, pass.hotAt, rankingTime)'
  <2>1. rankingTime <= clock
    BY DEF RankTyped
  <2>2. ~ pass'.failed => fault = 0
    BY <1>2, <1>8
  <2> QED BY <1>1, <1>3, <1>4, <1>8, <2>1, <2>2 DEF Snapshot
<1>12. PassReads' /\ PassDone'
  BY <1>4, <1>5, <1>8, <1>11 DEF PassReads, PassDone
<1> QED BY <1>10, <1>12

LEMMA RankingDocsRank ==
  ASSUME TimeInv, CrawlInv, RankInv, UNCHANGED <<clock, news>>, ReadRankingDocs
  PROVE  RankInv'
<1> USE DEF RankInv
<1>1. clock \in Nat /\ RowsInv
  BY NowIsNatural DEF CrawlInv
<1>2. PICK fault \in {0} \cup (IF rankFaults > 0 THEN {1} ELSE {}) :
        LET ds == IF fault = 0 THEN DailyDocs(clock) ELSE {}
        IN  /\ docs' = ds
            /\ results' = {u \in ds : Hits(u, hotTerms)}
            /\ pass' = [pass EXCEPT !.docs = ds, !.docsAt = clock, !.failed = @ \/ fault = 1]
            /\ rankFaults' = rankFaults - fault
  BY DEF ReadRankingDocs
<1> DEFINE ds == IF fault = 0 THEN DailyDocs(clock) ELSE {}
<1>3. /\ ds \subseteq DOMAIN news /\ ds \in SUBSET Url
      /\ \A u \in ds : u \in DOMAIN news /\ Day(news[u].updated) >= Day(clock)
      /\ fault = 0 => \A u \in DOMAIN news : Day(news[u].updated) = Day(clock) => u \in ds
  BY <1>1, DailySnapshot
<1>4. /\ UNCHANGED <<looked, lastRanking, rankingTime, hotTerms>>
      /\ ranker' = "write" /\ ranker = "docs"
  BY DEF ReadRankingDocs
<1>5. /\ docs' = ds /\ results' = {u \in ds : Hits(u, hotTerms)}
      /\ pass' = [pass EXCEPT !.docs = ds, !.docsAt = clock, !.failed = @ \/ fault = 1]
  BY <1>2
<1>6. rankFaults' \in Nat
  BY <1>2 DEF RankTyped
<1> HIDE DEF ds
<1>7. pass' = [hot |-> pass.hot, docs |-> ds, hotAt |-> pass.hotAt, docsAt |-> clock,
               failed |-> (pass.failed \/ fault = 1)]
  BY <1>5 DEF RankTyped
<1>8. /\ pass'.hot = pass.hot /\ pass'.hotAt = pass.hotAt /\ pass'.docs = ds /\ pass'.docsAt = clock
      /\ pass'.failed = (pass.failed \/ fault = 1)
      /\ pass' = [hot |-> pass'.hot, docs |-> pass'.docs, hotAt |-> pass'.hotAt,
                  docsAt |-> pass'.docsAt, failed |-> pass'.failed]
  BY <1>7
<1>9. RankTyped'
  <2>1. pass'.failed \in BOOLEAN
    BY <1>8
  <2>2. results' \subseteq docs' /\ docs' \subseteq DOMAIN news
    BY <1>3, <1>5
  <2> QED BY <1>4, <1>6, <1>8, <2>1, <2>2 DEF RankTyped
<1>10. rankingTime \in Nat /\ rankingTime <= clock
  BY DEF RankTyped
<1>11. Snapshot(pass.docs, pass.docsAt, rankingTime)'
  <2>1. ~ pass'.failed => fault = 0
    BY <1>2, <1>8
  <2> QED BY <1>1, <1>3, <1>4, <1>8, <1>10, <2>1 DEF Snapshot
<1>12. Snapshot(pass.hot, pass.hotAt, rankingTime)'
  <2>1. Snapshot(pass.hot, pass.hotAt, rankingTime)
    BY <1>4 DEF PassReads
  <2>2. ~ pass'.failed => ~ pass.failed
    BY <1>8
  <2> QED BY <1>4, <1>8, <2>1, <2>2 DEF Snapshot
<1>13. hotTerms = TermsOf(pass.hot)
  BY <1>4 DEF PassReads
<1>14. PassReads' /\ PassDone'
  BY <1>4, <1>5, <1>8, <1>11, <1>12, <1>13 DEF PassReads, PassDone
<1> QED BY <1>9, <1>14

LEMMA WriteRanks ==
  ASSUME TimeInv, CrawlInv, CrawlInv', RankInv, UNCHANGED clock, WriteDoc,
         DOMAIN news' = DOMAIN news,
         \A u \in DOMAIN news : news'[u].updated \in {news[u].updated, clock}
  PROVE  RankInv'
<1> USE DEF RankInv
<1>1. clock \in Nat
  BY NowIsNatural
<1>2. /\ UNCHANGED <<ranker, looked, lastRanking, rankingTime, hotTerms, docs>> /\ ranker = "write"
  BY DEF WriteDoc
<1>3. PICK u \in results :
        /\ results' = results \ {u}
        /\ \/ /\ news' = [news EXCEPT ![u] = Rescored(@, Score(u, hotTerms))]
              /\ UNCHANGED <<rankFaults, pass>>
           \/ /\ rankFaults > 0
              /\ rankFaults' = rankFaults - 1
              /\ pass' = [pass EXCEPT !.failed = TRUE]
              /\ UNCHANGED news
  BY DEF WriteDoc
<1>4. u \in DOMAIN news /\ rankFaults' \in Nat /\ rankingTime \in Nat
  BY <1>3 DEF RankTyped
<1>5. /\ pass'.hot = pass.hot /\ pass'.hotAt = pass.hotAt /\ pass'.docs = pass.docs
      /\ pass'.docsAt = pass.docsAt /\ (pass.failed => pass'.failed) /\ pass'.failed \in BOOLEAN
      /\ pass' = [hot |-> pass'.hot, docs |-> pass'.docs, hotAt |-> pass'.hotAt,
                  docsAt |-> pass'.docsAt, failed |-> pass'.failed]
  <2>1. CASE UNCHANGED pass
    BY <2>1 DEF RankTyped
  <2>2. CASE pass' = [pass EXCEPT !.failed = TRUE]
    <3>1. pass' = [hot |-> pass.hot, docs |-> pass.docs, hotAt |-> pass.hotAt,
                   docsAt |-> pass.docsAt, failed |-> TRUE]
      BY <2>2 DEF RankTyped
    <3> QED BY <3>1
  <2> QED BY <1>3, <2>1, <2>2
<1>6. pass'.failed \/ news' = [news EXCEPT ![u] = Rescored(@, Score(u, hotTerms))]
  <2>1. CASE pass' = [pass EXCEPT !.failed = TRUE]
    BY <2>1 DEF RankTyped
  <2> QED BY <1>3, <2>1
<1>7. RankTyped'
  BY <1>2, <1>3, <1>4, <1>5 DEF RankTyped
<1>8. RowsMove
  BY DEF RowsMove
<1>9. \A read, at : Snapshot(read, at, rankingTime) =>
          /\ at \in Nat /\ rankingTime <= at /\ at <= clock'
          /\ \A v \in read : v \in DOMAIN news' /\ Day(news'[v].updated) >= Day(at)
          /\ ~ pass'.failed =>
               \A v \in DOMAIN news' :
                 news'[v].updated < rankingTime /\ Day(news'[v].updated) = Day(at) => v \in read
  <2>1. clock' \in Nat /\ clock <= clock' /\ RowsInv
    BY <1>1 DEF CrawlInv
  <2>2. \A read, at : \A began \in Nat :
          Snapshot(read, at, began) =>
            /\ at \in Nat /\ began <= at /\ at <= clock'
            /\ \A v \in read : v \in DOMAIN news' /\ Day(news'[v].updated) >= Day(at)
            /\ ~ pass'.failed =>
                 \A v \in DOMAIN news' :
                   news'[v].updated < began /\ Day(news'[v].updated) = Day(at) => v \in read
    BY <1>1, <1>5, <1>8, <2>1, SnapshotStays
  <2>3. rankingTime \in Nat
    BY <1>4
  <2> QED BY ONLY <2>2, <2>3
<1>10. Snapshot(pass.hot, pass.hotAt, rankingTime)'
  <2>1. Snapshot(pass.hot, pass.hotAt, rankingTime)
    BY <1>2 DEF PassReads
  <2> QED BY <1>2, <1>5, <1>9, <2>1 DEF Snapshot
<1>11. Snapshot(pass.docs, pass.docsAt, rankingTime)'
  <2>1. Snapshot(pass.docs, pass.docsAt, rankingTime)
    BY <1>2 DEF PassReads
  <2> QED BY <1>2, <1>5, <1>9, <2>1 DEF Snapshot
<1>12. hotTerms' = TermsOf(pass'.hot)
  BY <1>2, <1>5 DEF PassReads
<1>13. ASSUME ~ pass'.failed, NEW v \in pass'.docs, Hits(v, hotTerms)
       PROVE  v \in results' \/ news'[v].score = Score(v, hotTerms)
  <2>1. ~ pass.failed /\ v \in pass.docs /\ v \in DOMAIN news
    BY <1>2, <1>5, <1>13 DEF PassReads, Snapshot
  <2>2. v \in results \/ news[v].score = Score(v, hotTerms)
    BY <1>2, <1>13, <2>1 DEF PassReads
  <2>3. CASE v = u
    <3>1. news'[u] = Rescored(news[u], Score(u, hotTerms))
      BY <1>4, <1>6, <1>13
    <3>2. RowOK(u, news[u])
      BY <1>4 DEF CrawlInv, RowsInv
    <3>3. Rescored(news[u], Score(u, hotTerms)).score = Score(u, hotTerms)
      <4>1. IsFiniteSet(Score(u, hotTerms).hit)
        <5>1. u \in Url
          BY <1>4 DEF CrawlInv, RowsInv
        <5>2. IsFiniteSet(Page[u].content)
          BY <5>1, NewsRankConstantsOK
        <5>3. Score(u, hotTerms).hit = Page[u].content \cap DOMAIN hotTerms
          BY DEF Score
        <5> QED BY <5>2, <5>3, FS_Intersection
      <4> QED BY <1>1, <3>2, <4>1, RescoredRow
    <3> QED BY <2>3, <3>1, <3>3
  <2>4. CASE v # u
    <3>1. news'[v] = news[v]
      BY <1>6, <1>13, <2>1, <2>4
    <3> QED BY <1>3, <2>2, <2>4, <3>1
  <2> QED BY <2>3, <2>4
<1>14. PassReads'
  <2>1. pass'.failed \/ \A v \in pass'.docs :
          Hits(v, hotTerms) => v \in results' \/ news'[v].score = Score(v, hotTerms)
    BY <1>13
  <2> QED BY <1>2, <1>10, <1>11, <1>12, <2>1 DEF PassReads
<1>15. PassDone'
  BY <1>2 DEF PassDone
<1> QED BY <1>7, <1>14, <1>15

LEMMA EndRanks ==
  ASSUME TimeInv, CrawlInv, RankInv, UNCHANGED <<clock, news>>, RankingEnds
  PROVE  RankInv'
<1> USE DEF RankInv
<1>1. /\ ranker = "write" /\ results = {} /\ lastRanking' = rankingTime /\ ranker' = "asleep"
      /\ hotTerms' = NoTerms /\ docs' = {} /\ rankingTime' = 0
      /\ UNCHANGED <<looked, results, rankFaults, pass>>
  BY DEF RankingEnds, RankedAt
<1>2. DOMAIN NoTerms = {}
  BY DEF NoTerms
<1>3. clock \in Nat
  BY NowIsNatural
<1>4. RankTyped'
  BY <1>1, <1>2, <1>3 DEF RankTyped
<1>5. PassReads'
  BY <1>1 DEF PassReads
<1>6. /\ Snapshot(pass.hot, pass.hotAt, rankingTime) /\ Snapshot(pass.docs, pass.docsAt, rankingTime)
      /\ pass.failed \/ \A u \in pass.docs :
           Hits(u, TermsOf(pass.hot)) => news[u].score = Score(u, TermsOf(pass.hot))
  BY <1>1 DEF PassReads
<1>7. PassDone'
  BY <1>1, <1>6 DEF PassDone, Snapshot
<1> QED BY <1>4, <1>5, <1>7

LEMMA RestartRanks ==
  ASSUME TimeInv, CrawlInv, RankInv, UNCHANGED <<clock, news>>, RankerRestart
  PROVE  RankInv'
<1> USE DEF RankInv
<1>1. DOMAIN NoTerms = {} /\ clock \in Nat
  BY NowIsNatural DEF NoTerms
<1>2. RankTyped'
  BY <1>1 DEF RankTyped, RankerRestart
<1>3. PassReads' /\ PassDone'
  BY DEF PassReads, PassDone, RankerRestart
<1> QED BY <1>2, <1>3

-----------------------------------------------------------------------------
(***************************************************************************)
(* Orders of sets, and the story chosen                                    *)
(***************************************************************************)
\* A one-to-one list of as many members as a finite set has, holds all of them.
LEMMA OneToOne ==
  ASSUME NEW S, IsFiniteSet(S), NEW q \in [1..Cardinality(S) -> S],
         \A i, j \in 1..Cardinality(S) : q[i] = q[j] => i = j
  PROVE  /\ q \in Seq(S) /\ Len(q) = Cardinality(S) /\ Cardinality(S) \in Nat
         /\ \A u \in S : \E i \in 1..Len(q) : q[i] = u
         /\ ToSet(q) = S
<1> DEFINE n == Cardinality(S)
<1>1. n \in Nat
  BY FS_CardinalityType
<1>2. q \in Injection(1..n, S)
  BY DEF Injection, IsInjective
<1>3. Cardinality(1..n) = n
  <2> HIDE DEF n
  <2>1. Cardinality(1..n) = IF 1 > n THEN 0 ELSE n - 1 + 1
    BY <1>1, FS_Interval
  <2> QED BY <1>1, <2>1
<1>4. q \in Surjection(1..n, S)
  <2>1. IsFiniteSet(1..n) /\ (Cardinality(1..n) = Cardinality(S) <=> q \in Surjection(1..n, S))
    BY <1>2, FS_Injection
  <2> QED BY <1>3, <2>1
<1>5. \A u \in S : \E i \in 1..n : q[i] = u
  BY <1>4 DEF Surjection
<1>6. q \in Seq(S) /\ Len(q) = n /\ DOMAIN q = 1..n
  <2> HIDE DEF n
  <2> QED BY <1>1 DEF n
<1>7. ToSet(q) = S
  BY <1>5, <1>6 DEF ToSet
<1> QED BY <1>1, <1>5, <1>6, <1>7

LEMMA OrderOf ==
  ASSUME NEW S, IsFiniteSet(S), NEW q \in SetToSeqs(S)
  PROVE  /\ q \in Seq(S) /\ Len(q) = Cardinality(S) /\ Cardinality(S) \in Nat
         /\ \A u \in S : \E i \in 1..Len(q) : q[i] = u
<1>1. q \in [1..Cardinality(S) -> S] /\ \A i, j \in 1..Cardinality(S) : i # j => q[i] # q[j]
  BY DEF SetToSeqs
<1>2. \A i, j \in 1..Cardinality(S) : q[i] = q[j] => i = j
  BY <1>1
<1> QED BY <1>1, <1>2, OneToOne

LEMMA AnOrder ==
  ASSUME NEW S, IsFiniteSet(S)
  PROVE  SetToSeq(S) \in Seq(S) /\ ToSet(SetToSeq(S)) = S /\ (SetToSeq(S) = <<>> <=> S = {})
<1> DEFINE q == SetToSeq(S)
<1>1. \E f \in [1..Cardinality(S) -> S] : IsInjective(f)
  <2>1. Bijection(1..Cardinality(S), S) # {}
    BY FS_CardinalityType DEF ExistsBijection
  <2> QED BY <2>1 DEF Bijection, Injection
<1>2. q \in [1..Cardinality(S) -> S] /\ IsInjective(q)
  BY <1>1 DEF SetToSeq
<1> HIDE DEF q
<1>3. q \in Seq(S) /\ Len(q) = Cardinality(S) /\ Cardinality(S) \in Nat /\ ToSet(q) = S
  BY <1>2, OneToOne DEF IsInjective
<1>4. q = <<>> <=> S = {}
  <2>1. Cardinality(S) = 0 <=> S = {}
    BY FS_EmptySet
  <2>2. q = <<>> <=> Len(q) = 0
    BY <1>3
  <2> QED BY <1>3, <2>1, <2>2
<1> QED BY <1>3, <1>4 DEF q

LEMMA HitsAreCounted ==
  ASSUME RowsInv
  PROVE  \A u \in DOMAIN news : HitNum(u) \in Nat
BY FS_CardinalityType DEF RowsInv, RowOK, HitNum

\* What is picked begins with the first, if that one has enough hot terms.
LEMMA FirstIsPicked ==
  ASSUME NEW q \in Seq(Url), q # <<>>, HitNum(q[1]) >= MinHitWordCount
  PROVE  Picked(q) \in Seq(Url) /\ Picked(q) # <<>> /\ Picked(q)[1] = q[1]
<1> DEFINE N == Len(q)
           Loop(f) == [n \in 0..N |->
                        IF n = 0 THEN <<>>
                        ELSE IF Picks(f[n - 1], q[n]) THEN Append(f[n - 1], q[n]) ELSE f[n - 1]]
           step == [n \in 1..N |-> [s \in Seq(Url) |-> IF Picks(s, q[n]) THEN Append(s, q[n]) ELSE s]]
           g == CHOOSE f : f = Loop(f)
<1>1. N \in Nat /\ N >= 1 /\ \A n \in 1..N : q[n] \in Url
  OBVIOUS
<1>2. PICK f \in [0..N -> Seq(Url)] : f[0] = <<>> /\ \A n \in 1..N : f[n] = step[n][f[n - 1]]
  <2>1. \A n \in 1..N : \A s \in Seq(Url) : Append(s, q[n]) \in Seq(Url)
    BY <1>1
  <2>2. step \in [1..N -> [Seq(Url) -> Seq(Url)]]
    BY <2>1
  <2> HIDE DEF step, N
  <2>3. \A next \in [1..N -> [Seq(Url) -> Seq(Url)]] :
          \E f \in [0..N -> Seq(Url)] : f[0] = <<>> /\ \A n \in 1..N : f[n] = next[n][f[n - 1]]
    BY ONLY <1>1, Recursion
  <2> QED BY ONLY <2>2, <2>3
<1>3. f = Loop(f)
  <2>1. ASSUME NEW n \in 0..N PROVE f[n] = Loop(f)[n]
    <3>1. CASE n = 0
      BY <1>2, <3>1
    <3>2. CASE n # 0
      <4>1. n \in 1..N /\ n - 1 \in 0..N
        BY <1>1, <3>2
      <4> QED BY <1>2, <3>2, <4>1
    <3> QED BY <3>1, <3>2
  <2> HIDE DEF N
  <2> QED BY <1>2, <2>1
<1>4. g = Loop(g)
  <2> HIDE DEF Loop
  <2> QED BY <1>3
<1>5. Picked(q) = g[N]
  BY DEF Picked
<1> HIDE DEF g
<1> DEFINE T == {n \in 0..N : /\ n = 0 => g[n] = <<>>
                              /\ n > 0 => g[n] \in Seq(Url) /\ g[n] # <<>> /\ g[n][1] = q[1]}
<1>6. 0 \in T
  BY <1>1, <1>4
<1>7. ASSUME NEW n \in 1..N, n - 1 \in T PROVE n \in T
  <2>1. /\ n \in 0..N /\ n - 1 \in 0..N /\ n # 0
        /\ g[n] = IF Picks(g[n - 1], q[n]) THEN Append(g[n - 1], q[n]) ELSE g[n - 1]
    <3>1. n \in 0..N /\ n # 0
      BY <1>1
    <3> QED BY <1>4, <1>7, <3>1
  <2>2. q[n] \in Url
    BY <1>1
  <2>3. CASE n = 1
    <3>1. g[n - 1] = <<>>
      BY <1>4, <1>1, <2>3
    <3>2. Picks(g[n - 1], q[n])
      <4>1. ToSet(<<>>) = {}
        BY Elements
      <4> QED BY <2>3, <3>1, <4>1 DEF Picks
    <3>3. g[n] = Append(<<>>, q[n])
      BY <2>1, <3>1, <3>2
    <3> HIDE DEF N
    <3>4. g[n] \in Seq(Url) /\ g[n] # <<>> /\ g[n][1] = q[n]
      BY <2>2, <3>3
    <3> QED BY <2>1, <2>3, <3>4
  <2>4. CASE n # 1
    <3>1. g[n - 1] \in Seq(Url) /\ g[n - 1] # <<>> /\ g[n - 1][1] = q[1]
      BY <1>7, <2>1, <2>4
    <3>2. \A s \in Seq(Url), u \in Url : s # <<>> =>
            Append(s, u) \in Seq(Url) /\ Append(s, u) # <<>> /\ Append(s, u)[1] = s[1]
      OBVIOUS
    <3> HIDE DEF N
    <3> QED BY <2>1, <2>2, <3>1, <3>2
  <2> QED BY <2>3, <2>4
<1>8. N \in T
  <2> HIDE DEF T, N
  <2>1. \A n \in 1..N : n - 1 \in T => n \in T
    BY <1>7
  <2> QED BY ONLY <1>1, <1>6, <2>1, Upward
<1> QED BY <1>1, <1>5, <1>8

\* Sort: the first of a list is the best there is, or the list was filled up with any.
LEMMA BestFirst ==
  ASSUME RowsInv, NEW us \in SUBSET DOMAIN news, NEW list \in Sort(us), us # {}
  PROVE  \/ Head(list) \in us /\ \A u \in us : HitNum(u) <= HitNum(Head(list))
         \/ Cardinality(us) > MaxResultNum /\ \A u \in us : HitNum(u) < MinHitWordCount
<1>1. IsFiniteSet(us) /\ us \subseteq Url /\ MinHitWordCount \in Nat /\ MaxResultNum \in Nat \ {0}
  BY NewsCrawlConstantsOK, NewsPushConstantsOK, FS_Subset DEF RowsInv
<1>2. \A u \in us : HitNum(u) \in Nat
  BY HitsAreCounted
<1>3. ASSUME NEW q \in ByHitNum(us)
      PROVE  /\ q \in Seq(us) /\ q \in Seq(Url) /\ q # <<>> /\ q[1] \in us
             /\ \A u \in us : HitNum(u) <= HitNum(q[1])
  <2>1. q \in SetToSeqs(us) /\ \A i, j \in DOMAIN q : i < j => HitNum(q[i]) >= HitNum(q[j])
    BY DEF ByHitNum
  <2>2. q \in Seq(us) /\ \A u \in us : \E i \in 1..Len(q) : q[i] = u
    BY <1>1, <2>1, OrderOf
  <2>3. q \in Seq(Url) /\ DOMAIN q = 1..Len(q) /\ Len(q) \in Nat
    BY <1>1, <2>2
  <2>4. Len(q) >= 1
    BY <2>2, <2>3
  <2>5. 1 \in DOMAIN q /\ q[1] \in us
    BY <2>2, <2>3, <2>4
  <2>6. ASSUME NEW u \in us PROVE HitNum(u) <= HitNum(q[1])
    <3>1. PICK i \in 1..Len(q) : q[i] = u
      BY <2>2
    <3>2. CASE i = 1
      BY <1>2, <3>1, <3>2
    <3>3. CASE i # 1
      <4>1. HitNum(q[1]) >= HitNum(q[i])
        BY <2>1, <2>3, <2>5, <3>3
      <4> QED BY <1>2, <2>5, <3>1, <4>1
    <3> QED BY <3>2, <3>3
  <2> QED BY <2>2, <2>3, <2>4, <2>5, <2>6
<1>4. Cardinality(us) \in Nat
  BY <1>1, FS_CardinalityType
<1>5. CASE Cardinality(us) <= MaxResultNum
  <2>1. list \in ByHitNum(us)
    BY <1>5 DEF Sort
  <2>2. Head(list) = list[1]
    BY <1>3, <2>1
  <2> QED BY <1>3, <2>1, <2>2
<1>6. CASE ~ Cardinality(us) <= MaxResultNum
  <2>1. PICK q \in ByHitNum(us) : list \in FilledUp(us, Picked(q))
    BY <1>6 DEF Sort
  <2>2. /\ q \in Seq(Url) /\ q # <<>> /\ q[1] \in us
        /\ \A u \in us : HitNum(u) <= HitNum(q[1])
    BY <1>3
  <2>3. CASE HitNum(q[1]) >= MinHitWordCount
    <3> DEFINE picked == Picked(q)
    <3>1. picked \in Seq(Url) /\ picked # <<>> /\ picked[1] = q[1]
      BY <2>2, <2>3, FirstIsPicked
    <3> HIDE DEF picked
    <3>2. list \in FilledUp(us, picked)
      BY <2>1 DEF picked
    <3>3. CASE Len(picked) >= MaxResultNum
      <4>1. list = SubSeq(picked, 1, MaxResultNum)
        BY <3>2, <3>3 DEF FilledUp
      <4>2. Head(list) = picked[1]
        BY <1>1, <3>1, <3>3, <4>1
      <4> QED BY <2>2, <3>1, <4>2
    <3>4. CASE ~ Len(picked) >= MaxResultNum
      <4>1. PICK rest \in SetToSeqs(us \ ToSet(picked)) :
              list = picked \o SubSeq(rest, 1, MaxResultNum - Len(picked))
        BY <3>2, <3>4 DEF FilledUp
      <4> DEFINE P == ToSet(picked)
                 k == MaxResultNum - Len(picked)
      <4>2. IsFiniteSet(P) /\ Cardinality(P) <= Len(picked) /\ Cardinality(P) \in Nat
        <5>1. picked \in Surjection(1..Len(picked), P)
          BY <3>1 DEF Surjection, ToSet
        <5>2. Len(picked) \in Nat /\ IsFiniteSet(1..Len(picked))
          BY <3>1, FS_Interval
        <5>3. IsFiniteSet(P) /\ ExistsSurjection(1..Len(picked), P)
          BY <5>1, <5>2, FS_Surjection DEF ExistsSurjection
        <5> HIDE DEF P
        <5> QED BY <5>2, <5>3, FS_SurjCardinalityBound, FS_CardinalityType
      <4>3. rest \in Seq(Url) /\ k \in Nat /\ k <= Len(rest)
        <5> HIDE DEF P
        <5>1. rest \in Seq(us \ P) /\ Len(rest) = Cardinality(us \ P)
          BY <1>1, <4>1, FS_Difference, OrderOf DEF P
        <5>2. Cardinality(us \ P) = Cardinality(us) - Cardinality(us \cap P)
          BY <1>1, FS_Difference
        <5>3. Cardinality(us \cap P) \in Nat /\ Cardinality(us \cap P) <= Cardinality(P)
          BY <4>2, FS_Intersection, FS_CardinalityType
        <5>4. Len(picked) \in Nat
          BY <3>1
        <5>5. k \in Nat /\ k <= Len(rest)
          BY <1>1, <1>4, <1>6, <3>4, <4>2, <5>1, <5>2, <5>3, <5>4
        <5> QED BY <1>1, <5>1, <5>5
      <4>4. SubSeq(rest, 1, k) \in Seq(Url)
        <5> HIDE DEF k
        <5> QED BY <4>3
      <4>5. Head(list) = picked[1]
        BY <3>1, <4>1, <4>4
      <4> QED BY <2>2, <3>1, <4>5
    <3> QED BY <3>3, <3>4
  <2>4. CASE ~ HitNum(q[1]) >= MinHitWordCount
    <3>1. \A u \in us : HitNum(u) < MinHitWordCount
      BY <1>1, <1>2, <2>2, <2>4
    <3> QED BY <1>1, <1>4, <1>6, <3>1
  <2> QED BY <2>3, <2>4
<1> QED BY <1>5, <1>6

-----------------------------------------------------------------------------
(***************************************************************************)
(* The steps of the push                                                   *)
(***************************************************************************)
\* On to the next user: this one is served, passed over, or not to be served.
LEMMA UserDone ==
  ASSUME PushInv, clock \in Nat, UNCHANGED <<clock, view, share>>, pusher \notin {"idle", "count"},
         NEW ok, GoOn(ok), {requests', pushFaults'} \subseteq Nat,
         told \subseteq told', passed' \in {passed, passed \cup {Head(users)}},
         \/ Head(users) \in passed' \/ ~ IsServed(Head(users))
         \/ \E m \in told' : m.user = Head(users),
         \A s \in DOMAIN redis' : redis'[s] \in Nat,
         \A m \in told' : m.story \in DOMAIN redis' /\ redis'[m.story] > m.kept /\ m.kept \in 0..clock
  PROVE  PushInv'
<1> USE DEF PushInv
<1>1. users \in Seq(User) /\ users # <<>> /\ ToSet(users) \subseteq share
  BY DEF PushTyped
<1>2. /\ users' = Tail(users) /\ chosen' = NoStory
      /\ pusher' = IF users' = <<>> THEN "idle" ELSE "user"
  BY DEF GoOn, NextUsers
<1>3. users' \in Seq(User) /\ ToSet(users) = {Head(users)} \cup ToSet(users')
  BY <1>1, <1>2, FirstAndRest
<1>4. /\ NoStory = [story |-> NoStory.story, hits |-> NoStory.hits, kept |-> NoStory.kept]
      /\ NoStory.hits = <<>>
  BY DEF NoStory
<1>5. /\ pusher' \in {"idle", "user"} /\ (pusher' \in {"idle", "count"} <=> users' = <<>>)
  BY <1>2
<1>6. passed' \subseteq share /\ ToSet(users') \subseteq share
  BY <1>1, <1>3 DEF PushTyped
<1>7. PushTyped'
  BY <1>2, <1>3, <1>4, <1>5, <1>6 DEF PushTyped
<1>8. UsersLeft'
  <2> SUFFICES ASSUME NEW u \in share
               PROVE  \/ u \in ToSet(users') \/ u \in passed' \/ ~ IsServed(u)
                      \/ \E m \in told' : m.user = u
    BY DEF UsersLeft
  <2>1. \/ u \in ToSet(users) \/ u \in passed \/ ~ IsServed(u)
        \/ \E m \in told : m.user = u
    BY DEF UsersLeft
  <2> QED BY <1>3, <2>1
<1>9. KeptInv'
  BY <1>5 DEF KeptInv
<1>10. BestIsChosen'
  BY <1>2, <1>4 DEF BestIsChosen
<1> QED BY <1>7, <1>8, <1>9, <1>10

\* A failed call passes the user over.
LEMMA FaultPasses ==
  ASSUME PushInv, clock \in Nat, UNCHANGED <<clock, view, share, requests>>, pusher \notin {"idle", "count"},
         PassOver, pushFaults' \in Nat, told \subseteq told',
         \A s \in DOMAIN redis' : redis'[s] \in Nat,
         \A m \in told' : m.story \in DOMAIN redis' /\ redis'[m.story] > m.kept /\ m.kept \in 0..clock
  PROVE  PushInv'
<1>1. GoOn(FALSE) /\ passed' = passed \cup {Head(users)}
  BY DEF PassOver
<1>2. requests' \in Nat
  BY DEF PushInv, PushTyped
<1> QED BY <1>1, <1>2, UserDone

\* A step to another place of the same user's round.
LEMMA UserGoesOn ==
  ASSUME PushInv, UNCHANGED <<view, share, users, passed, told>>,
         pusher \notin {"idle", "count"}, pusher' \in {"user", "list", "save", "expire", "send"},
         {requests', pushFaults'} \subseteq Nat,
         chosen' = [story |-> chosen'.story, hits |-> chosen'.hits, kept |-> chosen'.kept],
         KeptInv', BestIsChosen'
  PROVE  PushInv'
<1>1. PushTyped'
  BY DEF PushInv, PushTyped
<1>2. UsersLeft'
  BY DEF PushInv, UsersLeft
<1> QED BY <1>1, <1>2 DEF PushInv

LEMMA BeginPushes ==
  ASSUME PushInv, UNCHANGED clock, BeginNewsPush
  PROVE  PushInv'
<1> USE DEF PushInv
<1>1. /\ pusher = "idle" /\ requests > 0 /\ requests' = requests - 1 /\ pusher' = "count"
      /\ share' = {} /\ told' = {} /\ passed' = {}
      /\ UNCHANGED <<view, users, chosen, redis, broken, pushFaults>>
  BY DEF BeginNewsPush
<1>2. users = <<>> /\ ToSet(users) = {}
  BY <1>1 DEF PushTyped, ToSet
<1>3. requests' \in Nat /\ pushFaults' \in Nat
  BY <1>1 DEF PushTyped
<1>4. PushTyped'
  BY <1>1, <1>2, <1>3 DEF PushTyped
<1>5. UsersLeft' /\ KeptInv' /\ BestIsChosen'
  BY <1>1 DEF UsersLeft, KeptInv, BestIsChosen
<1> QED BY <1>4, <1>5

LEMMA UsersPush ==
  ASSUME PushInv, UNCHANGED clock, GetUsers
  PROVE  PushInv'
<1> USE DEF PushInv
<1>1. /\ pusher = "count" /\ share' = UsersOf(nodePos, view.cnt) /\ users' = SetToSeq(share')
      /\ pusher' = IF share' = {} THEN "idle" ELSE "user"
      /\ UNCHANGED <<view, chosen, redis, broken, requests, pushFaults, told, passed>>
  BY DEF GetUsers
<1>2. share' \subseteq User /\ IsFiniteSet(share')
  <2>1. share' \subseteq User
    BY <1>1 DEF UsersOf
  <2> QED BY <2>1, NewsPushConstantsOK, FS_Subset
<1>3. users' \in Seq(User) /\ ToSet(users') = share' /\ (users' = <<>> <=> share' = {})
  <2> DEFINE S == share'
             q == SetToSeq(S)
  <2> HIDE DEF S
  <2>1. q \in Seq(S) /\ ToSet(q) = S /\ (q = <<>> <=> S = {})
    BY <1>2, AnOrder DEF S
  <2>2. q \in Seq(User)
    BY <1>2, <2>1 DEF S
  <2> QED BY <1>1, <2>1, <2>2 DEF S
<1>4. passed = {}
  BY <1>1 DEF PushTyped
<1>5. pusher' \in {"idle", "user"} /\ (pusher' \in {"idle", "count"} <=> users' = <<>>)
  BY <1>1, <1>3
<1>6. PushTyped'
  BY <1>1, <1>2, <1>3, <1>4, <1>5 DEF PushTyped
<1>7. UsersLeft'
  BY <1>3 DEF UsersLeft
<1>8. KeptInv' /\ BestIsChosen'
  BY <1>1, <1>5 DEF KeptInv, BestIsChosen
<1> QED BY <1>6, <1>7, <1>8

LEMMA WatchPushes ==
  ASSUME PushInv, clock \in Nat, UNCHANGED clock, CheckWatch
  PROVE  PushInv'
<1>1. pusher = "user" /\ UNCHANGED <<view, nodePos, redis, broken, requests, share, told>>
  BY DEF CheckWatch
<1>2. pushFaults \in Nat /\ requests \in Nat /\ KeptInv /\ BestIsChosen
  BY DEF PushInv, PushTyped
<1>3. /\ \A s \in DOMAIN redis : redis[s] \in Nat
      /\ \A m \in told : m.story \in DOMAIN redis /\ redis[m.story] > m.kept /\ m.kept \in 0..clock
  BY <1>2 DEF KeptInv
<1>4. CASE IsServed(Head(users)) /\ pusher' = "list" /\ UNCHANGED <<users, chosen, pushFaults, passed>>
  <2>1. KeptInv' /\ BestIsChosen'
    BY <1>1, <1>2, <1>4 DEF KeptInv, BestIsChosen
  <2>2. chosen' = [story |-> chosen'.story, hits |-> chosen'.hits, kept |-> chosen'.kept]
    BY <1>4 DEF PushInv, PushTyped
  <2> QED BY <1>1, <1>2, <1>4, <2>1, <2>2, UserGoesOn
<1>5. CASE ~ IsServed(Head(users)) /\ GoOn(TRUE) /\ UNCHANGED <<pushFaults, passed>>
  BY <1>1, <1>2, <1>3, <1>5, UserDone
<1>6. CASE PushFault
  <2>1. PassOver /\ pushFaults' \in Nat
    BY <1>2, <1>6 DEF PushFault
  <2> QED BY <1>1, <1>3, <2>1, FaultPasses
<1> QED BY <1>4, <1>5, <1>6 DEF CheckWatch

LEMMA ListPushes ==
  ASSUME TimeInv, CrawlInv, PushInv, UNCHANGED <<clock, news>>, GetRecList
  PROVE  PushInv'
<1> DEFINE stories == TransformDoc(FetchDoc)
           hits == [u \in stories |-> HitNum(u)]
<1>1. clock \in Nat /\ RowsInv
  BY NowIsNatural DEF CrawlInv
<1>2. pusher = "list" /\ UNCHANGED <<view, nodePos, redis, broken, requests, share, told>>
  BY DEF GetRecList
<1>3. pushFaults \in Nat /\ requests \in Nat /\ KeptInv /\ BestIsChosen
  BY DEF PushInv, PushTyped
<1>4. /\ \A s \in DOMAIN redis : redis[s] \in Nat
      /\ \A m \in told : m.story \in DOMAIN redis /\ redis[m.story] > m.kept /\ m.kept \in 0..clock
  BY <1>3 DEF KeptInv
<1>5. stories \in SUBSET DOMAIN news
  BY DEF TransformDoc, FetchDoc
<1>6. ASSUME PassOver, pushFaults' \in Nat
      PROVE  PushInv'
  BY <1>1, <1>2, <1>4, <1>6, FaultPasses
<1>7. ASSUME NEW list, NEW hs, Choose(list, hs), pushFaults' \in Nat,
             list # <<>> /\ hs # <<>> =>
               \/ \A u \in DOMAIN hs : hs[u] <= hs[Head(list)]
               \/ /\ Cardinality(DOMAIN hs) > MaxResultNum
                  /\ \A u \in DOMAIN hs : hs[u] < MinHitWordCount
      PROVE  PushInv'
  <2>1. CASE list # <<>> /\ chosen' = [story |-> Head(list), hits |-> hs, kept |-> 0]
             /\ pusher' = "save" /\ UNCHANGED <<users, passed>>
    <3>1. /\ chosen' = [story |-> chosen'.story, hits |-> chosen'.hits, kept |-> chosen'.kept]
          /\ chosen'.hits = hs /\ chosen'.story = Head(list)
      BY <2>1
    <3>2. KeptInv'
      BY <1>2, <1>3, <2>1 DEF KeptInv
    <3>3. BestIsChosen'
      BY <1>7, <2>1, <3>1 DEF BestIsChosen
    <3> QED BY <1>2, <1>3, <1>7, <2>1, <3>1, <3>2, <3>3, UserGoesOn
  <2> QED BY <1>6, <1>7, <2>1 DEF Choose
<1>8. CASE stories # {} /\ UNCHANGED pushFaults /\ \E list \in Sort(stories) : Choose(list, hits)
  <2>1. PICK list \in Sort(stories) : Choose(list, hits)
    BY <1>8
  <2>2. DOMAIN hits = stories /\ \A u \in stories : hits[u] = HitNum(u)
    OBVIOUS
  <2> DEFINE us == stories
  <2> HIDE DEF us
  <2>3. us \in SUBSET DOMAIN news /\ list \in Sort(us) /\ us # {}
    BY <1>5, <1>8, <2>1 DEF us
  <2>4. \/ Head(list) \in us /\ \A u \in us : HitNum(u) <= HitNum(Head(list))
        \/ Cardinality(us) > MaxResultNum /\ \A u \in us : HitNum(u) < MinHitWordCount
    BY <1>1, <2>3, BestFirst
  <2> HIDE DEF hits
  <2>5. \/ \A u \in DOMAIN hits : hits[u] <= hits[Head(list)]
        \/ /\ Cardinality(DOMAIN hits) > MaxResultNum
           /\ \A u \in DOMAIN hits : hits[u] < MinHitWordCount
    BY <2>2, <2>4 DEF us
  <2> QED BY <1>3, <1>7, <1>8, <2>1, <2>5
<1>9. CASE pushFaults' \in Nat /\ \E list \in Toutiao : Choose(list, <<>>)
  BY <1>7, <1>9
<1>10. CASE PushFault
  BY <1>3, <1>6, <1>10 DEF PushFault
<1>11. \/ stories # {} /\ UNCHANGED pushFaults /\ \E list \in Sort(stories) : Choose(list, hits)
       \/ pushFaults' \in Nat /\ \E list \in Toutiao : Choose(list, <<>>)
       \/ PushFault
  <2>1. pushFaults > 0 /\ pushFaults' = pushFaults - 1 => pushFaults' \in Nat
    BY <1>3
  <2>2. UNCHANGED pushFaults => pushFaults' \in Nat
    BY <1>3
  <2> HIDE DEF stories, hits
  <2> QED BY <2>1, <2>2 DEF GetRecList, stories, hits
<1> QED BY <1>8, <1>9, <1>10, <1>11

LEMMA SavePushes ==
  ASSUME TimeInv, PushInv, UNCHANGED clock, SaveRecContent
  PROVE  PushInv'
<1>1. clock \in Nat /\ clock < Forever /\ Forever \in Nat
  BY NowIsNatural DEF Forever
<1>2. pusher = "save" /\ UNCHANGED <<view, nodePos, broken, requests, share, told>>
  BY DEF SaveRecContent
<1>3. pushFaults \in Nat /\ requests \in Nat /\ KeptInv /\ BestIsChosen
  BY DEF PushInv, PushTyped
<1>4. /\ \A s \in DOMAIN redis : redis[s] \in Nat
      /\ \A m \in told : m.story \in DOMAIN redis /\ redis[m.story] > m.kept /\ m.kept \in 0..clock
  BY <1>3 DEF KeptInv
<1>5. chosen = [story |-> chosen.story, hits |-> chosen.hits, kept |-> chosen.kept]
  BY DEF PushInv, PushTyped
<1>6. CASE /\ Kept(chosen.story) /\ pusher' = "send" /\ chosen' = [chosen EXCEPT !.kept = clock]
           /\ UNCHANGED <<users, redis, pushFaults, passed>>
  <2>1. chosen' = [story |-> chosen.story, hits |-> chosen.hits, kept |-> clock]
    BY ONLY <1>5, <1>6
  <2>2. /\ chosen'.story = chosen.story /\ chosen'.hits = chosen.hits /\ chosen'.kept = clock
        /\ chosen' = [story |-> chosen'.story, hits |-> chosen'.hits, kept |-> chosen'.kept]
    BY <2>1
  <2>3. KeptInv'
    BY <1>1, <1>2, <1>4, <1>6, <2>2 DEF KeptInv, Kept
  <2>4. BestIsChosen'
    BY <1>3, <2>2 DEF BestIsChosen
  <2> QED BY <1>2, <1>3, <1>6, <2>2, <2>3, <2>4, UserGoesOn
<1>7. CASE /\ redis' = [s \in DOMAIN redis \cup {chosen.story} |->
                          IF s = chosen.story THEN Forever ELSE redis[s]]
           /\ pusher' = "expire" /\ UNCHANGED <<users, chosen, pushFaults, passed>>
  <2>1. /\ DOMAIN redis \subseteq DOMAIN redis' /\ chosen.story \in DOMAIN redis'
        /\ \A s \in DOMAIN redis' : redis'[s] = Forever \/ (s \in DOMAIN redis /\ redis'[s] = redis[s])
    BY <1>7
  <2>2. \A s \in DOMAIN redis' : redis'[s] \in Nat
    BY <1>1, <1>4, <2>1
  <2>3. ASSUME NEW m \in told
        PROVE  m.story \in DOMAIN redis' /\ redis'[m.story] > m.kept /\ m.kept \in 0..clock
    <3>1. m.story \in DOMAIN redis /\ redis[m.story] > m.kept /\ m.kept \in 0..clock
      BY <1>4
    <3>2. m.story \in DOMAIN redis' /\ (redis'[m.story] = Forever \/ redis'[m.story] = redis[m.story])
      BY <2>1, <3>1
    <3> QED BY <1>1, <3>1, <3>2
  <2>4. KeptInv'
    BY <1>2, <1>7, <2>1, <2>2, <2>3 DEF KeptInv
  <2>5. BestIsChosen'
    BY <1>3, <1>7 DEF BestIsChosen
  <2> QED BY <1>2, <1>3, <1>5, <1>7, <2>4, <2>5, UserGoesOn
<1>8. CASE PushFault /\ UNCHANGED redis
  <2>1. PassOver /\ pushFaults' \in Nat
    BY <1>3, <1>8 DEF PushFault
  <2> QED BY <1>1, <1>2, <1>4, <1>8, <2>1, FaultPasses
<1> QED BY <1>6, <1>7, <1>8 DEF SaveRecContent

LEMMA ExpirePushes ==
  ASSUME TimeInv, PushInv, UNCHANGED clock, ExpireRecContent
  PROVE  PushInv'
<1>1. clock \in Nat /\ ContentExpire \in Nat /\ ContentExpire > 0
  BY NowIsNatural, NewsPushConstantsOK
<1>2. pusher = "expire" /\ UNCHANGED <<view, nodePos, requests, share, told>>
  BY DEF ExpireRecContent
<1>3. pushFaults \in Nat /\ requests \in Nat /\ KeptInv /\ BestIsChosen
  BY DEF PushInv, PushTyped
<1>4. /\ \A s \in DOMAIN redis : redis[s] \in Nat
      /\ \A m \in told : m.story \in DOMAIN redis /\ redis[m.story] > m.kept /\ m.kept \in 0..clock
      /\ chosen.story \in DOMAIN redis
  BY <1>2, <1>3 DEF KeptInv
<1>5. chosen = [story |-> chosen.story, hits |-> chosen.hits, kept |-> chosen.kept]
  BY DEF PushInv, PushTyped
<1>6. CASE /\ redis' = [redis EXCEPT ![chosen.story] = clock + ContentExpire]
           /\ pusher' = "send" /\ chosen' = [chosen EXCEPT !.kept = clock]
           /\ UNCHANGED <<users, broken, pushFaults, passed>>
  <2>1. chosen' = [story |-> chosen.story, hits |-> chosen.hits, kept |-> clock]
    BY ONLY <1>5, <1>6
  <2>2. /\ chosen'.story = chosen.story /\ chosen'.hits = chosen.hits /\ chosen'.kept = clock
        /\ chosen' = [story |-> chosen'.story, hits |-> chosen'.hits, kept |-> chosen'.kept]
    BY <2>1
  <2>3. /\ DOMAIN redis' = DOMAIN redis /\ redis'[chosen.story] = clock + ContentExpire
        /\ \A s \in DOMAIN redis : redis'[s] = clock + ContentExpire \/ redis'[s] = redis[s]
    BY <1>4, <1>6
  <2>4. clock + ContentExpire \in Nat /\ clock + ContentExpire > clock
    BY <1>1
  <2>5. \A s \in DOMAIN redis' : redis'[s] \in Nat
    BY <1>4, <2>3, <2>4
  <2>6. ASSUME NEW m \in told
        PROVE  m.story \in DOMAIN redis' /\ redis'[m.story] > m.kept /\ m.kept \in 0..clock
    <3>1. m.story \in DOMAIN redis /\ redis[m.story] > m.kept /\ m.kept \in 0..clock
      BY <1>4
    <3>2. redis'[m.story] = clock + ContentExpire \/ redis'[m.story] = redis[m.story]
      BY <2>3, <3>1
    <3> QED BY <1>1, <2>3, <3>1, <3>2
  <2>7. KeptInv'
    BY <1>1, <1>2, <1>4, <1>6, <2>2, <2>3, <2>4, <2>5, <2>6 DEF KeptInv
  <2>8. BestIsChosen'
    BY <1>3, <2>2 DEF BestIsChosen
  <2> QED BY <1>2, <1>3, <1>6, <2>2, <2>7, <2>8, UserGoesOn
<1>7. CASE PushFault /\ UNCHANGED redis
  <2>1. PassOver /\ pushFaults' \in Nat
    BY <1>3, <1>7 DEF PushFault
  <2> QED BY <1>1, <1>2, <1>4, <1>7, <2>1, FaultPasses
<1> QED BY <1>6, <1>7 DEF ExpireRecContent

LEMMA SendPushes ==
  ASSUME TimeInv, PushInv, UNCHANGED clock, SendNews
  PROVE  PushInv'
<1>1. clock \in Nat
  BY NowIsNatural
<1>2. pusher = "send" /\ UNCHANGED <<view, nodePos, redis, broken, requests, share>>
  BY DEF SendNews
<1>3. pushFaults \in Nat /\ requests \in Nat /\ KeptInv
  BY DEF PushInv, PushTyped
<1>4. /\ \A s \in DOMAIN redis : redis[s] \in Nat
      /\ \A m \in told : m.story \in DOMAIN redis /\ redis[m.story] > m.kept /\ m.kept \in 0..clock
      /\ chosen.story \in DOMAIN redis /\ redis[chosen.story] > chosen.kept /\ chosen.kept \in 0..clock
  BY <1>2, <1>3 DEF KeptInv
<1>5. Message.user = Head(users) /\ Message.story = chosen.story /\ Message.kept = chosen.kept
  BY DEF Message
<1> DEFINE m0 == Message
<1> HIDE DEF m0
<1>6. m0.user = Head(users) /\ m0.story = chosen.story /\ m0.kept = chosen.kept
  BY <1>5 DEF m0
<1>7. told' \in {told, told \cup {m0}}
  BY DEF SendNews, m0
<1>8. told \subseteq told' /\ \A m \in told' :
        m.story \in DOMAIN redis' /\ redis'[m.story] > m.kept /\ m.kept \in 0..clock
  <2>1. redis' = redis
    BY <1>2
  <2> QED BY <1>4, <1>6, <1>7, <2>1
<1>9. CASE told' = told \cup {m0} /\ GoOn(TRUE) /\ UNCHANGED <<pushFaults, passed>>
  <2>1. \E m \in told' : m.user = Head(users)
    BY <1>6, <1>9
  <2> QED BY <1>1, <1>2, <1>3, <1>4, <1>8, <1>9, <2>1, UserDone
<1>10. CASE PushFault
  <2>1. PassOver /\ pushFaults' \in Nat
    BY <1>3, <1>10 DEF PushFault
  <2> QED BY <1>1, <1>2, <1>4, <1>8, <2>1, FaultPasses
<1> QED BY <1>9, <1>10 DEF SendNews, m0

LEMMA FatalPushes ==
  ASSUME PushInv, UNCHANGED clock, RedisFatal
  PROVE  PushInv'
<1> USE DEF PushInv
<1>1. /\ pusher = "save" /\ pusher' = "idle" /\ users' = <<>> /\ chosen' = NoStory
      /\ passed' = passed \cup ToSet(users)
      /\ UNCHANGED <<view, nodePos, redis, requests, share, told>>
  BY DEF RedisFatal
<1>2. pushFaults' \in Nat /\ requests' \in Nat
  BY <1>1 DEF RedisFatal, PushTyped
<1>3. /\ NoStory = [story |-> NoStory.story, hits |-> NoStory.hits, kept |-> NoStory.kept]
      /\ NoStory.hits = <<>>
  BY DEF NoStory
<1>4. <<>> \in Seq(User) /\ ToSet(<<>>) = {}
  BY DEF ToSet
<1>5. PushTyped'
  <2>1. passed' \subseteq share
    BY <1>1 DEF PushTyped
  <2> QED BY <1>1, <1>2, <1>3, <1>4, <2>1 DEF PushTyped
<1>6. UsersLeft' /\ KeptInv' /\ BestIsChosen'
  BY <1>1, <1>3 DEF UsersLeft, KeptInv, BestIsChosen
<1> QED BY <1>5, <1>6

LEMMA ViewPushes ==
  ASSUME PushInv, UNCHANGED clock, ChangeView
  PROVE  PushInv'
<1> USE DEF PushInv
<1>1. PushTyped'
  BY DEF PushTyped, ChangeView
<1>2. UsersLeft' /\ KeptInv' /\ BestIsChosen'
  BY DEF UsersLeft, KeptInv, BestIsChosen, ChangeView
<1> QED BY <1>1, <1>2

-----------------------------------------------------------------------------
(***************************************************************************)
(* The four composed                                                       *)
(***************************************************************************)
LEMMA NewsStarts == Init => NewsInv
<1> SUFFICES ASSUME Init PROVE NewsInv
  OBVIOUS
<1>1. /\ scene \in Scenes /\ scene.moments \subseteq 1..(Forever - 1)
      /\ \E first \in scene.moments : \A t \in scene.moments : first <= t
  BY NewsScenesOK DEF Init
<1>2. /\ scene.listed \subseteq Url /\ scene.coming \subseteq Url \ scene.listed
      /\ DOMAIN scene.rows \subseteq scene.listed
      /\ \A u \in DOMAIN scene.rows : scene.rows[u] \in Nat /\ \A t \in scene.moments : scene.rows[u] <= t
      /\ {scene.requests, scene.crawlFaults, scene.rankFaults, scene.pushFaults} \subseteq Nat
  BY <1>1, NewsScenesOK
<1>3. TimeInv
  <2>1. clock = CHOOSE t \in scene.moments : \A r \in scene.moments : t <= r
    BY DEF Init
  <2> QED BY <1>1, <2>1 DEF TimeInv
<1>4. clock \in Nat
  BY <1>3, NowIsNatural
<1> DEFINE row(u) == [NewsInfo(SiteOf(u), Page[u]) EXCEPT !.updated = scene.rows[u]]
           begun == [u \in DOMAIN scene.rows |-> row(u)]
<1>5. /\ news = begun /\ listed = scene.listed /\ coming = scene.coming
      /\ visited = [s \in Site |-> {}] /\ lastClear = [s \in Site |-> 0]
      /\ crawler = [s \in Site |-> IF s \in scene.sites THEN "asleep" ELSE "off"]
      /\ started = [s \in Site |-> 0] /\ tasks = [s \in Site |-> <<>>]
      /\ unsaved = [s \in Site |-> <<>>] /\ crawlFaults = scene.crawlFaults
      /\ lost = [s \in Site |-> {}]
  BY DEF Init, CrawlInit
<1>6. ASSUME NEW u \in DOMAIN scene.rows PROVE RowOK(u, row(u))
  <2>1. u \in Url /\ scene.rows[u] \in 0..clock
    BY <1>2, <1>3, <1>4 DEF TimeInv
  <2> DEFINE r == NewsInfo(SiteOf(u), Page[u])
             n == row(u)
  <2>2. RowOK(u, r)
    BY <1>4, <2>1, NewRow
  <2>3. n = [r EXCEPT !.updated = scene.rows[u]]
    OBVIOUS
  <2>4. r = [category |-> r.category, published |-> r.published, source |-> r.source,
             use |-> r.use, score |-> r.score, updated |-> r.updated]
    BY <2>2 DEF RowOK
  <2> HIDE DEF r, n
  <2>5. n = [category |-> r.category, published |-> r.published, source |-> r.source,
             use |-> r.use, score |-> r.score, updated |-> scene.rows[u]]
    BY ONLY <2>3, <2>4
  <2>6. /\ n.category = r.category /\ n.published = r.published /\ n.source = r.source
        /\ n.use = r.use /\ n.score = r.score /\ n.updated = scene.rows[u]
    BY <2>5
  <2>7. n = [category |-> n.category, published |-> n.published, source |-> n.source,
             use |-> n.use, score |-> n.score, updated |-> n.updated]
    BY <2>5, <2>6
  <2>8. n.updated \in 0..clock
    BY <2>1, <2>6
  <2>9. RowOK(u, n)
    BY <2>2, <2>6, <2>7, <2>8, Zenon DEF RowOK
  <2> QED BY <2>9 DEF n
<1>7. RowsInv
  <2>1. DOMAIN news = DOMAIN scene.rows /\ news = [u \in DOMAIN news |-> news[u]]
    BY <1>5
  <2>2. \A u \in DOMAIN news : RowOK(u, news[u])
    <3>1. \A u \in DOMAIN scene.rows : news[u] = row(u)
      BY <1>5
    <3> HIDE DEF row
    <3> QED BY <1>6, <2>1, <3>1
  <2> QED BY <1>2, <1>5, <2>1, <2>2 DEF RowsInv
<1> HIDE DEF begun
<1>8. CrawlTyped
  <2>1. <<>> \in Seq(Tasks) /\ <<>> \in Seq(Url)
    OBVIOUS
  <2>2. tasks \in [Site -> Seq(Tasks)] /\ unsaved \in [Site -> Seq(Url)]
    BY <1>5, <2>1
  <2> QED BY <1>2, <1>5, <2>2 DEF CrawlTyped
<1>9. ASSUME NEW s \in Site PROVE SiteInv(s)
  <2>1. tasks[s] = <<>> /\ unsaved[s] = <<>> /\ visited[s] = {} /\ DOMAIN <<>> = {}
    BY <1>5
  <2> QED BY <2>1, Elements DEF SiteInv, HandInv, AccountedInv, Listed
<1>10. RankInv
  <2>1. /\ ranker = "asleep" /\ lastRanking = 0 /\ rankingTime = 0 /\ hotTerms = NoTerms
        /\ docs = {} /\ results = {} /\ looked = 0 /\ rankFaults = scene.rankFaults /\ pass = NoPass
    BY DEF Init, RankInit
  <2>2. /\ NoPass = [hot |-> NoPass.hot, docs |-> NoPass.docs, hotAt |-> NoPass.hotAt,
                     docsAt |-> NoPass.docsAt, failed |-> NoPass.failed]
        /\ NoPass.failed \in BOOLEAN /\ DOMAIN NoTerms = {}
    BY DEF NoPass, NoTerms
  <2>3. RankTyped
    BY <1>2, <1>4, <2>1, <2>2 DEF RankTyped
  <2> QED BY <2>1, <2>3 DEF RankInv, PassReads, PassDone
<1>11. PushInv
  <2>1. /\ view \in View /\ pusher = "idle" /\ users = <<>> /\ chosen = NoStory
        /\ redis = [s \in {} |-> 0] /\ requests = scene.requests /\ pushFaults = scene.pushFaults
        /\ share = {} /\ told = {} /\ passed = {}
    BY DEF Init, PushInit
  <2>2. /\ NoStory = [story |-> NoStory.story, hits |-> NoStory.hits, kept |-> NoStory.kept]
        /\ NoStory.hits = <<>>
    BY DEF NoStory
  <2>3. <<>> \in Seq(User) /\ ToSet(<<>>) = {}
    BY DEF ToSet
  <2>4. PushTyped
    BY <1>2, <2>1, <2>2, <2>3 DEF PushTyped
  <2>5. UsersLeft /\ KeptInv /\ BestIsChosen
    BY <2>1, <2>2 DEF UsersLeft, KeptInv, BestIsChosen
  <2> QED BY <2>4, <2>5 DEF PushInv
<1> QED BY <1>3, <1>7, <1>8, <1>9, <1>10, <1>11 DEF NewsInv, CrawlInv

\* The push, while the others run or time passes.
LEMMA PushWaits ==
  ASSUME PushInv, clock \in Nat, clock' \in Nat, clock <= clock', UNCHANGED pushVars
  PROVE  PushInv'
<1> USE DEF PushInv
<1>1. PushTyped'
  BY DEF PushTyped, pushVars
<1>2. UsersLeft' /\ BestIsChosen'
  BY DEF UsersLeft, BestIsChosen, pushVars
<1>3. UNCHANGED <<redis, told, pusher, chosen>>
  BY DEF pushVars
<1>4. KeptInv'
  <2>1. \A n \in 0..clock : n \in 0..clock'
    OBVIOUS
  <2> QED BY <1>3, <2>1 DEF KeptInv
<1> QED BY <1>1, <1>2, <1>4

LEMMA TickKeeps ==
  ASSUME NewsInv, Tick
  PROVE  NewsInv'
<1> USE DEF NewsInv
<1>1. clock' \in scene.moments /\ clock' > clock /\ UNCHANGED <<scene, crawlVars, rankVars, pushVars>>
  BY DEF Tick
<1>2. TimeInv'
  BY <1>1 DEF TimeInv
<1>3. clock \in Nat /\ clock' \in Nat /\ clock <= clock'
  BY <1>1, <1>2, NowIsNatural
<1>4. CrawlInv'
  <2>1. UNCHANGED <<news, listed, coming>>
    BY <1>1 DEF crawlVars
  <2>2. RowsInv'
    <3>1. \A n \in 0..clock : n \in 0..clock'
      BY <1>3
    <3>2. ASSUME NEW u \in DOMAIN news PROVE RowOK(u, news[u])'
      <4>1. RowOK(u, news[u])
        BY DEF CrawlInv, RowsInv
      <4> QED BY <2>1, <3>1, <4>1, Zenon DEF RowOK
    <3> QED BY <2>1, <3>2 DEF CrawlInv, RowsInv
  <2>3. CrawlTyped'
    BY <1>1 DEF CrawlInv, CrawlTyped, crawlVars
  <2>4. ASSUME NEW r \in Site PROVE SiteInv(r)'
    BY <1>1, SiteStays DEF CrawlInv, crawlVars
  <2> QED BY <2>2, <2>3, <2>4 DEF CrawlInv
<1>5. RankInv'
  <2>1. RowsMove /\ \A u \in DOMAIN news : news'[u] = news[u]
    BY <1>1 DEF crawlVars, RowsMove
  <2> QED BY <1>1, <1>2, <1>3, <2>1, RankWaits
<1>6. PushInv'
  BY <1>1, <1>3, PushWaits
<1> QED BY <1>2, <1>4, <1>5, <1>6

LEMMA NewsInvHolds == Spec => []NewsInv
<1>1. NewsInv /\ [Next]_vars => NewsInv'
  <2> SUFFICES ASSUME NewsInv, [Next]_vars PROVE NewsInv'
    OBVIOUS
  <2> USE DEF NewsInv
  <2>1. clock \in Nat /\ clock <= clock
    BY NowIsNatural
  <2>2. CASE CrawlNext /\ UNCHANGED <<scene, clock, rankVars, pushVars>>
    <3>1. TimeInv' /\ UNCHANGED <<clock, rankVars>> /\ UNCHANGED pushVars
      BY <2>2 DEF TimeInv
    <3>2. CrawlInv'
      BY <2>2, CrawlKeeps
    <3>3. RankInv'
      BY <2>1, <2>2, <3>1, CrawlAdds, RankWaits
    <3> QED BY <2>1, <3>1, <3>2, <3>3, PushWaits
  <2>3. CASE RankNext /\ UNCHANGED <<scene, clock, listed, coming, crawlers, crawlFaults, pushVars>>
    <3>1. TimeInv' /\ UNCHANGED clock /\ UNCHANGED pushVars
      BY <2>3 DEF TimeInv
    <3>2. PushInv'
      BY <2>1, <3>1, PushWaits
    <3>3. CASE WriteDoc
      <4>1. /\ CrawlInv' /\ DOMAIN news' = DOMAIN news
            /\ \A u \in DOMAIN news : news'[u].updated \in {news[u].updated, clock}
        BY <2>3, <3>3, WriteKeepsCrawl DEF RankInv
      <4>2. RankInv'
        BY <3>1, <3>3, <4>1, WriteRanks
      <4> QED BY <3>1, <3>2, <4>1, <4>2
    <3>4. CASE UNCHANGED news /\ (WakeRanker \/ ReadHotDocs \/ ReadRankingDocs \/ RankingEnds
                                  \/ RankerRestart)
      <4>1. RowsInv'
        BY <2>3, <3>4, RowsStay DEF CrawlInv
      <4>2. CrawlTyped'
        BY <2>3 DEF CrawlInv, CrawlTyped, crawlers
      <4>3. ASSUME NEW r \in Site PROVE SiteInv(r)'
        BY <2>3, <3>4, SiteStays DEF CrawlInv, crawlers
      <4>4. RankInv'
        BY <3>1, <3>4, WakeRanks, HotDocsRank, RankingDocsRank, EndRanks, RestartRanks
      <4> QED BY <3>1, <3>2, <4>1, <4>2, <4>3, <4>4 DEF CrawlInv
    <3> QED BY <2>3, <3>3, <3>4 DEF RankNext
  <2>4. CASE PushNext /\ UNCHANGED <<scene, clock, crawlVars, rankVars>>
    <3>1. TimeInv' /\ UNCHANGED <<clock, rankVars>> /\ UNCHANGED <<news, listed, coming>>
      BY <2>4 DEF TimeInv, crawlVars
    <3>2. PushInv'
      BY <2>1, <2>4, <3>1, BeginPushes, UsersPush, WatchPushes, ListPushes, SavePushes,
         ExpirePushes, SendPushes, FatalPushes, ViewPushes DEF PushNext
    <3>3. CrawlInv'
      <4>1. RowsInv'
        BY <3>1, RowsStay DEF CrawlInv
      <4>2. CrawlTyped'
        BY <2>4 DEF CrawlInv, CrawlTyped, crawlVars
      <4>3. ASSUME NEW r \in Site PROVE SiteInv(r)'
        BY <2>4, SiteStays DEF CrawlInv, crawlVars
      <4> QED BY <4>1, <4>2, <4>3 DEF CrawlInv
    <3>4. RankInv'
      <4>1. RowsMove /\ \A u \in DOMAIN news : news'[u] = news[u]
        BY <3>1 DEF RowsMove
      <4> QED BY <2>1, <3>1, <4>1, RankWaits
    <3> QED BY <3>1, <3>2, <3>3, <3>4
  <2>5. CASE UNCHANGED vars
    <3>1. /\ UNCHANGED <<scene, clock>> /\ UNCHANGED crawlVars /\ UNCHANGED rankVars
          /\ UNCHANGED pushVars
      BY <2>5 DEF vars
    <3>2. TimeInv' /\ UNCHANGED <<news, listed, coming>>
      BY <3>1 DEF TimeInv, crawlVars
    <3>3. CrawlInv'
      <4>1. RowsInv'
        BY <3>1, <3>2, RowsStay DEF CrawlInv
      <4>2. CrawlTyped'
        BY <3>1 DEF CrawlInv, CrawlTyped, crawlVars
      <4>3. ASSUME NEW r \in Site PROVE SiteInv(r)'
        BY <3>1, SiteStays DEF CrawlInv, crawlVars
      <4> QED BY <4>1, <4>2, <4>3 DEF CrawlInv
    <3>4. RankInv'
      <4>1. RowsMove /\ \A u \in DOMAIN news : news'[u] = news[u]
        BY <3>2 DEF RowsMove
      <4> QED BY <2>1, <3>1, <3>2, <4>1, RankWaits
    <3>5. PushInv'
      BY <2>1, <3>1, PushWaits
    <3> QED BY <3>2, <3>3, <3>4, <3>5
  <2> QED BY <2>2, <2>3, <2>4, <2>5, TickKeeps DEF Next
<1> QED BY <1>1, NewsStarts, PTL DEF Spec

\* Every story was written at a moment that has been.
LEMMA WrittenInNat ==
  ASSUME NewsInv
  PROVE  \A u \in DOMAIN news : news[u].updated \in Nat
<1>1. clock \in Nat
  BY NowIsNatural DEF NewsInv, TimeInv
<1>2. \A u \in DOMAIN news : news[u].updated \in 0..clock
  BY Zenon DEF NewsInv, CrawlInv, RowsInv, RowOK
<1> QED BY <1>1, <1>2

-----------------------------------------------------------------------------
(***************************************************************************)
(* The theorems                                                            *)
(***************************************************************************)
\* The variables of the crawler, of the ranker and of the push hold what their code keeps in
\* them, however their steps interleave.
THEOREM NewsTypes == Spec => []TypeOK
<1>1. NewsInv => TypeOK
  <2> SUFFICES ASSUME NewsInv PROVE TypeOK
    OBVIOUS
  <2> USE DEF NewsInv
  <2>1. CrawlTypeOK
    <3>1. \A u \in DOMAIN news :
            /\ news[u].category \in BOOLEAN /\ news[u].source \in {"", Page[u].source}
            /\ news[u].published \in Int /\ news[u].use \in {"training", "recommend"}
      BY Zenon DEF CrawlInv, RowsInv, RowOK
    <3>2. \A u \in DOMAIN news : news[u].updated \in Nat
      BY WrittenInNat
    <3>3. ASSUME NEW s \in Site, NEW t \in DOMAIN tasks[s]
          PROVE  /\ tasks[s][t].todo \in Seq(Url) /\ tasks[s][t].got \in Seq(Url)
                 /\ tasks[s][t].fetching \in BOOLEAN
      <4>1. tasks[s] \in Seq(Tasks)
        BY DEF CrawlInv, CrawlTyped
      <4>2. tasks[s][t] \in Tasks
        BY <4>1
      <4> QED BY <4>2 DEF Tasks
    <3> QED BY <3>1, <3>2, <3>3 DEF CrawlTypeOK, CrawlInv, RowsInv, CrawlTyped
  <2>2. RankTypeOK
    BY DEF RankTypeOK, RankInv, RankTyped
  <2>3. PushTypeOK
    BY DEF PushTypeOK, PushInv, PushTyped, KeptInv
  <2> QED BY <2>1, <2>2, <2>3 DEF TypeOK
<1> QED BY <1>1, NewsInvHolds, PTL

\* Whatever the content threads, the saves, the failures and the restarts do, a page visited
\* and of use is stored, in hand, or one that a failed call lost (FetcherThread::Process).
THEOREM NewsIsAccountedFor == Spec => []NewsAccountedFor
<1>1. NewsInv => NewsAccountedFor
  BY DEF NewsInv, CrawlInv, SiteInv, AccountedInv, NewsAccountedFor
<1> QED BY <1>1, NewsInvHolds, PTL

\* A ranker at rest has ranked the day, but for a failed call, midnight, or a write in the
\* very second it keeps (RankingThread::IfExecutingTask, ExecuteTask).
THEOREM RankingSettles == Spec => []SettledIsRanked
<1>1. NewsInv => SettledIsRanked
  <2> DEFINE ds == DailyDocs(lastRanking)
             terms == TopnTerms(TermFreq(ds), MaxTermCount)
             missed == {u \in ds : news[u].updated = lastRanking /\ u \notin pass.hot \cap pass.docs}
  <2> SUFFICES ASSUME NewsInv, Settled, ~ pass.failed,
                      {Day(pass.hotAt), Day(pass.docsAt)} = {Day(lastRanking)}, missed = {},
                      NEW u \in ds, Hits(u, terms)
               PROVE  news[u].score = Score(u, terms)
    BY DEF SettledIsRanked
  <2> USE DEF NewsInv
  <2>1. /\ Snapshot(pass.hot, pass.hotAt, lastRanking)
        /\ Snapshot(pass.docs, pass.docsAt, lastRanking)
        /\ \A v \in pass.docs :
             Hits(v, TermsOf(pass.hot)) => news[v].score = Score(v, TermsOf(pass.hot))
    BY DEF RankInv, PassDone, Settled
  <2>2. Day(pass.hotAt) = Day(lastRanking) /\ Day(pass.docsAt) = Day(lastRanking)
    OBVIOUS
  <2>3. lastRanking \in Nat /\ \A v \in DOMAIN news : news[v].updated \in Nat /\ news[v].updated <= lastRanking
    <3>1. lastRanking \in Nat
      BY DEF RankInv, RankTyped
    <3>2. \A v \in DOMAIN news : news[v].updated \in Nat
      BY WrittenInNat
    <3> QED BY <3>1, <3>2 DEF Settled, WrittenSince
  <2>4. ASSUME NEW read, NEW at, Snapshot(read, at, lastRanking), Day(at) = Day(lastRanking),
               \A v \in ds : news[v].updated = lastRanking => v \in read
        PROVE  read = ds
    <3>1. ASSUME NEW v \in read PROVE v \in ds
      <4>1. v \in DOMAIN news /\ Day(news[v].updated) >= Day(at)
        BY <2>4 DEF Snapshot
      <4>2. Day(news[v].updated) <= Day(lastRanking) /\ Day(news[v].updated) \in Nat /\ Day(lastRanking) \in Nat
        BY <2>3, <4>1, DaysInOrder
      <4>3. Day(news[v].updated) = Day(lastRanking)
        BY <2>4, <4>1, <4>2
      <4> QED BY <4>1, <4>3 DEF DailyDocs
    <3>2. ASSUME NEW v \in ds PROVE v \in read
      <4>1. v \in DOMAIN news /\ Day(news[v].updated) = Day(lastRanking)
        BY DEF DailyDocs
      <4>2. CASE news[v].updated = lastRanking
        BY <2>4, <4>2
      <4>3. CASE news[v].updated # lastRanking
        <5>1. news[v].updated < lastRanking
          BY <2>3, <4>1, <4>3
        <5> QED BY <2>4, <4>1, <5>1 DEF Snapshot
      <4> QED BY <4>2, <4>3
    <3> QED BY <3>1, <3>2
  <2>5. \A v \in ds : news[v].updated = lastRanking => v \in pass.hot /\ v \in pass.docs
    OBVIOUS
  <2>6. pass.hot = ds
    <3> HIDE DEF ds
    <3> QED BY <2>1, <2>2, <2>4, <2>5
  <2>7. pass.docs = ds
    <3> HIDE DEF ds
    <3> QED BY <2>1, <2>2, <2>4, <2>5
  <2>8. TermsOf(pass.hot) = terms
    BY <2>6 DEF TermsOf
  <2> HIDE DEF ds, terms
  <2> QED BY <2>1, <2>7, <2>8
<1> QED BY <1>1, NewsInvHolds, PTL

\* A round reaches every user of the node, keeps what it tells them of, and tells them of the
\* best story there is (NewsPushProcessor::Process).
THEOREM PushIsSound == Spec => []PushedIsSound
<1>1. NewsInv => PushedIsSound
  <2> SUFFICES ASSUME NewsInv PROVE PushedIsSound
    OBVIOUS
  <2> USE DEF NewsInv, PushInv
  <2>1. RoundServesAll
    <3>1. pusher = "idle" => ToSet(users) = {}
      BY DEF PushTyped, ToSet
    <3> QED BY <3>1 DEF UsersLeft, RoundServesAll
  <2>2. ToldIsKept
    BY DEF KeptInv, ToldIsKept
  <2> QED BY <2>1, <2>2 DEF PushedIsSound
<1> QED BY <1>1, NewsInvHolds, PTL
=============================================================================
