------------------------- MODULE ZkMembership_proofs -------------------------
(***************************************************************************)
(* Proofs about ZkMembership, for any number of processes, crashes and     *)
(* lost connections: once the cluster has come to rest all tables agree on *)
(* the processes that are there and share out the whole partition, and     *)
(* every running process has one leaf, but for the causes                  *)
(* RegistrationHasCause names.                                             *)
(***************************************************************************)
EXTENDS ZkMembership, FiniteSetTheorems, TLAPS

-----------------------------------------------------------------------------
(***************************************************************************)
(* The inductive invariant                                                 *)
(***************************************************************************)
Name == {"connected", "children"}
Label == {"idle", "check", "create", "list", "read"}

ListsFinite == IsFiniteSet(leaves) /\ \A n \in Node : IsFiniteSet(listed[n])

\* Sessions are numbered as they come; a connected process has one that is alive, no two
\* processes share one, and no handler runs in a process that is down.
SessionsApart ==
  /\ nextId >= 1
  /\ \A s \in alive : s # 0 /\ s < nextId
  /\ \A n \in Node : session[n] < nextId
  /\ \A n \in Node : link[n] => Running(n) /\ session[n] \in alive
  /\ \A m, n \in Node : Running(n) /\ session[m] = session[n] => m = n
  /\ \A n \in Node : pc[n] # "idle" \/ events[n] # <<>> => Running(n)

\* A leaf lives as long as its session, has a number of its own and belongs to the process
\* that has the session.
LeavesApart ==
  /\ \A l \in leaves : l.no < nextNo /\ l.session \in alive
  /\ \A l, m \in leaves : l.no = m.no => l = m
  /\ \A l \in leaves, n \in Node : l.session = session[n] => l.host = n

\* The watch is never lost: a connected process has an event to handle, is on its way to
\* the list, or has read or is reading the leaves as they are and will hear of a change.
Informed(n) ==
  \/ events[n] # <<>>
  \/ pc[n] \in {"check", "create", "list"}
  \/ pc[n] = "read" /\ listed[n] = leaves /\ watch[n] = "armed"
  \/ pc[n] = "idle" /\ table[n] = NodeSet(leaves, leaves) /\ watch[n] = "armed"
WatchKept == \A n \in Node : link[n] => Informed(n)

\* A process that has always read all the leaves knows whether it is registered.
Own(n) == {l \in leaves : l.session = session[n]}
OwnIsListed ==
  \A n \in Node \ blind : /\ pc[n] = "check" => Own(n) \subseteq listed[n]
                          /\ pc[n] = "create" => Own(n) = {}

\* A process started with no leaf of its own there has no leaf of a former life, and if it is
\* connected it is registered or about to be.
Has(n, e) == \E i \in DOMAIN events[n] : events[n][i] = e
OnlyOwn ==
  \A n \in Node \ early : Running(n) => \A l \in leaves : l.host = n => l.session = session[n]
Registered ==
  \A n \in Node \ early : link[n] =>
    \/ \E l \in leaves : l.host = n
    \/ Has(n, "connected")
    \/ pc[n] \in {"check", "create"}

TypeInv == TypeOK /\ ListsFinite
ApartInv == SessionsApart /\ LeavesApart
RegisterInv == OwnIsListed /\ TwiceHasCause /\ OnlyOwn /\ Registered

-----------------------------------------------------------------------------
(***************************************************************************)
(* Positions                                                               *)
(***************************************************************************)
\* A position is a number, and grows with the number of the leaf.
LEMMA Positions ==
  ASSUME NEW L \in SUBSET Leaf, IsFiniteSet(L)
  PROVE  /\ \A l \in L : PosIn(l, L) \in Nat /\ PosIn(l, L) < Cardinality(L)
         /\ \A l, m \in L : l.no < m.no => PosIn(l, L) < PosIn(m, L)
<1> DEFINE Below(l) == {m \in L : m.no < l.no}
<1>1. \A l : /\ Below(l) \in SUBSET L /\ IsFiniteSet(Below(l)) /\ PosIn(l, L) = Cardinality(Below(l))
             /\ Cardinality(Below(l)) \in Nat
  BY FS_Subset, FS_CardinalityType DEF PosIn
<1>2. Cardinality(L) \in Nat
  BY FS_CardinalityType
<1>3. \A l \in L : l.no \in Nat
  BY DEF Leaf
<1>4. ASSUME NEW l \in L PROVE Cardinality(Below(l)) < Cardinality(L)
  <2>1. l \notin Below(l)
    BY <1>3
  <2> HIDE DEF Below
  <2>2. Cardinality(Below(l)) <= Cardinality(L) /\ Cardinality(Below(l)) # Cardinality(L)
    BY <1>1, <2>1, FS_Subset
  <2> QED BY <1>1, <1>2, <2>2
<1>5. ASSUME NEW l \in L, NEW m \in L, l.no < m.no
      PROVE  Cardinality(Below(l)) < Cardinality(Below(m))
  <2>1. Below(l) \in SUBSET Below(m) /\ l \in Below(m) /\ l \notin Below(l)
    BY <1>3, <1>5
  <2> HIDE DEF Below
  <2>2. /\ Cardinality(Below(l)) <= Cardinality(Below(m))
        /\ Cardinality(Below(l)) # Cardinality(Below(m))
    BY <1>1, <2>1, FS_Subset
  <2> QED BY <1>1, <2>2
<1> HIDE DEF Below
<1> QED BY <1>1, <1>4, <1>5

LEMMA NodeSets ==
  ASSUME NEW L \in SUBSET Leaf, IsFiniteSet(L), NEW R \in SUBSET L
  PROVE  NodeSet(L, R) \in SUBSET NodeInfo
<1>1. \A l \in L : PosIn(l, L) \in Nat /\ l.no \in Nat /\ l.host \in Node
  BY Positions DEF Leaf
<1> QED BY <1>1 DEF NodeSet, NodeInfo

-----------------------------------------------------------------------------
(***************************************************************************)
(* Types                                                                   *)
(***************************************************************************)
\* What a change of the leaves does to watches and events.
LEMMA FireTypes ==
  ASSUME TypeOK, Fire
  PROVE  /\ watch' \in [Node -> {"none", "armed", "fired"}]
         /\ events' \in [Node -> Seq(Name)]
         /\ \A n \in Node : \/ watch'[n] = watch[n] /\ events'[n] = events[n] /\ watch[n] # "armed"
                            \/ watch[n] = "armed" /\ ~ link[n] /\ events'[n] = events[n]
                            \/ watch[n] = "armed" /\ link[n] /\ events'[n] # <<>>
         /\ \A n \in Node : \A e : Has(n, e) => Has(n, e)'
<1>1. /\ watch' = [n \in Node |-> IF watch[n] # "armed" THEN watch[n]
                                   ELSE IF link[n] THEN "none" ELSE "fired"]
      /\ events' = [n \in Node |-> IF watch[n] = "armed" /\ link[n]
                                     THEN Append(events[n], "children") ELSE events[n]]
  BY DEF Fire
<1>2. watch \in [Node -> {"none", "armed", "fired"}] /\ events \in [Node -> Seq(Name)]
  BY DEF TypeOK, Name
<1>3. \A n \in Node : /\ Append(events[n], "children") \in Seq(Name)
                      /\ Append(events[n], "children") # <<>>
                      /\ \A i \in DOMAIN events[n] :
                           /\ i \in DOMAIN Append(events[n], "children")
                           /\ Append(events[n], "children")[i] = events[n][i]
  BY <1>2 DEF Name
<1>4. \A n \in Node : /\ watch'[n] = IF watch[n] # "armed" THEN watch[n]
                                     ELSE IF link[n] THEN "none" ELSE "fired"
                      /\ events'[n] = IF watch[n] = "armed" /\ link[n]
                                        THEN Append(events[n], "children") ELSE events[n]
  BY <1>1
<1>5. watch' \in [Node -> {"none", "armed", "fired"}] /\ events' \in [Node -> Seq(Name)]
  BY <1>1, <1>2, <1>3
<1>6. \A n \in Node : \A e : Has(n, e) => Has(n, e)'
  BY <1>3, <1>4 DEF Has
<1> QED BY <1>3, <1>4, <1>5, <1>6

LEMMA StartTypes == Init => TypeInv
<1> SUFFICES ASSUME Init PROVE TypeInv
  OBVIOUS
<1>1. ListsFinite
  BY FS_EmptySet DEF Init, ListsFinite
<1> QED BY <1>1, MembershipConstantsOK DEF Init, TypeInv, TypeOK

LEMMA SessionTypes ==
  ASSUME TypeInv, NEW n \in Node,
         \/ Start(n) \/ Crash(n) \/ Disconnect(n) \/ Reconnect(n) \/ OnSessionExpired(n)
  PROVE  TypeInv'
<1>0. /\ link \in [Node -> BOOLEAN] /\ nextId \in Nat /\ alive \in SUBSET Nat
      /\ session \in [Node -> Nat] /\ events \in [Node -> Seq({"connected", "children"})]
      /\ watch \in [Node -> {"none", "armed", "fired"}]
  BY DEF TypeInv, TypeOK
<1>1. CASE Start(n) \/ OnSessionExpired(n)
  <2>1. <<"connected">> \in Seq({"connected", "children"})
    OBVIOUS
  <2>2. early' \subseteq Node
    BY <1>1 DEF TypeInv, TypeOK, Start, OnSessionExpired, hist
  <2>3. link' \in [Node -> BOOLEAN]
    BY <1>0, <1>1 DEF Start, OnSessionExpired, NewSession
  <2>4. nextId' = nextId + 1 /\ alive' = alive \cup {nextId}
    BY <1>1 DEF Start, OnSessionExpired, NewSession
  <2>5. nextId' \in Nat /\ alive' \in SUBSET Nat
    BY <1>0, <2>4
  <2>6. session' \in [Node -> Nat] /\ events' \in [Node -> Seq({"connected", "children"})]
    <3>1. /\ session' = [session EXCEPT ![n] = nextId]
          /\ events' = [events EXCEPT ![n] = <<"connected">>]
      BY <1>1 DEF Start, OnSessionExpired, NewSession
    <3>2. session' \in [Node -> Nat]
      BY <1>0, <3>1
    <3>3. events' \in [Node -> Seq({"connected", "children"})]
      BY <1>0, <2>1, <3>1
    <3> QED BY <3>2, <3>3
  <2>7. watch' \in [Node -> {"none", "armed", "fired"}]
    BY <1>0, <1>1 DEF Start, OnSessionExpired, NewSession
  <2>8. UNCHANGED <<leaves, nextNo, manager, blind, crashes, losses>>
    BY <1>1 DEF Start, OnSessionExpired, hist
  <2> QED BY <2>2, <2>3, <2>5, <2>6, <2>7, <2>8 DEF TypeInv, TypeOK, ListsFinite, manager
<1>2. CASE Crash(n)
  <2>1. link' \in [Node -> BOOLEAN]
    BY <1>0, <1>2 DEF Crash
  <2>2. session' \in [Node -> Nat] /\ watch' \in [Node -> {"none", "armed", "fired"}]
    BY <1>0, <1>2 DEF Crash
  <2>3. events' \in [Node -> Seq({"connected", "children"})]
    BY <1>0, <1>2 DEF Crash
  <2>4. /\ pc' \in [Node -> Label] /\ listed' \in [Node -> SUBSET Leaf]
        /\ \A m \in Node : IsFiniteSet(listed'[m])
    BY <1>2, FS_EmptySet DEF Crash, TypeInv, TypeOK, ListsFinite, Label
  <2>5. table' \in [Node -> SUBSET NodeInfo] /\ crashes' \in 0..MaxCrashes
    BY <1>2, MembershipConstantsOK DEF Crash, TypeInv, TypeOK
  <2> QED BY <1>2, <2>1, <2>2, <2>3, <2>4, <2>5 DEF TypeInv, TypeOK, ListsFinite, Crash, zk, Label
<1>3. CASE Disconnect(n)
  <2>1. link' \in [Node -> BOOLEAN]
    BY <1>0, <1>3 DEF Disconnect
  <2>2. losses' \in 0..MaxLosses
    BY <1>3, MembershipConstantsOK DEF Disconnect, TypeInv, TypeOK
  <2> QED BY <1>3, <2>1, <2>2 DEF TypeInv, TypeOK, ListsFinite, Disconnect, zk, manager
<1>4. CASE Reconnect(n)
  <2>1. events[n] \in Seq(Name)
    BY DEF TypeInv, TypeOK, Name
  <2>2. /\ events[n] \o <<"connected", "children">> \in Seq(Name)
        /\ events[n] \o <<"connected">> \in Seq(Name)
    BY <2>1 DEF Name
  <2>3. events' \in [Node -> Seq(Name)]
    BY <1>4, <2>2 DEF TypeInv, TypeOK, Reconnect, Name
  <2> QED BY <1>4, <2>3 DEF TypeInv, TypeOK, ListsFinite, Reconnect, zk, manager, hist, Name
<1> QED BY <1>1, <1>2, <1>3, <1>4

LEMMA ExpireTypes == ASSUME TypeInv, NEW s \in alive, Expire(s) PROVE TypeInv'
<1>1. leaves' \in SUBSET leaves /\ IsFiniteSet(leaves')
  BY FS_Subset DEF Expire, TypeInv, ListsFinite
<1>2. watch' \in [Node -> {"none", "armed", "fired"}] /\ events' \in [Node -> Seq(Name)]
  BY FireTypes DEF Expire, TypeInv, TypeOK, Name
<1> QED BY <1>1, <1>2 DEF TypeInv, TypeOK, ListsFinite, Expire, client, manager, hist, Name

LEMMA HandlerTypes == ASSUME TypeInv, NEW n \in Node, Handler(n) PROVE TypeInv'
<1>1. /\ TypeOK /\ leaves \in SUBSET Leaf /\ IsFiniteSet(leaves) /\ pc \in [Node -> Label]
      /\ events \in [Node -> Seq(Name)] /\ IsFiniteSet(listed[n]) /\ listed[n] \in SUBSET Leaf
  BY DEF TypeInv, TypeOK, ListsFinite, Label, Name
<1>2. ASSUME NEW e, Handle(n, e) PROVE events' \in [Node -> Seq(Name)]
  BY <1>1, <1>2 DEF Handle
<1>3. CASE ResetIndexData(n)
  <2>1. events' \in [Node -> Seq(Name)]
    BY <1>2, <1>3 DEF ResetIndexData
  <2>2. /\ pc' \in [Node -> Label] /\ blind' \subseteq Node
        /\ listed' \in [Node -> SUBSET Leaf] /\ watch' \in [Node -> {"none", "armed", "fired"}]
        /\ \A m \in Node : IsFiniteSet(listed'[m])
    BY <1>1, <1>3 DEF ResetIndexData, GoTo, Arm, TypeInv, TypeOK, ListsFinite, Label
  <2> QED BY <1>3, <2>1, <2>2
          DEF TypeInv, TypeOK, ListsFinite, ResetIndexData, zk, client, Label, Name
<1>4. CASE CheckRegistered(n)
  BY <1>1, <1>4, FS_EmptySet DEF TypeInv, TypeOK, ListsFinite, CheckRegistered, GoTo, NeedToReRegister,
                    zk, client, Label
<1>5. CASE RegisterNode(n)
  <2>1. /\ leaves' \in SUBSET Leaf /\ IsFiniteSet(leaves') /\ nextNo' \in Nat
    <3>1. [no |-> nextNo, host |-> n, session |-> session[n]] \in Leaf
      BY <1>1 DEF TypeOK, Leaf
    <3> DEFINE l == [no |-> nextNo, host |-> n, session |-> session[n]]
    <3>2. \/ leaves' = leaves \cup {l} /\ nextNo' = nextNo + 1
          \/ leaves' = leaves /\ nextNo' = nextNo
      BY <1>5 DEF RegisterNode, zk
    <3>3. nextNo \in Nat
      BY <1>1 DEF TypeOK
    <3> HIDE DEF l
    <3>4. l \in Leaf
      BY <3>1 DEF l
    <3>5. IsFiniteSet(leaves \cup {l})
      BY <1>1, FS_AddElement
    <3>6. CASE leaves' = leaves \cup {l} /\ nextNo' = nextNo + 1
      BY <1>1, <3>3, <3>4, <3>5, <3>6
    <3>7. CASE leaves' = leaves /\ nextNo' = nextNo
      BY <1>1, <3>3, <3>7
    <3> QED BY <3>2, <3>6, <3>7
  <2>2. watch' \in [Node -> {"none", "armed", "fired"}] /\ events' \in [Node -> Seq(Name)]
    BY <1>1, <1>5, FireTypes DEF RegisterNode, TypeOK, Name
  <2> QED BY <1>5, <2>1, <2>2
          DEF TypeInv, TypeOK, ListsFinite, RegisterNode, GoTo, zk, client, hist, Name, Label
<1>6. CASE OnChildrenChanged(n)
  <2>1. events' \in [Node -> Seq(Name)]
    BY <1>2, <1>6 DEF OnChildrenChanged
  <2> QED BY <1>6, <2>1
          DEF TypeInv, TypeOK, ListsFinite, OnChildrenChanged, GoTo, zk, client, hist, Name
<1>7. CASE WatchNodeChildren(n)
  <2>1. pc' \in [Node -> Label]
    BY <1>1, <1>7 DEF WatchNodeChildren, GoTo, Label
  <2>2. /\ listed' \in [Node -> SUBSET Leaf] /\ watch' \in [Node -> {"none", "armed", "fired"}]
        /\ \A m \in Node : IsFiniteSet(listed'[m])
    BY <1>1, <1>7 DEF WatchNodeChildren, Arm, TypeInv, TypeOK, ListsFinite
  <2>3. table' \in [Node -> SUBSET NodeInfo]
    BY <1>7 DEF WatchNodeChildren, TypeInv, TypeOK
  <2> QED BY <1>7, <2>1, <2>2, <2>3
          DEF TypeInv, TypeOK, ListsFinite, WatchNodeChildren, zk, client, hist, Label
<1>8. CASE AddChildrenWatchPath(n)
  <2>1. PICK read \in Readable(n) : table' = [table EXCEPT ![n] = NodeSet(listed[n], read)]
    BY <1>8 DEF AddChildrenWatchPath
  <2>2. NodeSet(listed[n], read) \in SUBSET NodeInfo
    BY <1>1, NodeSets DEF Readable
  <2>3. table' \in [Node -> SUBSET NodeInfo]
    BY <2>1, <2>2 DEF TypeInv, TypeOK
  <2> QED BY <1>8, <2>3, FS_EmptySet
          DEF TypeInv, TypeOK, ListsFinite, AddChildrenWatchPath, GoTo, zk, client, hist
<1> QED BY <1>3, <1>4, <1>5, <1>6, <1>7, <1>8 DEF Handler

LEMMA NextTypes == TypeInv /\ [Next]_vars => TypeInv'
<1> SUFFICES ASSUME TypeInv, [Next]_vars PROVE TypeInv'
  OBVIOUS
<1>1. CASE UNCHANGED vars
  BY <1>1 DEF TypeInv, TypeOK, ListsFinite, vars, zk, client, manager, hist
<1> QED BY <1>1, SessionTypes, ExpireTypes, HandlerTypes DEF Next, Handler

\* ZkMembership's state has the types of TypeOK, in every behaviour.
THEOREM MembershipTypes == Spec => []TypeOK
<1>1. TypeInv => TypeOK
  BY DEF TypeInv
<1> QED BY <1>1, StartTypes, NextTypes, PTL DEF Spec
-----------------------------------------------------------------------------
(***************************************************************************)
(* Sessions and leaves                                                     *)
(***************************************************************************)
LEMMA StartApart == Init => ApartInv
<1> SUFFICES ASSUME Init PROVE ApartInv
  OBVIOUS
<1>1. /\ leaves = {} /\ alive = {} /\ nextId = 1
      /\ \A n \in Node : session[n] = 0 /\ ~ link[n] /\ pc[n] = "idle" /\ events[n] = <<>>
  BY DEF Init
<1> QED BY <1>1 DEF ApartInv, SessionsApart, LeavesApart, Running

\* What a step does to the sessions and the leaves of all processes.
LEMMA NewSessionApart ==
  ASSUME TypeInv, ApartInv, NEW n \in Node, NewSession(n), UNCHANGED <<leaves, nextNo, pc>>
  PROVE  ApartInv'
<1>1. /\ session \in [Node -> Nat] /\ nextId \in Nat /\ alive \in SUBSET Nat
      /\ SessionsApart /\ LeavesApart
  BY DEF TypeInv, TypeOK, ApartInv
<1>2. /\ \A m \in Node : session'[m] = IF m = n THEN nextId ELSE session[m]
      /\ \A m \in Node : m # n => link'[m] = link[m] /\ events'[m] = events[m]
      /\ alive' = alive \cup {nextId} /\ nextId' = nextId + 1
  BY <1>1 DEF NewSession, TypeInv, TypeOK
<1>3. nextId >= 1 /\ nextId # 0 /\ nextId < nextId' /\ \A s \in Nat : s < nextId => s < nextId' /\ s # nextId
  BY <1>1, <1>2 DEF SessionsApart
<1>4. ASSUME NEW m \in Node PROVE /\ session'[m] < nextId'
                                  /\ link'[m] => session'[m] # 0 /\ session'[m] \in alive'
                                  /\ pc'[m] # "idle" \/ events'[m] # <<>> => session'[m] # 0
  BY <1>1, <1>2, <1>3 DEF SessionsApart, Running
<1>5. ASSUME NEW m \in Node, NEW k \in Node, session'[k] # 0, session'[m] = session'[k] PROVE m = k
  BY <1>1, <1>2, <1>3, <1>5 DEF SessionsApart, Running
<1>6. \A s \in alive' : s # 0 /\ s < nextId'
  BY <1>1, <1>2, <1>3 DEF SessionsApart
<1>7. SessionsApart'
  <2>1. nextId' >= 1
    BY <1>1, <1>2
  <2> QED BY <1>4, <1>5, <1>6, <2>1 DEF SessionsApart, Running
<1>8. LeavesApart'
  <2>1. ASSUME NEW l \in leaves, NEW m \in Node, l.session = session'[m] PROVE l.host = m
    <3>1. l.session \in Nat /\ l.session < nextId
      BY <1>1 DEF LeavesApart, SessionsApart
    <3> QED BY <1>1, <1>2, <1>3, <2>1, <3>1 DEF LeavesApart
  <2> QED BY <1>1, <1>2, <2>1 DEF LeavesApart
<1> QED BY <1>7, <1>8 DEF ApartInv

LEMMA CrashApart ==
  ASSUME TypeInv, ApartInv, NEW n \in Node, Crash(n)
  PROVE  ApartInv'
<1>1. /\ \A m \in Node : session'[m] = IF m = n THEN 0 ELSE session[m]
      /\ \A m \in Node : m # n => link'[m] = link[m] /\ pc'[m] = pc[m] /\ events'[m] = events[m]
      /\ ~ link'[n] /\ pc'[n] = "idle" /\ events'[n] = <<>>
      /\ UNCHANGED <<leaves, alive, nextNo, nextId>>
  BY DEF Crash, TypeInv, TypeOK, zk
<1>2. nextId \in Nat /\ SessionsApart /\ LeavesApart /\ 0 < nextId
  BY DEF TypeInv, TypeOK, ApartInv, SessionsApart
<1>3. SessionsApart'
  <2>1. ASSUME NEW m \in Node PROVE /\ session'[m] < nextId'
                                    /\ link'[m] => session'[m] # 0 /\ session'[m] \in alive'
                                    /\ pc'[m] # "idle" \/ events'[m] # <<>> => session'[m] # 0
    BY <1>1, <1>2 DEF SessionsApart, Running
  <2>2. ASSUME NEW m \in Node, NEW k \in Node, session'[k] # 0, session'[m] = session'[k] PROVE m = k
    BY <1>1, <1>2, <2>2 DEF SessionsApart, Running
  <2> QED BY <1>1, <1>2, <2>1, <2>2 DEF SessionsApart, Running
<1>4. LeavesApart'
  <2>1. ASSUME NEW l \in leaves, NEW m \in Node, l.session = session'[m] PROVE l.host = m
    <3>1. l.session # 0
      BY <1>2 DEF LeavesApart, SessionsApart
    <3> QED BY <1>1, <1>2, <2>1, <3>1 DEF LeavesApart
  <2> QED BY <1>1, <1>2, <2>1 DEF LeavesApart
<1> QED BY <1>3, <1>4 DEF ApartInv

LEMMA ExpireApart ==
  ASSUME TypeInv, ApartInv, NEW s \in alive, Expire(s)
  PROVE  ApartInv'
<1>1. /\ leaves' = {l \in leaves : l.session # s} /\ alive' = alive \ {s}
      /\ UNCHANGED <<nextNo, nextId, session, link, pc>>
      /\ \A n \in Node : session[n] = s => ~ link[n]
  BY DEF Expire, client, manager
<1>4. \A n \in Node : events'[n] = events[n] \/ link[n]
  BY FireTypes DEF Expire, TypeInv
<1>2. SessionsApart'
  BY <1>1, <1>4 DEF ApartInv, SessionsApart, Running
<1>3. LeavesApart'
  BY <1>1 DEF ApartInv, LeavesApart
<1> QED BY <1>2, <1>3 DEF ApartInv

\* A leaf is created in the session of the process, with the next number.
LEMMA RegisterApart ==
  ASSUME TypeInv, ApartInv, NEW n \in Node, RegisterNode(n)
  PROVE  ApartInv'
<1>1. /\ SessionsApart /\ LeavesApart /\ nextNo \in Nat /\ leaves \in SUBSET Leaf
      /\ pc \in [Node -> Label] /\ pc[n] = "create" /\ pc' = [pc EXCEPT ![n] = "list"]
      /\ UNCHANGED <<alive, nextId, session, link>>
  BY DEF ApartInv, TypeInv, TypeOK, RegisterNode, GoTo, client, Label
<1>2. session[n] # 0
  BY <1>1 DEF SessionsApart, Running
<1>7. \A m \in Node : events'[m] = events[m] \/ link[m]
  BY FireTypes DEF RegisterNode, TypeInv
<1>3. SessionsApart'
  BY <1>1, <1>2, <1>7 DEF SessionsApart, Running
<1> DEFINE new == [no |-> nextNo, host |-> n, session |-> session[n]]
<1>4. CASE leaves' = leaves \cup {new} /\ nextNo' = nextNo + 1 /\ session[n] \in alive
  <2>1. new.no = nextNo /\ new.host = n /\ new.session = session[n]
    OBVIOUS
  <2> HIDE DEF new
  <2>2. \A l \in leaves : l.no \in Nat /\ l.no < nextNo /\ l.no # nextNo /\ l.no < nextNo'
    <3>1. \A l \in leaves : l.no \in Nat /\ l.no < nextNo
      BY <1>1 DEF LeavesApart, Leaf
    <3> QED BY <1>1, <1>4, <3>1
  <2>3. nextNo < nextNo'
    BY <1>1, <1>4
  <2>4. ASSUME NEW l \in leaves', NEW m \in leaves', l.no = m.no PROVE l = m
    BY <1>1, <1>4, <2>1, <2>2, <2>4 DEF LeavesApart
  <2>5. ASSUME NEW l \in leaves', NEW m \in Node, l.session = session[m] PROVE l.host = m
    BY <1>1, <1>2, <1>4, <2>1, <2>5 DEF LeavesApart, SessionsApart, Running
  <2>6. \A l \in leaves' : l.no < nextNo' /\ l.session \in alive
    BY <1>1, <1>4, <2>1, <2>2, <2>3 DEF LeavesApart
  <2> QED BY <1>1, <1>3, <2>4, <2>5, <2>6 DEF ApartInv, LeavesApart
<1>5. CASE leaves' = leaves /\ nextNo' = nextNo
  BY <1>1, <1>3, <1>5 DEF ApartInv, LeavesApart
<1>6. link[n] => session[n] \in alive
  BY <1>1 DEF SessionsApart
<1> QED BY <1>4, <1>5, <1>6 DEF RegisterNode, zk

LEMMA NextApart == TypeInv /\ ApartInv /\ [Next]_vars => ApartInv'
<1> SUFFICES ASSUME TypeInv, ApartInv, [Next]_vars PROVE ApartInv'
  OBVIOUS
<1>1. ASSUME NEW n \in Node, Start(n) \/ OnSessionExpired(n) PROVE ApartInv'
  BY <1>1, NewSessionApart DEF Start, OnSessionExpired, manager
<1>2. ASSUME NEW n \in Node, Disconnect(n) \/ Reconnect(n) PROVE ApartInv'
  <2>1. /\ UNCHANGED <<leaves, alive, nextNo, nextId, session, pc>>
        /\ \A m \in Node : m # n => link'[m] = link[m] /\ events'[m] = events[m]
        /\ events'[n] # events[n] => Running(n)
        /\ link'[n] => Running(n) /\ session[n] \in alive
    BY <1>2 DEF Disconnect, Reconnect, zk, manager, TypeInv, TypeOK, ApartInv, SessionsApart
  <2> QED BY <2>1 DEF ApartInv, SessionsApart, LeavesApart, Running
<1>3. ASSUME NEW n \in Node,
             \/ ResetIndexData(n) \/ CheckRegistered(n)
             \/ OnChildrenChanged(n) \/ WatchNodeChildren(n) \/ AddChildrenWatchPath(n)
      PROVE  ApartInv'
  <2>1. UNCHANGED <<leaves, alive, nextNo, nextId, session, link>>
    BY <1>3 DEF ResetIndexData, CheckRegistered, OnChildrenChanged, WatchNodeChildren,
                AddChildrenWatchPath, zk, client
  <2>2. \A m \in Node : m # n => pc'[m] = pc[m] /\ events'[m] = events[m]
    BY <1>3 DEF ResetIndexData, CheckRegistered, OnChildrenChanged, WatchNodeChildren,
                AddChildrenWatchPath, GoTo, Handle, TypeInv, TypeOK
  <2>3. Running(n)
    <3>1. events[n] # <<>> \/ pc[n] # "idle"
      BY <1>3 DEF ResetIndexData, CheckRegistered, OnChildrenChanged, WatchNodeChildren,
                  AddChildrenWatchPath, Handle
    <3> QED BY <3>1 DEF ApartInv, SessionsApart
  <2> QED BY <2>1, <2>2, <2>3 DEF ApartInv, SessionsApart, LeavesApart, Running
<1>4. CASE UNCHANGED vars
  BY <1>4 DEF ApartInv, SessionsApart, LeavesApart, Running, vars, zk, client, manager
<1> QED BY <1>1, <1>2, <1>3, <1>4, CrashApart, ExpireApart, RegisterApart DEF Next
-----------------------------------------------------------------------------
(***************************************************************************)
(* No watch is lost                                                        *)
(***************************************************************************)
\* A process a step leaves alone hears of the leaves if they change.
LEMMA StillInformed ==
  ASSUME TypeInv, NEW n \in Node, link[n] => Informed(n),
         link'[n] => link[n], pc'[n] = pc[n], listed'[n] = listed[n], table'[n] = table[n],
         \/ leaves' = leaves /\ watch'[n] = watch[n] /\ events'[n] = events[n]
         \/ Fire
  PROVE  link'[n] => Informed(n)'
<1>1. CASE leaves' = leaves /\ watch'[n] = watch[n] /\ events'[n] = events[n]
  BY <1>1 DEF Informed
<1>2. CASE Fire
  <2>1. \/ watch[n] # "armed" /\ events'[n] = events[n]
        \/ link[n] /\ events'[n] # <<>>
        \/ ~ link[n]
    BY <1>2, FireTypes DEF TypeInv
  <2> QED BY <2>1 DEF Informed
<1> QED BY <1>1, <1>2

LEMMA SessionInformed ==
  ASSUME TypeInv, WatchKept, NEW n \in Node,
         \/ Start(n) \/ Crash(n) \/ Disconnect(n) \/ Reconnect(n) \/ OnSessionExpired(n)
  PROVE  WatchKept'
<1>1. ASSUME NEW m \in Node, m # n PROVE link'[m] => Informed(m)'
  <2>1. /\ leaves' = leaves /\ watch'[m] = watch[m] /\ events'[m] = events[m] /\ link'[m] = link[m]
        /\ pc'[m] = pc[m] /\ listed'[m] = listed[m] /\ table'[m] = table[m]
    BY <1>1 DEF TypeInv, TypeOK, Start, Crash, Disconnect, Reconnect, OnSessionExpired, NewSession,
                zk, manager
  <2> QED BY <2>1, StillInformed DEF WatchKept
<1>2. link'[n] => Informed(n)'
  <2>1. CASE Start(n) \/ OnSessionExpired(n)
    <3>1. events' = [events EXCEPT ![n] = <<"connected">>]
      BY <2>1 DEF Start, OnSessionExpired, NewSession
    <3>2. events'[n] = <<"connected">>
      BY <3>1 DEF TypeInv, TypeOK
    <3> QED BY <3>2 DEF Informed
  <2>2. CASE Crash(n) \/ Disconnect(n)
    BY <2>2 DEF Crash, Disconnect, TypeInv, TypeOK
  <2>3. CASE Reconnect(n)
    <3>1. events[n] \in Seq(Name)
      BY DEF TypeInv, TypeOK, Name
    <3>2. events'[n] \in {events[n] \o <<"connected", "children">>, events[n] \o <<"connected">>}
      BY <2>3 DEF Reconnect, TypeInv, TypeOK
    <3>3. /\ events[n] \o <<"connected", "children">> # <<>>
          /\ events[n] \o <<"connected">> # <<>>
      BY <3>1 DEF Name
    <3> QED BY <3>2, <3>3 DEF Informed
  <2> QED BY <2>1, <2>2, <2>3
<1> QED BY <1>1, <1>2 DEF WatchKept

LEMMA ExpireInformed ==
  ASSUME TypeInv, WatchKept, NEW s \in alive, Expire(s)
  PROVE  WatchKept'
<1>1. ASSUME NEW m \in Node PROVE link'[m] => Informed(m)'
  <2>1. /\ link' = link /\ pc' = pc /\ listed' = listed /\ table' = table
        /\ (leaves' = leaves /\ watch' = watch /\ events' = events) \/ Fire
    BY DEF Expire, client, manager
  <2> QED BY <2>1, StillInformed DEF WatchKept
<1> QED BY <1>1 DEF WatchKept

LEMMA HandlerInformed ==
  ASSUME TypeInv, WatchKept, NEW n \in Node, Handler(n)
  PROVE  WatchKept'
<1>1. link' = link
  BY DEF Handler, ResetIndexData, CheckRegistered, RegisterNode, OnChildrenChanged,
         WatchNodeChildren, AddChildrenWatchPath, client
<1>2. ASSUME NEW m \in Node, m # n PROVE link'[m] => Informed(m)'
  <2>1. pc'[m] = pc[m] /\ listed'[m] = listed[m] /\ table'[m] = table[m]
    BY <1>2 DEF Handler, ResetIndexData, CheckRegistered, RegisterNode, OnChildrenChanged,
                WatchNodeChildren, AddChildrenWatchPath, GoTo, Handle, TypeInv, TypeOK
  <2>2. \/ leaves' = leaves /\ watch'[m] = watch[m] /\ events'[m] = events[m]
        \/ Fire
    BY <1>2 DEF Handler, ResetIndexData, CheckRegistered, RegisterNode, OnChildrenChanged,
                WatchNodeChildren, AddChildrenWatchPath, Handle, Arm, TypeInv, TypeOK, zk
  <2> QED BY <1>1, <2>1, <2>2, StillInformed DEF WatchKept
<1>3. ASSUME link[n] PROVE Informed(n)'
  <2>1. Informed(n)
    BY <1>3 DEF WatchKept
  <2>2. CASE ResetIndexData(n) \/ CheckRegistered(n) \/ RegisterNode(n) \/ OnChildrenChanged(n)
    <3>1. pc'[n] \in {"check", "create", "list"}
      BY <1>3, <2>2 DEF ResetIndexData, CheckRegistered, RegisterNode, OnChildrenChanged, GoTo,
                        NeedToReRegister, TypeInv, TypeOK
    <3> QED BY <3>1 DEF Informed
  <2>3. CASE WatchNodeChildren(n)
    <3>1. pc'[n] = "read" /\ listed'[n] = leaves' /\ watch'[n] = "armed"
      BY <1>3, <2>3 DEF WatchNodeChildren, GoTo, Arm, TypeInv, TypeOK, zk
    <3> QED BY <3>1 DEF Informed
  <2>4. CASE AddChildrenWatchPath(n)
    <3>1. /\ pc[n] = "read" /\ pc'[n] = "idle" /\ UNCHANGED <<leaves, watch, events>>
          /\ table'[n] = NodeSet(listed[n], listed[n] \cap leaves)
      BY <1>3, <2>4 DEF AddChildrenWatchPath, Readable, GoTo, TypeInv, TypeOK, zk
    <3>2. CASE events[n] # <<>>
      BY <3>1, <3>2 DEF Informed
    <3>3. CASE listed[n] = leaves /\ watch[n] = "armed"
      <4>1. listed[n] \cap leaves = leaves
        BY <3>3
      <4>2. table'[n] = NodeSet(leaves, leaves)
        BY <3>1, <3>3, <4>1
      <4>3. NodeSet(leaves, leaves)' = NodeSet(leaves, leaves)
        BY <3>1 DEF NodeSet, PosIn
      <4> QED BY <3>1, <3>3, <4>2, <4>3 DEF Informed
    <3> QED BY <2>1, <3>1, <3>2, <3>3 DEF Informed
  <2> QED BY <2>2, <2>3, <2>4 DEF Handler
<1> QED BY <1>1, <1>2, <1>3 DEF WatchKept

LEMMA NextWatch == TypeInv /\ WatchKept /\ [Next]_vars => WatchKept'
<1> SUFFICES ASSUME TypeInv, WatchKept, [Next]_vars PROVE WatchKept'
  OBVIOUS
<1>1. CASE UNCHANGED vars
  BY <1>1 DEF WatchKept, Informed, vars, zk, client, manager
<1> QED BY <1>1, SessionInformed, ExpireInformed, HandlerInformed DEF Next, Handler

-----------------------------------------------------------------------------
(***************************************************************************)
(* Who is registered                                                       *)
(***************************************************************************)
LEMMA StartRegistered == Init => WatchKept /\ RegisterInv
BY DEF Init, WatchKept, RegisterInv, OwnIsListed, TwiceHasCause, OnlyOwn, Registered, Running, Own

\* A process in a new session has no leaf in it, and has the session event to handle.
LEMMA SessionRegistered ==
  ASSUME TypeInv, ApartInv, RegisterInv, NEW n \in Node, Start(n) \/ OnSessionExpired(n)
  PROVE  RegisterInv'
<1>1. /\ UNCHANGED <<leaves, pc, listed, blind>> /\ pc[n] = "idle"
      /\ \A m \in Node : m # n => UNCHANGED <<session[m], link[m], events[m]>>
      /\ session'[n] = nextId /\ link'[n] /\ events'[n] = <<"connected">>
      /\ \A m \in Node : m # n => (m \in early <=> m \in early')
  BY DEF Start, OnSessionExpired, NewSession, manager, hist, TypeInv, TypeOK, ApartInv, SessionsApart
<1>2. OwnIsListed'
  BY <1>1 DEF RegisterInv, OwnIsListed, Own
<1>3. TwiceHasCause'
  BY <1>1 DEF RegisterInv, TwiceHasCause
<1>4. Has(n, "connected")'
  BY <1>1 DEF Has
<1>5. n \notin early' => \A l \in leaves : l.host # n
  <2>1. CASE Start(n)
    BY <2>1 DEF Start
  <2>2. CASE OnSessionExpired(n)
    <3>1. early' = early /\ Running(n) /\ session[n] \notin alive
      BY <2>2 DEF OnSessionExpired, hist
    <3> QED BY <3>1 DEF RegisterInv, OnlyOwn, ApartInv, LeavesApart
  <2> QED BY <2>1, <2>2
<1>6. OnlyOwn'
  BY <1>1, <1>5 DEF RegisterInv, OnlyOwn, Running
<1>7. Registered'
  <2>1. ASSUME NEW m \in Node, m # n, m \notin early', link'[m]
        PROVE  (\E l \in leaves' : l.host = m) \/ Has(m, "connected")' \/ pc'[m] \in {"check", "create"}
    BY <1>1, <2>1 DEF RegisterInv, Registered, Has
  <2> QED BY <1>4, <2>1 DEF Registered
<1> QED BY <1>2, <1>3, <1>6, <1>7 DEF RegisterInv

LEMMA LinkRegistered ==
  ASSUME TypeInv, RegisterInv, NEW n \in Node, Crash(n) \/ Disconnect(n) \/ Reconnect(n)
  PROVE  RegisterInv'
<1>1. /\ UNCHANGED <<leaves, early, blind>>
      /\ \A m \in Node : m # n => UNCHANGED <<session[m], link[m], events[m], pc[m], listed[m]>>
      /\ \/ ~ Running(n)' /\ pc'[n] = "idle"
         \/ UNCHANGED <<session[n], pc[n], listed[n]>>
  BY DEF Crash, Disconnect, Reconnect, zk, manager, hist, TypeInv, TypeOK, Running
<1>2. OwnIsListed'
  BY <1>1 DEF RegisterInv, OwnIsListed, Own
<1>3. TwiceHasCause'
  BY <1>1 DEF RegisterInv, TwiceHasCause
<1>4. OnlyOwn'
  BY <1>1 DEF RegisterInv, OnlyOwn, Running
<1>5. link'[n] => Has(n, "connected")'
  <2>1. CASE Crash(n) \/ Disconnect(n)
    BY <2>1 DEF Crash, Disconnect, TypeInv, TypeOK
  <2>2. CASE Reconnect(n)
    <3>1. events[n] \in Seq(Name)
      BY DEF TypeInv, TypeOK, Name
    <3>2. events'[n] \in {events[n] \o <<"connected", "children">>, events[n] \o <<"connected">>}
      BY <2>2 DEF Reconnect, TypeInv, TypeOK
    <3>3. \A s \in {events[n] \o <<"connected", "children">>, events[n] \o <<"connected">>} :
            Len(events[n]) + 1 \in DOMAIN s /\ s[Len(events[n]) + 1] = "connected"
      BY <3>1 DEF Name
    <3> QED BY <3>2, <3>3 DEF Has
  <2> QED BY <2>1, <2>2
<1>6. Registered'
  <2>1. ASSUME NEW m \in Node, m # n, m \notin early', link'[m]
        PROVE  (\E l \in leaves' : l.host = m) \/ Has(m, "connected")' \/ pc'[m] \in {"check", "create"}
    BY <1>1, <2>1 DEF RegisterInv, Registered, Has
  <2> QED BY <1>5, <2>1 DEF Registered
<1> QED BY <1>2, <1>3, <1>4, <1>6 DEF RegisterInv

\* The leaves of a process that is connected stay.
LEMMA ExpireRegistered ==
  ASSUME TypeInv, ApartInv, RegisterInv, NEW s \in alive, Expire(s)
  PROVE  RegisterInv'
<1>1. /\ leaves' = {l \in leaves : l.session # s}
      /\ UNCHANGED <<session, link, pc, listed, early, blind>>
      /\ \A n \in Node : session[n] = s => ~ link[n]
  BY DEF Expire, client, manager, hist
<1>2. \A n \in Node : \A e : Has(n, e) => Has(n, e)'
  <2>1. events' = events \/ Fire
    BY DEF Expire
  <2> QED BY <2>1, FireTypes DEF TypeInv, Has
<1>3. OwnIsListed' /\ TwiceHasCause' /\ OnlyOwn'
  BY <1>1 DEF RegisterInv, OwnIsListed, Own, TwiceHasCause, OnlyOwn, Running
<1>4. Registered'
  <2>1. ASSUME NEW n \in Node, n \notin early, link[n]
        PROVE  (\E l \in leaves' : l.host = n) \/ Has(n, "connected")' \/ pc[n] \in {"check", "create"}
    <3>1. ASSUME NEW l \in leaves, l.host = n PROVE l \in leaves'
      <4>1. Running(n)
        BY <2>1 DEF ApartInv, SessionsApart
      <4>2. l.session = session[n]
        BY <2>1, <3>1, <4>1 DEF RegisterInv, OnlyOwn
      <4> QED BY <1>1, <2>1, <4>2
    <3> QED BY <1>2, <2>1, <3>1 DEF RegisterInv, Registered
  <2> QED BY <1>1, <2>1 DEF Registered
<1> QED BY <1>3, <1>4 DEF RegisterInv

\* The handler of another process, and what was registered already.
LEMMA OthersRegistered ==
  ASSUME TypeInv, RegisterInv, NEW n \in Node, NEW m \in Node, m # n, Handler(n),
         leaves' = leaves
  PROVE  /\ m \notin blind' => /\ pc'[m] = "check" => Own(m)' \subseteq listed'[m]
                               /\ pc'[m] = "create" => Own(m)' = {}
         /\ m \notin early' /\ link'[m] =>
              (\E l \in leaves' : l.host = m) \/ Has(m, "connected")' \/ pc'[m] \in {"check", "create"}
<1>1. /\ UNCHANGED <<session, link, early>> /\ blind \subseteq blind'
      /\ UNCHANGED <<pc[m], listed[m]>>
  BY DEF Handler, ResetIndexData, CheckRegistered, RegisterNode, OnChildrenChanged, hist,
         WatchNodeChildren, AddChildrenWatchPath, GoTo, Handle, client, TypeInv, TypeOK
<1>2. Has(m, "connected") => Has(m, "connected")'
  <2>1. CASE RegisterNode(n)
    <3>1. CASE events' = events
      BY <3>1 DEF Has
    <3>2. CASE Fire
      BY <3>2, FireTypes DEF TypeInv
    <3> QED BY <2>1, <3>1, <3>2 DEF RegisterNode
  <2>2. CASE ~ RegisterNode(n)
    BY <2>2 DEF Handler, ResetIndexData, CheckRegistered, OnChildrenChanged, hist, Has,
                WatchNodeChildren, AddChildrenWatchPath, Handle, TypeInv, TypeOK
  <2> QED BY <2>1, <2>2
<1> QED BY <1>1, <1>2 DEF RegisterInv, OwnIsListed, Registered, Own

\* A step of a handler that creates no leaf.
LEMMA HandlerRegistered ==
  ASSUME TypeInv, ApartInv, RegisterInv, NEW n \in Node, Handler(n), leaves' = leaves
  PROVE  RegisterInv'
<1>1. UNCHANGED <<session, link, early>> /\ blind \subseteq blind'
  BY DEF Handler, ResetIndexData, CheckRegistered, RegisterNode, OnChildrenChanged, hist,
         WatchNodeChildren, AddChildrenWatchPath, client
<1>2. TwiceHasCause' /\ OnlyOwn'
  BY <1>1 DEF RegisterInv, TwiceHasCause, OnlyOwn, Running
<1>3. pc \in [Node -> Label] /\ events \in [Node -> Seq(Name)]
  BY DEF TypeInv, TypeOK, Label, Name
<1> DEFINE Knows == n \notin blind' => /\ pc'[n] = "check" => Own(n)' \subseteq listed'[n]
                                       /\ pc'[n] = "create" => Own(n)' = {}
           Stays == n \notin early' /\ link'[n] =>
                      \/ \E l \in leaves' : l.host = n
                      \/ Has(n, "connected")'
                      \/ pc'[n] \in {"check", "create"}
<1>4. Knows /\ Stays
  <2>1. CASE ResetIndexData(n)
    <3>1. \/ pc'[n] = "check" /\ listed'[n] = leaves
          \/ pc'[n] = "create" /\ n \in blind' /\ ~ link[n]
          \/ pc'[n] = "list" /\ ~ link[n]
      BY <1>3, <2>1 DEF ResetIndexData, GoTo, TypeInv, TypeOK
    <3> QED BY <1>1, <3>1 DEF Own
  <2>2. CASE CheckRegistered(n)
    <3>1. PICK read \in Readable(n) :
            /\ pc'[n] = NeedToReRegister(n, read)
            /\ blind' = IF read # listed[n] \cap leaves THEN blind \cup {n} ELSE blind
      BY <1>3, <2>2 DEF CheckRegistered, GoTo
    <3>2. read \subseteq leaves
      BY <3>1 DEF Readable
    <3>3. pc'[n] \in {"list", "create"} /\ (pc'[n] = "list" <=> \E l \in read : l.host = n)
      BY <3>1 DEF NeedToReRegister
    <3>4. Stays
      BY <3>2, <3>3
    <3>5. ASSUME n \notin blind', pc'[n] = "create" PROVE Own(n) = {}
      <4>1. n \notin blind /\ read = listed[n] \cap leaves /\ pc[n] = "check"
        BY <2>2, <3>1, <3>5 DEF CheckRegistered
      <4>2. Own(n) \subseteq listed[n]
        BY <4>1 DEF RegisterInv, OwnIsListed
      <4>3. \A l \in Own(n) : l \in read /\ l.host = n
        BY <4>1, <4>2 DEF Own, ApartInv, LeavesApart
      <4> QED BY <3>3, <3>5, <4>3
    <3> QED BY <1>1, <3>3, <3>4, <3>5 DEF Own
  <2>3. CASE OnChildrenChanged(n)
    <3>1. /\ pc[n] = "idle" /\ pc'[n] = "list" /\ events[n] # <<>> /\ Head(events[n]) = "children"
          /\ events'[n] = Tail(events[n])
      BY <1>3, <2>3 DEF OnChildrenChanged, Handle, GoTo
    <3>2. Has(n, "connected") => Has(n, "connected")'
      <4>1. \A i \in DOMAIN events[n] :
              i # 1 => i - 1 \in DOMAIN Tail(events[n]) /\ Tail(events[n])[i - 1] = events[n][i]
        BY <1>3, <3>1
      <4>2. events[n][1] # "connected"
        BY <1>3, <3>1
      <4> QED BY <3>1, <4>1, <4>2 DEF Has
    <3> QED BY <1>1, <3>1, <3>2 DEF RegisterInv, Registered
  <2>4. CASE WatchNodeChildren(n) \/ AddChildrenWatchPath(n)
    <3>1. pc[n] \in {"list", "read"} /\ pc'[n] \in {"read", "idle"} /\ events' = events
      BY <1>3, <2>4 DEF WatchNodeChildren, AddChildrenWatchPath, GoTo
    <3> QED BY <1>1, <3>1 DEF RegisterInv, Registered, Has
  <2>5. CASE RegisterNode(n)
    <3>1. pc'[n] = "list" /\ ~ link[n]
      <4>1. ASSUME nextNo \in Nat, \A l \in leaves : l.no # nextNo,
                   leaves' = leaves \cup {[no |-> nextNo, host |-> n, session |-> session[n]]}
            PROVE  FALSE
        <5>1. [no |-> nextNo, host |-> n, session |-> session[n]] \in leaves
          BY <4>1
        <5> QED BY <4>1, <5>1
      <4>2. nextNo \in Nat /\ \A l \in leaves : l.no \in Nat /\ l.no < nextNo
        BY DEF TypeInv, TypeOK, ApartInv, LeavesApart, Leaf
      <4>3. \A l \in leaves : l.no # nextNo
        BY <4>2
      <4> QED BY <1>3, <2>5, <4>1, <4>2, <4>3 DEF RegisterNode, GoTo
    <3> QED BY <1>1, <3>1
  <2> QED BY <2>1, <2>2, <2>3, <2>4, <2>5 DEF Handler
<1>5. OwnIsListed' /\ Registered'
  BY <1>4, OthersRegistered DEF OwnIsListed, Registered
<1> QED BY <1>2, <1>5 DEF RegisterInv

\* A new leaf is a second one only of a process that has not read all leaves.
LEMMA CreateRegistered ==
  ASSUME TypeInv, ApartInv, RegisterInv, NEW n \in Node, RegisterNode(n), leaves' # leaves
  PROVE  RegisterInv'
<1> DEFINE new == [no |-> nextNo, host |-> n, session |-> session[n]]
<1>1. /\ leaves' = leaves \cup {new} /\ Fire
      /\ pc[n] = "create" /\ pc' = [pc EXCEPT ![n] = "list"]
      /\ UNCHANGED <<session, link, listed, early, blind>>
  BY DEF RegisterNode, GoTo, zk, client, hist
<1>2. pc \in [Node -> Label] /\ Running(n)
  BY <1>1 DEF TypeInv, TypeOK, Label, ApartInv, SessionsApart
<1>3. new.host = n /\ new.session = session[n]
  OBVIOUS
<1> HIDE DEF new
<1>4. \A m \in Node : session[m] = session[n] => m = n
  BY <1>2 DEF ApartInv, SessionsApart
<1>5. OwnIsListed'
  <2>1. ASSUME NEW m \in Node, m # n PROVE Own(m)' = Own(m)
    BY <1>1, <1>3, <1>4, <2>1 DEF Own
  <2>2. ASSUME NEW m \in Node, m # n PROVE pc'[m] = pc[m]
    BY <1>1, <1>2, <2>2
  <2>3. pc'[n] = "list"
    BY <1>1, <1>2
  <2> QED BY <1>1, <2>1, <2>2, <2>3 DEF RegisterInv, OwnIsListed
<1>6. TwiceHasCause'
  <2>1. ASSUME NEW l \in leaves, l.session = session[n] PROVE l.host = n /\ n \in blind
    <3>1. l \in Own(n)
      BY <2>1 DEF Own
    <3> QED BY <1>1, <2>1, <3>1 DEF RegisterInv, OwnIsListed, ApartInv, LeavesApart
  <2>2. ASSUME NEW l \in leaves', NEW m \in leaves', l # m, l.session = m.session
        PROVE  l.host \in blind
    BY <1>1, <1>3, <2>1, <2>2 DEF RegisterInv, TwiceHasCause
  <2> QED BY <1>1, <2>2 DEF TwiceHasCause
<1>7. OnlyOwn'
  BY <1>1, <1>3 DEF RegisterInv, OnlyOwn, Running
<1>8. Registered'
  <2>1. \A m \in Node : Has(m, "connected") => Has(m, "connected")'
    BY <1>1, FireTypes DEF TypeInv
  <2>2. \A m \in Node : m # n => pc'[m] = pc[m]
    BY <1>1, <1>2
  <2> QED BY <1>1, <1>3, <2>1, <2>2 DEF RegisterInv, Registered
<1> QED BY <1>5, <1>6, <1>7, <1>8 DEF RegisterInv

LEMMA NextRegistered == TypeInv /\ ApartInv /\ RegisterInv /\ [Next]_vars => RegisterInv'
<1> SUFFICES ASSUME TypeInv, ApartInv, RegisterInv, [Next]_vars PROVE RegisterInv'
  OBVIOUS
<1>1. CASE UNCHANGED vars
  BY <1>1 DEF RegisterInv, OwnIsListed, Own, TwiceHasCause, OnlyOwn, Registered, Has, Running,
              vars, zk, client, manager, hist
<1>2. ASSUME NEW n \in Node, Handler(n) PROVE RegisterInv'
  <2>1. CASE leaves' = leaves
    BY <1>2, <2>1, HandlerRegistered
  <2>2. CASE leaves' # leaves
    <3>1. RegisterNode(n)
      BY <1>2, <2>2 DEF Handler, ResetIndexData, CheckRegistered, OnChildrenChanged,
                        WatchNodeChildren, AddChildrenWatchPath, zk
    <3> QED BY <2>2, <3>1, CreateRegistered
  <2> QED BY <2>1, <2>2
<1> QED BY <1>1, <1>2, SessionRegistered, LinkRegistered, ExpireRegistered DEF Next, Handler

\* All parts hold together.
MembershipInv == TypeInv /\ ApartInv /\ WatchKept /\ RegisterInv

LEMMA MembershipHolds == Spec => []MembershipInv
<1>1. Init => MembershipInv
  BY StartTypes, StartApart, StartRegistered DEF MembershipInv
<1>2. MembershipInv /\ [Next]_vars => MembershipInv'
  BY NextTypes, NextApart, NextWatch, NextRegistered DEF MembershipInv
<1> QED BY <1>1, <1>2, PTL DEF Spec

-----------------------------------------------------------------------------
(***************************************************************************)
(* The theorems                                                            *)
(***************************************************************************)
\* Each running process has one leaf, no less and no more, but for two causes: it was
\* started before the session of its former life expired, or it once could not read all
\* the leaves when it asked whether it was registered (NeedToReRegister, RegisterNode).
THEOREM LeavesHaveCauses == Spec => []RegistrationHasCause
<1>1. MembershipInv => OutHasCause
  <2> SUFFICES ASSUME MembershipInv, Settled, NEW n \in Live, \A l \in leaves : l.host # n
               PROVE  n \in early
    BY DEF OutHasCause
  <2>1. n \in Node /\ link[n] /\ pc[n] = "idle" /\ events[n] = <<>>
    BY DEF Settled, Live
  <2>2. ~ Has(n, "connected")
    BY <2>1 DEF Has
  <2> QED BY <2>1, <2>2 DEF MembershipInv, RegisterInv, Registered
<1>2. MembershipInv => TwiceHasCause
  BY DEF MembershipInv, RegisterInv
<1> QED BY <1>1, <1>2, MembershipHolds, PTL DEF RegistrationHasCause

\* Once nothing is under way every table shows the leaves.
LEMMA SettledAgrees == ASSUME MembershipInv, Settled, NEW n \in Live
                       PROVE  table[n] = NodeSet(leaves, leaves)
<1>1. n \in Node /\ link[n] /\ pc[n] = "idle" /\ events[n] = <<>>
  BY DEF Settled, Live
<1> QED BY <1>1 DEF MembershipInv, WatchKept, Informed

\* The entries of a table of all leaves are the leaves.
LEMMA Entries ==
  ASSUME NEW L \in SUBSET Leaf, IsFiniteSet(L), \A l, m \in L : l.no = m.no => l = m
  PROVE  Cardinality(NodeSet(L, L)) = Cardinality(L)
<1> DEFINE f == [l \in L |-> [no |-> l.no, host |-> l.host, pos |-> PosIn(l, L)]]
<1>1. f \in Bijection(L, NodeSet(L, L))
  <2>1. f \in [L -> NodeSet(L, L)]
    BY DEF NodeSet
  <2>2. \A l, m \in L : f[l] = f[m] => l = m
    <3>1. \A l \in L : f[l].no = l.no
      OBVIOUS
    <3> HIDE DEF f
    <3> QED BY <3>1
  <2>3. \A i \in NodeSet(L, L) : \E l \in L : f[l] = i
    BY DEF NodeSet
  <2> HIDE DEF f
  <2> QED BY <2>1, <2>2, <2>3 DEF Bijection, Injection, Surjection, IsInjective
<1>2. ExistsBijection(L, NodeSet(L, L))
  BY <1>1 DEF ExistsBijection
<1> QED BY <1>2, FS_Bijection

\* There is a leaf at every position.
LEMMA PositionsCover ==
  ASSUME NEW L \in SUBSET Leaf, IsFiniteSet(L), \A l, m \in L : l.no = m.no => l = m,
         NEW p \in 0..(Cardinality(L) - 1)
  PROVE  \E l \in L : PosIn(l, L) = p
<1> DEFINE T == 0..(Cardinality(L) - 1)
           f == [l \in L |-> PosIn(l, L)]
<1>1. Cardinality(L) \in Nat
  BY FS_CardinalityType
<1>2. \A l \in L : PosIn(l, L) \in T
  BY <1>1, Positions
<1>3. \A l, m \in L : PosIn(l, L) = PosIn(m, L) => l = m
  <2> SUFFICES ASSUME NEW l \in L, NEW m \in L, PosIn(l, L) = PosIn(m, L) PROVE l.no = m.no
    OBVIOUS
  <2>1. l.no \in Nat /\ m.no \in Nat
    BY DEF Leaf
  <2>2. ~ (l.no < m.no) /\ ~ (m.no < l.no)
    BY <1>1, <1>2, Positions
  <2> QED BY <2>1, <2>2
<1>4. IsFiniteSet(T) /\ Cardinality(T) = Cardinality(L)
  <2>1. \A b \in Int : /\ IsFiniteSet(0..b)
                       /\ Cardinality(0..b) = IF 0 > b THEN 0 ELSE b - 0 + 1
    BY FS_Interval
  <2>2. Cardinality(L) - 1 \in Int
    BY <1>1
  <2>3. (IF 0 > Cardinality(L) - 1 THEN 0 ELSE (Cardinality(L) - 1) - 0 + 1) = Cardinality(L)
    BY <1>1
  <2> QED BY <2>1, <2>2, <2>3
<1> HIDE DEF T
<1>5. f \in Injection(L, T)
  <2>1. f \in [L -> T]
    BY <1>2
  <2>2. \A l, m \in L : f[l] = f[m] => l = m
    BY <1>3
  <2> HIDE DEF f
  <2> QED BY <2>1, <2>2 DEF Injection, IsInjective
<1>6. f \in Surjection(L, T)
  BY <1>4, <1>5, FS_Injection
<1>7. p \in T
  BY DEF T
<1>8. PICK l \in L : f[l] = p
  BY <1>6, <1>7 DEF Surjection
<1> QED BY <1>8

\* The position of a process is that of its one leaf in the list.
LEMMA OnePosition ==
  ASSUME MembershipInv, NEW n \in Node, table[n] = NodeSet(leaves, leaves),
         NEW l \in leaves, l.host = n, \A m \in leaves : m.host = n => m = l
  PROVE  GetNodePos(n) = PosIn(l, leaves)
<1> DEFINE i == [no |-> l.no, host |-> l.host, pos |-> PosIn(l, leaves)]
           mine == {j \in table[n] : j.host = n}
<1>1. mine = {i}
  BY DEF NodeSet
<1>2. i.no <= i.no /\ i.pos = PosIn(l, leaves)
  <2>1. l.no \in Nat
    BY DEF MembershipInv, TypeInv, TypeOK, Leaf
  <2> QED BY <2>1
<1>3. GetNodePos(n) = IF mine = {} THEN -1 ELSE (CHOOSE j \in mine : \A k \in mine : j.no <= k.no).pos
  BY DEF GetNodePos
<1> HIDE DEF mine, i
<1>4. (CHOOSE j \in mine : \A k \in mine : j.no <= k.no) = i
  BY <1>1, <1>2
<1> QED BY <1>1, <1>2, <1>3, <1>4

\* Once the cluster has come to rest the tables agree on the leaves that are there, and if
\* no process has two, every position of the list is that of exactly one running process,
\* and all count as many processes as there are positions (OnChildrenChanged,
\* WatchNodeChildren, GetNodePos, GetTotalNodeCnt): no watch is lost, and no residue of
\* the partition is left to nobody, or to two.
THEOREM TablesAgree == Spec => []SettledTables
<1>1. MembershipInv => SettledAgree
  BY SettledAgrees DEF SettledAgree
<1>2. MembershipInv => SettledCovers
  <2> SUFFICES ASSUME MembershipInv, Settled, \A l, m \in leaves : l.host = m.host => l = m,
                      NEW p \in 0..(Cardinality(leaves) - 1)
               PROVE  \E n \in Live : /\ GetNodePos(n) = p
                                      /\ \A m \in Live : GetTotalNodeCnt(m) = Cardinality(leaves)
                                      /\ \A m \in Live \ {n} : GetNodePos(m) # p
    BY DEF SettledCovers
  <2>1. /\ leaves \in SUBSET Leaf /\ IsFiniteSet(leaves)
        /\ \A l, m \in leaves : l.no = m.no => l = m
        /\ \A l \in leaves : l.session # 0
    BY DEF MembershipInv, TypeInv, TypeOK, ListsFinite, ApartInv, LeavesApart, SessionsApart
  <2>2. \A m \in Live : m \in Node /\ table[m] = NodeSet(leaves, leaves)
    BY SettledAgrees DEF Live
  <2>3. PICK l \in leaves : PosIn(l, leaves) = p
    BY <2>1, PositionsCover
  <2>4. l.host \in Live
    BY <2>1 DEF Settled, Live, Running, Leaf
  <2>5. \A m \in Live : GetTotalNodeCnt(m) = Cardinality(leaves)
    BY <2>1, <2>2, Entries DEF GetTotalNodeCnt
  <2>6. GetNodePos(l.host) = p
    BY <2>2, <2>3, <2>4, OnePosition
  <2>7. ASSUME NEW m \in Live, m # l.host PROVE GetNodePos(m) # p
    <3>1. CASE \E k \in leaves : k.host = m
      <4>1. PICK k \in leaves : k.host = m
        BY <3>1
      <4>2. GetNodePos(m) = PosIn(k, leaves)
        BY <2>2, <4>1, OnePosition
      <4>3. l.no \in Nat /\ k.no \in Nat /\ l.no # k.no
        BY <2>1, <2>7, <4>1 DEF Leaf
      <4>4. l.no < k.no \/ k.no < l.no
        BY <4>3
      <4> QED BY <2>1, <2>3, <4>2, <4>4, Positions
    <3>2. CASE \A k \in leaves : k.host # m
      <4>1. {i \in table[m] : i.host = m} = {}
        BY <2>2, <3>2 DEF NodeSet
      <4> QED BY <4>1 DEF GetNodePos
    <3> QED BY <3>1, <3>2
  <2> QED BY <2>4, <2>5, <2>6, <2>7
<1> QED BY <1>1, <1>2, MembershipHolds, PTL DEF SettledTables

\* What PushScheduler and PushPoolUpdater ask MySQL for on node n: the rows with
\* mod(fingerprint_id, node_cnt) = node_pos.
SelectedBy(n, fingerprint) == (fingerprint % GetTotalNodeCnt(n)) = GetNodePos(n)

\* At rest, with somebody in the cluster and nobody in it twice, every fingerprint is
\* selected by exactly one running process.
PartitionShared ==
  Settled /\ leaves # {} /\ (\A l, m \in leaves : l.host = m.host => l = m) =>
    \A fingerprint \in Nat :
      \E n \in Live : /\ SelectedBy(n, fingerprint)
                      /\ \A m \in Live : SelectedBy(m, fingerprint) => m = n

\* Once the cluster has come to rest no event and no order is left to nobody, and none is
\* selected by two (FetchPushEvents and QueryUserOrder with GetNodePos and
\* GetTotalNodeCnt).
THEOREM PartitionIsShared == Spec => []PartitionShared
<1>1. ASSUME MembershipInv, SettledTables, Settled, leaves # {},
             \A l, m \in leaves : l.host = m.host => l = m, NEW fingerprint \in Nat
      PROVE  \E n \in Live : /\ SelectedBy(n, fingerprint)
                             /\ \A m \in Live : SelectedBy(m, fingerprint) => m = n
  <2> DEFINE count == Cardinality(leaves)
             p == fingerprint % count
  <2>1. count \in Nat \ {0}
    BY <1>1, FS_CardinalityType, FS_EmptySet DEF MembershipInv, TypeInv, ListsFinite
  <2>2. p \in 0..(count - 1)
    <3> HIDE DEF count
    <3> QED BY <2>1
  <2>3. PICK n \in Live : /\ GetNodePos(n) = p
                          /\ \A m \in Live : GetTotalNodeCnt(m) = count
                          /\ \A m \in Live \ {n} : GetNodePos(m) # p
    BY <1>1, <2>2 DEF SettledTables, SettledCovers
  <2> QED BY <2>3 DEF SelectedBy
<1>2. MembershipInv /\ SettledTables => PartitionShared
  BY <1>1 DEF PartitionShared
<1> QED BY <1>2, MembershipHolds, TablesAgree, PTL
=============================================================================
