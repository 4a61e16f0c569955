---------------------------- MODULE ZkMembership -----------------------------
(***************************************************************************)
(* ZkManager: how the push_controller processes agree on who they are.     *)
(*                                                                         *)
(* Every process keeps a ZooKeeper session, an ephemeral sequential leaf   *)
(* under zookeeper_watched_path with its host and port as data, and a copy *)
(* of the leaves in watched_table_.  The position of its own leaf in the   *)
(* list and the size of the copy are the partition PushScheduler and       *)
(* PushPoolUpdater work on.                                                *)
(*                                                                         *)
(* The client library hands session and child events to GlobalWatcher on   *)
(* one thread, in order; a handler's calls of the library are separate     *)
(* steps here, since the session, the connection and the leaves may change *)
(* between them.  ZooKeeper itself is external: sessions expire only while *)
(* their client is away, child watches fire once, and a list of the same   *)
(* leaves has the same order for everybody.                                *)
(***************************************************************************)
EXTENDS Integers, Sequences, FiniteSets

CONSTANTS
  Node,         \* the processes, and the host and port each writes into its leaf
  MaxCrashes,   \* bound on the number of crashes
  MaxLosses     \* bound on the number of lost connections

ASSUME MembershipConstantsOK == MaxCrashes \in Nat /\ MaxLosses \in Nat

VARIABLES
  \* ZooKeeper
  leaves,     \* the children of zookeeper_watched_path
  alive,      \* the sessions that have not expired
  nextNo,     \* number of leaves created so far: the sequence number of the next
  nextId,     \* number of sessions so far
  watch,      \* per node: its child watch, none, armed, or fired while it was away
  \* the client library
  session,    \* per node: its session, 0 while the process is down
  link,       \* per node: connected to a server or not
  events,     \* per node: what GlobalWatcher has not been called with yet
  \* ZkManager
  pc,         \* per node: where the handler is
  listed,     \* per node: what zoo_get_children returned to the handler
  table,      \* per node: watched_table_[zookeeper_watched_path]
  \* history
  early,      \* nodes started while a leaf of their former life was there
  blind,      \* nodes that called zoo_create without having read all the leaves
  crashes, losses

zk     == <<leaves, alive, nextNo, nextId>>
client == <<session, link>>
manager == <<pc, listed, table>>
hist   == <<early, blind, crashes, losses>>
vars   == <<zk, watch, client, events, manager, hist>>

Leaf  == [no : Nat, host : Node, session : Nat]
\* NodeInfo: the position is that of the leaf in the list it was read from.
NodeInfo == [no : Nat, host : Node, pos : Nat]

-----------------------------------------------------------------------------
Running(n) == session[n] # 0

\* The index a leaf has in a list.
PosIn(l, L) == Cardinality({m \in L : m.no < l.no})

\* The node_set WatchNodeChildren makes of the list L if it can read the leaves R:
\* unread leaves leave a hole in the positions.
NodeSetFromOne(L, R) ==                      \* (mutant) positions from 1
  {[no |-> l.no, host |-> l.host, pos |-> PosIn(l, L) + 1] : l \in R}
NodeSetBelow(L, R) ==                        \* (mutant) positions from -1
  {[no |-> l.no, host |-> l.host, pos |-> PosIn(l, L) - 1] : l \in R}
NodeSet(L, R) == {[no |-> l.no, host |-> l.host, pos |-> PosIn(l, L)] : l \in R}

\* GetNodePos: the first entry with this node's host and port, by path; -1 without.
GetNodePos(n) ==
  LET mine == {i \in table[n] : i.host = n}
  IN  IF mine = {} THEN -1
      ELSE (CHOOSE i \in mine : \A j \in mine : i.no <= j.no).pos

GetTotalNodeCnt(n) == Cardinality(table[n])

\* The leaves change: armed watches fire, once.
Fire ==
  /\ watch' = [n \in Node |-> IF watch[n] # "armed" THEN watch[n]
                              ELSE IF link[n] THEN "none" ELSE "fired"]
  /\ events' = [n \in Node |-> IF watch[n] = "armed" /\ link[n]
                                 THEN Append(events[n], "children") ELSE events[n]]

\* zoo_get_children of a connected node, which sets the watch.
Arm(n) == watch' = [watch EXCEPT ![n] = "armed"]

\* The leaves a handler can read: all of its list that still exist while connected,
\* any of them if the connection is lost on the way.
Readable(n) == LET here == listed[n] \cap leaves
               IN  IF link[n] THEN {here} ELSE SUBSET here

-----------------------------------------------------------------------------
Init ==
  /\ leaves = {} /\ alive = {}
  /\ nextNo = 1 /\ nextId = 1
  /\ watch = [n \in Node |-> "none"]
  /\ session = [n \in Node |-> 0]
  /\ link = [n \in Node |-> FALSE]
  /\ events = [n \in Node |-> <<>>]
  /\ pc = [n \in Node |-> "idle"]
  /\ listed = [n \in Node |-> {}]
  /\ table = [n \in Node |-> {}]
  /\ early = {} /\ blind = {}
  /\ crashes = 0 /\ losses = 0

\* A session of the node is established: the handle's first event.
NewSession(n) ==
  /\ session' = [session EXCEPT ![n] = nextId]
  /\ alive' = alive \cup {nextId}
  /\ nextId' = nextId + 1
  /\ link' = [link EXCEPT ![n] = TRUE]
  /\ watch' = [watch EXCEPT ![n] = "none"]
  /\ events' = [events EXCEPT ![n] = <<"connected">>]

\* main: AddWatchPath leaves an empty set, Start waits for the connection.
Start(n) ==
  /\ ~ Running(n)
  /\ NewSession(n)
  /\ early' = IF \E l \in leaves : l.host = n THEN early \cup {n} ELSE early \ {n}
  /\ UNCHANGED <<leaves, nextNo, manager, blind, crashes, losses>>

\* The process dies; ZooKeeper does not know yet.
Crash(n) ==
  /\ Running(n)
  /\ crashes < MaxCrashes
  /\ crashes' = crashes + 1
  /\ session' = [session EXCEPT ![n] = 0]
  /\ link' = [link EXCEPT ![n] = FALSE]
  /\ watch' = [watch EXCEPT ![n] = "none"]
  /\ events' = [events EXCEPT ![n] = <<>>]
  /\ pc' = [pc EXCEPT ![n] = "idle"]
  /\ listed' = [listed EXCEPT ![n] = {}]
  /\ table' = [table EXCEPT ![n] = {}]
  /\ UNCHANGED <<zk, early, blind, losses>>

\* The connection is lost, and found again within the session: watches that fired
\* meanwhile are reported after the session event.
Disconnect(n) ==
  /\ link[n]
  /\ losses < MaxLosses
  /\ losses' = losses + 1
  /\ link' = [link EXCEPT ![n] = FALSE]
  /\ UNCHANGED <<zk, watch, session, events, manager, early, blind, crashes>>

Reconnect(n) ==
  /\ Running(n) /\ ~ link[n] /\ session[n] \in alive
  /\ link' = [link EXCEPT ![n] = TRUE]
  /\ events' = [events EXCEPT ![n] =
                  @ \o IF watch[n] = "fired" THEN <<"connected", "children">>
                                             ELSE <<"connected">>]
  /\ watch' = [watch EXCEPT ![n] = IF @ = "fired" THEN "none" ELSE @]
  /\ UNCHANGED <<zk, session, manager, hist>>

\* A session whose client is away expires, and its leaves go.
Expire(s) ==
  /\ s \in alive
  /\ \A n \in Node : session[n] = s => ~ link[n]
  /\ alive' = alive \ {s}
  /\ leaves' = {l \in leaves : l.session # s}
  /\ IF leaves' = leaves THEN UNCHANGED <<watch, events>> ELSE Fire
  /\ UNCHANGED <<nextNo, nextId, client, manager, hist>>

\* SessionThread finds the session expired: OnSessionExpired closes the handle, which
\* waits for a running handler, and opens another.  The table stays as it is.
OnSessionExpired(n) ==
  /\ Running(n) /\ ~ link[n] /\ session[n] \notin alive
  /\ pc[n] = "idle"
  /\ NewSession(n)
  /\ UNCHANGED <<leaves, nextNo, manager, hist>>

(***************************************************************************)
(* GlobalWatcher                                                           *)
(***************************************************************************)
GoTo(n, label) == pc' = [pc EXCEPT ![n] = label]
Handle(n, e) ==
  /\ pc[n] = "idle" /\ events[n] # <<>> /\ Head(events[n]) = e
  /\ events' = [events EXCEPT ![n] = Tail(@)]

\* ResetIndexData, RegisterSelf up to the list NeedToReRegister asks for.  Without a
\* connection the base paths cannot be created, or the list fails, which counts as
\* not being registered.
ResetIndexData(n) ==
  /\ Handle(n, "connected")
  /\ \/ /\ link[n]
        /\ Arm(n)
        /\ listed' = [listed EXCEPT ![n] = leaves]
        /\ GoTo(n, "check")
        /\ UNCHANGED blind
     \/ /\ ~ link[n]
        /\ GoTo(n, "list")
        /\ UNCHANGED <<watch, listed, blind>>
     \/ /\ ~ link[n]
        /\ GoTo(n, "create")
        /\ blind' = blind \cup {n}
        /\ UNCHANGED <<watch, listed>>
  /\ UNCHANGED <<zk, client, table, early, crashes, losses>>

\* What to do about the registration once the leaves are read.
RegisterAlways(n, read) == "create"          \* (mutant) no check
NeedToReRegister(n, read) == IF \E l \in read : l.host = n THEN "list" ELSE "create"

CheckRegistered(n) ==
  /\ pc[n] = "check"
  /\ \E read \in Readable(n) :
       /\ GoTo(n, NeedToReRegister(n, read))
       /\ blind' = IF read # listed[n] \cap leaves THEN blind \cup {n} ELSE blind
  /\ listed' = [listed EXCEPT ![n] = {}]
  /\ UNCHANGED <<zk, watch, client, events, table, early, crashes, losses>>

\* zoo_create; without a connection it fails, or only its answer is lost.
RegisterNode(n) ==
  /\ pc[n] = "create"
  /\ GoTo(n, "list")
  /\ \/ /\ link[n] \/ session[n] \in alive
        /\ leaves' = leaves \cup {[no |-> nextNo, host |-> n, session |-> session[n]]}
        /\ nextNo' = nextNo + 1
        /\ Fire
     \/ /\ ~ link[n]
        /\ UNCHANGED <<leaves, nextNo, watch, events>>
  /\ UNCHANGED <<alive, nextId, client, listed, table, hist>>

\* OnChildrenChanged: AddChildrenWatchPath again.
OnChildrenChanged(n) ==
  /\ Handle(n, "children")
  /\ GoTo(n, "list")
  /\ UNCHANGED <<zk, watch, client, listed, table, hist>>

\* AddChildrenWatchPath: the list, then the leaves one by one.  A list that fails
\* leaves an empty table, and no watch.
ListOnly(n) ==                               \* (mutant) the watch is not set again
  /\ pc[n] = "list" /\ link[n]
  /\ listed' = [listed EXCEPT ![n] = leaves]
  /\ GoTo(n, "read")
  /\ UNCHANGED <<zk, watch, client, events, table, hist>>
WatchNodeChildren(n) ==
  /\ pc[n] = "list"
  /\ \/ /\ link[n]
        /\ Arm(n)
        /\ listed' = [listed EXCEPT ![n] = leaves]
        /\ GoTo(n, "read")
        /\ UNCHANGED table
     \/ /\ ~ link[n]
        /\ table' = [table EXCEPT ![n] = {}]
        /\ GoTo(n, "idle")
        /\ UNCHANGED <<watch, listed>>
  /\ UNCHANGED <<zk, client, events, hist>>

AddChildrenWatchPath(n) ==
  /\ pc[n] = "read"
  /\ \E read \in Readable(n) : table' = [table EXCEPT ![n] = NodeSet(listed[n], read)]
  /\ listed' = [listed EXCEPT ![n] = {}]
  /\ GoTo(n, "idle")
  /\ UNCHANGED <<zk, watch, client, events, hist>>

Handler(n) ==
  \/ ResetIndexData(n) \/ CheckRegistered(n) \/ RegisterNode(n)
  \/ OnChildrenChanged(n) \/ WatchNodeChildren(n) \/ AddChildrenWatchPath(n)

Next ==
  \/ \E n \in Node :
       \/ Start(n) \/ Crash(n) \/ Disconnect(n) \/ Reconnect(n) \/ OnSessionExpired(n)
       \/ ResetIndexData(n) \/ CheckRegistered(n) \/ RegisterNode(n)
       \/ OnChildrenChanged(n) \/ WatchNodeChildren(n) \/ AddChildrenWatchPath(n)
  \/ \E s \in alive : Expire(s)

Spec == Init /\ [][Next]_vars

\* The event thread and SessionThread run, the library reconnects, and the session of
\* a process that died expires.  Nothing makes a process that died start again.
FairSpec ==
  /\ Spec
  /\ \A n \in Node : /\ WF_vars(Handler(n))
                     /\ WF_vars(Reconnect(n) \/ OnSessionExpired(n))
  /\ \A s \in 1..(Cardinality(Node) + MaxCrashes + MaxLosses) :
       WF_vars(Expire(s) /\ \A n \in Node : session[n] # s)

-----------------------------------------------------------------------------
TypeOK ==
  /\ leaves \in SUBSET Leaf
  /\ alive \in SUBSET Nat
  /\ nextNo \in Nat /\ nextId \in Nat
  /\ watch \in [Node -> {"none", "armed", "fired"}]
  /\ session \in [Node -> Nat]
  /\ link \in [Node -> BOOLEAN]
  /\ events \in [Node -> Seq({"connected", "children"})]
  /\ pc \in [Node -> {"idle", "check", "create", "list", "read"}]
  /\ listed \in [Node -> SUBSET Leaf]
  /\ table \in [Node -> SUBSET NodeInfo]
  /\ early \subseteq Node /\ blind \subseteq Node
  /\ crashes \in 0..MaxCrashes /\ losses \in 0..MaxLosses

Live == {n \in Node : Running(n)}

\* Nothing is under way: everybody is connected, nobody has an event to handle, and
\* no leaf is left of a process that is gone.
Settled ==
  /\ \A n \in Live : link[n] /\ pc[n] = "idle" /\ events[n] = <<>>
  /\ \A l \in leaves : session[l.host] = l.session

\* No watch is lost: once nothing is under way every table shows the leaves, in the
\* order of the list and without holes.
SettledAgree == Settled => \A n \in Live : table[n] = NodeSet(leaves, leaves)

\* ... and the positions share out the whole partition: every residue is one running
\* process's, unless a process registered twice.
SettledCovers ==
  Settled /\ (\A l, m \in leaves : l.host = m.host => l = m) =>
    \A p \in 0..(Cardinality(leaves) - 1) :
      \E n \in Live : /\ GetNodePos(n) = p
                      /\ \A m \in Live : GetTotalNodeCnt(m) = Cardinality(leaves)
                      /\ \A m \in Live \ {n} : GetNodePos(m) # p

\* What every processor relies on once the cluster has come to rest: the tables agree
\* on the processes that are there and share out all of the partition.
SettledTables == SettledAgree /\ SettledCovers

\* A running process is left out for good only if it was started before the session of
\* its former life expired: it takes the old leaf for its own.
OutHasCause ==
  Settled => \A n \in Live : (\A l \in leaves : l.host # n) => n \in early

\* A process holds two leaves of one session only if it once lost the connection while
\* it asked whether it was registered.
TwiceHasCause ==
  \A l, m \in leaves : l # m /\ l.session = m.session => l.host \in blind

\* Each running process has one leaf, no less and no more, but for these causes.
RegistrationHasCause == OutHasCause /\ TwiceHasCause

\* Every table catches up: crashes and lost connections stop at some point, and then all
\* running processes come to see the same leaves and keep seeing them.
TablesConverge == <>[](\A n \in Live : table[n] = NodeSet(leaves, leaves))
=============================================================================
