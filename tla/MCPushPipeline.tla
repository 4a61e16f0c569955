--------------------------- MODULE MCPushPipeline ---------------------------
(***************************************************************************)
(* Instances of PushPipeline for TLC: two nodes and a few rows.            *)
(***************************************************************************)
EXTENDS PushPipeline, TLC

CONSTANTS n1, n2

V(p, c) == [pos |-> p, cnt |-> c]

\* Two rows of two businesses: "flight" has a processor, "weather" has none.
\* Row 2 falls to position 0 of 2, row 3 to position 1 of 2.
FaultsBusinessOf == [e \in Event |-> IF e = 2 THEN "flight" ELSE "weather"]

\* The row's id doubles as its fingerprint.
IdFingerprint == [e \in Event |-> e]

\* n2 joins n1 and is listed before it: n1 goes from position 0 of 1 to 1 of 2, and
\* may read node_pos from one view and node_cnt from the other.
OverlapViews == (n1 :> {V(0, 1), V(1, 2)}) @@ (n2 :> {V(0, 2)})

\* A settled cluster of two, with a time when ZkManager knows nothing.
SettledViews == (n1 :> {V(0, 2)}) @@ (n2 :> {V(1, 2), V(-1, 2)})

OpenAtOnce == [e \in Event |-> 0]
SecondOpensLater == [e \in Event |-> IF e = 2 THEN 0 ELSE 1]

FlightOnly == [e \in Event |-> "flight"]
SettledBusinessOf == [e \in Event |-> IF e = 2 THEN "flight" ELSE "hotel"]

Twice == [e \in Event |-> 2]
SecondOnce == [e \in Event |-> IF e = 2 THEN 2 ELSE 1]
=============================================================================
