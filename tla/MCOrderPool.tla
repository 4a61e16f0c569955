----------------------------- MODULE MCOrderPool -----------------------------
(***************************************************************************)
(* Instances of OrderPool for TLC.                                         *)
(***************************************************************************)
EXTENDS OrderPool, TLC

CONSTANTS n1, n2

V(p, c) == [pos |-> p, cnt |-> c]

\* One node, always the whole cluster once it is registered.
LoneViews == n1 :> {V(0, 1)}

\* n1 is alone or second of two, n2 first of two when it is there at all.
MovingViews == (n1 :> {V(0, 1), V(1, 2)}) @@ (n2 :> {V(0, 2), NoView})

\* Order 6 does not fit a signed int of 8 values; order 2 does.
IdFingerprint == [o \in Order |-> o]

\* Two versions of a good order for the cluster; for the lone node also details that
\* are no JSON, and JSON but no object.
TwoGood == [o \in Order |-> <<"good", "good">>]
Mixed == [o \in Order |-> IF o = 2 THEN <<"malformed", "good", "good">>
                         ELSE <<"good", "not_object">>]
=============================================================================
