---------------------------- MODULE PushLifecycle ---------------------------
(***************************************************************************)
(* What the push pipeline promises of an event when its partitions do not  *)
(* overlap and no lock fails: at any time at most one node works on the    *)
(* event, it takes the event only when nobody finished or holds it, and it *)
(* lets it go with a final status or, if it dies or cannot deal with it,   *)
(* without one.  Module PushPipeline implements this under those           *)
(* assumptions; nothing here knows of rounds, snapshots or queues.         *)
(***************************************************************************)
CONSTANTS
  Event,  \* the rows of push_event_info
  Node,   \* the push_controller processes
  None    \* no node

VARIABLES status, holder

vars == <<status, holder>>

Init ==
  /\ status = [e \in Event |-> "Pending"]
  /\ holder = [e \in Event |-> None]

\* Node n marks the event kPushProcessing and works on it.
Claim(e, n) ==
  /\ holder[e] = None /\ status[e] \in {"Pending", "Failed"}
  /\ status' = [status EXCEPT ![e] = "Processing"]
  /\ holder' = [holder EXCEPT ![e] = n]

\* Its holder is done with the event.
Finish(e, s) ==
  /\ holder[e] # None /\ status[e] = "Processing"
  /\ status' = [status EXCEPT ![e] = s]
  /\ holder' = [holder EXCEPT ![e] = None]

\* One node lets go of some events and leaves them kPushProcessing.
Abandon(E) ==
  /\ \E n \in Node : \A e \in E : holder[e] = n /\ status[e] = "Processing"
  /\ holder' = [e \in Event |-> IF e \in E THEN None ELSE holder[e]]
  /\ UNCHANGED status

Next ==
  \/ \E e \in Event :
       \/ \E n \in Node : Claim(e, n)
       \/ \E s \in {"Success", "Failed"} : Finish(e, s)
  \/ \E E \in SUBSET Event : Abandon(E)

Spec == Init /\ [][Next]_vars
=============================================================================
