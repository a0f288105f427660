------------------------------ MODULE Delivery ------------------------------
(***************************************************************************)
(* What the outbox promises to the code that writes an event: once the     *)
(* event is committed it is handed to the queue at least once before its   *)
(* row says dispatched, or it is given up and dead-lettered; one of the    *)
(* two happens eventually, and neither is ever taken back -- except that   *)
(* a late answer may turn a dead-lettered event into a dispatched one.     *)
(* Workers, claims, leases, batches and jobs do not appear.                *)
(***************************************************************************)
CONSTANT Event
VARIABLES stage, handed

dvars == <<stage, handed>>

Init == /\ stage = [e \in Event |-> "absent"]
        /\ handed = {}

Publish(e) == /\ stage[e] = "absent"
              /\ stage' = [stage EXCEPT ![e] = "pending"]
              /\ UNCHANGED handed

\* Handing over may also reach the queue after the row was settled: late.
HandOver(e) == /\ stage[e] # "absent"
               /\ handed' = handed \cup {e}
               /\ UNCHANGED stage

Settle(e) == /\ stage[e] \in {"pending", "dead"} /\ e \in handed
             /\ stage' = [stage EXCEPT ![e] = "dispatched"]
             /\ UNCHANGED handed

GiveUp(e) == /\ stage[e] = "pending"
             /\ stage' = [stage EXCEPT ![e] = "dead"]
             /\ UNCHANGED handed

Next == \E e \in Event : Publish(e) \/ HandOver(e) \/ Settle(e) \/ GiveUp(e)

Safety == Init /\ [][Next]_dvars

\* Nothing stays pending for ever.
Progress == \A e \in Event : stage[e] = "pending" ~> stage[e] \in {"dispatched", "dead"}

Promise == Safety /\ Progress
=============================================================================
