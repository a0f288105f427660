-------------------------- MODULE MCOutboxRecovery --------------------------
(* Two instances of Outbox in one: two workers that take over one event    *)
(* from each other, and one worker that drains two events in batches.      *)
EXTENDS Outbox, TLC

CONSTANT Lone    \* the worker that drains batches
VARIABLE part

RecoveryInit ==
  /\ part \in {"failover", "batches"} /\ Init
  /\ \A w \in Worker : mode[w] = "running" <=> part = "failover" \/ w = Lone
RecoveryNext ==
  /\ Next /\ UNCHANGED part
  /\ part = "failover" => published' \subseteq Email
  /\ part = "batches" => published' \cap Email = {} /\ faults' < MaxFaults
                            /\ \A w \in Worker \ {Lone} : mode'[w] = "down"
RecoverySpec ==
  /\ RecoveryInit /\ [][RecoveryNext]_<<part, vars>>
  /\ \A w \in Worker : WorkerFairness(w) /\ WF_vars((part = "failover" \/ w = Lone) /\ Restart(w))
  /\ \A e \in Event : EventFairness(e)
=============================================================================
