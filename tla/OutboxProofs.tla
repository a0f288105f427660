---------------------------- MODULE OutboxProofs ----------------------------
(***************************************************************************)
(* Proofs about Outbox for every set of workers and events, every batch    *)
(* size and every number of attempts and faults.                           *)
(***************************************************************************)
EXTENDS Outbox, FiniteSetTheorems, TLAPS

USE DEF rows, loop, jobs, ghost, InFlight, Failed, Live, Fault

\* What a claim does, with the chosen batch named.
ClaimOf(w, batch) ==
  /\ mode[w] = "running" /\ step[w] = "idle"
  /\ batch # {} /\ batch \subseteq Claimable
  /\ lease' = [e \in Event |-> IF e \in batch THEN "fresh" ELSE lease[e]]
  /\ attempts' = [e \in Event |-> IF e \in batch THEN attempts[e] + 1
                                                ELSE attempts[e]]
  /\ held' = [held EXCEPT ![w] = batch]
  /\ late' = late \ ({w} \X batch)
  /\ step' = [step EXCEPT ![w] = "enqueue"]
  /\ UNCHANGED <<published, dispatched, dead, deferred, mode, cur, seen, jobs,
                 uncertain, faults>>

\* A claimed batch consists of claimable events.
LEMMA BatchClaimed ==
  ASSUME TypeOK, NEW w \in Worker, ClaimBatch(w)
  PROVE  \E batch \in SUBSET Event : ClaimOf(w, batch)
<1>1. PICK skipped \in SUBSET (Locked(w) \cap Claimable) :
        LET batch == Oldest(Claimable \ skipped, Limit) IN
        /\ batch # {}
        /\ lease' = [e \in Event |-> IF e \in batch THEN "fresh" ELSE lease[e]]
        /\ attempts' = [e \in Event |-> IF e \in batch THEN attempts[e] + 1
                                                      ELSE attempts[e]]
        /\ held' = [held EXCEPT ![w] = batch]
        /\ late' = late \ ({w} \X batch)
  BY DEF ClaimBatch
<1> DEFINE batch == Oldest(Claimable \ skipped, Limit)
<1>2. batch \subseteq Claimable
  BY DEF Oldest
<1>3. Claimable \subseteq Event
  BY DEF Claimable, TypeOK
<1>4. ClaimOf(w, batch)
  BY <1>1, <1>2 DEF ClaimBatch, ClaimOf
<1> QED
  BY <1>2, <1>3, <1>4

\* The variables stay in their types, and a worker that is past queue.add
\* has its current event in its batch.
THEOREM TypeCorrect == Spec => []TypeOK
<1>1. Init => TypeOK
  BY OutboxAssumption DEF Init, TypeOK
<1>2. TypeOK /\ [Next]_vars => TypeOK'
  <2> SUFFICES ASSUME TypeOK, [Next]_vars PROVE TypeOK'
    OBVIOUS
  <2> USE OutboxAssumption DEF TypeOK
  <2>1. ASSUME NEW e \in Event, Publish(e) PROVE TypeOK'
    BY <2>1 DEF Publish
  <2>2. ASSUME NEW e \in Event, BackoffElapses(e) PROVE TypeOK'
    BY <2>2 DEF BackoffElapses
  <2>3. ASSUME NEW e \in Event, LeaseExpires(e) PROVE TypeOK'
    BY <2>3 DEF LeaseExpires
  <2>4. ASSUME NEW e \in Event, LeaseOutlived(e) PROVE TypeOK'
    BY <2>4 DEF LeaseOutlived, Holders
  <2>5. ASSUME NEW e \in Event, JobStep(e) PROVE TypeOK'
    <3>1. CASE MailAccepted(e)
      BY <3>1 DEF MailAccepted
    <3>2. CASE JobCompletes(e)
      BY <3>2 DEF JobCompletes
    <3>3. CASE JobFailsTemporarily(e)
      BY <3>3 DEF JobFailsTemporarily
    <3>4. CASE JobFailsPermanently(e)
      BY <3>4 DEF JobFailsPermanently
    <3>5. CASE JobStalls(e)
      BY <3>5 DEF JobStalls
    <3> QED
      BY <2>5, <3>1, <3>2, <3>3, <3>4, <3>5 DEF JobStep
  <2>6. ASSUME NEW w \in Worker, ClaimBatch(w) PROVE TypeOK'
    <3>1. PICK batch \in SUBSET Event : ClaimOf(w, batch)
      BY <2>6, BatchClaimed
    <3> QED
      BY <3>1 DEF ClaimOf
  <2>7. ASSUME NEW w \in Worker, DispatchStep(w) PROVE TypeOK'
    <3>1. ASSUME NEW e \in Event, QueueAdd(w, e) PROVE TypeOK'
      BY <3>1 DEF QueueAdd, AddJob
    <3>2. ASSUME NEW e \in Event, QueueAddFails(w, e) PROVE TypeOK'
      <4>1. CASE AddJob(e)
        BY <3>2, <4>1 DEF QueueAddFails, AddJob
      <4>2. CASE UNCHANGED jobs
        BY <3>2, <4>2 DEF QueueAddFails
      <4> QED
        BY <3>2, <4>1, <4>2 DEF QueueAddFails
    <3>3. CASE MarkDispatched(w)
      <4>1. cur[w] \in Event
        BY <3>3 DEF MarkDispatched
      <4>2. \A v \in Worker : step'[v] \in {"mark", "read", "write"}
                                => cur'[v] \in held'[v]
        BY <3>3 DEF MarkDispatched, FinishEvent
      <4> QED
        BY <3>3, <4>1, <4>2 DEF MarkDispatched, SetDispatched, FinishEvent
    <3>4. CASE MarkDispatchedFails(w)
      <4>1. cur[w] \in Event /\ cur[w] \in held[w]
        BY <3>4 DEF MarkDispatchedFails
      <4>2. CASE UNCHANGED <<rows, uncertain, faults>>
        BY <3>4, <4>1, <4>2 DEF MarkDispatchedFails
      <4>3. CASE Fault /\ SetDispatched(cur[w]) /\ uncertain' = uncertain \cup {cur[w]}
        <5>1. faults' \in 0 .. MaxFaults
          BY <4>3
        <5> QED
          BY <3>4, <4>1, <4>3, <5>1 DEF MarkDispatchedFails, SetDispatched
      <4> QED
        BY <3>4, <4>2, <4>3 DEF MarkDispatchedFails
    <3>5. CASE ReadFailed(w)
      <4>1. attempts[cur[w]] \in Nat
        BY <3>5 DEF ReadFailed
      <4> QED
        BY <3>5, <4>1 DEF ReadFailed
    <3>6. CASE MarkFailed(w)
      <4>1. cur[w] \in Event
        BY <3>6 DEF MarkFailed
      <4>2. \A v \in Worker : step'[v] \in {"mark", "read", "write"}
                                => cur'[v] \in held'[v]
        BY <3>6 DEF MarkFailed, FinishEvent
      <4>3. dead' \subseteq Event /\ deferred' \subseteq Event
        BY <3>6, <4>1 DEF MarkFailed
      <4> QED
        BY <3>6, <4>1, <4>2, <4>3 DEF MarkFailed, FinishEvent
    <3>7. CASE MarkFailedFails(w)
      BY <3>7 DEF MarkFailedFails, DropBatch
    <3> QED
      BY <2>7, <3>1, <3>2, <3>3, <3>4, <3>5, <3>6, <3>7 DEF DispatchStep
  <2>8. ASSUME NEW w \in Worker, Crash(w) PROVE TypeOK'
    BY <2>8 DEF Crash, DropBatch
  <2>9. ASSUME NEW w \in Worker, Shutdown(w) \/ Exit(w) \/ Restart(w) PROVE TypeOK'
    <3>1. CASE Shutdown(w)
      <4>1. faults' \in 0 .. MaxFaults /\ UNCHANGED <<rows, loop, jobs, late, uncertain>>
        BY <3>1 DEF Shutdown
      <4>2. mode' \in [Worker -> {"running", "draining", "down"}]
        BY <3>1 DEF Shutdown
      <4> QED
        BY <4>1, <4>2
    <3>2. CASE Exit(w)
      BY <3>2 DEF Exit, DropBatch
    <3>3. CASE Restart(w)
      BY <3>3 DEF Restart
    <3> QED
      BY <2>9, <3>1, <3>2, <3>3
  <2>10. ASSUME NEW w \in Worker, NEW e \in Event, JobTake(w, e) PROVE TypeOK'
    BY <2>10 DEF JobTake
  <2>11. CASE UNCHANGED vars
    BY <2>11 DEF vars
  <2> QED
    BY <2>1, <2>2, <2>3, <2>4, <2>5, <2>6, <2>7, <2>8, <2>9, <2>10, <2>11 DEF Next
<1> QED
  BY <1>1, <1>2, PTL DEF Spec
-----------------------------------------------------------------------------
\* What DispatchedIsHanded needs to be inductive: mail is removed from the
\* queue only once accepted, and whoever is about to mark has handed over;
\* only committed rows are claimed and settled.
HandedInv ==
  /\ DispatchedIsHanded
  /\ \A w \in Worker : step[w] = "mark" => cur[w] \in Handed
  /\ \A e \in Event : job[e] = "accepted" => sent[e] > 0
  /\ Terminal \subseteq published
  /\ \A w \in Worker : held[w] \subseteq published

\* No step of the job processor makes an event look as if it had never been
\* handed over.
LEMMA JobStepKeepsHanded ==
  ASSUME TypeOK, HandedInv, NEW e \in Event, JobStep(e)
  PROVE  /\ Handed' = Handed
         /\ \A f \in Event : job'[f] = "accepted" => sent'[f] > 0
         /\ UNCHANGED <<rows, step, held, cur>>
<1> USE OutboxAssumption DEF TypeOK, HandedInv, Handed
<1>1. CASE MailAccepted(e)
  BY <1>1 DEF MailAccepted
<1>2. CASE JobCompletes(e)
  BY <1>2 DEF JobCompletes
<1>3. CASE JobFailsTemporarily(e)
  BY <1>3 DEF JobFailsTemporarily
<1>4. CASE JobFailsPermanently(e)
  BY <1>4 DEF JobFailsPermanently
<1>5. CASE JobStalls(e)
  BY <1>5 DEF JobStalls
<1> QED
  BY <1>1, <1>2, <1>3, <1>4, <1>5 DEF JobStep

\* Adding a job hands the event over and touches no other event.
LEMMA AddJobHands ==
  ASSUME TypeOK, HandedInv, NEW e \in Event, AddJob(e)
  PROVE  /\ Handed' = Handed \cup {e}
         /\ \A f \in Event : job'[f] = "accepted" => sent'[f] > 0
  BY DEF AddJob, TypeOK, HandedInv, Handed

LEMMA HandedInvStep == TypeOK /\ HandedInv /\ [Next]_vars => HandedInv'
<1> SUFFICES ASSUME TypeOK, HandedInv, [Next]_vars PROVE HandedInv'
  OBVIOUS
<1> USE OutboxAssumption
\* Steps that leave the queue alone leave Handed alone.
<1>0. ASSUME UNCHANGED <<job, sent>> PROVE Handed' = Handed
  BY <1>0 DEF Handed
<1>1. ASSUME NEW e \in Event, Publish(e) \/ BackoffElapses(e) \/ LeaseExpires(e) \/ LeaseOutlived(e)
      PROVE HandedInv'
  <2>1. /\ Handed' = Handed /\ UNCHANGED <<loop, jobs, dispatched, dead>>
        /\ published \subseteq published'
    BY <1>1, <1>0 DEF Publish, BackoffElapses, LeaseExpires, LeaseOutlived
  <2> QED
    BY <2>1 DEF HandedInv, DispatchedIsHanded, Terminal
<1>2. ASSUME NEW e \in Event, JobStep(e) PROVE HandedInv'
  BY <1>2, JobStepKeepsHanded DEF HandedInv, DispatchedIsHanded, Terminal
<1>3. ASSUME NEW w \in Worker, ClaimBatch(w) PROVE HandedInv'
  <2>1. PICK batch \in SUBSET Event : ClaimOf(w, batch)
    BY <1>3, BatchClaimed
  <2>2. batch \subseteq published
    BY <2>1 DEF ClaimOf, Claimable
  <2>3. Handed' = Handed
    BY <2>1, <1>0 DEF ClaimOf
  <2> QED
    BY <2>1, <2>2, <2>3 DEF ClaimOf, HandedInv, DispatchedIsHanded, Terminal, TypeOK
<1>4. ASSUME NEW w \in Worker, DispatchStep(w) PROVE HandedInv'
  <2>1. ASSUME NEW e \in Event, QueueAdd(w, e) PROVE HandedInv'
    <3>1. /\ Handed' = Handed \cup {e}
          /\ \A f \in Event : job'[f] = "accepted" => sent'[f] > 0
      BY <2>1, AddJobHands DEF QueueAdd
    <3> QED
      BY <2>1, <3>1 DEF QueueAdd, HandedInv, DispatchedIsHanded, Terminal, TypeOK
  <2>2. ASSUME NEW e \in Event, QueueAddFails(w, e) PROVE HandedInv'
    <3>1. /\ Handed \subseteq Handed'
          /\ \A f \in Event : job'[f] = "accepted" => sent'[f] > 0
      <4>1. CASE AddJob(e)
        BY <4>1, AddJobHands
      <4>2. CASE UNCHANGED jobs
        BY <4>2, <1>0 DEF HandedInv
      <4> QED
        BY <2>2, <4>1, <4>2 DEF QueueAddFails
    <3> QED
      BY <2>2, <3>1 DEF QueueAddFails, HandedInv, DispatchedIsHanded, Terminal, TypeOK
  <2>3. CASE MarkDispatched(w)
    <3>1. cur[w] \in Handed /\ cur[w] \in published /\ Handed' = Handed
      BY <2>3, <1>0 DEF MarkDispatched, HandedInv, TypeOK
    <3> QED
      BY <2>3, <3>1 DEF MarkDispatched, SetDispatched, FinishEvent,
                        HandedInv, DispatchedIsHanded, Terminal, TypeOK
  <2>4. CASE MarkDispatchedFails(w)
    <3>1. cur[w] \in Handed /\ cur[w] \in published /\ Handed' = Handed
      BY <2>4, <1>0 DEF MarkDispatchedFails, HandedInv, TypeOK
    <3>2. /\ dispatched' \subseteq dispatched \cup {cur[w]}
          /\ UNCHANGED <<published, dead>>
      BY <2>4 DEF MarkDispatchedFails, SetDispatched
    <3> QED
      BY <2>4, <3>1, <3>2 DEF MarkDispatchedFails, HandedInv, DispatchedIsHanded,
                              Terminal, TypeOK
  <2>5. CASE ReadFailed(w)
    <3>1. Handed' = Handed
      BY <2>5, <1>0 DEF ReadFailed
    <3> QED
      BY <2>5, <3>1 DEF ReadFailed, HandedInv, DispatchedIsHanded, Terminal, TypeOK
  <2>6. CASE MarkFailed(w)
    <3>1. cur[w] \in published /\ Handed' = Handed
      BY <2>6, <1>0 DEF MarkFailed, HandedInv, TypeOK
    <3>2. dead' \subseteq dead \cup {cur[w]} /\ UNCHANGED <<published, dispatched>>
      BY <2>6 DEF MarkFailed
    <3> QED
      BY <2>6, <3>1, <3>2 DEF MarkFailed, FinishEvent, HandedInv, DispatchedIsHanded,
                              Terminal, TypeOK
  <2>7. CASE MarkFailedFails(w)
    <3>1. Handed' = Handed
      BY <2>7, <1>0 DEF MarkFailedFails
    <3> QED
      BY <2>7, <3>1 DEF MarkFailedFails, DropBatch, HandedInv, DispatchedIsHanded,
                        Terminal, TypeOK
  <2> QED
    BY <1>4, <2>1, <2>2, <2>3, <2>4, <2>5, <2>6, <2>7 DEF DispatchStep
<1>5. ASSUME NEW w \in Worker, Crash(w) \/ Exit(w) PROVE HandedInv'
  <2>1. /\ Handed' = Handed /\ UNCHANGED <<rows, job, sent>>
        /\ DropBatch(w)
    BY <1>5, <1>0 DEF Crash, Exit
  <2> QED
    BY <2>1 DEF DropBatch, HandedInv, DispatchedIsHanded, Terminal, TypeOK
<1>6. ASSUME NEW w \in Worker, Shutdown(w) \/ Restart(w) PROVE HandedInv'
  <2>1. Handed' = Handed /\ UNCHANGED <<rows, loop, jobs>>
    BY <1>6, <1>0 DEF Shutdown, Restart
  <2> QED
    BY <2>1 DEF HandedInv, DispatchedIsHanded, Terminal
<1>7. ASSUME NEW w \in Worker, NEW e \in Event, JobTake(w, e) PROVE HandedInv'
  <2>1. Handed' = Handed
    BY <1>7 DEF JobTake, Handed, TypeOK
  <2> QED
    BY <1>7, <2>1 DEF JobTake, HandedInv, DispatchedIsHanded, Terminal, TypeOK
<1>8. CASE UNCHANGED vars
  BY <1>8 DEF vars, HandedInv, DispatchedIsHanded, Terminal, Handed
<1> QED
  BY <1>1, <1>2, <1>3, <1>4, <1>5, <1>6, <1>7, <1>8 DEF Next

\* A row says dispatched only if its job is in the queue or its mail has been
\* accepted: an event is never lost between PostgreSQL and BullMQ.
THEOREM HandedOver == Spec => []DispatchedIsHanded
<1>1. Init => HandedInv
  BY OutboxAssumption DEF Init, HandedInv, DispatchedIsHanded, Terminal
<1>2. HandedInv => DispatchedIsHanded
  BY DEF HandedInv
<1> QED
  BY <1>1, <1>2, TypeCorrect, HandedInvStep, PTL DEF Spec
-----------------------------------------------------------------------------
\* Claims are exclusive and outcomes single for every event whose lease was
\* never outlived and whose answers all arrived.
LEMMA ExclusiveStep == TypeOK /\ ExclusiveClaims /\ [Next]_vars => ExclusiveClaims'
<1> SUFFICES ASSUME TypeOK, ExclusiveClaims, [Next]_vars,
                    NEW f \in Event, f \notin uncertain'
             PROVE  /\ \A v, w \in Holders(f)' : v = w
                    /\ Holders(f)' # {} => lease'[f] = "fresh" /\ f \notin Terminal'
                    /\ f \notin dispatched' \cap dead'
  BY DEF ExclusiveClaims
<1> DEFINE Goal == /\ \A v, w \in Holders(f)' : v = w
                   /\ Holders(f)' # {} => lease'[f] = "fresh" /\ f \notin Terminal'
                   /\ f \notin dispatched' \cap dead'
<1> USE OutboxAssumption
<1>0. f \notin uncertain =>
        /\ \A v, w \in Holders(f) : v = w
        /\ Holders(f) # {} => lease[f] = "fresh" /\ f \notin Terminal
        /\ f \notin dispatched \cap dead
  BY DEF ExclusiveClaims
\* The queue, the clock of available_at and the life cycle outside a batch.
<1>1. ASSUME UNCHANGED <<held, lease, dispatched, dead, uncertain>> PROVE Goal
  BY <1>0, <1>1 DEF Holders, Terminal
<1>2. ASSUME NEW e \in Event, Publish(e) \/ BackoffElapses(e) \/ JobStep(e) PROVE Goal
  BY <1>1, <1>2 DEF Publish, BackoffElapses, JobStep, MailAccepted, JobCompletes,
                    JobFailsTemporarily, JobFailsPermanently, JobStalls
<1>3. ASSUME NEW e \in Event, LeaseExpires(e) PROVE Goal
  BY <1>0, <1>3 DEF LeaseExpires, Holders, Terminal, TypeOK
<1>4. ASSUME NEW e \in Event, LeaseOutlived(e) PROVE Goal
  <2>1. f # e /\ f \notin uncertain
    BY <1>4 DEF LeaseOutlived, TypeOK
  <2> QED
    BY <1>0, <1>4, <2>1 DEF LeaseOutlived, Holders, Terminal, TypeOK
<1>5. ASSUME NEW w \in Worker, ClaimBatch(w) PROVE Goal
  <2>1. PICK batch \in SUBSET Event : ClaimOf(w, batch)
    BY <1>5, BatchClaimed
  <2>2. f \in batch => Holders(f) = {} /\ f \notin Terminal
    BY <1>0, <2>1 DEF ClaimOf, Claimable
  <2>3. Holders(f)' = IF f \in batch THEN Holders(f) \cup {w} ELSE Holders(f) \ {w}
    BY <2>1 DEF ClaimOf, Holders, TypeOK
  <2> QED
    BY <1>0, <2>1, <2>2, <2>3 DEF ClaimOf, Terminal, TypeOK
<1>6. ASSUME NEW w \in Worker, DispatchStep(w) PROVE Goal
  <2>1. ASSUME NEW e \in Event, QueueAdd(w, e) \/ QueueAddFails(w, e) PROVE Goal
    BY <1>1, <2>1 DEF QueueAdd, QueueAddFails
  <2>2. CASE MarkDispatched(w) \/ MarkFailed(w)
    <3>1. cur[w] \in held[w] /\ cur[w] \in Event /\ f \notin uncertain
      BY <2>2 DEF MarkDispatched, MarkFailed, TypeOK
    <3>2. Holders(f)' = IF f = cur[w] THEN Holders(f) \ {w} ELSE Holders(f)
      BY <2>2, <3>1 DEF MarkDispatched, MarkFailed, FinishEvent, Holders, TypeOK
    <3>3. CASE f = cur[w]
      <4>1. w \in Holders(f)
        BY <3>1, <3>3 DEF Holders
      <4>2. Holders(f)' = {} /\ f \notin Terminal
        BY <1>0, <3>1, <3>2, <3>3, <4>1
      <4> QED
        BY <2>2, <4>2 DEF MarkDispatched, MarkFailed, SetDispatched, Terminal
    <3>4. CASE f # cur[w]
      <4>1. /\ lease'[f] = lease[f]
            /\ f \in dispatched' <=> f \in dispatched
            /\ f \in dead' <=> f \in dead
        BY <2>2, <3>4 DEF MarkDispatched, MarkFailed, SetDispatched, TypeOK
      <4> QED
        BY <1>0, <3>1, <3>2, <3>4, <4>1 DEF Terminal
    <3> QED
      BY <3>3, <3>4
  <2>3. CASE MarkDispatchedFails(w)
    <3>1. CASE UNCHANGED <<rows, uncertain, faults>>
      BY <1>1, <2>3, <3>1 DEF MarkDispatchedFails
    <3>2. CASE SetDispatched(cur[w]) /\ uncertain' = uncertain \cup {cur[w]}
      <4>1. f # cur[w] /\ f \notin uncertain
        BY <3>2
      <4> QED
        BY <1>0, <2>3, <3>2, <4>1 DEF MarkDispatchedFails, SetDispatched, Holders,
                                      Terminal, TypeOK
    <3> QED
      BY <2>3, <3>1, <3>2 DEF MarkDispatchedFails
  <2>4. CASE ReadFailed(w)
    BY <1>1, <2>4 DEF ReadFailed
  <2>5. CASE MarkFailedFails(w)
    <3>1. Holders(f)' \subseteq Holders(f)
      BY <2>5 DEF MarkFailedFails, DropBatch, Holders, TypeOK
    <3> QED
      BY <1>0, <2>5, <3>1 DEF MarkFailedFails, Terminal
  <2> QED
    BY <1>6, <2>1, <2>2, <2>3, <2>4, <2>5 DEF DispatchStep
<1>7. ASSUME NEW w \in Worker, Crash(w) \/ Exit(w) PROVE Goal
  <2>1. Holders(f)' \subseteq Holders(f)
    BY <1>7 DEF Crash, Exit, DropBatch, Holders, TypeOK
  <2> QED
    BY <1>0, <1>7, <2>1 DEF Crash, Exit, Terminal
<1>8. ASSUME NEW w \in Worker, Shutdown(w) \/ Restart(w) PROVE Goal
  BY <1>1, <1>8 DEF Shutdown, Restart
<1>9. ASSUME NEW w \in Worker, NEW e \in Event, JobTake(w, e) PROVE Goal
  BY <1>1, <1>9 DEF JobTake
<1>10. CASE UNCHANGED vars
  BY <1>1, <1>10 DEF vars
<1> QED
  BY <1>2, <1>3, <1>4, <1>5, <1>6, <1>7, <1>8, <1>9, <1>10 DEF Next

\* One worker at most works on an event, and it ends either dispatched or
\* dead-lettered, unless a lease was outlived or an answer lost for it.
THEOREM Exclusive == Spec => []ExclusiveClaims
<1>1. Init => ExclusiveClaims
  BY OutboxAssumption DEF Init, ExclusiveClaims, Holders, Terminal
<1> QED
  BY <1>1, TypeCorrect, ExclusiveStep, PTL DEF Spec
-----------------------------------------------------------------------------
\* Every step of the outbox is a step of the abstract delivery, or invisible.
LEMMA DeliveryStep == TypeOK /\ HandedInv /\ HandedInv' /\ [Next]_vars => [D!Next]_(D!dvars)
<1> SUFFICES ASSUME TypeOK, HandedInv, HandedInv', [Next]_vars
             PROVE  [D!Next]_(D!dvars)
  OBVIOUS
<1> DEFINE stage == [e \in Event |-> Stage(e)]
<1> USE OutboxAssumption
<1>0. ASSUME UNCHANGED <<published, dispatched, dead>> PROVE stage' = stage
  BY <1>0 DEF Stage
<1>a. ASSUME UNCHANGED <<job, sent>> PROVE Handed' = Handed
  BY <1>a DEF Handed
<1>b. ASSUME stage' = stage, Handed' = Handed PROVE UNCHANGED D!dvars
  BY <1>b DEF D!dvars
<1>1. ASSUME NEW e \in Event, Publish(e) PROVE D!Publish(e)
  <2>1. Handed' = Handed
    BY <1>1, <1>a DEF Publish
  <2>2. Stage(e) = "absent" /\ stage' = [stage EXCEPT ![e] = "pending"]
    BY <1>1 DEF Publish, Stage, HandedInv, Terminal
  <2> QED
    BY <2>1, <2>2 DEF D!Publish
<1>2. ASSUME NEW e \in Event, BackoffElapses(e) \/ LeaseExpires(e) \/ LeaseOutlived(e)
      PROVE UNCHANGED D!dvars
  BY <1>2, <1>0, <1>a, <1>b DEF BackoffElapses, LeaseExpires, LeaseOutlived
<1>3. ASSUME NEW e \in Event, JobStep(e) PROVE UNCHANGED D!dvars
  BY <1>3, <1>0, <1>b, JobStepKeepsHanded
<1>4. ASSUME NEW w \in Worker, ClaimBatch(w) PROVE UNCHANGED D!dvars
  BY <1>4, <1>0, <1>a, <1>b DEF ClaimBatch
<1>5. ASSUME NEW w \in Worker, DispatchStep(w) PROVE D!Next \/ UNCHANGED D!dvars
  <2>1. ASSUME NEW e \in Event, QueueAdd(w, e) \/ QueueAddFails(w, e)
        PROVE D!HandOver(e) \/ UNCHANGED D!dvars
    <3>1. stage' = stage /\ e \in published
      BY <2>1, <1>0 DEF QueueAdd, QueueAddFails, HandedInv
    <3>2. stage[e] # "absent"
      BY <3>1 DEF Stage
    <3>3. CASE AddJob(e)
      BY <3>1, <3>2, <3>3, AddJobHands DEF D!HandOver
    <3>4. CASE UNCHANGED jobs
      BY <3>1, <3>4, <1>a, <1>b
    <3> QED
      BY <2>1, <3>3, <3>4 DEF QueueAdd, QueueAddFails
  <2>2. ASSUME step[w] = "mark", SetDispatched(cur[w]), UNCHANGED jobs
        PROVE D!Settle(cur[w]) \/ UNCHANGED D!dvars
    <3>1. cur[w] \in Event /\ cur[w] \in Handed /\ cur[w] \in published /\ Handed' = Handed
      BY <2>2, <1>a DEF HandedInv, TypeOK
    <3>2. stage' = [stage EXCEPT ![cur[w]] = "dispatched"]
      BY <2>2, <3>1 DEF SetDispatched, Stage
    <3>3. CASE cur[w] \in dispatched
      BY <3>1, <3>3, <1>0, <1>b, <2>2 DEF SetDispatched
    <3>4. CASE cur[w] \notin dispatched
      <4>1. stage[cur[w]] \in {"pending", "dead"}
        BY <3>1, <3>4 DEF Stage
      <4> QED
        BY <3>1, <3>2, <4>1 DEF D!Settle
    <3> QED
      BY <3>3, <3>4
  <2>3. CASE MarkDispatched(w)
    <3>1. cur[w] \in Event
      BY <2>3 DEF MarkDispatched, TypeOK
    <3> QED
      BY <2>2, <2>3, <3>1 DEF MarkDispatched, D!Next
  <2>4. CASE MarkDispatchedFails(w)
    <3>1. cur[w] \in Event
      BY <2>4 DEF MarkDispatchedFails, TypeOK
    <3>2. CASE UNCHANGED rows
      BY <2>4, <3>2, <1>0, <1>a, <1>b DEF MarkDispatchedFails
    <3>3. CASE SetDispatched(cur[w])
      BY <2>2, <2>4, <3>1, <3>3 DEF MarkDispatchedFails, D!Next
    <3> QED
      BY <2>4, <3>2, <3>3 DEF MarkDispatchedFails
  <2>5. CASE ReadFailed(w) \/ MarkFailedFails(w)
    BY <2>5, <1>0, <1>a, <1>b DEF ReadFailed, MarkFailedFails
  <2>6. CASE MarkFailed(w)
    <3>1. cur[w] \in Event /\ cur[w] \in published /\ Handed' = Handed
      BY <2>6, <1>a DEF MarkFailed, HandedInv, TypeOK
    <3>2. CASE dead' = dead \/ cur[w] \in Terminal
      <4>1. stage' = stage
        BY <2>6, <3>1, <3>2 DEF MarkFailed, Stage, Terminal
      <4> QED
        BY <3>1, <4>1, <1>b
    <3>3. CASE dead' = dead \cup {cur[w]} /\ cur[w] \notin Terminal
      <4>1. stage[cur[w]] = "pending" /\ stage' = [stage EXCEPT ![cur[w]] = "dead"]
        BY <2>6, <3>1, <3>3 DEF MarkFailed, Stage, Terminal
      <4>2. D!GiveUp(cur[w])
        BY <3>1, <4>1 DEF D!GiveUp
      <4> QED
        BY <3>1, <4>2 DEF D!Next
    <3> QED
      BY <2>6, <3>2, <3>3 DEF MarkFailed
  <2> QED
    BY <1>5, <2>1, <2>3, <2>4, <2>5, <2>6 DEF DispatchStep, D!Next
<1>6. ASSUME NEW w \in Worker, Crash(w) \/ Exit(w) \/ Shutdown(w) \/ Restart(w)
      PROVE UNCHANGED D!dvars
  BY <1>6, <1>0, <1>a, <1>b DEF Crash, Exit, Shutdown, Restart
<1>7. ASSUME NEW w \in Worker, NEW e \in Event, JobTake(w, e) PROVE UNCHANGED D!dvars
  <2>1. Handed' = Handed
    BY <1>7 DEF JobTake, Handed, TypeOK
  <2> QED
    BY <1>7, <2>1, <1>0, <1>b DEF JobTake
<1>8. CASE UNCHANGED vars
  BY <1>8, <1>0, <1>a, <1>b DEF vars
<1> QED
  BY <1>1, <1>2, <1>3, <1>4, <1>5, <1>6, <1>7, <1>8 DEF Next, D!Next

\* The outbox implements at-least-once hand-over.
THEOREM Implements == Spec => ImplementsDelivery
<1>1. Init => D!Init
  BY OutboxAssumption DEF Init, D!Init, Stage, Handed
<1>2. Init => HandedInv
  BY OutboxAssumption DEF Init, HandedInv, DispatchedIsHanded, Terminal
<1> QED
  BY <1>1, <1>2, TypeCorrect, HandedInvStep, DeliveryStep, PTL
     DEF Spec, ImplementsDelivery, D!Safety
-----------------------------------------------------------------------------
\* Why claims do not run away.  Who will make a failed event claimable again
\* without a new fault: workers that read too few attempts, and those that
\* are about to exit; and whether a claim is being worked on.
Low(e) == {w \in Worker : step[w] = "write" /\ cur[w] = e /\ seen[w] < MaxAttempts}
Weak(e) == {w \in Holders(e) : mode[w] = "draining" \/ w \in Low(e)}
Guarded(e) == lease[e] = "fresh" /\ Holders(e) # {}

\* Holders beyond the one of a running lease have cost a fault each; and once
\* an event is at the maximum, each further claim, each worker that may still
\* release it by an old reading, and its being claimable have cost one.
ClaimsOf(e) ==
  /\ IsFiniteSet(Holders(e))
  /\ Cardinality(Holders(e)) <= IF lease[e] = "fresh" THEN faults + 1 ELSE faults
  /\ attempts[e] <= MaxAttempts + faults
  /\ e \notin Terminal /\ attempts[e] >= MaxAttempts =>
       attempts[e] + Cardinality(Weak(e)) + (IF Guarded(e) THEN 0 ELSE 1)
         <= MaxAttempts + faults
ClaimsInv ==
  /\ \A e \in Event : ClaimsOf(e)
  /\ \A w \in Worker : step[w] = "idle" => held[w] = {}

\* The numbers of two sets that are compared, one finite.
LEMMA Smaller ==
  ASSUME NEW S, NEW T, IsFiniteSet(S), T \subseteq S
  PROVE  /\ IsFiniteSet(T)
         /\ Cardinality(T) \in Nat /\ Cardinality(S) \in Nat
         /\ Cardinality(T) <= Cardinality(S)
         /\ T # S => Cardinality(T) < Cardinality(S)
<1>1. IsFiniteSet(T) /\ Cardinality(T) <= Cardinality(S)
      /\ (Cardinality(S) = Cardinality(T) => S = T)
  BY FS_Subset
<1>2. Cardinality(T) \in Nat /\ Cardinality(S) \in Nat
  BY <1>1, FS_CardinalityType
<1> QED
  BY <1>1, <1>2

LEMMA OneMember ==
  ASSUME NEW S, NEW x, IsFiniteSet(S)
  PROVE  /\ IsFiniteSet(S \cup {x}) /\ IsFiniteSet(S \ {x})
         /\ Cardinality(S \cup {x}) <= Cardinality(S) + 1
         /\ x \in S => Cardinality(S \ {x}) = Cardinality(S) - 1
<1>1. Cardinality(S) \in Nat
  BY FS_CardinalityType
<1>2. /\ IsFiniteSet(S \cup {x})
      /\ Cardinality(S \cup {x}) = IF x \in S THEN Cardinality(S) ELSE Cardinality(S) + 1
  BY FS_AddElement
<1>3. /\ IsFiniteSet(S \ {x})
      /\ Cardinality(S \ {x}) = IF x \in S THEN Cardinality(S) - 1 ELSE Cardinality(S)
  BY FS_RemoveElement
<1> QED
  BY <1>1, <1>2, <1>3

\* A worker who stops working on an event without a fault was weak.
LEMMA ClaimsCalm ==
  ASSUME TypeOK, TypeOK', NEW f \in Event, ClaimsOf(f),
         Holders(f)' \subseteq Holders(f),
         attempts[f] >= MaxAttempts => Weak(f)' \subseteq Weak(f),
         lease'[f] = lease[f], attempts'[f] = attempts[f],
         faults' >= faults, f \in Terminal => f \in Terminal',
         \/ Holders(f)' # {} \/ Holders(f) = {} \/ faults' > faults
         \/ Weak(f)' # Weak(f)
  PROVE  ClaimsOf(f)'
<1>1. /\ IsFiniteSet(Holders(f)')
      /\ Cardinality(Holders(f)') \in Nat /\ Cardinality(Holders(f)) \in Nat
      /\ Cardinality(Holders(f)') <= Cardinality(Holders(f))
  BY Smaller DEF ClaimsOf
<1>2. faults \in Nat /\ faults' \in Nat /\ MaxAttempts \in Nat /\ attempts[f] \in Nat
  BY OutboxAssumption DEF TypeOK
<1>3. ASSUME f \notin Terminal', attempts'[f] >= MaxAttempts
      PROVE  attempts'[f] + Cardinality(Weak(f)') + (IF Guarded(f)' THEN 0 ELSE 1)
               <= MaxAttempts + faults'
  <2>1. IsFiniteSet(Weak(f))
    BY Smaller DEF ClaimsOf, Weak
  <2>2. /\ Cardinality(Weak(f)') \in Nat /\ Cardinality(Weak(f)) \in Nat
        /\ Cardinality(Weak(f)') <= Cardinality(Weak(f))
        /\ Weak(f)' # Weak(f) => Cardinality(Weak(f)') < Cardinality(Weak(f))
    BY <1>3, <2>1, Smaller
  <2>3. attempts[f] + Cardinality(Weak(f)) + (IF Guarded(f) THEN 0 ELSE 1)
          <= MaxAttempts + faults
    BY <1>3 DEF ClaimsOf
  <2>4. CASE Guarded(f)' \/ ~Guarded(f)
    BY <1>2, <2>2, <2>3, <2>4
  <2>5. CASE Guarded(f) /\ ~Guarded(f)'
    <3>1. faults' > faults \/ Weak(f)' # Weak(f)
      BY <2>5 DEF Guarded
    <3> QED
      BY <1>2, <2>2, <2>3, <2>5, <3>1
  <2> QED
    BY <2>4, <2>5
<1> QED
  BY <1>1, <1>2, <1>3 DEF ClaimsOf

\* Between two batches a worker holds nothing.
LEMMA IdleStep ==
  ASSUME TypeOK, [Next]_vars, NEW v \in Worker, step'[v] = "idle",
         step[v] = "idle" => held[v] = {}
  PROVE  held'[v] = {}
<1> USE OutboxAssumption DEF TypeOK
<1>1. ASSUME UNCHANGED <<held, step>> PROVE held'[v] = {}
  BY <1>1
<1>2. ASSUME NEW e \in Event,
             Publish(e) \/ BackoffElapses(e) \/ LeaseExpires(e) \/ LeaseOutlived(e) \/ JobStep(e)
      PROVE  held'[v] = {}
  BY <1>1, <1>2 DEF Publish, BackoffElapses, LeaseExpires, LeaseOutlived, JobStep, MailAccepted,
                    JobCompletes, JobFailsTemporarily, JobFailsPermanently, JobStalls
<1>3. ASSUME NEW w \in Worker, ClaimBatch(w) PROVE held'[v] = {}
  <2>1. PICK batch \in SUBSET Event : ClaimOf(w, batch)
    BY <1>3, BatchClaimed
  <2> QED
    BY <2>1 DEF ClaimOf
<1>4. ASSUME NEW w \in Worker, DispatchStep(w) PROVE held'[v] = {}
  <2>1. ASSUME NEW e \in Event, QueueAdd(w, e) \/ QueueAddFails(w, e) PROVE held'[v] = {}
    BY <2>1 DEF QueueAdd, QueueAddFails
  <2>2. CASE MarkDispatched(w) \/ MarkFailed(w)
    BY <2>2 DEF MarkDispatched, MarkFailed, FinishEvent
  <2>3. CASE MarkDispatchedFails(w) \/ ReadFailed(w)
    BY <2>3 DEF MarkDispatchedFails, ReadFailed
  <2>4. CASE MarkFailedFails(w)
    BY <2>4 DEF MarkFailedFails, DropBatch
  <2> QED
    BY <1>4, <2>1, <2>2, <2>3, <2>4 DEF DispatchStep
<1>5. ASSUME NEW w \in Worker, Crash(w) \/ Exit(w) PROVE held'[v] = {}
  BY <1>5 DEF Crash, Exit, DropBatch
<1>6. ASSUME NEW w \in Worker, Shutdown(w) \/ Restart(w) PROVE held'[v] = {}
  BY <1>1, <1>6 DEF Shutdown, Restart
<1>7. ASSUME NEW w \in Worker, NEW e \in Event, JobTake(w, e) PROVE held'[v] = {}
  BY <1>1, <1>7 DEF JobTake
<1>8. CASE UNCHANGED vars
  BY <1>1, <1>8 DEF vars
<1> QED
  BY <1>2, <1>3, <1>4, <1>5, <1>6, <1>7, <1>8 DEF Next

LEMMA ClaimsStep == TypeOK /\ TypeOK' /\ ClaimsInv /\ [Next]_vars => ClaimsInv'
<1> SUFFICES ASSUME TypeOK, TypeOK', ClaimsInv, [Next]_vars, NEW f \in Event PROVE ClaimsOf(f)'
  BY IdleStep DEF ClaimsInv
<1> USE OutboxAssumption
<1>0. ClaimsOf(f)
  BY DEF ClaimsInv
<1>a. /\ faults \in Nat /\ faults' \in Nat /\ MaxAttempts \in Nat \ {0}
      /\ attempts[f] \in Nat /\ attempts'[f] \in Nat
  BY DEF TypeOK
<1>b. /\ IsFiniteSet(Holders(f)) /\ IsFiniteSet(Weak(f))
      /\ Cardinality(Holders(f)) \in Nat /\ Cardinality(Weak(f)) \in Nat
      /\ Cardinality(Weak(f)) <= Cardinality(Holders(f))
  BY <1>0, Smaller DEF ClaimsOf, Weak
\* Steps that leave the claims alone, or hold other events.
<1>1. ASSUME UNCHANGED <<held, step, cur, seen, mode, lease, attempts>>,
             faults' >= faults, Terminal \subseteq Terminal' PROVE ClaimsOf(f)'
  BY <1>0, <1>1, ClaimsCalm DEF Holders, Weak, Low
<1>2. ASSUME NEW e \in Event, Publish(e) \/ BackoffElapses(e) \/ JobStep(e) PROVE ClaimsOf(f)'
  <2>1. UNCHANGED <<held, step, cur, seen, mode, lease, attempts, faults, dispatched, dead>>
    BY <1>2 DEF Publish, BackoffElapses, JobStep, MailAccepted, JobCompletes,
                JobFailsTemporarily, JobFailsPermanently, JobStalls
  <2> QED
    BY <1>a, <2>1, <1>1 DEF Terminal
<1>3. ASSUME NEW e \in Event, LeaseExpires(e) PROVE ClaimsOf(f)'
  <2>1. Holders(f)' = Holders(f) /\ Weak(f)' = Weak(f) /\ Terminal' = Terminal
    BY <1>3 DEF LeaseExpires, Holders, Weak, Low, Terminal
  <2>2. CASE f # e
    <3>1. lease'[f] = lease[f] /\ attempts' = attempts /\ faults' = faults
      BY <1>3, <2>2 DEF LeaseExpires, TypeOK
    <3> QED
      BY <1>0, <1>a, <2>1, <3>1, ClaimsCalm
  <2>3. CASE f = e
    <3>1. Holders(f) = {} /\ attempts' = attempts /\ faults' = faults
      BY <1>3, <2>3 DEF LeaseExpires
    <3>2. Cardinality(Holders(f)') = 0 /\ ~Guarded(f) /\ ~Guarded(f)'
      BY <2>1, <3>1, FS_EmptySet DEF Guarded
    <3>3. Cardinality(Holders(f)') <= IF lease'[f] = "fresh" THEN faults' + 1 ELSE faults'
      <4>1. lease'[f] = "stale"
        BY <1>3, <2>3 DEF LeaseExpires, TypeOK
      <4>2. Cardinality(Holders(f)') <= faults'
        BY <1>a, <3>2
      <4> QED
        BY <4>1, <4>2
    <3> QED
      BY <1>0, <1>a, <2>1, <3>1, <3>2, <3>3 DEF ClaimsOf
  <2> QED
    BY <2>2, <2>3
<1>4. ASSUME NEW e \in Event, LeaseOutlived(e) PROVE ClaimsOf(f)'
  <2>1. /\ Holders(f)' = Holders(f) /\ Weak(f)' = Weak(f) /\ Terminal' = Terminal
        /\ attempts' = attempts /\ faults' = faults + 1
    BY <1>4 DEF LeaseOutlived, Holders, Weak, Low, Terminal
  <2>2. CASE f # e
    <3>1. lease'[f] = lease[f]
      BY <1>4, <2>2 DEF LeaseOutlived, TypeOK
    <3> QED
      BY <1>0, <1>a, <2>1, <3>1, ClaimsCalm
  <2>3. Cardinality(Holders(f)') <= IF lease'[f] = "fresh" THEN faults' + 1 ELSE faults'
    BY <1>0, <1>a, <1>b, <2>1 DEF ClaimsOf
  <2> QED
    BY <1>0, <1>a, <1>b, <2>1, <2>3 DEF ClaimsOf
<1>5. ASSUME NEW w \in Worker, ClaimBatch(w) PROVE ClaimsOf(f)'
  <2>1. PICK batch \in SUBSET Event : ClaimOf(w, batch)
    BY <1>5, BatchClaimed
  <2>2. /\ Holders(f)' = IF f \in batch THEN Holders(f) \cup {w} ELSE Holders(f)
        /\ Terminal' = Terminal /\ faults' = faults
    <3>1. held[w] = {}
      BY <2>1 DEF ClaimOf, ClaimsInv
    <3> QED
      BY <2>1, <3>1 DEF ClaimOf, Holders, Terminal, TypeOK
  <2>3. Weak(f)' = Weak(f)
    BY <2>1, <2>2 DEF ClaimOf, Weak, Low, TypeOK
  <2>4. CASE f \notin batch
    <3>1. lease'[f] = lease[f] /\ attempts'[f] = attempts[f]
      BY <2>1, <2>4 DEF ClaimOf
    <3> QED
      BY <1>0, <1>a, <2>2, <2>3, <2>4, <3>1, ClaimsCalm
  <2>5. CASE f \in batch
    <3>1. /\ lease[f] # "fresh" /\ f \notin Terminal
          /\ lease'[f] = "fresh" /\ attempts'[f] = attempts[f] + 1
      BY <2>1, <2>5 DEF ClaimOf, Claimable
    <3>2. /\ IsFiniteSet(Holders(f)')
          /\ Cardinality(Holders(f)') <= Cardinality(Holders(f)) + 1
      BY <1>b, <2>2, <2>5, FS_AddElement
    <3>3. Guarded(f)' /\ ~Guarded(f) /\ Weak(f)' = Weak(f)
      BY <2>2, <2>3, <2>5, <3>1 DEF Guarded
    <3>4. Cardinality(Holders(f)) <= faults
      BY <1>0, <3>1 DEF ClaimsOf
    <3>5. Cardinality(Holders(f)') <= faults' + 1
      <4>1. Cardinality(Holders(f)') \in Nat
        BY <3>2, FS_CardinalityType
      <4> QED
        BY <1>a, <1>b, <2>2, <3>2, <3>4, <4>1
    <3>6. CASE attempts[f] >= MaxAttempts
      <4>1. attempts[f] + Cardinality(Weak(f)) + 1 <= MaxAttempts + faults
        BY <1>0, <3>1, <3>3, <3>6 DEF ClaimsOf
      <4>2. attempts'[f] + Cardinality(Weak(f)') <= MaxAttempts + faults'
        BY <1>a, <1>b, <2>2, <3>1, <3>3, <4>1
      <4>3. attempts'[f] <= MaxAttempts + faults'
        BY <1>a, <1>b, <3>3, <4>2
      <4> QED
        BY <1>a, <1>b, <3>1, <3>2, <3>3, <3>5, <4>2, <4>3 DEF ClaimsOf
    <3>7. CASE attempts[f] < MaxAttempts
      <4>1. attempts'[f] <= MaxAttempts
        BY <1>a, <3>1, <3>7
      <4>2. attempts'[f] + Cardinality(Weak(f)') <= MaxAttempts + faults'
        BY <1>a, <1>b, <2>2, <3>3, <3>4, <4>1
      <4>3. attempts'[f] <= MaxAttempts + faults'
        BY <1>a, <4>1
      <4> QED
        BY <1>a, <1>b, <3>1, <3>2, <3>3, <3>5, <4>2, <4>3 DEF ClaimsOf
    <3> QED
      BY <1>a, <3>6, <3>7
  <2> QED
    BY <2>4, <2>5
<1>6. ASSUME NEW w \in Worker, DispatchStep(w) PROVE ClaimsOf(f)'
  <2>1. ASSUME NEW e \in Event, QueueAdd(w, e) \/ QueueAddFails(w, e) PROVE ClaimsOf(f)'
    <3>1. /\ UNCHANGED <<held, seen, mode, rows, faults>>
          /\ step[w] = "enqueue" /\ step' = [step EXCEPT ![w] = step'[w]] /\ step'[w] # "write"
          /\ cur' = [cur EXCEPT ![w] = e]
      BY <2>1 DEF QueueAdd, QueueAddFails, TypeOK
    <3>2. Holders(f)' = Holders(f) /\ Weak(f)' = Weak(f) /\ Terminal' = Terminal
      BY <3>1 DEF Holders, Weak, Low, Terminal, TypeOK
    <3> QED
      BY <1>0, <1>a, <3>1, <3>2, ClaimsCalm
  <2>2. CASE MarkDispatched(w) \/ MarkFailed(w)
    <3>1. cur[w] \in held[w] /\ cur[w] \in Event /\ faults' = faults /\ attempts' = attempts
          /\ UNCHANGED mode
      BY <2>2 DEF MarkDispatched, MarkFailed, SetDispatched, TypeOK
    <3>2. Holders(f)' = IF f = cur[w] THEN Holders(f) \ {w} ELSE Holders(f)
      BY <2>2, <3>1 DEF MarkDispatched, MarkFailed, FinishEvent, Holders, TypeOK
    <3>3. Weak(f)' = IF f = cur[w] THEN Weak(f) \ {w} ELSE Weak(f)
      BY <2>2, <3>1, <3>2 DEF MarkDispatched, MarkFailed, FinishEvent, Weak, Low, TypeOK
    <3>4. CASE f = cur[w]
      <4>1. w \in Holders(f) /\ lease'[f] = "none"
        BY <2>2, <3>1, <3>4 DEF MarkDispatched, MarkFailed, SetDispatched, Holders, TypeOK
      <4>2. /\ IsFiniteSet(Holders(f)')
            /\ Cardinality(Holders(f)') = Cardinality(Holders(f)) - 1
        BY <1>b, <3>2, <3>4, <4>1, FS_RemoveElement
      <4>3. Cardinality(Holders(f)') <= faults'
        BY <1>0, <1>a, <1>b, <3>1, <4>2 DEF ClaimsOf
      <4>4. ~Guarded(f)'
        BY <4>1 DEF Guarded
      <4>5. ASSUME f \notin Terminal', attempts'[f] >= MaxAttempts
            PROVE  attempts'[f] + Cardinality(Weak(f)') + 1 <= MaxAttempts + faults'
        <5>1. MarkFailed(w) /\ seen[w] < MaxAttempts /\ f \notin Terminal
          BY <1>a, <2>2, <3>4, <4>5 DEF MarkDispatched, MarkFailed, SetDispatched, Terminal, TypeOK
        <5>2. w \in Weak(f)
          BY <3>4, <4>1, <5>1 DEF MarkFailed, Weak, Low
        <5>3. Cardinality(Weak(f)') = Cardinality(Weak(f)) - 1
          BY <1>b, <3>3, <3>4, <5>2, OneMember
        <5>4. attempts[f] + Cardinality(Weak(f)) <= MaxAttempts + faults
          BY <1>0, <1>a, <1>b, <3>1, <4>5, <5>1 DEF ClaimsOf
        <5> QED
          BY <1>a, <1>b, <3>1, <5>3, <5>4
      <4> QED
        BY <1>0, <1>a, <3>1, <4>1, <4>2, <4>3, <4>4, <4>5 DEF ClaimsOf
    <3>5. CASE f # cur[w]
      <4>1. lease'[f] = lease[f] /\ Terminal \subseteq Terminal'
        BY <2>2, <3>5 DEF MarkDispatched, MarkFailed, SetDispatched, Terminal, TypeOK
      <4> QED
        BY <1>0, <1>a, <3>1, <3>2, <3>3, <3>5, <4>1, ClaimsCalm
    <3> QED
      BY <3>4, <3>5
  <2>3. CASE MarkDispatchedFails(w)
    <3>1. Holders(f)' = Holders(f) /\ Weak(f)' = Weak(f)
      BY <2>3 DEF MarkDispatchedFails, Holders, Weak, Low, TypeOK
    <3>2. CASE UNCHANGED <<rows, uncertain, faults>>
      BY <1>0, <1>a, <3>1, <3>2, ClaimsCalm DEF Terminal
    <3>3. CASE Fault /\ SetDispatched(cur[w])
      <4>1. attempts' = attempts /\ faults' = faults + 1 /\ Terminal \subseteq Terminal'
        BY <3>3 DEF SetDispatched, Terminal
      <4>2. CASE f = cur[w]
        <5>1. f \in Terminal'
          BY <3>3, <4>2 DEF SetDispatched, Terminal
        <5>2. Cardinality(Holders(f)') <= faults'
          BY <1>0, <1>a, <1>b, <3>1, <4>1 DEF ClaimsOf
        <5>3. attempts'[f] <= MaxAttempts + faults'
          BY <1>0, <1>a, <4>1 DEF ClaimsOf
        <5> QED
          BY <1>a, <1>b, <3>1, <5>1, <5>2, <5>3 DEF ClaimsOf
      <4>3. CASE f # cur[w]
        <5>1. lease'[f] = lease[f]
          BY <3>3, <4>3 DEF SetDispatched, TypeOK
        <5> QED
          BY <1>0, <1>a, <3>1, <4>1, <5>1, ClaimsCalm
      <4> QED
        BY <4>2, <4>3
    <3> QED
      BY <2>3, <3>2, <3>3 DEF MarkDispatchedFails
  <2>4. CASE ReadFailed(w)
    <3>1. UNCHANGED <<rows, mode, held, cur, faults>>
      BY <2>4 DEF ReadFailed
    <3>2. Holders(f)' = Holders(f) /\ Terminal' = Terminal
      BY <3>1 DEF Holders, Terminal
    <3>3. attempts[f] >= MaxAttempts => Weak(f)' = Weak(f)
      <4>1. \A v \in Worker \ {w} : seen'[v] = seen[v] /\ step'[v] = step[v]
        BY <2>4 DEF ReadFailed, TypeOK
      <4>2. step[w] = "read" /\ seen'[w] = attempts[cur[w]]
        BY <2>4 DEF ReadFailed, TypeOK
      <4>3. attempts[f] >= MaxAttempts => ~(cur[w] = f /\ seen'[w] < MaxAttempts)
        BY <1>a, <4>2
      <4> QED
        BY <3>1, <3>2, <4>1, <4>2, <4>3 DEF Weak, Low
    <3> QED
      BY <1>0, <1>a, <3>1, <3>2, <3>3, ClaimsCalm
  <2>5. CASE MarkFailedFails(w)
    <3>1. Holders(f)' \subseteq Holders(f) /\ Weak(f)' \subseteq Weak(f)
      BY <2>5 DEF MarkFailedFails, DropBatch, Holders, Weak, Low, TypeOK
    <3>2. UNCHANGED rows /\ faults' > faults
      BY <1>a, <2>5 DEF MarkFailedFails
    <3> QED
      BY <1>0, <1>a, <3>1, <3>2, ClaimsCalm DEF Terminal
  <2> QED
    BY <1>6, <2>1, <2>2, <2>3, <2>4, <2>5 DEF DispatchStep
<1>7. ASSUME NEW w \in Worker, Crash(w) \/ Exit(w) PROVE ClaimsOf(f)'
  <2>1. /\ mode' = [mode EXCEPT ![w] = "down"] /\ DropBatch(w) /\ UNCHANGED rows
    BY <1>7 DEF Crash, Exit
  <2>2. Holders(f)' = Holders(f) \ {w} /\ Weak(f)' = Weak(f) \ {w}
    BY <2>1 DEF DropBatch, Holders, Weak, Low, TypeOK
  <2>3. faults' > faults \/ (faults' = faults /\ mode[w] = "draining")
    BY <1>a, <1>7 DEF Crash, Exit
  <2>4. w \in Holders(f) /\ mode[w] = "draining" => w \in Weak(f)
    BY DEF Weak
  <2> QED
    BY <1>0, <1>a, <2>1, <2>2, <2>3, <2>4, ClaimsCalm DEF Terminal
<1>8. ASSUME NEW w \in Worker, Shutdown(w) PROVE ClaimsOf(f)'
  <2>1. Holders(f)' = Holders(f) /\ Weak(f)' \subseteq Weak(f) \cup {w} /\ Terminal' = Terminal
        /\ Guarded(f)' = Guarded(f) /\ UNCHANGED rows
    BY <1>8 DEF Shutdown, Holders, Weak, Low, Terminal, Guarded, TypeOK
  <2>2. faults' = faults + 1
    BY <1>8 DEF Shutdown
  <2>3. Cardinality(Weak(f)') \in Nat /\ Cardinality(Weak(f)') <= Cardinality(Weak(f)) + 1
    <3>1. /\ IsFiniteSet(Weak(f) \cup {w})
          /\ Cardinality(Weak(f) \cup {w}) <= Cardinality(Weak(f)) + 1
      BY <1>b, OneMember
    <3>2. /\ Cardinality(Weak(f)') \in Nat /\ Cardinality(Weak(f) \cup {w}) \in Nat
          /\ Cardinality(Weak(f)') <= Cardinality(Weak(f) \cup {w})
      BY <2>1, <3>1, Smaller
    <3> QED
      BY <1>b, <3>1, <3>2
  <2>4. Cardinality(Holders(f)') <= IF lease'[f] = "fresh" THEN faults' + 1 ELSE faults'
    BY <1>0, <1>a, <1>b, <2>1, <2>2 DEF ClaimsOf
  <2>5. ASSUME f \notin Terminal, attempts[f] >= MaxAttempts
        PROVE  attempts[f] + Cardinality(Weak(f)') + (IF Guarded(f) THEN 0 ELSE 1)
                 <= MaxAttempts + faults'
    BY <1>0, <1>a, <1>b, <2>2, <2>3, <2>5 DEF ClaimsOf
  <2>6. attempts[f] <= MaxAttempts + faults'
    BY <1>0, <1>a, <2>2 DEF ClaimsOf
  <2> QED
    BY <1>b, <2>1, <2>4, <2>5, <2>6 DEF ClaimsOf
<1>9. ASSUME NEW w \in Worker, Restart(w) PROVE ClaimsOf(f)'
  <2>1. UNCHANGED <<rows, loop, faults>> /\ mode[w] = "down"
        /\ mode' = [mode EXCEPT ![w] = "running"]
    BY <1>9 DEF Restart
  <2>2. Holders(f)' = Holders(f) /\ Weak(f)' = Weak(f) /\ Terminal' = Terminal
    BY <2>1 DEF Holders, Weak, Low, Terminal, TypeOK
  <2> QED
    BY <1>0, <1>a, <2>1, <2>2, ClaimsCalm
<1>10. ASSUME NEW w \in Worker, NEW e \in Event, JobTake(w, e) PROVE ClaimsOf(f)'
  BY <1>a, <1>1, <1>10 DEF JobTake, Terminal
<1>11. CASE UNCHANGED vars
  BY <1>a, <1>1, <1>11 DEF vars, Terminal
<1> QED
  BY <1>2, <1>3, <1>4, <1>5, <1>6, <1>7, <1>8, <1>9, <1>10, <1>11 DEF Next
-----------------------------------------------------------------------------
\* Why mail does not run away.  Workers that may still add a job for an event,
\* and how often its present job may still submit.
Adders(e) == {w \in Holders(e) : ~(step[w] \in {"mark", "read", "write"} /\ cur[w] = e)}
Ongoing == {"waiting", "active", "accepted"}
Left(e) ==
  IF job[e] \in Ongoing
  THEN AttemptsOf(e) - tries[e] + (IF e \in stalls THEN 0 ELSE 1)
                                - (IF job[e] = "accepted" THEN 1 ELSE 0)
  ELSE 0

\* Each claim pays for one job, added or not yet added, and a job for its
\* attempts and one recovery.
MailsOf(e) ==
  /\ job[e] \in Ongoing => tries[e] < AttemptsOf(e)
  /\ \E added \in Nat : /\ added + Cardinality(Adders(e)) <= attempts[e]
                         /\ sent[e] + Left(e) <= added * (AttemptsOf(e) + 1)
MailsInv == \A e \in Event : MailsOf(e)

LEMMA OneMore ==
  ASSUME NEW n \in Nat, NEW k \in Nat
  PROVE  (n + 1) * k = n * k + k
  OBVIOUS

LEMMA ProductGrows ==
  ASSUME NEW n \in Nat, NEW m \in Nat, NEW k \in Nat, n <= m
  PROVE  n * k <= m * k
  OBVIOUS

\* Steps that add no job: nobody becomes an adder, and what is submitted is
\* no longer left.
LEMMA MailsCalm ==
  ASSUME TypeOK, TypeOK', NEW f \in Event, IsFiniteSet(Holders(f)), MailsOf(f),
         attempts[f] <= attempts'[f],
         \/ Adders(f)' \subseteq Adders(f)
         \/ /\ attempts'[f] = attempts[f] + 1
            /\ \E w : Adders(f)' \subseteq Adders(f) \cup {w},
         sent'[f] + Left(f)' <= sent[f] + Left(f),
         job'[f] \in Ongoing => tries'[f] < AttemptsOf(f)
  PROVE  MailsOf(f)'
<1>1. PICK added \in Nat : /\ added + Cardinality(Adders(f)) <= attempts[f]
                           /\ sent[f] + Left(f) <= added * (AttemptsOf(f) + 1)
  BY DEF MailsOf
<1>2. AttemptsOf(f) \in Nat \ {0} /\ attempts[f] \in Nat /\ attempts'[f] \in Nat
  BY OutboxAssumption DEF AttemptsOf, TypeOK
<1>3. Left(f) \in Int /\ Left(f)' \in Int /\ sent[f] \in Nat /\ sent'[f] \in Nat
  BY <1>2 DEF Left, TypeOK, AttemptsOf
<1>4. IsFiniteSet(Adders(f)) /\ Cardinality(Adders(f)) \in Nat
  BY Smaller DEF Adders
<1>5. added + Cardinality(Adders(f)') <= attempts'[f]
  <2>1. CASE Adders(f)' \subseteq Adders(f)
    <3>1. /\ Cardinality(Adders(f)') <= Cardinality(Adders(f))
          /\ Cardinality(Adders(f)') \in Nat
      BY <1>4, <2>1, Smaller
    <3> QED
      BY <1>1, <1>2, <1>4, <3>1
  <2>2. ASSUME attempts'[f] = attempts[f] + 1,
               NEW w, Adders(f)' \subseteq Adders(f) \cup {w}
        PROVE  added + Cardinality(Adders(f)') <= attempts'[f]
    <3>1. /\ IsFiniteSet(Adders(f) \cup {w})
          /\ Cardinality(Adders(f) \cup {w}) <= Cardinality(Adders(f)) + 1
      BY <1>4, OneMember
    <3>2. /\ Cardinality(Adders(f)') \in Nat /\ Cardinality(Adders(f) \cup {w}) \in Nat
          /\ Cardinality(Adders(f)') <= Cardinality(Adders(f) \cup {w})
      BY <2>2, <3>1, Smaller
    <3> QED
      BY <1>1, <1>2, <1>4, <2>2, <3>1, <3>2
  <2> QED
    BY <2>1, <2>2
<1>6. AttemptsOf(f)' = AttemptsOf(f)
  BY DEF AttemptsOf
<1>7. sent'[f] + Left(f)' <= added * (AttemptsOf(f) + 1)
  <2> DEFINE p == added * (AttemptsOf(f) + 1)
  <2>1. p \in Nat
    BY <1>2
  <2>2. sent[f] + Left(f) <= p
    BY <1>1
  <2> HIDE DEF p
  <2>3. sent'[f] + Left(f)' <= p
    BY <1>3, <2>1, <2>2
  <2> QED
    BY <2>3 DEF p
<1> QED
  BY <1>5, <1>6, <1>7 DEF MailsOf

\* A worker that adds the job of its event is no adder of it any more.
LEMMA MailsAdd ==
  ASSUME TypeOK, TypeOK', NEW f \in Event, IsFiniteSet(Holders(f)), MailsOf(f),
         NEW w \in Adders(f), Adders(f)' = Adders(f) \ {w},
         attempts'[f] = attempts[f], AddJob(f)
  PROVE  MailsOf(f)'
<1>1. PICK added \in Nat : /\ added + Cardinality(Adders(f)) <= attempts[f]
                           /\ sent[f] + Left(f) <= added * (AttemptsOf(f) + 1)
  BY DEF MailsOf
<1>2. AttemptsOf(f) \in Nat \ {0} /\ attempts[f] \in Nat /\ AttemptsOf(f)' = AttemptsOf(f)
  BY OutboxAssumption DEF AttemptsOf, TypeOK
<1>3. CASE job[f] # "none"
  <2>1. job' = job /\ tries'[f] = tries[f] /\ stalls' = stalls /\ sent' = sent
    BY <1>3 DEF AddJob, TypeOK
  <2>2. Left(f)' = Left(f) /\ sent'[f] + Left(f)' <= sent[f] + Left(f)
    <3>1. Left(f) \in Int /\ sent[f] \in Nat
      BY <1>2 DEF Left, TypeOK
    <3> QED
      BY <1>2, <2>1, <3>1 DEF Left
  <2>3. job'[f] \in Ongoing => tries'[f] < AttemptsOf(f)
    BY <2>1 DEF MailsOf
  <2>4. Adders(f)' \subseteq Adders(f) /\ attempts[f] <= attempts'[f]
    BY <1>2
  <2> QED
    BY <2>2, <2>3, <2>4, MailsCalm
<1>4. CASE job[f] = "none"
  <2>1. job'[f] = "waiting" /\ tries'[f] = 0 /\ f \notin stalls' /\ sent' = sent
    BY <1>4 DEF AddJob, TypeOK
  <2>2. Left(f) = 0 /\ Left(f)' = AttemptsOf(f) + 1
    BY <1>2, <1>4, <2>1 DEF Left, Ongoing
  <2>3. IsFiniteSet(Adders(f)) /\ Cardinality(Adders(f)) \in Nat
    BY Smaller DEF Adders
  <2>4. Cardinality(Adders(f)') = Cardinality(Adders(f)) - 1
    BY <2>3, FS_RemoveElement
  <2>5. (added + 1) + Cardinality(Adders(f)') <= attempts'[f]
    BY <1>1, <1>2, <2>3, <2>4
  <2>6. sent'[f] + Left(f)' <= (added + 1) * (AttemptsOf(f) + 1)
    <3> DEFINE k == AttemptsOf(f) + 1
               p == added * k
    <3>1. k \in Nat /\ p \in Nat
      BY <1>2
    <3>2. (added + 1) * k = p + k
      BY <3>1, OneMore
    <3>3. sent[f] \in Nat /\ sent[f] <= p /\ Left(f)' = k
      <4>1. sent[f] \in Nat
        BY DEF TypeOK
      <4> QED
        BY <1>1, <2>2, <4>1
    <3> HIDE DEF k, p
    <3>4. sent'[f] + Left(f)' <= (added + 1) * k
      BY <2>1, <3>1, <3>2, <3>3
    <3> QED
      BY <3>4 DEF k
  <2>7. job'[f] \in Ongoing => tries'[f] < AttemptsOf(f)
    BY <1>2, <2>1
  <2>8. added + 1 \in Nat
    OBVIOUS
  <2> QED
    BY <1>2, <2>5, <2>6, <2>7, <2>8 DEF MailsOf
<1> QED
  BY <1>3, <1>4

\* The job processor submits only what is left.
LEMMA JobStepMails ==
  ASSUME TypeOK, TypeOK', NEW f \in Event, MailsOf(f), NEW e \in Event, JobStep(e)
  PROVE  /\ sent'[f] + Left(f)' <= sent[f] + Left(f)
         /\ job'[f] \in Ongoing => tries'[f] < AttemptsOf(f)
<1> DEFINE Goal == /\ sent'[f] + Left(f)' <= sent[f] + Left(f)
                   /\ job'[f] \in Ongoing => tries'[f] < AttemptsOf(f)
<1>1. /\ AttemptsOf(f) \in Nat \ {0} /\ AttemptsOf(f)' = AttemptsOf(f)
      /\ sent[f] \in Nat /\ tries[f] \in Nat
  BY OutboxAssumption DEF AttemptsOf, TypeOK
<1>2. job[f] \in Ongoing => tries[f] < AttemptsOf(f)
  BY DEF MailsOf
<1>3. CASE f # e
  <2>1. /\ job'[f] = job[f] /\ tries'[f] = tries[f] /\ sent'[f] = sent[f]
        /\ f \in stalls' <=> f \in stalls
    BY <1>3 DEF JobStep, MailAccepted, JobCompletes, JobFailsTemporarily, JobFailsPermanently,
                JobStalls, TypeOK
  <2>2. Left(f)' = Left(f) /\ Left(f) \in Int
    BY <1>1, <2>1 DEF Left
  <2> QED
    BY <1>1, <1>2, <2>1, <2>2
<1>4. CASE f = e
  <2>1. CASE MailAccepted(e)
    <3>1. /\ job[f] = "active" /\ job'[f] = "accepted" /\ tries'[f] = tries[f]
          /\ sent'[f] = sent[f] + 1 /\ stalls' = stalls
      BY <1>4, <2>1 DEF MailAccepted, TypeOK
    <3> QED
      BY <1>1, <1>2, <3>1 DEF Left, Ongoing
  <2>2. CASE JobCompletes(e) \/ JobFailsPermanently(e)
    <3>1. /\ job[f] \in Ongoing /\ job'[f] \in {"none", "completed", "rejected"}
          /\ sent'[f] = sent[f]
      BY <1>4, <2>2 DEF JobCompletes, JobFailsPermanently, Ongoing, TypeOK
    <3> QED
      BY <1>1, <1>2, <3>1 DEF Left, Ongoing
  <2>3. CASE JobFailsTemporarily(e)
    <3>1. /\ job[f] \in {"active", "accepted"} /\ tries'[f] = tries[f] + 1
          /\ job'[f] = IF tries[f] + 1 < AttemptsOf(f) THEN "waiting" ELSE "exhausted"
          /\ sent'[f] = sent[f] /\ stalls' = stalls
      BY <1>4, <2>3 DEF JobFailsTemporarily, TypeOK
    <3> QED
      BY <1>1, <1>2, <3>1 DEF Left, Ongoing
  <2>4. CASE JobStalls(e)
    <3>1. /\ job[f] \in {"active", "accepted"} /\ tries'[f] = tries[f]
          /\ job'[f] = IF f \in stalls THEN "stalled" ELSE "waiting"
          /\ sent'[f] = sent[f] /\ f \in stalls'
      BY <1>4, <2>4 DEF JobStalls, TypeOK
    <3> QED
      BY <1>1, <1>2, <3>1 DEF Left, Ongoing
  <2> QED
    BY <2>1, <2>2, <2>3, <2>4 DEF JobStep
<1> QED
  BY <1>3, <1>4

LEMMA MailsStep == TypeOK /\ TypeOK' /\ ClaimsInv /\ MailsInv /\ [Next]_vars => MailsInv'
<1> SUFFICES ASSUME TypeOK, TypeOK', ClaimsInv, MailsInv, [Next]_vars, NEW f \in Event
             PROVE  MailsOf(f)'
  BY DEF MailsInv
<1> USE OutboxAssumption
<1>0. /\ IsFiniteSet(Holders(f)) /\ MailsOf(f) /\ attempts[f] \in Nat
      /\ job[f] \in Ongoing => tries[f] < AttemptsOf(f)
  BY DEF ClaimsInv, ClaimsOf, MailsInv, MailsOf, TypeOK
<1>a. Left(f) \in Int /\ sent[f] \in Nat
  BY DEF Left, AttemptsOf, TypeOK
\* Steps outside the queue.
<1>b. ASSUME UNCHANGED <<job, tries, stalls, sent>>, Adders(f)' \subseteq Adders(f),
             attempts'[f] = attempts[f] PROVE MailsOf(f)'
  <2>1. Left(f)' = Left(f)
    BY <1>b DEF Left, AttemptsOf
  <2> QED
    BY <1>0, <1>a, <1>b, <2>1, MailsCalm
<1>1. ASSUME NEW e \in Event, Publish(e) \/ BackoffElapses(e) \/ LeaseExpires(e) \/ LeaseOutlived(e)
      PROVE MailsOf(f)'
  <2>1. UNCHANGED <<held, step, cur, job, tries, stalls, sent, attempts>>
    BY <1>1 DEF Publish, BackoffElapses, LeaseExpires, LeaseOutlived
  <2>2. Adders(f)' = Adders(f)
    BY <2>1 DEF Adders, Holders
  <2> QED
    BY <1>b, <2>1, <2>2
<1>2. ASSUME NEW e \in Event, JobStep(e) PROVE MailsOf(f)'
  <2>1. UNCHANGED <<held, step, cur, attempts>>
    BY <1>2 DEF JobStep, MailAccepted, JobCompletes, JobFailsTemporarily, JobFailsPermanently,
                JobStalls
  <2>2. Adders(f)' = Adders(f) /\ attempts[f] <= attempts'[f]
    BY <1>0, <2>1 DEF Adders, Holders
  <2> QED
    BY <1>0, <1>2, <2>2, JobStepMails, MailsCalm
<1>3. ASSUME NEW w \in Worker, ClaimBatch(w) PROVE MailsOf(f)'
  <2>1. PICK batch \in SUBSET Event : ClaimOf(w, batch)
    BY <1>3, BatchClaimed
  <2>2. /\ UNCHANGED <<cur, job, tries, stalls, sent>>
        /\ attempts'[f] = IF f \in batch THEN attempts[f] + 1 ELSE attempts[f]
    BY <2>1 DEF ClaimOf
  <2>3. Holders(f)' \subseteq IF f \in batch THEN Holders(f) \cup {w} ELSE Holders(f)
    BY <2>1 DEF ClaimOf, Holders, TypeOK
  <2>4. \A v \in Worker \ {w} : step'[v] = step[v]
    BY <2>1 DEF ClaimOf, TypeOK
  <2>5. CASE f \in batch
    <3>1. Adders(f)' \subseteq Adders(f) \cup {w}
      BY <2>2, <2>3, <2>4, <2>5 DEF Adders, Holders
    <3>2. Left(f)' = Left(f)
      BY <2>2 DEF Left, AttemptsOf
    <3> QED
      BY <1>0, <1>a, <2>2, <2>5, <3>1, <3>2, MailsCalm
  <2>6. CASE f \notin batch
    <3>1. Holders(f)' \subseteq Holders(f) \ {w}
      BY <2>1, <2>6 DEF ClaimOf, Holders, TypeOK
    <3>2. Adders(f)' \subseteq Adders(f)
      BY <2>2, <2>4, <3>1 DEF Adders, Holders
    <3> QED
      BY <1>b, <2>2, <2>6, <3>2
  <2> QED
    BY <2>5, <2>6
<1>4. ASSUME NEW w \in Worker, DispatchStep(w) PROVE MailsOf(f)'
  <2>1. ASSUME NEW e \in Event, QueueAdd(w, e) \/ QueueAddFails(w, e) PROVE MailsOf(f)'
    <3>1. /\ UNCHANGED <<held, attempts>> /\ step[w] = "enqueue" /\ e \in held[w]
          /\ cur' = [cur EXCEPT ![w] = e]
          /\ step'[w] \in {"mark", "read"} /\ \A v \in Worker \ {w} : step'[v] = step[v]
          /\ AddJob(e) \/ UNCHANGED jobs
      BY <2>1 DEF QueueAdd, QueueAddFails, TypeOK
    <3>2. Holders(f)' = Holders(f) /\ \A v \in Worker \ {w} : cur'[v] = cur[v]
      BY <3>1 DEF Holders, TypeOK
    <3>3. cur'[w] = e
      BY <3>1 DEF TypeOK
    <3>4. CASE f = e
      <4>1. w \in Adders(f) /\ Adders(f)' = Adders(f) \ {w}
        BY <3>1, <3>2, <3>3, <3>4 DEF Adders, Holders
      <4>2. CASE AddJob(e)
        BY <1>0, <3>1, <3>4, <4>1, <4>2, MailsAdd
      <4>3. CASE UNCHANGED jobs
        BY <1>b, <3>1, <4>1, <4>3
      <4> QED
        BY <3>1, <4>2, <4>3
    <3>5. CASE f # e
      <4>1. Adders(f)' \subseteq Adders(f)
        BY <3>1, <3>2, <3>3, <3>5 DEF Adders, Holders
      <4>2. /\ job'[f] = job[f] /\ tries'[f] = tries[f] /\ sent' = sent
            /\ f \in stalls' <=> f \in stalls
        BY <3>1, <3>5 DEF AddJob, TypeOK
      <4>3. Left(f)' = Left(f)
        BY <4>2 DEF Left, AttemptsOf
      <4> QED
        BY <1>0, <1>a, <3>1, <4>1, <4>2, <4>3, MailsCalm
    <3> QED
      BY <3>4, <3>5
  <2>2. CASE MarkDispatched(w) \/ MarkFailed(w)
    <3>1. cur[w] \in held[w] /\ step[w] \in {"mark", "write"} /\ UNCHANGED jobs
          /\ attempts' = attempts /\ FinishEvent(w)
      BY <2>2 DEF MarkDispatched, MarkFailed, SetDispatched, TypeOK
    <3>2. \A v \in Worker \ {w} : held'[v] = held[v] /\ step'[v] = step[v] /\ cur'[v] = cur[v]
      BY <3>1 DEF FinishEvent, TypeOK
    <3>3. held'[w] = held[w] \ {cur[w]}
      BY <3>1 DEF FinishEvent, TypeOK
    <3>4. Adders(f)' \subseteq Adders(f)
      BY <3>1, <3>2, <3>3 DEF Adders, Holders
    <3> QED
      BY <1>b, <3>1, <3>4
  <2>3. CASE MarkDispatchedFails(w) \/ ReadFailed(w)
    <3>1. UNCHANGED <<held, cur, jobs, attempts>>
      BY <2>3 DEF MarkDispatchedFails, ReadFailed, SetDispatched
    <3>2. \A v \in Worker : step'[v] \in {"mark", "read", "write"}
                              <=> step[v] \in {"mark", "read", "write"}
      BY <2>3 DEF MarkDispatchedFails, ReadFailed, TypeOK
    <3>3. Adders(f)' = Adders(f)
      BY <3>1, <3>2 DEF Adders, Holders
    <3> QED
      BY <1>b, <3>1, <3>3
  <2>4. CASE MarkFailedFails(w)
    <3>1. Adders(f)' \subseteq Adders(f)
      BY <2>4 DEF MarkFailedFails, DropBatch, Adders, Holders, TypeOK
    <3> QED
      BY <1>b, <2>4, <3>1 DEF MarkFailedFails
  <2> QED
    BY <1>4, <2>1, <2>2, <2>3, <2>4 DEF DispatchStep
<1>5. ASSUME NEW w \in Worker, Crash(w) \/ Exit(w) PROVE MailsOf(f)'
  <2>1. DropBatch(w) /\ UNCHANGED <<job, tries, stalls, sent, attempts>>
    BY <1>5 DEF Crash, Exit
  <2>2. Adders(f)' \subseteq Adders(f)
    BY <2>1 DEF DropBatch, Adders, Holders, TypeOK
  <2> QED
    BY <1>b, <2>1, <2>2
<1>6. ASSUME NEW w \in Worker, Shutdown(w) \/ Restart(w) PROVE MailsOf(f)'
  <2>1. UNCHANGED <<loop, jobs, attempts>>
    BY <1>6 DEF Shutdown, Restart
  <2>2. Adders(f)' = Adders(f)
    BY <2>1 DEF Adders, Holders
  <2> QED
    BY <1>b, <2>1, <2>2
<1>7. ASSUME NEW w \in Worker, NEW e \in Event, JobTake(w, e) PROVE MailsOf(f)'
  <2>1. UNCHANGED <<loop, attempts, tries, stalls, sent>>
        /\ job[e] = "waiting" /\ job' = [job EXCEPT ![e] = "active"]
    BY <1>7 DEF JobTake
  <2>2. Adders(f)' = Adders(f)
    BY <2>1 DEF Adders, Holders
  <2>3. /\ job'[f] \in Ongoing <=> job[f] \in Ongoing
        /\ job'[f] = "accepted" <=> job[f] = "accepted"
    BY <2>1 DEF Ongoing, TypeOK
  <2>4. Left(f)' = Left(f)
    BY <2>1, <2>3 DEF Left, AttemptsOf
  <2> QED
    BY <1>0, <1>a, <2>1, <2>2, <2>3, <2>4, MailsCalm
<1>8. CASE UNCHANGED vars
  <2>1. UNCHANGED <<loop, jobs, attempts>>
    BY <1>8 DEF vars
  <2>2. Adders(f)' = Adders(f)
    BY <2>1 DEF Adders, Holders
  <2> QED
    BY <1>b, <2>1, <2>2
<1> QED
  BY <1>1, <1>2, <1>3, <1>4, <1>5, <1>6, <1>7, <1>8 DEF Next

\* However often workers crash, overrun their leases or lose answers, an event
\* is claimed at most once per fault beyond its maximum, and its mail submitted
\* at most once per claim, attempt and recovery.
THEOREM Bounded == Spec => []DuplicatesBounded
<1>1. Init => ClaimsInv /\ MailsInv
  <2> SUFFICES ASSUME Init PROVE ClaimsInv /\ MailsInv
    OBVIOUS
  <2>1. ASSUME NEW e \in Event PROVE ClaimsOf(e) /\ MailsOf(e)
    <3>1. Holders(e) = {} /\ Weak(e) = {} /\ Adders(e) = {}
      BY DEF Init, Holders, Weak, Adders
    <3>2. IsFiniteSet(Holders(e)) /\ Cardinality(Holders(e)) = 0 /\ Cardinality(Adders(e)) = 0
      BY <3>1, FS_EmptySet
    <3>3. attempts[e] = 0 /\ sent[e] = 0 /\ lease[e] = "none" /\ job[e] = "none" /\ faults = 0
      BY DEF Init
    <3>4. ClaimsOf(e)
      BY <3>2, <3>3, OutboxAssumption DEF ClaimsOf
    <3>5. AttemptsOf(e) \in Nat
      BY OutboxAssumption DEF AttemptsOf
    <3>6. sent[e] + Left(e) <= 0 * (AttemptsOf(e) + 1)
      BY <3>3, <3>5 DEF Left, Ongoing
    <3>7. MailsOf(e)
      <4>1. 0 \in Nat /\ 0 + Cardinality(Adders(e)) <= attempts[e]
        BY <3>2, <3>3
      <4> QED
        BY <3>3, <3>6, <4>1 DEF MailsOf, Ongoing
    <3> QED
      BY <3>4, <3>7
  <2> QED
    BY <2>1 DEF ClaimsInv, MailsInv, Init
<1>2. TypeOK /\ ClaimsInv /\ MailsInv => DuplicatesBounded
  <2> SUFFICES ASSUME TypeOK, ClaimsInv, MailsInv, NEW e \in Event
               PROVE  /\ attempts[e] <= MaxAttempts + faults
                      /\ sent[e] <= attempts[e] * (AttemptsOf(e) + 1)
    BY DEF DuplicatesBounded
  <2>1. ClaimsOf(e) /\ MailsOf(e)
    BY DEF ClaimsInv, MailsInv
  <2>2. PICK added \in Nat : /\ added + Cardinality(Adders(e)) <= attempts[e]
                             /\ sent[e] + Left(e) <= added * (AttemptsOf(e) + 1)
    BY <2>1 DEF MailsOf
  <2>3. AttemptsOf(e) \in Nat \ {0} /\ attempts[e] \in Nat /\ sent[e] \in Nat /\ tries[e] \in Nat
    BY OutboxAssumption DEF AttemptsOf, TypeOK
  <2>4. Left(e) \in Nat
    BY <2>1, <2>3 DEF Left, MailsOf
  <2>5. Cardinality(Adders(e)) \in Nat
    <3>1. IsFiniteSet(Holders(e)) /\ Adders(e) \subseteq Holders(e)
      BY <2>1 DEF ClaimsOf, Adders
    <3> QED
      BY <3>1, Smaller
  <2>6. added <= attempts[e]
    BY <2>2, <2>3, <2>5
  <2> DEFINE k == AttemptsOf(e) + 1
             p == added * k
             q == attempts[e] * k
  <2>7. p \in Nat /\ q \in Nat /\ p <= q
    BY <2>3, <2>6, ProductGrows
  <2>8. sent[e] + Left(e) <= p
    BY <2>2
  <2> HIDE DEF p, q
  <2>9. sent[e] <= q
    BY <2>3, <2>4, <2>7, <2>8
  <2> QED
    BY <2>1, <2>9 DEF ClaimsOf, q
<1> QED
  BY <1>1, <1>2, TypeCorrect, ClaimsStep, MailsStep, PTL DEF Spec
=============================================================================
