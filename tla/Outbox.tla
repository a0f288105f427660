------------------------------- MODULE Outbox -------------------------------
(***************************************************************************)
(* The transactional outbox of booking-os as worker-critical drains it:    *)
(* rows of "outbox_events" are claimed in batches, each claimed event is   *)
(* added to a BullMQ queue under its own id, the row is then marked        *)
(* dispatched or failed, and queue jobs that carry identity e-mail are     *)
(* submitted over SMTP.  Workers crash, are shut down and restart; leases  *)
(* expire while their holder is still working; answers get lost.           *)
(*                                                                         *)
(* Events are numbered in the order of "occurred_at", the order claims     *)
(* follow.  Clock readings are abstracted to what the queries compare:     *)
(* whether available_at has passed (deferred) and whether claimed_at is    *)
(* null, recent or older than the claim timeout (lease).                   *)
(***************************************************************************)
EXTENDS Naturals, FiniteSets

CONSTANTS
  Worker,        \* worker-critical processes
  Event,         \* outbox event ids, in occurred_at order
  Email,         \* events the job processor submits as identity e-mail
  RetriedEmail,  \* events the dispatcher recognises as identity e-mail
  Limit,         \* batch size of a claim (25 in the code)
  MaxAttempts,   \* claims before a failed event is dead-lettered (5)
  JobAttempts,   \* BullMQ attempts of a recognised identity e-mail (5)
  MaxFaults,     \* bound of the model on crashes, overruns and lost answers
  NoEvent, NoWorker

ASSUME OutboxAssumption ==
  /\ Event \subseteq Nat
  /\ RetriedEmail \subseteq Email /\ Email \subseteq Event
  /\ {Limit, MaxAttempts, JobAttempts} \subseteq Nat \ {0}
  /\ MaxFaults \in Nat
  /\ NoEvent \notin Event /\ NoWorker \notin Worker

VARIABLES
  published,   \* events whose row is committed
  dispatched,  \* rows with dispatched_at
  dead,        \* rows with dead_lettered_at
  deferred,    \* rows whose available_at lies in the future
  lease,       \* claimed_at: none, fresh, or stale (past the claim timeout)
  attempts,    \* the attempts column
  mode,        \* running, draining (shutdown began) or down
  step,        \* where the worker's dispatchBatch stands
  held,        \* events of the claimed batch it has not finished
  cur,         \* the event its loop is at
  seen,        \* attempts as markFailed read it
  job,         \* the BullMQ job of an event
  tries,       \* the job's failed attempts
  stalls,      \* jobs recovered once from a dead worker
  owner,       \* the worker running an active job
  sent,        \* messages the SMTP server accepted for an event
  late,        \* history: <<worker, event>> held past the lease
  uncertain,   \* history: events with an outlived lease or a lost answer
  faults       \* faults injected so far

rows  == <<published, dispatched, dead, deferred, lease, attempts>>
loop  == <<step, held, cur, seen>>
jobs  == <<job, tries, stalls, owner, sent>>
ghost == <<late, uncertain, faults>>
vars  == <<rows, mode, loop, jobs, ghost>>

Terminal == dispatched \cup dead
Live(w) == mode[w] # "down"
InFlight == {"active", "accepted"}
Failed == {"exhausted", "rejected", "stalled"}

\* The n first members of S in occurred_at order.
Oldest(S, n) == {e \in S : Cardinality({f \in S : f < e}) < n}

Fault == faults < MaxFaults /\ faults' = faults + 1
-----------------------------------------------------------------------------
Init ==
  /\ published = {} /\ dispatched = {} /\ dead = {} /\ deferred = {}
  /\ lease = [e \in Event |-> "none"]
  /\ attempts = [e \in Event |-> 0]
  /\ mode \in [Worker -> {"running", "down"}]
  /\ step = [w \in Worker |-> "idle"]
  /\ held = [w \in Worker |-> {}]
  /\ cur = [w \in Worker |-> NoEvent]
  /\ seen = [w \in Worker |-> 0]
  /\ job = [e \in Event |-> "none"]
  /\ tries = [e \in Event |-> 0]
  /\ stalls = {}
  /\ owner = [e \in Event |-> NoWorker]
  /\ sent = [e \in Event |-> 0]
  /\ late = {} /\ uncertain = {} /\ faults = 0

\* A business transaction of the API commits together with its outbox row.
Publish(e) ==
  /\ e \notin published
  /\ published' = published \cup {e}
  /\ UNCHANGED <<dispatched, dead, deferred, lease, attempts, mode, loop, jobs, ghost>>
-----------------------------------------------------------------------------
(* The polling loop: one dispatchBatch at a time per worker.               *)

\* Faulty variant: rows another worker is working on are claimed as well.
ClaimableIgnoringLeases == published \ (Terminal \cup deferred)
\* Faulty variant: a lease is never taken over.
ClaimableUnleasedOnly ==
  {e \in published \ (Terminal \cup deferred) : lease[e] = "none"}

Claimable ==
  {e \in published \ (Terminal \cup deferred) : lease[e] # "fresh"}

\* Rows another worker's transaction may have locked: SKIP LOCKED passes them.
Locked(w) == {e \in Event : \E v \in Worker \ {w} :
                cur[v] = e /\ step[v] \in {"mark", "write"}}

ClaimBatch(w) ==
  /\ mode[w] = "running" /\ step[w] = "idle"
  /\ \E skipped \in SUBSET (Locked(w) \cap Claimable) :
       LET batch == Oldest(Claimable \ skipped, Limit) IN
       /\ batch # {}
       /\ lease' = [e \in Event |-> IF e \in batch THEN "fresh" ELSE lease[e]]
       /\ attempts' = [e \in Event |-> IF e \in batch THEN attempts[e] + 1
                                                     ELSE attempts[e]]
       /\ held' = [held EXCEPT ![w] = batch]
       /\ late' = late \ ({w} \X batch)
  /\ step' = [step EXCEPT ![w] = "enqueue"]
  /\ UNCHANGED <<published, dispatched, dead, deferred, mode, cur, seen, jobs,
                 uncertain, faults>>

\* BullMQ ignores an add whose job id is still known to the queue.
AddJob(e) ==
  /\ job' = [job EXCEPT ![e] = IF @ = "none" THEN "waiting" ELSE @]
  /\ tries' = [tries EXCEPT ![e] = IF job[e] = "none" THEN 0 ELSE @]
  /\ stalls' = IF job[e] = "none" THEN stalls \ {e} ELSE stalls
  /\ UNCHANGED <<owner, sent>>

QueueAdd(w, e) ==
  /\ Live(w) /\ step[w] = "enqueue" /\ e \in held[w]
  /\ AddJob(e)
  /\ cur' = [cur EXCEPT ![w] = e]
  /\ step' = [step EXCEPT ![w] = "mark"]
  /\ UNCHANGED <<rows, mode, held, seen, ghost>>

\* Faulty variant: the rejection is swallowed and the row marked dispatched.
QueueAddFailureSwallowed(w, e) ==
  /\ Live(w) /\ step[w] = "enqueue" /\ e \in held[w]
  /\ cur' = [cur EXCEPT ![w] = e]
  /\ step' = [step EXCEPT ![w] = "mark"]
  /\ UNCHANGED <<rows, mode, held, seen, jobs, ghost>>

\* queue.add rejects; Redis may have run the command all the same.
QueueAddFails(w, e) ==
  /\ Live(w) /\ step[w] = "enqueue" /\ e \in held[w]
  /\ AddJob(e) \/ UNCHANGED jobs
  /\ cur' = [cur EXCEPT ![w] = e]
  /\ step' = [step EXCEPT ![w] = "read"]
  /\ UNCHANGED <<rows, mode, held, seen, ghost>>

\* The loop moves on: the event leaves the batch.
FinishEvent(w) ==
  /\ held' = [held EXCEPT ![w] = @ \ {cur[w]}]
  /\ step' = [step EXCEPT ![w] = IF held[w] = {cur[w]} THEN "idle" ELSE "enqueue"]
  /\ cur' = [cur EXCEPT ![w] = NoEvent]
  /\ seen' = [seen EXCEPT ![w] = 0]
  /\ late' = late \ {<<w, cur[w]>>}

\* Faulty variant: the dispatching flag is left set.
DropBatchKeepsFlag(w) ==
  /\ held' = [held EXCEPT ![w] = {}]
  /\ cur' = [cur EXCEPT ![w] = NoEvent]
  /\ step' = [step EXCEPT ![w] = "enqueue"]
  /\ seen' = [seen EXCEPT ![w] = 0]
  /\ late' = late \ ({w} \X Event)

DropBatch(w) ==
  /\ held' = [held EXCEPT ![w] = {}]
  /\ step' = [step EXCEPT ![w] = "idle"]
  /\ cur' = [cur EXCEPT ![w] = NoEvent]
  /\ seen' = [seen EXCEPT ![w] = 0]
  /\ late' = late \ ({w} \X Event)

SetDispatched(e) ==
  /\ dispatched' = dispatched \cup {e}
  /\ lease' = [lease EXCEPT ![e] = "none"]
  /\ UNCHANGED <<published, dead, deferred, attempts>>

MarkDispatched(w) ==
  /\ Live(w) /\ step[w] = "mark"
  /\ SetDispatched(cur[w])
  /\ FinishEvent(w)
  /\ UNCHANGED <<mode, jobs, uncertain, faults>>

\* The update throws, with or without having been committed: the catch
\* block goes on to markFailed although the job is in the queue.
MarkDispatchedFails(w) ==
  /\ Live(w) /\ step[w] = "mark"
  /\ step' = [step EXCEPT ![w] = "read"]
  /\ \/ UNCHANGED <<rows, uncertain, faults>>
     \/ /\ Fault
        /\ SetDispatched(cur[w])
        /\ uncertain' = uncertain \cup {cur[w]}
  /\ UNCHANGED <<mode, held, cur, seen, jobs, late>>

\* markFailed reads attempts without locking the row ...
ReadFailed(w) ==
  /\ Live(w) /\ step[w] = "read"
  /\ seen' = [seen EXCEPT ![w] = attempts[cur[w]]]
  /\ step' = [step EXCEPT ![w] = "write"]
  /\ UNCHANGED <<rows, mode, held, cur, jobs, ghost>>

\* Faulty variant: one claim too many.
MarkFailedOffByOne(w) ==
  /\ Live(w) /\ step[w] = "write"
  /\ IF seen[w] > MaxAttempts
     THEN dead' = dead \cup {cur[w]} /\ UNCHANGED deferred
     ELSE deferred' = deferred \cup {cur[w]} /\ UNCHANGED dead
  /\ lease' = [lease EXCEPT ![cur[w]] = "none"]
  /\ FinishEvent(w)
  /\ UNCHANGED <<published, dispatched, attempts, mode, jobs, uncertain, faults>>

\* ... and decides by that reading.
MarkFailed(w) ==
  /\ Live(w) /\ step[w] = "write"
  /\ IF seen[w] >= MaxAttempts
     THEN dead' = dead \cup {cur[w]} /\ UNCHANGED deferred
     ELSE deferred' = deferred \cup {cur[w]} /\ UNCHANGED dead
  /\ lease' = [lease EXCEPT ![cur[w]] = "none"]
  /\ FinishEvent(w)
  /\ UNCHANGED <<published, dispatched, attempts, mode, jobs, uncertain, faults>>

\* markFailed itself throws: the exception leaves dispatchBatch, the rest of
\* the batch stays claimed until its leases expire.
MarkFailedFails(w) ==
  /\ Live(w) /\ step[w] \in {"read", "write"}
  /\ Fault
  /\ DropBatch(w)
  /\ UNCHANGED <<rows, mode, jobs, uncertain>>
-----------------------------------------------------------------------------
(* Time.                                                                   *)

BackoffElapses(e) ==
  /\ e \in deferred
  /\ deferred' = deferred \ {e}
  /\ UNCHANGED <<published, dispatched, dead, lease, attempts, mode, loop, jobs, ghost>>

Holders(e) == {w \in Worker : e \in held[w]}

\* The claim timeout passes for a claim nobody works on any more.
LeaseExpires(e) ==
  /\ lease[e] = "fresh" /\ Holders(e) = {}
  /\ lease' = [lease EXCEPT ![e] = "stale"]
  /\ UNCHANGED <<published, dispatched, dead, deferred, attempts, mode, loop, jobs, ghost>>

\* The claim timeout passes while a slow worker still holds the event.
LeaseOutlived(e) ==
  /\ lease[e] = "fresh" /\ Holders(e) # {}
  /\ Fault
  /\ lease' = [lease EXCEPT ![e] = "stale"]
  /\ late' = late \cup (Holders(e) \X {e})
  /\ uncertain' = uncertain \cup {e}
  /\ UNCHANGED <<published, dispatched, dead, deferred, attempts, mode, loop, jobs>>
-----------------------------------------------------------------------------
(* Process life cycle.                                                     *)

Crash(w) ==
  /\ Live(w)
  /\ Fault
  /\ mode' = [mode EXCEPT ![w] = "down"]
  /\ DropBatch(w)
  /\ owner' = [e \in Event |-> IF owner[e] = w THEN NoWorker ELSE owner[e]]
  /\ UNCHANGED <<rows, job, tries, stalls, sent, uncertain>>

\* SIGTERM: polling stops and the job worker takes no more jobs, but a batch
\* in flight is not awaited.
Shutdown(w) ==
  /\ mode[w] = "running"
  /\ Fault
  /\ mode' = [mode EXCEPT ![w] = "draining"]
  /\ UNCHANGED <<rows, loop, jobs, late, uncertain>>

\* worker.close() has waited for its active job; the connections close and
\* the process ends, wherever dispatchBatch stands.
Exit(w) ==
  /\ mode[w] = "draining"
  /\ \A e \in Event : owner[e] # w
  /\ mode' = [mode EXCEPT ![w] = "down"]
  /\ DropBatch(w)
  /\ UNCHANGED <<rows, jobs, uncertain, faults>>

Restart(w) ==
  /\ mode[w] = "down"
  /\ mode' = [mode EXCEPT ![w] = "running"]
  /\ UNCHANGED <<rows, loop, jobs, ghost>>
-----------------------------------------------------------------------------
(* The queue and the job processor (one job at a time per process).        *)

JobTake(w, e) ==
  /\ mode[w] = "running" /\ \A f \in Event : owner[f] # w
  /\ job[e] = "waiting"
  /\ job' = [job EXCEPT ![e] = "active"]
  /\ owner' = [owner EXCEPT ![e] = w]
  /\ UNCHANGED <<rows, mode, loop, tries, stalls, sent, ghost>>

\* The server answers 250 to the message; sendMail still has to QUIT.
MailAccepted(e) ==
  /\ e \in Email /\ job[e] = "active" /\ owner[e] # NoWorker
  /\ sent' = [sent EXCEPT ![e] = @ + 1]
  /\ job' = [job EXCEPT ![e] = "accepted"]
  /\ UNCHANGED <<rows, mode, loop, tries, stalls, owner, ghost>>

\* removeOnComplete forgets a recognised e-mail's job; other jobs are kept.
JobCompletes(e) ==
  /\ owner[e] # NoWorker
  /\ job[e] = IF e \in Email THEN "accepted" ELSE "active"
  /\ job' = [job EXCEPT ![e] = IF e \in RetriedEmail THEN "none" ELSE "completed"]
  /\ owner' = [owner EXCEPT ![e] = NoWorker]
  /\ UNCHANGED <<rows, mode, loop, tries, stalls, sent, ghost>>

AttemptsOf(e) == IF e \in RetriedEmail THEN JobAttempts ELSE 1

\* Faulty variant: failures are not counted.
JobFailsUncounted(e) ==
  /\ e \in Email /\ job[e] \in InFlight /\ owner[e] # NoWorker
  /\ job' = [job EXCEPT ![e] = "waiting"]
  /\ owner' = [owner EXCEPT ![e] = NoWorker]
  /\ UNCHANGED <<rows, mode, loop, tries, stalls, sent, ghost>>
\* Faulty variant: exhausted jobs are removed as completed ones are.
JobRemovedOnFailure(e) ==
  /\ e \in Email /\ job[e] \in InFlight /\ owner[e] # NoWorker
  /\ tries' = [tries EXCEPT ![e] = @ + 1]
  /\ job' = [job EXCEPT ![e] = IF tries[e] + 1 < AttemptsOf(e) THEN "waiting"
                                                            ELSE "none"]
  /\ owner' = [owner EXCEPT ![e] = NoWorker]
  /\ UNCHANGED <<rows, mode, loop, stalls, sent, ghost>>

\* Network errors, timeouts and 4xx answers, before or after acceptance.
JobFailsTemporarily(e) ==
  /\ e \in Email /\ job[e] \in InFlight /\ owner[e] # NoWorker
  /\ tries' = [tries EXCEPT ![e] = @ + 1]
  /\ job' = [job EXCEPT ![e] = IF tries[e] + 1 < AttemptsOf(e) THEN "waiting"
                                                            ELSE "exhausted"]
  /\ owner' = [owner EXCEPT ![e] = NoWorker]
  /\ UNCHANGED <<rows, mode, loop, stalls, sent, ghost>>

\* 5xx answers and events or envelopes that do not parse: UnrecoverableError.
JobFailsPermanently(e) ==
  /\ e \in Email /\ job[e] \in InFlight /\ owner[e] # NoWorker
  /\ job' = [job EXCEPT ![e] = "rejected"]
  /\ owner' = [owner EXCEPT ![e] = NoWorker]
  /\ UNCHANGED <<rows, mode, loop, tries, stalls, sent, ghost>>

\* BullMQ returns a dead worker's job to the queue once, then fails it.
JobStalls(e) ==
  /\ job[e] \in InFlight /\ owner[e] = NoWorker
  /\ \E w \in Worker : mode[w] = "running"
  /\ job' = [job EXCEPT ![e] = IF e \in stalls THEN "stalled" ELSE "waiting"]
  /\ stalls' = stalls \cup {e}
  /\ UNCHANGED <<rows, mode, loop, tries, owner, sent, ghost>>
-----------------------------------------------------------------------------
DispatchStep(w) ==
  \/ \E e \in Event : QueueAdd(w, e) \/ QueueAddFails(w, e)
  \/ MarkDispatched(w) \/ MarkDispatchedFails(w)
  \/ ReadFailed(w) \/ MarkFailed(w) \/ MarkFailedFails(w)

JobStep(e) ==
  \/ MailAccepted(e) \/ JobCompletes(e)
  \/ JobFailsTemporarily(e) \/ JobFailsPermanently(e) \/ JobStalls(e)

Next ==
  \/ \E e \in Event : Publish(e) \/ BackoffElapses(e)
                      \/ LeaseExpires(e) \/ LeaseOutlived(e) \/ JobStep(e)
  \/ \E w \in Worker : ClaimBatch(w) \/ DispatchStep(w)
                       \/ Crash(w) \/ Shutdown(w) \/ Exit(w) \/ Restart(w)
  \/ \E w \in Worker, e \in Event : JobTake(w, e)

Spec == Init /\ [][Next]_vars

\* The poll timer, the job worker, the clock and the container's restart
\* policy each keep going; nothing is assumed of crashes or of outcomes.
WorkerFairness(w) ==
  /\ WF_vars(ClaimBatch(w)) /\ WF_vars(DispatchStep(w)) /\ WF_vars(Exit(w))
  /\ \A e \in Event : WF_vars(JobTake(w, e))
EventFairness(e) == WF_vars(BackoffElapses(e)) /\ WF_vars(LeaseExpires(e)) /\ WF_vars(JobStep(e))
Fairness ==
  /\ \A w \in Worker : WorkerFairness(w) /\ WF_vars(Restart(w))
  /\ \A e \in Event : EventFairness(e)

FairSpec == Spec /\ Fairness
-----------------------------------------------------------------------------
(* Properties.                                                             *)

TypeOK ==
  /\ published \subseteq Event /\ dispatched \subseteq Event
  /\ dead \subseteq Event /\ deferred \subseteq Event
  /\ lease \in [Event -> {"none", "fresh", "stale"}]
  /\ attempts \in [Event -> Nat]
  /\ mode \in [Worker -> {"running", "draining", "down"}]
  /\ step \in [Worker -> {"idle", "enqueue", "mark", "read", "write"}]
  /\ held \in [Worker -> SUBSET Event]
  /\ cur \in [Worker -> Event \cup {NoEvent}]
  /\ \A w \in Worker : step[w] \in {"mark", "read", "write"} => cur[w] \in held[w]
  /\ seen \in [Worker -> Nat]
  /\ job \in [Event -> {"none", "waiting", "completed"} \cup InFlight \cup Failed]
  /\ tries \in [Event -> Nat]
  /\ stalls \subseteq Event
  /\ owner \in [Event -> Worker \cup {NoWorker}]
  /\ sent \in [Event -> Nat]
  /\ late \subseteq Worker \X Event /\ uncertain \subseteq Event
  /\ faults \in 0 .. MaxFaults

\* Events that reached the queue: the job is there, or the mail was accepted
\* before removeOnComplete forgot the job.
Handed == {e \in Event : job[e] # "none" \/ sent[e] > 0}

\* No event is lost between PostgreSQL and the queue: a row says dispatched
\* only if its job is in the queue or its mail has already gone out, whatever
\* crashed, expired or was retried between queue.add and markDispatched.
DispatchedIsHanded == dispatched \subseteq Handed

\* As long as no lease was outlived and no answer lost for an event, claims
\* are exclusive and the outcome is single: one worker at most holds it, it
\* is not held once settled, and it is never both dispatched and dead.
ExclusiveClaims ==
  \A e \in Event \ uncertain :
    /\ \A v, w \in Holders(e) : v = w
    /\ Holders(e) # {} => lease[e] = "fresh" /\ e \notin Terminal
    /\ e \notin dispatched \cap dead

\* Claims and duplicates do not run away: the attempts column exceeds the
\* configured maximum by no more than the crashes, overruns and lost answers
\* there were; each claim can add a job at most once, and a job submits its
\* mail at most once per attempt and per stall recovery.
DuplicatesBounded ==
  \A e \in Event : /\ attempts[e] <= MaxAttempts + faults
                   /\ sent[e] <= attempts[e] * (AttemptsOf(e) + 1)

\* Every committed event is eventually dispatched or dead-lettered, and every
\* job that waits in the queue leaves it: completed, forgotten after
\* completion, or failed for good.
EventuallySettled ==
  \A e \in Event :
    /\ e \in published ~> e \in Terminal
    /\ job[e] = "waiting" ~> job[e] \in {"none", "completed"} \cup Failed
-----------------------------------------------------------------------------
(* The abstract specification the outbox implements.                       *)

Stage(e) ==
  IF e \in dispatched THEN "dispatched"
  ELSE IF e \in dead THEN "dead"
  ELSE IF e \in published THEN "pending" ELSE "absent"

D == INSTANCE Delivery WITH stage <- [e \in Event |-> Stage(e)], handed <- Handed

\* Claims, leases, batches, retries and crashes implement at-least-once
\* hand-over: every step is a step of Delivery or changes nothing it sees.
ImplementsDelivery == D!Safety
-----------------------------------------------------------------------------
(* What the repository's documents and tests say, and the code does not do. *)

\* "Workers claim pending outbox rows using bounded leases": two workers never
\* hold one event while the lease of both is running.
LeaseHeldByOne ==
  \A e \in Event : \A v, w \in Holders(e) :
    v # w => <<v, e>> \in late \/ <<w, e>> \in late

\* "configures bounded exponential retries for identity email jobs": mail is
\* given up for a retryable error only after all its attempts.
IdentityMailRetried ==
  \A e \in Email : job[e] = "exhausted" => tries[e] >= JobAttempts
=============================================================================
