----------------------------- MODULE Readiness ------------------------------
(***************************************************************************)
(* GET /ready of the booking-os API.  Requests share one run of probes,    *)
(* whose outcome is then served for a while without asking PostgreSQL and  *)
(* Redis again.  Time is counted in ticks from the event it is about, so   *)
(* that the module runs forever; a timer that is due fires before the next *)
(* tick.                                                                   *)
(***************************************************************************)
EXTENDS Naturals

CONSTANTS
  Request,      \* who asks, again and again
  Dependency,   \* what the API needs to be ready
  Timeout,      \* ticks that a probe may take
  Cached        \* ticks that an outcome is served

VARIABLES
  waiting,      \* the requests that wait for the current run
  answer,       \* the status code that a request got
  inFlight,     \* a run of probes is under way
  probe,        \* how each probe of that run stands
  elapsed,      \* ticks since it began
  outcome,      \* the status code of the last run that had one
  age,          \* ticks since then
  silent        \* ticks since a dependency answered a probe as it should

vars == <<waiting, answer, inFlight, probe, elapsed, outcome, age, silent>>

Forever == Timeout + Cached + 1            \* ticks are counted up to here
Later(n) == IF n < Forever THEN n + 1 ELSE n

Init ==
  /\ waiting = {} /\ answer = [r \in Request |-> 0]
  /\ inFlight = FALSE /\ probe = [d \in Dependency |-> "unasked"] /\ elapsed = 0
  /\ outcome = 0 /\ age = Forever
  /\ silent = [d \in Dependency |-> Forever]
-----------------------------------------------------------------------------
(* A request is answered at once, joins the run that is under way, or      *)
(* begins one.                                                             *)

\* Faulty variant: an outcome is served for one tick too long.
ServeAtTheLimit(r) ==
  /\ r \notin waiting /\ answer[r] = 0 /\ outcome # 0 /\ age <= Cached
  /\ answer' = [answer EXCEPT ![r] = outcome]
  /\ UNCHANGED <<waiting, inFlight, probe, elapsed, outcome, age, silent>>

Serve(r) ==
  /\ r \notin waiting /\ answer[r] = 0 /\ outcome # 0 /\ age < Cached
  /\ answer' = [answer EXCEPT ![r] = outcome]
  /\ UNCHANGED <<waiting, inFlight, probe, elapsed, outcome, age, silent>>
Ask(r) ==
  /\ r \notin waiting /\ answer[r] = 0 /\ (outcome = 0 \/ age >= Cached)
  /\ waiting' = waiting \union {r} /\ inFlight' = TRUE
  /\ IF inFlight THEN UNCHANGED <<probe, elapsed>>
     ELSE probe' = [d \in Dependency |-> "open"] /\ elapsed' = 0
  /\ UNCHANGED <<answer, outcome, age, silent>>
Leave(r) ==
  /\ answer[r] # 0 /\ answer' = [answer EXCEPT ![r] = 0]
  /\ UNCHANGED <<waiting, inFlight, probe, elapsed, outcome, age, silent>>
-----------------------------------------------------------------------------
(* The probes.  One that timed out is not heard any more, nor is one of a  *)
(* run that broke.                                                         *)

Settle(d, status) ==
  /\ inFlight /\ probe[d] = "open" /\ probe' = [probe EXCEPT ![d] = status]
  /\ UNCHANGED <<waiting, answer, inFlight, elapsed, outcome, age>>
Reply(d)   == Settle(d, "ok") /\ silent' = [silent EXCEPT ![d] = 0]
Refuse(d)  == Settle(d, "unavailable") /\ UNCHANGED silent   \* an error, a strange reply
TimeOut(d) == elapsed >= Timeout /\ Settle(d, "unavailable") /\ UNCHANGED silent

Finish ==
  /\ inFlight /\ \A d \in Dependency : probe[d] # "open"
  /\ outcome' = IF \A d \in Dependency : probe[d] = "ok" THEN 200 ELSE 503
  /\ age' = 0 /\ inFlight' = FALSE /\ waiting' = {}
  /\ answer' = [r \in Request |-> IF r \in waiting THEN outcome' ELSE answer[r]]
  /\ UNCHANGED <<probe, elapsed, silent>>
\* What a probe did not expect reaches every waiting request; nothing is
\* remembered of it.
Break ==
  /\ inFlight /\ \E d \in Dependency : probe[d] = "open"
  /\ inFlight' = FALSE /\ waiting' = {}
  /\ answer' = [r \in Request |-> IF r \in waiting THEN 500 ELSE answer[r]]
  /\ UNCHANGED <<probe, elapsed, outcome, age, silent>>

Due == inFlight /\ (elapsed >= Timeout \/ \A d \in Dependency : probe[d] # "open")
Tick ==
  /\ ~Due /\ elapsed' = IF inFlight THEN elapsed + 1 ELSE elapsed
  /\ age' = Later(age) /\ silent' = [d \in Dependency |-> Later(silent[d])]
  /\ UNCHANGED <<waiting, answer, inFlight, probe, outcome>>
-----------------------------------------------------------------------------
Next ==
  \/ \E r \in Request : Serve(r) \/ Ask(r) \/ Leave(r)
  \/ \E d \in Dependency : Reply(d) \/ Refuse(d) \/ TimeOut(d)
  \/ Finish \/ Break \/ Tick

Spec == Init /\ [][Next]_vars

(* Time goes on and timers fire; dependencies need not answer.             *)
Passing == Tick \/ Finish \/ \E d \in Dependency : TimeOut(d)
FairSpec == Spec /\ WF_vars(Passing)
-----------------------------------------------------------------------------
(* Variables have their types, and a request waits for a run that is there. *)
TypeOK ==
  /\ waiting \subseteq Request /\ answer \in [Request -> {0, 200, 500, 503}]
  /\ inFlight \in BOOLEAN
  /\ probe \in [Dependency -> {"unasked", "open", "ok", "unavailable"}]
  /\ elapsed \in 0 .. Timeout /\ outcome \in {0, 200, 503} /\ age \in 0 .. Forever
  /\ silent \in [Dependency -> 0 .. Forever]
  /\ waiting # {} => inFlight

(* Who is told that the API is ready is told so about dependencies each of *)
(* which answered a probe no longer ago than one run and one lifetime of   *)
(* an outcome, whatever runs and answers came late in between.             *)
ReadyIsRecent ==
  [][\A r \in Request : answer[r] = 0 /\ answer'[r] = 200 =>
       \A d \in Dependency : silent[d] < Timeout + Cached]_vars

(* Every request is answered, though a dependency never answers.           *)
Unanswered(r) == r \in waiting
RequestsEnd == \A r \in Request : Unanswered(r) ~> ~Unanswered(r)
=============================================================================
