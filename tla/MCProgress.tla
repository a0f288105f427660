----------------------------- MODULE MCProgress -----------------------------
(* An instance for TLC of what must come to an end under fairness, for     *)
(* four modules side by side: each behaviour is one of the session, of the *)
(* tenant, of the readiness probe or of the build of the shared database   *)
(* client, and the others rest.                                            *)
EXTENDS SessionRotation, TLC

CONSTANTS
  Change, Wanted, Member, MaxChanges,            \* TenantOwnership
  Prober, Dependency, Timeout, Cached,           \* Readiness
  Builder, MaxSchema                             \* SharedClient

VARIABLES
  part,       \* the module that runs
  tenant, status, role, memberVersion, userVersion, changePc, call, todo, counted, changes,
  waiting, answer, inFlight, probe, elapsed, outcome, age, silent,
  schema, lock, old, client, marker, wanted, built, late, buildPc, robbed

(* An outcome is served for some time. *)
ASSUME ProgressAssumption == Timeout \in Nat /\ Cached \in Nat \ {0}

Pair == {1, 2}

O == INSTANCE TenantOwnership WITH
       Request <- Change, Asked <- Wanted, version <- memberVersion, pc <- changePc
R == INSTANCE Readiness WITH Request <- Prober
S == INSTANCE SharedClient WITH pc <- buildPc

ownership == <<tenant, status, role, memberVersion, userVersion, changePc, call, todo,
               counted, changes>>
readiness == <<waiting, answer, inFlight, probe, elapsed, outcome, age, silent>>
building == <<schema, lock, old, client, marker, wanted, built, late, buildPc, robbed>>
Running(p) == part = p

ProgressInit ==
  /\ part \in {"sessions", "ownership", "readiness", "building"}
  /\ Init /\ O!Init /\ R!Init /\ S!Init
  /\ part # "sessions" => state = "active"
  /\ part # "ownership" => tenant = "active" /\ role = [m \in Member |-> "owner"]
  /\ part # "building" => client = S!None
ProgressNext ==
  \/ Running("sessions") /\ Next /\ UNCHANGED <<part, ownership, readiness, building>>
  \/ Running("ownership") /\ O!Next /\ UNCHANGED <<part, vars, readiness, building>>
  \/ Running("readiness") /\ R!Next /\ UNCHANGED <<part, vars, ownership, building>>
  \/ Running("building") /\ S!Next /\ UNCHANGED <<part, vars, ownership, readiness>>
(* What the process of one number does in the module that runs.  The       *)
(* deadlock detector and the deadlines for a lock end what waits.          *)
Steps(i) ==
  \/ Running("sessions") /\ Step(i) /\ UNCHANGED <<part, ownership, readiness, building>>
  \/ /\ Running("ownership") /\ i \in Change /\ O!Step(i)
     /\ UNCHANGED <<part, vars, readiness, building>>
  \/ /\ Running("building") /\ i \in Builder /\ S!Step(i)
     /\ UNCHANGED <<part, vars, ownership, readiness>>
GivesUp(i) ==
  \/ /\ Running("sessions") /\ DeadlockVictim(i)
     /\ UNCHANGED <<part, ownership, readiness, building>>
  \/ /\ Running("ownership") /\ i \in Change /\ O!DeadlockVictim(i)
     /\ UNCHANGED <<part, vars, readiness, building>>
  \/ /\ Running("building") /\ i \in Builder /\ S!Deadline(i)
     /\ UNCHANGED <<part, vars, ownership, readiness>>
Everything == <<part, vars, ownership, readiness, building>>
ProgressFairness ==
  /\ \A i \in Request : WF_Everything(Steps(i)) /\ WF_Everything(GivesUp(i))
  /\ WF_readiness(Running("readiness") /\ R!Passing)
ProgressSpec == ProgressInit /\ [][ProgressNext]_Everything /\ ProgressFairness

Waits(i) ==
  \/ Running("sessions") /\ Unanswered(i)
  \/ Running("ownership") /\ i \in Change /\ O!Unanswered(i)
  \/ Running("readiness") /\ i \in Prober /\ R!Unanswered(i)
  \/ Running("building") /\ i \in Builder /\ S!Unfinished(i)

(* Every request is answered, of a session, of a tenant and of the health  *)
(* check: row locks are given back, no cycle of waiting transactions       *)
(* lasts, and no dependency holds an answer up; and every builder ends.    *)
(* It is RequestsEnd of three modules and BuildersEnd of the fourth.       *)
EveryRequestEnds == \A i \in Request : Waits(i) ~> ~Waits(i)

(* Who is told that the API is ready is told so about dependencies that    *)
(* answered not long ago.                                                  *)
ReadyIsRecent == R!ReadyIsRecent

(* A shared client that loads is never older than its marker says, unless  *)
(* a lock was taken from a builder.                                        *)
ClientFitsMarker == S!ClientFitsMarker
=============================================================================
