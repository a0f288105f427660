-------------------------- MODULE SessionRotation --------------------------
(***************************************************************************)
(* One session family of booking-os: an auth_sessions row and the chain of *)
(* auth_session_tokens that rotate within it, under concurrent requests.   *)
(* Every request first passes the session middleware, then its handler     *)
(* runs transactions at READ COMMITTED: each SQL statement is a step, it   *)
(* sees what had been committed when it started, waits for row locks, and  *)
(* the effects of a transaction appear at its commit.                      *)
(*                                                                         *)
(* Requests do not repeat: Request is the set of all requests that are     *)
(* ever made.  Tokens are numbered in the order they are minted.  Clock    *)
(* readings are abstracted to the one comparison that matters, whether the *)
(* overlap window of a replaced token has ended at the request's "now".    *)
(***************************************************************************)
EXTENDS Naturals, Sequences, FiniteSets

CONSTANTS
  Request,     \* requests, each made once
  Asked,       \* what they may ask for
  MaxVersion,  \* bound of the model on authorization version changes
  MaxCrashes,  \* bound of the model on transactions that fail or time out
  NoRequest

Kinds == {"read", "refresh", "guarded", "logout", "accept", "sweep", "reset"}

ASSUME SessionAssumption ==
  /\ Asked \subseteq Kinds
  /\ NoRequest \notin Request
  /\ {MaxVersion, MaxCrashes} \subseteq Nat

VARIABLES
  state,     \* auth_sessions.state
  snapshot,  \* auth_sessions.authorization_version
  current,   \* the authoritative authorization version of user and membership
  parent,    \* parent[t]: the token t was minted from, 0 for none
  replaced,  \* tokens with replaced_at (and successor_token_id)
  ended,     \* replaced tokens whose overlap window is over
  reused,    \* tokens with reuse_detected_at
  revoked,   \* tokens with revoked_at
  rowLock,   \* the request whose transaction has the session row locked
  held,      \* tokens whose rows a request's transaction has locked
  kind,      \* what a request asks for
  pc,        \* the statement a request is about to run
  token,     \* the token it presents
  past,      \* requests that found its overlap over when they looked it up
  version,   \* the authorization version it carries
  sweep,     \* tokens its UPDATE of the whole family found unrevoked
  detected,  \* history: requests that detected a reuse
  victims,   \* history: requests whose transaction was rolled back
  crashes

family   == <<state, snapshot, parent, replaced, reused, revoked>>
locks    == <<rowLock, held>>
request  == <<kind, pc, token, past, version, sweep>>
history  == <<detected, victims, crashes>>
vars == <<family, current, ended, locks, request, history>>

Minted == 1 .. Len(parent)
Alive == state \in {"pending", "active"}
Unrevoked == Minted \ revoked
Current == Unrevoked \ replaced   \* what the index one_active_family covers

FreeToken(r, t) == \A q \in Request \ {r} : t \notin held[q]
FreeRow == rowLock = NoRequest
-----------------------------------------------------------------------------
Init ==
  /\ state \in {"pending", "active"}
  /\ snapshot = 1 /\ current = 1
  /\ parent = <<0>>
  /\ replaced = {} /\ ended = {} /\ reused = {} /\ revoked = {}
  /\ rowLock = NoRequest
  /\ held = [r \in Request |-> {}]
  /\ kind = [r \in Request |-> "read"]
  /\ pc = [r \in Request |-> "new"]
  /\ token = [r \in Request |-> 1]
  /\ past = {}
  /\ version = [r \in Request |-> 0]
  /\ sweep = [r \in Request |-> {}]
  /\ detected = {} /\ victims = {} /\ crashes = 0

Goto(r, label) == pc' = [pc EXCEPT ![r] = label]

\* The transaction ends: its locks are released.
Release(r) ==
  /\ held' = [held EXCEPT ![r] = {}]
  /\ rowLock' = IF rowLock = r THEN NoRequest ELSE rowLock

Finish(r) == Goto(r, "done") /\ Release(r)

LockToken(r, t) == held' = [held EXCEPT ![r] = @ \cup {t}]
LockRow(r) == rowLock' = r

\* A successor of t (0: of none) is inserted as the family's current token.
Mint(t) == parent' = Append(parent, t)
-----------------------------------------------------------------------------
(* The middleware every request passes, and what follows it.               *)

\* A client presents any token that was ever issued to it; revocation of all
\* the user's sessions and password reset come from outside the family.
Arrive(r) ==
  /\ pc[r] = "new"
  /\ \E k \in Asked, t \in Minted :
       /\ k \in {"sweep", "reset"} => t = 1
       /\ kind' = [kind EXCEPT ![r] = k]
       /\ token' = [token EXCEPT ![r] = t]
       /\ Goto(r, IF k \in {"sweep", "reset"} THEN "readFamily" ELSE "validate")
  /\ UNCHANGED <<family, current, ended, locks, past, version, sweep, history>>

Handler(k) ==
  CASE k = "refresh" -> "find"
    [] k = "guarded" -> IF state = "active" THEN "build" ELSE "done"
    [] k = "logout" -> "revokeRow"
    [] k = "accept" -> "lockPending"
    [] OTHER -> "done"   \* a plain read

\* A replaced token after its overlap is a reuse; the family is compromised
\* in a transaction of its own.
Detect(r) == Goto(r, "markToken") /\ detected' = detected \cup {r}

\* GetCurrentSession and ValidateSession: the session is looked up by its
\* token without a lock.
Validate(r) ==
  /\ pc[r] = "validate"
  /\ IF ~Alive \/ token[r] \in revoked
     THEN Goto(r, "done") /\ UNCHANGED <<version, detected>>
     ELSE IF token[r] \in ended
     THEN Detect(r) /\ UNCHANGED version
     ELSE /\ version' = [version EXCEPT ![r] = snapshot]
          /\ Goto(r, Handler(kind[r]))
          /\ UNCHANGED detected
  /\ UNCHANGED <<family, current, ended, locks, kind, token, past, sweep,
                 victims, crashes>>
-----------------------------------------------------------------------------
(* RefreshSession and rotateCompareAndSet.                                 *)

\* The use case looks the session up again, and takes its "now".
Find(r) ==
  /\ pc[r] = "find"
  /\ IF state = "active" /\ token[r] \notin revoked /\ snapshot = version[r]
     THEN /\ Goto(r, "lockToken")
          /\ past' = IF token[r] \in ended THEN past \cup {r} ELSE past
     ELSE Goto(r, "done") /\ UNCHANGED past
  /\ UNCHANGED <<family, current, ended, locks, kind, token, version, sweep, history>>

\* SELECT ... FOR UPDATE OF token, and the decision taken under the lock.
Compare(r) ==
  /\ pc[r] = "lockToken" /\ FreeToken(r, token[r])
  /\ IF token[r] \in revoked \cup reused
     THEN Goto(r, "done") /\ UNCHANGED <<held, detected>>
     ELSE IF token[r] \notin replaced
     THEN Goto(r, "rotate") /\ LockToken(r, token[r]) /\ UNCHANGED detected
     ELSE /\ UNCHANGED held
          /\ IF r \in past THEN Detect(r)
             ELSE Goto(r, "done") /\ UNCHANGED detected   \* "existing"
  /\ UNCHANGED <<family, current, ended, rowLock, kind, token, past, version, sweep,
                 victims, crashes>>

\* The session row is not looked at again before the successor is committed.
Rotate(r) ==
  /\ pc[r] = "rotate"
  /\ Mint(token[r])
  /\ replaced' = replaced \cup {token[r]}
  /\ Finish(r)
  /\ UNCHANGED <<state, snapshot, reused, revoked, current, ended, kind, token, past,
                 version, sweep, history>>
-----------------------------------------------------------------------------
(* markCompromised, revokeById, revokeOthersForUser and their relatives.   *)

\* UPDATE of the reused token, which is replaced and so always found.
MarkToken(r) ==
  /\ pc[r] = "markToken" /\ FreeToken(r, token[r])
  /\ LockToken(r, token[r])
  /\ Goto(r, "killRow")
  /\ UNCHANGED <<family, current, ended, rowLock, kind, token, past, version, sweep, history>>

\* SELECT of the sessions to revoke; a reset takes active ones only.
ReadFamily(r) ==
  /\ pc[r] = "readFamily"
  /\ IF state = "active" \/ (state = "pending" /\ kind[r] = "sweep")
     THEN Goto(r, "killRow") ELSE Goto(r, "done")
  /\ UNCHANGED <<family, current, ended, locks, kind, token, past, version, sweep, history>>

\* Faulty variant: a locked row is passed over too.
KillRowSkipsLocked(r) ==
  /\ pc[r] = "killRow"
  /\ IF Alive /\ FreeRow THEN LockRow(r) ELSE UNCHANGED rowLock
  /\ Goto(r, "findTokens")
  /\ UNCHANGED <<family, current, ended, held, kind, token, past, version, sweep, history>>

\* UPDATE auth_sessions ... WHERE revoked_at IS NULL: a dead row is passed
\* over and the statements after it run all the same.
KillRow(r) ==
  /\ pc[r] = "killRow"
  /\ IF Alive THEN FreeRow /\ LockRow(r) ELSE UNCHANGED rowLock
  /\ Goto(r, "findTokens")
  /\ UNCHANGED <<family, current, ended, held, kind, token, past, version, sweep, history>>

\* Faulty variant: a locked row counts as dead.
RevokeRowSkipsLocked(r) ==
  /\ pc[r] = "revokeRow"
  /\ IF Alive /\ FreeRow THEN LockRow(r) /\ Goto(r, "findTokens")
     ELSE UNCHANGED rowLock /\ Goto(r, "done")
  /\ UNCHANGED <<family, current, ended, held, kind, token, past, version, sweep, history>>

\* revokeById and the authorization adapter's revoke stop at a dead row.
RevokeRow(r) ==
  /\ pc[r] = "revokeRow"
  /\ IF Alive THEN FreeRow /\ LockRow(r) /\ Goto(r, "findTokens")
     ELSE UNCHANGED rowLock /\ Goto(r, "done")
  /\ UNCHANGED <<family, current, ended, held, kind, token, past, version, sweep, history>>

\* Faulty variant: the accepted invitation is not looked up as pending.
LockPendingUnchecked(r) ==
  /\ pc[r] = "lockPending" /\ FreeRow
  /\ LockRow(r) /\ Goto(r, "findTokens")
  /\ UNCHANGED <<family, current, ended, held, kind, token, past, version, sweep, history>>

\* elevateInvitationSession: SELECT ... FOR UPDATE of a pending session.
LockPending(r) ==
  /\ pc[r] = "lockPending"
  /\ IF state = "pending" THEN FreeRow /\ LockRow(r) /\ Goto(r, "findTokens")
     ELSE UNCHANGED rowLock /\ Goto(r, "done")
  /\ UNCHANGED <<family, current, ended, held, kind, token, past, version, sweep, history>>

\* UPDATE auth_session_tokens ... WHERE revoked_at IS NULL: its snapshot ...
FindTokens(r) ==
  /\ pc[r] = "findTokens"
  /\ sweep' = [sweep EXCEPT ![r] = Unrevoked]
  /\ Goto(r, "lockTokens")
  /\ UNCHANGED <<family, current, ended, locks, kind, token, past, version, history>>

\* ... and the rows it locks one after the other; a row that turns out to be
\* revoked by now is passed over.
LockNext(r) ==
  /\ pc[r] = "lockTokens"
  /\ \E t \in sweep[r] \ held[r] :
       /\ FreeToken(r, t)
       /\ IF t \in revoked
          THEN sweep' = [sweep EXCEPT ![r] = @ \ {t}] /\ UNCHANGED held
          ELSE LockToken(r, t) /\ UNCHANGED sweep
  /\ UNCHANGED <<family, current, ended, rowLock, kind, pc, token, past, version, history>>

Swept(r) == pc[r] = "lockTokens" /\ sweep[r] \subseteq held[r]

\* Faulty variant: the token is marked, the family left alone.
CompromiseTokenOnly(r) ==
  /\ Swept(r) /\ r \in detected
  /\ reused' = reused \cup {token[r]}
  /\ revoked' = revoked \cup {token[r]}
  /\ Finish(r)
  /\ UNCHANGED <<state, snapshot, parent, replaced, current, ended, kind, token, past,
                 version, sweep, history>>

Compromise(r) ==
  /\ Swept(r) /\ r \in detected
  /\ state' = IF rowLock = r THEN "compromised" ELSE state
  /\ reused' = reused \cup {token[r]}
  /\ revoked' = revoked \cup sweep[r]
  /\ Finish(r)
  /\ UNCHANGED <<snapshot, parent, replaced, current, ended, kind, token, past, version,
                 sweep, history>>

\* Faulty variant: the tokens are revoked and the session is not.
RevokeTokensOnly(r) ==
  /\ Swept(r) /\ r \notin detected /\ kind[r] # "accept"
  /\ revoked' = revoked \cup sweep[r]
  /\ Finish(r)
  /\ UNCHANGED <<state, snapshot, parent, replaced, reused, current, ended, kind, token,
                 past, version, sweep, history>>

Revoke(r) ==
  /\ Swept(r) /\ r \notin detected /\ kind[r] # "accept"
  /\ state' = IF rowLock = r THEN "revoked" ELSE state
  /\ revoked' = revoked \cup sweep[r]
  /\ Finish(r)
  /\ UNCHANGED <<snapshot, parent, replaced, reused, current, ended, kind, token, past,
                 version, sweep, history>>

\* Faulty variant: the pending session's tokens stay valid.
ElevateKeepsTokens(r) ==
  /\ Swept(r) /\ r \notin detected /\ kind[r] = "accept"
  /\ Finish(r)
  /\ state' = "active" /\ Mint(0)
  /\ UNCHANGED <<revoked, snapshot, replaced, reused, current, ended, kind, token, past,
                 version, sweep, history>>

\* The pending session becomes active; all its tokens give way to a new one.
Elevate(r) ==
  /\ Swept(r) /\ r \notin detected /\ kind[r] = "accept"
  /\ Finish(r)
  /\ IF sweep[r] = {} THEN UNCHANGED <<state, revoked, parent>>
     ELSE /\ state' = "active"
          /\ revoked' = revoked \cup sweep[r]
          /\ Mint(0)
  /\ UNCHANGED <<snapshot, replaced, reused, current, ended, kind, token, past, version,
                 sweep, history>>
-----------------------------------------------------------------------------
(* ReconcileAuthorizationVersion on permission-guarded routes.             *)

\* Membership and role changes raise the authoritative version.
RaiseVersion ==
  /\ current < MaxVersion
  /\ current' = current + 1
  /\ UNCHANGED <<family, ended, locks, request, history>>

\* The authorization context is rebuilt: versions are read, or the subject
\* turns out to be inactive and the session is to be revoked.
Build(r) ==
  /\ pc[r] = "build"
  /\ \/ /\ current = version[r]
        /\ Goto(r, "done") /\ UNCHANGED version
     \/ /\ current # version[r]
        /\ version' = [version EXCEPT ![r] = current]
        /\ Goto(r, "lockBoth")
     \/ Goto(r, "revokeRow") /\ UNCHANGED version
  /\ UNCHANGED <<family, current, ended, locks, kind, token, past, sweep, history>>

\* SELECT ... FOR UPDATE OF token, session: first the token row ...
LockBoth(r) ==
  /\ pc[r] = "lockBoth"
  /\ IF state = "active" /\ token[r] \notin revoked
     THEN /\ FreeToken(r, token[r]) /\ LockToken(r, token[r])
          /\ Goto(r, "lockRow")
     ELSE UNCHANGED held /\ Goto(r, "done")
  /\ UNCHANGED <<family, current, ended, rowLock, kind, token, past, version, sweep, history>>

\* Faulty variant: a replaced token is rotated once more.
RecheckWithoutReplaced(r) ==
  /\ pc[r] = "lockRow" /\ FreeRow
  /\ IF state = "active" /\ token[r] \notin revoked
     THEN LockRow(r) /\ Goto(r, "refreshSnapshot") /\ UNCHANGED held
     ELSE Finish(r)
  /\ UNCHANGED <<family, current, ended, kind, token, past, version, sweep, history>>

\* Faulty variant: the early return leaves the transaction open.
RecheckLeftOpen(r) ==
  /\ pc[r] = "lockRow" /\ FreeRow
  /\ IF state = "active" /\ token[r] \notin revoked \cup replaced
     THEN LockRow(r) /\ Goto(r, "refreshSnapshot") /\ UNCHANGED held
     ELSE Goto(r, "done") /\ UNCHANGED locks
  /\ UNCHANGED <<family, current, ended, kind, token, past, version, sweep, history>>

\* ... then the session row; the conditions are evaluated again on both.
Recheck(r) ==
  /\ pc[r] = "lockRow" /\ FreeRow
  /\ IF state = "active" /\ token[r] \notin revoked \cup replaced
     THEN LockRow(r) /\ Goto(r, "refreshSnapshot") /\ UNCHANGED held
     ELSE Finish(r)
  /\ UNCHANGED <<family, current, ended, kind, token, past, version, sweep, history>>

RefreshSnapshot(r) ==
  /\ pc[r] = "refreshSnapshot"
  /\ Mint(token[r])
  /\ replaced' = replaced \cup {token[r]}
  /\ snapshot' = version[r]
  /\ Finish(r)
  /\ UNCHANGED <<state, reused, revoked, current, ended, kind, token, past, version,
                 sweep, history>>
-----------------------------------------------------------------------------
OverlapEnds(t) ==
  /\ t \in replaced \ ended
  /\ ended' = ended \cup {t}
  /\ UNCHANGED <<family, current, locks, request, history>>

\* Requests whose transaction has the lock that r waits for.
WaitsFor(r) ==
  IF pc[r] \in {"lockToken", "markToken"} \/ (pc[r] = "lockBoth" /\ state = "active")
  THEN {q \in Request \ {r} : token[r] \in held[q]}
  ELSE IF pc[r] \in {"killRow", "revokeRow", "lockPending", "lockRow"} /\ Alive
  THEN {rowLock} \ {r, NoRequest}
  ELSE IF pc[r] = "lockTokens"
  THEN {q \in Request \ {r} : (sweep[r] \ held[r]) \cap held[q] # {}}
  ELSE {}

Deadlocked(r) ==
  \E S \in SUBSET Request :
    /\ r \in S
    /\ \A q \in S : (\E p \in S : p \in WaitsFor(q)) /\ (\E p \in S : q \in WaitsFor(p))

\* The transaction is rolled back and the request answers with an error;
\* nobody repeats it.
Abort(r) ==
  /\ victims' = victims \cup {r}
  /\ Finish(r)
  /\ UNCHANGED <<family, current, ended, kind, token, past, version, sweep, detected>>

\* PostgreSQL's deadlock detector picks a transaction of the cycle.
DeadlockVictim(r) == Deadlocked(r) /\ Abort(r) /\ UNCHANGED crashes

\* The process dies, the connection breaks or the transaction times out.
Crash(r) ==
  /\ pc[r] \notin {"new", "done"}
  /\ crashes < MaxCrashes /\ crashes' = crashes + 1
  /\ Abort(r)
-----------------------------------------------------------------------------
Step(r) ==
  \/ Validate(r) \/ Find(r) \/ Compare(r) \/ Rotate(r)
  \/ MarkToken(r) \/ ReadFamily(r) \/ KillRow(r) \/ RevokeRow(r) \/ LockPending(r)
  \/ FindTokens(r) \/ LockNext(r) \/ Compromise(r) \/ Revoke(r) \/ Elevate(r)
  \/ Build(r) \/ LockBoth(r) \/ Recheck(r) \/ RefreshSnapshot(r)

Next ==
  \/ \E r \in Request : Arrive(r) \/ Step(r) \/ DeadlockVictim(r) \/ Crash(r)
  \/ \E t \in Minted : OverlapEnds(t)
  \/ RaiseVersion

Spec == Init /\ [][Next]_vars

\* Statements that can run do run, and deadlocks are resolved.
Fairness == \A r \in Request : WF_vars(Step(r)) /\ WF_vars(DeadlockVictim(r))

FairSpec == Spec /\ Fairness
-----------------------------------------------------------------------------
(* Properties.                                                             *)

Labels == {"new", "validate", "find", "lockToken", "rotate", "markToken",
           "readFamily", "killRow", "revokeRow", "lockPending", "findTokens",
           "lockTokens", "build", "lockBoth", "lockRow", "refreshSnapshot", "done"}

TypeOK ==
  /\ state \in {"pending", "active", "compromised", "revoked"}
  /\ snapshot \in Nat /\ current \in Nat
  /\ parent \in Seq(Nat)
  /\ replaced \subseteq Minted /\ reused \subseteq Minted /\ revoked \subseteq Minted
  /\ ended \subseteq replaced
  /\ rowLock \in Request \cup {NoRequest}
  /\ held \in [Request -> SUBSET Minted]
  /\ kind \in [Request -> Kinds]
  /\ pc \in [Request -> Labels]
  /\ \A r \in Request :   \* row locks belong to the transactions under way
       /\ held[r] # {} => pc[r] \in {"rotate", "killRow", "findTokens", "lockTokens",
                                     "lockRow", "refreshSnapshot"}
       /\ rowLock = r => pc[r] \in {"findTokens", "lockTokens", "refreshSnapshot"}
  /\ token \in [Request -> Minted]
  /\ past \subseteq Request
  /\ version \in [Request -> Nat]
  /\ sweep \in [Request -> SUBSET Minted]
  /\ detected \subseteq Request /\ victims \subseteq Request
  /\ crashes \in 0 .. MaxCrashes

\* However refreshes, reconciliations, acceptance and revocations interleave,
\* a family never has two current tokens: the partial unique index is never
\* what stops a transaction.
OneCurrentToken == \A t, u \in Current : t = u

\* A family that is still alive always has a current token: no race leaves a
\* user with a session and no token that opens it.
AliveIsUsable == Alive => Current # {}

\* Neither two tokens nor none.
OneUsableToken == OneCurrentToken /\ AliveIsUsable

\* Concurrent rotations of one token mint one successor, and a replaced token
\* always has it.
OneSuccessor ==
  /\ \A t, u \in Minted : parent[t] = parent[u] /\ parent[t] # 0 => t = u
  /\ \A t \in replaced : \E u \in Minted : parent[u] = t

\* Once a logout or a revocation of all sessions has answered, the family is
\* dead for good, whatever rotated or accepted an invitation meanwhile.
RevocationSticks ==
  \A r \in Request \ victims :
    pc[r] = "done" /\ (kind[r] = "sweep" \/ (kind[r] = "logout" /\ version[r] # 0))
      => ~Alive

\* A token is on record as reused only in a family that is dead.
ReuseIsDead == reused # {} => ~Alive

\* A dead family is never revived, nor does its end change: a revocation does
\* not overwrite a compromise.
DeadStaysDead == [][~Alive => state' = state]_state

\* A rebuilt authorization context that is out of date when it is written
\* never takes the session's snapshot back.
SnapshotNeverRegresses == [][snapshot' >= snapshot]_snapshot

\* Every request is answered: row locks are given back, and no cycle of
\* waiting transactions lasts.
Unanswered(r) == pc[r] \notin {"new", "done"}
RequestsEnd == \A r \in Request : Unanswered(r) ~> ~Unanswered(r)

\* Detected reuse ends the family unless the detecting transaction itself was
\* rolled back.
ReuseEndsUnlessRolledBack ==
  \A r \in Request : r \in detected ~> (~Alive \/ r \in victims)
-----------------------------------------------------------------------------
(* What the repository's documents say, and the code does not do.          *)

\* "Use of a replaced token after the overlap window marks the session family
\* as compromised, revokes it".
ReuseEndsFamily == \A r \in Request : r \in detected ~> ~Alive
=============================================================================
