-------------------------- MODULE TenantOwnership --------------------------
(***************************************************************************)
(* The memberships of one tenant and who owns it: acceptance of an         *)
(* invitation, promotion and demotion of owners, suspension and revocation *)
(* of administrators, as transactions of concurrent requests.  A request   *)
(* carries the authority its permission guard read before the transaction  *)
(* began; the transaction locks its actor's rows FOR SHARE and compares.   *)
(* Statements are steps at READ COMMITTED; a transaction's writes appear   *)
(* at its commit, where a deferred trigger checks that an owner remains.   *)
(*                                                                         *)
(* Who holds which row lock follows from how far a request has come, so    *)
(* locks are operators and not variables.  The end of a member's sessions, *)
(* which every change here includes, is in SessionRotation.                *)
(***************************************************************************)
EXTENDS Naturals, FiniteSets

CONSTANTS
  Member,      \* users who have or will have a membership, by user_id
  Request,     \* requests, each made once
  Asked,       \* what they may ask for
  MaxChanges   \* bound of the model on custom role changes and password resets

Kinds    == {"accept", "promote", "demote", "suspend", "revoke"}
Statuses == {"absent", "invited", "active", "suspended", "revoked"}
Roles    == {"none", "admin", "owner"}

ASSUME OwnershipAssumption ==
  /\ Member \subseteq Nat /\ Member # {}
  /\ Asked \subseteq Kinds
  /\ MaxChanges \in Nat

VARIABLES
  tenant,       \* tenants.status
  status,       \* tenant_memberships.status, "absent" before the invitation
  role,         \* the role of the one unrevoked tenant role assignment
  version,      \* tenant_memberships.authorization_version
  userVersion,  \* users.authorization_version
  pc,           \* the statement a request runs next, or how it ended
  call,         \* what it asks for, of whom, and the authority it carries
  todo,         \* owner assignments its query has still to lock
  counted,      \* owner assignments it has locked and counts
  changes       \* custom role changes and password resets so far

tables   == <<tenant, status, role, version, userVersion>>
requests == <<pc, call, todo, counted>>
vars     == <<tables, requests, changes>>

Open   == {"user", "actor", "find", "rows", "target", "commit"}
Ended  == {"ok", "stale", "refused", "last", "ownerless", "deadlock", "aborted"}

Call == [kind : Kinds, actor : Member, target : Member, role : Roles,
         version : Nat, userVersion : Nat]

SomeMember == CHOOSE m \in Member : TRUE

\* What the recipient of an invitation asks for: he carries no authority.
Joining(m) == [kind |-> "accept", actor |-> m, target |-> m,
               role |-> "none", version |-> 0, userVersion |-> 0]

NoCall == Joining(SomeMember)

ActiveOwners == {m \in Member : role[m] = "owner" /\ status[m] = "active"}

\* canGrantRole, as membershipTargetAllowed asks it for each action.
Grantable(kind, actorRole, targetRole) ==
  CASE kind = "promote" -> actorRole = "owner" /\ targetRole = "admin"
    [] kind = "demote"  -> actorRole = "owner" /\ targetRole = "owner"
    [] OTHER            -> actorRole \in {"owner", "admin"} /\ targetRole = "admin"
-----------------------------------------------------------------------------
(* Row locks.                                                              *)

\* Faulty variant: the actor's membership is read without FOR SHARE.
SharingNobody(r, m) == FALSE

\* The actor's membership FOR SHARE, from its check to the end.
Sharing(r, m) ==
  /\ pc[r] \in {"find", "rows", "target", "commit"}
  /\ call[r].kind # "accept" /\ call[r].actor = m

\* The target's membership FOR UPDATE.
Updating(r, m) == pc[r] = "commit" /\ call[r].target = m

\* The actor's user row FOR SHARE.
SharingUser(r, m) ==
  pc[r] \in {"actor", "find", "rows", "target", "commit"}
    /\ call[r].kind # "accept" /\ call[r].actor = m

\* Requests r waits for at the statement it has reached.
WaitsFor(r) ==
  {q \in Request \ {r} :
     \/ pc[r] = "actor" /\ Updating(q, call[r].actor)
     \/ pc[r] = "target" /\ (Updating(q, call[r].target) \/ Sharing(q, call[r].target))
     \/ pc[r] = "rows" /\ \E m \in todo[r] \cap counted[q] : \A n \in todo[r] : m <= n}
-----------------------------------------------------------------------------
\* A tenant is provisioned with one invited member, its owner to be; or it
\* has been active for a while.
Init ==
  /\ \/ /\ tenant = "provisioning"
        /\ \E m \in Member : status = [n \in Member |-> IF n = m THEN "invited" ELSE "absent"]
        /\ role = [m \in Member |-> "none"]
     \/ /\ tenant = "active"
        /\ status \in [Member -> Statuses] /\ role \in [Member -> Roles]
        /\ \A m \in Member :
             /\ role[m] = "none" <=> status[m] \in {"absent", "invited"}
             /\ role[m] = "owner" => status[m] = "active"
        /\ ActiveOwners # {}
  /\ version = [m \in Member |-> 1]
  /\ userVersion = [m \in Member |-> 1]
  /\ pc = [r \in Request |-> "new"]
  /\ call = [r \in Request |-> NoCall]
  /\ todo = [r \in Request |-> {}]
  /\ counted = [r \in Request |-> {}]
  /\ changes = 0

Goto(r, label) == pc' = [pc EXCEPT ![r] = label]

\* The transaction is over and its locks are released.
Finish(r, how) ==
  /\ Goto(r, how)
  /\ call' = [call EXCEPT ![r] = NoCall]
  /\ todo' = [todo EXCEPT ![r] = {}]
  /\ counted' = [counted EXCEPT ![r] = {}]

\* An early return or an error: nothing is written.
Refuse(r, how) == Finish(r, how) /\ UNCHANGED <<tables, changes>>

Proceed(r, label) == Goto(r, label) /\ UNCHANGED <<tables, call, todo, counted, changes>>
-----------------------------------------------------------------------------
(* Requests arrive.                                                        *)

\* The permission guard loads the actor's authority in one statement; only
\* owners hold the permissions to promote and to demote, and nobody suspends
\* or revokes himself.
Ask(r) ==
  /\ pc[r] = "new"
  /\ \E k \in Asked \ {"accept"}, a \in Member, t \in Member :
       /\ status[a] = "active"
       /\ k \in {"promote", "demote"} => role[a] = "owner"
       /\ k \in {"suspend", "revoke"} => a # t
       /\ call' = [call EXCEPT ![r] =
            [kind |-> k, actor |-> a, target |-> t, role |-> role[a],
             version |-> version[a], userVersion |-> userVersion[a]]]
  /\ Goto(r, "user")
  /\ UNCHANGED <<tables, todo, counted, changes>>

\* An invitation is accepted by whom it was sent to, in a transaction that
\* carries no authority.
AskToJoin(r) ==
  /\ pc[r] = "new" /\ "accept" \in Asked
  /\ \E m \in Member :
       /\ status[m] = "invited"
       /\ call' = [call EXCEPT ![r] = Joining(m)]
  /\ Goto(r, "target")
  /\ UNCHANGED <<tables, todo, counted, changes>>
-----------------------------------------------------------------------------
(* PrismaTenantTransactionAdapter.run.                                     *)

LockUser(r) ==
  /\ pc[r] = "user"
  /\ IF userVersion[call[r].actor] = call[r].userVersion
     THEN Proceed(r, "actor") ELSE Refuse(r, "stale")

\* SELECT ... FOR SHARE of the active membership, and the authority loaded
\* anew under that lock.
LockActor(r) ==
  LET c == call[r] IN
  /\ pc[r] = "actor" /\ WaitsFor(r) = {}
  /\ IF /\ status[c.actor] = "active"
        /\ version[c.actor] = c.version
        /\ role[c.actor] = c.role
     THEN Proceed(r, IF c.kind = "demote" THEN "find" ELSE "target")
     ELSE Refuse(r, "stale")
-----------------------------------------------------------------------------
(* lockActiveOwnerUserIds.                                                 *)

\* Faulty variant: without FOR UPDATE the owners found are those counted.
FindOwnersUnlocked(r) ==
  /\ pc[r] = "find"
  /\ counted' = [counted EXCEPT ![r] = ActiveOwners]
  /\ Goto(r, "target")
  /\ UNCHANGED <<tables, call, todo, changes>>

\* SELECT ... FOR UPDATE OF assignment ORDER BY user_id: its snapshot ...
FindOwners(r) ==
  /\ pc[r] = "find"
  /\ todo' = [todo EXCEPT ![r] = ActiveOwners]
  /\ Goto(r, "rows")
  /\ UNCHANGED <<tables, call, counted, changes>>

\* ... the rows it locks in turn; those revoked meanwhile drop out (Commit).
LockOwner(r) ==
  /\ pc[r] = "rows" /\ WaitsFor(r) = {}
  /\ \E m \in todo[r] :
       /\ \A n \in todo[r] : m <= n
       /\ todo' = [todo EXCEPT ![r] = @ \ {m}]
       /\ counted' = [counted EXCEPT ![r] = @ \cup {m}]
  /\ UNCHANGED <<tables, pc, call, changes>>

OwnersLocked(r) == pc[r] = "rows" /\ todo[r] = {} /\ Proceed(r, "target")
-----------------------------------------------------------------------------
(* lockById of the target, and what the use case decides under that lock.  *)

\* The roles of the target are read after its membership is locked, and only
\* change under that lock.
Verdict(r) ==
  LET c == call[r]  t == call[r].target IN
  CASE c.kind = "accept" -> IF status[t] = "invited" THEN "commit" ELSE "refused"
    [] c.kind # "accept" ->
         IF \/ status[t] # "active" /\ ~(c.kind = "revoke" /\ status[t] = "suspended")
            \/ ~Grantable(c.kind, c.role, role[t])
            \/ c.kind = "demote" /\ t \notin counted[r]
         THEN "refused"
         ELSE IF c.kind = "demote" /\ Cardinality(counted[r]) <= 1
         THEN "last"
         ELSE "commit"

\* Faulty variant: a refusal leaves the transaction open.
LockTargetLeftOpen(r) ==
  pc[r] = "target" /\ WaitsFor(r) = {} /\ Proceed(r, Verdict(r))

LockTarget(r) ==
  /\ pc[r] = "target" /\ WaitsFor(r) = {}
  /\ IF Verdict(r) = "commit" THEN Proceed(r, "commit") ELSE Refuse(r, Verdict(r))
-----------------------------------------------------------------------------
(* The writes, which become visible at the commit.                         *)

\* The role's unrevoked assignment is found by the UPDATE that revokes it,
\* and the trigger on the new one finds an active membership.
AssignmentsFit(c) ==
  CASE c.kind = "accept"  -> role[c.target] = "none"
    [] c.kind = "promote" -> role[c.target] = "admin" /\ status[c.target] = "active"
    [] c.kind = "demote"  -> role[c.target] = "owner" /\ status[c.target] = "active"
    [] OTHER              -> TRUE

\* Faulty variant: accepting an owner's invitation leaves the tenant as it is.
TenantAfterUntouched(c) == tenant

TenantAfter(c) == IF c.kind = "accept" THEN "active" ELSE tenant

StatusAfter(c) ==
  [status EXCEPT ![c.target] = CASE c.kind = "accept"  -> "active"
                                 [] c.kind = "suspend" -> "suspended"
                                 [] c.kind = "revoke"  -> "revoked"
                                 [] OTHER              -> @]

\* The one owner invitation is that of the tenant being provisioned.
RoleAfter(c) ==
  [role EXCEPT ![c.target] =
     CASE c.kind = "accept"  -> IF tenant = "provisioning" THEN "owner" ELSE "admin"
       [] c.kind = "promote" -> "owner"
       [] c.kind = "demote"  -> "admin"
       [] OTHER              -> @]

\* Faulty variant: a role change leaves the authorization version alone.
VersionAfterStatusOnly(c) ==
  IF c.kind \in {"promote", "demote"} THEN version ELSE [version EXCEPT ![c.target] = @ + 1]

VersionAfter(c) == [version EXCEPT ![c.target] = @ + 1]

\* The deferred trigger enforce_final_tenant_owner.
OwnerWouldRemain(c) ==
  TenantAfter(c) = "active" =>
    \E m \in Member : RoleAfter(c)[m] = "owner" /\ StatusAfter(c)[m] = "active"

\* A revoked owner assignment drops out of the queries that wait for it.
Commit(r) ==
  LET c == call[r] IN
  /\ pc[r] = "commit"
  /\ IF ~AssignmentsFit(c) THEN Refuse(r, "refused")
     ELSE IF ~OwnerWouldRemain(c) THEN Refuse(r, "ownerless")
     ELSE /\ tenant' = TenantAfter(c)
          /\ status' = StatusAfter(c)
          /\ role' = RoleAfter(c)
          /\ version' = VersionAfter(c)
          /\ Goto(r, "ok")
          /\ call' = [call EXCEPT ![r] = NoCall]
          /\ counted' = [counted EXCEPT ![r] = {}]
          /\ todo' = IF c.kind = "demote" THEN [q \in Request |-> todo[q] \ {c.target}] ELSE todo
          /\ UNCHANGED <<userVersion, changes>>
-----------------------------------------------------------------------------
(* What happens around these transactions.                                 *)

\* The process dies, the connection breaks or the transaction times out.
Abort(r) == pc[r] \in Open /\ Refuse(r, "aborted")

\* PostgreSQL's deadlock detector rolls one transaction of a cycle back.
Deadlocked(r) ==
  \E S \in SUBSET Request :
    /\ r \in S
    /\ \A q \in S : (\E p \in S : p \in WaitsFor(q)) /\ (\E p \in S : q \in WaitsFor(p))

DeadlockVictim(r) == Deadlocked(r) /\ Refuse(r, "deadlock")

\* An administrator is invited to the active tenant.
CreateInvited(m) ==
  /\ tenant = "active" /\ status[m] = "absent"
  /\ status' = [status EXCEPT ![m] = "invited"]
  /\ UNCHANGED <<tenant, role, version, userVersion, requests, changes>>

\* A custom role granted to or revoked from a member raises his version.
ChangeCustomRoles(m) ==
  /\ status[m] = "active"
  /\ changes < MaxChanges /\ changes' = changes + 1
  /\ \A q \in Request : ~Updating(q, m) /\ ~Sharing(q, m)
  /\ version' = [version EXCEPT ![m] = @ + 1]
  /\ UNCHANGED <<tenant, status, role, userVersion, requests>>

ResetPassword(m) ==
  /\ changes < MaxChanges /\ changes' = changes + 1
  /\ \A q \in Request : ~SharingUser(q, m)
  /\ userVersion' = [userVersion EXCEPT ![m] = @ + 1]
  /\ UNCHANGED <<tenant, status, role, version, requests>>
-----------------------------------------------------------------------------
Step(r) ==
  \/ LockUser(r) \/ LockActor(r) \/ FindOwners(r) \/ LockOwner(r) \/ OwnersLocked(r)
  \/ LockTarget(r) \/ Commit(r)

Next ==
  \/ \E r \in Request : Ask(r) \/ AskToJoin(r) \/ Step(r) \/ Abort(r) \/ DeadlockVictim(r)
  \/ \E m \in Member : CreateInvited(m) \/ ChangeCustomRoles(m) \/ ResetPassword(m)

Spec == Init /\ [][Next]_vars

\* Statements that can run do run, and deadlocks are resolved.
Fairness == \A r \in Request : WF_vars(Step(r)) /\ WF_vars(DeadlockVictim(r))

FairSpec == Spec /\ Fairness
-----------------------------------------------------------------------------
(* Properties.                                                             *)

TypeOK ==
  /\ tenant \in {"provisioning", "active"}
  /\ status \in [Member -> Statuses]
  /\ role \in [Member -> Roles]
  /\ version \in [Member -> Nat] /\ userVersion \in [Member -> Nat]
  /\ pc \in [Request -> {"new"} \cup Open \cup Ended]
  /\ call \in [Request -> Call]
  /\ todo \in [Request -> SUBSET Member]
  /\ counted \in [Request -> SUBSET Member]
  /\ \A r \in Request :   \* owner rows are locked by demotions under way
       /\ todo[r] # {} => pc[r] = "rows"
       /\ counted[r] # {} =>
            pc[r] \in {"rows", "target", "commit"} /\ call[r].kind = "demote"
       /\ pc[r] \in {"find", "rows"} => call[r].kind = "demote"
  /\ changes \in 0 .. MaxChanges

\* Locking the owners and counting them is enough: whatever demotions,
\* promotions and suspensions interleave, the trigger at the commit never has
\* to reject a transaction.
TriggerNeverRejects == \A r \in Request : pc[r] # "ownerless"

\* An assignment belongs to a membership that was accepted, and an owner's
\* membership is active: a promotion and a suspension of the same member
\* cannot both succeed on what they read.
RolesFitStatus ==
  \A m \in Member :
    /\ role[m] = "none" <=> status[m] \in {"absent", "invited"}
    /\ role[m] = "owner" => status[m] = "active"

\* A membership's version tells its authority apart: a request that carries
\* the current version carries the current status and role.
VersionTellsAuthority ==
  \A r \in Request :
    LET c == call[r] IN
    pc[r] \in Open /\ c.kind # "accept" =>
      /\ c.version <= version[c.actor]
      /\ c.version = version[c.actor] => status[c.actor] = "active" /\ role[c.actor] = c.role

\* When a change takes effect its actor still has the authority it was
\* decided with, and the target is still one he may do this to.
AuthorityHolds ==
  [][\A r \in Request :
       LET c == call[r] IN
       pc[r] = "commit" /\ pc'[r] = "ok" /\ c.kind # "accept" =>
         /\ status[c.actor] = "active" /\ role[c.actor] = c.role
         /\ version[c.actor] = c.version /\ userVersion[c.actor] = c.userVersion
         /\ Grantable(c.kind, role[c.actor], role[c.target])]_vars

\* No change is made on a stale reading: a membership only goes forward from
\* invited through active and suspended to revoked.
Stage(s) == CASE s = "absent" -> 0 [] s = "invited" -> 1 [] s = "active" -> 2
              [] s = "suspended" -> 3 [] s = "revoked" -> 4

StatusAdvances == [][\A m \in Member : Stage(status[m]) <= Stage(status'[m])]_status

\* The tenant keeps its promise.
Promised == INSTANCE Ownership WITH live <- tenant = "active", owners <- ActiveOwners

KeepsPromise == Promised!Promise

\* Every request is answered, mutual demotions included.
Unanswered(r) == pc[r] \in Open
RequestsEnd == \A r \in Request : Unanswered(r) ~> ~Unanswered(r)
=============================================================================
