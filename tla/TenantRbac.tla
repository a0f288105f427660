----------------------------- MODULE TenantRbac -----------------------------
(***************************************************************************)
(* Custom roles of one tenant of booking-os and who holds them.  An owner  *)
(* looks at a role and then asks for a change; the guard builds the        *)
(* owner's authorization, and the change runs in a READ COMMITTED          *)
(* transaction that first takes the owner's own membership FOR SHARE and   *)
(* checks that the authorization still holds.  Writes appear at the        *)
(* commit, row locks are operators of pc and locked.  Owners have every    *)
(* permission of the tenant, so keys stands for what custom roles add.     *)
(***************************************************************************)
EXTENDS Naturals, FiniteSets

CONSTANTS
  Request,     \* requests to change something, each made once
  Asked,       \* what they may ask for
  Member,      \* membership ids, which are locked in their order
  Role, Permission

VARIABLES
  role,        \* tenant_custom_roles and their permissions
  holds,       \* holds[m]: the roles assigned to m and not revoked
  member,      \* tenant_memberships and the system role of their users
  pc,          \* the statement a request is about to run
  call,        \* what it asks for
  seen,        \* the role as its author saw it
  context,     \* the authorization the guard built for its author
  found,       \* memberships its last query returned
  locked       \* memberships it has locked FOR UPDATE

tables == <<role, holds, member>>
memory == <<call, seen, context, found, locked>>
vars == <<tables, pc, memory>>

Kinds == {"create", "update", "replace", "archive", "grant", "revoke"}
Versioned == {"update", "replace", "archive"}    \* they carry expectedVersion
Started(r) == pc[r] \in {"recheck", "role", "target", "list", "holders", "write"}
Keys(m) == UNION {role[x].keys : x \in {y \in holds[m] : role[y].status = "active"}}
Authority(m) == [version |-> member[m].version, owner |-> member[m].owner, keys |-> Keys(m)]
Holders(x) == {m \in Member : x \in holds[m]}

HasRole(r) == Started(r) /\ call[r].kind # "create" /\ pc[r] \notin {"recheck", "role"}
RoleFree(r, x) == \A q \in Request \ {r} : ~(HasRole(q) /\ call[q].role = x)
\* FOR SHARE waits for FOR UPDATE, and FOR UPDATE for both.
Shareable(r, m) == \A q \in Request \ {r} : m \notin locked[q]
Lockable(r, m) == /\ Shareable(r, m)
                  /\ \A q \in Request \ {r} : Started(q) => call[q].actor # m
-----------------------------------------------------------------------------
NoRole == [status |-> "none", version |-> 0, keys |-> {}]
Init ==
  /\ role \in [Role -> {NoRole} \union [status : {"active"}, version : {1}, keys : SUBSET Permission]]
  /\ holds \in [Member -> SUBSET {x \in Role : role[x].status = "active"}]
  /\ member \in [Member -> [status : {"active"}, owner : BOOLEAN, version : {1}]]
  /\ pc = [r \in Request |-> "new"]
  /\ call \in [Request -> {[kind |-> "create", role |-> CHOOSE x \in Role : TRUE, keys |-> {},
                            actor |-> CHOOSE m \in Member : TRUE,
                            target |-> CHOOSE m \in Member : TRUE]}]
  /\ seen = [r \in Request |-> NoRole]
  /\ context \in [Request -> {Authority(CHOOSE m \in Member : TRUE)}]
  /\ found = [r \in Request |-> {}] /\ locked = [r \in Request |-> {}]

Go(r, label) == pc' = [pc EXCEPT ![r] = label]
End(r, label) == Go(r, label) /\ locked' = [locked EXCEPT ![r] = {}]
Stop(r, label) == End(r, label) /\ UNCHANGED <<tables, call, seen, context, found>>
Step(r, label) == Go(r, label) /\ UNCHANGED <<tables, memory>>
Lock(r, m) == locked' = [locked EXCEPT ![r] = @ \union {m}]

(* An author looks at the role: its row, then its permissions. *)
LookAtRow(r) ==
  /\ pc[r] = "new"
  /\ \E k \in Asked, x \in Role, a \in Member :
       \E t \in IF k \in {"grant", "revoke"} THEN Member ELSE {a},
          P \in IF k \in {"create", "replace"} THEN SUBSET Permission ELSE {{}} :
         /\ IF k = "create" THEN x = call[r].role ELSE role[x].status # "none"
         /\ call' = [call EXCEPT ![r] = [kind |-> k, role |-> x, keys |-> P,
                                         actor |-> a, target |-> t]]
         /\ seen' = [seen EXCEPT ![r].version = role[x].version]
         /\ Go(r, IF k \in Versioned THEN "look" ELSE "guard")
  /\ UNCHANGED <<tables, context, found, locked>>
LookAtKeys(r) ==
  /\ pc[r] = "look"
  /\ seen' = [seen EXCEPT ![r].keys = role[call[r].role].keys]
  /\ Go(r, "guard")
  /\ UNCHANGED <<tables, call, context, found, locked>>

(* The guard reads version, system role and permissions in one statement.  *)
Guard(r) ==
  LET a == call[r].actor IN
    /\ pc[r] = "guard"
    /\ IF member[a].status = "active" /\ member[a].owner
         THEN Go(r, "enter") /\ context' = [context EXCEPT ![r] = Authority(a)]
         ELSE Go(r, "refused") /\ UNCHANGED context
    /\ UNCHANGED <<tables, call, seen, found, locked>>

\* Faulty variant: the author's membership is read without FOR SHARE.
EnterWithoutWaiting(r) ==
  /\ pc[r] = "enter"
  /\ LET m == member[call[r].actor] IN
       IF m.status = "active" /\ m.version = context[r].version
         THEN Step(r, "recheck") ELSE Stop(r, "refused")

(* The transaction: the actor's membership FOR SHARE and its version, then *)
(* the whole authority again.                                              *)
Enter(r) ==
  /\ pc[r] = "enter" /\ Shareable(r, call[r].actor)
  /\ LET m == member[call[r].actor] IN
       IF m.status = "active" /\ m.version = context[r].version
         THEN Step(r, "recheck") ELSE Stop(r, "refused")
Recheck(r) ==
  /\ pc[r] = "recheck"
  /\ IF Authority(call[r].actor) # context[r] THEN Stop(r, "refused")
     ELSE Step(r, IF call[r].kind = "create" THEN "write" ELSE "role")

\* Faulty variant: the expected version is checked for renaming only.
StaleForUpdate(r) ==
  call[r].kind = "update" /\ role[call[r].role].version # seen[r].version
-----------------------------------------------------------------------------
Label == {"new", "look", "guard", "enter", "recheck", "role", "target", "list", "holders",
          "write", "ok", "refused", "conflict", "failed"}
Row == [status : {"none", "active", "archived"}, version : Nat, keys : SUBSET Permission]

(* Values have their types. *)
TypeOK ==
  /\ role \in [Role -> Row] /\ seen \in [Request -> Row] /\ pc \in [Request -> Label]
  /\ holds \in [Member -> SUBSET Role]
  /\ member \in [Member -> [status : {"active", "suspended"}, owner : BOOLEAN, version : Nat]]
  /\ call \in [Request -> [kind : Kinds, role : Role, keys : SUBSET Permission,
                           actor : Member, target : Member]]
  /\ context \in [Request -> [version : Nat, owner : BOOLEAN, keys : SUBSET Permission]]
  /\ found \in [Request -> SUBSET Member] /\ locked \in [Request -> SUBSET Member]

(* Nobody holds a role that is archived, however closely granting and      *)
(* archiving race.                                                         *)
ArchivedRolesAreHeldByNobody ==
  \A m \in Member : \A x \in holds[m] : role[x].status = "active"

(* The version of a membership tells its authority: an authorization that  *)
(* a guard built and that bears the version still in the database says     *)
(* what the database says, whatever was granted, revoked, replaced,        *)
(* archived or demoted in between.                                         *)
VersionTellsAuthority ==
  \A r \in Request :
    pc[r] \notin {"new", "look", "guard", "refused"} /\ context[r].version = member[call[r].actor].version
      => context[r] = Authority(call[r].actor)

(* A change commits only while its author is an active owner with exactly  *)
(* the authority it was checked against.                                   *)
ActsOnCurrentAuthority ==
  [][\A r \in Request : pc[r] \in {"write", "holders"} /\ pc'[r] = "ok" =>
       /\ member[call[r].actor].status = "active"
       /\ context[r] = Authority(call[r].actor)]_vars

(* Permissions are replaced, and a role archived, only as their author saw *)
(* them: nobody's change is overwritten unseen, although row and           *)
(* permissions were looked at by two statements.                           *)
NoChangeIsOverwrittenUnseen ==
  [][\A r \in Request :
       pc[r] = "holders" /\ pc'[r] = "ok" => role[call[r].role].keys = seen[r].keys]_vars

Stale(r) == call[r].kind \in Versioned /\ role[call[r].role].version # seen[r].version
Unchanged(r) == call[r].kind = "replace" /\ role[call[r].role].keys = call[r].keys
AfterRole(r) == CASE call[r].kind = "update" -> "write"
                  [] call[r].kind \in {"replace", "archive"} -> "list"
                  [] OTHER -> "target"

LockRole(r) ==
  /\ pc[r] = "role" /\ RoleFree(r, call[r].role)
  /\ IF role[call[r].role].status = "archived" /\ call[r].kind # "revoke" THEN Stop(r, "refused")
     ELSE IF Stale(r) THEN Stop(r, "conflict")
     ELSE IF Unchanged(r) THEN Stop(r, "ok")
     ELSE Step(r, AfterRole(r))

\* Faulty variant: the author's own membership is left out.
AffectedOthers(r) == {m \in Holders(call[r].role) \ {call[r].actor} :
                        call[r].kind = "replace" => member[m].status = "active"}

(* Whoever is affected is found and then locked one by one.                    *)

\* Faulty variant: archiving revokes the assignments of active members.
AffectedActive(r) == {m \in Holders(call[r].role) : member[m].status = "active"}

Affected(r) == {m \in Holders(call[r].role) :
                  call[r].kind = "replace" => member[m].status = "active"}
ListHolders(r) ==
  /\ pc[r] = "list"
  /\ found' = [found EXCEPT ![r] = Affected(r)]
  /\ Go(r, "holders")
  /\ UNCHANGED <<tables, call, seen, context, locked>>
LockHolder(r) ==
  /\ pc[r] = "holders"
  /\ \E m \in found[r] \ locked[r] :
       /\ \A n \in found[r] \ locked[r] : m <= n
       /\ Lockable(r, m) /\ Lock(r, m)
  /\ UNCHANGED <<tables, pc, call, seen, context, found>>
LockTarget(r) ==
  LET t == call[r].target
      held == call[r].role \in holds[t] IN
    /\ pc[r] = "target" /\ Lockable(r, t)
    /\ CASE call[r].kind = "grant" /\ member[t].status # "active" -> Stop(r, "refused")
         [] call[r].kind = "grant" /\ member[t].status = "active" /\ held -> Stop(r, "ok")
         [] call[r].kind = "revoke" /\ ~held -> Stop(r, "ok")
         [] OTHER -> /\ Go(r, "write") /\ Lock(r, t)
                     /\ UNCHANGED <<tables, call, seen, context, found>>

(* The writes, and the commit. *)
Raised(M) == [m \in Member |-> IF m \in M THEN [member[m] EXCEPT !.version = @ + 1] ELSE member[m]]
ActiveOf(M) == {m \in M : member[m].status = "active"}
NextRow(x, status, P) ==
  role' = [role EXCEPT ![x] = [status |-> status, version |-> @.version + 1, keys |-> P]]
Create(r) ==
  /\ pc[r] = "write" /\ call[r].kind = "create"
  /\ \E x \in Role : role[x].status = "none" /\ NextRow(x, "active", call[r].keys)
  /\ End(r, "ok")
  /\ UNCHANGED <<holds, member, call, seen, context, found>>
Update(r) ==
  /\ pc[r] = "write" /\ call[r].kind = "update"
  /\ NextRow(call[r].role, "active", role[call[r].role].keys) /\ End(r, "ok")
  /\ UNCHANGED <<holds, member, call, seen, context, found>>
Replace(r) ==
  /\ pc[r] = "holders" /\ call[r].kind = "replace" /\ found[r] \subseteq locked[r]
  /\ NextRow(call[r].role, "active", call[r].keys)
  /\ member' = Raised(ActiveOf(found[r]))
  /\ End(r, "ok")
  /\ UNCHANGED <<holds, call, seen, context, found>>
Archive(r) ==
  /\ pc[r] = "holders" /\ call[r].kind = "archive" /\ found[r] \subseteq locked[r]
  /\ NextRow(call[r].role, "archived", role[call[r].role].keys)
  /\ holds' = [m \in Member |-> IF m \in found[r] THEN holds[m] \ {call[r].role} ELSE holds[m]]
  /\ member' = Raised(ActiveOf(found[r]))
  /\ End(r, "ok")
  /\ UNCHANGED <<call, seen, context, found>>
Assignable(x, m) ==   \* the trigger on tenant_custom_role_assignments
  role[x].status = "active" /\ member[m].status = "active"
Grant(r) ==
  /\ pc[r] = "write" /\ call[r].kind = "grant"
  /\ Assignable(call[r].role, call[r].target)
  /\ holds' = [holds EXCEPT ![call[r].target] = @ \union {call[r].role}]
  /\ member' = Raised({call[r].target})
  /\ End(r, "ok")
  /\ UNCHANGED <<role, call, seen, context, found>>
Revoke(r) ==
  /\ pc[r] = "write" /\ call[r].kind = "revoke"
  /\ holds' = [holds EXCEPT ![call[r].target] = @ \ {call[r].role}]
  /\ member' = Raised({call[r].target})
  /\ End(r, "ok")
  /\ UNCHANGED <<role, call, seen, context, found>>

NameConflict(r) ==    \* the unique index on the names of active roles
  /\ pc[r] = "write" /\ call[r].kind \in {"create", "update"}
  /\ Stop(r, "conflict")
Fail(r) ==            \* deadlock victim, timeout or lost connection
  /\ pc[r] = "enter" \/ Started(r)
  /\ Stop(r, "failed")

(* From TenantOwnership: an owner is demoted while another remains, a      *)
(* member suspended.                                                       *)
Demote(m) ==
  /\ member[m].status = "active" /\ member[m].owner
  /\ \E n \in Member \ {m} : member[n].status = "active" /\ member[n].owner
  /\ \A q \in Request : m \notin locked[q] /\ (Started(q) => call[q].actor # m)
  /\ member' = [member EXCEPT ![m].owner = FALSE, ![m].version = @ + 1]
  /\ UNCHANGED <<role, holds, pc, memory>>
Suspend(m) ==
  /\ member[m].status = "active" /\ ~member[m].owner
  /\ \A q \in Request : m \notin locked[q] /\ (Started(q) => call[q].actor # m)
  /\ member' = [member EXCEPT ![m].status = "suspended", ![m].version = @ + 1]
  /\ UNCHANGED <<role, holds, pc, memory>>

Next ==
  \/ \E r \in Request :
       \/ LookAtRow(r) \/ LookAtKeys(r) \/ Guard(r) \/ Enter(r) \/ Recheck(r)
       \/ LockRole(r) \/ ListHolders(r) \/ LockHolder(r) \/ LockTarget(r)
       \/ Create(r) \/ Update(r) \/ Replace(r) \/ Archive(r) \/ Grant(r) \/ Revoke(r)
       \/ NameConflict(r) \/ Fail(r)
  \/ \E m \in Member : Demote(m) \/ Suspend(m)
Spec == Init /\ [][Next]_vars
=============================================================================
