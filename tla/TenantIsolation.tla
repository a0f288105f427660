-------------------------- MODULE TenantIsolation ---------------------------
(***************************************************************************)
(* What keeps the rows of tenants apart in the booking-os database.  A     *)
(* tenant data session is a transaction on a pooled connection that takes  *)
(* the role of the application and names its tenant, both until it ends;   *)
(* PostgreSQL's row-level security does the rest, whatever the queries.    *)
(* A verifier reads the catalog of a table after migrations and says what  *)
(* is wrong with it.                                                       *)
(***************************************************************************)
EXTENDS Naturals

CONSTANTS
  Tenant,
  Request,
  Connection,      \* of the pool
  Required,        \* the privileges the manifest names for the table
  MaxMigrations    \* bound: changes of the catalog

NoTenant == "nobody"      \* tenant_id is null, app.tenant_id is not set
None == "none"
Privilege == {"SELECT", "INSERT", "UPDATE", "DELETE", "TRUNCATE"}
\* The row's tenant is the session's, anything goes, or nothing is said.
Expression == {"tenant", "any", "unset"}
Policy == [to : {"app", "public", "platform"}, using : Expression, check : Expression]

VARIABLES
  catalog,      \* of one table and the application's role
  migrations,   \* their number
  accepted,     \* the verifier has seen this catalog and found nothing
  connection,   \* the role and the app.tenant_id of each connection
  pc, of, on,   \* each request: its tenant and its connection
  checked,      \* it carries an authority that is checked again
  touched       \* history: whose rows it read or wrote on an accepted catalog

vars == <<catalog, migrations, accepted, connection, pc, of, on, checked, touched>>
work == <<connection, pc, of, on, checked, touched>>

Fresh == [role |-> "login", tenant |-> NoTenant]
Isolating == [to |-> "app", using |-> "tenant", check |-> "tenant"]

Init ==
  /\ catalog = [enabled |-> TRUE, forced |-> TRUE, ownedByApp |-> FALSE, asDeclared |-> TRUE,
                policies |-> {Isolating}, granted |-> Required, public |-> {},
                superuser |-> FALSE, bypass |-> FALSE, member |-> FALSE]
  /\ migrations = 0 /\ accepted = FALSE
  /\ connection = [c \in Connection |-> Fresh]
  /\ pc = [r \in Request |-> "idle"] /\ of = [r \in Request |-> NoTenant]
  /\ on = [r \in Request |-> None] /\ checked = [r \in Request |-> FALSE]
  /\ touched = [r \in Request |-> {}]
-----------------------------------------------------------------------------
(* The verifier.                                                           *)

Enforces(e) == e = "tenant"
Applies(p) == p.to \in {"app", "public"}
Complete(p) == Enforces(p.using) /\ Enforces(p.check)

TableFails == ~catalog.enabled \/ ~catalog.forced \/ catalog.ownedByApp \/ ~catalog.asDeclared
\* Faulty variant: one policy that isolates is enough.
PolicyFailsUnlessOneIsolates == ~\E p \in catalog.policies : Applies(p) /\ Complete(p)

PolicyFails ==
  LET applicable == {p \in catalog.policies : Applies(p)} IN
  applicable = {} \/ \E p \in applicable : ~Complete(p)
GrantFails == catalog.public # {} \/ catalog.granted # Required
RoleFails == catalog.superuser \/ catalog.bypass \/ catalog.member

Verify ==
  /\ accepted' = ~(TableFails \/ PolicyFails \/ GrantFails \/ RoleFails)
  /\ UNCHANGED <<catalog, migrations, work>>
-----------------------------------------------------------------------------
(* Migrations, one change at a time.                                       *)

Migrate ==
  /\ migrations < MaxMigrations /\ migrations' = migrations + 1 /\ accepted' = FALSE
  /\ \/ \E f \in {"enabled", "forced", "ownedByApp", "asDeclared", "superuser", "bypass", "member"} :
          catalog' = [catalog EXCEPT ![f] = ~@]
     \/ \E p \in Policy :
          /\ p.using # "unset" \/ p.check # "unset"
          /\ catalog' = [catalog EXCEPT !.policies = IF p \in @ THEN @ \ {p} ELSE @ \union {p}]
     \/ \E v \in Privilege, f \in {"granted", "public"} :
          catalog' = [catalog EXCEPT ![f] = IF v \in @ THEN @ \ {v} ELSE @ \union {v}]
  /\ UNCHANGED work
-----------------------------------------------------------------------------
(* PostgreSQL: whose rows a command reaches in a session.                  *)

Everybody == Tenant \union {NoTenant}
Exempt ==
  \/ catalog.superuser \/ catalog.bypass \/ ~catalog.enabled
  \/ (catalog.ownedByApp \/ catalog.member) /\ ~catalog.forced
Passes(e, owner, session) ==
  e = "any" \/ (e = "tenant" /\ owner = session.tenant /\ owner # NoTenant)
Rows(session, field) ==
  {o \in Everybody : \E p \in catalog.policies :
     /\ Applies(p)
     /\ Passes(IF field = "check" /\ p.check = "unset" THEN p.using ELSE p[field], o, session)}
May(command) ==
  \/ command \in catalog.granted \union catalog.public
  \/ catalog.superuser \/ catalog.ownedByApp \/ catalog.member
Reached(session, command) ==
  CASE command = "TRUNCATE" \/ Exempt    -> Everybody
    [] command \in {"SELECT", "DELETE"} /\ ~Exempt -> Rows(session, "using")
    [] command = "INSERT" /\ ~Exempt     -> Rows(session, "check")
    [] command = "UPDATE" /\ ~Exempt     -> Rows(session, "using") \union Rows(session, "check")
-----------------------------------------------------------------------------
(* The tenant data session.                                                *)

Go(r, label) == pc' = [pc EXCEPT ![r] = label]
Touch(r, command) ==
  /\ May(command)
  /\ touched' = IF accepted
                  THEN [touched EXCEPT ![r] = @ \union Reached(connection[on[r]], command)]
                  ELSE touched
Begin(r, c, t) ==
  /\ pc[r] = "idle" /\ \A q \in Request : on[q] # c
  /\ \E authorized \in BOOLEAN :
       Go(r, IF authorized THEN "user" ELSE "role") /\ checked' = [checked EXCEPT ![r] = authorized]
  /\ of' = [of EXCEPT ![r] = t] /\ on' = [on EXCEPT ![r] = c]
  /\ UNCHANGED <<catalog, migrations, accepted, connection, touched>>
LockUser(r) ==     \* users is no table of tenants
  /\ pc[r] = "user" /\ Go(r, "role")
  /\ UNCHANGED <<catalog, migrations, accepted, connection, of, on, checked, touched>>
SetRole(r) ==
  /\ pc[r] = "role" /\ Go(r, "tenant")
  /\ connection' = [connection EXCEPT ![on[r]].role = "app"]
  /\ UNCHANGED <<catalog, migrations, accepted, of, on, checked, touched>>
SetTenant(r) ==
  /\ pc[r] = "tenant" /\ Go(r, IF checked[r] THEN "member" ELSE "work")
  /\ connection' = [connection EXCEPT ![on[r]].tenant = of[r]]
  /\ UNCHANGED <<catalog, migrations, accepted, of, on, checked, touched>>
CheckAuthority(r) ==     \* its membership, then roles and permissions
  /\ pc[r] = "member" /\ Go(r, "work") /\ Touch(r, "SELECT")
  /\ UNCHANGED <<catalog, migrations, accepted, connection, of, on, checked>>
Work(r) ==               \* any command, with or without a condition on the tenant
  /\ pc[r] = "work" /\ \E v \in Privilege : Touch(r, v)
  /\ UNCHANGED <<catalog, migrations, accepted, connection, pc, of, on, checked>>
\* Commit, or roll back wherever an error strikes: a query, a stale
\* authority, or a session for another tenant asked for inside this one.
End(r) ==
  /\ pc[r] # "idle" /\ Go(r, "idle")
  /\ connection' = [connection EXCEPT ![on[r]] = Fresh]
  /\ on' = [on EXCEPT ![r] = None] /\ of' = [of EXCEPT ![r] = NoTenant]
  /\ checked' = [checked EXCEPT ![r] = FALSE] /\ touched' = [touched EXCEPT ![r] = {}]
  /\ UNCHANGED <<catalog, migrations, accepted>>

Next ==
  \/ Verify \/ Migrate
  \/ \E r \in Request :
       \/ \E c \in Connection, t \in Tenant : Begin(r, c, t)
       \/ LockUser(r) \/ SetRole(r) \/ SetTenant(r) \/ CheckAuthority(r) \/ Work(r) \/ End(r)

Spec == Init /\ [][Next]_vars
-----------------------------------------------------------------------------
(* Variables have their types, and a connection serves one request.        *)
TypeOK ==
  /\ catalog.policies \subseteq Policy
  /\ catalog.granted \subseteq Privilege /\ catalog.public \subseteq Privilege
  /\ migrations \in 0 .. MaxMigrations /\ accepted \in BOOLEAN
  /\ connection \in [Connection -> [role : {"login", "app"}, tenant : Everybody]]
  /\ pc \in [Request -> {"idle", "user", "role", "tenant", "member", "work"}]
  /\ of \in [Request -> Everybody] /\ on \in [Request -> Connection \union {None}]
  /\ checked \in [Request -> BOOLEAN] /\ touched \in [Request -> SUBSET Everybody]
  /\ \A r, q \in Request : r # q /\ on[r] = on[q] => on[r] = None

(* However a migration changed policies, privileges and roles: when the    *)
(* verifier finds nothing, a tenant data session reads and writes rows of  *)
(* its own tenant only, even with queries that forget the tenant, and on   *)
(* connections that served another one before.                             *)
AcceptedCatalogIsolates == \A r \in Request : touched[r] \subseteq {of[r]}
=============================================================================
