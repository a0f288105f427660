----------------------------- MODULE EntryProofs -----------------------------
(***************************************************************************)
(* Proofs about four of the modules that MCEntry runs side by side: the    *)
(* expiry of a session at rest (L), the console's pages (J), the           *)
(* platform's first administrator (B) and the isolation of tenants (I).    *)
(* They hold for every set of requests, tabs, operators, deployments,      *)
(* addresses, tenants and connections, and for every interval.             *)
(***************************************************************************)
EXTENDS MCEntry, TLAPS

\* A step of the instance is a step of one of its modules.
LEMMA EachItsOwn ==
  ASSUME [EntryNext]_<<part, vars, lifetime, journey, bootstrap, isolation>>
  PROVE  [L!Next]_lifetime /\ [J!Next]_journey /\ [B!Next]_bootstrap /\ [I!Next]_isolation
BY DEF EntryNext

-----------------------------------------------------------------------------
(* TenantIsolation. *)

Catalogs ==
  [enabled : BOOLEAN, forced : BOOLEAN, ownedByApp : BOOLEAN, asDeclared : BOOLEAN,
   policies : SUBSET I!Policy, granted : SUBSET I!Privilege, public : SUBSET I!Privilege,
   superuser : BOOLEAN, bypass : BOOLEAN, member : BOOLEAN]
IsolationTypes ==
  /\ catalog \in Catalogs
  /\ accepted \in BOOLEAN
  /\ connection \in [Connection -> [role : {"login", "app"}, tenant : I!Everybody]]
  /\ queryPc \in [Query -> {"idle", "user", "role", "tenant", "member", "work"}]
  /\ of \in [Query -> I!Everybody] /\ on \in [Query -> Connection \union {I!None}]
  /\ checked \in [Query -> BOOLEAN] /\ touched \in [Query -> SUBSET I!Everybody]

\* What the verifier accepted is still so.
Sound == accepted => ~(I!TableFails \/ I!PolicyFails \/ I!GrantFails \/ I!RoleFails)

\* A session has a connection of its own.
OwnConnection ==
  /\ \A r \in Query : queryPc[r] # "idle" <=> on[r] \in Connection
  /\ \A r, q \in Query : r # q /\ on[r] = on[q] => on[r] = I!None

\* It names its tenant before its first command.
Named ==
  \A r \in Query : /\ queryPc[r] = "idle" => touched[r] = {}
                   /\ queryPc[r] \in {"member", "work"} => connection[on[r]].tenant = of[r]

IsolationInv ==
  IsolationTypes /\ Sound /\ OwnConnection /\ Named /\ AcceptedCatalogIsolates

LEMMA IsolationStarts == I!Init => IsolationInv
<1> SUFFICES ASSUME I!Init PROVE IsolationInv
  OBVIOUS
<1> USE EntryAssumption DEF I!Init
<1>1. IsolationTypes
  <2>1. {I!Isolating} \in SUBSET I!Policy /\ Required \in SUBSET I!Privilege
    BY DEF I!Isolating, I!Policy, I!Expression, I!Privilege
  <2>2. I!Fresh \in [role : {"login", "app"}, tenant : I!Everybody] /\ I!NoTenant \in I!Everybody
    BY DEF I!Fresh, I!Everybody
  <2> QED
    BY <2>1, <2>2 DEF IsolationTypes, Catalogs
<1>2. Sound /\ OwnConnection /\ Named /\ AcceptedCatalogIsolates
  BY DEF Sound, OwnConnection, Named, AcceptedCatalogIsolates, I!AcceptedCatalogIsolates
<1> QED
  BY <1>1, <1>2 DEF IsolationInv

\* The heart of it: on a catalog without failures a command reaches the rows
\* of the session's tenant only.
LEMMA ReachesItsOwn ==
  ASSUME IsolationTypes, Sound, accepted = TRUE,
         NEW session, NEW command \in I!Privilege, I!May(command)
  PROVE  I!Reached(session, command) \subseteq {session.tenant}
<1>1. ~I!TableFails /\ ~I!PolicyFails /\ ~I!GrantFails /\ ~I!RoleFails
  BY DEF Sound
<1>2. ~I!Exempt
  BY <1>1 DEF I!TableFails, I!RoleFails, I!Exempt, IsolationTypes, Catalogs
<1>3. command \in {"SELECT", "INSERT", "UPDATE", "DELETE"}
  BY <1>1, EntryAssumption DEF I!TableFails, I!GrantFails, I!RoleFails, I!May, IsolationTypes, Catalogs
<1>4. \A p \in catalog.policies : I!Applies(p) => p.using = "tenant" /\ p.check = "tenant"
  BY <1>1 DEF I!PolicyFails, I!Complete, I!Enforces
<1>5. \A field \in {"using", "check"} : I!Rows(session, field) \subseteq {session.tenant}
  <2>1. SUFFICES ASSUME NEW field \in {"using", "check"}, NEW p \in catalog.policies, NEW o,
                        I!Applies(p),
                        I!Passes(IF field = "check" /\ p.check = "unset" THEN p.using ELSE p[field],
                                 o, session)
                 PROVE  o = session.tenant
    BY DEF I!Rows
  <2>2. (IF field = "check" /\ p.check = "unset" THEN p.using ELSE p[field]) = "tenant"
    BY <2>1, <1>4
  <2> QED
    BY <2>1, <2>2 DEF I!Passes
<1> QED
  BY <1>2, <1>3, <1>5 DEF I!Reached

LEMMA VerifyStep == ASSUME IsolationInv, I!Verify PROVE IsolationInv'
BY DEF IsolationInv, I!Verify, I!work, IsolationTypes, Sound, OwnConnection, Named,
       AcceptedCatalogIsolates, I!AcceptedCatalogIsolates, I!TableFails, I!PolicyFails,
       I!GrantFails, I!RoleFails

LEMMA MigrateStep == ASSUME IsolationInv, I!Migrate PROVE IsolationInv'
<1> USE DEF IsolationInv, I!Migrate, I!work
<1>1. catalog' \in Catalogs
  <2>0. catalog \in Catalogs
    BY DEF IsolationTypes
  <2>1. ASSUME NEW f \in {"enabled", "forced", "ownedByApp", "asDeclared", "superuser", "bypass", "member"},
               catalog' = [catalog EXCEPT ![f] = ~@]
        PROVE  catalog' \in Catalogs
    BY ONLY <2>0, <2>1 DEF Catalogs
  <2>2. ASSUME NEW p \in I!Policy,
               catalog' = [catalog EXCEPT !.policies = IF p \in @ THEN @ \ {p} ELSE @ \union {p}]
        PROVE  catalog' \in Catalogs
    BY ONLY <2>0, <2>2 DEF Catalogs
  <2>3. ASSUME NEW v \in I!Privilege, NEW f \in {"granted", "public"},
               catalog' = [catalog EXCEPT ![f] = IF v \in @ THEN @ \ {v} ELSE @ \union {v}]
        PROVE  catalog' \in Catalogs
    BY ONLY <2>0, <2>3 DEF Catalogs
  <2> QED
    BY <2>1, <2>2, <2>3
<1>2. IsolationTypes'
  BY <1>1 DEF IsolationTypes
<1>3. Sound' /\ OwnConnection' /\ Named' /\ AcceptedCatalogIsolates'
  BY DEF Sound, OwnConnection, Named, AcceptedCatalogIsolates, I!AcceptedCatalogIsolates
<1> QED
  BY <1>2, <1>3

\* A command adds rows of the session's tenant.
LEMMA TouchesItsOwn ==
  ASSUME IsolationInv, NEW r \in Query, queryPc[r] \in {"member", "work"},
         NEW v \in I!Privilege, I!Touch(r, v)
  PROVE  /\ touched' \in [Query -> SUBSET I!Everybody]
         /\ \A q \in Query : /\ touched'[q] \subseteq {of[q]}
                             /\ q # r => touched'[q] = touched[q]
<1> USE DEF IsolationInv, I!Touch
<1>1. CASE accepted = TRUE
  <2>1. I!Reached(connection[on[r]], v) \subseteq {of[r]}
    BY <1>1, ReachesItsOwn DEF Named
  <2>2. of[r] \in I!Everybody
    BY DEF IsolationTypes
  <2>3. touched' = [touched EXCEPT ![r] = @ \union I!Reached(connection[on[r]], v)]
    BY <1>1
  <2> HIDE DEF I!Touch
  <2> QED
    BY <2>1, <2>2, <2>3 DEF IsolationTypes, AcceptedCatalogIsolates, I!AcceptedCatalogIsolates
<1>2. CASE accepted # TRUE
  BY <1>2 DEF IsolationTypes, AcceptedCatalogIsolates, I!AcceptedCatalogIsolates
<1> QED
  BY <1>1, <1>2

\* The steps of a session leave the catalog alone.
LEMMA SessionSteps ==
  ASSUME IsolationInv, NEW r \in Query, UNCHANGED <<catalog, accepted>>,
         \/ \E c \in Connection, t \in Tenant : I!Begin(r, c, t)
         \/ I!LockUser(r) \/ I!SetRole(r) \/ I!SetTenant(r) \/ I!CheckAuthority(r)
         \/ I!Work(r) \/ I!End(r)
  PROVE  IsolationTypes' /\ OwnConnection' /\ Named' /\ AcceptedCatalogIsolates'
<1> USE EntryAssumption DEF I!Go
<1> DEFINE Rest == IsolationTypes' /\ OwnConnection' /\ Named' /\ AcceptedCatalogIsolates'
<1>0. r \in Query /\ queryPc[r] # "idle" => on[r] \in Connection
  BY DEF IsolationInv, OwnConnection
<1>1. ASSUME NEW c \in Connection, NEW t \in Tenant, I!Begin(r, c, t) PROVE Rest
  <2>1. IsolationTypes'
    BY <1>1 DEF IsolationInv, I!Begin, IsolationTypes, I!Everybody
  <2>2. OwnConnection'
    BY <1>1 DEF IsolationInv, I!Begin, IsolationTypes, OwnConnection
  <2>3. Named'
    BY <1>1 DEF IsolationInv, I!Begin, IsolationTypes, OwnConnection, Named
  <2>4. AcceptedCatalogIsolates'
    BY <1>1 DEF IsolationInv, I!Begin, IsolationTypes, Named, AcceptedCatalogIsolates,
                I!AcceptedCatalogIsolates
  <2> QED
    BY <2>1, <2>2, <2>3, <2>4
<1>2. CASE I!LockUser(r)
  BY <1>2 DEF IsolationInv, I!LockUser, IsolationTypes, OwnConnection, Named,
              AcceptedCatalogIsolates, I!AcceptedCatalogIsolates
<1>3. CASE I!SetRole(r)
  <2>1. IsolationTypes'
    BY <1>0, <1>3 DEF IsolationInv, I!SetRole, IsolationTypes
  <2>2. OwnConnection' /\ Named' /\ AcceptedCatalogIsolates'
    BY <1>0, <1>3 DEF IsolationInv, I!SetRole, IsolationTypes, OwnConnection, Named,
                      AcceptedCatalogIsolates, I!AcceptedCatalogIsolates
  <2> QED
    BY <2>1, <2>2
<1>4. CASE I!SetTenant(r)
  <2>1. IsolationTypes'
    BY <1>0, <1>4 DEF IsolationInv, I!SetTenant, IsolationTypes
  <2>2. OwnConnection' /\ Named' /\ AcceptedCatalogIsolates'
    BY <1>0, <1>4 DEF IsolationInv, I!SetTenant, IsolationTypes, OwnConnection, Named,
                      AcceptedCatalogIsolates, I!AcceptedCatalogIsolates
  <2> QED
    BY <2>1, <2>2
<1>5. CASE I!CheckAuthority(r) \/ I!Work(r)
  <2>1. /\ touched' \in [Query -> SUBSET I!Everybody]
        /\ \A q \in Query : /\ touched'[q] \subseteq {of[q]}
                            /\ q # r => touched'[q] = touched[q]
    BY <1>5, TouchesItsOwn DEF I!CheckAuthority, I!Work, I!Privilege
  <2>2. queryPc[r] \in {"member", "work"} /\ UNCHANGED <<connection, of, on, checked>>
        /\ queryPc' \in {queryPc, [queryPc EXCEPT ![r] = "work"]}
    BY <1>5 DEF I!CheckAuthority, I!Work
  <2>3. /\ queryPc' \in [Query -> {"idle", "user", "role", "tenant", "member", "work"}]
        /\ \A q \in Query : queryPc'[q] = queryPc[q] \/ (q = r /\ queryPc'[q] = "work")
    BY <2>2 DEF IsolationInv, IsolationTypes
  <2>4. IsolationTypes'
    BY <2>1, <2>2, <2>3 DEF IsolationInv, IsolationTypes
  <2>5. OwnConnection'
    BY <2>2, <2>3 DEF IsolationInv, OwnConnection
  <2>6. Named'
    <3>1. /\ \A q \in Query : connection'[on'[q]].tenant = connection[on[q]].tenant /\ of'[q] = of[q]
          /\ queryPc[r] \in {"member", "work"}
      BY <2>2
    <3>2. Named
      BY DEF IsolationInv
    <3> QED
      BY ONLY <2>1, <2>3, <3>1, <3>2, r \in Query DEF Named
  <2>7. AcceptedCatalogIsolates'
    BY <2>1, <2>2 DEF AcceptedCatalogIsolates, I!AcceptedCatalogIsolates
  <2> QED
    BY <2>4, <2>5, <2>6, <2>7
<1>6. CASE I!End(r)
  <2>1. IsolationTypes'
    BY <1>0, <1>6 DEF IsolationInv, I!End, IsolationTypes, I!Fresh, I!Everybody
  <2>2. OwnConnection' /\ AcceptedCatalogIsolates'
    BY <1>0, <1>6 DEF IsolationInv, I!End, IsolationTypes, OwnConnection,
                      AcceptedCatalogIsolates, I!AcceptedCatalogIsolates
  <2>3. Named'
    BY <1>0, <1>6 DEF IsolationInv, I!End, IsolationTypes, OwnConnection, Named
  <2> QED
    BY <2>1, <2>2, <2>3
<1> QED
  BY <1>1, <1>2, <1>3, <1>4, <1>5, <1>6

LEMMA IsolationSteps == IsolationInv /\ [I!Next]_isolation => IsolationInv'
<1> SUFFICES ASSUME IsolationInv, [I!Next]_isolation PROVE IsolationInv'
  OBVIOUS
<1>1. CASE I!Verify \/ I!Migrate
  BY <1>1, VerifyStep, MigrateStep
<1>2. ASSUME NEW r \in Query,
             \/ \E c \in Connection, t \in Tenant : I!Begin(r, c, t)
             \/ I!LockUser(r) \/ I!SetRole(r) \/ I!SetTenant(r) \/ I!CheckAuthority(r)
             \/ I!Work(r) \/ I!End(r)
      PROVE  IsolationInv'
  <2>1. UNCHANGED <<catalog, accepted>>
    BY <1>2 DEF I!Begin, I!LockUser, I!SetRole, I!SetTenant, I!CheckAuthority, I!Work, I!End
  <2>2. IsolationTypes' /\ OwnConnection' /\ Named' /\ AcceptedCatalogIsolates'
    BY <1>2, <2>1, SessionSteps
  <2>3. Sound'
    BY <2>1 DEF IsolationInv, Sound, I!TableFails, I!PolicyFails, I!GrantFails, I!RoleFails
  <2> QED
    BY <2>2, <2>3 DEF IsolationInv
<1>3. CASE UNCHANGED isolation
  BY <1>3 DEF isolation, IsolationInv, IsolationTypes, Sound, OwnConnection, Named,
              AcceptedCatalogIsolates, I!AcceptedCatalogIsolates, I!TableFails, I!PolicyFails,
              I!GrantFails, I!RoleFails
<1> QED
  BY <1>1, <1>2, <1>3 DEF I!Next

(* Whatever the catalog has become by migrations, and however its          *)
(* connections were used before: when the verifier finds nothing, a tenant *)
(* data session reads and writes rows of its own tenant only.              *)
THEOREM CatalogIsolates == EntrySpec => []AcceptedCatalogIsolates
<1>1. EntryInit => IsolationInv
  BY IsolationStarts DEF EntryInit
<1>2. IsolationInv /\ [EntryNext]_<<part, vars, lifetime, journey, bootstrap, isolation>>
        => IsolationInv'
  BY EachItsOwn, IsolationSteps
<1>3. IsolationInv => AcceptedCatalogIsolates
  BY DEF IsolationInv
<1> QED
  BY <1>1, <1>2, <1>3, PTL DEF EntrySpec

-----------------------------------------------------------------------------
(* PlatformBootstrap. *)

Statuses == {"none", "pending", "active"}
BootstrapTypes ==
  /\ role \in BOOLEAN /\ granted \in BOOLEAN
  /\ user \in [Email -> Statuses] /\ admin \subseteq Email
  /\ first \in [Email -> [Host -> {"none", "live", "expired", "used"}]]
  /\ bootPc \in [Operator -> {"idle", "lock", "assignment", "role", "user", "write"}]
  /\ email \in [Operator -> Email \union {B!NoEmail}]
  /\ host \in [Operator -> Host \union {B!NoEmail}]
  /\ saw \in [Operator -> Statuses]
  /\ seedPc \in [Seeder -> {"role", "clear", "grant", "done", "failed", "broken"}]

\* The advisory lock is one operator's, and he knows whom he appoints.
OneRuns ==
  /\ \A o, q \in Operator : B!Running(o) /\ B!Running(q) => o = q
  /\ \A o \in Operator : bootPc[o] # "idle" => email[o] \in Email /\ host[o] \in Host

\* What a bootstrap found is still so, or has gone on; nobody is appointed
\* while it runs, and the role it found stays.
Found ==
  \A o \in Operator :
    /\ bootPc[o] \in {"role", "user", "write"} => admin = {}
    /\ bootPc[o] \in {"user", "write"} => role = TRUE
    /\ bootPc[o] = "write" => /\ saw[o] = "active" => user[email[o]] = "active"
                              /\ saw[o] = "pending" => user[email[o]] # "none"

\* There is one administrator, and a link for him if he needs one, which
\* nothing but its use and its end takes away.
Appointed ==
  /\ \A d, e \in admin : d = e
  /\ \A e \in admin : /\ user[e] # "none"
                      /\ user[e] = "pending" => \E h \in Host : first[e][h] \in {"live", "expired"}
  /\ admin # {} => role = TRUE

\* The role has its permissions, but for a seed that writes them.
Entitled ==
  role = TRUE => granted = TRUE \/ \E s \in Seeder : seedPc[s] \in {"clear", "grant", "broken"}

BootstrapInv == BootstrapTypes /\ OneRuns /\ Found /\ Appointed /\ Entitled

LEMMA BootstrapStarts == B!Init => BootstrapInv
<1> SUFFICES ASSUME B!Init PROVE BootstrapInv
  OBVIOUS
<1> USE DEF B!Init
<1>1. first \in [Email -> [Host -> {"none", "live", "expired", "used"}]]
  OBVIOUS
<1>2. BootstrapTypes
  BY <1>1 DEF BootstrapTypes, Statuses
<1>3. OneRuns /\ Found /\ Appointed /\ Entitled
  BY DEF OneRuns, Found, Appointed, Entitled, B!Running
<1> QED
  BY <1>2, <1>3 DEF BootstrapInv

\* A seed touches the role and its permissions only.
LEMMA SeedSteps ==
  ASSUME BootstrapInv, NEW s \in Seeder,
         B!SeedRole(s) \/ B!ClearPermissions(s) \/ B!GrantPermissions(s) \/ B!SeedBreaks(s)
  PROVE  BootstrapInv'
<1> USE DEF B!SeedRole, B!ClearPermissions, B!GrantPermissions, B!SeedBreaks, B!run
<1>1. BootstrapTypes'
  BY DEF BootstrapInv, BootstrapTypes
<1>2. OneRuns'
  BY DEF BootstrapInv, OneRuns, B!Running
<1>3. Found' /\ Appointed'
  BY DEF BootstrapInv, BootstrapTypes, Found, Appointed
<1>4. Entitled'
  BY DEF BootstrapInv, BootstrapTypes, Entitled
<1> QED
  BY <1>1, <1>2, <1>3, <1>4 DEF BootstrapInv

\* Of the bootstrap's steps, the last one writes.
LEMMA BootstrapReads ==
  ASSUME BootstrapInv, NEW o \in Operator,
         B!Start(o) \/ B!Lock(o) \/ B!FindAssignment(o) \/ B!FindRole(o) \/ B!FindUser(o) \/ B!Fail(o)
  PROVE  BootstrapInv'
<1> USE DEF B!Start, B!Lock, B!FindAssignment, B!FindRole, B!FindUser, B!Fail, B!Go
<1>1. BootstrapTypes'
  <2>1. UNCHANGED <<role, granted, user, admin, first, seedPc>>
    OBVIOUS
  <2>2. bootPc' \in [Operator -> {"idle", "lock", "assignment", "role", "user", "write"}]
    BY DEF BootstrapInv, BootstrapTypes
  <2>3. /\ email' \in [Operator -> Email \union {B!NoEmail}]
        /\ host' \in [Operator -> Host \union {B!NoEmail}]
    BY DEF BootstrapInv, BootstrapTypes
  <2>4. saw' \in [Operator -> Statuses]
    BY DEF BootstrapInv, BootstrapTypes, OneRuns
  <2> QED
    BY <2>1, <2>2, <2>3, <2>4 DEF BootstrapInv, BootstrapTypes
<1>2. OneRuns'
  <2> USE DEF BootstrapInv, BootstrapTypes, OneRuns, B!Running
  <2>1. CASE B!Start(o)
    BY <2>1
  <2>2. CASE B!Lock(o)
    BY <2>2
  <2>3. CASE B!FindAssignment(o) \/ B!FindRole(o)
    BY <2>3
  <2>4. CASE B!FindUser(o) \/ B!Fail(o)
    BY <2>4
  <2> QED
    BY <2>1, <2>2, <2>3, <2>4
<1>3. Found'
  <2> USE DEF BootstrapInv, BootstrapTypes, OneRuns, Found, Statuses
  <2>1. CASE B!Start(o) \/ B!Lock(o)
    BY <2>1
  <2>2. CASE B!FindAssignment(o) \/ B!FindRole(o)
    BY <2>2
  <2>3. CASE B!FindUser(o) \/ B!Fail(o)
    BY <2>3
  <2> QED
    BY <2>1, <2>2, <2>3
<1>4. Appointed' /\ Entitled'
  BY DEF BootstrapInv, Appointed, Entitled
<1> QED
  BY <1>1, <1>2, <1>3, <1>4 DEF BootstrapInv

LEMMA CreateStep ==
  ASSUME BootstrapInv, NEW o \in Operator, B!Create(o)
  PROVE  BootstrapInv'
<1> DEFINE e == email[o]
           h == host[o]
<1> USE DEF B!Create, B!Go
<1>1. /\ e \in Email /\ h \in Host /\ admin = {} /\ role = TRUE
      /\ \A q \in Operator : B!Running(q) => q = o
  BY DEF BootstrapInv, OneRuns, Found, B!Running
<1>2. /\ user' \in [Email -> Statuses] /\ user'[e] # "none"
      /\ user'[e] = "pending" => saw[o] # "active"
      /\ \A d \in Email : user[d] # "none" => user'[d] = user[d]
  BY <1>1 DEF BootstrapInv, BootstrapTypes, Statuses, Found
<1>3. /\ first' \in [Email -> [Host -> {"none", "live", "expired", "used"}]]
      /\ saw[o] # "active" => first'[e][h] = "live"
  BY <1>1 DEF BootstrapInv, BootstrapTypes
<1>4. BootstrapTypes'
  BY <1>1, <1>2, <1>3 DEF BootstrapInv, BootstrapTypes
<1>5. OneRuns'
  BY DEF BootstrapInv, BootstrapTypes, OneRuns, B!Running
<1>6. Found'
  BY <1>1 DEF BootstrapInv, BootstrapTypes, Found, B!Running
<1>7. Appointed'
  BY <1>1, <1>2, <1>3 DEF Appointed
<1>8. Entitled'
  BY DEF BootstrapInv, Entitled
<1> QED
  BY <1>4, <1>5, <1>6, <1>7, <1>8 DEF BootstrapInv

\* Users come and advance.
LEMMA UserSteps ==
  ASSUME BootstrapInv, NEW e \in Email,
         \/ B!Provision(e) \/ B!UseInvitation(e)
         \/ \E h \in Host : B!Expire(e, h) \/ B!UseLink(e, h)
  PROVE  BootstrapInv'
<1> USE DEF B!Provision, B!UseInvitation, B!Expire, B!UseLink, B!run
<1>1. /\ user' \in [Email -> Statuses]
      /\ \A d \in Email : /\ user[d] # "none" => user'[d] # "none"
                          /\ user[d] = "active" => user'[d] = "active"
                          /\ user'[d] = "pending" => user[d] \in {"none", "pending"}
  BY DEF BootstrapInv, BootstrapTypes, Statuses
<1> DEFINE Kept == \A d \in Email, h \in Host : first[d][h] \in {"live", "expired"} /\ user'[d] = "pending"
                                                   => first'[d][h] \in {"live", "expired"}
<1>2. first' \in [Email -> [Host -> {"none", "live", "expired", "used"}]] /\ Kept
  <2>1. /\ first \in [Email -> [Host -> {"none", "live", "expired", "used"}]]
        /\ user \in [Email -> Statuses]
    BY DEF BootstrapInv, BootstrapTypes
  <2>2. \/ first' = first
        \/ \E h \in Host : \/ first' = [first EXCEPT ![e][h] = "expired"]
                            \/ /\ first' = [first EXCEPT ![e][h] = "used"]
                               /\ user' = [user EXCEPT ![e] = "active"]
    OBVIOUS
  <2>3. CASE first' = first
    BY ONLY <2>1, <2>3
  <2>4. ASSUME NEW h \in Host, first' = [first EXCEPT ![e][h] = "expired"]
        PROVE  first' \in [Email -> [Host -> {"none", "live", "expired", "used"}]] /\ Kept
    BY ONLY <2>1, <2>4, e \in Email
  <2>5. ASSUME NEW h \in Host, first' = [first EXCEPT ![e][h] = "used"],
               user' = [user EXCEPT ![e] = "active"]
        PROVE  first' \in [Email -> [Host -> {"none", "live", "expired", "used"}]] /\ Kept
    BY ONLY <2>1, <2>5, e \in Email
  <2> QED
    BY <2>2, <2>3, <2>4, <2>5
<1>3. UNCHANGED <<role, granted, admin, bootPc, email, host, saw, seedPc>>
  OBVIOUS
<1> HIDE DEF B!Provision, B!UseInvitation, B!Expire, B!UseLink
<1>4. BootstrapTypes'
  BY <1>1, <1>2, <1>3 DEF BootstrapInv, BootstrapTypes
<1>5. OneRuns' /\ Entitled'
  BY <1>3 DEF BootstrapInv, OneRuns, Entitled, B!Running
<1>6. Found'
  BY <1>1, <1>3 DEF BootstrapInv, OneRuns, Found
<1>7. Appointed'
  BY <1>1, <1>2, <1>3 DEF BootstrapInv, BootstrapTypes, Appointed
<1> QED
  BY <1>4, <1>5, <1>6, <1>7 DEF BootstrapInv

LEMMA BootstrapSteps == BootstrapInv /\ [B!Next]_bootstrap => BootstrapInv'
<1> SUFFICES ASSUME BootstrapInv, [B!Next]_bootstrap PROVE BootstrapInv'
  OBVIOUS
<1>1. CASE B!Next
  BY <1>1, SeedSteps, BootstrapReads, CreateStep, UserSteps DEF B!Next, B!Step
<1>2. CASE UNCHANGED bootstrap
  BY <1>2 DEF bootstrap, BootstrapInv, BootstrapTypes, OneRuns, Found, Appointed, Entitled, B!Running
<1> QED
  BY <1>1, <1>2

\* Who is appointed gets no link any more: a bootstrap that goes on to
\* write found that nobody was.
LEMMA NoSecondLink ==
  ASSUME BootstrapInv, [B!Next]_bootstrap, NEW e \in admin, NEW h \in Host, first'[e][h] = "live"
  PROVE  first[e][h] = "live"
<1>1. e \in Email /\ first \in [Email -> [Host -> {"none", "live", "expired", "used"}]]
  BY DEF BootstrapInv, BootstrapTypes
<1>2. ASSUME NEW o \in Operator, B!Create(o) PROVE FALSE
  BY <1>2 DEF B!Create, BootstrapInv, Found
<1>3. \/ first' = first
      \/ \E d \in Email, g \in Host, to \in {"expired", "used"} : first' = [first EXCEPT ![d][g] = to]
  <2>1. ASSUME NEW o \in Operator, B!Start(o) \/ B!Fail(o) \/ B!Step(o) PROVE first' = first
    BY <1>2, <2>1 DEF B!Start, B!Fail, B!Step, B!Lock, B!FindAssignment, B!FindRole, B!FindUser
  <2>2. ASSUME NEW s \in Seeder,
               B!SeedRole(s) \/ B!ClearPermissions(s) \/ B!GrantPermissions(s) \/ B!SeedBreaks(s)
        PROVE  first' = first
    BY <2>2 DEF B!SeedRole, B!ClearPermissions, B!GrantPermissions, B!SeedBreaks
  <2>3. ASSUME NEW d \in Email, B!Provision(d) \/ B!UseInvitation(d) PROVE first' = first
    BY <2>3 DEF B!Provision, B!UseInvitation
  <2>4. ASSUME NEW d \in Email, NEW g \in Host, B!Expire(d, g) \/ B!UseLink(d, g)
        PROVE  \E to \in {"expired", "used"} : first' = [first EXCEPT ![d][g] = to]
    BY <2>4 DEF B!Expire, B!UseLink
  <2>5. CASE UNCHANGED bootstrap
    BY <2>5 DEF bootstrap
  <2> QED
    BY <2>1, <2>2, <2>3, <2>4, <2>5 DEF B!Next
<1> QED
  BY ONLY <1>1, <1>3, h \in Host, first'[e][h] = "live"

(* However often, by how many and with whichever addresses the command is  *)
(* run, and whenever deployments seed: there is one first administrator;   *)
(* until he is activated he holds a link that is live or has expired, and  *)
(* he is issued no other; and he has his permissions but for a seed that   *)
(* writes them or broke off.                                               *)
THEOREM OneLink == EntrySpec => OneAdministratorOneLink
<1>1. EntryInit => BootstrapInv
  BY BootstrapStarts DEF EntryInit
<1>2. BootstrapInv /\ [EntryNext]_<<part, vars, lifetime, journey, bootstrap, isolation>>
        => BootstrapInv'
  BY EachItsOwn, BootstrapSteps
<1> DEFINE A == /\ B!Administrator'
                /\ \A e \in admin, h \in Host : first'[e][h] = "live" => first[e][h] = "live"
<1>3. BootstrapInv /\ BootstrapInv' /\ [EntryNext]_<<part, vars, lifetime, journey, bootstrap, isolation>>
        => [A]_bootstrap
  <2> SUFFICES ASSUME BootstrapInv, BootstrapInv',
                      [EntryNext]_<<part, vars, lifetime, journey, bootstrap, isolation>>
               PROVE  A
    OBVIOUS
  <2>1. B!Administrator'
    BY DEF BootstrapInv, BootstrapTypes, Statuses, Appointed, Entitled, B!Administrator
  <2>2. [B!Next]_bootstrap
    BY EachItsOwn
  <2> QED
    BY <2>1, <2>2, NoSecondLink
<1>4. OneAdministratorOneLink <=> [][A]_bootstrap
  BY DEF OneAdministratorOneLink, B!OneAdministratorOneLink, B!vars, bootstrap
<1> HIDE DEF A
<1> QED
  BY <1>1, <1>2, <1>3, <1>4, PTL DEF EntrySpec

-----------------------------------------------------------------------------
(* SessionLifetime. *)

Touches == {"touch", "authority", "state"}
Calls == [pc : {"rest", "read", "judge", "touch", "accept"}, began : Nat, clock : Nat, row : Nat,
          written : SUBSET Touches, known : Nat]
LifeTypes ==
  /\ now \in Nat /\ alive \in BOOLEAN /\ idle \in Nat /\ seen \in Nat
  /\ invited \in {"no", "pending", "elevated"} /\ vouched \in BOOLEAN
  /\ used \in Nat /\ answered \in Nat
  /\ call \in [Visit -> Calls]

\* The end of a session provides for a use at the time t, but for the lag.
Provides(end, t, lag) == end >= Absolute \/ end + lag > t + Idle
\* What a request has on record that goes on to accept an invitation.
LagAccept == L!Later(Coalesce, MaxFlight + 1)

\* Until an elevation, the end of the session follows from when it was
\* seen; after it, it still provides for the uses that no touch is due for.
Record ==
  /\ used <= now /\ answered <= used /\ idle <= Absolute /\ idle <= used + Idle
  /\ Provides(idle, answered, L!LagElevated)
  /\ invited # "elevated" => /\ idle = L!Earlier(seen + Idle, Absolute) /\ vouched = TRUE
                             /\ Provides(idle, answered, L!Lag)
  /\ vouched = TRUE => Provides(idle, seen + Coalesce - 1, L!LagElevated)

\* What a request under way knows: its clock and the flight of the request
\* whose touch came in between bound what it may find.
Flight(c) ==
  /\ c.pc # "rest" => /\ c.began <= now /\ now <= c.began + MaxFlight
                      /\ "touch" \in c.written => Provides(idle, c.began, MaxFlight + 1)
                      /\ c.known <= answered
  /\ c.pc \in {"judge", "touch"} => /\ alive = TRUE \/ "state" \in c.written
                                    /\ c.written = {} => c.row = idle
  /\ c.pc = "judge" => /\ c.row <= used + Idle
                       /\ Provides(c.row, c.known, L!LagElevated)
                       /\ invited # "elevated" => Provides(c.row, c.known, L!Lag)
  /\ c.pc = "touch" => /\ c.began <= c.clock /\ c.clock <= used /\ c.clock < Absolute
                       /\ c.row <= c.clock + Idle
  /\ c.pc = "accept" /\ c.written \subseteq {"touch"} => Provides(idle, c.began, LagAccept)
Flights == \A r \in Visit : Flight(call[r])

LifeInv == LifeTypes /\ Record /\ Flights

LEMMA LagIs ==
  /\ L!Lag \in Nat /\ L!Lag >= Coalesce /\ L!Lag >= 2 * MaxFlight + 1
  /\ LagAccept \in Nat /\ LagAccept >= Coalesce /\ LagAccept >= MaxFlight + 1
  /\ L!LagElevated \in Nat /\ L!LagElevated >= L!Lag
  /\ L!LagElevated = LagAccept + MaxFlight + Coalesce - 1
BY EntryAssumption DEF L!Lag, L!LagElevated, LagAccept, L!Later

LEMMA LifeStarts == L!Init => LifeInv
<1> SUFFICES ASSUME L!Init PROVE LifeInv
  OBVIOUS
<1>1. L!AtRest \in Calls /\ L!AtRest.pc = "rest"
  BY DEF L!AtRest, Calls, Touches
<1>2. LifeTypes
  BY <1>1, EntryAssumption DEF L!Init, LifeTypes
<1>3. Record
  BY LagIs, EntryAssumption DEF L!Init, Record, Provides, L!Earlier
<1>4. Flights
  BY <1>1 DEF L!Init, Flights, Flight
<1> QED
  BY <1>2, <1>3, <1>4 DEF LifeInv

\* What a write of the row adds to the requests under way.
LEMMA WrittenIs ==
  ASSUME LifeInv, NEW q \in Visit, NEW kind_ \in Touches
  PROVE  LET c == L!Written(q, kind_) IN
         /\ c \in Calls /\ c.pc = call[q].pc /\ c.began = call[q].began /\ c.clock = call[q].clock
         /\ c.row = call[q].row /\ c.known = call[q].known
         /\ call[q].pc # "rest" => c.written = call[q].written \union {kind_}
<1> DEFINE e == call[q]
<1>1. e \in Calls
  BY DEF LifeInv, LifeTypes
<1>2. L!Written(q, kind_) = IF e.pc = "rest" THEN e ELSE [e EXCEPT !.written = @ \union {kind_}]
  BY DEF L!Written, L!At
<1> HIDE DEF e
<1>3. LET c == IF e.pc = "rest" THEN e ELSE [e EXCEPT !.written = @ \union {kind_}] IN
      /\ c \in Calls /\ c.pc = e.pc /\ c.began = e.began /\ c.clock = e.clock
      /\ c.row = e.row /\ c.known = e.known
      /\ e.pc # "rest" => c.written = e.written \union {kind_}
  BY <1>1 DEF Calls
<1> QED
  BY <1>2, <1>3 DEF e

\* The end of a session that is put off provides for what it did before.
LEMMA StillProvides ==
  ASSUME LifeInv, idle' \in Nat, idle' >= idle, NEW t \in Nat, NEW lag \in Nat, Provides(idle, t, lag)
  PROVE  Provides(idle', t, lag)
BY EntryAssumption DEF LifeInv, LifeTypes, Provides

\* A request that takes no step stays in flight whatever the others do, and
\* a write of the row leaves it its mark; a touch is at most a flight old.
LEMMA StaysInFlight ==
  ASSUME LifeInv, NEW q \in Visit, UNCHANGED now,
         idle' \in Nat, idle' >= idle, used' \in Nat, used' >= used, answered' \in Nat, answered' >= answered,
         invited' = invited \/ invited' = "elevated",
         \/ call'[q] = call[q] /\ UNCHANGED <<alive, idle>>
         \/ \E k \in Touches :
              /\ call'[q] = L!Written(q, k)
              /\ alive' = alive \/ k = "state"
              /\ k = "touch" => Provides(idle', now, MaxFlight + 1)
  PROVE  call'[q] \in Calls /\ Flight(call[q])'
<1>1. call[q] \in Calls /\ Flight(call[q])
  BY DEF LifeInv, LifeTypes, Flights
<1>2. CASE call'[q] = call[q] /\ UNCHANGED <<alive, idle>>
  <2>1. call[q].began \in Nat /\ call[q].known \in Nat
    BY <1>1 DEF Calls
  <2> QED
    BY <1>1, <1>2, <2>1, EntryAssumption DEF Flight, LifeInv, LifeTypes, Calls
<1>3. ASSUME NEW k \in Touches, call'[q] = L!Written(q, k), alive' = alive \/ k = "state",
             k = "touch" => Provides(idle', now, MaxFlight + 1)
      PROVE  call'[q] \in Calls /\ Flight(call[q])'
  <2>1. PICK c : c = call'[q]
    OBVIOUS
  <2>2. PICK e : e = call[q]
    OBVIOUS
  <2>3. /\ c \in Calls /\ c.pc = e.pc /\ c.began = e.began /\ c.clock = e.clock
        /\ c.row = e.row /\ c.known = e.known
        /\ e.pc # "rest" => c.written = e.written \union {k}
    BY <1>3, <2>1, <2>2, WrittenIs
  <2>4. /\ e.pc \in {"rest", "read", "judge", "touch", "accept"} /\ e.began \in Nat /\ e.clock \in Nat
        /\ e.row \in Nat /\ e.written \subseteq Touches /\ e.known \in Nat /\ Flight(e)
    BY <1>1, <2>2 DEF Calls
  <2>5. /\ "touch" \in e.written /\ Provides(idle, e.began, MaxFlight + 1) => Provides(idle', e.began, MaxFlight + 1)
        /\ Provides(idle, e.began, LagAccept) => Provides(idle', e.began, LagAccept)
    BY <2>4, StillProvides, LagIs, EntryAssumption
  <2>6. e.began <= now /\ k = "touch" => Provides(idle', e.began, MaxFlight + 1)
    BY <1>3, <2>4, EntryAssumption DEF LifeInv, LifeTypes, Provides
  <2>7. Flight(c)'
    BY <1>3, <2>3, <2>4, <2>5, <2>6, EntryAssumption DEF Flight, LifeInv, LifeTypes
  <2> QED
    BY <2>1, <2>3, <2>7
<1> QED
  BY <1>2, <1>3

\* A request that comes to rest, or takes a step of its own, leaves the
\* others where they are.
LEMMA OneMoves ==
  ASSUME LifeInv, NEW r \in Visit, NEW c \in Calls, call' = [call EXCEPT ![r] = c],
         UNCHANGED <<now, alive, idle, invited>>, used' \in Nat, used' >= used,
         answered' \in Nat, answered' >= answered, Flight(c)'
  PROVE  Flights' /\ call' \in [Visit -> Calls]
<1>1. \A q \in Visit : call'[q] = IF q = r THEN c ELSE call[q]
  BY DEF LifeInv, LifeTypes
<1>2. idle' \in Nat /\ idle' >= idle
  BY DEF LifeInv, LifeTypes
<1>3. ASSUME NEW q \in Visit, q # r PROVE Flight(call[q])'
  BY <1>1, <1>2, <1>3, StaysInFlight
<1>4. Flight(call[r])'
  BY <1>1
<1> QED
  BY <1>3, <1>4 DEF Flights, LifeInv, LifeTypes

LEMMA RestIs ==
  /\ L!AtRest \in Calls
  /\ Flight(L!AtRest)'
BY DEF L!AtRest, Calls, Touches, Flight

LEMMA FindStep == ASSUME LifeInv, NEW r \in Visit, L!Find(r) PROVE LifeInv'
<1>1. PICK c : c = [L!AtRest EXCEPT !.pc = "read", !.began = now, !.known = answered]
  OBVIOUS
<1>2. c \in Calls /\ c.pc = "read" /\ c.began = now /\ c.known = answered /\ c.written = {}
  BY <1>1 DEF L!AtRest, Calls, Touches, LifeInv, LifeTypes
<1>3. /\ call' = [call EXCEPT ![r] = c]
      /\ UNCHANGED <<now, alive, idle, seen, invited, used, answered, vouched>>
  BY <1>1 DEF L!Find
<1>4. Flight(c)'
  BY <1>2, <1>3, EntryAssumption DEF Flight, LifeInv, LifeTypes
<1>5. used' \in Nat /\ used' >= used /\ answered' \in Nat /\ answered' >= answered
  BY <1>3 DEF LifeInv, LifeTypes
<1>6. Flights'
  BY <1>2, <1>3, <1>4, <1>5, OneMoves
<1> QED
  BY <1>2, <1>3, <1>6 DEF LifeInv, LifeTypes, Record

LEMMA RestStep ==
  ASSUME LifeInv, NEW r \in Visit, L!Rest(r),
         UNCHANGED <<now, alive, idle, seen, invited, used, answered, vouched>>
  PROVE  LifeInv'
<1>1. PICK c : c = L!AtRest
  OBVIOUS
<1>2. c \in Calls /\ Flight(c)'
  BY <1>1, RestIs
<1>3. call' = [call EXCEPT ![r] = c]
  BY <1>1 DEF L!Rest
<1>4. used' \in Nat /\ used' >= used /\ answered' \in Nat /\ answered' >= answered
  BY DEF LifeInv, LifeTypes
<1>5. Flights'
  BY <1>2, <1>3, <1>4, OneMoves
<1> QED
  BY <1>2, <1>3, <1>5 DEF LifeInv, LifeTypes, Record

LEMMA ReadStep == ASSUME LifeInv, NEW r \in Visit, L!Read(r) PROVE LifeInv'
<1>1. CASE alive /\ call[r].written \subseteq {"touch"}
  <2> DEFINE e == call[r]
  <2>1. e \in Calls /\ e.pc = "read" /\ Flight(e) /\ alive = TRUE
    BY <1>1 DEF LifeInv, LifeTypes, Flights, L!Read, L!At
  <2>2. call' = [call EXCEPT ![r] = [e EXCEPT !.pc = "judge", !.row = idle, !.written = {}]]
    BY <1>1 DEF L!Read, LifeInv, LifeTypes
  <2> HIDE DEF e
  <2>3. PICK c : c = [e EXCEPT !.pc = "judge", !.row = idle, !.written = {}]
    OBVIOUS
  <2>4. c \in Calls
    BY <2>1, <2>3 DEF Calls, LifeInv, LifeTypes
  <2>5. c.pc = "judge" /\ c.row = idle /\ c.written = {} /\ c.began = e.began /\ c.known = e.known
    BY <2>1, <2>3 DEF Calls
  <2>6. UNCHANGED <<now, alive, idle, seen, invited, used, answered, vouched>>
    BY DEF L!Read
  <2>7. /\ e.began <= now /\ now <= e.began + MaxFlight /\ e.known <= answered
        /\ e.began \in Nat /\ e.known \in Nat
    BY <2>1 DEF Flight, Calls
  <2>8. /\ idle <= used + Idle /\ Provides(idle, e.known, L!LagElevated)
        /\ invited # "elevated" => Provides(idle, e.known, L!Lag)
    BY <2>7, LagIs, EntryAssumption DEF LifeInv, LifeTypes, Record, Provides
  <2>9. Flight(c)'
    BY <2>1, <2>5, <2>6, <2>7, <2>8 DEF Flight
  <2>10. used' \in Nat /\ used' >= used /\ answered' \in Nat /\ answered' >= answered
    BY <2>6 DEF LifeInv, LifeTypes
  <2>11. Flights'
    BY <2>2, <2>3, <2>4, <2>6, <2>9, <2>10, OneMoves
  <2> QED
    BY <2>2, <2>3, <2>4, <2>6, <2>11 DEF LifeInv, LifeTypes, Record
<1>2. CASE ~(alive /\ call[r].written \subseteq {"touch"})
  BY <1>2, RestStep DEF L!Read
<1> QED
  BY <1>1, <1>2

LEMMA AdmitStep == ASSUME LifeInv, NEW r \in Visit, L!Admit(r) PROVE LifeInv'
<1> DEFINE e == call[r]
<1>1. e \in Calls /\ e.pc = "judge" /\ Flight(e)
  BY DEF LifeInv, LifeTypes, Flights, L!Admit, L!At
<1>2. call' = [call EXCEPT ![r] = [e EXCEPT !.pc = "touch", !.clock = now]]
  BY DEF L!Admit, LifeInv, LifeTypes
<1> HIDE DEF e
<1>3. PICK c : c = [e EXCEPT !.pc = "touch", !.clock = now]
  OBVIOUS
<1>4. c \in Calls
  BY <1>1, <1>3 DEF Calls, LifeInv, LifeTypes
<1>5. /\ c.pc = "touch" /\ c.clock = now /\ c.row = e.row
      /\ c.began = e.began /\ c.known = e.known /\ c.written = e.written
  BY <1>1, <1>3 DEF Calls
<1>6. UNCHANGED <<now, alive, idle, seen, invited, answered, vouched>> /\ used' = now /\ Absolute > now
  BY DEF L!Admit
<1>7. Flight(c)'
  BY <1>1, <1>5, <1>6, EntryAssumption DEF Flight, Calls, LifeInv, LifeTypes, Record
<1>8. used' \in Nat /\ used' >= used /\ answered' \in Nat /\ answered' >= answered
  BY <1>6 DEF LifeInv, LifeTypes, Record
<1>9. Flights'
  BY <1>2, <1>3, <1>4, <1>6, <1>7, <1>8, OneMoves
<1>10. Record'
  BY <1>6, EntryAssumption DEF LifeInv, LifeTypes, Record
<1> QED
  BY <1>2, <1>3, <1>4, <1>6, <1>8, <1>9, <1>10 DEF LifeInv, LifeTypes

\* Other writes of the row.
LEMMA WriteSteps ==
  ASSUME LifeInv, L!RefreshAuthority \/ L!Revoke
  PROVE  LifeInv'
<1>1. PICK k \in {"authority", "state"} : /\ call' = [q \in Visit |-> L!Written(q, k)]
                                          /\ alive' = alive \/ k = "state"
  BY DEF L!RefreshAuthority, L!Revoke, L!Write, LifeInv, LifeTypes
<1>2. UNCHANGED <<now, idle, seen, invited, used, answered, vouched>> /\ alive' \in BOOLEAN
  BY DEF L!RefreshAuthority, L!Revoke, LifeInv, LifeTypes
<1>3. /\ idle' \in Nat /\ idle' >= idle /\ used' \in Nat /\ used' >= used
      /\ answered' \in Nat /\ answered' >= answered
  BY <1>2 DEF LifeInv, LifeTypes
<1>4. ASSUME NEW q \in Visit PROVE call'[q] \in Calls /\ Flight(call[q])'
  <2>1. k \in Touches /\ k # "touch" /\ call'[q] = L!Written(q, k)
    BY <1>1 DEF Touches
  <2> QED
    BY <1>1, <1>2, <1>3, <2>1, StaysInFlight
<1>5. call' \in [Visit -> Calls]
  BY <1>1, <1>4
<1>6. Flights'
  BY <1>4 DEF Flights
<1> QED
  BY <1>2, <1>5, <1>6 DEF LifeInv, LifeTypes, Record

LEMMA TickStep == ASSUME LifeInv, L!Tick PROVE LifeInv'
<1>1. /\ now' = now + 1 /\ UNCHANGED <<alive, idle, seen, invited, call, used, answered, vouched>>
      /\ \A r \in Visit : call[r].pc = "rest" \/ now < call[r].began + MaxFlight
  BY DEF L!Tick, L!At
<1>2. Flights'
  <2>1. SUFFICES ASSUME NEW q \in Visit PROVE Flight(call[q])'
    BY DEF Flights
  <2>2. Flight(call[q]) /\ call[q] \in Calls
    BY DEF LifeInv, LifeTypes, Flights
  <2> QED
    BY <1>1, <2>2, EntryAssumption DEF Flight, Calls, LifeInv, LifeTypes
<1> QED
  BY <1>1, <1>2 DEF LifeInv, LifeTypes, Record

\* What Touch adds to what is on record for users.
LEMMA OnRecord ==
  ASSUME LifeInv, NEW r \in Visit, L!Touch(r)
  PROVE  /\ idle' \in Nat /\ idle' >= idle /\ seen' \in Nat /\ vouched' \in BOOLEAN
         /\ answered' \in Nat /\ answered' >= answered
         /\ Record'
         /\ alive /\ call[r].written = {} /\ L!Due(r) => Provides(idle', now, MaxFlight + 1)
         /\ ~(alive /\ call[r].written = {} /\ L!Due(r)) => UNCHANGED <<idle, seen, vouched>>
         /\ invited # "elevated" /\ call[r].written \subseteq {"touch"}
              => Provides(idle', call[r].began, LagAccept)
<1> DEFINE e == call[r]
<1>1. e \in Calls /\ e.pc = "touch" /\ Flight(e)
  BY DEF LifeInv, LifeTypes, Flights, L!Touch, L!At
<1> DEFINE Goes == alive /\ e.written = {} /\ L!Due(r)
<1>2. /\ IF Goes THEN seen' = e.clock /\ idle' = L!Earlier(e.clock + Idle, Absolute) /\ vouched' = TRUE
                 ELSE seen' = seen /\ idle' = idle /\ vouched' = vouched
      /\ answered' = IF e.written \subseteq {"touch"} /\ (L!Due(r) \/ vouched)
                       THEN L!Later(answered, e.clock) ELSE answered
      /\ L!Due(r) <=> e.clock >= Coalesce /\ seen <= e.clock - Coalesce
      /\ UNCHANGED <<now, alive, invited, used>>
  BY DEF L!Touch, L!Due, L!Recorded
<1>3. /\ e.began \in Nat /\ e.clock \in Nat /\ e.began <= e.clock /\ e.clock <= used
      /\ now <= e.began + MaxFlight /\ e.written \subseteq Touches
      /\ "touch" \in e.written => Provides(idle, e.began, MaxFlight + 1)
      /\ alive = TRUE \/ "state" \in e.written
      /\ e.row \in Nat /\ e.row <= e.clock + Idle
      /\ e.written = {} => e.row = idle
  BY <1>1 DEF Flight, Calls
<1> HIDE DEF e
<1>4. CASE Goes
  <2>1. /\ seen' = e.clock /\ vouched' = TRUE /\ idle <= idle'
        /\ idle' = IF e.clock + Idle < Absolute THEN e.clock + Idle ELSE Absolute
        /\ answered' \in {e.clock, answered} /\ answered' >= answered
    BY <1>2, <1>3, <1>4, EntryAssumption DEF LifeInv, LifeTypes, Record, L!Earlier, L!Later
  <2>2. Provides(idle', now, MaxFlight + 1) /\ Provides(idle', e.began, LagAccept)
    BY <1>3, <2>1, LagIs, EntryAssumption DEF LifeInv, LifeTypes, Record, Provides
  <2>3. /\ Provides(idle', answered', L!Lag) \/ (invited = "elevated" /\ answered' = answered)
        /\ Provides(idle', answered', L!LagElevated)
        /\ Provides(idle', seen' + Coalesce - 1, L!LagElevated)
    <3>1. Provides(idle', e.clock, L!Lag) /\ Provides(idle', e.clock, L!LagElevated)
      BY <1>3, <2>1, LagIs, EntryAssumption DEF LifeInv, LifeTypes, Provides
    <3>2. Provides(idle', answered, L!LagElevated) /\ (invited # "elevated" => Provides(idle', answered, L!Lag))
      BY <2>1, LagIs, EntryAssumption DEF LifeInv, LifeTypes, Record, Provides
    <3>3. Provides(idle', seen' + Coalesce - 1, L!LagElevated)
      BY <1>3, <2>1, LagIs, EntryAssumption DEF Provides
    <3> QED
      BY <2>1, <3>1, <3>2, <3>3
  <2>4. Record'
    BY <1>2, <1>3, <2>1, <2>3, EntryAssumption DEF LifeInv, LifeTypes, Record, L!Earlier
  <2> QED
    BY <1>2, <1>3, <1>4, <2>1, <2>2, <2>4, EntryAssumption DEF e, LifeInv, LifeTypes
<1>5. CASE ~Goes
  <2>1. /\ UNCHANGED <<idle, seen, vouched, now, alive, invited, used>>
        /\ answered' = answered \/
             /\ answered' = e.clock /\ e.clock >= answered
             /\ e.written \subseteq {"touch"} /\ (L!Due(r) \/ vouched = TRUE)
    BY <1>2, <1>3, <1>5 DEF LifeInv, LifeTypes, L!Later
  <2>2. CASE e.written = {}
    <3>1. e.clock < seen + Coalesce /\ ~L!Due(r)
      BY <1>2, <1>3, <1>5, <2>2, EntryAssumption DEF LifeInv, LifeTypes
    <3>2. vouched = TRUE => Provides(idle, e.clock, L!LagElevated)
      BY <1>3, <3>1, LagIs, EntryAssumption DEF LifeInv, LifeTypes, Record, Provides
    <3>3. invited # "elevated" => Provides(idle, e.clock, L!Lag) /\ Provides(idle, e.began, LagAccept)
      BY <1>3, <3>1, LagIs, EntryAssumption DEF LifeInv, LifeTypes, Record, Provides, L!Earlier
    <3>4. Record'
      BY <1>3, <2>1, <3>1, <3>2, <3>3, EntryAssumption DEF LifeInv, LifeTypes, Record
    <3> QED
      BY <1>3, <1>5, <2>1, <3>3, <3>4 DEF e, LifeInv, LifeTypes
  <2>3. CASE "touch" \in e.written
    <3>1. Provides(idle, e.clock, L!Lag) /\ Provides(idle, e.began, LagAccept)
      BY <1>3, <2>3, LagIs, EntryAssumption DEF LifeInv, LifeTypes, Record, Provides
    <3>2. Provides(idle, e.clock, L!LagElevated)
      BY <1>3, <3>1, LagIs, EntryAssumption DEF LifeInv, LifeTypes, Provides
    <3>3. Record'
      BY <1>3, <2>1, <3>1, <3>2, EntryAssumption DEF LifeInv, LifeTypes, Record
    <3> QED
      BY <1>3, <1>5, <2>1, <3>1, <3>3 DEF e, LifeInv, LifeTypes
  <2>4. CASE e.written # {} /\ "touch" \notin e.written
    <3>1. ~(e.written \subseteq {"touch"})
      BY <2>4
    <3>2. Record'
      BY <2>1, <3>1 DEF LifeInv, Record
    <3> QED
      BY <1>5, <2>1, <3>1, <3>2 DEF e, LifeInv, LifeTypes
  <2> QED
    BY <2>2, <2>3, <2>4
<1> QED
  BY <1>4, <1>5

LEMMA TouchStep == ASSUME LifeInv, NEW r \in Visit, L!Touch(r) PROVE LifeInv'
<1>1. UNCHANGED <<now, alive, invited, used>>
  BY DEF L!Touch
<1>2. used' \in Nat /\ used' >= used
  BY <1>1 DEF LifeInv, LifeTypes
<1> DEFINE Goes == alive /\ call[r].written = {} /\ L!Due(r)
<1>3. PICK c \in L!Onward(r) :
        IF Goes THEN call' = [q \in Visit |-> IF q = r THEN c ELSE L!Written(q, "touch")]
                ELSE call' = [call EXCEPT ![r] = c]
  BY DEF L!Touch
<1>4. c \in Calls /\ Flight(c)'
  <2>1. CASE c = L!AtRest
    BY <2>1, RestIs
  <2>2. CASE invited = "pending" /\ c = [call[r] EXCEPT !.pc = "accept", !.clock = now]
    <3>1. PICK e : e = call[r]
      OBVIOUS
    <3>2. e \in Calls /\ e.pc = "touch" /\ Flight(e)
      BY <3>1 DEF LifeInv, LifeTypes, Flights, L!Touch, L!At
    <3>3. c = [e EXCEPT !.pc = "accept", !.clock = now]
      BY <2>2, <3>1
    <3>4. /\ c \in Calls /\ c.pc = "accept" /\ c.began = e.began /\ c.known = e.known
          /\ c.written = e.written
      BY <3>2, <3>3 DEF Calls, LifeInv, LifeTypes
    <3>5. /\ e.began \in Nat /\ e.known \in Nat /\ e.began <= now /\ now <= e.began + MaxFlight
          /\ e.known <= answered
          /\ "touch" \in e.written => Provides(idle, e.began, MaxFlight + 1)
      BY <3>2 DEF Flight, Calls
    <3>6. "touch" \in e.written => Provides(idle', e.began, MaxFlight + 1)
      BY <3>5, OnRecord, StillProvides, EntryAssumption
    <3>7. e.written \subseteq {"touch"} => Provides(idle', e.began, LagAccept)
      BY <2>2, <3>1, OnRecord
    <3>8. answered' >= e.known
      BY <3>5, OnRecord DEF LifeInv, LifeTypes
    <3> QED
      BY <1>1, <3>4, <3>5, <3>6, <3>7, <3>8 DEF Flight
  <2> QED
    BY <1>3, <2>1, <2>2 DEF L!Onward
<1>5. CASE Goes
  <2>1. ASSUME NEW q \in Visit, q # r PROVE call'[q] \in Calls /\ Flight(call[q])'
    <3>1. call'[q] = L!Written(q, "touch") /\ "touch" \in Touches /\ alive' = alive
      BY <1>1, <1>3, <1>5, <2>1 DEF Touches
    <3>2. Provides(idle', now, MaxFlight + 1)
      BY <1>5, OnRecord
    <3> QED
      BY <1>1, <1>2, <3>1, <3>2, OnRecord, StaysInFlight
  <2>2. call'[r] = c
    BY <1>3, <1>5
  <2>3. call' \in [Visit -> Calls]
    BY <1>3, <1>4, <1>5, <2>1, <2>2
  <2>4. Flights'
    BY <1>4, <2>1, <2>2 DEF Flights
  <2> QED
    BY <1>1, <1>2, <2>3, <2>4, OnRecord DEF LifeInv, LifeTypes
<1>6. CASE ~Goes
  <2>1. Flights' /\ call' \in [Visit -> Calls]
    BY <1>1, <1>2, <1>3, <1>4, <1>6, OnRecord, OneMoves
  <2> QED
    BY <1>1, <1>2, <2>1, OnRecord DEF LifeInv, LifeTypes
<1> QED
  BY <1>5, <1>6

\* The elevation was asked for by a request whose use is on record, unless
\* another write than a touch took the place of its touch.
LEMMA ElevateStep == ASSUME LifeInv, NEW r \in Visit, L!Elevate(r) PROVE LifeInv'
<1>1. UNCHANGED <<now, alive, idle, used, answered>>
  BY DEF L!Elevate
<1>2. PICK at \in call[r].clock .. now :
       IF alive /\ invited = "pending" /\ idle > at /\ Absolute > at
         THEN /\ invited' = "elevated" /\ seen' = at
              /\ vouched' = (call[r].written \subseteq {"touch"})
              /\ call' = [q \in Visit |-> IF q = r THEN L!AtRest ELSE L!Written(q, "state")]
         ELSE L!Rest(r) /\ UNCHANGED <<invited, seen, vouched>>
  BY DEF L!Elevate
<1>3. CASE alive /\ invited = "pending" /\ idle > at /\ Absolute > at
  <2> DEFINE e == call[r]
  <2>1. e \in Calls /\ e.pc = "accept" /\ Flight(e)
    BY DEF LifeInv, LifeTypes, Flights, L!Elevate, L!At
  <2>2. /\ at \in Nat /\ at <= now /\ e.began \in Nat /\ now <= e.began + MaxFlight
        /\ e.written \subseteq {"touch"} => Provides(idle, e.began, LagAccept)
    BY <1>2, <2>1 DEF Flight, Calls, LifeInv, LifeTypes
  <2> HIDE DEF e
  <2>3. e.written \subseteq {"touch"} => Provides(idle, at + Coalesce - 1, L!LagElevated)
    BY <2>2, LagIs, EntryAssumption DEF Provides, LifeInv, LifeTypes
  <2>4. /\ invited' = "elevated" /\ seen' = at /\ vouched' \in BOOLEAN
        /\ vouched' = TRUE => e.written \subseteq {"touch"}
    BY <1>2, <1>3 DEF e
  <2>5. Record'
    BY <1>1, <2>3, <2>4 DEF LifeInv, Record
  <2>6. /\ idle' \in Nat /\ idle' >= idle /\ used' \in Nat /\ used' >= used
        /\ answered' \in Nat /\ answered' >= answered
    BY <1>1 DEF LifeInv, LifeTypes
  <2>7. ASSUME NEW q \in Visit, q # r PROVE call'[q] \in Calls /\ Flight(call[q])'
    <3>1. call'[q] = L!Written(q, "state") /\ "state" \in Touches
      BY <1>2, <1>3, <2>7 DEF Touches
    <3> QED
      BY <1>1, <2>4, <2>6, <3>1, StaysInFlight
  <2>8. call'[r] \in Calls /\ Flight(call[r])'
    BY <1>2, <1>3, RestIs
  <2>9. call' \in [Visit -> Calls]
    BY <1>2, <1>3, <2>7, <2>8
  <2>10. Flights'
    BY <2>7, <2>8 DEF Flights
  <2> QED
    BY <1>1, <2>2, <2>4, <2>5, <2>9, <2>10 DEF LifeInv, LifeTypes
<1>4. CASE ~(alive /\ invited = "pending" /\ idle > at /\ Absolute > at)
  BY <1>1, <1>2, <1>4, RestStep
<1> QED
  BY <1>3, <1>4

LEMMA LifeSteps == LifeInv /\ [L!Next]_lifetime => LifeInv'
<1> SUFFICES ASSUME LifeInv, [L!Next]_lifetime PROVE LifeInv'
  OBVIOUS
<1>1. ASSUME NEW r \in Visit, L!Expire(r) PROVE LifeInv'
  BY <1>1, RestStep DEF L!Expire
<1>2. CASE UNCHANGED lifetime
  BY <1>2 DEF lifetime, LifeInv, LifeTypes, Record, Flights, Flight
<1> QED
  BY <1>1, <1>2, FindStep, ReadStep, AdmitStep, TouchStep, ElevateStep, WriteSteps, TickStep DEF L!Next

\* Who is let in, and who is sent away.
LEMMA Judges ==
  ASSUME LifeInv, [L!Next]_lifetime, NEW r \in Visit, L!At(r, "judge")
  PROVE  /\ call'[r].pc = "touch" => now < Absolute /\ now < used + Idle
         /\ call'[r].pc = "rest" =>
              \/ now >= Absolute
              \/ now + (IF invited = "elevated" THEN L!LagElevated ELSE L!Lag) > call[r].known + Idle
<1> DEFINE e == call[r]
<1>1. e \in Calls /\ e.pc = "judge" /\ Flight(e)
  BY DEF LifeInv, LifeTypes, Flights, L!At
<1>2. CASE L!Admit(r)
  <2>1. call'[r].pc = "touch" /\ e.row > now /\ Absolute > now
    BY <1>2 DEF L!Admit, LifeInv, LifeTypes, Calls
  <2> QED
    BY <1>1, <2>1, EntryAssumption DEF Flight, Calls, LifeInv, LifeTypes
<1>3. CASE L!Expire(r)
  <2>1. call'[r].pc = "rest" /\ (e.row <= now \/ Absolute <= now)
    BY <1>3 DEF L!Expire, L!Rest, L!AtRest, LifeInv, LifeTypes
  <2> QED
    BY <1>1, <2>1, LagIs, EntryAssumption DEF Flight, Provides, Calls, LifeInv, LifeTypes
<1>4. CASE ~L!Admit(r) /\ ~L!Expire(r)
  <2>1. call'[r].pc = "judge"
    <3>1. ASSUME NEW q \in Visit, L!Find(q) \/ L!Read(q) \/ L!Admit(q) \/ L!Expire(q)
          PROVE  call'[r] = call[r]
      <4>1. q # r
        BY <1>1, <1>4, <3>1 DEF L!Find, L!Read, L!At
      <4> QED
        BY <3>1, <4>1 DEF L!Find, L!Read, L!Admit, L!Expire, L!Rest, LifeInv, LifeTypes
    <3>2. ASSUME NEW q \in Visit, L!Touch(q) \/ L!Elevate(q) PROVE call'[r].pc = call[r].pc
      <4>1. q # r
        BY <1>1, <3>2 DEF L!Touch, L!Elevate, L!At
      <4>2. call'[r] = call[r] \/ \E k \in {"touch", "state"} : call'[r] = L!Written(r, k)
        BY <3>2, <4>1 DEF L!Touch, L!Elevate, L!Rest, LifeInv, LifeTypes
      <4> QED
        BY <4>2, WrittenIs DEF Touches
    <3>3. CASE L!RefreshAuthority \/ L!Revoke
      <4>1. \E k \in {"authority", "state"} : call'[r] = L!Written(r, k)
        BY <3>3 DEF L!RefreshAuthority, L!Revoke, L!Write
      <4> QED
        BY <1>1, <4>1, WrittenIs DEF Touches
    <3>4. CASE L!Tick \/ UNCHANGED lifetime
      BY <1>1, <3>4 DEF L!Tick, lifetime
    <3> QED
      BY <1>1, <3>1, <3>2, <3>3, <3>4 DEF L!Next
  <2> QED
    BY <2>1
<1> QED
  BY <1>2, <1>3, <1>4

(* A session that nobody used for the idle interval, or past its absolute  *)
(* end, lets nobody in, however late touches are written; and a user whose *)
(* last answered request is younger is not sent away early, but for        *)
(* coalesced touches, once more after an elevation, and the flights of two *)
(* requests.                                                               *)
THEOREM EndsWhenUnused == EntrySpec => ExpiresWhenUnused
<1>1. EntryInit => LifeInv
  BY LifeStarts DEF EntryInit
<1>2. LifeInv /\ [EntryNext]_<<part, vars, lifetime, journey, bootstrap, isolation>> => LifeInv'
  BY EachItsOwn, LifeSteps
<1> DEFINE A == \A r \in Visit : L!At(r, "judge") =>
                  /\ call'[r].pc = "touch" => now < Absolute /\ now < used + Idle
                  /\ call'[r].pc = "rest" =>
                       \/ now >= Absolute
                       \/ now + (IF invited = "elevated" THEN L!LagElevated ELSE L!Lag)
                            > call[r].known + Idle
<1>3. LifeInv /\ [EntryNext]_<<part, vars, lifetime, journey, bootstrap, isolation>> => [A]_lifetime
  BY EachItsOwn, Judges
<1>4. ExpiresWhenUnused <=> [][A]_lifetime
  BY DEF ExpiresWhenUnused, L!ExpiresWhenUnused, L!vars, lifetime
<1> HIDE DEF A
<1> QED
  BY <1>1, <1>2, <1>3, <1>4, PTL DEF EntrySpec

-----------------------------------------------------------------------------
(* OwnerJourney. *)

Shown == {"home", "members", "activate", "accept", "reset", "login", "forgot"}
Links == [page : {"activate", "accept", "reset"}, joint : BOOLEAN,
          opens : SUBSET {"activate", "accept", "reset"}]
Tabs == [page : Shown, link : Nat, told : {"nothing", "done", "failed", "loginFailed"},
         offer : BOOLEAN, waits : BOOLEAN]
Tried == [effect : Password \union {J!NoPassword}, lost : BOOLEAN, informed : BOOLEAN]
Messages == [tab : Tab \union {J!Nobody}, kind : {"activate", "reset", "forgot", "login", "accept"},
             link : Nat, password : Password \union {J!NoPassword},
             as : {J!Nobody, "owner", "other"}, stage : {"sent", "ok", "noEmail", "refused"}]
JourneyTypes ==
  /\ active \in BOOLEAN /\ jar \in {J!Nobody, "owner", "other"}
  /\ link \in Seq(Links) /\ tab \in [Tab -> Tabs] /\ wire \subseteq Messages
  /\ visit \in [Tab -> Tried]

\* A reset is mailed to an active account, and links stay.
Mailed ==
  /\ \A l \in 1 .. Len(link) : "reset" \in link[l].opens => active = TRUE
  /\ \A t \in Tab : tab[t].link <= Len(link)

Did(t) == visit[t].effect # J!NoPassword /\ active = TRUE
\* A message by which the page learns that its command took effect, or has.
Bears(m) ==
  \/ m.kind \in {"activate", "reset"} /\ m.stage \in {"ok", "noEmail"}
  \/ m.kind = "login" /\ tab[m.tab].page = "activate"

\* A page's messages are of its kind; the activation page signs in too, for
\* an account that it activated.
Posted ==
  \A m \in wire :
    /\ m.kind \in {"activate", "reset"} => m.link \in 1 .. Len(link) /\ m.password \in Password
    /\ m.tab # J!Nobody =>
         /\ m.kind = tab[m.tab].page \/ (m.kind = "login" /\ tab[m.tab].page = "activate")
         /\ Bears(m) => Did(m.tab)

Form(t) == tab[t].page \in {"activate", "reset"}
Told ==
  \A t \in Tab :
    /\ tab[t].offer = TRUE => /\ Did(t) /\ tab[t].page = "activate" /\ visit[t].informed = TRUE
    /\ Form(t) /\ tab[t].told \in {"done", "loginFailed"} => Did(t)
    /\ Form(t) /\ tab[t].told = "failed" /\ visit[t].effect # J!NoPassword =>
         visit[t].lost = TRUE \/ visit[t].informed = TRUE

\* Until it is informed or an answer is lost, a page has one message under
\* way, waits for it, and hears by it of what it did.
Waiting ==
  \A t \in Tab : visit[t].lost = FALSE /\ visit[t].informed = FALSE =>
    /\ \A m, n \in wire : m.tab = t /\ n.tab = t => m = n
    /\ \A m \in wire : m.tab = t => tab[t].waits = TRUE /\ tab[t].told = "nothing"
    /\ visit[t].effect # J!NoPassword => \E m \in wire : m.tab = t /\ Bears(m)

JourneyInv == JourneyTypes /\ Mailed /\ Posted /\ Told /\ Waiting

LEMMA JourneyStarts == J!Init => JourneyInv
<1> SUFFICES ASSUME J!Init PROVE JourneyInv
  OBVIOUS
<1> USE DEF J!Init, J!Mounted, J!Untried
<1>1. link \in Seq(Links) /\ Len(link) \in Nat /\ \A l \in 1 .. Len(link) : "reset" \notin link[l].opens
  <2> DEFINE x == [page |-> "activate", joint |-> TRUE, opens |-> {"activate", "accept"}]
             y == [page |-> "activate", joint |-> FALSE, opens |-> {"activate"}]
             z == [page |-> "accept", joint |-> FALSE, opens |-> {"accept"}]
  <2>1. {x, y, z} \subseteq Links
    BY DEF Links
  <2>2. "reset" \notin x.opens /\ "reset" \notin y.opens /\ "reset" \notin z.opens
    OBVIOUS
  <2>3. link = <<x>> \/ link = <<y, z>>
    OBVIOUS
  <2> HIDE DEF x, y, z
  <2>4. CASE link = <<x>>
    BY ONLY <2>1, <2>2, <2>4
  <2>5. CASE link = <<y, z>>
    <3>1. link \in Seq(Links)
      BY ONLY <2>1, <2>5
    <3>2. Len(link) = 2 /\ link[1] = y /\ link[2] = z
      BY ONLY <2>5
    <3> QED
      BY ONLY <2>2, <3>1, <3>2
  <2> QED
    BY <2>3, <2>4, <2>5
<1>2. tab \in [Tab -> Tabs] /\ visit \in [Tab -> Tried]
  BY DEF Tabs, Shown, Tried
<1>3. JourneyTypes /\ Mailed
  <2>1. \A t \in Tab : tab[t].link = 0
    OBVIOUS
  <2>2. active \in BOOLEAN /\ jar \in {J!Nobody, "owner", "other"} /\ wire \subseteq Messages
    OBVIOUS
  <2> HIDE DEF J!Init
  <2> QED
    BY ONLY <1>1, <1>2, <2>1, <2>2 DEF JourneyTypes, Mailed
<1>4. Posted /\ Told /\ Waiting
  BY DEF Posted, Told, Waiting, Form, Did
<1> QED
  BY <1>3, <1>4 DEF JourneyInv

\* A page is left for another: its messages are nobody's, and it did nothing.
LEMMA Left ==
  ASSUME JourneyInv, NEW t \in Tab, NEW p \in Shown, NEW l \in 0 .. Len(link), J!Show(t, p, l),
         NEW calls \in SUBSET wire, \A m \in wire : m.tab # t => m \in calls, J!Leave(t, calls),
         UNCHANGED <<active, link>>, jar' \in {J!Nobody, "owner", "other"}
  PROVE  JourneyInv'
<1>1. t # J!Nobody /\ J!NoPassword \notin Password
  BY EntryAssumption
<1>2. \A m \in wire : m \in Messages
  BY DEF JourneyInv, JourneyTypes
<1>3. \A n \in wire' : /\ n \in Messages /\ n.tab # t /\ (n.tab # J!Nobody => n \in wire)
                       /\ \E m \in wire : n.kind = m.kind /\ n.link = m.link /\ n.password = m.password
  <2>1. SUFFICES ASSUME NEW m \in wire
                 PROVE  LET n == J!Orphan(m, t) IN
                        /\ n \in Messages /\ n.tab # t /\ (n.tab # J!Nobody => n = m)
                        /\ n.kind = m.kind /\ n.link = m.link /\ n.password = m.password
    BY DEF J!Leave
  <2> QED
    BY <1>1, <1>2, <2>1 DEF J!Orphan, Messages
<1>4. \A m \in wire : m.tab # t => m \in wire'
  BY DEF J!Leave, J!Orphan
<1>5. /\ tab' \in [Tab -> Tabs] /\ visit' \in [Tab -> Tried]
      /\ tab'[t].link = l /\ tab'[t].offer = FALSE /\ tab'[t].told = "nothing"
      /\ visit'[t].effect = J!NoPassword
      /\ \A q \in Tab \ {t} : tab'[q] = tab[q] /\ visit'[q] = visit[q]
  <2>1. J!Mounted(p, l) \in Tabs /\ J!Untried \in Tried
    BY DEF J!Mounted, J!Untried, Tabs, Tried, JourneyInv, JourneyTypes
  <2>2. tab' = [tab EXCEPT ![t] = J!Mounted(p, l)] /\ visit' = [visit EXCEPT ![t] = J!Untried]
    BY DEF J!Show, J!Leave
  <2>3. tab \in [Tab -> Tabs] /\ visit \in [Tab -> Tried]
    BY DEF JourneyInv, JourneyTypes
  <2>4. tab'[t] = J!Mounted(p, l) /\ visit'[t] = J!Untried
    BY <2>2, <2>3
  <2> QED
    BY <2>1, <2>2, <2>3, <2>4 DEF J!Mounted, J!Untried
<1>6. JourneyTypes'
  BY <1>3, <1>5 DEF JourneyInv, JourneyTypes
<1>7. Mailed'
  BY <1>5 DEF JourneyInv, JourneyTypes, Mailed
<1>8. Posted'
  <2>1. SUFFICES ASSUME NEW n \in wire'
                 PROVE  /\ n.kind \in {"activate", "reset"} => n.link \in 1 .. Len(link) /\ n.password \in Password
                        /\ n.tab # J!Nobody =>
                             /\ n.kind = tab'[n.tab].page \/ (n.kind = "login" /\ tab'[n.tab].page = "activate")
                             /\ Bears(n)' => Did(n.tab)'
    BY DEF Posted
  <2>2. n.kind \in {"activate", "reset"} => n.link \in 1 .. Len(link) /\ n.password \in Password
    BY <1>3 DEF JourneyInv, Posted
  <2>3. CASE n.tab # J!Nobody
    <3>1. n \in wire /\ n.tab \in Tab \ {t}
      BY <1>3, <2>3 DEF Messages
    <3>2. tab'[n.tab] = tab[n.tab] /\ visit'[n.tab] = visit[n.tab]
      BY <1>5, <3>1
    <3>3. (Bears(n)' <=> Bears(n)) /\ (Did(n.tab)' <=> Did(n.tab))
      BY <3>2 DEF Bears, Did
    <3> QED
      BY <2>2, <2>3, <3>1, <3>2, <3>3 DEF JourneyInv, Posted
  <2> QED
    BY <2>2, <2>3
<1>9. Told'
  BY <1>5 DEF JourneyInv, Told, Form, Did
<1>10. Waiting'
  <2>1. SUFFICES ASSUME NEW q \in Tab, visit'[q].lost = FALSE, visit'[q].informed = FALSE
                 PROVE  /\ \A m, n \in wire' : m.tab = q /\ n.tab = q => m = n
                        /\ \A m \in wire' : m.tab = q => tab'[q].waits = TRUE /\ tab'[q].told = "nothing"
                        /\ visit'[q].effect # J!NoPassword => \E m \in wire' : m.tab = q /\ Bears(m)'
    BY DEF Waiting
  <2>2. CASE q = t
    BY <1>3, <1>5, <2>2
  <2>3. CASE q # t
    <3>1. tab'[q] = tab[q] /\ visit'[q] = visit[q] /\ q # J!Nobody
      BY <1>5, <2>3, EntryAssumption
    <3>2. \A m \in wire' : m.tab = q => m \in wire
      BY <1>3, <3>1
    <3>3. /\ \A m, n \in wire : m.tab = q /\ n.tab = q => m = n
          /\ \A m \in wire : m.tab = q => tab[q].waits = TRUE /\ tab[q].told = "nothing"
          /\ visit[q].effect # J!NoPassword => \E m \in wire : m.tab = q /\ Bears(m)
      BY <2>1, <3>1 DEF JourneyInv, Waiting
    <3>4. \A m \in wire : m.tab = q => m \in wire' /\ (Bears(m)' <=> Bears(m))
      BY <1>4, <2>3, <3>1 DEF Bears
    <3> QED
      BY <3>1, <3>2, <3>3, <3>4
  <2> QED
    BY <2>2, <2>3
<1> QED
  BY <1>6, <1>7, <1>8, <1>9, <1>10 DEF JourneyInv

\* Ways to leave a page.
LEMMA LeaveSteps ==
  ASSUME JourneyInv,
         \/ \E t \in Tab : J!OpenLink(t) \/ J!OpenPage(t) \/ J!Reload(t) \/ J!ContinueToSignIn(t)
         \/ \E m \in wire : J!SignedIn(m) \/ J!Accepted(m)
  PROVE  JourneyInv'
<1>1. ASSUME NEW t \in Tab, J!OpenLink(t) \/ J!OpenPage(t) \/ J!Reload(t) \/ J!ContinueToSignIn(t)
      PROVE  JourneyInv'
  <2>1. tab[t] \in Tabs /\ tab[t].link <= Len(link) /\ Len(link) \in Nat
    BY DEF JourneyInv, JourneyTypes, Mailed
  <2>2. PICK p \in Shown, l \in 0 .. Len(link) : J!Show(t, p, l)
    <3>1. CASE J!OpenLink(t)
      <4>1. PICK l \in 1 .. Len(link) : J!Show(t, link[l].page, l)
        BY <3>1 DEF J!OpenLink
      <4>2. link[l] \in Links
        BY DEF JourneyInv, JourneyTypes
      <4>3. link[l].page \in Shown
        BY <4>2 DEF Links, Shown
      <4> QED
        BY <2>1, <4>1, <4>3
    <3>2. CASE J!OpenPage(t)
      BY <2>1, <3>2 DEF J!OpenPage, Shown
    <3>3. CASE J!Reload(t)
      BY <2>1, <3>3 DEF J!Reload, Tabs
    <3>4. CASE J!ContinueToSignIn(t)
      BY <2>1, <3>4 DEF J!ContinueToSignIn, Shown, Tabs
    <3> QED
      BY <1>1, <3>1, <3>2, <3>3, <3>4
  <2>3. J!Leave(t, wire) /\ UNCHANGED <<active, link, jar>>
    BY <1>1 DEF J!OpenLink, J!OpenPage, J!Reload, J!ContinueToSignIn, J!account
  <2>4. PICK calls : calls = wire
    OBVIOUS
  <2>5. J!Leave(t, calls) /\ jar' \in {J!Nobody, "owner", "other"}
    BY <2>3, <2>4 DEF JourneyInv, JourneyTypes
  <2> QED
    BY <2>2, <2>3, <2>4, <2>5, Left
<1>2. ASSUME NEW m \in wire, J!SignedIn(m) \/ J!Accepted(m)
      PROVE  JourneyInv'
  <2>1. m \in Messages /\ m.tab \in Tab
    BY <1>2 DEF J!SignedIn, J!Accepted, J!Heard, JourneyInv, JourneyTypes, Messages
  <2>2. tab[m.tab] \in Tabs /\ tab[m.tab].link <= Len(link) /\ Len(link) \in Nat
    BY <2>1 DEF JourneyInv, JourneyTypes, Mailed
  <2>3. PICK p \in Shown, l \in 0 .. Len(link) : J!Show(m.tab, p, l)
    <3>1. J!Landing \in Shown
      BY DEF J!Landing, Shown
    <3> QED
      BY <1>2, <2>2, <3>1 DEF J!SignedIn, J!Accepted, Shown, Tabs
  <2>4. /\ J!Leave(m.tab, wire \ {m}) /\ UNCHANGED <<active, link>>
        /\ jar' \in {J!Nobody, "owner", "other"}
    <3>2. UNCHANGED <<active, link>> /\ J!Leave(m.tab, wire \ {m})
      BY <1>2 DEF J!SignedIn, J!Accepted, J!account
    <3>3. jar' = jar \/ jar' = m.as
      BY <1>2 DEF J!SignedIn, J!Accepted
    <3> QED
      BY <2>1, <3>2, <3>3 DEF Messages, JourneyInv, JourneyTypes
  <2>5. PICK calls : calls = wire \ {m}
    OBVIOUS
  <2>6. calls \in SUBSET wire /\ (\A n \in wire : n.tab # m.tab => n \in calls) /\ J!Leave(m.tab, calls)
    BY <2>4, <2>5
  <2> QED
    BY <2>1, <2>3, <2>4, <2>6, Left
<1> QED
  BY <1>1, <1>2

\* A form is submitted while nothing of the page is under way.
LEMMA Posts ==
  ASSUME JourneyInv, NEW t \in Tab, J!Submits(t), NEW m \in Messages, wire' = wire \union {m},
         m.tab = t, m.kind = tab[t].page, m.stage = "sent", UNCHANGED <<active, link>>,
         m.kind \in {"activate", "reset"} => m.link \in 1 .. Len(link) /\ m.password \in Password
  PROVE  JourneyInv'
<1>1. /\ tab' \in [Tab -> Tabs] /\ UNCHANGED <<jar, visit>> /\ tab[t].waits # TRUE
      /\ tab'[t].waits = TRUE /\ tab'[t].told = "nothing"
      /\ \A q \in Tab : /\ tab'[q].page = tab[q].page /\ tab'[q].link = tab[q].link
                        /\ tab'[q].offer = tab[q].offer
                        /\ q # t => tab'[q] = tab[q]
  <2> DEFINE e == tab[t]
             k == [[e EXCEPT !.waits = TRUE] EXCEPT !.told = "nothing"]
  <2>1. e \in Tabs /\ tab \in [Tab -> Tabs]
    BY DEF JourneyInv, JourneyTypes
  <2>2. tab' = [tab EXCEPT ![t] = k]
    BY <2>1 DEF J!Submits, Tabs
  <2> HIDE DEF e
  <2>3. /\ k \in Tabs /\ k.waits = TRUE /\ k.told = "nothing" /\ k.page = e.page /\ k.link = e.link
        /\ k.offer = e.offer
    BY ONLY <2>1 DEF Tabs
  <2>4. e.waits # TRUE /\ UNCHANGED <<jar, visit>>
    BY DEF J!Submits, e
  <2> HIDE DEF k
  <2>5. /\ tab' \in [Tab -> Tabs] /\ tab'[t] = k
        /\ \A q \in Tab : q # t => tab'[q] = tab[q]
    BY ONLY <2>1, <2>2, <2>3
  <2> QED
    BY <2>3, <2>4, <2>5 DEF e
<1>2. JourneyTypes'
  BY <1>1 DEF JourneyInv, JourneyTypes
<1>3. Mailed' /\ Told'
  BY <1>1 DEF JourneyInv, Mailed, Told, Form, Did
<1>4. ~Bears(m)'
  BY <1>1 DEF Bears, JourneyInv, JourneyTypes, Tabs
<1>5. \A n \in wire : n.tab # J!Nobody => (Bears(n)' <=> Bears(n))
  BY <1>1 DEF Bears, JourneyInv, JourneyTypes, Messages
<1>6. Posted'
  BY <1>1, <1>4, <1>5 DEF JourneyInv, JourneyTypes, Messages, Posted, Did
<1>7. Waiting'
  <2>1. SUFFICES ASSUME NEW q \in Tab, visit[q].lost = FALSE, visit[q].informed = FALSE
                 PROVE  /\ \A x, y \in wire' : x.tab = q /\ y.tab = q => x = y
                        /\ \A x \in wire' : x.tab = q => tab'[q].waits = TRUE /\ tab'[q].told = "nothing"
                        /\ visit[q].effect # J!NoPassword => \E x \in wire' : x.tab = q /\ Bears(x)'
    BY <1>1 DEF Waiting
  <2>2. /\ \A x, y \in wire : x.tab = q /\ y.tab = q => x = y
        /\ \A x \in wire : x.tab = q => tab[q].waits = TRUE /\ tab[q].told = "nothing"
        /\ visit[q].effect # J!NoPassword => \E x \in wire : x.tab = q /\ Bears(x)
    BY <2>1 DEF JourneyInv, Waiting
  <2>3. q # J!Nobody
    BY EntryAssumption
  <2> QED
    BY <1>1, <1>5, <2>2, <2>3
<1> QED
  BY <1>2, <1>3, <1>6, <1>7 DEF JourneyInv

LEMMA SubmitSteps ==
  ASSUME JourneyInv, NEW t \in Tab,
         J!SubmitPassword(t) \/ J!SubmitForgot(t) \/ J!SubmitLogin(t) \/ J!SubmitAccept(t)
  PROVE  JourneyInv'
<1>1. /\ tab[t] \in Tabs /\ tab[t].link <= Len(link) /\ Len(link) \in Nat
      /\ jar \in {J!Nobody, "owner", "other"}
  BY DEF JourneyInv, JourneyTypes, Mailed
<1>2. J!Submits(t) /\ UNCHANGED <<active, link>>
  BY DEF J!SubmitPassword, J!SubmitForgot, J!SubmitLogin, J!SubmitAccept, J!account, J!Submits
<1>3. PICK k \in {"activate", "reset", "forgot", "login", "accept"},
           p \in Password \union {J!NoPassword}, who \in {J!Nobody, "owner", "other"} :
        /\ k = tab[t].page /\ wire' = wire \union {J!Call(t, k, p, who)}
        /\ k \in {"activate", "reset"} => p \in Password /\ tab[t].link # 0
  BY <1>1 DEF J!SubmitPassword, J!SubmitForgot, J!SubmitLogin, J!SubmitAccept, J!Post
<1>4. PICK m : m = J!Call(t, k, p, who)
  OBVIOUS
<1>5. /\ m \in Messages /\ m.tab = t /\ m.kind = k /\ m.stage = "sent"
      /\ m.link = tab[t].link /\ m.password = p
  BY <1>1, <1>4 DEF J!Call, Messages, Tabs
<1>6. m.kind \in {"activate", "reset"} => m.link \in 1 .. Len(link) /\ m.password \in Password
  BY <1>1, <1>3, <1>5 DEF Tabs
<1> QED
  BY <1>2, <1>3, <1>4, <1>5, <1>6, Posts

\* The activation page signs in: it is informed already.
LEMMA TryAgainStep ==
  ASSUME JourneyInv, NEW t \in Tab, J!TryAgain(t)
  PROVE  JourneyInv'
<1>1. /\ UNCHANGED <<active, link, jar, tab, visit>> /\ tab[t].offer = TRUE
      /\ \E p \in Password : wire' = wire \union {J!Call(t, "login", p, "owner")}
  BY DEF J!TryAgain, J!Post, J!account, JourneyInv, JourneyTypes, Tabs
<1>2. PICK p \in Password : wire' = wire \union {J!Call(t, "login", p, "owner")}
  BY <1>1
<1> DEFINE m == J!Call(t, "login", p, "owner")
<1>3. m \in Messages /\ m.tab = t /\ m.kind = "login"
  <2>1. tab[t] \in Tabs
    BY DEF JourneyInv, JourneyTypes
  <2> QED
    BY <2>1 DEF J!Call, Messages, Tabs
<1>4. wire' = wire \union {m}
  BY <1>2
<1> HIDE DEF m
<1>5. Did(t) /\ tab[t].page = "activate" /\ visit[t].informed = TRUE
  BY <1>1 DEF JourneyInv, Told
<1>6. JourneyTypes' /\ Mailed' /\ Told'
  BY <1>1, <1>3, <1>4 DEF JourneyInv, JourneyTypes, Mailed, Told, Form, Did
<1>7. Posted'
  BY <1>1, <1>3, <1>4, <1>5 DEF JourneyInv, Posted, Did, Bears
<1>8. Waiting'
  BY <1>1, <1>3, <1>4, <1>5 DEF JourneyInv, Waiting, Bears
<1> QED
  BY <1>6, <1>7, <1>8 DEF JourneyInv

\* The API answers a message; what it changes, it changes for good.
LEMMA Answered ==
  ASSUME JourneyInv, NEW m \in wire, m.stage = "sent", NEW s \in {"ok", "noEmail", "refused"},
         J!Answer(m, s), UNCHANGED <<jar, tab>>,
         active' \in BOOLEAN, active = TRUE => active' = TRUE,
         link' \in Seq(Links), Len(link) <= Len(link'),
         \A l \in 1 .. Len(link') : "reset" \in link'[l].opens => active' = TRUE,
         IF m.kind \in {"activate", "reset"} /\ s \in {"ok", "noEmail"}
           THEN active' = TRUE /\ J!Effect(m)
           ELSE visit' = visit
  PROVE  JourneyInv'
<1>1. m \in Messages /\ tab \in [Tab -> Tabs] /\ visit \in [Tab -> Tried] /\ wire \subseteq Messages
      /\ Len(link) \in Nat /\ Len(link') \in Nat
  BY DEF JourneyInv, JourneyTypes
<1>2. PICK a : a = [m EXCEPT !.stage = s]
  OBVIOUS
<1>3. /\ a \in Messages /\ a.stage = s /\ a.tab = m.tab /\ a.kind = m.kind /\ a.link = m.link
      /\ a.password = m.password
  BY ONLY <1>1, <1>2, s \in {"ok", "noEmail", "refused"} DEF Messages
<1>4. wire' = (wire \ {m}) \union {a}
  BY <1>2 DEF J!Answer
<1>5. /\ visit' \in [Tab -> Tried]
      /\ \A t \in Tab : /\ visit'[t].lost = visit[t].lost /\ visit'[t].informed = visit[t].informed
                        /\ visit'[t].effect # visit[t].effect =>
                             /\ t = m.tab /\ m.kind \in {"activate", "reset"} /\ s \in {"ok", "noEmail"}
                        /\ visit[t].effect # J!NoPassword => visit'[t].effect # J!NoPassword
      /\ m.kind \in {"activate", "reset"} /\ s \in {"ok", "noEmail"} /\ m.tab # J!Nobody =>
           visit'[m.tab].effect # J!NoPassword
  <2>1. CASE m.kind \in {"activate", "reset"} /\ s \in {"ok", "noEmail"} /\ m.tab # J!Nobody
    <3>1. m.password \in Password /\ m.tab \in Tab
      BY <1>1, <2>1 DEF JourneyInv, Posted, Messages
    <3> DEFINE e == visit[m.tab]
               k == [e EXCEPT !.effect = m.password]
    <3>2. visit' = [visit EXCEPT ![m.tab] = k]
      BY <1>1, <2>1 DEF J!Effect
    <3>3. e \in Tried
      BY <1>1, <3>1
    <3>4. e = visit[m.tab]
      OBVIOUS
    <3> HIDE DEF e
    <3>5. /\ k \in Tried /\ k.lost = e.lost /\ k.informed = e.informed /\ k.effect = m.password
          /\ k.effect # J!NoPassword
      BY ONLY <3>1, <3>3, EntryAssumption DEF Tried
    <3> HIDE DEF k
    <3> QED
      BY ONLY <1>1, <2>1, <3>1, <3>2, <3>4, <3>5
  <2>2. CASE ~(m.kind \in {"activate", "reset"} /\ s \in {"ok", "noEmail"} /\ m.tab # J!Nobody)
    <3>1. visit' = visit
      BY <2>2 DEF J!Effect
    <3> QED
      BY <1>1, <2>2, <3>1
  <2> QED
    BY <2>1, <2>2
<1>6. \A t \in Tab : Did(t) => Did(t)'
  BY <1>5 DEF Did
<1>7. JourneyTypes' /\ Mailed'
  BY <1>1, <1>3, <1>4, <1>5 DEF JourneyInv, JourneyTypes, Mailed, Tabs
<1>8. \A n \in wire : Bears(n)' <=> Bears(n)
  BY DEF Bears
<1>9. Bears(a)' => \/ Bears(m)
                   \/ m.kind \in {"activate", "reset"} /\ s \in {"ok", "noEmail"}
  BY <1>3 DEF Bears
<1>10. Posted'
  <2>1. SUFFICES ASSUME NEW n \in wire'
                 PROVE  /\ n.kind \in {"activate", "reset"} => n.link \in 1 .. Len(link') /\ n.password \in Password
                        /\ n.tab # J!Nobody =>
                             /\ n.kind = tab[n.tab].page \/ (n.kind = "login" /\ tab[n.tab].page = "activate")
                             /\ Bears(n)' => Did(n.tab)'
    BY DEF Posted
  <2>2. \A x \in wire : /\ x.kind \in {"activate", "reset"} => x.link \in 1 .. Len(link) /\ x.password \in Password
                        /\ x.tab # J!Nobody =>
                             /\ x.kind = tab[x.tab].page \/ (x.kind = "login" /\ tab[x.tab].page = "activate")
                             /\ Bears(x) => Did(x.tab)
    BY DEF JourneyInv, Posted
  <2>3. \A l \in 1 .. Len(link) : l \in 1 .. Len(link')
    BY <1>1
  <2>4. CASE n = a
    <3>1. a.tab # J!Nobody => a.tab \in Tab
      BY <1>3 DEF Messages
    <3>2. Bears(a)' /\ a.tab # J!Nobody => Did(a.tab)'
      BY <1>3, <1>5, <1>6, <1>9, <2>2, <3>1 DEF Did
    <3> QED
      BY <1>3, <2>2, <2>3, <2>4, <3>2
  <2>5. CASE n \in wire
    <3>1. n.tab # J!Nobody => n.tab \in Tab
      BY <1>1, <2>5 DEF Messages
    <3> QED
      BY <1>6, <1>8, <2>2, <2>3, <2>5, <3>1
  <2> QED
    BY <1>4, <2>4, <2>5
<1>11. ASSUME NEW t \in Tab, visit[t].lost = FALSE, visit[t].informed = FALSE
       PROVE  /\ \A x, y \in wire : x.tab = t /\ y.tab = t => x = y
              /\ \A x \in wire : x.tab = t => tab[t].waits = TRUE /\ tab[t].told = "nothing"
              /\ visit[t].effect # J!NoPassword => \E x \in wire : x.tab = t /\ Bears(x)
  BY <1>11 DEF JourneyInv, Waiting
<1>12. Told'
  <2>1. SUFFICES ASSUME NEW t \in Tab
                 PROVE  /\ tab[t].offer = TRUE => /\ Did(t)' /\ tab[t].page = "activate" /\ visit'[t].informed = TRUE
                        /\ Form(t) /\ tab[t].told \in {"done", "loginFailed"} => Did(t)'
                        /\ Form(t) /\ tab[t].told = "failed" /\ visit'[t].effect # J!NoPassword =>
                             visit'[t].lost = TRUE \/ visit'[t].informed = TRUE
    BY DEF Told, Form
  <2>2. /\ tab[t].offer = TRUE => /\ Did(t) /\ tab[t].page = "activate" /\ visit[t].informed = TRUE
        /\ Form(t) /\ tab[t].told \in {"done", "loginFailed"} => Did(t)
        /\ Form(t) /\ tab[t].told = "failed" /\ visit[t].effect # J!NoPassword =>
             visit[t].lost = TRUE \/ visit[t].informed = TRUE
    BY DEF JourneyInv, Told
  <2>3. tab[t].told = "failed" /\ visit'[t].effect # J!NoPassword =>
          visit[t].effect # J!NoPassword \/ visit[t].lost # FALSE \/ visit[t].informed # FALSE
    BY <1>5, <1>11
  <2>4. visit[t].lost \in BOOLEAN /\ visit[t].informed \in BOOLEAN
    BY <1>1 DEF Tried
  <2> QED
    BY <1>5, <1>6, <2>2, <2>3, <2>4
<1>13. Waiting'
  <2>1. SUFFICES ASSUME NEW t \in Tab, visit[t].lost = FALSE, visit[t].informed = FALSE
                 PROVE  /\ \A x, y \in wire' : x.tab = t /\ y.tab = t => x = y
                        /\ \A x \in wire' : x.tab = t => tab[t].waits = TRUE /\ tab[t].told = "nothing"
                        /\ visit'[t].effect # J!NoPassword => \E x \in wire' : x.tab = t /\ Bears(x)'
    BY <1>5 DEF Waiting
  <2>2. CASE m.tab = t
    <3>1. \A x \in wire : x.tab = t => x = m
      BY <1>11, <2>1, <2>2
    <3>2. \A x \in wire' : x.tab = t => x = a
      BY <1>4, <3>1
    <3>3. Bears(m) => Bears(a)'
      BY <1>3 DEF Bears
    <3>4. visit'[t].effect # J!NoPassword => Bears(a)'
      <4>1. CASE m.kind \in {"activate", "reset"} /\ s \in {"ok", "noEmail"}
        BY <1>3, <4>1 DEF Bears
      <4>2. CASE visit'[t].effect = visit[t].effect
        BY <1>11, <2>1, <3>1, <3>3, <4>2
      <4> QED
        BY <1>5, <4>1, <4>2
    <3> QED
      BY <1>3, <1>4, <1>11, <2>1, <2>2, <3>2, <3>4
  <2>3. CASE m.tab # t
    <3>1. \A x \in wire' : x.tab = t => x \in wire
      BY <1>3, <1>4, <2>3
    <3>2. \A x \in wire : x.tab = t => x \in wire'
      BY <1>4, <2>3
    <3>3. visit'[t].effect = visit[t].effect
      BY <1>5, <2>3
    <3> QED
      BY <1>8, <1>11, <2>1, <3>1, <3>2, <3>3
  <2> QED
    BY <2>2, <2>3
<1> QED
  BY <1>7, <1>10, <1>12, <1>13 DEF JourneyInv

\* Links are closed, and none is opened by that.
LEMMA Closes ==
  ASSUME JourneyInv, NEW what
  PROVE  /\ J!Close(what) \in Seq(Links) /\ Len(J!Close(what)) = Len(link)
         /\ \A l \in 1 .. Len(link) : J!Close(what)[l].opens \subseteq link[l].opens
<1> DEFINE n == Len(link)
<1>1. n \in Nat /\ \A l \in 1 .. n : link[l] \in Links
  BY DEF JourneyInv, JourneyTypes
<1>2. J!Close(what) = [l \in 1 .. n |-> [link[l] EXCEPT !.opens = @ \ what]]
  BY DEF J!Close
<1> HIDE DEF n
<1>3. ASSUME NEW x \in Links
      PROVE  [x EXCEPT !.opens = @ \ what] \in Links /\ [x EXCEPT !.opens = @ \ what].opens \subseteq x.opens
  BY ONLY <1>3 DEF Links
<1>4. \A l \in 1 .. n : /\ J!Close(what)[l] \in Links
                        /\ J!Close(what)[l].opens \subseteq link[l].opens
  BY <1>1, <1>2, <1>3
<1>5. J!Close(what) \in [1 .. n -> Links]
  BY <1>2, <1>4
<1>6. J!Close(what) \in Seq(Links) /\ Len(J!Close(what)) = n
  BY ONLY <1>1, <1>5
<1> QED
  BY <1>4, <1>6 DEF n

\* A link is added behind the others.
LEMMA Mails ==
  ASSUME JourneyInv, NEW what, NEW x \in Links, link' = Append(J!Close(what), x)
  PROVE  /\ link' \in Seq(Links) /\ Len(link) <= Len(link')
         /\ \A l \in 1 .. Len(link') : "reset" \in link'[l].opens =>
              active = TRUE \/ "reset" \in x.opens
<1> DEFINE c == J!Close(what)
<1>1. /\ c \in Seq(Links) /\ Len(c) = Len(link)
      /\ \A l \in 1 .. Len(link) : c[l].opens \subseteq link[l].opens
  BY Closes
<1>2. \A l \in 1 .. Len(link) : "reset" \in link[l].opens => active = TRUE
  BY DEF JourneyInv, Mailed
<1>3. link' = Append(c, x)
  OBVIOUS
<1> HIDE DEF c
<1>4. /\ link' \in Seq(Links) /\ Len(link') = Len(c) + 1 /\ Len(c) \in Nat
      /\ link'[Len(c) + 1] = x /\ \A l \in 1 .. Len(c) : link'[l] = c[l]
  BY ONLY <1>1, <1>3, x \in Links
<1>5. ASSUME NEW l \in 1 .. Len(link'), "reset" \in link'[l].opens
      PROVE  active = TRUE \/ "reset" \in x.opens
  <2>1. CASE l = Len(c) + 1
    BY <1>4, <1>5, <2>1
  <2>2. CASE l \in 1 .. Len(c)
    BY <1>1, <1>2, <1>4, <1>5, <2>2
  <2>3. l \in 1 .. Len(link') /\ Len(link') = Len(c) + 1 /\ Len(c) \in Nat
    BY <1>4
  <2>4. l = Len(c) + 1 \/ l \in 1 .. Len(c)
    BY ONLY <2>3
  <2> QED
    BY <2>1, <2>2, <2>4
<1>6. Len(link) <= Len(link')
  BY <1>1, <1>4
<1> QED
  BY <1>4, <1>5, <1>6

\* The steps of the API.
LEMMA AnswerSteps ==
  ASSUME JourneyInv, NEW m \in wire,
         J!Activate(m) \/ J!Reset(m) \/ J!RequestReset(m) \/ J!Login(m) \/ J!Accept(m) \/ J!Refuse(m)
  PROVE  JourneyInv'
<1>0. /\ m.stage = "sent" /\ UNCHANGED <<jar, tab>> /\ active \in BOOLEAN /\ link \in Seq(Links)
      /\ Len(link) \in Nat
      /\ \A l \in 1 .. Len(link) : "reset" \in link[l].opens => active = TRUE
  BY DEF J!Activate, J!Reset, J!RequestReset, J!Login, J!Accept, J!Refuse, JourneyInv, JourneyTypes, Mailed
<1>1. CASE J!Activate(m)
  <2>1. PICK s \in {"ok", "noEmail"} : J!Answer(m, s)
    BY <1>1 DEF J!Activate
  <2>2. active' = TRUE /\ link' = J!Close({"activate"}) /\ J!Effect(m) /\ m.kind = "activate"
    BY <1>1 DEF J!Activate
  <2> QED
    BY <1>0, <2>1, <2>2, Closes, Answered
<1>2. CASE J!Reset(m)
  <2>1. m.kind = "reset" /\ J!Answer(m, "ok") /\ J!Effect(m) /\ link' = J!Close({"reset"}) /\ active' = active
    BY <1>2 DEF J!Reset
  <2>2. "reset" \in link[m.link].opens /\ m.link \in 1 .. Len(link)
    BY <1>2, <2>1 DEF J!Reset, J!Opens, JourneyInv, Posted
  <2>3. active = TRUE
    BY <1>0, <2>2
  <2> QED
    BY <1>0, <2>1, <2>3, Closes, Answered
<1>3. CASE J!RequestReset(m)
  <2>1. m.kind = "forgot" /\ J!Answer(m, "ok") /\ UNCHANGED <<active, visit>>
    BY <1>3 DEF J!RequestReset
  <2>2. /\ link' \in Seq(Links) /\ Len(link) <= Len(link')
        /\ \A l \in 1 .. Len(link') : "reset" \in link'[l].opens => active = TRUE
    <3>1. CASE active
      <4>1. PICK x : x = [page |-> "reset", joint |-> FALSE, opens |-> {"reset"}]
        OBVIOUS
      <4>2. x \in Links /\ link' = Append(J!Close({"reset"}), x)
        BY <1>3, <3>1, <4>1 DEF J!RequestReset, Links
      <4> QED
        BY <3>1, <4>2, <1>0, Mails
    <3>2. CASE ~active
      BY <1>0, <1>3, <3>2 DEF J!RequestReset
    <3> QED
      BY <3>1, <3>2
  <2> QED
    BY <1>0, <2>1, <2>2, Answered
<1>4. CASE J!Login(m)
  <2>1. m.kind = "login" /\ J!Answer(m, "ok") /\ UNCHANGED <<active, link, visit>>
    BY <1>4 DEF J!Login, J!account
  <2>2. /\ link' \in Seq(Links) /\ Len(link) <= Len(link') /\ active' \in BOOLEAN
        /\ \A l \in 1 .. Len(link') : "reset" \in link'[l].opens => active' = TRUE
    BY <1>0, <2>1
  <2> QED
    BY <1>0, <2>1, <2>2, Answered
<1>5. CASE J!Accept(m)
  <2>1. m.kind = "accept" /\ J!Answer(m, "ok") /\ UNCHANGED <<active, visit>> /\ link' = J!Close({"accept"})
    BY <1>5 DEF J!Accept
  <2>2. /\ link' \in Seq(Links) /\ Len(link) <= Len(link') /\ active' \in BOOLEAN
        /\ \A l \in 1 .. Len(link') : "reset" \in link'[l].opens => active' = TRUE
    BY <1>0, <2>1, Closes
  <2> QED
    BY <1>0, <2>1, <2>2, Answered
<1>6. CASE J!Refuse(m)
  <2>1. J!Answer(m, "refused") /\ UNCHANGED <<active, link, visit>>
    BY <1>6 DEF J!Refuse, J!account
  <2>2. /\ link' \in Seq(Links) /\ Len(link) <= Len(link') /\ active' \in BOOLEAN
        /\ \A l \in 1 .. Len(link') : "reset" \in link'[l].opens => active' = TRUE
    BY <1>0, <2>1
  <2> QED
    BY <1>0, <2>1, <2>2, Answered
<1> QED
  BY <1>1, <1>2, <1>3, <1>4, <1>5, <1>6

LEMMA ResendStep == ASSUME JourneyInv, J!Resend PROVE JourneyInv'
<1>1. PICK x : x = IF active
                      THEN [page |-> "accept", joint |-> FALSE, opens |-> {"accept"}]
                      ELSE [page |-> "activate", joint |-> TRUE, opens |-> {"activate", "accept"}]
  OBVIOUS
<1>2. x \in Links /\ "reset" \notin x.opens
  BY <1>1 DEF Links
<1>3. link' = Append(J!Close({"activate", "accept"}), x) /\ UNCHANGED <<active, jar, tab, wire, visit>>
  BY <1>1 DEF J!Resend
<1>4. /\ link' \in Seq(Links) /\ Len(link) <= Len(link')
      /\ \A l \in 1 .. Len(link') : "reset" \in link'[l].opens => active = TRUE
  BY <1>2, <1>3, Mails
<1>5. Len(link) \in Nat /\ Len(link') \in Nat /\ \A t \in Tab : tab[t] \in Tabs
  BY <1>4 DEF JourneyInv, JourneyTypes
<1>6. JourneyTypes' /\ Mailed'
  BY <1>3, <1>4, <1>5 DEF JourneyInv, JourneyTypes, Mailed, Tabs
<1>7. Posted'
  BY <1>3, <1>4, <1>5 DEF JourneyInv, Posted, Bears, Did
<1>8. Told' /\ Waiting'
  BY <1>3 DEF JourneyInv, Told, Waiting, Form, Bears, Did
<1> QED
  BY <1>6, <1>7, <1>8 DEF JourneyInv

\* A message is gone from which its page had nothing more to learn, or whose
\* page is left.
LEMMA Gone ==
  ASSUME JourneyInv, NEW m \in wire, m.tab = J!Nobody, wire' = wire \ {m},
         UNCHANGED <<active, link, tab, visit>>, jar' \in {J!Nobody, "owner", "other"}
  PROVE  JourneyInv'
<1>1. \A t \in Tab : t # J!Nobody
  BY EntryAssumption
<1>2. JourneyTypes' /\ Mailed' /\ Told'
  BY DEF JourneyInv, JourneyTypes, Mailed, Told, Form, Did
<1>3. Posted'
  BY DEF JourneyInv, Posted, Bears, Did
<1>4. Waiting'
  BY <1>1 DEF JourneyInv, Waiting, Bears
<1> QED
  BY <1>2, <1>3, <1>4 DEF JourneyInv

LEMMA UnheardStep == ASSUME JourneyInv, NEW m \in wire, J!Unheard(m) PROVE JourneyInv'
<1>1. m \in Messages
  BY DEF JourneyInv, JourneyTypes
<1>2. jar' \in {J!Nobody, "owner", "other"}
  BY <1>1 DEF J!Unheard, Messages, JourneyInv, JourneyTypes
<1>3. m.tab = J!Nobody /\ wire' = wire \ {m} /\ UNCHANGED <<active, link, tab, visit>>
  BY DEF J!Unheard, J!account
<1> QED
  BY <1>2, <1>3, Gone

\* An answer that is lost leaves its page excused.
LEMMA LoseStep == ASSUME JourneyInv, NEW m \in wire, J!Lose(m) PROVE JourneyInv'
<1>1. /\ m \in Messages /\ m.tab \in Tab /\ tab \in [Tab -> Tabs] /\ visit \in [Tab -> Tried]
      /\ wire \subseteq Messages
  BY DEF J!Lose, J!Heard, JourneyInv, JourneyTypes, Messages
<1>2. PICK a : a = [m EXCEPT !.stage = "refused"]
  OBVIOUS
<1>3. /\ a \in Messages /\ a.stage = "refused" /\ a.tab = m.tab /\ a.kind = m.kind /\ a.link = m.link
      /\ a.password = m.password
  BY ONLY <1>1, <1>2 DEF Messages
<1>4. /\ wire' = (wire \ {m}) \union {a} /\ UNCHANGED <<active, link, jar, tab>>
      /\ visit' = [visit EXCEPT ![m.tab].lost = TRUE]
  BY <1>2 DEF J!Lose, J!Answer, J!account
<1>5. /\ visit' \in [Tab -> Tried] /\ visit'[m.tab].lost = TRUE
      /\ \A t \in Tab : /\ visit'[t].effect = visit[t].effect /\ visit'[t].informed = visit[t].informed
                        /\ t # m.tab => visit'[t] = visit[t]
  <2> DEFINE e == visit[m.tab]
             k == [e EXCEPT !.lost = TRUE]
  <2>1. visit' = [visit EXCEPT ![m.tab] = k] /\ e \in Tried
    BY <1>1, <1>4
  <2>2. e = visit[m.tab]
    OBVIOUS
  <2> HIDE DEF e
  <2>3. k \in Tried /\ k.lost = TRUE /\ k.effect = e.effect /\ k.informed = e.informed
    BY ONLY <2>1 DEF Tried
  <2> HIDE DEF k
  <2> QED
    BY ONLY <1>1, <2>1, <2>2, <2>3
<1>6. JourneyTypes' /\ Mailed'
  BY <1>1, <1>3, <1>4, <1>5 DEF JourneyInv, JourneyTypes, Mailed
<1>7. (\A n \in wire : Bears(n)' <=> Bears(n)) /\ (Bears(a)' => Bears(m)) /\ \A t \in Tab : Did(t)' <=> Did(t)
  BY <1>3, <1>4, <1>5 DEF Bears, Did
<1>8. Posted'
  BY <1>1, <1>3, <1>4, <1>7 DEF JourneyInv, Posted, Messages
<1>9. Told'
  BY <1>1, <1>4, <1>5, <1>7 DEF JourneyInv, Told, Form, Tried
<1>10. Waiting'
  <2>1. SUFFICES ASSUME NEW t \in Tab, t # m.tab, visit[t].lost = FALSE, visit[t].informed = FALSE
                 PROVE  /\ \A x, y \in wire' : x.tab = t /\ y.tab = t => x = y
                        /\ \A x \in wire' : x.tab = t => tab[t].waits = TRUE /\ tab[t].told = "nothing"
                        /\ visit[t].effect # J!NoPassword => \E x \in wire' : x.tab = t /\ Bears(x)'
    BY <1>4, <1>5 DEF Waiting
  <2>2. /\ \A x, y \in wire : x.tab = t /\ y.tab = t => x = y
        /\ \A x \in wire : x.tab = t => tab[t].waits = TRUE /\ tab[t].told = "nothing"
        /\ visit[t].effect # J!NoPassword => \E x \in wire : x.tab = t /\ Bears(x)
    BY <2>1 DEF JourneyInv, Waiting
  <2>3. \A x : x.tab = t => (x \in wire' <=> x \in wire)
    BY <1>3, <1>4, <2>1
  <2> QED
    BY <1>4, <1>7, <2>2, <2>3
<1> QED
  BY <1>6, <1>8, <1>9, <1>10 DEF JourneyInv

\* What a page tells when it hears an answer.
LEMMA Hears ==
  ASSUME JourneyInv, NEW m \in wire, m.tab # J!Nobody,
         NEW what \in {"done", "failed", "loginFailed"}, NEW offer \in BOOLEAN,
         J!Tells(m, what, offer), UNCHANGED <<active, link>>,
         offer = TRUE => what = "loginFailed" /\ tab[m.tab].page = "activate" /\ Did(m.tab),
         what # "failed" /\ Form(m.tab) => Did(m.tab),
         what = "failed" => ~Bears(m)
  PROVE  JourneyInv'
<1>1. /\ m \in Messages /\ m.tab \in Tab /\ tab \in [Tab -> Tabs] /\ visit \in [Tab -> Tried]
      /\ wire \subseteq Messages
  BY DEF JourneyInv, JourneyTypes, Messages
<1>2. /\ tab' \in [Tab -> Tabs]
      /\ tab'[m.tab].told = IF Form(m.tab) THEN what ELSE tab[m.tab].told
      /\ tab'[m.tab].offer = TRUE => tab[m.tab].offer = TRUE \/ offer = TRUE
      /\ \A t \in Tab : /\ tab'[t].page = tab[t].page /\ tab'[t].link = tab[t].link
                        /\ t # m.tab => tab'[t] = tab[t]
  <2> DEFINE e == tab[m.tab]
             w == IF e.page \in {"activate", "reset"} THEN what ELSE e.told
             k == [[[e EXCEPT !.told = w] EXCEPT !.waits = FALSE] EXCEPT !.offer = e.offer \/ offer]
  <2>1. e \in Tabs /\ tab' = [tab EXCEPT ![m.tab] = k]
    BY <1>1 DEF J!Tells, Tabs
  <2>2. e = tab[m.tab] /\ w = IF Form(m.tab) THEN what ELSE e.told
    BY DEF Form
  <2>3. w \in {"nothing", "done", "failed", "loginFailed"}
    BY <2>1 DEF Tabs
  <2> HIDE DEF e, w
  <2>4. /\ k \in Tabs /\ k.told = w /\ k.page = e.page /\ k.link = e.link
        /\ k.offer = TRUE => e.offer = TRUE \/ offer = TRUE
    BY ONLY <2>1, <2>3, offer \in BOOLEAN DEF Tabs
  <2> HIDE DEF k
  <2> QED
    BY <1>1, <2>1, <2>2, <2>4
<1>3. /\ visit' \in [Tab -> Tried]
      /\ what # "failed" => visit'[m.tab].informed = TRUE
      /\ \A t \in Tab : /\ visit'[t].effect = visit[t].effect /\ visit'[t].lost = visit[t].lost
                        /\ visit[t].informed = TRUE => visit'[t].informed = TRUE
                        /\ t # m.tab => visit'[t] = visit[t]
  <2> DEFINE e == visit[m.tab]
             k == [e EXCEPT !.informed = @ \/ what \in {"done", "loginFailed"}]
  <2>1. e \in Tried /\ visit' = [visit EXCEPT ![m.tab] = k]
    BY <1>1 DEF J!Tells
  <2>2. e = visit[m.tab]
    OBVIOUS
  <2> HIDE DEF e
  <2>3. /\ k \in Tried /\ k.effect = e.effect /\ k.lost = e.lost
        /\ what # "failed" => k.informed = TRUE
        /\ e.informed = TRUE => k.informed = TRUE
    BY ONLY <2>1, what \in {"done", "failed", "loginFailed"} DEF Tried
  <2> HIDE DEF k
  <2> QED
    BY ONLY <1>1, <2>1, <2>2, <2>3
<1>4. wire' = wire \ {m} /\ UNCHANGED <<active, link, jar>>
  BY DEF J!Tells
<1>5. JourneyTypes' /\ Mailed'
  BY <1>2, <1>3, <1>4 DEF JourneyInv, JourneyTypes, Mailed
<1>6. (\A n \in wire : n.tab # J!Nobody => (Bears(n)' <=> Bears(n))) /\ \A t \in Tab : Did(t)' <=> Did(t)
  BY <1>1, <1>2, <1>3, <1>4 DEF Bears, Did, Messages
<1>7. Posted'
  BY <1>1, <1>2, <1>4, <1>6 DEF JourneyInv, Posted, Messages
\* Who is not informed has no message left, and did nothing.
<1>8. visit'[m.tab].informed = FALSE /\ visit[m.tab].lost = FALSE =>
        /\ visit[m.tab].effect = J!NoPassword
        /\ \A x \in wire : x.tab = m.tab => x = m
  <2>1. SUFFICES ASSUME visit'[m.tab].informed = FALSE, visit[m.tab].lost = FALSE
                 PROVE  /\ visit[m.tab].effect = J!NoPassword
                        /\ \A x \in wire : x.tab = m.tab => x = m
    OBVIOUS
  <2>2. what = "failed" /\ visit[m.tab].informed = FALSE
    BY <1>1, <1>3, <2>1 DEF Tried
  <2>3. /\ \A x, y \in wire : x.tab = m.tab /\ y.tab = m.tab => x = y
        /\ visit[m.tab].effect # J!NoPassword => \E x \in wire : x.tab = m.tab /\ Bears(x)
    BY <1>1, <2>1, <2>2 DEF JourneyInv, Waiting
  <2> QED
    BY <2>2, <2>3
<1>9. Told'
  <2>1. SUFFICES ASSUME NEW t \in Tab
                 PROVE  /\ tab'[t].offer = TRUE => /\ Did(t)' /\ tab'[t].page = "activate" /\ visit'[t].informed = TRUE
                        /\ Form(t)' /\ tab'[t].told \in {"done", "loginFailed"} => Did(t)'
                        /\ Form(t)' /\ tab'[t].told = "failed" /\ visit'[t].effect # J!NoPassword =>
                             visit'[t].lost = TRUE \/ visit'[t].informed = TRUE
    BY DEF Told
  <2>2. /\ tab[t].offer = TRUE => /\ Did(t) /\ tab[t].page = "activate" /\ visit[t].informed = TRUE
        /\ Form(t) /\ tab[t].told \in {"done", "loginFailed"} => Did(t)
        /\ Form(t) /\ tab[t].told = "failed" /\ visit[t].effect # J!NoPassword =>
             visit[t].lost = TRUE \/ visit[t].informed = TRUE
    BY DEF JourneyInv, Told
  <2>3. Form(t)' <=> Form(t)
    BY <1>2 DEF Form
  <2>4. CASE t # m.tab
    BY <1>2, <1>3, <1>6, <2>2, <2>3, <2>4
  <2>5. CASE t = m.tab
    <3>1. visit'[t].lost \in BOOLEAN /\ visit'[t].informed \in BOOLEAN
      BY <1>3 DEF Tried
    <3> QED
      BY <1>2, <1>3, <1>6, <1>8, <2>2, <2>3, <2>5, <3>1
  <2> QED
    BY <2>4, <2>5
<1>10. Waiting'
  <2>1. SUFFICES ASSUME NEW t \in Tab, visit'[t].lost = FALSE, visit'[t].informed = FALSE
                 PROVE  /\ \A x, y \in wire' : x.tab = t /\ y.tab = t => x = y
                        /\ \A x \in wire' : x.tab = t => tab'[t].waits = TRUE /\ tab'[t].told = "nothing"
                        /\ visit'[t].effect # J!NoPassword => \E x \in wire' : x.tab = t /\ Bears(x)'
    BY DEF Waiting
  <2>2. CASE t = m.tab
    BY <1>3, <1>4, <1>8, <2>1, <2>2
  <2>3. CASE t # m.tab
    <3>1. visit'[t] = visit[t] /\ tab'[t] = tab[t] /\ t # J!Nobody
      BY <1>2, <1>3, <2>3, EntryAssumption
    <3>2. /\ \A x, y \in wire : x.tab = t /\ y.tab = t => x = y
          /\ \A x \in wire : x.tab = t => tab[t].waits = TRUE /\ tab[t].told = "nothing"
          /\ visit[t].effect # J!NoPassword => \E x \in wire : x.tab = t /\ Bears(x)
      BY <2>1, <3>1 DEF JourneyInv, Waiting
    <3> QED
      BY <1>4, <1>6, <2>3, <3>1, <3>2
  <2> QED
    BY <2>2, <2>3
<1> QED
  BY <1>5, <1>7, <1>9, <1>10 DEF JourneyInv

\* The activation page goes on to sign in.
LEMMA GoesOn ==
  ASSUME JourneyInv, NEW m \in wire, m.kind = "activate", m.tab # J!Nobody, Bears(m),
         wire' = (wire \ {m}) \union {J!Call(m.tab, "login", m.password, "owner")},
         UNCHANGED <<active, link, jar, tab, visit>>
  PROVE  JourneyInv'
<1>0. PICK c : c = J!Call(m.tab, "login", m.password, "owner")
  OBVIOUS
<1>1. m \in Messages /\ m.tab \in Tab /\ tab[m.tab] \in Tabs
  BY DEF JourneyInv, JourneyTypes, Messages
<1>2. c \in Messages /\ c.tab = m.tab /\ c.kind = "login"
  BY <1>0, <1>1 DEF J!Call, Messages, Tabs
<1>3. wire' = (wire \ {m}) \union {c}
  BY <1>0
<1>4. tab[m.tab].page = "activate" /\ Did(m.tab)
  BY DEF JourneyInv, Posted
<1>5. JourneyTypes' /\ Mailed' /\ Told'
  BY <1>2, <1>3 DEF JourneyInv, JourneyTypes, Mailed, Told, Form, Did
<1>6. Posted'
  BY <1>2, <1>3, <1>4 DEF JourneyInv, Posted, Bears, Did
<1>7. Waiting'
  <2>1. SUFFICES ASSUME NEW t \in Tab, visit[t].lost = FALSE, visit[t].informed = FALSE
                 PROVE  /\ \A x, y \in wire' : x.tab = t /\ y.tab = t => x = y
                        /\ \A x \in wire' : x.tab = t => tab[t].waits = TRUE /\ tab[t].told = "nothing"
                        /\ visit[t].effect # J!NoPassword => \E x \in wire' : x.tab = t /\ Bears(x)'
    BY DEF Waiting
  <2>2. /\ \A x, y \in wire : x.tab = t /\ y.tab = t => x = y
        /\ \A x \in wire : x.tab = t => tab[t].waits = TRUE /\ tab[t].told = "nothing"
        /\ visit[t].effect # J!NoPassword => \E x \in wire : x.tab = t /\ Bears(x)
    BY <2>1 DEF JourneyInv, Waiting
  <2>3. Bears(c)' /\ \A x \in wire : Bears(x)' <=> Bears(x)
    BY <1>2, <1>4 DEF Bears
  <2> QED
    BY <1>2, <1>3, <2>2, <2>3
<1> QED
  BY <1>5, <1>6, <1>7 DEF JourneyInv

\* The pages hear the answers.
LEMMA HearSteps ==
  ASSUME JourneyInv, NEW m \in wire, J!Activated(m) \/ J!Settled(m) \/ J!Refused(m)
  PROVE  JourneyInv'
<1>1. /\ m.tab # J!Nobody /\ UNCHANGED <<active, link>>
      /\ m.kind = tab[m.tab].page \/ (m.kind = "login" /\ tab[m.tab].page = "activate")
      /\ Bears(m) => Did(m.tab)
  BY DEF J!Activated, J!Settled, J!Refused, J!Heard, J!account, JourneyInv, Posted
<1>2. CASE J!Activated(m)
  <2>1. m.kind = "activate" /\ Bears(m)
    BY <1>2 DEF J!Activated, J!Heard, Bears
  <2>2. \/ J!Tells(m, "done", FALSE) \/ J!Tells(m, "loginFailed", FALSE)
        \/ /\ wire' = (wire \ {m}) \union {J!Call(m.tab, "login", m.password, "owner")}
           /\ UNCHANGED <<jar, tab, visit>>
    BY <1>2 DEF J!Activated
  <2>3. CASE J!Tells(m, "done", FALSE) \/ J!Tells(m, "loginFailed", FALSE)
    BY <1>1, <2>1, <2>3, Hears
  <2>4. CASE /\ wire' = (wire \ {m}) \union {J!Call(m.tab, "login", m.password, "owner")}
             /\ UNCHANGED <<jar, tab, visit>>
    BY <1>1, <2>1, <2>4, GoesOn
  <2> QED
    BY <2>2, <2>3, <2>4
<1>3. CASE J!Settled(m)
  <2>1. m.kind \in {"reset", "forgot"} /\ m.stage = "ok" /\ J!Tells(m, "done", FALSE)
    BY <1>3 DEF J!Settled, J!Heard
  <2>2. Form(m.tab) => Did(m.tab)
    BY <1>1, <2>1 DEF Form, Bears
  <2> QED
    BY <1>1, <2>1, <2>2, Hears
<1>4. CASE J!Refused(m)
  <2>1. CASE m.kind = "login" /\ tab[m.tab].page = "activate"
    <3>1. J!Tells(m, "loginFailed", TRUE) /\ Bears(m)
      BY <1>4, <2>1 DEF J!Refused, Bears
    <3> QED
      BY <1>1, <2>1, <3>1, Hears
  <2>2. CASE ~(m.kind = "login" /\ tab[m.tab].page = "activate")
    <3>1. J!Tells(m, "failed", FALSE) /\ ~Bears(m)
      BY <1>4, <2>2 DEF J!Refused, J!Heard, Bears
    <3> QED
      BY <1>1, <3>1, Hears
  <2> QED
    BY <2>1, <2>2
<1> QED
  BY <1>2, <1>3, <1>4

LEMMA JourneySteps == JourneyInv /\ [J!Next]_journey => JourneyInv'
<1> SUFFICES ASSUME JourneyInv, [J!Next]_journey PROVE JourneyInv'
  OBVIOUS
<1>1. CASE \E t \in Tab : \/ J!OpenLink(t) \/ J!OpenPage(t) \/ J!Reload(t)
                          \/ J!SubmitPassword(t) \/ J!SubmitForgot(t) \/ J!SubmitLogin(t)
                          \/ J!SubmitAccept(t) \/ J!TryAgain(t) \/ J!ContinueToSignIn(t)
  BY <1>1, LeaveSteps, SubmitSteps, TryAgainStep
<1>2. CASE \E m \in wire :
             \/ J!Activate(m) \/ J!Reset(m) \/ J!RequestReset(m) \/ J!Login(m) \/ J!Accept(m)
             \/ J!Refuse(m) \/ J!Activated(m) \/ J!Settled(m) \/ J!SignedIn(m) \/ J!Accepted(m)
             \/ J!Refused(m) \/ J!Lose(m) \/ J!Unheard(m)
  BY <1>2, AnswerSteps, HearSteps, LeaveSteps, LoseStep, UnheardStep
<1>3. CASE UNCHANGED journey
  BY <1>3 DEF journey, JourneyInv, JourneyTypes, Mailed, Posted, Told, Waiting, Form, Bears, Did
<1> QED
  BY <1>1, <1>2, <1>3, ResendStep DEF J!Next

(* In any number of tabs, with any number of links and of requests in      *)
(* flight, and however answers are late or lost: a page that offers to go  *)
(* on or reports success has itself done it, and one whose command took    *)
(* effect reports a failure only after a loss or a success reported.       *)
THEOREM PagesKnow == EntrySpec => []PagesKnowWhatTheyDid
<1>1. EntryInit => JourneyInv
  BY JourneyStarts DEF EntryInit
<1>2. JourneyInv /\ [EntryNext]_<<part, vars, lifetime, journey, bootstrap, isolation>>
        => JourneyInv'
  BY EachItsOwn, JourneySteps
<1>3. JourneyInv => PagesKnowWhatTheyDid
  <2>1. SUFFICES ASSUME JourneyInv, NEW t \in Tab
                 PROVE  /\ tab[t].offer \/ (Form(t) /\ tab[t].told \in {"done", "loginFailed"})
                              => visit[t].effect # J!NoPassword /\ active
                        /\ Form(t) /\ tab[t].told = "failed" /\ visit[t].effect # J!NoPassword
                              => visit[t].lost \/ visit[t].informed
    BY DEF PagesKnowWhatTheyDid, J!PagesKnowWhatTheyDid, Form
  <2>2. tab[t] \in Tabs /\ visit[t] \in Tried
    BY <2>1 DEF JourneyInv, JourneyTypes
  <2> QED
    BY <2>1, <2>2 DEF JourneyInv, Told, Did, Tabs, Tried
<1> QED
  BY <1>1, <1>2, <1>3, PTL DEF EntrySpec
=============================================================================
