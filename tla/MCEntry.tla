------------------------------ MODULE MCEntry -------------------------------
(* An instance for TLC of five modules side by side, what lets a user in   *)
(* and to which rows: the tokens of his session, its expiry while it       *)
(* rests, the pages through which he gets it, the platform's first         *)
(* administrator, and the isolation of tenants.  Each behaviour is one of  *)
(* a single module, the others rest.                                       *)
EXTENDS SessionRotation, TLC

CONSTANTS
  Visit, Idle, Absolute, Coalesce, MaxFlight, MaxTime,   \* SessionLifetime
  Tab, Password, MaxLinks, MaxCalls,                     \* OwnerJourney
  Operator, Seeder, Email, Host,                         \* PlatformBootstrap
  Tenant, Query, Connection, Required, MaxMigrations     \* TenantIsolation

VARIABLES
  part,       \* the module that runs
  now, alive, idle, seen, invited, call, used, answered, vouched,
  active, secret, joined, link, jar, tab, wire, visit,
  role, granted, user, admin, first, bootPc, email, host, saw, seedPc,
  catalog, migrations, accepted, connection, queryPc, of, on, checked, touched

L == INSTANCE SessionLifetime WITH Request <- Visit
J == INSTANCE OwnerJourney
B == INSTANCE PlatformBootstrap WITH link <- first, pc <- bootPc
I == INSTANCE TenantIsolation WITH Request <- Query, pc <- queryPc

lifetime == <<now, alive, idle, seen, invited, call, used, answered, vouched>>
journey == <<active, secret, joined, link, jar, tab, wire, visit>>
bootstrap == <<role, granted, user, admin, first, bootPc, email, host, saw, seedPc>>
isolation == <<catalog, migrations, accepted, connection, queryPc, of, on, checked, touched>>

ASSUME EntryAssumption ==
  /\ {Idle, Absolute, Coalesce, MaxFlight, MaxTime, MaxMigrations} \subseteq Nat
  /\ 0 < Coalesce /\ Idle <= Absolute                     \* session-expiry.ts
  /\ Required \subseteq {"SELECT", "INSERT", "UPDATE", "DELETE"}   \* TenantTablePrivilege
  /\ I!None \notin Connection
  /\ J!Nobody \notin Tab /\ J!NoPassword \notin Password

Manifest == {"SELECT", "INSERT", "UPDATE", "DELETE"}
\* The sets of two are named alike and exchanged together.
Symmetry == Permutations(Tab)

EntryInit ==
  /\ part \in {"sessions", "lifetime", "journey", "bootstrap", "isolation"}
  /\ Init /\ L!Init /\ J!Init /\ B!Init /\ I!Init
  /\ part # "sessions" => state = "active"
  /\ part # "lifetime" => invited = "no"
  /\ part # "journey" => DOMAIN link = {1}
  /\ part # "bootstrap" => user = [e \in Email |-> "none"]
EntryNext ==
  \/ part = "sessions" /\ Next /\ UNCHANGED <<part, lifetime, journey, bootstrap, isolation>>
  \/ part = "lifetime" /\ L!Next /\ UNCHANGED <<part, vars, journey, bootstrap, isolation>>
  \/ part = "journey" /\ J!Next /\ UNCHANGED <<part, vars, lifetime, bootstrap, isolation>>
  \/ part = "bootstrap" /\ B!Next /\ UNCHANGED <<part, vars, lifetime, journey, isolation>>
  \/ part = "isolation" /\ I!Next /\ UNCHANGED <<part, vars, lifetime, journey, bootstrap>>
EntrySpec ==
  EntryInit /\ [][EntryNext]_<<part, vars, lifetime, journey, bootstrap, isolation>>

(* A session that nobody used for the idle interval lets nobody in, and    *)
(* one that was used is not ended early but for coalesced touches.         *)
ExpiresWhenUnused == L!ExpiresWhenUnused

(* A page that offers to go on, or reports a success, achieved it; one     *)
(* whose command took effect reports a failure only after losing the       *)
(* answer.                                                                 *)
PagesKnowWhatTheyDid == J!PagesKnowWhatTheyDid

(* However often the command is run, there is one first administrator, who *)
(* is active or holds the one link that he is ever issued.                 *)
OneAdministratorOneLink == B!OneAdministratorOneLink

(* A catalog that the verifier accepts shows a session only the rows of    *)
(* its own tenant.                                                         *)
AcceptedCatalogIsolates == I!AcceptedCatalogIsolates
=============================================================================
