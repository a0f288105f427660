------------------------- MODULE PlatformBootstrap --------------------------
(***************************************************************************)
(* The first administrator of a booking-os installation.  A command line   *)
(* creates him, run by operators who may run it again or at the same time; *)
(* a seed, run with every deployment, writes the role he gets and its      *)
(* permissions.  The bootstrap is one transaction behind an advisory lock; *)
(* the seed is not a transaction.                                          *)
(***************************************************************************)
CONSTANTS
  Operator,   \* who run the bootstrap, again and again
  Seeder,     \* deployments, each seeding once
  Email,      \* addresses configured as the administrator's
  Host        \* hostnames given on the command line

NoEmail == "nobody"

VARIABLES
  role,       \* the seed's platform_admin role exists
  granted,    \* with all of its permissions
  user,       \* the status of each address's user
  admin,      \* the addresses with the role assigned
  link,       \* the latest activation link per address and host
  pc, email, host,
  saw,        \* the status of the user that a bootstrap read
  seedPc

vars == <<role, granted, user, admin, link, pc, email, host, saw, seedPc>>
run == <<pc, email, host, saw>>

(* Users may be there already; "active" stands for every status a user has *)
(* after he was activated.                                                 *)
Init ==
  /\ role = FALSE /\ granted = FALSE
  /\ user \in [Email -> {"none", "pending", "active"}]
  /\ admin = {}
  /\ link = [e \in Email |-> [h \in Host |-> "none"]]
  /\ pc = [o \in Operator |-> "idle"]
  /\ email = [o \in Operator |-> NoEmail] /\ host = [o \in Operator |-> NoEmail]
  /\ saw = [o \in Operator |-> "none"]
  /\ seedPc = [s \in Seeder |-> "role"]
-----------------------------------------------------------------------------
(* The seed: upsert the role, delete its permissions, insert them.  Each   *)
(* is a transaction of its own; if two seeds delete and then insert, the   *)
(* second insert finds the rows there and fails.                           *)
SeedRole(s) ==
  /\ seedPc[s] = "role" /\ role' = TRUE
  /\ seedPc' = [seedPc EXCEPT ![s] = "clear"]
  /\ UNCHANGED <<granted, user, admin, link, run>>
ClearPermissions(s) ==
  /\ seedPc[s] = "clear" /\ granted' = FALSE
  /\ seedPc' = [seedPc EXCEPT ![s] = "grant"]
  /\ UNCHANGED <<role, user, admin, link, run>>
GrantPermissions(s) ==
  /\ seedPc[s] = "grant" /\ granted' = TRUE     \* TRUE already if it fails
  /\ seedPc' = [seedPc EXCEPT ![s] = IF granted THEN "failed" ELSE "done"]
  /\ UNCHANGED <<role, user, admin, link, run>>
SeedBreaks(s) ==
  /\ seedPc[s] \in {"role", "clear", "grant"}
  /\ seedPc' = [seedPc EXCEPT ![s] = IF @ = "role" THEN "failed" ELSE "broken"]
  /\ UNCHANGED <<role, granted, user, admin, link, run>>
-----------------------------------------------------------------------------
(* The bootstrap.                                                          *)

Go(o, label) == pc' = [pc EXCEPT ![o] = label]
Running(o) == pc[o] \in {"assignment", "role", "user", "write"}   \* has the lock

Start(o) ==
  /\ pc[o] = "idle" /\ Go(o, "lock")
  /\ \E e \in Email, h \in Host : email' = [email EXCEPT ![o] = e] /\ host' = [host EXCEPT ![o] = h]
  /\ UNCHANGED <<role, granted, user, admin, link, saw, seedPc>>
\* Faulty variant: no advisory lock.
LockWithoutWaiting(o) ==
  /\ pc[o] = "lock"
  /\ Go(o, "assignment")
  /\ UNCHANGED <<role, granted, user, admin, link, email, host, saw, seedPc>>
Lock(o) ==
  /\ pc[o] = "lock" /\ \A q \in Operator : ~Running(q)
  /\ Go(o, "assignment")
  /\ UNCHANGED <<role, granted, user, admin, link, email, host, saw, seedPc>>
\* Somebody is: with the same address that is all there is to do, with
\* another it is an error.
FindAssignment(o) ==
  /\ pc[o] = "assignment"
  /\ Go(o, IF admin = {} THEN "role" ELSE "idle")
  /\ UNCHANGED <<role, granted, user, admin, link, email, host, saw, seedPc>>
FindRole(o) ==
  /\ pc[o] = "role" /\ Go(o, IF role THEN "user" ELSE "idle")
  /\ UNCHANGED <<role, granted, user, admin, link, email, host, saw, seedPc>>
FindUser(o) ==
  /\ pc[o] = "user" /\ Go(o, "write")
  /\ saw' = [saw EXCEPT ![o] = user[email[o]]]
  /\ UNCHANGED <<role, granted, user, admin, link, email, host, seedPc>>
\* A new user and one who was pending get a link for this host; what an
\* earlier one for this host would open is over.
Create(o) ==
  LET e == email[o] IN
  /\ pc[o] = "write" /\ Go(o, "idle")
  /\ saw[o] = "none" => user[e] = "none"       \* else the address is taken
  /\ user' = [user EXCEPT ![e] = IF saw[o] = "none" THEN "pending" ELSE @]
  /\ admin' = admin \union {e}
  /\ link' = IF saw[o] = "active" THEN link ELSE [link EXCEPT ![e][host[o]] = "live"]
  /\ UNCHANGED <<role, granted, email, host, saw, seedPc>>
Fail(o) ==   \* the transaction times out, in the queue for the lock too
  /\ pc[o] # "idle" /\ Go(o, "idle")
  /\ UNCHANGED <<role, granted, user, admin, link, email, host, saw, seedPc>>
-----------------------------------------------------------------------------
(* Around it: links are used or expire, and other workflows create users   *)
(* and invite them.                                                        *)

Expire(e, h) ==
  /\ link[e][h] = "live" /\ link' = [link EXCEPT ![e][h] = "expired"]
  /\ UNCHANGED <<role, granted, user, admin, run, seedPc>>
UseLink(e, h) ==
  /\ link[e][h] = "live" /\ link' = [link EXCEPT ![e][h] = "used"]
  /\ user' = [user EXCEPT ![e] = "active"]
  /\ UNCHANGED <<role, granted, admin, run, seedPc>>
Provision(e) ==
  /\ user[e] = "none" /\ user' = [user EXCEPT ![e] = "pending"]
  /\ UNCHANGED <<role, granted, admin, link, run, seedPc>>
UseInvitation(e) ==
  /\ user[e] = "pending" /\ user' = [user EXCEPT ![e] = "active"]
  /\ UNCHANGED <<role, granted, admin, link, run, seedPc>>
-----------------------------------------------------------------------------
Step(o) == Lock(o) \/ FindAssignment(o) \/ FindRole(o) \/ FindUser(o) \/ Create(o)
Next ==
  \/ \E s \in Seeder : SeedRole(s) \/ ClearPermissions(s) \/ GrantPermissions(s) \/ SeedBreaks(s)
  \/ \E o \in Operator : Start(o) \/ Step(o) \/ Fail(o)
  \/ \E e \in Email : \/ Provision(e) \/ UseInvitation(e)
                      \/ \E h \in Host : Expire(e, h) \/ UseLink(e, h)

Spec == Init /\ [][Next]_vars
-----------------------------------------------------------------------------
(* Variables have their types, and one bootstrap has the lock.             *)
TypeOK ==
  /\ role \in BOOLEAN /\ granted \in BOOLEAN
  /\ user \in [Email -> {"none", "pending", "active"}]
  /\ admin \subseteq Email
  /\ link \in [Email -> [Host -> {"none", "live", "expired", "used"}]]
  /\ pc \in [Operator -> {"idle", "lock", "assignment", "role", "user", "write"}]
  /\ email \in [Operator -> Email \union {NoEmail}] /\ host \in [Operator -> Host \union {NoEmail}]
  /\ saw \in [Operator -> {"none", "pending", "active"}]
  /\ seedPc \in [Seeder -> {"role", "clear", "grant", "done", "failed", "broken"}]
  /\ \A o, q \in Operator : Running(o) /\ Running(q) => o = q

\* Whom the command may have left behind.
Administrator ==
  /\ \A d, e \in admin : d = e
  /\ \A e \in admin : \/ user[e] = "active"
                      \/ user[e] = "pending" /\ \E h \in Host : link[e][h] \in {"live", "expired"}
  /\ admin # {} => \/ granted
                   \/ \E s \in Seeder : seedPc[s] \in {"clear", "grant", "broken"}

(* However often and with whichever addresses the command is run, there is *)
(* one first administrator.  If he has yet to be activated he holds a link *)
(* that is live or has expired, and no run of the command issues him       *)
(* another, so that one that has expired is not replaced.  He may do what  *)
(* a platform administrator may, except while a deployment writes the      *)
(* permissions anew or after one broke off doing so.                       *)
OneAdministratorOneLink ==
  [][/\ Administrator'
     /\ \A e \in admin, h \in Host : link'[e][h] = "live" => link[e][h] = "live"]_vars
=============================================================================
