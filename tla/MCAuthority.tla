---------------------------- MODULE MCAuthority -----------------------------
(* An instance for TLC of modules side by side that decide what a member   *)
(* may do, and of the console's pages where he does it: his system role    *)
(* and status, the custom roles the tenant's owners edit, the proofs       *)
(* against cross-site requests, the pages of members and sessions and the  *)
(* page that creates a tenant.  Each behaviour is one of a single module,  *)
(* the others rest.  Requests and edits are interchangeable, members are   *)
(* ordered.                                                                *)
EXTENDS TenantOwnership, TLC

CONSTANTS
  Edit, EditAsked, Editor, Role, Permission,                       \* TenantRbac
  Command, Process, Console, CommandAsked, Window, Lifetime,       \* CsrfProof
  MaxSkew, MaxTime,
  Person, Viewer, Device, OwnDevice, MaxLoads, MaxLate, MaxElsewhere,  \* ConsolePages
  Operator, NewSlug, NewOwner, MaxSubmits                          \* TenantCreatePage

VARIABLES
  part,       \* the module that runs
  customRole, holds, editor, editPc, edit, seen, context, found, locked,
  now, skew, listed, allowed, signedIn, command, stage, proof, issue, verdict,
  page, standing, systemRole, alive, load, shown, doing, inviting, late, told, elsewhere,
  shownBy, latest, dead,
  visit, sent, form, wire, tenants

R == INSTANCE TenantRbac WITH
       Request <- Edit, Asked <- EditAsked, Member <- Editor,
       role <- customRole, member <- editor, pc <- editPc, call <- edit
C == INSTANCE CsrfProof WITH
       Call <- Command, Api <- Process, Host <- Console, Asked <- CommandAsked,
       Ttl <- Lifetime, call <- command
P == INSTANCE ConsolePages WITH
       Member <- Person, Session <- Device, Own <- OwnDevice,
       MaxChanges <- MaxElsewhere, role <- systemRole, status <- standing,
       changes <- elsewhere
T == INSTANCE TenantCreatePage WITH Admin <- Operator, Slug <- NewSlug, Owner <- NewOwner

ASSUME AuthorityAssumption ==   \* a tenant exists to have members, roles and pages
  /\ Editor # {} /\ Role # {} /\ EditAsked \subseteq R!Kinds
  /\ CommandAsked \subseteq C!Kinds /\ Window \in Nat \ {0}
  /\ {Lifetime, MaxSkew, MaxTime, MaxLoads, MaxLate, MaxElsewhere, MaxSubmits} \subseteq Nat
  /\ Viewer \in Person /\ OwnDevice \in Device
  /\ NewSlug # {} /\ NewOwner # {}

rbac == <<customRole, holds, editor, editPc, edit, seen, context, found, locked>>
csrf == <<now, skew, listed, allowed, signedIn, command, stage, proof, issue, verdict>>
pages == <<page, standing, systemRole, alive, load, shown, doing, inviting, late, told,
           elsewhere, shownBy, latest, dead>>
create == <<visit, sent, form, wire, tenants>>
Members == {1, 2, 3}
Pair == {1, 2}
Symmetry == Permutations(Request) \union Permutations(Edit)

AuthorityInit ==
  /\ part \in {"ownership", "rbac", "csrf", "pages", "create"}
  /\ Init
  /\ \A m \in Member : status[m] # "revoked"   \* like one who was never invited
  /\ part # "ownership" => tenant = "active" /\ \A m \in Member : role[m] = "owner"
  /\ R!Init
  /\ \A m \in Editor : editor[m].owner     \* others are demoted later
  /\ part # "rbac" => \A x \in Role : customRole[x] = R!NoRole
  /\ C!Init
  /\ part # "csrf" => listed = {} /\ \A a \in Process : skew[a] = 0
  /\ P!Init
  /\ part # "pages" => page = "security"
  /\ T!Init
AuthorityNext ==
  \/ part = "ownership" /\ Next /\ UNCHANGED <<part, rbac, csrf, pages, create>>
  \/ part = "rbac" /\ R!Next /\ UNCHANGED <<part, vars, csrf, pages, create>>
  \/ part = "csrf" /\ C!Next /\ UNCHANGED <<part, vars, rbac, pages, create>>
  \/ part = "pages" /\ P!Next /\ UNCHANGED <<part, vars, rbac, csrf, create>>
  \/ part = "create" /\ T!Next /\ UNCHANGED <<part, vars, rbac, csrf, pages>>
AuthoritySpec == AuthorityInit /\ [][AuthorityNext]_<<part, vars, rbac, csrf, pages, create>>

(* A request that carries a membership's current version carries its       *)
(* current role and custom permissions.                                    *)
VersionsTellAuthority == VersionTellsAuthority /\ R!VersionTellsAuthority

(* Archiving a role takes it from everybody, and nobody is granted one     *)
(* that is archived.                                                       *)
ArchivedRolesAreHeldByNobody == R!ArchivedRolesAreHeldByNobody

(* No edit of a role takes effect on authority that has lapsed.            *)
ActsOnCurrentAuthority == R!ActsOnCurrentAuthority

(* An editor never overwrites a change he has not seen.                    *)
NoChangeIsOverwrittenUnseen == R!NoChangeIsOverwrittenUnseen

(* A proof against cross-site requests lives its time, across boundaries   *)
(* and whichever process verifies it.                                      *)
ProofsLiveTheirTime == C!ProofsLiveTheirTime

(* A page at rest that tells of no error shows every change that the API   *)
(* made while the page awaited it.                                         *)
PagesShowTheirOwnWork == P!PagesShowTheirOwnWork

(* A change the page of members offers is refused only if something        *)
(* changed since the page read it.                                         *)
OffersWhatIsPermitted == P!OffersWhatIsPermitted

(* A visit to the page that creates a tenant makes one, however often it   *)
(* submits.                                                                *)
AVisitMakesOneTenant == T!AVisitMakesOneTenant
=============================================================================
