----------------------------- MODULE Onboarding -----------------------------
(***************************************************************************)
(* How tenants and their members come to be: the platform provisions a     *)
(* tenant with an invited owner, owners' and administrators' invitations   *)
(* are issued, resent and accepted.  Requests are made once each and run   *)
(* concurrently; each is one READ COMMITTED transaction whose writes       *)
(* appear at its commit and whose row locks are operators of pc.  An       *)
(* invitation is named after the request that issued it, a tenant after    *)
(* its slug and a user after the e-mail address.                           *)
(***************************************************************************)
CONSTANTS
  Request, Email, Slug,
  Key,        \* idempotency keys
  None        \* no request, and a field that a request leaves out

VARIABLES
  user,        \* users.status
  tenant,      \* tenants.status
  member,      \* tenant_memberships.status
  invitation,  \* membership_invitations.status
  grant,       \* what an invitation is for
  late,        \* invitations whose 24 hours are over, with their links
  link,        \* the activation link outstanding for a user at a tenant
  claimed,     \* the request that completed under an idempotency key
  pc,          \* the statement a request is about to run
  call         \* what it asks for

tables == <<user, tenant, member, invitation, grant, link, claimed>>
vars == <<tables, late, pc, call>>

Kinds == {"provision", "resendOwner", "invite", "resend", "accept"}
Place == Slug \X Email
At(r) == <<call[r].slug, call[r].email>>
Invites(i, p) == invitation[i] # "none" /\ <<grant[i].slug, grant[i].email>> = p
Pending(p) == {i \in Request : Invites(i, p) /\ invitation[i] = "pending"}
PendingOwner(s) ==
  {i \in Request : invitation[i] = "pending" /\ grant[i].slug = s /\ grant[i].role = "owner"}

(* Who holds which row locks. *)
LocksKey(r, k) == call[r].kind = "provision" /\ call[r].key = k /\ pc[r] \in {"user", "write"}
LocksUser(r, e) == /\ call[r].kind # "accept" /\ call[r].email = e
                   /\ pc[r] \in {"check", "write"}
LocksTenant(r, s) == /\ call[r].kind = "resendOwner" /\ call[r].slug = s
                     /\ pc[r] \in {"invitation", "user", "write"}
LocksInvitation(r, i) ==
  /\ call[r].old = i
  /\ \/ call[r].kind \in {"resend", "resendOwner"} /\ pc[r] \in {"user", "write"}
     \/ call[r].kind = "accept" /\ pc[r] \in {"member", "write"}
Free(Locks(_, _), r, row) == \A q \in Request \ {r} : ~Locks(q, row)
Open(r) == pc[r] \notin {"new", "ok", "known", "conflict", "refused", "failed"}
-----------------------------------------------------------------------------
Call(kind, s, e, k, i) == [kind |-> kind, slug |-> s, email |-> e, key |-> k, old |-> i]
Init ==
  /\ user \in [Email -> {"none", "active"}]
  /\ tenant = [s \in Slug |-> "none"]
  /\ member = [p \in Place |-> "none"]
  /\ invitation = [i \in Request |-> "none"]
  /\ grant = [i \in Request |-> [slug |-> None, email |-> None, role |-> "admin"]]
  /\ late = {}
  /\ link = [p \in Place |-> None]
  /\ claimed = [k \in Key |-> None]
  /\ pc = [r \in Request |-> "new"]
  /\ call = [r \in Request |-> Call("accept", None, None, None, None)]

Go(r, label) == pc' = [pc EXCEPT ![r] = label]
Stop(r, how) == Go(r, how) /\ UNCHANGED <<tables, late, call>>
Ask(r, c, label) ==
  /\ pc[r] = "new" /\ Go(r, label)
  /\ call' = [call EXCEPT ![r] = c]
  /\ UNCHANGED <<tables, late>>

(* What a request must bring: a platform administrator provisions, and     *)
(* resends while the tenant is not live; a member of a live tenant invites *)
(* and resends; an invited user accepts after logging in.                  *)
AskProvision(r) == \E s \in Slug, e \in Email, k \in Key :
  Ask(r, Call("provision", s, e, k, None), "claim")
AskResendOwner(r) == \E s \in Slug :
  tenant[s] # "none" /\ Ask(r, Call("resendOwner", s, None, None, None), "tenant")
AskInvite(r) == \E s \in Slug, e \in Email :
  /\ tenant[s] = "active"
  /\ Ask(r, Call("invite", s, e, None, None), "user")
AskResend(r) == \E i \in Request :
  /\ invitation[i] # "none" /\ tenant[grant[i].slug] = "active"
  /\ Ask(r, Call("resend", grant[i].slug, None, None, i), "invitation")
AskAccept(r) == \E i \in Request :
  /\ invitation[i] # "none" /\ user[grant[i].email] = "active"
  /\ Ask(r, Call("accept", grant[i].slug, grant[i].email, None, i), "token")

(* INSERT ... ON CONFLICT DO NOTHING waits for a claim that is under way;  *)
(* a completed request is replayed if it asked for the same.               *)
SameRequest(r, q) == At(r) = At(q)

\* Faulty variant: a claim under way is not waited for.
ClaimWithoutWaiting(r) ==
  /\ pc[r] = "claim"
  /\ LET q == claimed[call[r].key] IN
       Stop(r, IF q = None THEN "user"
               ELSE IF SameRequest(r, q) THEN "ok" ELSE "conflict")

Claim(r) ==
  /\ pc[r] = "claim"
  /\ Free(LocksKey, r, call[r].key)
  /\ LET q == claimed[call[r].key] IN
       Stop(r, IF q = None THEN "user"
               ELSE IF SameRequest(r, q) THEN "ok" ELSE "conflict")

LockTenant(r) ==
  /\ pc[r] = "tenant"
  /\ Free(LocksTenant, r, call[r].slug)
  /\ Stop(r, "invitation")

Resent(r) == IF call[r].kind = "resendOwner" THEN PendingOwner(call[r].slug)
             ELSE {i \in {call[r].old} : invitation[i] = "pending" /\ grant[i].role = "admin"}
LockInvitation(r) ==
  /\ pc[r] = "invitation"
  /\ \A i \in Resent(r) : Free(LocksInvitation, r, i)
  /\ IF \/ Resent(r) = {}
        \/ call[r].kind = "resendOwner" /\ tenant[call[r].slug] # "provisioning"
       THEN Stop(r, "refused")
       ELSE /\ \E i \in Resent(r) :
                 call' = [call EXCEPT ![r] = Call(@.kind, @.slug, grant[i].email, @.key, i)]
            /\ Go(r, "user")
            /\ UNCHANGED <<tables, late>>

(* Insert the user, or lock the row FOR UPDATE. *)
Identity(r) ==
  /\ pc[r] = "user"
  /\ Free(LocksUser, r, call[r].email)
  /\ Stop(r, IF call[r].kind = "invite" THEN "check" ELSE "write")
CheckDuplicate(r) ==   \* a member, or an invitee, is not told apart: no mail
  /\ pc[r] = "check"
  /\ Stop(r, IF member[At(r)] = "none" /\ Pending(At(r)) = {} THEN "write" ELSE "known")

(* The writes of provisioning, inviting and resending. *)
RoleFor(r) == CASE call[r].kind = "provision" -> "owner"
             [] call[r].kind = "invite" -> "admin"
             [] OTHER -> grant[call[r].old].role
UserAfter(r) == [user EXCEPT ![call[r].email] = IF @ = "none" THEN "pending" ELSE @]

\* Faulty variant: only the request that created the user issues a link.
LinkOnlyIfCreated(r) ==
  IF user[call[r].email] = "none" THEN [link EXCEPT ![At(r)] = r] ELSE link

LinkAfter(r) ==        \* only a user who is still pending gets an activation link
  IF UserAfter(r)[call[r].email] = "pending" THEN [link EXCEPT ![At(r)] = r] ELSE link
IssueInvitation(r) ==
  /\ invitation' = [i \in Request |-> IF i = r THEN "pending"
                                      ELSE IF i = call[r].old THEN "revoked" ELSE invitation[i]]
  /\ grant' = [grant EXCEPT ![r] = [slug |-> call[r].slug, email |-> call[r].email,
                                    role |-> RoleFor(r)]]
  /\ user' = UserAfter(r) /\ link' = LinkAfter(r)
  /\ Go(r, "ok")

\* Faulty variant: no unique index on the slug.
SlugFree(r) == FALSE

SlugTaken(r) == tenant[call[r].slug] # "none"
Provision(r) ==
  /\ pc[r] = "write" /\ call[r].kind = "provision"
  /\ IF SlugTaken(r) THEN Stop(r, "conflict")
     ELSE /\ IssueInvitation(r)
          /\ tenant' = [tenant EXCEPT ![call[r].slug] = "provisioning"]
          /\ member' = [member EXCEPT ![At(r)] = "invited"]
          /\ claimed' = [claimed EXCEPT ![call[r].key] = r]
          /\ UNCHANGED <<late, call>>
Invite(r) ==
  /\ pc[r] = "write" /\ call[r].kind = "invite"
  /\ IssueInvitation(r)
  /\ member' = [member EXCEPT ![At(r)] = "invited"]
  /\ UNCHANGED <<tenant, claimed, late, call>>
ResendOwner(r) ==
  /\ pc[r] = "write" /\ call[r].kind = "resendOwner"
  /\ IssueInvitation(r)
  /\ UNCHANGED <<tenant, member, claimed, late, call>>
Resend(r) ==
  /\ pc[r] = "write" /\ call[r].kind = "resend"
  /\ IssueInvitation(r)
  /\ UNCHANGED <<tenant, member, claimed, late, call>>

Available(i) == invitation[i] = "pending" /\ i \notin late

\* Faulty variant: the invitation is read without FOR UPDATE.
ReadSelector(r) ==
  /\ pc[r] = "token"
  /\ Stop(r, IF Available(call[r].old) THEN "member" ELSE "refused")

(* Accept: lock the invitation, then the membership, then the tenant. *)
LockSelector(r) ==
  /\ pc[r] = "token"
  /\ Free(LocksInvitation, r, call[r].old)
  /\ Stop(r, IF Available(call[r].old) THEN "member" ELSE "refused")
LockMember(r) ==
  /\ pc[r] = "member"
  /\ Stop(r, IF member[At(r)] = "invited" THEN "write" ELSE "refused")
Accept(r) ==
  LET s == call[r].slug
      owner == grant[call[r].old].role = "owner" IN
    /\ pc[r] = "write" /\ call[r].kind = "accept"
    /\ Free(LocksUser, r, call[r].email)      \* the role assignment's foreign key
    /\ owner => Free(LocksTenant, r, s)
    /\ IF owner /\ tenant[s] # "provisioning" THEN Stop(r, "refused")
       ELSE /\ member' = [member EXCEPT ![At(r)] = "active"]
            /\ invitation' = [invitation EXCEPT ![call[r].old] = "accepted"]
            /\ tenant' = IF owner THEN [tenant EXCEPT ![s] = "active"] ELSE tenant
            /\ Go(r, "ok")
            /\ UNCHANGED <<user, grant, link, claimed, late, call>>

(* From Credentials: the activation link is used. *)
UseLink(p) ==
  /\ link[p] \notin late \union {None}
  /\ \A q \in Request : ~LocksUser(q, p[2])
  /\ user' = [user EXCEPT ![p[2]] = "active"]
  /\ link' = [link EXCEPT ![p] = None]
  /\ UNCHANGED <<tenant, member, invitation, grant, claimed, late, pc, call>>
(* From TenantOwnership: an administrator is removed. *)
Remove(p) ==
  /\ member[p] = "active"
  /\ \E i \in Request : Invites(i, p) /\ invitation[i] = "accepted" /\ grant[i].role = "admin"
  /\ member' = [member EXCEPT ![p] = "revoked"]
  /\ UNCHANGED <<user, tenant, invitation, grant, link, claimed, late, pc, call>>
Expire(i) ==
  /\ invitation[i] # "none" /\ i \notin late
  /\ late' = late \union {i}
  /\ UNCHANGED <<tables, pc, call>>
Fail(r) ==   \* timeout, lost connection or deadlock victim: rolled back
  Open(r) /\ Stop(r, "failed")

Next ==
  \/ \E r \in Request :
       \/ AskProvision(r) \/ AskResendOwner(r) \/ AskInvite(r) \/ AskResend(r) \/ AskAccept(r)
       \/ Claim(r) \/ LockTenant(r) \/ LockInvitation(r) \/ Identity(r) \/ CheckDuplicate(r)
       \/ Provision(r) \/ Invite(r) \/ ResendOwner(r) \/ Resend(r)
       \/ LockSelector(r) \/ LockMember(r) \/ Accept(r)
       \/ Expire(r) \/ Fail(r)
  \/ \E p \in Place : UseLink(p) \/ Remove(p)
Spec == Init /\ [][Next]_vars
-----------------------------------------------------------------------------
(* Values have their types; an invitation's row is locked by one           *)
(* transaction at a time.                                                  *)
TypeOK ==
  /\ user \in [Email -> {"none", "pending", "active"}]
  /\ tenant \in [Slug -> {"none", "provisioning", "active"}]
  /\ member \in [Place -> {"none", "invited", "active", "revoked"}]
  /\ invitation \in [Request -> {"none", "pending", "revoked", "accepted"}]
  /\ grant \in [Request -> [slug : Slug \union {None}, email : Email \union {None},
                          role : {"owner", "admin"}]]
  /\ late \subseteq Request
  /\ link \in [Place -> Request \union {None}]
  /\ claimed \in [Key -> Request \union {None}]
  /\ call \in [Request -> [kind : Kinds, slug : Slug \union {None}, email : Email \union {None},
                           key : Key \union {None}, old : Request \union {None}]]
  /\ \A i, r, q \in Request : LocksInvitation(r, i) /\ LocksInvitation(q, i) => r = q

(* A set has one member if a condition holds, and none otherwise.          *)
OneIf(condition, S) == IF condition THEN \E i \in S : S = {i} ELSE S = {}
Accepted(p) == {i \in Request : Invites(i, p) /\ invitation[i] = "accepted"}
AcceptedOwner(s) ==
  {i \in Request : invitation[i] = "accepted" /\ grant[i].slug = s /\ grant[i].role = "owner"}

(* Whatever inviting, resending and accepting overlap: who is invited has  *)
(* exactly one invitation that counts, and who is or was a member accepted *)
(* exactly one and has none left.                                          *)
OneInvitationPerInvitee ==
  \A p \in Place : /\ OneIf(member[p] = "invited", Pending(p))
                   /\ OneIf(member[p] \in {"active", "revoked"}, Accepted(p))

(* A tenant is never left between: until it is live exactly one owner is   *)
(* invited, and it is live because exactly one owner accepted.             *)
TenantHasItsOwner ==
  \A s \in Slug : /\ OneIf(tenant[s] = "provisioning", PendingOwner(s))
                  /\ OneIf(tenant[s] = "active", AcceptedOwner(s))

(* An invited user who has no password yet holds, for that invitation, the *)
(* one activation link that works at the tenant: the two mails of an       *)
(* invitation never come apart by a resend or by an invitation elsewhere.  *)
InviteeCanActivate ==
  \A p \in Place, i \in Request :
    i \in Pending(p) /\ user[p[2]] = "pending" => link[p] = i

(* A provisioning request repeated under its key, however closely, is      *)
(* answered like the one that succeeded, never with a conflict.            *)
RetryReplays ==
  \A r, q \in Request :
    /\ {call[r].kind, call[q].kind} = {"provision"}
    /\ call[r].key = call[q].key /\ SameRequest(r, q)
    /\ pc[q] = "ok"
    => pc[r] # "conflict"
=============================================================================
