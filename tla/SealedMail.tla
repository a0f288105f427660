----------------------------- MODULE SealedMail -----------------------------
(***************************************************************************)
(* The identity e-mails with one-time links, from the API transaction that *)
(* issues a link to the worker that mails it, while the envelope keys are  *)
(* rotated.  The API seals the link's token under its active key and under *)
(* the identity of the event that carries it (the associated data); the    *)
(* worker recomputes that identity from the event it received, opens the   *)
(* envelope and writes the message.  The token itself is bound to a        *)
(* purpose, which the API recomputes from the request that uses the link.  *)
(*                                                                         *)
(* Abstracted: a token is its digest's purpose and the row it names, an    *)
(* envelope the key, associated data and plaintext it was sealed with (it  *)
(* opens under exactly that key and that data); a host is the tenant it    *)
(* belongs to, or Platform; expiry and single use are the module           *)
(* Credentials', queueing and retries the modules Outbox and Delivery's.   *)
(***************************************************************************)
EXTENDS Naturals, Sequences

CONSTANTS Api,       \* API processes
          Worker,    \* worker-critical processes
          Key,       \* envelope keys, each known by its key ID
          Tenant,    \* tenants, and their hosts
          Platform,  \* the platform's host
          User,      \* users
          MaxMails   \* bound: mails ever sealed

VARIABLES setting,    \* the deployment's key settings: [ring, active]
          running,    \* the settings each process read when it started
          pending,    \* by API process, the events of its open transaction
          queue,      \* events committed to the outbox and not yet handled
          delivered,  \* messages sent
          refused,    \* events the worker failed for good
          sealed      \* number of mails sealed so far

mailVars == <<setting, running, pending, queue, delivered, refused, sealed>>

Process == Api \cup Worker
Host == Tenant \cup {Platform}
None == "none"
TenantOf(host) == IF host = Platform THEN None ELSE host

Keyring == (SUBSET Key) \ {{}}
CanSeal(s) == s.active \in s.ring
Setting == {s \in [ring : Keyring, active : Key] : CanSeal(s)}

-----------------------------------------------------------------------------
(* Tokens and the purposes they are bound to.                              *)

IdentityPurpose(kind, host) ==
  <<"identity", kind, IF host = Platform THEN "platform" ELSE "tenant",
    TenantOf(host), host>>

\* The memberships module writes the purpose of a tenant's activation itself.
TenantActivationPurpose(tenant, host) ==
  <<"identity", "activation", "tenant", tenant, host>>

InvitationPurpose(tenant, user, host, email, role) ==
  <<"membership.invitation", tenant, user, host, email, role>>

Invitation(n, tenant, user, role) ==
  [id |-> n, tenant |-> tenant, user |-> user, host |-> tenant,
   email |-> <<user, "normalized">>, role |-> role]

\* A token and the invitation row it names, if it names one.
Issue(purpose, row) == [purpose |-> purpose, row |-> row]
Verifies(token, purpose) == token.purpose = purpose

IdentityToken(kind, host) == Issue(IdentityPurpose(kind, host), {})
ActivationToken(tenant) == Issue(TenantActivationPurpose(tenant, tenant), {})
InvitationToken(i) ==
  Issue(InvitationPurpose(i.tenant, i.user, i.host, i.email, i.role), {i})

-----------------------------------------------------------------------------
(* What the API seals, and the events that carry it.                       *)

Seal(key, aad, tokens) ==
  [keyId |-> key, aad |-> aad, tokens |-> tokens]

IdentityAad(type, n, user, host, recipient, template) ==
  <<"identity-email", type, n, user, host, recipient, template>>

TenantActivationAad(n, user, host, recipient) ==
  <<"identity-email", "activation", n, user, host, recipient, "account_activation">>

OwnerInvitationAad(i, n) ==
  <<"membership-email", "owner_invitation", n, i.tenant, i.id, i.user, i.host,
    i.email, i.role>>

AdminInvitationAad(i, n) ==
  <<"membership-email", "admin_invitation", n, i.tenant, i.id, i.user, i.host,
    i.email, "tenant_admin">>

OnboardingAad(i, n) ==
  <<"owner-onboarding-email", "owner_onboarding", n, i.tenant, i.id, i.user,
    i.host, i.email>>

UserEvent(type, n, tenant, user, host, recipient, template, envelope) ==
  [type |-> type, id |-> n, tenant |-> tenant, aggregate |-> "user",
   aggregateId |-> user, recipient |-> recipient, host |-> host,
   template |-> template, user |-> None, role |-> None, envelope |-> envelope]

InvitationEvent(type, n, i, purpose, role, envelope) ==
  [type |-> type, id |-> n, tenant |-> i.tenant, aggregate |-> "membership_invitation",
   aggregateId |-> i.id, recipient |-> i.email, host |-> i.host,
   template |-> purpose, user |-> i.user, role |-> role, envelope |-> envelope]

BootstrapActivation(key, n, user) ==
  LET email == <<user, "display">>
      aad == IdentityAad("activation", n, user, Platform, email, "account_activation")
  IN  UserEvent("activation", n, None, user, Platform, email, "account_activation",
                Seal(key, aad, <<IdentityToken("activation", Platform)>>))

PasswordReset(key, n, host, user) ==
  LET email == <<user, "display">>
      aad == IdentityAad("password_reset", n, user, host, email, "password_reset")
  IN  UserEvent("password_reset", n, TenantOf(host), user, host, email,
                "password_reset",
                Seal(key, aad, <<IdentityToken("password_reset", host)>>))

AdminActivation(key, n, tenant, user) ==
  LET email == <<user, "normalized">>
      aad == TenantActivationAad(n, user, tenant, email)
  IN  UserEvent("activation", n, tenant, user, tenant, email, "account_activation",
                Seal(key, aad, <<ActivationToken(tenant)>>))

AdminInvitation(key, n, tenant, user) ==
  LET i == Invitation(n, tenant, user, "tenant_admin")
  IN  InvitationEvent("admin_invitation", n, i, "membership_invitation",
        "tenant_admin", Seal(key, AdminInvitationAad(i, n), <<InvitationToken(i)>>))

OwnerInvitation(key, n, tenant, user) ==
  LET i == Invitation(n, tenant, user, "tenant_owner")
  IN  InvitationEvent("owner_invitation", n, i, "membership_invitation",
        "tenant_owner", Seal(key, OwnerInvitationAad(i, n), <<InvitationToken(i)>>))

OwnerOnboarding(key, n, tenant, user) ==
  LET i == Invitation(n, tenant, user, "tenant_owner")
  IN  InvitationEvent("owner_onboarding", n, i, "initial_owner_onboarding", None,
        Seal(key, OnboardingAad(i, n),
             <<ActivationToken(tenant), InvitationToken(i)>>))

Written(key, n, user) ==
  {BootstrapActivation(key, n, user)}
    \cup {PasswordReset(key, n, host, user) : host \in Host}
    \cup UNION {{AdminActivation(key, n, t, user), AdminInvitation(key, n, t, user),
                 OwnerInvitation(key, n, t, user), OwnerOnboarding(key, n, t, user)}
                  : t \in Tenant}

Event == UNION {Written(k, n, user) : k \in Key, n \in 1..MaxMails, user \in User}

-----------------------------------------------------------------------------
(* The worker: parse the event, open the envelope, write the message.      *)

IntendedRole(type) == IF type = "admin_invitation" THEN "tenant_admin" ELSE "tenant_owner"

Parses(event) ==
  CASE event.type = "owner_onboarding" ->
         /\ event.aggregate = "membership_invitation"
         /\ event.tenant # None
         /\ event.template = "initial_owner_onboarding"
    [] event.type \in {"admin_invitation", "owner_invitation"} ->
         /\ event.aggregate = "membership_invitation"
         /\ event.tenant # None
         /\ event.template = "membership_invitation"
         /\ event.role = IntendedRole(event.type)
    [] OTHER ->
         /\ event.aggregate = "user"
         /\ event.template = IF event.type = "activation"
                             THEN "account_activation" ELSE "password_reset"

AssociatedData(e) ==
  CASE e.type = "owner_onboarding" ->
         <<"owner-onboarding-email", e.type, e.id, e.tenant, e.aggregateId, e.user,
           e.host, e.recipient>>
    [] e.type \in {"admin_invitation", "owner_invitation"} ->
         <<"membership-email", e.type, e.id, e.tenant, e.aggregateId, e.user,
           e.host, e.recipient, IntendedRole(e.type)>>
    [] OTHER ->
         <<"identity-email", e.type, e.id, e.aggregateId, e.host, e.recipient,
           e.template>>

\* Faulty variant: the worker opens with its active key only.
OpensWithActive(worker, event) ==
  /\ event.envelope.keyId = running[worker].active
  /\ event.envelope.aad = AssociatedData(event)

Opens(worker, event) ==
  /\ event.envelope.keyId \in running[worker].ring
  /\ event.envelope.aad = AssociatedData(event)
  /\ Len(event.envelope.tokens) = IF event.type = "owner_onboarding" THEN 2 ELSE 1

Link(page, token) == [page |-> page, token |-> token]

\* Faulty variant: an invitation falls through to the last message.
LinksWithoutInvitation(event) ==
  LET tokens == event.envelope.tokens
  IN  CASE event.template = "account_activation" -> {Link("activate", tokens[1])}
        [] event.template = "initial_owner_onboarding" ->
             {Link("activate", tokens[1]), Link("accept", tokens[2])}
        [] OTHER -> {Link("reset", tokens[1])}

LinksOf(event) ==
  LET tokens == event.envelope.tokens
  IN  CASE event.template = "account_activation" -> {Link("activate", tokens[1])}
        [] event.template = "password_reset" -> {Link("reset", tokens[1])}
        [] event.template = "membership_invitation" -> {Link("accept", tokens[1])}
        [] event.template = "initial_owner_onboarding" ->
             {Link("activate", tokens[1]), Link("accept", tokens[2])}

Message(event) ==
  [id |-> event.id, to |-> event.recipient, host |-> event.host,
   links |-> LinksOf(event)]

-----------------------------------------------------------------------------
(* What the API accepts: the purpose is recomputed from the request.       *)

CompleteActivation(token, host) ==
  Verifies(token, IdentityPurpose("activation", host))

CompletePasswordReset(token, host) ==
  Verifies(token, IdentityPurpose("password_reset", host))

AcceptInvitation(token, host, user) ==
  \E i \in token.row :
    /\ i.tenant = TenantOf(host)
    /\ i.user = user
    /\ i.host = host
    /\ Verifies(token, InvitationPurpose(TenantOf(host), user, host, i.email, i.role))

Accepts(page, token, host, user) ==
  CASE page = "activate" -> CompleteActivation(token, host)
    [] page = "reset"    -> CompletePasswordReset(token, host)
    [] page = "accept"   -> AcceptInvitation(token, host, user)

-----------------------------------------------------------------------------
Init ==
  /\ setting \in Setting /\ setting.ring = {setting.active}
  /\ running = [p \in Process |-> setting]
  /\ pending = [a \in Api |-> {}]
  /\ queue = {} /\ delivered = {} /\ refused = {}
  /\ sealed = 0

(* A workflow issues a token, seals it and writes the event in its open    *)
(* transaction, which may write several.                                   *)
Write(a, user) ==
  /\ sealed < MaxMails
  /\ sealed' = sealed + 1
  /\ \E e \in Written(running[a].active, sealed + 1, user) :
       pending' = [pending EXCEPT ![a] = @ \cup {e}]
  /\ UNCHANGED <<setting, running, queue, delivered, refused>>

Commit(a) ==
  /\ pending[a] # {}
  /\ queue' = queue \cup pending[a]
  /\ pending' = [pending EXCEPT ![a] = {}]
  /\ UNCHANGED <<setting, running, delivered, refused, sealed>>

Rollback(a) ==
  /\ pending[a] # {}
  /\ pending' = [pending EXCEPT ![a] = {}]
  /\ UNCHANGED <<setting, running, queue, delivered, refused, sealed>>

(* The worker takes an event: a malformed event, an unknown key or other   *)
(* associated data is a permanent failure, everything else is mailed.      *)
Dispatch(w, e) ==
  /\ queue' = queue \ {e}
  /\ IF Parses(e) /\ Opens(w, e)
     THEN delivered' = delivered \cup {Message(e)} /\ UNCHANGED refused
     ELSE refused' = refused \cup {e} /\ UNCHANGED delivered
  /\ UNCHANGED <<setting, running, pending, sealed>>

(* A process reads its settings once, when it starts, and does not start   *)
(* with an active key its ring lacks; an API's open transaction is lost.   *)
RestartApi(a) ==
  /\ CanSeal(setting)
  /\ running' = [running EXCEPT ![a] = setting]
  /\ pending' = [pending EXCEPT ![a] = {}]
  /\ UNCHANGED <<setting, queue, delivered, refused, sealed>>

RestartWorker(w) ==
  /\ CanSeal(setting)
  /\ running' = [running EXCEPT ![w] = setting]
  /\ UNCHANGED <<setting, pending, queue, delivered, refused, sealed>>

(* The operator's steps of a rotation, in the runbook's order: the ring    *)
(* grows; the active key changes once every process runs with the new key; *)
(* an old key goes once no process seals with it and no envelope needs it. *)
AddKey(k) ==
  /\ k \notin setting.ring
  /\ setting' = [setting EXCEPT !.ring = @ \cup {k}]
  /\ UNCHANGED <<running, pending, queue, delivered, refused, sealed>>

SwitchActive(k) ==
  /\ k \in setting.ring \ {setting.active}
  /\ \A p \in Process : k \in running[p].ring
  /\ setting' = [setting EXCEPT !.active = k]
  /\ UNCHANGED <<running, pending, queue, delivered, refused, sealed>>

Retire(k) ==
  /\ k \in setting.ring \ {setting.active}
  /\ \A p \in Process : running[p].active # k
  /\ \A e \in queue \cup UNION {pending[a] : a \in Api} : e.envelope.keyId # k
  /\ setting' = [setting EXCEPT !.ring = @ \ {k}]
  /\ UNCHANGED <<running, pending, queue, delivered, refused, sealed>>

Next ==
  \/ \E a \in Api : \/ Commit(a) \/ Rollback(a) \/ RestartApi(a)
                    \/ \E user \in User : Write(a, user)
  \/ \E w \in Worker : RestartWorker(w) \/ \E e \in queue : Dispatch(w, e)
  \/ \E k \in Key : AddKey(k) \/ SwitchActive(k) \/ Retire(k)

Spec == Init /\ [][Next]_mailVars

-----------------------------------------------------------------------------
(* The settings, the waiting events and the count have their types.        *)
TypeOK ==
  /\ setting \in Setting
  /\ running \in [Process -> Setting]
  /\ pending \in [Api -> SUBSET Event]
  /\ queue \subseteq Event
  /\ refused \subseteq Event
  /\ delivered \subseteq {Message(e) : e \in Event}
  /\ sealed \in 0..MaxMails

(* Every key in use reaches every process: what any API seals with, and    *)
(* what a restarted one would seal with, is in every ring; the events that *)
(* wait are under keys of every worker's ring.                             *)
KeysReach ==
  /\ \A a \in Api : running[a].active \in setting.ring
  /\ \A p \in Process : setting.active \in running[p].ring
  /\ \A a \in Api, p \in Process : running[a].active \in running[p].ring
  /\ \A e \in queue \cup UNION {pending[a] : a \in Api} :
       /\ e.envelope.keyId \in setting.ring
       /\ \A w \in Worker : e.envelope.keyId \in running[w].ring

(* A mail committed to the outbox is never failed for good: while keys are *)
(* added, switched and retired by the runbook and API and worker processes *)
(* restart at different times, the worker that takes an event has its key, *)
(* reads the event as the API meant it and recomputes the same associated  *)
(* data.  A permanent failure is a link the user never gets.               *)
NoMailIsRefused == refused = {}

(* The links of a mail do what the mail says, and only there: the API      *)
(* accepts each token exactly on the page and the host the message links   *)
(* to, and an invitation only for the user it was written for.             *)
MailedLinksFit ==
  \A m \in delivered : \A l \in m.links :
    \A page \in {"activate", "reset", "accept"}, host \in Host, user \in User :
      Accepts(page, l.token, host, user)
        <=> /\ page = l.page
            /\ host = m.host
            /\ page = "accept" => user = m.to[1]

=============================================================================
