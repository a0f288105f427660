-------------------------- MODULE OnboardingProofs --------------------------
(***************************************************************************)
(* Proofs about SealedMail, Onboarding and SmtpSubmission: no mail is      *)
(* refused during a rotation of the envelope keys, a mailed link works     *)
(* exactly where it points, invitations, owners, activation links and      *)
(* idempotency keys stay consistent, for any number of processes, keys,    *)
(* tenants, users, mails and requests; and the worker's verdict on a mail  *)
(* is the SMTP server's, for any number of lines in pieces of any size.    *)
(***************************************************************************)
EXTENDS MCOnboarding, SequenceTheorems, NaturalsInduction, WellFoundedInduction, TLAPS

(* What the proofs need of the constants: the platform's host is not a     *)
(* tenant's, and the absent tenant is not a tenant.                        *)
HostsApart == Platform \notin Tenant /\ None \notin Tenant /\ MaxMails \in Nat

(* Any event a workflow writes is one the worker parses, with the          *)
(* associated data the worker recomputes and the tokens it expects.        *)
Reads(e) ==
  /\ Parses(e)
  /\ e.envelope.aad = AssociatedData(e)
  /\ Len(e.envelope.tokens) = IF e.type = "owner_onboarding" THEN 2 ELSE 1

LEMMA WrittenReads ==
  ASSUME HostsApart, NEW key \in Key, NEW n \in Nat, NEW who \in User,
         NEW e \in Written(key, n, who)
  PROVE  Reads(e) /\ e.envelope.keyId = key
<1>1. CASE e = BootstrapActivation(key, n, who)
  BY <1>1 DEF Reads, Parses, AssociatedData, BootstrapActivation, UserEvent, Seal, IdentityAad
<1>2. CASE \E host \in Host : e = PasswordReset(key, n, host, who)
  BY <1>2 DEF Reads, Parses, AssociatedData, PasswordReset, UserEvent, Seal, IdentityAad
<1>3. ASSUME NEW t \in Tenant, e = AdminActivation(key, n, t, who)
      PROVE  Reads(e) /\ e.envelope.keyId = key
  BY <1>3 DEF Reads, Parses, AssociatedData, AdminActivation, UserEvent, Seal,
              TenantActivationAad
<1>4. ASSUME NEW t \in Tenant, e = AdminInvitation(key, n, t, who)
      PROVE  Reads(e) /\ e.envelope.keyId = key
  BY <1>4 DEF HostsApart, Reads, Parses, AssociatedData, AdminInvitation, InvitationEvent,
              Invitation, Seal, AdminInvitationAad, IntendedRole
<1>5. ASSUME NEW t \in Tenant, e = OwnerInvitation(key, n, t, who)
      PROVE  Reads(e) /\ e.envelope.keyId = key
  BY <1>5 DEF HostsApart, Reads, Parses, AssociatedData, OwnerInvitation, InvitationEvent,
              Invitation, Seal, OwnerInvitationAad, IntendedRole
<1>6. ASSUME NEW t \in Tenant, e = OwnerOnboarding(key, n, t, who)
      PROVE  Reads(e) /\ e.envelope.keyId = key
  BY <1>6 DEF HostsApart, Reads, Parses, AssociatedData, OwnerOnboarding, InvitationEvent,
              Invitation, Seal, OnboardingAad
<1> QED BY <1>1, <1>2, <1>3, <1>4, <1>5, <1>6 DEF Written

LEMMA EventReads == ASSUME HostsApart, NEW e \in Event PROVE Reads(e)
<1>1. PICK k \in Key, n \in 1..MaxMails, who \in User : e \in Written(k, n, who)
  BY DEF Event
<1> QED BY <1>1, WrittenReads DEF HostsApart

(* The rotation's invariant, kept by every step.                           *)
Inv == TypeOK /\ KeysReach /\ NoMailIsRefused

LEMMA InvInit == ASSUME HostsApart, Init PROVE Inv
BY DEF HostsApart, Init, Inv, TypeOK, KeysReach, NoMailIsRefused, Process, Setting, CanSeal

LEMMA InvStep == ASSUME HostsApart, Inv, [Next]_mailVars PROVE Inv'
<1> USE DEF HostsApart, Inv, NoMailIsRefused, CanSeal
<1>0. /\ setting.active \in setting.ring
      /\ \A p \in Process : running[p].ring \subseteq Key /\ running[p].active \in Key
  BY DEF TypeOK, Setting, Keyring
<1>1. ASSUME NEW a \in Api, NEW who \in User, Write(a, who) PROVE Inv'
  <2>1. PICK e \in Written(running[a].active, sealed + 1, who) :
          pending' = [pending EXCEPT ![a] = @ \cup {e}]
    BY <1>1 DEF Write
  <2>2. sealed + 1 \in 1..MaxMails /\ running[a].active \in Key
    BY <1>0, <1>1 DEF Write, TypeOK, Process
  <2>3. e \in Event /\ e.envelope.keyId = running[a].active
    BY <2>1, <2>2, WrittenReads DEF Event
  <2>4. TypeOK'
    BY <1>1, <2>1, <2>2, <2>3 DEF TypeOK, Write
  <2>5. \A x \in UNION {pending'[b] : b \in Api} :
          x = e \/ x \in UNION {pending[b] : b \in Api}
    BY <2>1 DEF TypeOK
  <2>6. KeysReach'
    BY <1>1, <2>3, <2>5 DEF KeysReach, Write, Process
  <2> QED BY <2>4, <2>6, <1>1 DEF Write
<1>2. ASSUME NEW a \in Api, Commit(a) PROVE Inv'
  <2>1. UNION {pending'[b] : b \in Api} \subseteq UNION {pending[b] : b \in Api}
    BY <1>2 DEF Commit, TypeOK
  <2> QED BY <1>2, <2>1 DEF Commit, TypeOK, KeysReach
<1>3. ASSUME NEW a \in Api, Rollback(a) PROVE Inv'
  <2>1. UNION {pending'[b] : b \in Api} \subseteq UNION {pending[b] : b \in Api}
    BY <1>3 DEF Rollback, TypeOK
  <2> QED BY <1>3, <2>1 DEF Rollback, TypeOK, KeysReach
<1>4. ASSUME NEW a \in Api, RestartApi(a) PROVE Inv'
  <2>1. UNION {pending'[b] : b \in Api} \subseteq UNION {pending[b] : b \in Api}
    BY <1>4 DEF RestartApi, TypeOK
  <2>2. TypeOK' BY <1>4 DEF RestartApi, TypeOK, Process
  <2>3. \A p \in Process : running'[p] = running[p] \/ running'[p] = setting
    BY <1>4 DEF RestartApi, TypeOK
  <2>4. KeysReach'
    BY <1>0, <1>4, <2>1, <2>3 DEF RestartApi, KeysReach, Process
  <2> QED BY <1>4, <2>2, <2>4 DEF RestartApi
<1>5. ASSUME NEW w \in Worker, RestartWorker(w) PROVE Inv'
  <2>1. TypeOK' BY <1>5 DEF RestartWorker, TypeOK, Process
  <2>2. \A p \in Process : running'[p] = running[p] \/ running'[p] = setting
    BY <1>5 DEF RestartWorker, TypeOK
  <2>3. KeysReach'
    BY <1>0, <1>5, <2>2 DEF RestartWorker, KeysReach, Process
  <2> QED BY <1>5, <2>1, <2>3 DEF RestartWorker
<1>6. ASSUME NEW w \in Worker, NEW e \in queue, Dispatch(w, e) PROVE Inv'
  <2>1. Reads(e) BY EventReads DEF TypeOK
  <2>2. Parses(e) /\ Opens(w, e)
    BY <2>1 DEF Reads, Opens, KeysReach
  <2> QED BY <1>6, <2>2 DEF Dispatch, TypeOK, KeysReach
<1>7. ASSUME NEW k \in Key, AddKey(k) PROVE Inv'
  <2>1. setting'.ring = setting.ring \cup {k} /\ setting'.active = setting.active
    BY <1>7 DEF AddKey, TypeOK, Setting
  <2>2. setting' \in Setting
    BY <1>7, <2>1 DEF AddKey, TypeOK, Setting, Keyring
  <2> QED BY <1>7, <2>1, <2>2 DEF AddKey, TypeOK, KeysReach
<1>8. ASSUME NEW k \in Key, SwitchActive(k) PROVE Inv'
  BY <1>8 DEF SwitchActive, TypeOK, KeysReach, Setting, Keyring
<1>9. ASSUME NEW k \in Key, Retire(k) PROVE Inv'
  BY <1>0, <1>9 DEF Retire, TypeOK, KeysReach, Setting, Keyring, Process
<1>10. CASE UNCHANGED mailVars
  BY <1>10 DEF mailVars, TypeOK, KeysReach
<1> QED BY <1>1, <1>2, <1>3, <1>4, <1>5, <1>6, <1>7, <1>8, <1>9, <1>10 DEF Next

(* Whatever the order of the runbook's steps and of the restarts, every    *)
(* committed mail can be opened by any worker that takes it.               *)
THEOREM CommittedMailIsRead == HostsApart => (Spec => []NoMailIsRefused)
<1> SUFFICES ASSUME HostsApart PROVE Spec => []NoMailIsRefused
  OBVIOUS
<1>1. Init => Inv BY InvInit
<1>2. Inv /\ [Next]_mailVars => Inv' BY InvStep
<1>3. Inv => NoMailIsRefused BY DEF Inv
<1> QED BY <1>1, <1>2, <1>3, PTL DEF Spec

-----------------------------------------------------------------------------
(* A purpose names its kind and its host, so two that differ in either are *)
(* different, and no invitation's purpose is an identity token's.          *)
LEMMA PurposesApart ==
  ASSUME NEW kind, NEW host, NEW kind2, NEW host2
  PROVE  IdentityPurpose(kind, host) = IdentityPurpose(kind2, host2)
           <=> kind = kind2 /\ host = host2
<1>1. IdentityPurpose(kind, host)[2] = kind /\ IdentityPurpose(kind, host)[5] = host
  BY DEF IdentityPurpose
<1>2. IdentityPurpose(kind2, host2)[2] = kind2 /\ IdentityPurpose(kind2, host2)[5] = host2
  BY DEF IdentityPurpose
<1> QED BY <1>1, <1>2

LEMMA InvitationsApart ==
  ASSUME NEW kind, NEW h, NEW t, NEW u, NEW i, NEW email, NEW role
  PROVE  InvitationPurpose(t, u, i, email, role) # IdentityPurpose(kind, h)
<1>1. InvitationPurpose(t, u, i, email, role)[1] = "membership.invitation"
  BY DEF InvitationPurpose
<1>2. IdentityPurpose(kind, h)[1] = "identity" BY DEF IdentityPurpose
<1> QED BY <1>1, <1>2

(* The two ways of writing a tenant activation's purpose agree.            *)
LEMMA ActivationPurposes ==
  ASSUME HostsApart, NEW t \in Tenant
  PROVE  ActivationToken(t) = IdentityToken("activation", t)
BY DEF HostsApart, ActivationToken, IdentityToken, IdentityPurpose,
       TenantActivationPurpose, TenantOf

(* Where one token works.                                                  *)
Fits(page, token, host, who) ==
  \A p \in {"activate", "reset", "accept"}, h \in Host, u \in User :
    Accepts(p, token, h, u) <=> p = page /\ h = host /\ (p = "accept" => u = who)

LEMMA IdentityTokenFits ==
  ASSUME NEW host \in Host, NEW who \in User
  PROVE  /\ Fits("activate", IdentityToken("activation", host), host, who)
         /\ Fits("reset", IdentityToken("password_reset", host), host, who)
BY PurposesApart DEF Fits, Accepts, IdentityToken, Issue, Verifies, CompleteActivation,
                    CompletePasswordReset, AcceptInvitation

LEMMA InvitationTokenFits ==
  ASSUME HostsApart, NEW n \in Nat, NEW t \in Tenant, NEW who \in User, NEW role
  PROVE  Fits("accept", InvitationToken(Invitation(n, t, who, role)), t, who)
<1> DEFINE i == Invitation(n, t, who, role)
           token == InvitationToken(i)
<1>1. token.row = {i} /\ token.purpose = InvitationPurpose(t, who, t, i.email, i.role)
  BY DEF InvitationToken, Invitation, Issue
<1>2. i.tenant = t /\ i.host = t /\ i.user = who
  BY DEF Invitation
<1>3. TenantOf(t) = t /\ t \in Host
  BY DEF TenantOf, HostsApart, Host
<1>4. \A h \in Host, u \in User : ~Accepts("activate", token, h, u)
  BY <1>1, InvitationsApart DEF Accepts, Verifies, CompleteActivation, CompletePasswordReset
<1>5. \A h \in Host, u \in User : ~Accepts("reset", token, h, u)
  BY <1>1, InvitationsApart DEF Accepts, Verifies, CompleteActivation, CompletePasswordReset
<1>6. \A h \in Host, u \in User : Accepts("accept", token, h, u) => h = t /\ u = who
  BY <1>1, <1>2 DEF Accepts, AcceptInvitation
<1>7. Accepts("accept", token, t, who)
  BY <1>1, <1>2, <1>3 DEF Accepts, AcceptInvitation, Verifies
<1> HIDE DEF token, i
<1>8. Fits("accept", token, t, who)
  BY <1>4, <1>5, <1>6, <1>7 DEF Fits
<1> QED BY <1>8 DEF token, i

LEMMA WrittenFits ==
  ASSUME HostsApart, NEW key \in Key, NEW n \in Nat, NEW who \in User,
         NEW e \in Written(key, n, who)
  PROVE  \A l \in Message(e).links :
           Fits(l.page, l.token, Message(e).host, Message(e).to[1])
<1> USE DEF Message, LinksOf, Link
<1>1. CASE e = BootstrapActivation(key, n, who)
  BY <1>1, IdentityTokenFits DEF BootstrapActivation, UserEvent, Seal, Host
<1>2. ASSUME NEW host \in Host, e = PasswordReset(key, n, host, who)
      PROVE  \A l \in Message(e).links :
               Fits(l.page, l.token, Message(e).host, Message(e).to[1])
  BY <1>2, IdentityTokenFits DEF PasswordReset, UserEvent, Seal
<1>3. ASSUME NEW t \in Tenant, e = AdminActivation(key, n, t, who)
      PROVE  \A l \in Message(e).links :
               Fits(l.page, l.token, Message(e).host, Message(e).to[1])
  BY <1>3, IdentityTokenFits, ActivationPurposes DEF AdminActivation, UserEvent, Seal, Host
<1>4. ASSUME NEW t \in Tenant, e = AdminInvitation(key, n, t, who)
      PROVE  \A l \in Message(e).links :
               Fits(l.page, l.token, Message(e).host, Message(e).to[1])
  BY <1>4, InvitationTokenFits DEF AdminInvitation, InvitationEvent, Invitation, Seal
<1>5. ASSUME NEW t \in Tenant, e = OwnerInvitation(key, n, t, who)
      PROVE  \A l \in Message(e).links :
               Fits(l.page, l.token, Message(e).host, Message(e).to[1])
  BY <1>5, InvitationTokenFits DEF OwnerInvitation, InvitationEvent, Invitation, Seal
<1>6. ASSUME NEW t \in Tenant, e = OwnerOnboarding(key, n, t, who)
      PROVE  \A l \in Message(e).links :
               Fits(l.page, l.token, Message(e).host, Message(e).to[1])
  BY <1>6, InvitationTokenFits, IdentityTokenFits, ActivationPurposes
     DEF OwnerOnboarding, InvitationEvent, Invitation, Seal, Host
<1> QED BY <1>1, <1>2, <1>3, <1>4, <1>5, <1>6 DEF Written

(* Every link of a delivered mail works on its own page and host, for the  *)
(* user it was written to, and nowhere else.                               *)
THEOREM DeliveredLinksFit == HostsApart => (Spec => []MailedLinksFit)
<1> SUFFICES ASSUME HostsApart PROVE Spec => []MailedLinksFit
  OBVIOUS
<1>1. Init => Inv BY InvInit
<1>2. Inv /\ [Next]_mailVars => Inv' BY InvStep
<1>3. Inv => MailedLinksFit
  <2> SUFFICES ASSUME Inv, NEW m \in delivered, NEW l \in m.links,
                      NEW page \in {"activate", "reset", "accept"},
                      NEW host \in Host, NEW who \in User
               PROVE  Accepts(page, l.token, host, who)
                        <=> /\ page = l.page
                            /\ host = m.host
                            /\ page = "accept" => who = m.to[1]
    BY DEF MailedLinksFit
  <2>1. PICK e \in Event : m = Message(e)
    BY DEF Inv, TypeOK
  <2>2. PICK k \in Key, n \in 1..MaxMails, u \in User : e \in Written(k, n, u)
    BY DEF Event
  <2>3. Fits(l.page, l.token, m.host, m.to[1])
    BY <2>1, <2>2, WrittenFits DEF HostsApart
  <2> QED BY <2>3 DEF Fits
<1> QED BY <1>1, <1>2, <1>3, PTL DEF Spec

-----------------------------------------------------------------------------
(* Onboarding: the parts of its inductive invariant.                       *)
Labels == {"new", "claim", "tenant", "invitation", "user", "check", "write", "token", "member",
           "ok", "known", "conflict", "refused", "failed"}
Calls == [kind : O!Kinds, slug : Slug \union {Nobody}, email : Email \union {Nobody},
          key : IdempotencyKey \union {Nobody}, old : Request \union {Nobody}]
OnboardingTypes ==
  /\ user \in [Email -> {"none", "pending", "active"}]
  /\ tenant \in [Slug -> {"none", "provisioning", "active"}]
  /\ member \in [O!Place -> {"none", "invited", "active", "revoked"}]
  /\ invitation \in [Request -> {"none", "pending", "revoked", "accepted"}]
  /\ grant \in [Request -> [slug : Slug \union {Nobody}, email : Email \union {Nobody},
                          role : {"owner", "admin"}]]
  /\ link \in [O!Place -> Request \union {Nobody}]
  /\ claimed \in [IdempotencyKey -> Request \union {Nobody}]
  /\ call \in [Request -> Calls]
  /\ pc \in [Request -> Labels]

\* What a request asks for is about rows that are there, and it runs the
\* statements of its kind.
Concerns(r, i) ==
  /\ i \in Request /\ invitation[i] # "none"
  /\ call[r].slug = grant[i].slug /\ call[r].email = grant[i].email
Fitting(r) ==
  /\ call[r].kind = "provision" =>
       /\ call[r].slug \in Slug /\ call[r].email \in Email /\ call[r].old = Nobody
       /\ call[r].key \in IdempotencyKey
       /\ pc[r] \in {"claim", "user", "write", "ok", "conflict", "failed"}
  /\ call[r].kind = "invite" =>
       /\ call[r].slug \in Slug /\ call[r].email \in Email /\ call[r].old = Nobody
       /\ tenant[call[r].slug] # "none"
       /\ pc[r] \in {"user", "check", "write", "ok", "known", "failed"}
  /\ call[r].kind = "resend" =>
       /\ call[r].old \in Request /\ invitation[call[r].old] # "none"
       /\ call[r].slug = grant[call[r].old].slug
       /\ pc[r] \in {"user", "write"} => Concerns(r, call[r].old)
       /\ pc[r] \in {"invitation", "user", "write", "ok", "refused", "failed"}
  /\ call[r].kind = "resendOwner" =>
       /\ call[r].slug \in Slug
       /\ pc[r] \in {"user", "write"} => Concerns(r, call[r].old)
       /\ pc[r] \in {"tenant", "invitation", "user", "write", "ok", "refused", "failed"}
  /\ call[r].kind = "accept" =>
       /\ Concerns(r, call[r].old)
       /\ pc[r] \in {"token", "member", "write", "ok", "refused", "failed"}
Asked == \A r \in Request : pc[r] = "new" \/ Fitting(r)

\* Rows refer to rows, and an invitation is its answered request's.
Rows ==
  /\ \A i \in Request : invitation[i] # "none" =>
       /\ pc[i] = "ok" /\ grant[i].slug \in Slug /\ grant[i].email \in Email
       /\ user[grant[i].email] # "none" /\ tenant[grant[i].slug] # "none"
  /\ \A p \in O!Place : member[p] # "none" => tenant[p[1]] # "none"

\* Row locks exclude each other.
Apart(r, q) ==
  /\ \A i \in Request : ~(O!LocksInvitation(r, i) /\ O!LocksInvitation(q, i))
  /\ \A e \in Email : ~(O!LocksUser(r, e) /\ O!LocksUser(q, e))
  /\ \A k \in IdempotencyKey : ~(O!LocksKey(r, k) /\ O!LocksKey(q, k))
Locking == \A r, q \in Request : r # q => Apart(r, q)

\* What a request has read under its locks is still so.
StillSo(r) ==
  /\ call[r].kind \in {"resend", "resendOwner"} /\ pc[r] \in {"user", "write"} =>
       /\ invitation[call[r].old] = "pending"
       /\ grant[call[r].old].role = IF call[r].kind = "resend" THEN "admin" ELSE "owner"
  /\ call[r].kind = "accept" /\ pc[r] \in {"member", "write"} =>
       invitation[call[r].old] = "pending"
  /\ call[r].kind = "invite" /\ pc[r] = "write" => member[O!At(r)] = "none"
  /\ call[r].kind = "provision" /\ pc[r] \in {"user", "write"} => claimed[call[r].key] = Nobody
Reading == \A r \in Request : StillSo(r)

\* Who holds an idempotency key, who was answered by it, and why a request
\* under it was turned down.
Claims ==
  \A k \in IdempotencyKey : claimed[k] # Nobody =>
    /\ call[claimed[k]].kind = "provision" /\ pc[claimed[k]] = "ok"
    /\ call[claimed[k]].key = k /\ tenant[call[claimed[k]].slug] # "none"
Answered(r) ==
  call[r].kind = "provision" =>
    /\ pc[r] = "ok" =>
         claimed[call[r].key] # Nobody /\ O!SameRequest(r, claimed[call[r].key])
    /\ pc[r] = "conflict" =>
         IF claimed[call[r].key] = Nobody THEN tenant[call[r].slug] # "none"
         ELSE ~O!SameRequest(r, claimed[call[r].key])
Answers == \A r \in Request : Answered(r)

OnboardingInv ==
  /\ OnboardingTypes /\ Asked /\ Rows /\ Locking /\ Reading /\ Claims /\ Answers
  /\ OneInvitationPerInvitee /\ TenantHasItsOwner /\ InviteeCanActivate

LEMMA OnboardingStarts == ASSUME OnboardingAssumption, O!Init PROVE OnboardingInv
<1> USE DEF O!Init, O!Call
<1>1. OnboardingTypes
  BY DEF OnboardingTypes, Labels, Calls, O!Kinds
<1>2. Asked /\ Rows /\ Locking /\ Reading
  BY DEF Asked, Rows, Locking, Apart, Reading, StillSo, O!LocksInvitation, O!LocksUser,
         O!LocksKey
<1>3. Claims /\ Answers
  BY DEF Claims, Answers, Answered
<1>4. /\ \A p \in O!Place : O!Pending(p) = {} /\ O!Accepted(p) = {}
      /\ \A s \in Slug : O!PendingOwner(s) = {} /\ O!AcceptedOwner(s) = {}
  BY DEF O!Pending, O!Accepted, O!Invites, O!PendingOwner, O!AcceptedOwner
<1>5. OneInvitationPerInvitee /\ TenantHasItsOwner /\ InviteeCanActivate
  BY <1>4 DEF OneInvitationPerInvitee, O!OneInvitationPerInvitee, O!OneIf, TenantHasItsOwner,
              O!TenantHasItsOwner, InviteeCanActivate, O!InviteeCanActivate
<1> QED BY <1>1, <1>2, <1>3, <1>5 DEF OnboardingInv

\* The request r runs a statement that writes nothing: it goes to a label.
Final == {"ok", "known", "conflict", "refused", "failed"}
Moves(r, label, c) ==
  /\ pc[r] \notin Final
  /\ label \in Labels /\ pc' = [pc EXCEPT ![r] = label]
  /\ c \in Calls /\ call' = [call EXCEPT ![r] = c]
  /\ UNCHANGED <<user, tenant, member, invitation, grant, link, claimed>>

LEMMA MoveKeeps ==
  ASSUME OnboardingInv, NEW r \in Request, NEW label, NEW c, Moves(r, label, c),
         Fitting(r)', StillSo(r)', Answered(r)',
         \A q \in Request \ {r} : Apart(r, q)'
  PROVE  OnboardingInv'
<1> USE DEF Moves
<1>0. OnboardingTypes
  BY DEF OnboardingInv
<1>1. OnboardingTypes'
  BY <1>0 DEF OnboardingTypes
<1>2. \A q \in Request : q # r => pc'[q] = pc[q] /\ call'[q] = call[q]
  BY <1>0 DEF OnboardingTypes
<1>3. Asked'
  <2> SUFFICES ASSUME NEW q \in Request, q # r, pc[q] # "new" PROVE Fitting(q)'
    BY <1>2 DEF Asked
  <2>1. Fitting(q)
    BY DEF OnboardingInv, Asked
  <2> QED BY <1>2, <2>1 DEF Fitting, Concerns
<1>4. Rows'
  BY <1>2 DEF OnboardingInv, Rows, Final
<1>5. Locking'
  <2>1. \A p, q \in Request : p # r /\ q # r /\ p # q => Apart(p, q)'
    <3> TAKE p, q \in Request
    <3> HAVE p # r /\ q # r /\ p # q
    <3>1. Apart(p, q)
      BY DEF OnboardingInv, Locking
    <3> QED BY <1>2, <3>1 DEF Apart, O!LocksInvitation, O!LocksUser, O!LocksKey
  <2>2. \A p, q : Apart(p, q)' <=> Apart(q, p)'
    BY DEF Apart
  <2> QED BY <2>1, <2>2 DEF Locking
<1>6. Reading'
  <2> SUFFICES ASSUME NEW q \in Request, q # r PROVE StillSo(q)'
    BY DEF Reading
  <2>1. StillSo(q)
    BY DEF OnboardingInv, Reading
  <2> QED BY <1>2, <2>1 DEF StillSo, O!At
<1>7. Claims'
  BY <1>0, <1>2 DEF OnboardingInv, Claims, OnboardingTypes, Final
<1>8. Answers'
  <2> SUFFICES ASSUME NEW q \in Request, q # r, call[q].kind = "provision" PROVE Answered(q)'
    BY <1>2 DEF Answers, Answered
  <2>1. Answered(q)
    BY DEF OnboardingInv, Answers
  <2>2. pc[q] \in {"ok", "conflict"} => call[q].key \in IdempotencyKey
    BY DEF OnboardingInv, Asked, Fitting
  <2>3. ASSUME pc[q] \in {"ok", "conflict"}, claimed[call[q].key] # Nobody
        PROVE  claimed[call[q].key] \in Request \ {r}
    BY <1>0, <2>2, <2>3 DEF OnboardingInv, Claims, OnboardingTypes, Final
  <2> QED BY <1>2, <2>1, <2>3 DEF Answered, O!SameRequest, O!At
<1>9. /\ OneInvitationPerInvitee' = OneInvitationPerInvitee
      /\ TenantHasItsOwner' = TenantHasItsOwner
      /\ InviteeCanActivate' = InviteeCanActivate
  BY DEF OneInvitationPerInvitee, O!OneInvitationPerInvitee, O!OneIf, O!Pending, O!Accepted,
         O!Invites, TenantHasItsOwner, O!TenantHasItsOwner, O!PendingOwner, O!AcceptedOwner,
         InviteeCanActivate, O!InviteeCanActivate
<1> QED BY <1>1, <1>3, <1>4, <1>5, <1>6, <1>7, <1>8, <1>9 DEF OnboardingInv

\* A request arrives.
LEMMA AskMoves ==
  ASSUME OnboardingInv, NEW r \in Request, NEW c \in Calls,
         NEW label \in {"claim", "tenant", "user", "invitation", "token"},
         O!Ask(r, c, label), Fitting(r)', label = "user" => c.kind = "invite"
  PROVE  OnboardingInv'
<1>0. call \in [Request -> Calls] /\ pc \in [Request -> Labels]
  BY DEF OnboardingInv, OnboardingTypes
<1>1. Moves(r, label, c)
  BY DEF O!Ask, O!Go, O!tables, Moves, Labels, Final
<1>2. pc'[r] = label /\ call'[r] = c
  BY <1>0 DEF O!Ask, O!Go
<1>3. StillSo(r)' /\ Answered(r)'
  BY <1>2 DEF StillSo, Answered
<1>4. \A q \in Request \ {r} : Apart(r, q)'
  BY <1>2 DEF Apart, O!LocksInvitation, O!LocksUser, O!LocksKey
<1> QED BY <1>1, <1>3, <1>4, MoveKeeps

LEMMA AskKeeps ==
  ASSUME OnboardingAssumption, OnboardingInv, NEW r \in Request,
         \/ O!AskProvision(r) \/ O!AskResendOwner(r) \/ O!AskInvite(r) \/ O!AskResend(r)
         \/ O!AskAccept(r)
  PROVE  OnboardingInv'
<1>0. OnboardingTypes /\ Rows
  BY DEF OnboardingInv
<1>a. \A kind, s, e, k, i : /\ O!Call(kind, s, e, k, i).kind = kind
                            /\ O!Call(kind, s, e, k, i).slug = s
                            /\ O!Call(kind, s, e, k, i).email = e
                            /\ O!Call(kind, s, e, k, i).key = k
                            /\ O!Call(kind, s, e, k, i).old = i
                            /\ (O!Call(kind, s, e, k, i) \in Calls <=>
                                  /\ kind \in O!Kinds /\ s \in Slug \union {Nobody}
                                  /\ e \in Email \union {Nobody}
                                  /\ k \in IdempotencyKey \union {Nobody}
                                  /\ i \in Request \union {Nobody})
  BY DEF Calls, O!Call
<1>1. ASSUME O!AskProvision(r) PROVE OnboardingInv'
  <2>1. PICK s \in Slug, e \in Email, k \in IdempotencyKey :
          O!Ask(r, O!Call("provision", s, e, k, Nobody), "claim")
    BY <1>1 DEF O!AskProvision
  <2>2. O!Call("provision", s, e, k, Nobody) \in Calls
    BY <1>a DEF O!Kinds
  <2>3. Fitting(r)'
    BY <1>0, <1>a, <2>1 DEF Fitting, O!Ask, O!Go, OnboardingTypes
  <2> QED BY <1>a, <2>1, <2>2, <2>3, AskMoves
<1>2. ASSUME O!AskResendOwner(r) PROVE OnboardingInv'
  <2>1. PICK s \in Slug :
          O!Ask(r, O!Call("resendOwner", s, Nobody, Nobody, Nobody), "tenant")
    BY <1>2 DEF O!AskResendOwner
  <2>2. O!Call("resendOwner", s, Nobody, Nobody, Nobody) \in Calls
    BY <1>a DEF O!Kinds
  <2>3. Fitting(r)'
    BY <1>0, <1>a, <2>1 DEF Fitting, O!Ask, O!Go, OnboardingTypes
  <2> QED BY <1>a, <2>1, <2>2, <2>3, AskMoves
<1>3. ASSUME O!AskInvite(r) PROVE OnboardingInv'
  <2>1. PICK s \in Slug, e \in Email :
          /\ tenant[s] = "active"
          /\ O!Ask(r, O!Call("invite", s, e, Nobody, Nobody), "user")
    BY <1>3 DEF O!AskInvite
  <2>2. O!Call("invite", s, e, Nobody, Nobody) \in Calls
    BY <1>a DEF O!Kinds
  <2>3. Fitting(r)'
    BY <1>0, <1>a, <2>1 DEF Fitting, O!Ask, O!Go, O!tables, OnboardingTypes
  <2> QED BY <1>a, <2>1, <2>2, <2>3, AskMoves
<1>4. ASSUME O!AskResend(r) PROVE OnboardingInv'
  <2>1. PICK i \in Request :
          /\ invitation[i] # "none"
          /\ O!Ask(r, O!Call("resend", grant[i].slug, Nobody, Nobody, i), "invitation")
    BY <1>4 DEF O!AskResend
  <2>2. O!Call("resend", grant[i].slug, Nobody, Nobody, i) \in Calls
    BY <1>0, <1>a DEF O!Kinds, OnboardingTypes
  <2>3. Fitting(r)'
    BY <1>0, <1>a, <2>1 DEF Fitting, O!Ask, O!Go, O!tables, OnboardingTypes
  <2> QED BY <1>a, <2>1, <2>2, <2>3, AskMoves
<1>5. ASSUME O!AskAccept(r) PROVE OnboardingInv'
  <2>1. PICK i \in Request :
          /\ invitation[i] # "none"
          /\ O!Ask(r, O!Call("accept", grant[i].slug, grant[i].email, Nobody, i), "token")
    BY <1>5 DEF O!AskAccept
  <2>2. O!Call("accept", grant[i].slug, grant[i].email, Nobody, i) \in Calls
    BY <1>0, <1>a DEF O!Kinds, OnboardingTypes
  <2>3. Fitting(r)'
    BY <1>0, <1>a, <2>1 DEF Fitting, Concerns, O!Ask, O!Go, O!tables, OnboardingTypes
  <2> QED BY <1>a, <2>1, <2>2, <2>3, AskMoves
<1> QED BY <1>1, <1>2, <1>3, <1>4, <1>5

\* A statement of r that writes nothing; what it must show of its new label.
LEMMA StopKeeps ==
  ASSUME OnboardingInv, NEW r \in Request, NEW label \in Labels, O!Stop(r, label),
         pc[r] \notin Final, Fitting(r)', StillSo(r)', Answered(r)',
         \A q \in Request \ {r} : Apart(r, q)'
  PROVE  OnboardingInv'
<1>1. call \in [Request -> Calls]
  BY DEF OnboardingInv, OnboardingTypes
<1>2. Moves(r, label, call[r])
  BY <1>1 DEF O!Stop, O!Go, O!tables, Moves
<1> QED BY <1>1, <1>2, MoveKeeps

\* ... and that it ends there without an answer, holding no lock.
LEMMA EndKeeps ==
  ASSUME OnboardingInv, NEW r \in Request, NEW label \in {"known", "refused", "failed"},
         O!Stop(r, label), pc[r] \notin Final, Fitting(r)'
  PROVE  OnboardingInv'
<1>1. pc'[r] = label
  BY DEF OnboardingInv, OnboardingTypes, O!Stop, O!Go
<1>2. StillSo(r)' /\ Answered(r)'
  BY <1>1 DEF StillSo, Answered
<1>3. \A q \in Request \ {r} : Apart(r, q)'
  BY <1>1 DEF Apart, O!LocksInvitation, O!LocksUser, O!LocksKey
<1> QED BY <1>2, <1>3, StopKeeps DEF Labels

\* What is known of an open request.
LEMMA RequestAt ==
  ASSUME OnboardingInv, NEW r \in Request, pc[r] # "new"
  PROVE  /\ Fitting(r) /\ StillSo(r) /\ Answered(r) /\ OnboardingTypes /\ call[r] \in Calls
         /\ \A q \in Request \ {r} : Apart(r, q)
BY DEF OnboardingInv, Asked, Reading, Answers, OnboardingTypes, Locking

LEMMA ClaimKeeps ==
  ASSUME OnboardingAssumption, OnboardingInv, NEW r \in Request, O!Claim(r)
  PROVE  OnboardingInv'
<1>0. pc[r] = "claim" /\ Fitting(r) /\ OnboardingTypes /\ call[r] \in Calls
  BY RequestAt DEF O!Claim
<1>1. call[r].kind = "provision" /\ call[r].key \in IdempotencyKey
  BY <1>0 DEF Fitting, Calls, O!Kinds
<1>2. PICK label : /\ label = IF claimed[call[r].key] = Nobody THEN "user"
                              ELSE IF O!SameRequest(r, claimed[call[r].key]) THEN "ok"
                              ELSE "conflict"
                   /\ O!Stop(r, label)
  BY DEF O!Claim
<1>3. pc'[r] = label /\ call' = call /\ claimed' = claimed
  BY <1>0, <1>2 DEF O!Stop, O!Go, O!tables, OnboardingTypes
<1>4. \A q \in Request \ {r} : pc'[q] = pc[q]
  BY <1>0, <1>2 DEF O!Stop, O!Go, OnboardingTypes
<1>5. Fitting(r)'
  BY <1>0, <1>1, <1>2, <1>3 DEF Fitting
<1>6. StillSo(r)' /\ Answered(r)'
  BY <1>1, <1>2, <1>3 DEF StillSo, Answered, O!SameRequest, O!At
<1>7. ASSUME NEW q \in Request \ {r} PROVE Apart(r, q)'
  <2>1. ~O!LocksKey(q, call[r].key)
    BY DEF O!Claim, O!Free
  <2> QED BY <1>1, <1>2, <1>3, <1>4, <2>1 DEF Apart, O!LocksInvitation, O!LocksUser, O!LocksKey
<1> QED BY <1>0, <1>2, <1>5, <1>6, <1>7, StopKeeps DEF Labels, Final

LEMMA LockTenantKeeps ==
  ASSUME OnboardingAssumption, OnboardingInv, NEW r \in Request, O!LockTenant(r)
  PROVE  OnboardingInv'
<1>0. /\ pc[r] = "tenant" /\ Fitting(r) /\ OnboardingTypes /\ call[r] \in Calls
      /\ O!Stop(r, "invitation")
  BY RequestAt DEF O!LockTenant
<1>1. call[r].kind = "resendOwner"
  BY <1>0 DEF Fitting, Calls, O!Kinds
<1>2. pc'[r] = "invitation" /\ call' = call
  BY <1>0 DEF O!Stop, O!Go, OnboardingTypes
<1>3. Fitting(r)' /\ StillSo(r)' /\ Answered(r)'
  BY <1>0, <1>1, <1>2 DEF Fitting, StillSo, Answered
<1>4. \A q \in Request \ {r} : Apart(r, q)'
  BY <1>1, <1>2 DEF Apart, O!LocksInvitation, O!LocksUser, O!LocksKey
<1> QED BY <1>0, <1>3, <1>4, StopKeeps DEF Labels, Final

LEMMA LockInvitationKeeps ==
  ASSUME OnboardingAssumption, OnboardingInv, NEW r \in Request, O!LockInvitation(r)
  PROVE  OnboardingInv'
<1>0. pc[r] = "invitation" /\ Fitting(r) /\ OnboardingTypes /\ call[r] \in Calls
  BY RequestAt DEF O!LockInvitation
<1>1. call[r].kind \in {"resend", "resendOwner"}
  BY <1>0 DEF Fitting, Calls, O!Kinds
<1>2. CASE O!Stop(r, "refused")
  <2>1. Fitting(r)'
    BY <1>0, <1>1, <1>2 DEF Fitting, O!Stop, O!Go, O!tables, OnboardingTypes
  <2> QED BY <1>0, <1>2, <2>1, EndKeeps DEF Final
<1>3. CASE ~O!Stop(r, "refused")
  <2>1. PICK i \in O!Resent(r) :
          /\ call' = [call EXCEPT ![r] = O!Call(@.kind, @.slug, grant[i].email, @.key, i)]
          /\ O!Go(r, "user") /\ UNCHANGED <<O!tables, late>>
    BY <1>3 DEF O!LockInvitation
  <2>2. /\ i \in Request /\ invitation[i] = "pending" /\ grant[i].slug = call[r].slug
        /\ grant[i].role = IF call[r].kind = "resend" THEN "admin" ELSE "owner"
    BY <1>0, <1>1 DEF O!Resent, O!PendingOwner, Fitting
  <2>3. PICK c : c = O!Call(call[r].kind, call[r].slug, grant[i].email, call[r].key, i)
    OBVIOUS
  <2>4. /\ c.kind = call[r].kind /\ c.slug = call[r].slug /\ c.email = grant[i].email
        /\ c.key = call[r].key /\ c.old = i
    BY <2>3 DEF O!Call
  <2>5. c \in Calls
    BY <1>0, <2>2, <2>3 DEF OnboardingTypes, Calls, O!Call
  <2>6. Moves(r, "user", c)
    BY <1>0, <2>1, <2>3, <2>5 DEF Moves, O!Go, O!tables, Final, Labels
  <2>7. call'[r] = c /\ pc'[r] = "user"
    BY <1>0, <2>6 DEF Moves, OnboardingTypes
  <2>8. Fitting(r)'
    BY <1>0, <1>1, <2>1, <2>2, <2>4, <2>7 DEF Fitting, Concerns, O!tables
  <2>9. StillSo(r)' /\ Answered(r)'
    BY <1>1, <2>1, <2>2, <2>4, <2>7 DEF StillSo, Answered, O!tables
  <2>10. ASSUME NEW q \in Request \ {r} PROVE Apart(r, q)'
    <3>1. ~O!LocksInvitation(q, i)
      BY <2>1 DEF O!LockInvitation, O!Free
    <3>2. call'[q] = call[q] /\ pc'[q] = pc[q]
      BY <1>0, <2>6 DEF Moves, OnboardingTypes
    <3> QED BY <1>1, <2>4, <2>7, <3>1, <3>2
            DEF Apart, O!LocksInvitation, O!LocksUser, O!LocksKey
  <2> QED BY <2>5, <2>6, <2>8, <2>9, <2>10, MoveKeeps
<1> QED BY <1>2, <1>3

LEMMA IdentityKeeps ==
  ASSUME OnboardingAssumption, OnboardingInv, NEW r \in Request, O!Identity(r)
  PROVE  OnboardingInv'
<1>0. /\ pc[r] = "user" /\ Fitting(r) /\ StillSo(r) /\ OnboardingTypes /\ call[r] \in Calls
      /\ \A q \in Request \ {r} : Apart(r, q)
  BY RequestAt DEF O!Identity
<1>1. PICK label : /\ label = IF call[r].kind = "invite" THEN "check" ELSE "write"
                   /\ O!Stop(r, label)
  BY DEF O!Identity
<1>2. pc'[r] = label /\ call' = call /\ \A q \in Request \ {r} : pc'[q] = pc[q]
  BY <1>0, <1>1 DEF O!Stop, O!Go, OnboardingTypes
<1>3. call[r].kind # "accept" /\ call[r].email \in Email
  <2>1. ASSUME Concerns(r, call[r].old) PROVE call[r].email \in Email
    BY <2>1 DEF Concerns, OnboardingInv, Rows
  <2> QED BY <1>0, <2>1 DEF Fitting, Calls, O!Kinds
<1>4. Fitting(r)'
  BY <1>0, <1>1, <1>2, <1>3 DEF Fitting, Concerns, O!Stop, O!tables
<1>5. StillSo(r)' /\ Answered(r)'
  BY <1>0, <1>1, <1>2, <1>3 DEF StillSo, Answered, O!Stop, O!tables
<1>6. ASSUME NEW q \in Request \ {r} PROVE Apart(r, q)'
  <2>1. ~O!LocksUser(q, call[r].email) /\ Apart(r, q)
    BY <1>0 DEF O!Identity, O!Free
  <2>2. /\ \A i \in Request : O!LocksInvitation(r, i)' = O!LocksInvitation(r, i)
        /\ \A k \in IdempotencyKey : O!LocksKey(r, k)' = O!LocksKey(r, k)
        /\ \A e \in Email : O!LocksUser(r, e)' => e = call[r].email
    BY <1>0, <1>1, <1>2, <1>3 DEF O!LocksInvitation, O!LocksUser, O!LocksKey, Fitting
  <2> QED BY <1>2, <2>1, <2>2 DEF Apart, O!LocksInvitation, O!LocksUser, O!LocksKey
<1> QED BY <1>0, <1>1, <1>4, <1>5, <1>6, StopKeeps DEF Labels, Final

LEMMA CheckDuplicateKeeps ==
  ASSUME OnboardingAssumption, OnboardingInv, NEW r \in Request, O!CheckDuplicate(r)
  PROVE  OnboardingInv'
<1>0. /\ pc[r] = "check" /\ Fitting(r) /\ OnboardingTypes /\ call[r] \in Calls
      /\ \A q \in Request \ {r} : Apart(r, q)
  BY RequestAt DEF O!CheckDuplicate
<1>1. PICK label : /\ label \in {"write", "known"} /\ O!Stop(r, label)
                   /\ label = "write" => member[O!At(r)] = "none"
  BY DEF O!CheckDuplicate
<1>2. /\ pc'[r] = label /\ call' = call /\ member' = member
      /\ \A q \in Request \ {r} : pc'[q] = pc[q]
  BY <1>0, <1>1 DEF O!Stop, O!Go, O!tables, OnboardingTypes
<1>3. call[r].kind = "invite"
  BY <1>0 DEF Fitting, Calls, O!Kinds
<1>4. Fitting(r)'
  BY <1>0, <1>1, <1>2, <1>3 DEF Fitting, O!Stop, O!tables
<1>5. StillSo(r)' /\ Answered(r)'
  BY <1>1, <1>2, <1>3 DEF StillSo, Answered, O!At
<1>6. ASSUME NEW q \in Request \ {r} PROVE Apart(r, q)'
  BY <1>0, <1>1, <1>2, <1>3 DEF Apart, O!LocksInvitation, O!LocksUser, O!LocksKey
<1> QED BY <1>0, <1>1, <1>4, <1>5, <1>6, StopKeeps DEF Labels, Final

LEMMA LockSelectorKeeps ==
  ASSUME OnboardingAssumption, OnboardingInv, NEW r \in Request, O!LockSelector(r)
  PROVE  OnboardingInv'
<1>0. pc[r] = "token" /\ Fitting(r) /\ OnboardingTypes /\ call[r] \in Calls
  BY RequestAt DEF O!LockSelector
<1>1. PICK label : /\ label \in {"member", "refused"} /\ O!Stop(r, label)
                   /\ label = "member" => invitation[call[r].old] = "pending"
  BY DEF O!LockSelector, O!Available
<1>2. /\ pc'[r] = label /\ call' = call /\ invitation' = invitation
      /\ \A q \in Request \ {r} : pc'[q] = pc[q]
  BY <1>0, <1>1 DEF O!Stop, O!Go, O!tables, OnboardingTypes
<1>3. call[r].kind = "accept"
  BY <1>0 DEF Fitting, Calls, O!Kinds
<1>4. Fitting(r)'
  BY <1>0, <1>1, <1>2, <1>3 DEF Fitting, Concerns, O!Stop, O!tables
<1>5. StillSo(r)' /\ Answered(r)'
  BY <1>1, <1>2, <1>3 DEF StillSo, Answered
<1>6. ASSUME NEW q \in Request \ {r} PROVE Apart(r, q)'
  <2>1. ~O!LocksInvitation(q, call[r].old)
    BY DEF O!LockSelector, O!Free
  <2> QED BY <1>2, <1>3, <2>1 DEF Apart, O!LocksInvitation, O!LocksUser, O!LocksKey
<1> QED BY <1>0, <1>1, <1>4, <1>5, <1>6, StopKeeps DEF Labels, Final

LEMMA LockMemberKeeps ==
  ASSUME OnboardingAssumption, OnboardingInv, NEW r \in Request, O!LockMember(r)
  PROVE  OnboardingInv'
<1>0. /\ pc[r] = "member" /\ Fitting(r) /\ StillSo(r) /\ OnboardingTypes /\ call[r] \in Calls
      /\ \A q \in Request \ {r} : Apart(r, q)
  BY RequestAt DEF O!LockMember
<1>1. PICK label : label \in {"write", "refused"} /\ O!Stop(r, label)
  BY DEF O!LockMember
<1>2. /\ pc'[r] = label /\ call' = call /\ invitation' = invitation
      /\ \A q \in Request \ {r} : pc'[q] = pc[q]
  BY <1>0, <1>1 DEF O!Stop, O!Go, O!tables, OnboardingTypes
<1>3. call[r].kind = "accept"
  BY <1>0 DEF Fitting, Calls, O!Kinds
<1>4. Fitting(r)'
  BY <1>0, <1>1, <1>2, <1>3 DEF Fitting, Concerns, O!Stop, O!tables
<1>5. StillSo(r)' /\ Answered(r)'
  BY <1>0, <1>1, <1>2, <1>3 DEF StillSo, Answered
<1>6. ASSUME NEW q \in Request \ {r} PROVE Apart(r, q)'
  BY <1>0, <1>1, <1>2, <1>3 DEF Apart, O!LocksInvitation, O!LocksUser, O!LocksKey
<1> QED BY <1>0, <1>1, <1>4, <1>5, <1>6, StopKeeps DEF Labels, Final

LEMMA FailKeeps ==
  ASSUME OnboardingAssumption, OnboardingInv, NEW r \in Request, O!Fail(r)
  PROVE  OnboardingInv'
<1>0. /\ pc[r] \notin Final /\ Fitting(r) /\ OnboardingTypes /\ O!Stop(r, "failed")
      /\ pc[r] # "new"
  BY RequestAt DEF O!Fail, O!Open, Final
<1>1. Fitting(r)'
  BY <1>0 DEF Fitting, Concerns, O!Stop, O!Go, O!tables, OnboardingTypes
<1> QED BY <1>0, <1>1, EndKeeps

\* Provisioning, inviting and resending in one: an invitation is issued for
\* a place where nobody is a member, in the place of the pending one.
First(r) == call[r].kind = "provision"
Resends(r) == call[r].kind \in {"resend", "resendOwner"}
Issues(r) ==
  /\ pc[r] = "write" /\ call[r].kind # "accept"
  /\ O!IssueInvitation(r) /\ call' = call
  /\ member' = [member EXCEPT ![O!At(r)] = "invited"]
  /\ First(r) => tenant[call[r].slug] = "none"
  /\ tenant' = IF First(r) THEN [tenant EXCEPT ![call[r].slug] = "provisioning"] ELSE tenant
  /\ claimed' = IF First(r) THEN [claimed EXCEPT ![call[r].key] = r] ELSE claimed

LEMMA Before ==
  ASSUME OnboardingAssumption, OnboardingInv, NEW r \in Request, pc[r] = "write",
         call[r].kind # "accept", First(r) => tenant[call[r].slug] = "none"
  PROVE  /\ call[r].slug \in Slug /\ call[r].email \in Email /\ O!At(r) \in O!Place
         /\ invitation[r] = "none" /\ member[O!At(r)] \in {"none", "invited"}
         /\ ~Resends(r) => call[r].old = Nobody /\ member[O!At(r)] = "none"
         /\ Resends(r) => /\ call[r].old \in Request \ {r} /\ Concerns(r, call[r].old)
                          /\ invitation[call[r].old] = "pending"
                          /\ member[O!At(r)] = "invited"
                          /\ tenant[call[r].slug] # "none"
         /\ First(r) \/ tenant[call[r].slug] # "none"
         /\ O!Pending(O!At(r)) = IF Resends(r) THEN {call[r].old} ELSE {}
         /\ O!RoleFor(r) = "owner" =>
              /\ O!PendingOwner(call[r].slug) = IF Resends(r) THEN {call[r].old} ELSE {}
              /\ tenant[call[r].slug] = IF First(r) THEN "none" ELSE "provisioning"
         /\ O!RoleFor(r) # "owner" => \A s \in Slug : call[r].old \notin O!PendingOwner(s)
<1>0. /\ Fitting(r) /\ StillSo(r) /\ OnboardingTypes /\ call[r] \in Calls
      /\ Rows /\ OneInvitationPerInvitee /\ TenantHasItsOwner
  BY RequestAt DEF OnboardingInv
<1>1. invitation[r] = "none"
  BY <1>0 DEF Rows, OnboardingTypes
<1>2. ASSUME Resends(r)
      PROVE  /\ call[r].old \in Request \ {r} /\ Concerns(r, call[r].old)
             /\ invitation[call[r].old] = "pending"
             /\ grant[call[r].old].role = IF call[r].kind = "resend" THEN "admin" ELSE "owner"
  BY <1>0, <1>1, <1>2 DEF Resends, Fitting, StillSo, Concerns
<1>3. /\ call[r].slug \in Slug /\ call[r].email \in Email /\ O!At(r) \in O!Place
      /\ Resends(r) => tenant[call[r].slug] # "none"
  <2>1. call[r].slug \in Slug /\ call[r].email \in Email
        /\ (Resends(r) => tenant[call[r].slug] # "none")
    BY <1>0, <1>2 DEF Fitting, Concerns, Rows, Resends, Calls, O!Kinds
  <2> QED BY <2>1 DEF O!At, O!Place
<1>4. ~Resends(r) => call[r].old = Nobody /\ member[O!At(r)] = "none"
  <2>1. ASSUME First(r) PROVE call[r].old = Nobody /\ member[O!At(r)] = "none"
    BY <1>0, <1>3, <2>1 DEF First, Fitting, Rows, O!At, O!Place
  <2> QED BY <1>0, <2>1 DEF First, Resends, Fitting, StillSo, Calls, O!Kinds
<1>5. Resends(r) => member[O!At(r)] = "invited" /\ O!Pending(O!At(r)) = {call[r].old}
  <2> HAVE Resends(r)
  <2>1. call[r].old \in O!Pending(O!At(r))
    BY <1>2 DEF O!Pending, O!Invites, O!At, Concerns
  <2> QED BY <1>0, <1>3, <2>1 DEF OneInvitationPerInvitee, O!OneInvitationPerInvitee, O!OneIf
<1>6. ~Resends(r) => O!Pending(O!At(r)) = {}
  BY <1>0, <1>3, <1>4 DEF OneInvitationPerInvitee, O!OneInvitationPerInvitee, O!OneIf
<1>7. ASSUME O!RoleFor(r) = "owner"
      PROVE  /\ O!PendingOwner(call[r].slug) = IF Resends(r) THEN {call[r].old} ELSE {}
             /\ tenant[call[r].slug] = IF First(r) THEN "none" ELSE "provisioning"
  <2>1. CASE First(r)
    BY <1>0, <1>3, <2>1
       DEF First, Resends, TenantHasItsOwner, O!TenantHasItsOwner, O!OneIf
  <2>2. CASE ~First(r)
    <3>1. Resends(r)
      BY <1>0, <1>7, <2>2 DEF First, Resends, O!RoleFor, Calls, O!Kinds
    <3>2. call[r].old \in O!PendingOwner(call[r].slug)
      BY <1>2, <1>7, <2>2, <3>1 DEF O!PendingOwner, O!RoleFor, First, Resends, Concerns
    <3> QED BY <1>0, <1>3, <2>2, <3>1, <3>2
            DEF TenantHasItsOwner, O!TenantHasItsOwner, O!OneIf
  <2> QED BY <2>1, <2>2
<1>8. ASSUME O!RoleFor(r) # "owner", NEW s \in Slug
      PROVE  call[r].old \notin O!PendingOwner(s)
  BY <1>0, <1>2, <1>4, <1>8
     DEF OnboardingAssumption, O!RoleFor, O!PendingOwner, Resends, Calls, O!Kinds
<1>9. First(r) \/ tenant[call[r].slug] # "none"
  BY <1>0, <1>3 DEF First, Resends, Fitting, Calls, O!Kinds
<1> QED BY <1>1, <1>2, <1>3, <1>4, <1>5, <1>6, <1>7, <1>8, <1>9

\* What the tables say afterwards.
LEMMA After ==
  ASSUME OnboardingAssumption, OnboardingInv, NEW r \in Request, Issues(r)
  PROVE  /\ \A p \in O!Place : O!Pending(p)' = IF p = O!At(r) THEN {r} ELSE O!Pending(p)
         /\ \A p \in O!Place : O!Accepted(p)' = O!Accepted(p)
         /\ \A s \in Slug : O!PendingOwner(s)' = IF s = call[r].slug /\ O!RoleFor(r) = "owner"
                                                THEN {r} ELSE O!PendingOwner(s)
         /\ \A s \in Slug : O!AcceptedOwner(s)' = O!AcceptedOwner(s)
<1>0. OnboardingTypes
  BY DEF OnboardingInv
<1>1. /\ invitation[r] = "none"
      /\ ~Resends(r) => call[r].old = Nobody
      /\ Resends(r) => call[r].old \in Request \ {r} /\ Concerns(r, call[r].old)
                         /\ invitation[call[r].old] = "pending"
      /\ O!Pending(O!At(r)) = IF Resends(r) THEN {call[r].old} ELSE {}
      /\ O!RoleFor(r) = "owner" =>
           O!PendingOwner(call[r].slug) = IF Resends(r) THEN {call[r].old} ELSE {}
      /\ O!RoleFor(r) # "owner" => \A s \in Slug : call[r].old \notin O!PendingOwner(s)
  BY Before DEF Issues
<1>2. /\ invitation'[r] = "pending"
      /\ \A i \in Request \ {r} :
           invitation'[i] = IF i = call[r].old THEN "revoked" ELSE invitation[i]
      /\ grant'[r].slug = call[r].slug /\ grant'[r].email = call[r].email
      /\ grant'[r].role = O!RoleFor(r)
      /\ \A i \in Request \ {r} : grant'[i] = grant[i]
  BY <1>0 DEF Issues, O!IssueInvitation, OnboardingTypes
<1>3. \A p \in O!Place : O!Pending(p)' = IF p = O!At(r) THEN {r} ELSE O!Pending(p)
  <2> SUFFICES ASSUME NEW p \in O!Place, NEW i \in Request
               PROVE  i \in O!Pending(p)' <=> i \in IF p = O!At(r) THEN {r} ELSE O!Pending(p)
    BY DEF O!Pending
  <2>1. CASE i = r
    BY <1>1, <1>2, <2>1 DEF O!Pending, O!Invites, O!At
  <2>2. CASE i # r /\ i = call[r].old
    BY <1>1, <1>2, <2>2 DEF O!Pending, O!Invites, O!At, Concerns, OnboardingAssumption
  <2>3. CASE i # r /\ i # call[r].old
    BY <1>1, <1>2, <2>3 DEF O!Pending, O!Invites
  <2> QED BY <2>1, <2>2, <2>3
<1>4. \A p \in O!Place : O!Accepted(p)' = O!Accepted(p)
  BY <1>1, <1>2 DEF O!Accepted, O!Invites
<1>5. \A s \in Slug : O!PendingOwner(s)' = IF s = call[r].slug /\ O!RoleFor(r) = "owner"
                                          THEN {r} ELSE O!PendingOwner(s)
  <2> SUFFICES ASSUME NEW s \in Slug, NEW i \in Request
               PROVE  i \in O!PendingOwner(s)' <=>
                        i \in IF s = call[r].slug /\ O!RoleFor(r) = "owner"
                              THEN {r} ELSE O!PendingOwner(s)
    BY DEF O!PendingOwner
  <2>1. CASE i = r
    BY <1>1, <1>2, <2>1 DEF O!PendingOwner
  <2>2. CASE i # r /\ i = call[r].old
    BY <1>1, <1>2, <2>2 DEF O!PendingOwner, Concerns, OnboardingAssumption
  <2>3. CASE i # r /\ i # call[r].old
    BY <1>1, <1>2, <2>3 DEF O!PendingOwner
  <2> QED BY <2>1, <2>2, <2>3
<1>6. \A s \in Slug : O!AcceptedOwner(s)' = O!AcceptedOwner(s)
  BY <1>1, <1>2 DEF O!AcceptedOwner
<1> QED BY <1>3, <1>4, <1>5, <1>6

LEMMA IssueKeeps ==
  ASSUME OnboardingAssumption, OnboardingInv, NEW r \in Request, Issues(r)
  PROVE  OnboardingInv'
<1>0. /\ OnboardingTypes /\ Fitting(r) /\ StillSo(r) /\ call[r] \in Calls /\ Rows
      /\ OneInvitationPerInvitee /\ TenantHasItsOwner /\ InviteeCanActivate
      /\ Claims /\ Answers
      /\ \A q \in Request \ {r} : Apart(r, q)
  BY RequestAt DEF OnboardingInv, Issues
<1>1. /\ call[r].slug \in Slug /\ call[r].email \in Email /\ O!At(r) \in O!Place
      /\ invitation[r] = "none" /\ member[O!At(r)] \in {"none", "invited"}
      /\ ~Resends(r) => call[r].old = Nobody /\ member[O!At(r)] = "none"
      /\ Resends(r) => /\ call[r].old \in Request \ {r} /\ Concerns(r, call[r].old)
                       /\ invitation[call[r].old] = "pending"
                       /\ member[O!At(r)] = "invited"
                       /\ tenant[call[r].slug] # "none"
      /\ First(r) \/ tenant[call[r].slug] # "none"
      /\ O!RoleFor(r) = "owner" => tenant[call[r].slug] = IF First(r) THEN "none"
                                                          ELSE "provisioning"
  BY Before DEF Issues
<1>2. /\ invitation'[r] = "pending"
      /\ \A i \in Request \ {r} :
           invitation'[i] = IF i = call[r].old THEN "revoked" ELSE invitation[i]
      /\ grant'[r].slug = call[r].slug /\ grant'[r].email = call[r].email
      /\ \A i \in Request \ {r} : grant'[i] = grant[i]
      /\ pc'[r] = "ok" /\ \A q \in Request \ {r} : pc'[q] = pc[q]
      /\ call' = call
  BY <1>0 DEF Issues, O!IssueInvitation, O!Go, OnboardingTypes
<1>3. /\ user' \in [Email -> {"none", "pending", "active"}]
      /\ \A e \in Email : user[e] # "none" => user'[e] = user[e]
      /\ user'[call[r].email] # "none"
      /\ \A e \in Email \ {call[r].email} : user'[e] = user[e]
  BY <1>0, <1>1 DEF Issues, O!IssueInvitation, O!UserAfter, OnboardingTypes
<1>4. /\ link' \in [O!Place -> Request \union {Nobody}]
      /\ user'[call[r].email] = "pending" => link'[O!At(r)] = r
      /\ \A p \in O!Place : p # O!At(r) => link'[p] = link[p]
  <2>1. link' = IF user'[call[r].email] = "pending" THEN [link EXCEPT ![O!At(r)] = r] ELSE link
    BY DEF Issues, O!IssueInvitation, O!LinkAfter
  <2> QED BY <1>0, <1>1, <2>1 DEF OnboardingTypes
<1>5. /\ tenant' \in [Slug -> {"none", "provisioning", "active"}]
      /\ tenant'[call[r].slug] = IF First(r) THEN "provisioning" ELSE tenant[call[r].slug]
      /\ \A s \in Slug : s # call[r].slug => tenant'[s] = tenant[s]
      /\ tenant'[call[r].slug] # "none"
  BY <1>0, <1>1 DEF Issues, OnboardingTypes
<1>6. /\ member'[O!At(r)] = "invited"
      /\ \A p \in O!Place : p # O!At(r) => member'[p] = member[p]
  BY <1>0, <1>1 DEF Issues, OnboardingTypes
<1>7. /\ First(r) => /\ call[r].key \in IdempotencyKey /\ claimed[call[r].key] = Nobody
                     /\ claimed'[call[r].key] = r
      /\ \A k \in IdempotencyKey : claimed'[k] = claimed[k] \/ (First(r) /\ k = call[r].key)
  BY <1>0 DEF Issues, OnboardingTypes, Fitting, StillSo, First
<1>8. OnboardingTypes'
  <2>1. grant' \in [Request -> [slug : Slug \union {Nobody}, email : Email \union {Nobody},
                                role : {"owner", "admin"}]]
    <3>1. O!RoleFor(r) \in {"owner", "admin"}
      <4>1. Resends(r) => grant[call[r].old].role \in {"owner", "admin"}
        BY <1>0, <1>1 DEF OnboardingTypes
      <4>2. call[r].kind \in {"provision", "invite", "resend", "resendOwner"}
        BY <1>0 DEF Issues, Calls, O!Kinds
      <4> QED BY <4>1, <4>2 DEF O!RoleFor, Resends
    <3> QED BY <1>0, <1>1, <3>1 DEF Issues, O!IssueInvitation, OnboardingTypes
  <2>2. invitation' \in [Request -> {"none", "pending", "revoked", "accepted"}]
    BY <1>0 DEF Issues, O!IssueInvitation, OnboardingTypes
  <2>3. pc' \in [Request -> Labels] /\ call' \in [Request -> Calls]
    BY <1>0 DEF Issues, O!IssueInvitation, O!Go, OnboardingTypes, Labels
  <2>4. member' \in [O!Place -> {"none", "invited", "active", "revoked"}]
    BY <1>0 DEF Issues, OnboardingTypes
  <2>5. claimed' \in [IdempotencyKey -> Request \union {Nobody}]
    BY <1>0 DEF Issues, OnboardingTypes
  <2> QED BY <1>3, <1>4, <1>5, <2>1, <2>2, <2>3, <2>4, <2>5 DEF OnboardingTypes
<1>9. \A i \in Request : invitation[i] # "none" =>
        i # r /\ invitation'[i] # "none" /\ grant'[i] = grant[i]
  BY <1>1, <1>2
<1>10. Asked'
  <2> SUFFICES ASSUME NEW q \in Request, pc'[q] # "new" PROVE Fitting(q)'
    BY DEF Asked
  <2>1. Fitting(q) /\ (q # r => pc'[q] = pc[q])
    BY <1>0, <1>2 DEF OnboardingInv, Asked
  <2>2. \A i : Concerns(q, i) => Concerns(q, i)'
    BY <1>2, <1>9 DEF Concerns
  <2>3. call[q].slug \in Slug /\ tenant[call[q].slug] # "none" => tenant'[call[q].slug] # "none"
    BY <1>5
  <2>4. q = r => pc'[q] = "ok" /\ call[q].kind # "accept"
    BY <1>2 DEF Issues
  <2> QED BY <1>2, <1>9, <2>1, <2>2, <2>3, <2>4 DEF Fitting
<1>11. Rows'
  <2>1. ASSUME NEW i \in Request, invitation'[i] # "none"
        PROVE  /\ pc'[i] = "ok" /\ grant'[i].slug \in Slug /\ grant'[i].email \in Email
               /\ user'[grant'[i].email] # "none" /\ tenant'[grant'[i].slug] # "none"
    <3>1. CASE i = r
      BY <1>1, <1>2, <1>3, <1>5, <3>1
    <3>2. CASE i # r
      <4>1. invitation[i] # "none"
        BY <1>1, <1>2, <2>1, <3>2 DEF OnboardingAssumption
      <4>2. /\ pc[i] = "ok" /\ grant[i].slug \in Slug /\ grant[i].email \in Email
            /\ user[grant[i].email] # "none" /\ tenant[grant[i].slug] # "none"
        BY <1>0, <4>1 DEF Rows
      <4> QED BY <1>2, <1>3, <1>5, <3>2, <4>2
    <3> QED BY <3>1, <3>2
  <2>2. ASSUME NEW p \in O!Place, member'[p] # "none" PROVE tenant'[p[1]] # "none"
    <3>1. CASE p = O!At(r)
      BY <1>5, <3>1 DEF O!At
    <3>2. CASE p # O!At(r)
      <4>1. tenant[p[1]] # "none" /\ p[1] \in Slug
        BY <1>0, <1>6, <2>2, <3>2 DEF Rows, O!Place
      <4> QED BY <1>5, <4>1
    <3> QED BY <3>1, <3>2
  <2> QED BY <2>1, <2>2 DEF Rows
<1>12. Locking'
  <2>1. \A p, q \in Request \ {r} : p # q => Apart(p, q)'
    <3> TAKE p, q \in Request \ {r}
    <3> HAVE p # q
    <3>1. Apart(p, q)
      BY DEF OnboardingInv, Locking
    <3> QED BY <1>2, <3>1 DEF Apart, O!LocksInvitation, O!LocksUser, O!LocksKey
  <2>2. \A q \in Request : Apart(r, q)' /\ Apart(q, r)'
    BY <1>2 DEF Apart, O!LocksInvitation, O!LocksUser, O!LocksKey
  <2> QED BY <2>1, <2>2 DEF Locking
<1>13. Reading'
  <2> SUFFICES ASSUME NEW q \in Request, q # r, pc[q] # "new" PROVE StillSo(q)'
    BY <1>2 DEF Reading, StillSo
  <2>1. StillSo(q) /\ Fitting(q) /\ Apart(r, q) /\ call[q] \in Calls
    BY RequestAt, <1>0
  <2>2. ASSUME NEW i \in Request, invitation[i] = "pending", O!LocksInvitation(q, i)
        PROVE  invitation'[i] = "pending" /\ grant'[i] = grant[i]
    <3>1. i = call[r].old => O!LocksInvitation(r, i)
      BY <1>1, <2>2 DEF Issues, O!LocksInvitation, Resends, OnboardingAssumption
    <3>2. i # call[r].old /\ i # r
      BY <1>1, <2>1, <2>2, <3>1 DEF Apart
    <3> QED BY <1>2, <2>2, <3>2
  <2>3. ASSUME call[q].kind \in {"resend", "resendOwner"}, pc[q] \in {"user", "write"}
        PROVE  /\ invitation'[call[q].old] = "pending"
               /\ grant'[call[q].old] = grant[call[q].old]
    BY <2>1, <2>2, <2>3 DEF StillSo, Fitting, Concerns, O!LocksInvitation
  <2>4. ASSUME call[q].kind = "accept", pc[q] \in {"member", "write"}
        PROVE  invitation'[call[q].old] = "pending"
    BY <2>1, <2>2, <2>4 DEF StillSo, Fitting, Concerns, O!LocksInvitation
  <2>5. ASSUME call[q].kind = "invite", pc[q] = "write" PROVE member'[O!At(q)] = "none"
    <3>1. O!LocksUser(q, call[q].email) /\ O!LocksUser(r, call[r].email)
      BY <2>5 DEF O!LocksUser, Issues
    <3>2. call[q].email # call[r].email /\ O!At(q) # O!At(r) /\ O!At(q) \in O!Place
      BY <1>1, <2>1, <2>5, <3>1 DEF Apart, O!At, Fitting, O!Place
    <3> QED BY <1>6, <2>1, <2>5, <3>2 DEF StillSo
  <2>6. ASSUME call[q].kind = "provision", pc[q] \in {"user", "write"}
        PROVE  claimed'[call[q].key] = Nobody
    <3>1. O!LocksKey(q, call[q].key) /\ call[q].key \in IdempotencyKey
      BY <2>1, <2>6 DEF O!LocksKey, Fitting
    <3>2. First(r) => O!LocksKey(r, call[r].key)
      BY DEF O!LocksKey, Issues, First
    <3> QED BY <1>7, <2>1, <2>6, <3>1, <3>2 DEF Apart, StillSo
  <2> QED BY <1>2, <2>1, <2>3, <2>4, <2>5, <2>6 DEF StillSo, O!At
<1>14. Claims'
  <2> SUFFICES ASSUME NEW k \in IdempotencyKey, claimed'[k] # Nobody
               PROVE  /\ call[claimed'[k]].kind = "provision" /\ pc'[claimed'[k]] = "ok"
                      /\ call[claimed'[k]].key = k /\ tenant'[call[claimed'[k]].slug] # "none"
    BY <1>2 DEF Claims
  <2>1. CASE First(r) /\ k = call[r].key
    BY <1>2, <1>5, <1>7, <2>1 DEF First
  <2>2. CASE claimed'[k] = claimed[k]
    <3>1. /\ claimed[k] \in Request /\ pc[claimed[k]] = "ok"
          /\ call[claimed[k]].kind = "provision" /\ call[claimed[k]].key = k
          /\ tenant[call[claimed[k]].slug] # "none" /\ claimed[k] # r
      BY <1>0, <2>2 DEF Claims, OnboardingTypes, Issues
    <3>2. call[claimed[k]].slug \in Slug
      BY <3>1 DEF OnboardingInv, Asked, Fitting
    <3> QED BY <1>2, <1>5, <2>2, <3>1, <3>2
  <2> QED BY <1>7, <2>1, <2>2
<1>15. Answers'
  <2> SUFFICES ASSUME NEW q \in Request PROVE Answered(q)'
    BY DEF Answers
  <2>1. CASE q = r
    BY <1>0, <1>2, <1>7, <2>1 DEF Answered, First, O!SameRequest, OnboardingAssumption
  <2>2. CASE q # r /\ call[q].kind = "provision" /\ pc[q] \in {"ok", "conflict"}
    <3>1. Answered(q) /\ Fitting(q)
      BY <1>0, <2>2 DEF Answers, OnboardingInv, Asked
    <3>2. call[q].key \in IdempotencyKey /\ call[q].slug \in Slug
      BY <2>2, <3>1 DEF Fitting
    <3>3. CASE claimed'[call[q].key] = claimed[call[q].key]
      BY <1>2, <1>5, <2>2, <3>1, <3>2, <3>3 DEF Answered, O!SameRequest, O!At
    <3>4. CASE First(r) /\ call[q].key = call[r].key
      <4>1. pc[q] = "conflict" /\ tenant[call[q].slug] # "none"
        BY <1>7, <2>2, <3>1, <3>4 DEF Answered
      <4>2. call[q].slug # call[r].slug
        BY <3>4, <4>1 DEF Issues
      <4>3. ~O!SameRequest(q, r) /\ claimed'[call[q].key] = r /\ r # Nobody
        BY <1>7, <3>4, <4>2 DEF O!SameRequest, O!At, OnboardingAssumption
      <4> QED BY <1>2, <2>2, <4>1, <4>3 DEF Answered, O!SameRequest, O!At
    <3> QED BY <1>7, <3>2, <3>3, <3>4
  <2> QED BY <1>2, <2>1, <2>2 DEF Answered
<1>16. OneInvitationPerInvitee'
  <2> SUFFICES ASSUME NEW p \in O!Place
               PROVE  /\ O!OneIf(member'[p] = "invited", O!Pending(p)')
                      /\ O!OneIf(member'[p] \in {"active", "revoked"}, O!Accepted(p)')
    BY DEF OneInvitationPerInvitee, O!OneInvitationPerInvitee, O!OneIf
  <2>1. /\ O!OneIf(member[p] = "invited", O!Pending(p))
        /\ O!OneIf(member[p] \in {"active", "revoked"}, O!Accepted(p))
    BY <1>0 DEF OneInvitationPerInvitee, O!OneInvitationPerInvitee
  <2>2. /\ O!Pending(p)' = IF p = O!At(r) THEN {r} ELSE O!Pending(p)
        /\ O!Accepted(p)' = O!Accepted(p)
    BY After
  <2> QED BY <1>1, <1>6, <2>1, <2>2 DEF O!OneIf
<1>17. TenantHasItsOwner'
  <2> SUFFICES ASSUME NEW s \in Slug
               PROVE  /\ O!OneIf(tenant'[s] = "provisioning", O!PendingOwner(s)')
                      /\ O!OneIf(tenant'[s] = "active", O!AcceptedOwner(s)')
    BY DEF TenantHasItsOwner, O!TenantHasItsOwner, O!OneIf
  <2>1. /\ O!OneIf(tenant[s] = "provisioning", O!PendingOwner(s))
        /\ O!OneIf(tenant[s] = "active", O!AcceptedOwner(s))
    BY <1>0 DEF TenantHasItsOwner, O!TenantHasItsOwner
  <2>2. /\ O!PendingOwner(s)' = IF s = call[r].slug /\ O!RoleFor(r) = "owner"
                                THEN {r} ELSE O!PendingOwner(s)
        /\ O!AcceptedOwner(s)' = O!AcceptedOwner(s)
    BY After
  <2>3. First(r) => O!RoleFor(r) = "owner" /\ tenant[call[r].slug] = "none"
    BY DEF First, O!RoleFor, Issues
  <2> QED BY <1>1, <1>5, <2>1, <2>2, <2>3 DEF O!OneIf
<1>18. InviteeCanActivate'
  <2> SUFFICES ASSUME NEW p \in O!Place, NEW i \in Request,
                      i \in O!Pending(p)', user'[p[2]] = "pending"
               PROVE  link'[p] = i
    BY DEF InviteeCanActivate, O!InviteeCanActivate
  <2>1. O!Pending(p)' = IF p = O!At(r) THEN {r} ELSE O!Pending(p)
    BY After
  <2>2. CASE p = O!At(r)
    BY <1>4, <2>1, <2>2 DEF O!At
  <2>3. CASE p # O!At(r)
    <3>1. i \in O!Pending(p) /\ user[p[2]] # "none" /\ p[2] \in Email
      BY <1>0, <2>1, <2>3 DEF O!Pending, O!Invites, Rows, O!Place
    <3>2. user[p[2]] = "pending"
      BY <1>3, <3>1
    <3> QED BY <1>0, <1>4, <2>3, <3>1, <3>2 DEF InviteeCanActivate, O!InviteeCanActivate
  <2> QED BY <2>2, <2>3
<1> QED BY <1>8, <1>10, <1>11, <1>12, <1>13, <1>14, <1>15, <1>16, <1>17, <1>18
        DEF OnboardingInv

LEMMA WriteKeeps ==
  ASSUME OnboardingAssumption, OnboardingInv, NEW r \in Request,
         \/ O!Provision(r) \/ O!Invite(r) \/ O!ResendOwner(r) \/ O!Resend(r)
  PROVE  OnboardingInv'
<1>0. /\ pc[r] = "write" /\ Fitting(r) /\ StillSo(r) /\ OnboardingTypes /\ call[r] \in Calls
      /\ \A q \in Request \ {r} : Apart(r, q)
  BY RequestAt DEF O!Provision, O!Invite, O!ResendOwner, O!Resend
<1>1. ASSUME O!Provision(r), O!Stop(r, "conflict"), tenant[call[r].slug] # "none"
      PROVE  OnboardingInv'
  <2>1. call[r].kind = "provision" /\ claimed[call[r].key] = Nobody
    BY <1>0, <1>1 DEF O!Provision, StillSo
  <2>2. pc'[r] = "conflict" /\ call' = call
    BY <1>0, <1>1 DEF O!Stop, O!Go, OnboardingTypes
  <2>3. Fitting(r)' /\ StillSo(r)' /\ Answered(r)'
    BY <1>0, <1>1, <2>1, <2>2 DEF Fitting, StillSo, Answered, O!Stop, O!tables
  <2>4. \A q \in Request \ {r} : Apart(r, q)'
    BY <2>1, <2>2 DEF Apart, O!LocksInvitation, O!LocksUser, O!LocksKey
  <2> QED BY <1>0, <1>1, <2>3, <2>4, StopKeeps DEF Labels, Final
<1>2. ASSUME O!Provision(r), tenant[call[r].slug] = "none" PROVE Issues(r)
  BY <1>2 DEF O!Provision, O!SlugTaken, Issues, First
<1>3. ASSUME O!Invite(r) PROVE Issues(r)
  BY <1>3 DEF O!Invite, Issues, First
<1>4. ASSUME Resends(r), pc[r] = "write", O!IssueInvitation(r),
             UNCHANGED <<tenant, member, claimed, call>>
      PROVE  Issues(r)
  <2>1. member[O!At(r)] = "invited" /\ O!At(r) \in O!Place
    BY <1>4, Before DEF Resends, First
  <2>2. member = [member EXCEPT ![O!At(r)] = "invited"]
    BY <1>0, <2>1 DEF OnboardingTypes
  <2> QED BY <1>4, <2>2 DEF Issues, Resends, First
<1>5. ASSUME O!ResendOwner(r) \/ O!Resend(r) PROVE Issues(r)
  BY <1>4, <1>5 DEF O!ResendOwner, O!Resend, Resends
<1> QED BY <1>1, <1>2, <1>3, <1>5, IssueKeeps DEF O!Provision, O!SlugTaken

-----------------------------------------------------------------------------
\* An invitation is accepted: its holder becomes a member, an owner's tenant
\* goes live.
Takes(r) ==
  /\ pc[r] = "write" /\ call[r].kind = "accept"
  /\ member' = [member EXCEPT ![O!At(r)] = "active"]
  /\ invitation' = [invitation EXCEPT ![call[r].old] = "accepted"]
  /\ tenant' = IF grant[call[r].old].role = "owner"
                 THEN [tenant EXCEPT ![call[r].slug] = "active"] ELSE tenant
  /\ pc' = [pc EXCEPT ![r] = "ok"]
  /\ UNCHANGED <<user, grant, link, claimed, call>>

LEMMA TakeKeeps ==
  ASSUME OnboardingAssumption, OnboardingInv, NEW r \in Request, Takes(r)
  PROVE  OnboardingInv'
<1>0. /\ OnboardingTypes /\ Fitting(r) /\ StillSo(r) /\ Rows
      /\ OneInvitationPerInvitee /\ TenantHasItsOwner /\ InviteeCanActivate
      /\ Claims /\ Answers
      /\ \A q \in Request \ {r} : Apart(r, q)
  BY RequestAt DEF OnboardingInv, Takes
<1> DEFINE o == call[r].old
<1>1. o \in Request /\ invitation[o] = "pending" /\ Concerns(r, o)
  BY <1>0 DEF Fitting, Concerns, StillSo, Takes
<1>2. /\ call[r].slug \in Slug /\ call[r].email \in Email /\ O!At(r) \in O!Place
      /\ pc[o] = "ok" /\ o # r
  <2>1. call[r].slug \in Slug /\ call[r].email \in Email /\ pc[o] = "ok" /\ o # r
    BY <1>0, <1>1 DEF Concerns, Rows, Takes
  <2> QED BY <2>1 DEF O!At, O!Place
<1>3. member[O!At(r)] = "invited" /\ O!Pending(O!At(r)) = {o} /\ O!Accepted(O!At(r)) = {}
  <2>1. o \in O!Pending(O!At(r))
    BY <1>1 DEF O!Pending, O!Invites, O!At, Concerns
  <2> QED BY <1>0, <1>2, <2>1 DEF OneInvitationPerInvitee, O!OneInvitationPerInvitee, O!OneIf
<1>4. grant[o].role = "owner" => /\ tenant[call[r].slug] = "provisioning"
                                 /\ O!PendingOwner(call[r].slug) = {o}
                                 /\ O!AcceptedOwner(call[r].slug) = {}
  <2> HAVE grant[o].role = "owner"
  <2>1. o \in O!PendingOwner(call[r].slug)
    BY <1>1 DEF O!PendingOwner, Concerns
  <2> QED BY <1>0, <1>2, <2>1 DEF TenantHasItsOwner, O!TenantHasItsOwner, O!OneIf
<1> HIDE DEF o
<1>5. /\ invitation'[o] = "accepted" /\ \A i \in Request \ {o} : invitation'[i] = invitation[i]
      /\ invitation' \in [Request -> {"none", "pending", "revoked", "accepted"}]
      /\ pc'[r] = "ok" /\ \A q \in Request \ {r} : pc'[q] = pc[q]
      /\ pc' \in [Request -> Labels]
  BY <1>0, <1>1 DEF Takes, OnboardingTypes, Labels, o
<1>6. /\ member'[O!At(r)] = "active" /\ \A p \in O!Place : p # O!At(r) => member'[p] = member[p]
      /\ member' \in [O!Place -> {"none", "invited", "active", "revoked"}]
  BY <1>0, <1>2 DEF Takes, OnboardingTypes
<1>7. /\ tenant' \in [Slug -> {"none", "provisioning", "active"}]
      /\ \A s \in Slug : IF s = call[r].slug /\ grant[o].role = "owner"
                         THEN tenant'[s] = "active" ELSE tenant'[s] = tenant[s]
  BY <1>0, <1>2 DEF Takes, OnboardingTypes, o
<1>8. UNCHANGED <<user, grant, link, claimed, call>>
  BY DEF Takes
<1>9. OnboardingTypes'
  BY <1>0, <1>5, <1>6, <1>7, <1>8 DEF OnboardingTypes
<1>10. /\ \A i \in Request : invitation[i] # "none" <=> invitation'[i] # "none"
       /\ \A s \in Slug : tenant[s] # "none" => tenant'[s] # "none"
  BY <1>1, <1>5, <1>7
<1>11. Asked'
  <2> SUFFICES ASSUME NEW q \in Request, pc'[q] # "new" PROVE Fitting(q)'
    BY DEF Asked
  <2>1. Fitting(q) /\ (q # r => pc'[q] = pc[q])
    BY <1>0, <1>5 DEF OnboardingInv, Asked
  <2>2. \A i : Concerns(q, i) => Concerns(q, i)'
    BY <1>8, <1>10 DEF Concerns
  <2>3. q = r => pc'[q] = "ok" /\ call[q].kind = "accept"
    BY <1>5 DEF Takes
  <2> QED BY <1>8, <1>10, <2>1, <2>2, <2>3 DEF Fitting
<1>12. Rows'
  <2>1. \A i \in Request : pc[i] = "ok" => pc'[i] = "ok"
    BY <1>5
  <2>2. ASSUME NEW p \in O!Place, member'[p] # "none" PROVE tenant'[p[1]] # "none"
    <3>1. member[p] # "none"
      BY <1>3, <1>6, <2>2
    <3> QED BY <1>0, <1>10, <3>1 DEF Rows, O!Place
  <2> QED BY <1>0, <1>8, <1>10, <2>1, <2>2 DEF Rows
<1>13. Locking'
  <2>1. \A p, q \in Request \ {r} : p # q => Apart(p, q)'
    <3> TAKE p, q \in Request \ {r}
    <3> HAVE p # q
    <3>1. Apart(p, q)
      BY DEF OnboardingInv, Locking
    <3> QED BY <1>5, <1>8, <3>1 DEF Apart, O!LocksInvitation, O!LocksUser, O!LocksKey
  <2>2. \A q \in Request : Apart(r, q)' /\ Apart(q, r)'
    BY <1>5 DEF Apart, O!LocksInvitation, O!LocksUser, O!LocksKey
  <2> QED BY <2>1, <2>2 DEF Locking
<1>14. Reading'
  <2> SUFFICES ASSUME NEW q \in Request, q # r, pc[q] # "new" PROVE StillSo(q)'
    BY <1>5 DEF Reading, StillSo
  <2>1. StillSo(q) /\ Fitting(q) /\ Apart(r, q) /\ call[q] \in Calls
    BY RequestAt, <1>0
  <2>2. ASSUME NEW i \in Request, invitation[i] = "pending", O!LocksInvitation(q, i)
        PROVE  invitation'[i] = "pending"
    <3>1. O!LocksInvitation(r, o)
      BY DEF Takes, O!LocksInvitation, o
    <3> QED BY <1>1, <1>5, <2>1, <2>2, <3>1 DEF Apart
  <2>3. ASSUME call[q].kind \in {"resend", "resendOwner"}, pc[q] \in {"user", "write"}
        PROVE  invitation'[call[q].old] = "pending"
    BY <2>1, <2>2, <2>3 DEF StillSo, Fitting, Concerns, O!LocksInvitation
  <2>4. ASSUME call[q].kind = "accept", pc[q] \in {"member", "write"}
        PROVE  invitation'[call[q].old] = "pending"
    BY <2>1, <2>2, <2>4 DEF StillSo, Fitting, Concerns, O!LocksInvitation
  <2>5. ASSUME call[q].kind = "invite", pc[q] = "write" PROVE member'[O!At(q)] = "none"
    <3>1. member[O!At(q)] = "none" /\ O!At(q) \in O!Place
      BY <2>1, <2>5 DEF StillSo, Fitting, O!At, O!Place
    <3> QED BY <1>3, <1>6, <3>1
  <2> QED BY <1>5, <1>8, <2>1, <2>3, <2>4, <2>5 DEF StillSo, O!At
<1>15. Claims'
  <2> SUFFICES ASSUME NEW k \in IdempotencyKey, claimed[k] # Nobody
               PROVE  /\ call[claimed[k]].kind = "provision" /\ pc'[claimed[k]] = "ok"
                      /\ call[claimed[k]].key = k /\ tenant'[call[claimed[k]].slug] # "none"
    BY <1>8 DEF Claims
  <2>1. /\ claimed[k] \in Request /\ pc[claimed[k]] = "ok"
        /\ call[claimed[k]].kind = "provision" /\ call[claimed[k]].key = k
        /\ tenant[call[claimed[k]].slug] # "none"
    BY <1>0 DEF Claims, OnboardingTypes
  <2>2. call[claimed[k]].slug \in Slug
    BY <2>1 DEF OnboardingInv, Asked, Fitting
  <2> QED BY <1>5, <1>10, <2>1, <2>2
<1>16. Answers'
  <2> SUFFICES ASSUME NEW q \in Request, call[q].kind = "provision", pc[q] \in {"ok", "conflict"}
               PROVE  Answered(q)'
    BY <1>5, <1>8 DEF Answers, Answered, Takes
  <2>1. Answered(q) /\ Fitting(q) /\ pc'[q] = pc[q]
    BY <1>0, <1>5 DEF Answers, OnboardingInv, Asked, Takes
  <2>2. call[q].slug \in Slug
    BY <2>1 DEF Fitting
  <2> QED BY <1>8, <1>10, <2>1, <2>2 DEF Answered, O!SameRequest, O!At
<1>17. /\ \A p \in O!Place : O!Pending(p)' = IF p = O!At(r) THEN {} ELSE O!Pending(p)
       /\ \A p \in O!Place : O!Accepted(p)' = IF p = O!At(r) THEN {o} ELSE O!Accepted(p)
  <2>1. ASSUME NEW p \in O!Place, NEW i \in Request
        PROVE  /\ i \in O!Pending(p)' <=> i \in O!Pending(p) /\ p # O!At(r)
               /\ i \in O!Accepted(p)' <=> i \in IF p = O!At(r) THEN {o} ELSE O!Accepted(p)
    <3>1. CASE i = o
      BY <1>1, <1>5, <1>8, <3>1 DEF O!Pending, O!Accepted, O!Invites, Concerns, O!At
    <3>2. CASE i # o
      <4>1. p = O!At(r) => i \notin O!Pending(p) /\ i \notin O!Accepted(p)
        BY <1>3, <3>2
      <4> QED BY <1>5, <1>8, <3>2, <4>1 DEF O!Pending, O!Accepted, O!Invites
    <3> QED BY <3>1, <3>2
  <2>2. \A p \in O!Place : O!Pending(p) \subseteq Request /\ O!Pending(p)' \subseteq Request
                           /\ O!Accepted(p) \subseteq Request /\ O!Accepted(p)' \subseteq Request
    BY DEF O!Pending, O!Accepted
  <2> QED BY <1>1, <2>1, <2>2
<1>18. \A s \in Slug :
         IF s = call[r].slug /\ grant[o].role = "owner"
         THEN O!PendingOwner(s)' = {} /\ O!AcceptedOwner(s)' = {o}
         ELSE O!PendingOwner(s)' = O!PendingOwner(s) /\ O!AcceptedOwner(s)' = O!AcceptedOwner(s)
  <2> TAKE s \in Slug
  <2>1. CASE s = call[r].slug /\ grant[o].role = "owner"
    <3>1. \A i \in Request : i # o => i \notin O!PendingOwner(s) /\ i \notin O!AcceptedOwner(s)
      BY <1>4, <2>1
    <3> QED BY <1>1, <1>5, <1>8, <2>1, <3>1 DEF O!PendingOwner, O!AcceptedOwner, Concerns
  <2>2. CASE ~(s = call[r].slug /\ grant[o].role = "owner")
    <3>1. ~(grant[o].slug = s /\ grant[o].role = "owner")
      BY <1>1, <2>2 DEF Concerns
    <3> QED BY <1>5, <1>8, <2>2, <3>1 DEF O!PendingOwner, O!AcceptedOwner
  <2> QED BY <2>1, <2>2
<1>19. OneInvitationPerInvitee'
  <2> SUFFICES ASSUME NEW p \in O!Place
               PROVE  /\ O!OneIf(member'[p] = "invited", O!Pending(p)')
                      /\ O!OneIf(member'[p] \in {"active", "revoked"}, O!Accepted(p)')
    BY DEF OneInvitationPerInvitee, O!OneInvitationPerInvitee, O!OneIf
  <2>1. /\ O!OneIf(member[p] = "invited", O!Pending(p))
        /\ O!OneIf(member[p] \in {"active", "revoked"}, O!Accepted(p))
    BY <1>0 DEF OneInvitationPerInvitee, O!OneInvitationPerInvitee
  <2> QED BY <1>1, <1>6, <1>17, <2>1 DEF O!OneIf
<1>20. TenantHasItsOwner'
  <2> SUFFICES ASSUME NEW s \in Slug
               PROVE  /\ O!OneIf(tenant'[s] = "provisioning", O!PendingOwner(s)')
                      /\ O!OneIf(tenant'[s] = "active", O!AcceptedOwner(s)')
    BY DEF TenantHasItsOwner, O!TenantHasItsOwner, O!OneIf
  <2>1. /\ O!OneIf(tenant[s] = "provisioning", O!PendingOwner(s))
        /\ O!OneIf(tenant[s] = "active", O!AcceptedOwner(s))
    BY <1>0 DEF TenantHasItsOwner, O!TenantHasItsOwner
  <2> QED BY <1>1, <1>7, <1>18, <2>1 DEF O!OneIf
<1>21. InviteeCanActivate'
  BY <1>0, <1>8, <1>17 DEF InviteeCanActivate, O!InviteeCanActivate
<1> QED BY <1>9, <1>11, <1>12, <1>13, <1>14, <1>15, <1>16, <1>19, <1>20, <1>21
        DEF OnboardingInv

LEMMA AcceptKeeps ==
  ASSUME OnboardingAssumption, OnboardingInv, NEW r \in Request, O!Accept(r)
  PROVE  OnboardingInv'
<1>1. CASE O!Stop(r, "refused")
  <2>1. pc[r] = "write" /\ Fitting(r) /\ OnboardingTypes /\ call[r].kind = "accept"
    BY RequestAt DEF O!Accept
  <2>2. Fitting(r)'
    BY <1>1, <2>1 DEF Fitting, Concerns, O!Stop, O!Go, O!tables, OnboardingTypes
  <2> QED BY <1>1, <2>1, <2>2, EndKeeps DEF Final
<1>2. CASE Takes(r)
  BY <1>2, TakeKeeps
<1> QED BY <1>1, <1>2 DEF O!Accept, O!Go, Takes

-----------------------------------------------------------------------------
\* Steps that are no request's.
LEMMA UseLinkKeeps ==
  ASSUME OnboardingAssumption, OnboardingInv, NEW p \in O!Place, O!UseLink(p)
  PROVE  OnboardingInv'
<1>0. /\ OnboardingTypes /\ Asked /\ Rows /\ Locking /\ Reading /\ Claims /\ Answers
      /\ OneInvitationPerInvitee /\ TenantHasItsOwner /\ InviteeCanActivate
      /\ p[2] \in Email
  BY DEF OnboardingInv, O!Place
<1>1. UNCHANGED <<tenant, member, invitation, grant, claimed, pc, call>>
  BY DEF O!UseLink
<1>2. /\ user' \in [Email -> {"none", "pending", "active"}]
      /\ user'[p[2]] = "active" /\ \A e \in Email : e # p[2] => user'[e] = user[e]
      /\ link' \in [O!Place -> Request \union {Nobody}]
      /\ \A q \in O!Place : q # p => link'[q] = link[q]
  BY <1>0 DEF O!UseLink, OnboardingTypes
<1>3. OnboardingTypes'
  BY <1>0, <1>1, <1>2 DEF OnboardingTypes
<1>4. Asked' /\ Locking' /\ Reading' /\ Claims' /\ Answers'
  BY <1>0, <1>1 DEF Asked, Fitting, Concerns, Locking, Apart, O!LocksInvitation, O!LocksUser,
        O!LocksKey, Reading, StillSo, O!At, Claims, Answers, Answered, O!SameRequest
<1>5. Rows'
  BY <1>0, <1>1, <1>2 DEF Rows
<1>6. /\ \A q \in O!Place : O!Pending(q)' = O!Pending(q)
      /\ OneInvitationPerInvitee' /\ TenantHasItsOwner'
  BY <1>0, <1>1 DEF OneInvitationPerInvitee, O!OneInvitationPerInvitee, O!OneIf, O!Pending,
        O!Accepted, O!Invites, TenantHasItsOwner, O!TenantHasItsOwner, O!PendingOwner,
        O!AcceptedOwner
<1>7. InviteeCanActivate'
  BY <1>0, <1>2, <1>6 DEF InviteeCanActivate, O!InviteeCanActivate, O!Place
<1> QED BY <1>3, <1>4, <1>5, <1>6, <1>7 DEF OnboardingInv

LEMMA RemoveKeeps ==
  ASSUME OnboardingAssumption, OnboardingInv, NEW p \in O!Place, O!Remove(p)
  PROVE  OnboardingInv'
<1>0. /\ OnboardingTypes /\ Asked /\ Rows /\ Locking /\ Reading /\ Claims /\ Answers
      /\ OneInvitationPerInvitee /\ TenantHasItsOwner /\ InviteeCanActivate
  BY DEF OnboardingInv
<1>1. UNCHANGED <<user, tenant, invitation, grant, link, claimed, pc, call>>
  BY DEF O!Remove
<1>2. /\ member' \in [O!Place -> {"none", "invited", "active", "revoked"}]
      /\ member[p] = "active" /\ member'[p] = "revoked"
      /\ \A q \in O!Place : q # p => member'[q] = member[q]
  BY <1>0 DEF O!Remove, OnboardingTypes
<1>3. OnboardingTypes'
  BY <1>0, <1>1, <1>2 DEF OnboardingTypes
<1>4. Asked' /\ Locking' /\ Claims' /\ Answers'
  BY <1>0, <1>1 DEF Asked, Fitting, Concerns, Locking, Apart, O!LocksInvitation, O!LocksUser,
        O!LocksKey, Claims, Answers, Answered, O!SameRequest, O!At
<1>5. Reading'
  <2> SUFFICES ASSUME NEW q \in Request PROVE StillSo(q)'
    BY DEF Reading
  <2>1. StillSo(q) /\ (pc[q] # "new" => Fitting(q))
    BY <1>0 DEF Reading, Asked
  <2>2. call[q].kind = "invite" /\ pc[q] = "write" => O!At(q) \in O!Place
    BY <2>1 DEF Fitting, O!At, O!Place
  <2>3. O!At(q)' = O!At(q)
    BY <1>1 DEF O!At
  <2> QED BY <1>1, <1>2, <2>1, <2>2, <2>3 DEF StillSo
<1>6. Rows'
  BY <1>0, <1>1, <1>2 DEF Rows
<1>7. /\ \A q \in O!Place : O!Pending(q)' = O!Pending(q) /\ O!Accepted(q)' = O!Accepted(q)
      /\ TenantHasItsOwner' /\ InviteeCanActivate'
  BY <1>0, <1>1 DEF InviteeCanActivate, O!InviteeCanActivate, O!OneIf, O!Pending,
        O!Accepted, O!Invites, TenantHasItsOwner, O!TenantHasItsOwner, O!PendingOwner,
        O!AcceptedOwner
<1>8. OneInvitationPerInvitee'
  <2> SUFFICES ASSUME NEW q \in O!Place
               PROVE  /\ O!OneIf(member'[q] = "invited", O!Pending(q)')
                      /\ O!OneIf(member'[q] \in {"active", "revoked"}, O!Accepted(q)')
    BY DEF OneInvitationPerInvitee, O!OneInvitationPerInvitee, O!OneIf
  <2>1. /\ O!OneIf(member[q] = "invited", O!Pending(q))
        /\ O!OneIf(member[q] \in {"active", "revoked"}, O!Accepted(q))
    BY <1>0 DEF OneInvitationPerInvitee, O!OneInvitationPerInvitee
  <2> QED BY <1>2, <1>7, <2>1 DEF O!OneIf
<1> QED BY <1>3, <1>4, <1>5, <1>6, <1>7, <1>8 DEF OnboardingInv

LEMMA RestKeeps ==
  ASSUME OnboardingInv, UNCHANGED <<O!tables, pc, call>>
  PROVE  OnboardingInv'
<1>0. UNCHANGED <<user, tenant, member, invitation, grant, link, claimed, pc, call>>
  BY DEF O!tables
<1>1. OnboardingTypes' /\ Asked' /\ Rows' /\ Locking' /\ Reading' /\ Claims' /\ Answers'
  BY <1>0 DEF OnboardingInv, OnboardingTypes, Asked, Fitting, Concerns, Rows, Locking, Apart,
        O!LocksInvitation, O!LocksUser, O!LocksKey, Reading, StillSo, O!At, Claims, Answers,
        Answered, O!SameRequest
<1>2. OneInvitationPerInvitee' /\ TenantHasItsOwner' /\ InviteeCanActivate'
  BY <1>0 DEF OnboardingInv, OneInvitationPerInvitee, O!OneInvitationPerInvitee, O!OneIf,
        O!Pending, O!Accepted, O!Invites, TenantHasItsOwner, O!TenantHasItsOwner,
        O!PendingOwner, O!AcceptedOwner, InviteeCanActivate, O!InviteeCanActivate
<1> QED BY <1>1, <1>2 DEF OnboardingInv

onboardingVars == <<part, mailVars, onboarding, smtp>>

LEMMA OnboardingStep ==
  ASSUME OnboardingAssumption, OnboardingInv, [OnboardingNext]_onboardingVars
  PROVE  OnboardingInv'
<1>1. ASSUME NEW r \in Request,
             \/ O!Claim(r) \/ O!LockTenant(r) \/ O!LockInvitation(r) \/ O!Identity(r)
             \/ O!CheckDuplicate(r) \/ O!LockSelector(r) \/ O!LockMember(r) \/ O!Fail(r)
      PROVE  OnboardingInv'
  BY <1>1, ClaimKeeps, LockTenantKeeps, LockInvitationKeeps, IdentityKeeps, CheckDuplicateKeeps,
     LockSelectorKeeps, LockMemberKeeps, FailKeeps
<1>2. ASSUME NEW r \in Request,
             \/ O!AskProvision(r) \/ O!AskResendOwner(r) \/ O!AskInvite(r) \/ O!AskResend(r)
             \/ O!AskAccept(r)
      PROVE  OnboardingInv'
  BY <1>2, AskKeeps
<1>3. ASSUME NEW r \in Request,
             O!Provision(r) \/ O!Invite(r) \/ O!ResendOwner(r) \/ O!Resend(r)
      PROVE  OnboardingInv'
  BY <1>3, WriteKeeps
<1>4. ASSUME NEW r \in Request, O!Accept(r) PROVE OnboardingInv'
  BY <1>4, AcceptKeeps
<1>5. ASSUME NEW r \in Request, O!Expire(r) PROVE OnboardingInv'
  BY <1>5, RestKeeps DEF O!Expire
<1>6. ASSUME NEW p \in O!Place, O!UseLink(p) \/ O!Remove(p) PROVE OnboardingInv'
  BY <1>6, UseLinkKeeps, RemoveKeeps
<1>7. CASE O!Next
  BY <1>1, <1>2, <1>3, <1>4, <1>5, <1>6, <1>7 DEF O!Next
<1>8. CASE UNCHANGED onboarding
  BY <1>8, RestKeeps DEF onboarding, O!tables
<1> QED BY <1>7, <1>8 DEF OnboardingNext, onboardingVars

LEMMA OnboardingKept == OnboardingAssumption /\ OnboardingSpec => []OnboardingInv
<1> SUFFICES ASSUME OnboardingAssumption PROVE OnboardingSpec => []OnboardingInv
  OBVIOUS
<1>1. OnboardingInit => OnboardingInv
  BY OnboardingStarts DEF OnboardingInit
<1>2. OnboardingInv /\ [OnboardingNext]_onboardingVars => OnboardingInv'
  BY OnboardingStep
<1> QED BY <1>1, <1>2, PTL DEF OnboardingSpec, onboardingVars

(* However inviting, resending, accepting and their failures overlap, who  *)
(* is invited has one invitation that counts, and who is or was a member   *)
(* accepted one and has none left.                                         *)
THEOREM OneInvitation == OnboardingAssumption => (OnboardingSpec => []OneInvitationPerInvitee)
<1>1. OnboardingInv => OneInvitationPerInvitee
  BY DEF OnboardingInv
<1> QED BY <1>1, OnboardingKept, PTL

(* A tenant that is not live has one invited owner, and a live one has one *)
(* owner who accepted.                                                     *)
THEOREM NeverWithoutOwner == OnboardingAssumption => (OnboardingSpec => []TenantHasItsOwner)
<1>1. OnboardingInv => TenantHasItsOwner
  BY DEF OnboardingInv
<1> QED BY <1>1, OnboardingKept, PTL

(* An invited user without a password holds the activation link of the     *)
(* invitation that counts.                                                 *)
THEOREM CanActivate == OnboardingAssumption => (OnboardingSpec => []InviteeCanActivate)
<1>1. OnboardingInv => InviteeCanActivate
  BY DEF OnboardingInv
<1> QED BY <1>1, OnboardingKept, PTL

(* A provisioning request repeated under its key is answered like the one  *)
(* that succeeded.                                                         *)
THEOREM Replays == OnboardingAssumption => (OnboardingSpec => []RetryReplays)
<1>1. ASSUME OnboardingInv PROVE RetryReplays
  <2> SUFFICES ASSUME NEW r \in Request, NEW q \in Request,
                      call[r].kind = "provision", call[q].kind = "provision",
                      call[r].key = call[q].key, O!SameRequest(r, q), pc[q] = "ok"
               PROVE  pc[r] # "conflict"
    BY DEF RetryReplays, O!RetryReplays
  <2>1. Answered(r) /\ Answered(q)
    BY <1>1 DEF OnboardingInv, Answers
  <2> QED BY <2>1 DEF Answered, O!SameRequest
<1> QED BY <1>1, OnboardingKept, PTL

-----------------------------------------------------------------------------
(* SmtpSubmission.  The proof counts what the server said, its answers in  *)
(* order and what came between them, and numbers the lines that the        *)
(* adapter has not heard with the reply that each belongs to: the replies  *)
(* it waits for are then the next of what was said, in whatever pieces the *)
(* lines come.                                                             *)

\* That the server closes is said in one line.
Lines == {line \in [code : Nat, last : BOOLEAN] : line.code = 421 => line.last = TRUE}
SmtpTypes ==
  /\ headers \in BOOLEAN /\ broken \in BOOLEAN /\ accepted \in BOOLEAN /\ fault \in BOOLEAN
  /\ step \in 1 .. 7 /\ smtpPc \in {"connect", "write", "next"} \cup S!Outcomes
  /\ stream \in {"up", "closed", "down"} /\ begun \in Nat
  /\ buffer \in Seq(Lines) /\ wire \in Seq(Lines)
  /\ replies \in Seq(Nat) /\ answers \in Seq(Nat)

\* What the reader knows after each line.
Readings == [replies : Seq(Nat), begun : Nat, stuck : BOOLEAN, rest : Seq(Lines)]
NothingRead == [replies |-> replies, begun |-> begun, stuck |-> FALSE, rest |-> <<>>]
LinesRead(lines, f, n) ==
  f[0] = NothingRead /\ \A i \in 1 .. n : f[i] = S!Look(f[i - 1], lines[i])

LEMMA LookTypes ==
  ASSUME NEW r \in Readings, NEW line \in Lines
  PROVE  S!Look(r, line) \in Readings
<1>1. /\ r.replies \in Seq(Nat) /\ r.begun \in Nat /\ r.stuck \in BOOLEAN /\ r.rest \in Seq(Lines)
      /\ r = [replies |-> r.replies, begun |-> r.begun, stuck |-> r.stuck, rest |-> r.rest]
  BY DEF Readings
<1>2. line.code \in Nat
  BY DEF Lines
<1>3. Append(r.rest, line) \in Seq(Lines) /\ Append(r.replies, line.code) \in Seq(Nat)
  BY <1>1, <1>2
<1>4. /\ [r EXCEPT !.rest = Append(@, line)] \in Readings
      /\ [r EXCEPT !.stuck = TRUE] \in Readings
      /\ [r EXCEPT !.begun = 0, !.replies = Append(@, line.code)] \in Readings
      /\ [r EXCEPT !.begun = line.code] \in Readings
  BY <1>1, <1>2, <1>3 DEF Readings
<1> QED
  BY <1>4 DEF S!Look

LEMMA Least ==
  ASSUME NEW T \in SUBSET Nat, T # {}
  PROVE  \E x \in T : \A y \in T : x <= y
<1>1. \E x \in T : \A y \in T : ~(<<y, x>> \in OpToRel(<, Nat))
  BY NatLessThanWellFounded, WFMin
<1>2. \A x, y \in Nat : <<y, x>> \in OpToRel(<, Nat) <=> y < x
  BY DEF OpToRel
<1>3. PICK x \in T : \A y \in T : ~(<<y, x>> \in OpToRel(<, Nat))
  BY <1>1
<1>4. ASSUME NEW y \in T PROVE x <= y
  <2>1. x \in Nat /\ y \in Nat
    OBVIOUS
  <2>2. ~(y < x)
    BY <1>2, <1>3, <2>1
  <2> QED
    BY <2>1, <2>2
<1> QED
  BY <1>4

LEMMA ReadingExists ==
  ASSUME SmtpTypes, NEW lines \in Seq(Lines)
  PROVE  \A n \in 0 .. Len(lines) : \E f \in [0 .. n -> Readings] : LinesRead(lines, f, n)
<1> DEFINE Bad == {n \in 0 .. Len(lines) : ~\E f \in [0 .. n -> Readings] : LinesRead(lines, f, n)}
<1>1. SUFFICES ASSUME Bad # {} PROVE FALSE
  OBVIOUS
<1>2. PICK m \in Bad : \A y \in Bad : m <= y
  <2> Bad \subseteq Nat
    OBVIOUS
  <2> QED BY <1>1, Least
<1>3. NothingRead \in Readings
  BY DEF NothingRead, Readings, SmtpTypes
<1>4. m # 0
  <2>1. [i \in 0 .. 0 |-> NothingRead] \in [0 .. 0 -> Readings]
    BY <1>3
  <2>2. LinesRead(lines, [i \in 0 .. 0 |-> NothingRead], 0)
    BY DEF LinesRead
  <2> QED
    BY <2>1, <2>2, <1>2
<1>5. m \in Nat /\ m <= Len(lines) /\ m - 1 \in 0 .. Len(lines) /\ m - 1 \notin Bad
  BY <1>2, <1>4
<1>6. PICK f \in [0 .. m - 1 -> Readings] : LinesRead(lines, f, m - 1)
  BY <1>5
<1> DEFINE g == [i \in 0 .. m |-> IF i = m THEN S!Look(f[m - 1], lines[m]) ELSE f[i]]
<1>7. g \in [0 .. m -> Readings]
  <2>1. lines[m] \in Lines /\ f[m - 1] \in Readings
    BY <1>4, <1>5
  <2>2. S!Look(f[m - 1], lines[m]) \in Readings
    BY <2>1, LookTypes
  <2> QED
    BY <2>2, <1>5
<1>8. LinesRead(lines, g, m)
  <2>1. g[0] = NothingRead
    BY <1>4, <1>5, <1>6 DEF LinesRead
  <2>2. ASSUME NEW i \in 1 .. m PROVE g[i] = S!Look(g[i - 1], lines[i])
    <3>1. g[i - 1] = f[i - 1]
      BY <1>5
    <3>2. CASE i = m
      BY <3>1, <3>2
    <3>3. CASE i # m
      <4>1. i \in 1 .. m - 1 /\ g[i] = f[i]
        BY <3>3, <1>5
      <4> QED
        BY <4>1, <3>1, <1>6 DEF LinesRead
    <3> QED
      BY <3>2, <3>3
  <2> QED
    BY <2>1, <2>2 DEF LinesRead
<1> QED
  BY <1>7, <1>8, <1>2

LEMMA ReadsAre ==
  ASSUME SmtpTypes, NEW lines \in Seq(Lines)
  PROVE  \E f \in [0 .. Len(lines) -> Readings] :
           LinesRead(lines, f, Len(lines)) /\ S!Reads(lines) = f[Len(lines)]
<1> DEFINE n == Len(lines)
<1> DEFINE after == CHOOSE after : after = [i \in 0..n |->
        IF i = 0 THEN [replies |-> replies, begun |-> begun, stuck |-> FALSE, rest |-> <<>>]
        ELSE S!Look(after[i - 1], lines[i])]
<1>1. S!Reads(lines) = after[n]
  BY DEF S!Reads
<1>2. PICK f \in [0 .. n -> Readings] : LinesRead(lines, f, n)
  BY ReadingExists
<1>3. f = [i \in 0..n |->
        IF i = 0 THEN [replies |-> replies, begun |-> begun, stuck |-> FALSE, rest |-> <<>>]
        ELSE S!Look(f[i - 1], lines[i])]
  BY <1>2 DEF LinesRead, NothingRead
<1>4. after = [i \in 0..n |->
        IF i = 0 THEN [replies |-> replies, begun |-> begun, stuck |-> FALSE, rest |-> <<>>]
        ELSE S!Look(after[i - 1], lines[i])]
  BY <1>3, Zenon
<1> HIDE DEF after
<1>5. n \in Nat /\ after[0] = NothingRead /\ \A i \in 1 .. n : after[i] = S!Look(after[i - 1], lines[i])
  <2>1. n \in Nat
    OBVIOUS
  <2> HIDE DEF n
  <2>2. after[0] = NothingRead
    BY <1>4, <2>1 DEF NothingRead
  <2>3. ASSUME NEW i \in 1 .. n PROVE after[i] = S!Look(after[i - 1], lines[i])
    <3>1. i \in 0 .. n /\ i # 0
      BY <2>1
    <3> QED
      BY <3>1, <1>4
  <2> QED
    BY <2>1, <2>2, <2>3
<1>6. LinesRead(lines, after, n)
  BY <1>5 DEF LinesRead
<1>7. \A i \in 0 .. n : after[i] = f[i]
  <2> DEFINE Bad == {i \in 0 .. n : after[i] # f[i]}
  <2>1. SUFFICES ASSUME Bad # {} PROVE FALSE
    OBVIOUS
  <2>2. PICK m \in Bad : \A y \in Bad : m <= y
    <3> Bad \subseteq Nat
      BY <1>5
    <3> QED BY <2>1, Least
  <2>3. m # 0
    BY <2>2, <1>5, <1>2 DEF LinesRead
  <2>4. m \in 1 .. n /\ m - 1 \in 0 .. n /\ m - 1 \notin Bad
    BY <2>2, <2>3, <1>5
  <2>5. after[m - 1] = f[m - 1]
    BY <2>4
  <2> QED
    BY <2>5, <2>4, <2>2, <1>5, <1>2 DEF LinesRead
<1>8. after[n] = f[n]
  BY <1>7, <1>5
<1> QED
  BY <1>8, <1>1, <1>2

\* The last line of a reply, and a line that is none or only begins one.
Ends(l) == l.last /\ l # S!Malformed
Stray(l) == l \in {S!Malformed, S!Line(250, FALSE)}

\* Line i belongs to reply tag[i] of h, what was said; lax when a stray line is among them.
Numbered(tag, lines, h, lax) ==
  /\ tag \in [1 .. Len(lines) + 1 -> 1 .. Len(h) + 1]
  /\ tag[Len(lines) + 1] = Len(h) + 1
  /\ \A i, j \in 1 .. Len(lines) + 1 : i <= j => tag[i] <= tag[j]
  /\ \A i \in 1 .. Len(lines) :
       /\ tag[i + 1] = IF Ends(lines[i]) THEN tag[i] + 1 ELSE tag[i]
       /\ \/ lax /\ Stray(lines[i])
          \/ tag[i] <= Len(h) /\ lines[i].code = h[tag[i]] /\ lines[i] # S!Malformed

\* The replies R are the next of h, up to t, to which b belongs.
UpTo(R, b, h, lax, t) ==
  /\ step + Len(R) = t
  /\ \A j \in 1 .. Len(R) : R[j] = h[step - 1 + j]
  /\ b = 0 \/ (lax /\ b = 250) \/ (t <= Len(h) /\ b = h[t])

\* The lines of a reply that was begun with another's line are not heard.
Missed(r, h, lax, t, code) ==
  /\ UpTo(r.replies, r.begun, h, lax, t) /\ r.begun = 250
  /\ t <= Len(h) /\ code = h[t] /\ code # 250

LEMMA OneLine ==
  ASSUME NEW r \in Readings, ~r.stuck, SmtpTypes,
         NEW W \in Seq(Lines), NEW h \in Seq(Nat), NEW lax \in BOOLEAN, NEW tag,
         Numbered(tag, W, h, lax), NEW k \in 1 .. Len(W),
         UpTo(r.replies, r.begun, h, lax, tag[k]),
         NEW q, q = S!Look(r, W[k])
  PROVE  IF q.stuck
         THEN lax /\ \/ UpTo(q.replies, q.begun, h, lax, tag[k + 1])
                     \/ Missed(q, h, lax, tag[k], W[k].code)
         ELSE UpTo(q.replies, q.begun, h, lax, tag[k + 1])
<1>1. /\ W[k] \in Lines /\ W[k].code \in Nat /\ W[k].last \in BOOLEAN
      /\ tag[k] \in Nat /\ Len(h) \in Nat /\ step \in Nat
      /\ r.replies \in Seq(Nat) /\ Len(r.replies) \in Nat /\ r.begun \in Nat
  <2>1. W[k] \in Lines
    OBVIOUS
  <2>2. Len(h) \in Nat /\ Len(W) \in Nat /\ k \in 1 .. Len(W) + 1
    OBVIOUS
  <2>3. tag[k] \in 1 .. Len(h) + 1
    BY <2>2 DEF Numbered
  <2>4. r.replies \in Seq(Nat) /\ r.begun \in Nat /\ step \in Nat
    BY DEF Readings, SmtpTypes
  <2> QED
    BY <2>1, <2>2, <2>3, <2>4 DEF Lines
<1>2. /\ tag[k + 1] = IF Ends(W[k]) THEN tag[k] + 1 ELSE tag[k]
      /\ \/ lax /\ Stray(W[k])
         \/ tag[k] <= Len(h) /\ W[k].code = h[tag[k]] /\ W[k] # S!Malformed
  BY DEF Numbered
<1>3. CASE W[k] = S!Malformed \/ r.begun \notin {0, W[k].code}
  <2>1. q.stuck /\ q.replies = r.replies /\ q.begun = r.begun
    BY <1>3 DEF S!Look, Readings
  <2>2. CASE lax /\ Stray(W[k])
    <3>1. tag[k + 1] = tag[k]
      BY <1>2, <2>2 DEF Ends, Stray, S!Line
    <3> QED
      BY <2>1, <2>2, <3>1
  <2>3. CASE tag[k] <= Len(h) /\ W[k].code = h[tag[k]] /\ W[k] # S!Malformed
    <3>1. lax /\ r.begun = 250 /\ W[k].code # 250
      BY <1>3, <2>3 DEF UpTo
    <3> QED
      <4>1. UpTo(q.replies, q.begun, h, lax, tag[k])
        BY <2>1
      <4>2. Missed(q, h, lax, tag[k], W[k].code)
        BY <4>1, <2>1, <2>3, <3>1 DEF Missed
      <4> QED
        BY <4>2, <2>1, <3>1
  <2> QED
    BY <1>2, <2>2, <2>3
<1>4. CASE W[k] # S!Malformed /\ r.begun \in {0, W[k].code}
  <2>1. CASE W[k].last
    <3>1. /\ ~q.stuck /\ q.begun = 0 /\ q.replies = Append(r.replies, W[k].code)
          /\ tag[k + 1] = tag[k] + 1
      BY <1>4, <2>1, <1>2 DEF S!Look, Readings, Ends
    <3>2. W[k].code = h[tag[k]]
      BY <1>2, <1>4, <2>1 DEF Stray, S!Line
    <3>3. /\ Len(q.replies) = Len(r.replies) + 1
          /\ \A j \in 1 .. Len(r.replies) : q.replies[j] = r.replies[j]
          /\ q.replies[Len(r.replies) + 1] = W[k].code
      BY <3>1, <1>1
    <3>4. \A j \in 1 .. Len(q.replies) : q.replies[j] = h[step - 1 + j]
      <4> SUFFICES ASSUME NEW j \in 1 .. Len(q.replies) PROVE q.replies[j] = h[step - 1 + j]
        OBVIOUS
      <4>1. CASE j \in 1 .. Len(r.replies)
        BY <4>1, <3>3 DEF UpTo
      <4>2. CASE j \notin 1 .. Len(r.replies)
        <5>1. j = Len(r.replies) + 1
          BY <4>2, <3>3, <1>1
        <5>2. step - 1 + j = tag[k]
          BY <5>1, <1>1 DEF UpTo
        <5> QED
          BY <5>1, <5>2, <3>2, <3>3
      <4> QED
        BY <4>1, <4>2
    <3>5. step + Len(q.replies) = tag[k + 1]
      BY <3>1, <3>3, <1>1 DEF UpTo
    <3>6. UpTo(q.replies, q.begun, h, lax, tag[k + 1])
      BY <3>1, <3>4, <3>5 DEF UpTo
    <3> QED
      BY <3>1, <3>6
  <2>2. CASE ~W[k].last
    <3>1. /\ ~q.stuck /\ q.begun = W[k].code /\ q.replies = r.replies
          /\ tag[k + 1] = tag[k]
      BY <1>4, <2>2, <1>2 DEF S!Look, Readings, Ends
    <3>2. (lax /\ W[k].code = 250) \/ (tag[k] <= Len(h) /\ W[k].code = h[tag[k]])
      BY <1>2, <1>4 DEF Stray, S!Line
    <3> QED
      BY <3>1, <3>2 DEF UpTo
  <2> QED
    BY <2>1, <2>2
<1> QED
  BY <1>3, <1>4

(* Reading lines of which some are due: the reader stays with the replies, *)
(* and once it is stuck keeps what follows the line that it met.           *)
LEMMA ReadingFollows ==
  ASSUME SmtpTypes, NEW W \in Seq(Lines), NEW h \in Seq(Nat), NEW lax \in BOOLEAN, NEW tag,
         Numbered(tag, W, h, lax), UpTo(replies, begun, h, lax, tag[1]),
         NEW m \in 0 .. Len(W), NEW f \in [0 .. m -> Readings], LinesRead(W, f, m)
  PROVE  IF f[m].stuck
         THEN lax /\ \E j \in 1 .. m :
                /\ f[m].rest = SubSeq(W, j + 1, m)
                /\ \/ UpTo(f[m].replies, f[m].begun, h, lax, tag[j + 1])
                   \/ Missed(f[m], h, lax, tag[j], W[j].code)
         ELSE f[m].rest = <<>> /\ UpTo(f[m].replies, f[m].begun, h, lax, tag[m + 1])
<1> DEFINE Met(k, j) == \/ UpTo(f[k].replies, f[k].begun, h, lax, tag[j + 1])
                        \/ Missed(f[k], h, lax, tag[j], W[j].code)
           P(k) == IF f[k].stuck
                   THEN lax /\ \E j \in 1 .. k : f[k].rest = SubSeq(W, j + 1, k) /\ Met(k, j)
                   ELSE f[k].rest = <<>> /\ UpTo(f[k].replies, f[k].begun, h, lax, tag[k + 1])
           Bad == {k \in 0 .. m : ~P(k)}
<1>0. Len(W) \in Nat /\ m \in Nat /\ m <= Len(W)
  OBVIOUS
<1>1. P(0)
  BY DEF LinesRead, NothingRead
<1>2. ASSUME NEW k \in 1 .. m, P(k - 1) PROVE P(k)
  <2>1. /\ k \in 1 .. Len(W) /\ k - 1 \in 0 .. m /\ k \in 0 .. m /\ W[k] \in Lines
        /\ f[k - 1] \in Readings
        /\ f[k] = S!Look(f[k - 1], W[k])
    BY <1>0 DEF LinesRead
  <2>2. CASE f[k - 1].stuck
    <3>1. /\ f[k].stuck /\ f[k].rest = Append(f[k - 1].rest, W[k])
          /\ f[k].replies = f[k - 1].replies /\ f[k].begun = f[k - 1].begun
      BY <2>1, <2>2 DEF S!Look, Readings
    <3>2. PICK j \in 1 .. k - 1 : f[k - 1].rest = SubSeq(W, j + 1, k - 1) /\ Met(k - 1, j)
      BY <1>2, <2>2
    <3>3. Append(SubSeq(W, j + 1, k - 1), W[k]) = SubSeq(W, j + 1, k)
      <4>1. j + 1 \in 1 .. Len(W) /\ k \in j + 1 .. Len(W)
        BY <1>0, <2>1
      <4>2. SubSeq(W, j + 1, k - 1) \in Seq(Lines)
        BY <4>1, <1>0, SubSeqProperties
      <4>3. SubSeq(W, j + 1, k) = SubSeq(W, j + 1, k - 1) \o <<W[k]>>
        BY <4>1, SubSeqRecursiveSecond
      <4> QED
        BY <4>2, <4>3, <2>1, AppendIsConcat
    <3>4. j \in 1 .. k /\ lax
      BY <1>0, <1>2, <2>2
    <3>5. Met(k, j)
      BY <3>1, <3>2 DEF Missed
    <3> HIDE DEF Met
    <3>6. f[k].rest = SubSeq(W, j + 1, k)
      BY <3>1, <3>2, <3>3
    <3> QED
      BY <3>1, <3>4, <3>5, <3>6
  <2>3. CASE ~f[k - 1].stuck
    <3>1. f[k].rest = <<>>
      BY <2>1, <2>3, <1>2 DEF S!Look, Readings
    <3>2. SubSeq(W, k + 1, k) = <<>>
      BY <1>0
    <3>3. UpTo(f[k - 1].replies, f[k - 1].begun, h, lax, tag[k])
      BY <1>2, <2>3, <2>1
    <3>4. IF f[k].stuck THEN lax /\ Met(k, k)
                        ELSE UpTo(f[k].replies, f[k].begun, h, lax, tag[k + 1])
      BY <3>3, <2>1, <2>3, OneLine
    <3> HIDE DEF Met
    <3>5. k \in 1 .. k
      BY <1>0
    <3> QED
      BY <3>1, <3>2, <3>4, <3>5
  <2> QED
    BY <2>2, <2>3
<1> HIDE DEF P
<1>3. Bad = {}
  <2>1. SUFFICES ASSUME Bad # {} PROVE FALSE
    OBVIOUS
  <2>2. PICK x \in Bad : \A y \in Bad : x <= y
    <3> Bad \in SUBSET Nat
      BY <1>0
    <3> QED BY <2>1, Least
  <2>3. x \in 1 .. m /\ x - 1 \in 0 .. m /\ x - 1 \notin Bad
    BY <2>2, <1>1, <1>0
  <2>4. P(x - 1) /\ ~P(x)
    BY <2>3, <2>2
  <2> QED
    BY <2>3, <2>4, <1>2
<1>4. P(m)
  BY <1>3, <1>0
<1> QED
  BY <1>4 DEF P

\* A reader that waits for the rest of a reply that never comes.
Whole == S!Line(250, TRUE)
LEMMA ReadingDeaf ==
  ASSUME SmtpTypes, NEW W \in Seq(Lines), NEW m \in 0 .. Len(W), begun = 250,
         \A i \in 1 .. Len(W) : W[i] # Whole,
         NEW f \in [0 .. m -> Readings], LinesRead(W, f, m)
  PROVE  /\ f[m].begun = 250 /\ f[m].replies = replies
         /\ \A i \in 1 .. Len(f[m].rest) : f[m].rest[i] # Whole
<1> DEFINE P(k) == /\ f[k].begun = 250 /\ f[k].replies = replies
                   /\ \A i \in 1 .. Len(f[k].rest) : f[k].rest[i] # Whole
           Bad == {k \in 0 .. m : ~P(k)}
<1>0. Len(W) \in Nat /\ m \in Nat /\ m <= Len(W)
  OBVIOUS
<1>1. P(0)
  BY DEF LinesRead, NothingRead
<1>2. ASSUME NEW k \in 1 .. m, P(k - 1) PROVE P(k)
  <2>1. /\ k \in 1 .. Len(W) /\ k - 1 \in 0 .. m /\ W[k] \in Lines
        /\ f[k - 1] \in Readings
        /\ f[k] = S!Look(f[k - 1], W[k])
    BY <1>0 DEF LinesRead
  <2>2. CASE f[k - 1].stuck
    <3>1. /\ f[k].rest = Append(f[k - 1].rest, W[k])
          /\ f[k].replies = f[k - 1].replies /\ f[k].begun = f[k - 1].begun
      BY <2>1, <2>2 DEF S!Look, Readings
    <3>2. f[k - 1].rest \in Seq(Lines)
      BY <2>1 DEF Readings
    <3>3. ASSUME NEW i \in 1 .. Len(f[k].rest) PROVE f[k].rest[i] # Whole
      <4> DEFINE s == f[k - 1].rest
      <4>1. /\ Len(Append(s, W[k])) = Len(s) + 1
            /\ \A j \in 1 .. Len(s) : Append(s, W[k])[j] = s[j]
            /\ Append(s, W[k])[Len(s) + 1] = W[k]
        BY <3>2, <2>1, AppendProperties
      <4>2. Len(s) \in Nat
        BY <3>2, LenProperties
      <4>7. W[k] # Whole
        BY <2>1
      <4>3. \A j \in 1 .. Len(s) : s[j] # Whole
        BY <1>2
      <4>4. f[k].rest = Append(s, W[k])
        BY <3>1
      <4> HIDE DEF s
      <4>5. CASE i \in 1 .. Len(s)
        BY <4>1, <4>3, <4>4, <4>5
      <4>6. CASE i \notin 1 .. Len(s)
        <5>1. i = Len(s) + 1
          BY <4>1, <4>2, <4>4, <4>6
        <5> QED
          BY <5>1, <4>1, <4>4, <4>7
      <4> QED
        BY <4>5, <4>6
    <3> QED
      BY <3>1, <3>3, <1>2
  <2>3. CASE ~f[k - 1].stuck
    <3>1. W[k].code = 250 => W[k].last = FALSE
      BY <2>1 DEF Whole, S!Line, Lines
    <3>2. /\ f[k].rest = f[k - 1].rest
          /\ f[k].replies = f[k - 1].replies /\ f[k].begun = 250
      BY <2>1, <2>3, <3>1, <1>2 DEF S!Look, Readings
    <3> QED
      BY <3>2, <1>2
  <2> QED
    BY <2>2, <2>3
<1> HIDE DEF P
<1>3. Bad = {}
  <2>1. SUFFICES ASSUME Bad # {} PROVE FALSE
    OBVIOUS
  <2>2. PICK x \in Bad : \A y \in Bad : x <= y
    <3> Bad \in SUBSET Nat
      BY <1>0
    <3> QED BY <2>1, Least
  <2>3. x \in 1 .. m /\ x - 1 \in 0 .. m /\ x - 1 \notin Bad
    BY <2>2, <1>1, <1>0
  <2> QED
    BY <2>3, <2>2, <1>2
<1>4. P(m)
  BY <1>3, <1>0
<1> QED
  BY <1>4 DEF P

\* What the server said: its answers, perhaps with one stray 250 among them, and its farewell.
Extra(base, s) ==
  /\ Len(base) = Len(answers) + 1
  /\ \A i \in 1 .. Len(answers) + 1 :
       base[i] = IF i < s THEN answers[i] ELSE IF i = s THEN 250 ELSE answers[i - 1]
Base(base, lax) ==
  base = answers \/ (fault /\ ~lax /\ \E s \in 1 .. Len(answers) + 1 : Extra(base, s))
Said(h, lax) ==
  /\ lax => fault
  /\ \E base \in Seq(Nat) :
       /\ Base(base, lax)
       /\ h = base \/ (fault /\ stream = "closed" /\ h = Append(base, 421))

\* The replies the adapter waits for are the next of what was said,
Hears(R, b, W) ==
  \E h \in Seq(Nat), lax \in BOOLEAN : \E tag :
    /\ Said(h, lax)
    /\ \A p \in 1 .. step - 1 : p <= Len(h) /\ h[p] \in S!Wanted[p]
    /\ Numbered(tag, W, h, lax) /\ UpTo(R, b, h, lax, tag[1])
\* or the reader waits for the end of a reply that nobody sends.
Deafened(R, b, W) ==
  /\ fault /\ b = 250 /\ R = <<>> /\ Len(answers) = step
  /\ \A i \in 1 .. Len(W) : W[i] # Whole

\* Lines that are taken off leave the others their numbers.
LEMMA NumberedRest ==
  ASSUME NEW W \in Seq(Lines), NEW h \in Seq(Nat), NEW lax \in BOOLEAN, NEW tag,
         Numbered(tag, W, h, lax), NEW j \in 0 .. Len(W)
  PROVE  \E tau : Numbered(tau, SubSeq(W, j + 1, Len(W)), h, lax) /\ tau[1] = tag[j + 1]
<1> DEFINE V == SubSeq(W, j + 1, Len(W))
           n == Len(W) - j
           tau == [i \in 1 .. n + 1 |-> tag[i + j]]
<1>1. Len(W) \in Nat /\ Len(h) \in Nat /\ j \in Nat /\ j <= Len(W) /\ n \in Nat
  OBVIOUS
<1>2. V \in Seq(Lines) /\ Len(V) = n /\ \A i \in 1 .. n : V[i] = W[i + j]
  <2>1. \A i \in j + 1 .. Len(W) : W[i] \in Lines
    BY <1>1, ElementOfSeq
  <2>2. j + 1 \in Int /\ Len(W) \in Int
    BY <1>1
  <2>3. /\ V \in Seq(Lines)
        /\ Len(V) = IF j + 1 <= Len(W) THEN Len(W) - (j + 1) + 1 ELSE 0
        /\ \A i \in 1 .. Len(W) - (j + 1) + 1 : V[i] = W[j + 1 + i - 1]
    BY <2>1, <2>2, SubSeqProperties
  <2>4. Len(V) = n
    BY <2>3, <1>1
  <2>5. ASSUME NEW i \in 1 .. n PROVE V[i] = W[i + j]
    <3>1. i \in 1 .. Len(W) - (j + 1) + 1 /\ j + 1 + i - 1 = i + j
      BY <1>1
    <3> QED
      BY <3>1, <2>3
  <2> QED
    BY <2>3, <2>4, <2>5
<1>3. /\ tag \in [1 .. Len(W) + 1 -> 1 .. Len(h) + 1]
      /\ tag[Len(W) + 1] = Len(h) + 1
      /\ \A i, k \in 1 .. Len(W) + 1 : i <= k => tag[i] <= tag[k]
      /\ \A i \in 1 .. Len(W) :
           /\ tag[i + 1] = IF Ends(W[i]) THEN tag[i] + 1 ELSE tag[i]
           /\ \/ lax /\ Stray(W[i])
              \/ tag[i] <= Len(h) /\ W[i].code = h[tag[i]] /\ W[i] # S!Malformed
  BY DEF Numbered
<1>4. \A i \in 1 .. n + 1 : i + j \in 1 .. Len(W) + 1 /\ tau[i] = tag[i + j]
  BY <1>1
<1>5. \A i \in 1 .. n : i + j \in 1 .. Len(W) /\ i \in 1 .. n + 1 /\ i + 1 \in 1 .. n + 1
                        /\ (i + 1) + j = (i + j) + 1
  BY <1>1
<1>6. tau \in [1 .. n + 1 -> 1 .. Len(h) + 1]
  BY <1>3, <1>4
<1>7. n + 1 \in 1 .. n + 1 /\ 1 \in 1 .. n + 1 /\ (n + 1) + j = Len(W) + 1 /\ 1 + j = j + 1
  BY <1>1
<1>8. tau[n + 1] = Len(h) + 1 /\ tau[1] = tag[j + 1]
  BY <1>3, <1>4, <1>7
<1> HIDE DEF tau, V, n
<1>9. \A i, k \in 1 .. n + 1 : i <= k => tau[i] <= tau[k]
  <2> SUFFICES ASSUME NEW i \in 1 .. n + 1, NEW k \in 1 .. n + 1, i <= k PROVE tau[i] <= tau[k]
    OBVIOUS
  <2>1. i + j <= k + j /\ i + j \in 1 .. Len(W) + 1 /\ k + j \in 1 .. Len(W) + 1
    BY <1>1, <1>4
  <2> QED
    BY <2>1, <1>3, <1>4
<1>10. \A i \in 1 .. n :
         /\ tau[i + 1] = IF Ends(V[i]) THEN tau[i] + 1 ELSE tau[i]
         /\ \/ lax /\ Stray(V[i])
            \/ tau[i] <= Len(h) /\ V[i].code = h[tau[i]] /\ V[i] # S!Malformed
  <2> SUFFICES ASSUME NEW i \in 1 .. n
               PROVE  /\ tau[i + 1] = IF Ends(V[i]) THEN tau[i] + 1 ELSE tau[i]
                      /\ \/ lax /\ Stray(V[i])
                         \/ tau[i] <= Len(h) /\ V[i].code = h[tau[i]] /\ V[i] # S!Malformed
    OBVIOUS
  <2>1. /\ V[i] = W[i + j] /\ tau[i] = tag[i + j] /\ tau[i + 1] = tag[(i + j) + 1]
        /\ i + j \in 1 .. Len(W)
    BY <1>2, <1>4, <1>5
  <2> QED
    BY <2>1, <1>3
<1>11. Numbered(tau, V, h, lax)
  BY <1>2, <1>6, <1>8, <1>9, <1>10 DEF Numbered
<1> QED
  BY <1>8, <1>11 DEF V

\* After the farewell there are stray lines only.
Farewell(W, j, tag, h, g) == h = Append(g, 421) /\ tag[j] = Len(g) + 1 /\ Ends(W[j])
LEMMA NumberedEnd ==
  ASSUME NEW W \in Seq(Lines), NEW h \in Seq(Nat), NEW g \in Seq(Nat), NEW tag,
         NEW lax \in BOOLEAN, Numbered(tag, W, h, lax),
         NEW j \in 1 .. Len(W), Farewell(W, j, tag, h, g)
  PROVE  \E tau : Numbered(tau, SubSeq(W, j + 1, Len(W)), g, lax) /\ tau[1] = tag[j]
<1>0. h = Append(g, 421) /\ tag[j] = Len(g) + 1 /\ Ends(W[j])
  BY DEF Farewell
<1> DEFINE V == SubSeq(W, j + 1, Len(W))
           n == Len(W) - j
           tau == [i \in 1 .. n + 1 |-> Len(g) + 1]
<1>1. Len(W) \in Nat /\ Len(g) \in Nat /\ j \in Nat /\ j <= Len(W) /\ n \in Nat
      /\ Len(Append(g, 421)) = Len(g) + 1
  BY <1>0, AppendProperties
<1>2. V \in Seq(Lines) /\ Len(V) = n /\ \A i \in 1 .. n : V[i] = W[i + j]
  <2>1. \A i \in j + 1 .. Len(W) : W[i] \in Lines
    BY <1>1, ElementOfSeq
  <2>2. j + 1 \in Int /\ Len(W) \in Int
    BY <1>1
  <2>3. /\ V \in Seq(Lines)
        /\ Len(V) = IF j + 1 <= Len(W) THEN Len(W) - (j + 1) + 1 ELSE 0
        /\ \A i \in 1 .. Len(W) - (j + 1) + 1 : V[i] = W[j + 1 + i - 1]
    BY <2>1, <2>2, SubSeqProperties
  <2>4. Len(V) = n
    BY <2>3, <1>1
  <2>5. ASSUME NEW i \in 1 .. n PROVE V[i] = W[i + j]
    <3>1. i \in 1 .. Len(W) - (j + 1) + 1 /\ j + 1 + i - 1 = i + j
      BY <1>1
    <3> QED
      BY <3>1, <2>3
  <2> QED
    BY <2>3, <2>4, <2>5
<1>3. /\ tag \in [1 .. Len(W) + 1 -> 1 .. Len(g) + 2]
      /\ \A i, k \in 1 .. Len(W) + 1 : i <= k => tag[i] <= tag[k]
      /\ \A i \in 1 .. Len(W) :
           /\ tag[i + 1] = IF Ends(W[i]) THEN tag[i] + 1 ELSE tag[i]
           /\ (lax /\ Stray(W[i])) \/ tag[i] <= Len(g) + 1
  <2>1. Len(g) + 1 + 1 = Len(g) + 2
    BY <1>1
  <2> QED
    BY <1>0, <1>1, <2>1 DEF Numbered
<1>4. tag[j + 1] = Len(g) + 2
  <2>3. Len(g) + 1 + 1 = Len(g) + 2
    BY <1>1
  <2> QED
    BY <2>3, <1>0, <1>3
<1>5. ASSUME NEW i \in j + 1 .. Len(W) PROVE lax /\ Stray(W[i])
  <2>1. i \in 1 .. Len(W) /\ i \in 1 .. Len(W) + 1 /\ j + 1 \in 1 .. Len(W) + 1 /\ j + 1 <= i
    BY <1>1
  <2>2. Len(g) + 2 <= tag[i] /\ tag[i] \in Nat
    <3>1. \A x, y \in 1 .. Len(W) + 1 : x <= y => tag[x] <= tag[y]
      BY <1>3
    <3>2. tag[j + 1] <= tag[i]
      BY <2>1, <3>1
    <3>3. tag \in [1 .. Len(W) + 1 -> 1 .. Len(g) + 2]
      BY <1>3
    <3>5. i \in 1 .. Len(W) + 1
      BY <2>1
    <3>4. tag[i] \in 1 .. Len(g) + 2
      BY <3>3, <3>5
    <3> QED
      BY <3>2, <3>4, <1>1, <1>4
  <2>3. ~(tag[i] <= Len(g) + 1)
    BY <2>2, <1>1
  <2>4. (lax /\ Stray(W[i])) \/ tag[i] <= Len(g) + 1
    BY <2>1, <1>3
  <2> QED
    BY <2>3, <2>4
<1>6. \A i \in 1 .. n : lax /\ Stray(V[i]) /\ ~Ends(V[i])
  <2> SUFFICES ASSUME NEW i \in 1 .. n PROVE lax /\ Stray(V[i]) /\ ~Ends(V[i])
    OBVIOUS
  <2>1. i + j \in j + 1 .. Len(W) /\ V[i] = W[i + j]
    <3>1. V[i] = W[i + j]
      BY <1>2
    <3>2. i + j \in j + 1 .. Len(W)
      BY <1>1
    <3> QED
      BY <3>1, <3>2
  <2>2. lax /\ Stray(V[i])
    BY <2>1, <1>5
  <2> QED
    BY <2>2 DEF Stray, Ends, S!Malformed, S!Line
<1>7. \A i \in 1 .. n + 1 : tau[i] = Len(g) + 1
  OBVIOUS
<1>8. tau \in [1 .. n + 1 -> 1 .. Len(g) + 1]
  BY <1>1
<1>9. /\ 1 \in 1 .. n + 1 /\ n + 1 \in 1 .. n + 1
      /\ \A i \in 1 .. n : i \in 1 .. n + 1 /\ i + 1 \in 1 .. n + 1
  BY <1>1
<1> HIDE DEF tau, V, n
<1>10. Numbered(tau, V, g, lax)
  <2>1. \A i, k \in 1 .. n + 1 : i <= k => tau[i] <= tau[k]
    BY <1>1, <1>7
  <2>2. tau[n + 1] = Len(g) + 1
    BY <1>7, <1>9
  <2>3. \A i \in 1 .. n : tau[i + 1] = IF Ends(V[i]) THEN tau[i] + 1 ELSE tau[i]
    BY <1>6, <1>7, <1>9
  <2> QED
    BY <1>2, <1>6, <1>8, <2>1, <2>2, <2>3 DEF Numbered
<1>11. tau[1] = Len(g) + 1
  BY <1>7, <1>9
<1> QED
  BY <1>0, <1>10, <1>11 DEF V

\* A stray line is put after the others.
Allowed(line, lax) == lax /\ Stray(line)
LEMMA NumberedStray ==
  ASSUME NEW W \in Seq(Lines), NEW h \in Seq(Nat), NEW lax \in BOOLEAN, NEW tag,
         Numbered(tag, W, h, lax), NEW line \in Lines, NEW lox \in BOOLEAN, Allowed(line, lox)
  PROVE  \E tau : Numbered(tau, Append(W, line), h, lox) /\ tau[1] = tag[1]
<1>0. lox /\ Stray(line)
  BY DEF Allowed
<1> DEFINE V == Append(W, line)
           tau == [i \in 1 .. Len(W) + 2 |-> IF i <= Len(W) + 1 THEN tag[i] ELSE Len(h) + 1]
<1>1. Len(W) \in Nat /\ Len(h) \in Nat
  OBVIOUS
<1>2. /\ Len(V) = Len(W) + 1 /\ \A i \in 1 .. Len(W) : V[i] = W[i]
      /\ V[Len(W) + 1] = line
  BY AppendProperties
<1>3. /\ tag \in [1 .. Len(W) + 1 -> 1 .. Len(h) + 1]
      /\ tag[Len(W) + 1] = Len(h) + 1
      /\ \A i, k \in 1 .. Len(W) + 1 : i <= k => tag[i] <= tag[k]
      /\ \A i \in 1 .. Len(W) :
           /\ tag[i + 1] = IF Ends(W[i]) THEN tag[i] + 1 ELSE tag[i]
           /\ \/ lax /\ Stray(W[i])
              \/ tag[i] <= Len(h) /\ W[i].code = h[tag[i]] /\ W[i] # S!Malformed
  BY DEF Numbered
<1>4. tau \in [1 .. Len(W) + 2 -> 1 .. Len(h) + 1]
  BY <1>1, <1>3
<1>5. /\ \A i \in 1 .. Len(W) + 1 : tau[i] = tag[i]
      /\ tau[Len(W) + 2] = Len(h) + 1
  BY <1>1
<1>6. ~Ends(line)
  BY <1>0 DEF Stray, Ends, S!Malformed, S!Line
<1> HIDE DEF tau, V
<1>7. \A i, k \in 1 .. Len(W) + 2 : i <= k => tau[i] <= tau[k]
  <2> SUFFICES ASSUME NEW i \in 1 .. Len(W) + 2, NEW k \in 1 .. Len(W) + 2, i <= k
               PROVE  tau[i] <= tau[k]
    OBVIOUS
  <2>1. CASE k \in 1 .. Len(W) + 1
    <3>1. i \in 1 .. Len(W) + 1
      BY <2>1, <1>1
    <3> QED
      BY <2>1, <3>1, <1>3, <1>5
  <2>2. CASE k \notin 1 .. Len(W) + 1
    <3>1. k = Len(W) + 2
      BY <2>2, <1>1
    <3>2. tau[i] \in 1 .. Len(h) + 1
      BY <1>4
    <3> QED
      BY <3>1, <3>2, <1>1, <1>5
  <2> QED
    BY <2>1, <2>2
<1>8. ASSUME NEW i \in 1 .. Len(V)
      PROVE  /\ tau[i + 1] = IF Ends(V[i]) THEN tau[i] + 1 ELSE tau[i]
             /\ \/ Stray(V[i])
                \/ tau[i] <= Len(h) /\ V[i].code = h[tau[i]] /\ V[i] # S!Malformed
  <2>1. CASE i \in 1 .. Len(W)
    <3>1. i \in 1 .. Len(W) + 1 /\ i + 1 \in 1 .. Len(W) + 1
      BY <2>1, <1>1
    <3> QED
      BY <2>1, <3>1, <1>2, <1>3, <1>5
  <2>2. CASE i \notin 1 .. Len(W)
    <3>1. i = Len(W) + 1 /\ i + 1 = Len(W) + 2 /\ Len(W) + 1 \in 1 .. Len(W) + 1
      BY <2>2, <1>1, <1>2
    <3> QED
      BY <3>1, <1>0, <1>2, <1>3, <1>5, <1>6
  <2> QED
    BY <2>1, <2>2
<1>9. Numbered(tau, V, h, lox)
  <2>1. Len(V) + 1 = Len(W) + 2
    BY <1>1, <1>2
  <2> QED
    BY <2>1, <1>0, <1>4, <1>5, <1>7, <1>8 DEF Numbered
<1>10. tau[1] = tag[1]
  BY <1>1, <1>5
<1> QED
  BY <1>9, <1>10 DEF V

\* A reply is put after the others.
ReplyOf(c, k) == [i \in 1 .. k |-> S!Line(c, i = k)]
LEMMA ReplyIs ==
  ASSUME NEW c \in Nat, c # 0, NEW k \in 1 .. 2, c = 421 => k = 1
  PROVE  /\ ReplyOf(c, k) \in Seq(Lines) /\ Len(ReplyOf(c, k)) = k
         /\ \A i \in 1 .. k : /\ ReplyOf(c, k)[i].code = c /\ ReplyOf(c, k)[i] # S!Malformed
                              /\ Ends(ReplyOf(c, k)[i]) <=> i = k
<1>1. ASSUME NEW i \in 1 .. k
      PROVE  /\ S!Line(c, i = k) \in Lines
             /\ S!Line(c, i = k).code = c /\ S!Line(c, i = k).last = (i = k)
             /\ S!Line(c, i = k) # S!Malformed
  <2>1. c = 421 => i = k
    OBVIOUS
  <2>2. PICK last \in BOOLEAN : last = (i = k)
    OBVIOUS
  <2>3. /\ S!Line(c, last) \in Lines
        /\ S!Line(c, last).code = c /\ S!Line(c, last).last = last
        /\ S!Line(c, last) # S!Malformed
    BY <2>1, <2>2 DEF S!Line, S!Malformed, Lines
  <2> QED
    BY <2>2, <2>3
<1>2. k \in Nat
  OBVIOUS
<1>3. ReplyOf(c, k) \in [1 .. k -> Lines]
  BY <1>1 DEF ReplyOf
<1>4. ReplyOf(c, k) \in Seq(Lines) /\ Len(ReplyOf(c, k)) = k
  BY <1>2, <1>3
<1>5. \A i \in 1 .. k : ReplyOf(c, k)[i] = S!Line(c, i = k)
  BY DEF ReplyOf
<1> QED
  BY <1>1, <1>4, <1>5 DEF Ends

LEMMA NumberedReply ==
  ASSUME NEW W \in Seq(Lines), NEW h \in Seq(Nat), NEW lax \in BOOLEAN, NEW tag,
         Numbered(tag, W, h, lax), NEW c \in Nat, c # 0, NEW k \in 1 .. 2, c = 421 => k = 1
  PROVE  \E tau : Numbered(tau, W \o ReplyOf(c, k), Append(h, c), lax) /\ tau[1] = tag[1]
<1> DEFINE V == W \o ReplyOf(c, k)
           g == Append(h, c)
           tau == [i \in 1 .. Len(W) + k + 1 |->
                     IF i <= Len(W) THEN tag[i] ELSE IF i <= Len(W) + k THEN Len(h) + 1 ELSE Len(h) + 2]
<1>1. Len(W) \in Nat /\ Len(h) \in Nat /\ k \in Nat /\ k >= 1
  OBVIOUS
<1>2. /\ Len(g) = Len(h) + 1 /\ \A i \in 1 .. Len(h) : g[i] = h[i]
      /\ g[Len(h) + 1] = c
  BY AppendProperties
<1>3. /\ tag \in [1 .. Len(W) + 1 -> 1 .. Len(h) + 1]
      /\ tag[Len(W) + 1] = Len(h) + 1
      /\ \A i, j \in 1 .. Len(W) + 1 : i <= j => tag[i] <= tag[j]
      /\ \A i \in 1 .. Len(W) :
           /\ tag[i + 1] = IF Ends(W[i]) THEN tag[i] + 1 ELSE tag[i]
           /\ \/ lax /\ Stray(W[i])
              \/ tag[i] <= Len(h) /\ W[i].code = h[tag[i]] /\ W[i] # S!Malformed
  BY DEF Numbered
<1>4. /\ Len(V) = Len(W) + k /\ \A i \in 1 .. Len(W) : V[i] = W[i]
      /\ \A i \in 1 .. k : V[Len(W) + i] = ReplyOf(c, k)[i]
  <2>1. ReplyOf(c, k) \in Seq(Lines) /\ Len(ReplyOf(c, k)) = k
    BY ReplyIs
  <2>2. /\ Len(V) = Len(W) + k
        /\ \A i \in 1 .. Len(W) + k : V[i] = IF i <= Len(W) THEN W[i] ELSE ReplyOf(c, k)[i - Len(W)]
    BY <2>1, ConcatProperties
  <2> HIDE DEF V
  <2>3. \A i \in 1 .. Len(W) : V[i] = W[i]
    BY <2>2, <1>1
  <2>4. ASSUME NEW i \in 1 .. k PROVE V[Len(W) + i] = ReplyOf(c, k)[i]
    <3>1. Len(W) + i \in 1 .. Len(W) + k /\ ~(Len(W) + i <= Len(W)) /\ (Len(W) + i) - Len(W) = i
      BY <1>1
    <3> QED
      BY <3>1, <2>2
  <2> QED
    BY <2>2, <2>3, <2>4
<1>5. tau \in [1 .. Len(W) + k + 1 -> 1 .. Len(h) + 2]
  <2> SUFFICES ASSUME NEW i \in 1 .. Len(W) + k + 1
               PROVE  (IF i <= Len(W) THEN tag[i] ELSE IF i <= Len(W) + k THEN Len(h) + 1 ELSE Len(h) + 2)
                        \in 1 .. Len(h) + 2
    OBVIOUS
  <2>1. CASE i <= Len(W)
    <3>1. i \in 1 .. Len(W) + 1
      BY <2>1, <1>1
    <3>2. tag[i] \in 1 .. Len(h) + 1
      BY <3>1, <1>3
    <3> QED
      BY <2>1, <3>2, <1>1
  <2>2. CASE ~(i <= Len(W))
    BY <2>2, <1>1
  <2> QED
    BY <2>1, <2>2
<1>6. /\ \A i \in 1 .. Len(W) + 1 : tau[i] = tag[i]
      /\ \A i \in Len(W) + 1 .. Len(W) + k : tau[i] = Len(h) + 1
      /\ tau[Len(W) + k + 1] = Len(h) + 2
  <2>1. \A i \in 1 .. Len(W) : tau[i] = tag[i]
    BY <1>1
  <2>2. tau[Len(W) + 1] = Len(h) + 1
    BY <1>1
  <2>3. \A i \in Len(W) + 1 .. Len(W) + k : tau[i] = Len(h) + 1
    BY <1>1
  <2>4. tau[Len(W) + k + 1] = Len(h) + 2
    BY <1>1
  <2> HIDE DEF tau
  <2>5. ASSUME NEW i \in 1 .. Len(W) + 1 PROVE tau[i] = tag[i]
    <3>1. i \in 1 .. Len(W) \/ i = Len(W) + 1
      BY <1>1
    <3> QED
      BY <3>1, <2>1, <2>2, <1>3
  <2> QED
    BY <2>3, <2>4, <2>5
<1>7. \A i \in 1 .. k : /\ ReplyOf(c, k)[i].code = c /\ ReplyOf(c, k)[i] # S!Malformed
                        /\ Ends(ReplyOf(c, k)[i]) <=> i = k
  BY ReplyIs
<1> HIDE DEF tau, V, g
<1>8. \A i, j \in 1 .. Len(W) + k + 1 : i <= j => tau[i] <= tau[j]
  <2> SUFFICES ASSUME NEW i \in 1 .. Len(W) + k + 1, NEW j \in 1 .. Len(W) + k + 1, i <= j
               PROVE  tau[i] <= tau[j]
    OBVIOUS
  <2>0. i \in Nat /\ j \in Nat /\ tau[i] \in 1 .. Len(h) + 2
    BY <1>5
  <2>1. CASE j \in 1 .. Len(W) + 1
    <3>1. i \in 1 .. Len(W) + 1
      BY <2>0, <2>1, <1>1
    <3> QED
      BY <2>1, <3>1, <1>3, <1>6
  <2>2. CASE j \in Len(W) + 2 .. Len(W) + k
    <3>1. tau[j] = Len(h) + 1
      BY <2>2, <1>1, <1>6
    <3>2. CASE i \in 1 .. Len(W) + 1
      <4>1. tau[i] \in 1 .. Len(h) + 1
        BY <3>2, <1>3, <1>6
      <4> QED
        BY <3>1, <4>1, <1>1
    <3>3. CASE i \notin 1 .. Len(W) + 1
      <4>1. i \in Len(W) + 1 .. Len(W) + k
        BY <3>3, <2>0, <2>2, <1>1
      <4>2. tau[i] = Len(h) + 1
        BY <4>1, <1>6
      <4> QED
        BY <3>1, <4>2, <1>1
    <3> QED
      BY <3>2, <3>3
  <2>3. CASE j = Len(W) + k + 1
    BY <2>0, <2>3, <1>1, <1>6
  <2>4. j \in 1 .. Len(W) + 1 \/ j \in Len(W) + 2 .. Len(W) + k \/ j = Len(W) + k + 1
    BY <1>1
  <2> QED
    BY <2>1, <2>2, <2>3, <2>4
<1>9. ASSUME NEW i \in 1 .. Len(V)
      PROVE  /\ tau[i + 1] = IF Ends(V[i]) THEN tau[i] + 1 ELSE tau[i]
             /\ \/ lax /\ Stray(V[i])
                \/ tau[i] <= Len(g) /\ V[i].code = g[tau[i]] /\ V[i] # S!Malformed
  <2>1. CASE i \in 1 .. Len(W)
    <3>1. i \in 1 .. Len(W) + 1 /\ i + 1 \in 1 .. Len(W) + 1
      BY <2>1, <1>1
    <3>2. tau[i + 1] = tag[i + 1] /\ tau[i] = tag[i] /\ V[i] = W[i]
      BY <2>1, <3>1, <1>4, <1>6
    <3>3. \/ lax /\ Stray(W[i])
          \/ tag[i] <= Len(h) /\ W[i].code = h[tag[i]] /\ W[i] # S!Malformed
      BY <2>1, <1>3
    <3>4. tag[i] <= Len(h) => g[tag[i]] = h[tag[i]] /\ tag[i] <= Len(g)
      <4>1. tag[i] \in 1 .. Len(h) + 1
        BY <3>1, <1>3
      <4> QED
        BY <4>1, <1>1, <1>2
    <3>5. tag[i + 1] = IF Ends(W[i]) THEN tag[i] + 1 ELSE tag[i]
      BY <2>1, <1>3
    <3> QED
      BY <3>2, <3>3, <3>4, <3>5
  <2>2. CASE i \notin 1 .. Len(W)
    <3>1. PICK j \in 1 .. k : i = Len(W) + j
      <4>1. i - Len(W) \in 1 .. k /\ i = Len(W) + (i - Len(W))
        BY <2>2, <1>1, <1>4
      <4> QED
        BY <4>1
    <3>2. V[i] = ReplyOf(c, k)[j] /\ i \in Len(W) + 1 .. Len(W) + k
      BY <3>1, <1>1, <1>4
    <3>3. tau[i] = Len(h) + 1 /\ V[i].code = g[Len(h) + 1] /\ V[i] # S!Malformed
      BY <3>2, <1>2, <1>6, <1>7
    <3>4. tau[i + 1] = IF j = k THEN Len(h) + 2 ELSE Len(h) + 1
      <4>1. CASE j = k
        <5>1. i + 1 = Len(W) + k + 1
          BY <3>1, <4>1, <1>1
        <5> QED
          BY <4>1, <5>1, <1>6
      <4>2. CASE j # k
        <5>1. i + 1 \in Len(W) + 1 .. Len(W) + k
          BY <3>1, <4>2, <1>1
        <5> QED
          BY <4>2, <5>1, <1>6
      <4> QED
        BY <4>1, <4>2
    <3>5. Ends(V[i]) <=> j = k
      BY <3>2, <1>7
    <3>6. Len(h) + 1 + 1 = Len(h) + 2 /\ Len(h) + 1 <= Len(g)
      BY <1>1, <1>2
    <3> QED
      BY <3>3, <3>4, <3>5, <3>6
  <2> QED
    BY <2>1, <2>2
<1>10. Numbered(tau, V, g, lax)
  <2>1. Len(V) + 1 = Len(W) + k + 1 /\ Len(g) + 1 = Len(h) + 2
    BY <1>1, <1>2, <1>4
  <2> QED
    BY <2>1, <1>5, <1>6, <1>8, <1>9 DEF Numbered
<1>11. tau[1] = tag[1]
  BY <1>1, <1>6
<1> QED
  BY <1>10, <1>11 DEF V, g

\* What the reader leaves, and what has not come, are what followed.
LEMMA LeftOver ==
  ASSUME NEW s \in Seq(Lines), NEW w \in Seq(Lines), NEW n \in 0 .. Len(w),
         NEW j \in 0 .. Len(s) + n
  PROVE  SubSeq(s \o w, j + 1, Len(s) + n) \o SubSeq(w, n + 1, Len(w))
           = SubSeq(s \o w, j + 1, Len(s \o w))
<1> DEFINE W == s \o w
           m == Len(s) + n
<1>1. Len(s) \in Nat /\ Len(w) \in Nat /\ n \in Nat /\ n <= Len(w) /\ j \in Nat /\ j <= m
  OBVIOUS
<1>2. W \in Seq(Lines) /\ Len(W) = Len(s) + Len(w)
  BY ConcatProperties
<1>3. SubSeq(w, n + 1, Len(w)) = SubSeq(W, m + 1, Len(W))
  <2>1. CASE n = Len(w)
    <3>1. SubSeq(w, n + 1, Len(w)) = <<>>
      <4>1. n + 1 \in Int /\ Len(w) \in Int /\ Len(w) < n + 1
        BY <1>1, <2>1
      <4> QED
        BY <4>1, SubSeqEmpty
    <3>2. SubSeq(W, m + 1, Len(W)) = <<>>
      <4>1. m + 1 \in Int /\ Len(W) \in Int /\ Len(W) < m + 1
        BY <1>1, <1>2, <2>1
      <4> QED
        BY <4>1, SubSeqEmpty
    <3> QED
      BY <3>1, <3>2
  <2>2. CASE n # Len(w)
    <3>1. /\ m + 1 \in Len(s) + 1 .. Len(s) + Len(w) /\ Len(W) \in Len(s) + 1 .. Len(s) + Len(w)
          /\ (m + 1) - Len(s) = n + 1 /\ Len(W) - Len(s) = Len(w)
      BY <1>1, <1>2, <2>2
    <3>2. SubSeq(W, m + 1, Len(W)) = SubSeq(w, (m + 1) - Len(s), Len(W) - Len(s))
      BY <3>1, SubSeqOfConcat2
    <3> QED
      BY <3>1, <3>2
  <2> QED
    BY <2>1, <2>2
<1>4. /\ j + 1 \in 1 .. Len(W) + 1 /\ m \in (j + 1) - 1 .. Len(W) /\ Len(W) \in m .. Len(W)
  BY <1>1, <1>2
<1>5. SubSeq(W, j + 1, m) \o SubSeq(W, m + 1, Len(W)) = SubSeq(W, j + 1, Len(W))
  <2> HIDE DEF W, m
  <2> QED
    BY <1>2, <1>4, ConcatAdjacentSubSeq
<1> QED
  BY <1>3, <1>5

LEMMA UpToMore ==
  ASSUME NEW h \in Seq(Nat), NEW c \in Nat, NEW t \in 1 .. Len(h) + 1, NEW R \in Seq(Nat),
         NEW b \in Nat, NEW lax \in BOOLEAN, step \in Nat \ {0}, UpTo(R, b, h, lax, t)
  PROVE  UpTo(R, b, Append(h, c), lax, t)
<1> DEFINE g == Append(h, c)
<1>1. Len(g) = Len(h) + 1 /\ \A i \in 1 .. Len(h) : g[i] = h[i]
  BY AppendProperties
<1>2. Len(h) \in Nat /\ Len(R) \in Nat /\ step + Len(R) = t
  BY DEF UpTo
<1> HIDE DEF g
<1>3. ASSUME NEW j \in 1 .. Len(R) PROVE R[j] = g[step - 1 + j]
  <2>1. step - 1 + j \in 1 .. Len(h)
    BY <1>2
  <2>2. R[j] = h[step - 1 + j]
    BY DEF UpTo
  <2> QED
    BY <2>1, <2>2, <1>1
<1>4. b = 0 \/ (lax /\ b = 250) \/ (t <= Len(g) /\ b = g[t])
  <2>1. b = 0 \/ (lax /\ b = 250) \/ (t <= Len(h) /\ b = h[t])
    BY DEF UpTo
  <2>2. t <= Len(h) => t <= Len(g) /\ g[t] = h[t]
    BY <1>1, <1>2
  <2> QED
    BY <2>1, <2>2
<1>5. UpTo(R, b, g, lax, t)
  BY <1>2, <1>3, <1>4 DEF UpTo
<1> QED
  BY <1>5 DEF g

LEMMA HearsReply ==
  ASSUME NEW W \in Seq(Lines), NEW h \in Seq(Nat), NEW lax \in BOOLEAN, NEW tag,
         Numbered(tag, W, h, lax), NEW c \in Nat, c # 0, NEW k \in 1 .. 2, c = 421 => k = 1,
         NEW R \in Seq(Nat), NEW b \in Nat, step \in Nat \ {0}, UpTo(R, b, h, lax, tag[1])
  PROVE  \E tau : /\ Numbered(tau, W \o ReplyOf(c, k), Append(h, c), lax)
                  /\ UpTo(R, b, Append(h, c), lax, tau[1])
<1>1. PICK tau : Numbered(tau, W \o ReplyOf(c, k), Append(h, c), lax) /\ tau[1] = tag[1]
  BY NumberedReply
<1>2. tag[1] \in 1 .. Len(h) + 1
  <2>1. 1 \in 1 .. Len(W) + 1
    OBVIOUS
  <2> QED
    BY <2>1 DEF Numbered
<1>3. UpTo(R, b, Append(h, c), lax, tag[1])
  BY <1>2, UpToMore
<1> QED
  BY <1>1, <1>3

\* What Reads leaves, read as lines of the whole.
LEMMA ReadsOf ==
  ASSUME SmtpTypes, NEW n \in 0 .. Len(wire), NEW W, W = buffer \o wire,
         NEW r, r = S!Reads(buffer \o SubSeq(wire, 1, n))
  PROVE  /\ W \in Seq(Lines) /\ Len(buffer) + n \in 0 .. Len(W)
         /\ \E f \in [0 .. Len(buffer) + n -> Readings] :
              LinesRead(W, f, Len(buffer) + n) /\ r = f[Len(buffer) + n]
<1> DEFINE L == buffer \o SubSeq(wire, 1, n)
           m == Len(buffer) + n
<1>1. /\ buffer \in Seq(Lines) /\ wire \in Seq(Lines)
      /\ Len(buffer) \in Nat /\ Len(wire) \in Nat /\ n \in Nat /\ n <= Len(wire)
  BY DEF SmtpTypes
<1>2. /\ W \in Seq(Lines) /\ Len(W) = Len(buffer) + Len(wire)
      /\ \A i \in 1 .. Len(buffer) + Len(wire) :
           W[i] = IF i <= Len(buffer) THEN buffer[i] ELSE wire[i - Len(buffer)]
  BY <1>1, ConcatProperties
<1>3. /\ SubSeq(wire, 1, n) \in Seq(Lines) /\ Len(SubSeq(wire, 1, n)) = n
      /\ \A i \in 1 .. n : SubSeq(wire, 1, n)[i] = wire[i]
  <2>1. \A i \in 1 .. n : wire[i] \in Lines
    BY <1>1, ElementOfSeq
  <2>2. 1 \in Int /\ n \in Int
    BY <1>1
  <2>3. /\ SubSeq(wire, 1, n) \in Seq(Lines)
        /\ Len(SubSeq(wire, 1, n)) = IF 1 <= n THEN n - 1 + 1 ELSE 0
        /\ \A i \in 1 .. n - 1 + 1 : SubSeq(wire, 1, n)[i] = wire[1 + i - 1]
    BY <2>1, <2>2, SubSeqProperties
  <2>4. Len(SubSeq(wire, 1, n)) = n
    BY <2>3, <1>1
  <2>5. ASSUME NEW i \in 1 .. n PROVE SubSeq(wire, 1, n)[i] = wire[i]
    <3>1. i \in 1 .. n - 1 + 1 /\ 1 + i - 1 = i
      BY <1>1
    <3> QED
      BY <3>1, <2>3
  <2> QED
    BY <2>3, <2>4, <2>5
<1>4. /\ L \in Seq(Lines) /\ Len(L) = m
      /\ \A i \in 1 .. m : L[i] = IF i <= Len(buffer) THEN buffer[i]
                                                      ELSE SubSeq(wire, 1, n)[i - Len(buffer)]
  BY <1>1, <1>3, ConcatProperties
<1> HIDE DEF L
<1>5. ASSUME NEW i \in 1 .. m PROVE L[i] = W[i]
  <2>1. i \in 1 .. Len(buffer) + Len(wire)
    BY <1>1
  <2>2. CASE i <= Len(buffer)
    BY <2>1, <2>2, <1>2, <1>4
  <2>3. CASE ~(i <= Len(buffer))
    <3>1. i - Len(buffer) \in 1 .. n
      BY <2>3, <1>1
    <3> QED
      BY <3>1, <2>1, <2>3, <1>2, <1>3, <1>4
  <2> QED
    BY <2>2, <2>3
<1>6. PICK f \in [0 .. m -> Readings] : LinesRead(L, f, m) /\ S!Reads(L) = f[m]
  <2>1. \E f \in [0 .. Len(L) -> Readings] : LinesRead(L, f, Len(L)) /\ S!Reads(L) = f[Len(L)]
    BY <1>4, ReadsAre
  <2> QED
    BY <2>1, <1>4
<1>7. LinesRead(W, f, m)
  BY <1>5, <1>6 DEF LinesRead
<1>8. r = f[m]
  BY <1>6 DEF L
<1>9. m \in 0 .. Len(W)
  BY <1>1, <1>2
<1> QED
  BY <1>2, <1>6, <1>7, <1>8, <1>9

\* A reply that was begun with a stray line takes the line of another with it: that is the
\* farewell, or the reader waits for good.
LEMMA MissedThen ==
  ASSUME SmtpTypes, Len(answers) <= step, NEW r \in Readings,
         NEW W \in Seq(Lines), NEW h \in Seq(Nat), NEW tag,
         NEW lax \in BOOLEAN, Numbered(tag, W, h, lax), NEW j \in 1 .. Len(W)
  PROVE  LET V == SubSeq(W, j + 1, Len(W)) IN
         /\ lax /\ Said(h, lax)
         /\ \A p \in 1 .. step - 1 : p <= Len(h) /\ h[p] \in S!Wanted[p]
         /\ Missed(r, h, lax, tag[j], W[j].code)
         => Hears(r.replies, r.begun, V) \/ Deafened(r.replies, r.begun, V)
<1>0. SUFFICES ASSUME lax, Said(h, lax), \A p \in 1 .. step - 1 : p <= Len(h) /\ h[p] \in S!Wanted[p],
                      Missed(r, h, lax, tag[j], W[j].code)
               PROVE  LET V == SubSeq(W, j + 1, Len(W)) IN
                      Hears(r.replies, r.begun, V) \/ Deafened(r.replies, r.begun, V)
  OBVIOUS
<1> DEFINE V == SubSeq(W, j + 1, Len(W))
           t == tag[j]
<1>1. /\ answers \in Seq(Nat) /\ Len(answers) \in Nat /\ step \in Nat /\ Len(h) \in Nat
      /\ Len(W) \in Nat /\ r.replies \in Seq(Nat) /\ Len(r.replies) \in Nat /\ r.begun \in Nat
      /\ fault
  BY <1>0 DEF SmtpTypes, Readings, Said
<1>2. h = answers \/ h = Append(answers, 421)
  BY <1>0 DEF Said, Base
<1>3. /\ UpTo(r.replies, r.begun, h, lax, t) /\ r.begun = 250
      /\ t <= Len(h) /\ W[j].code = h[t] /\ h[t] # 250
  BY <1>0 DEF Missed
<1>4. step + Len(r.replies) = t /\ t \in Nat
  <2>1. step + Len(r.replies) = t
    BY <1>3 DEF UpTo
  <2> QED
    BY <2>1, <1>1
<1>5. /\ Len(Append(answers, 421)) = Len(answers) + 1
      /\ \A i \in 1 .. Len(answers) : Append(answers, 421)[i] = answers[i]
      /\ Append(answers, 421)[Len(answers) + 1] = 421
  BY <1>1, AppendProperties
<1>6. CASE t = Len(answers) + 1
  <2>1. h = Append(answers, 421)
    BY <1>1, <1>2, <1>3, <1>6
  <2>2. W[j].code = 421 /\ tag[j] = Len(answers) + 1
    BY <2>1, <1>3, <1>5, <1>6
  <2>3. PICK tau : Numbered(tau, V, answers, lax) /\ tau[1] = Len(answers) + 1
    <3>1. answers \in Seq(Nat)
      BY <1>1
    <3>2. Ends(W[j])
      <4>1. W[j] \in Lines
        BY ElementOfSeq
      <4> QED
        BY <4>1, <2>2 DEF Ends, Lines, S!Malformed, S!Line
    <3>3. tag[j] = Len(answers) + 1
      BY <2>2
    <3>4. Farewell(W, j, tag, h, answers)
      BY <3>2, <3>3, <2>1 DEF Farewell
    <3>5. \E tau : Numbered(tau, SubSeq(W, j + 1, Len(W)), answers, lax) /\ tau[1] = tag[j]
      BY <3>1, <3>4, NumberedEnd
    <3> QED
      BY <3>3, <3>5
  <2>4. Said(answers, lax)
    BY <1>0, <1>1 DEF Said, Base
  <2>5. UpTo(r.replies, r.begun, answers, lax, tau[1])
    <3>1. ASSUME NEW i \in 1 .. Len(r.replies) PROVE r.replies[i] = answers[step - 1 + i]
      <4>1. step - 1 + i \in 1 .. Len(answers)
        BY <1>1, <1>4, <1>6 DEF SmtpTypes
      <4>2. r.replies[i] = h[step - 1 + i]
        BY <1>3 DEF UpTo
      <4> QED
        BY <4>1, <4>2, <2>1, <1>5
    <3> QED
      BY <3>1, <2>3, <1>3, <1>4, <1>6 DEF UpTo
  <2>6. ASSUME NEW p \in 1 .. step - 1 PROVE p <= Len(answers) /\ answers[p] \in S!Wanted[p]
    <3>1. p \in 1 .. Len(answers)
      BY <1>1, <1>4, <1>6
    <3>2. h[p] = answers[p]
      BY <3>1, <2>1, <1>5
    <3> QED
      BY <3>1, <3>2, <1>0
  <2>7. Hears(r.replies, r.begun, V)
    <3> HIDE DEF V
    <3> QED
      BY <2>3, <2>4, <2>5, <2>6, <1>1 DEF Hears
  <2> QED
    BY <2>7
<1>7. CASE t # Len(answers) + 1
  <2>1. t <= Len(answers)
    BY <1>1, <1>2, <1>3, <1>4, <1>5, <1>7
  <2>2. Len(r.replies) = 0 /\ Len(answers) = step /\ t = step
    BY <2>1, <1>1, <1>4
  <2>3. r.replies = <<>>
    BY <2>2, <1>1, EmptySeq
  <2>4. ASSUME NEW i \in 1 .. Len(V) PROVE V[i] # Whole
    <3>1. Len(V) = Len(W) - j /\ V[i] = W[i + j] /\ i + j \in 1 .. Len(W) /\ j <= i + j
      <4>1. \A x \in j + 1 .. Len(W) : W[x] \in Lines
        BY <1>1, ElementOfSeq
      <4>2. j + 1 \in Int /\ Len(W) \in Int
        BY <1>1
      <4>3. /\ Len(V) = IF j + 1 <= Len(W) THEN Len(W) - (j + 1) + 1 ELSE 0
            /\ \A x \in 1 .. Len(W) - (j + 1) + 1 : V[x] = W[j + 1 + x - 1]
        BY <4>1, <4>2, SubSeqProperties
      <4>4. Len(V) = Len(W) - j
        BY <4>3, <1>1
      <4>5. i \in 1 .. Len(W) - (j + 1) + 1 /\ j + 1 + i - 1 = i + j
        BY <4>4, <1>1
      <4> QED
        BY <4>3, <4>4, <4>5, <1>1
    <3> DEFINE x == i + j
    <3>2. x \in 1 .. Len(W) /\ j \in 1 .. Len(W) + 1 /\ x \in 1 .. Len(W) + 1 /\ j <= x
      BY <3>1, <1>1
    <3> HIDE DEF x
    <3>3. /\ tag \in [1 .. Len(W) + 1 -> 1 .. Len(h) + 1]
          /\ \A y, z \in 1 .. Len(W) + 1 : y <= z => tag[y] <= tag[z]
      BY DEF Numbered
    <3>4. Stray(W[x]) \/ (tag[x] <= Len(h) /\ W[x].code = h[tag[x]])
      BY <3>2 DEF Numbered
    <3>5. t <= tag[x] /\ tag[x] \in 1 .. Len(h) + 1
      BY <3>2, <3>3
    <3>6. CASE Stray(W[x])
      BY <3>6, <3>1 DEF Whole, Stray, S!Line, S!Malformed, x
    <3>7. CASE tag[x] <= Len(h) /\ W[x].code = h[tag[x]]
      <4>1. tag[x] = t \/ tag[x] = t + 1
        <5>1. Len(h) <= Len(answers) + 1
          BY <1>1, <1>2, <1>5
        <5>2. tag[x] \in Nat /\ t <= tag[x] /\ tag[x] <= t + 1
          BY <3>5, <3>7, <5>1, <2>2, <1>1, <1>4
        <5>3. \A y, z \in Nat : y <= z /\ z <= y + 1 => z = y \/ z = y + 1
          OBVIOUS
        <5>4. t \in Nat
          BY <1>4
        <5> HIDE DEF t
        <5> QED
          BY <5>2, <5>3, <5>4
      <4>2. h[tag[x]] # 250
        <5>1. CASE tag[x] = t
          BY <5>1, <1>3
        <5>2. CASE tag[x] = t + 1
          <6>1. h = Append(answers, 421)
            BY <5>2, <3>7, <2>2, <1>1, <1>2, <1>4
          <6> QED
            BY <5>2, <6>1, <2>2, <1>5
        <5> QED
          BY <4>1, <5>1, <5>2
      <4> QED
        BY <4>2, <3>7, <3>1 DEF Whole, S!Line, x
    <3> QED
      BY <3>4, <3>6, <3>7
  <2>5. Deafened(r.replies, r.begun, V)
    BY <2>2, <2>3, <2>4, <1>1, <1>3 DEF Deafened
  <2> QED
    BY <2>5
<1> QED
  BY <1>6, <1>7

\* The adapter hears the same after the reader has read.
LEMMA ReadsHear ==
  ASSUME SmtpTypes, Len(answers) <= step, NEW n \in 0 .. Len(wire),
         NEW r, r = S!Reads(buffer \o SubSeq(wire, 1, n)),
         Hears(replies, begun, buffer \o wire)
  PROVE  LET V == r.rest \o SubSeq(wire, n + 1, Len(wire)) IN
         /\ \/ Hears(r.replies, r.begun, V)
            \/ r.stuck /\ Deafened(r.replies, r.begun, V)
         /\ r.stuck => fault
         /\ r.stuck \/ r.rest = <<>>
<1> DEFINE W == buffer \o wire
           m == Len(buffer) + n
           V == r.rest \o SubSeq(wire, n + 1, Len(wire))
<1>1. /\ buffer \in Seq(Lines) /\ wire \in Seq(Lines) /\ Len(buffer) \in Nat /\ n \in Nat
  BY DEF SmtpTypes
<1>2. /\ W \in Seq(Lines) /\ m \in 0 .. Len(W)
      /\ \E f \in [0 .. m -> Readings] : LinesRead(W, f, m) /\ r = f[m]
  BY ReadsOf
<1>3. PICK f \in [0 .. m -> Readings] : LinesRead(W, f, m) /\ r = f[m]
  BY <1>2
<1>4. PICK h \in Seq(Nat), lax \in BOOLEAN :
        \E tag : /\ Said(h, lax)
                 /\ \A p \in 1 .. step - 1 : p <= Len(h) /\ h[p] \in S!Wanted[p]
                 /\ Numbered(tag, W, h, lax) /\ UpTo(replies, begun, h, lax, tag[1])
  BY DEF Hears
<1>5. PICK tag : /\ Said(h, lax)
                 /\ \A p \in 1 .. step - 1 : p <= Len(h) /\ h[p] \in S!Wanted[p]
                 /\ Numbered(tag, W, h, lax) /\ UpTo(replies, begun, h, lax, tag[1])
  BY <1>4
<1>6. r \in Readings /\ m \in Nat /\ Len(W) \in Nat
  <2>1. m \in Nat /\ m \in 0 .. m
    BY <1>1
  <2>2. Len(W) \in Nat
    BY <1>2, LenProperties
  <2> HIDE DEF m, W
  <2> QED
    BY <2>1, <2>2, <1>3
<1>7. \A j \in 0 .. m : SubSeq(W, j + 1, m) \o SubSeq(wire, n + 1, Len(wire))
                          = SubSeq(W, j + 1, Len(W))
  BY <1>1, LeftOver
<1> HIDE DEF W
<1>8. IF r.stuck
      THEN lax /\ \E j \in 1 .. m :
             /\ r.rest = SubSeq(W, j + 1, m)
             /\ \/ UpTo(r.replies, r.begun, h, lax, tag[j + 1])
                \/ Missed(r, h, lax, tag[j], W[j].code)
      ELSE r.rest = <<>> /\ UpTo(r.replies, r.begun, h, lax, tag[m + 1])
  <2> HIDE DEF m
  <2>1. UpTo(replies, begun, h, lax, tag[1]) /\ Numbered(tag, W, h, lax) /\ LinesRead(W, f, m)
    BY <1>3, <1>5
  <2>2. W \in Seq(Lines) /\ m \in 0 .. Len(W)
    BY <1>2
  <2>3. IF f[m].stuck
        THEN lax /\ \E j \in 1 .. m :
               /\ f[m].rest = SubSeq(W, j + 1, m)
               /\ \/ UpTo(f[m].replies, f[m].begun, h, lax, tag[j + 1])
                  \/ Missed(f[m], h, lax, tag[j], W[j].code)
        ELSE f[m].rest = <<>> /\ UpTo(f[m].replies, f[m].begun, h, lax, tag[m + 1])
    BY <2>1, <2>2, ReadingFollows
  <2>4. r = f[m]
    BY <1>3
  <2> QED
    BY <2>3, <2>4
<1> HIDE DEF m
<1>9. ASSUME NEW j \in 0 .. m, r.rest = SubSeq(W, j + 1, m),
             UpTo(r.replies, r.begun, h, lax, tag[j + 1])
      PROVE  Hears(r.replies, r.begun, V)
  <2>1. V = SubSeq(W, j + 1, Len(W))
    BY <1>7, <1>9
  <2>2. j \in 0 .. Len(W)
    BY <1>2
  <2>3. PICK tau : Numbered(tau, SubSeq(W, j + 1, Len(W)), h, lax) /\ tau[1] = tag[j + 1]
    BY <2>2, <1>2, <1>5, NumberedRest
  <2> HIDE DEF V
  <2> QED
    BY <2>1, <2>3, <1>5, <1>9 DEF Hears
<1>10. CASE r.stuck
  <2>1. PICK j \in 1 .. m : /\ r.rest = SubSeq(W, j + 1, m)
                            /\ \/ UpTo(r.replies, r.begun, h, lax, tag[j + 1])
                               \/ Missed(r, h, lax, tag[j], W[j].code)
    BY <1>8, <1>10
  <2>2. lax = TRUE /\ fault
    BY <1>5, <1>8, <1>10 DEF Said
  <2>3. CASE UpTo(r.replies, r.begun, h, lax, tag[j + 1])
    <3>1. j \in 0 .. m
      BY <1>6
    <3>2. Hears(r.replies, r.begun, V)
      BY <3>1, <2>1, <2>3, <1>9
    <3> QED
      BY <3>2, <2>2, <1>10
  <2>4. CASE Missed(r, h, lax, tag[j], W[j].code)
    <3>1. V = SubSeq(W, j + 1, Len(W))
      <4>1. j \in 0 .. m
        BY <1>6
      <4> QED
        BY <4>1, <2>1, <1>7
    <3>2. j \in 1 .. Len(W)
      BY <1>2, <1>6
    <3>3. LET Z == SubSeq(W, j + 1, Len(W)) IN
          Hears(r.replies, r.begun, Z) \/ Deafened(r.replies, r.begun, Z)
      BY <3>2, <2>2, <2>4, <1>2, <1>5, <1>6, MissedThen
    <3> QED
      BY <3>1, <3>3, <2>2, <1>10
  <2> QED
    BY <2>1, <2>3, <2>4
<1>11. CASE ~r.stuck
  <2>1. r.rest = <<>> /\ UpTo(r.replies, r.begun, h, lax, tag[m + 1])
    BY <1>8, <1>11
  <2>2. SubSeq(W, m + 1, m) = <<>>
    BY <1>6
  <2>3. m \in 0 .. m
    BY <1>6
  <2> QED
    BY <2>1, <2>2, <2>3, <1>9, <1>11
<1> QED
  BY <1>10, <1>11

\* A reader that waits for good goes on to wait.
LEMMA ReadsDeaf ==
  ASSUME SmtpTypes, NEW n \in 0 .. Len(wire),
         NEW r, r = S!Reads(buffer \o SubSeq(wire, 1, n)),
         Deafened(replies, begun, buffer \o wire)
  PROVE  /\ Deafened(r.replies, r.begun, r.rest \o SubSeq(wire, n + 1, Len(wire)))
         /\ r.replies = <<>>
<1> DEFINE W == buffer \o wire
           m == Len(buffer) + n
           V == SubSeq(wire, n + 1, Len(wire))
<1>1. /\ buffer \in Seq(Lines) /\ wire \in Seq(Lines) /\ Len(buffer) \in Nat /\ n \in Nat
      /\ Len(wire) \in Nat /\ n <= Len(wire)
  BY DEF SmtpTypes
<1>2. /\ W \in Seq(Lines) /\ m \in 0 .. Len(W)
      /\ \E f \in [0 .. m -> Readings] : LinesRead(W, f, m) /\ r = f[m]
  BY ReadsOf
<1>3. PICK f \in [0 .. m -> Readings] : LinesRead(W, f, m) /\ r = f[m]
  BY <1>2
<1>4. /\ begun = 250 /\ \A i \in 1 .. Len(W) : W[i] # Whole
      /\ replies = <<>> /\ fault /\ Len(answers) = step
  BY DEF Deafened
<1>5. /\ Len(W) = Len(buffer) + Len(wire)
      /\ \A i \in 1 .. Len(buffer) + Len(wire) :
           W[i] = IF i <= Len(buffer) THEN buffer[i] ELSE wire[i - Len(buffer)]
  BY <1>1, ConcatProperties
<1> HIDE DEF W
<1>6. /\ f[m].begun = 250 /\ f[m].replies = replies
      /\ \A i \in 1 .. Len(f[m].rest) : f[m].rest[i] # Whole
  <2> HIDE DEF m
  <2>1. W \in Seq(Lines) /\ m \in 0 .. Len(W) /\ LinesRead(W, f, m)
    BY <1>2, <1>3
  <2>2. f \in [0 .. m -> Readings]
    OBVIOUS
  <2>3. begun = 250 /\ \A i \in 1 .. Len(W) : W[i] # Whole
    BY <1>4
  <2> QED
    BY <2>1, <2>2, <2>3, ReadingDeaf
<1>7. /\ V \in Seq(Lines) /\ Len(V) = Len(wire) - n
      /\ \A i \in 1 .. Len(V) : V[i] = wire[n + i]
  <2>1. \A i \in n + 1 .. Len(wire) : wire[i] \in Lines
    BY <1>1, ElementOfSeq
  <2>2. n + 1 \in Int /\ Len(wire) \in Int
    BY <1>1
  <2>3. /\ V \in Seq(Lines)
        /\ Len(V) = IF n + 1 <= Len(wire) THEN Len(wire) - (n + 1) + 1 ELSE 0
        /\ \A i \in 1 .. Len(wire) - (n + 1) + 1 : V[i] = wire[n + 1 + i - 1]
    BY <2>1, <2>2, SubSeqProperties
  <2> HIDE DEF V
  <2>4. Len(V) = Len(wire) - n
    BY <2>3, <1>1
  <2>5. ASSUME NEW i \in 1 .. Len(V) PROVE V[i] = wire[n + i]
    <3>1. i \in 1 .. Len(wire) - (n + 1) + 1 /\ n + 1 + i - 1 = n + i
      BY <2>4, <1>1
    <3> QED
      BY <3>1, <2>3
  <2> QED
    BY <2>3, <2>4, <2>5
<1> HIDE DEF V
<1>8. ASSUME NEW i \in 1 .. Len(V) PROVE V[i] # Whole
  <2>1. /\ Len(buffer) + (n + i) \in 1 .. Len(buffer) + Len(wire)
        /\ ~(Len(buffer) + (n + i) <= Len(buffer))
        /\ (Len(buffer) + (n + i)) - Len(buffer) = n + i
    BY <1>1, <1>7
  <2>2. W[Len(buffer) + (n + i)] = wire[n + i]
    BY <2>1, <1>5
  <2> QED
    BY <2>1, <2>2, <1>4, <1>5, <1>7
<1>9. r.rest \in Seq(Lines)
  BY <1>1, <1>3 DEF Readings
<1>10. /\ Len(r.rest \o V) = Len(r.rest) + Len(V)
       /\ \A i \in 1 .. Len(r.rest) + Len(V) :
            (r.rest \o V)[i] = IF i <= Len(r.rest) THEN r.rest[i] ELSE V[i - Len(r.rest)]
  BY <1>7, <1>9, ConcatProperties
<1>11. ASSUME NEW i \in 1 .. Len(r.rest \o V) PROVE (r.rest \o V)[i] # Whole
  <2>1. Len(r.rest) \in Nat /\ Len(V) \in Nat
    BY <1>7, <1>9, LenProperties
  <2>2. CASE i <= Len(r.rest)
    <3>1. i \in 1 .. Len(r.rest)
      BY <2>1, <2>2, <1>10
    <3> QED
      <4>1. r.rest[i] # Whole
        <5> HIDE DEF m
        <5> QED
          BY <3>1, <1>3, <1>6
      <4>2. i \in 1 .. Len(r.rest) + Len(V)
        BY <2>1, <3>1
      <4>3. (r.rest \o V)[i] = r.rest[i]
        BY <4>2, <2>2, <1>10
      <4> QED
        BY <4>1, <4>3
  <2>3. CASE ~(i <= Len(r.rest))
    <3>1. i - Len(r.rest) \in 1 .. Len(V)
      BY <2>1, <2>3, <1>10
    <3> QED
      BY <3>1, <2>3, <1>8, <1>10
  <2> QED
    BY <2>2, <2>3
<1> QED
  BY <1>3, <1>4, <1>6, <1>11 DEF Deafened, V

\* What is heard stays heard while the server is silent, and when it closes without a word.
LEMMA HearsKept ==
  ASSUME NEW R, NEW b, NEW W, Hears(R, b, W), step' = step, answers' = answers,
         fault => fault', stream = "closed" => stream' = "closed"
  PROVE  Hears(R, b, W)'
<1>1. PICK h \in Seq(Nat), lax \in BOOLEAN :
        \E tag : /\ Said(h, lax)
                 /\ \A p \in 1 .. step - 1 : p <= Len(h) /\ h[p] \in S!Wanted[p]
                 /\ Numbered(tag, W, h, lax) /\ UpTo(R, b, h, lax, tag[1])
  BY DEF Hears
<1>2. PICK tag : /\ Said(h, lax)
                 /\ \A p \in 1 .. step - 1 : p <= Len(h) /\ h[p] \in S!Wanted[p]
                 /\ Numbered(tag, W, h, lax) /\ UpTo(R, b, h, lax, tag[1])
  BY <1>1
<1>3. Said(h, lax)'
  <2>1. PICK base \in Seq(Nat) :
          Base(base, lax) /\ (h = base \/ (fault /\ stream = "closed" /\ h = Append(base, 421)))
    BY <1>2 DEF Said
  <2>2. Base(base, lax)'
    BY <2>1 DEF Base, Extra
  <2> QED
    BY <2>1, <2>2, <1>2 DEF Said
<1>4. UpTo(R, b, h, lax, tag[1])'
  BY <1>2 DEF UpTo
<1>5. (\A p \in 1 .. step - 1 : p <= Len(h) /\ h[p] \in S!Wanted[p])'
  BY <1>2 DEF S!Wanted
<1>6. Numbered(tag, W, h, lax)'
  BY <1>2 DEF Numbered, Ends, Stray, S!Malformed, S!Line
<1> QED
  BY <1>3, <1>4, <1>5, <1>6 DEF Hears

\* The adapter takes the reply that it waits for.
LEMMA HearsTakes ==
  ASSUME NEW R \in Seq(Nat), NEW b, NEW W \in Seq(Lines), Hears(R, b, W), R # <<>>, step \in 1 .. 7,
         Head(R) \in S!Wanted[step], step' = step + 1,
         answers' = answers, fault' = fault, stream' = stream
  PROVE  Hears(Tail(R), b, W)'
<1>1. PICK h \in Seq(Nat), lax \in BOOLEAN :
        \E tag : /\ Said(h, lax)
                 /\ \A p \in 1 .. step - 1 : p <= Len(h) /\ h[p] \in S!Wanted[p]
                 /\ Numbered(tag, W, h, lax) /\ UpTo(R, b, h, lax, tag[1])
  BY DEF Hears
<1>2. PICK tag : /\ Said(h, lax)
                 /\ \A p \in 1 .. step - 1 : p <= Len(h) /\ h[p] \in S!Wanted[p]
                 /\ Numbered(tag, W, h, lax) /\ UpTo(R, b, h, lax, tag[1])
  BY <1>1
<1>3. Said(h, lax)'
  BY <1>2 DEF Said, Base, Extra
<1>4. /\ Len(R) \in Nat /\ Len(Tail(R)) = Len(R) - 1 /\ Head(R) = R[1]
      /\ \A i \in 1 .. Len(Tail(R)) : Tail(R)[i] = R[i + 1]
  BY HeadTailProperties
<1>5. Len(R) # 0 /\ Tail(R) \in Seq(Nat)
  BY EmptySeq, HeadTailProperties
<1>6. step + Len(R) = tag[1] /\ Len(h) \in Nat /\ \A j \in 1 .. Len(R) : R[j] = h[step - 1 + j]
  BY <1>2 DEF UpTo
<1>7. tag[1] \in 1 .. Len(h) + 1
  <2>1. tag \in [1 .. Len(W) + 1 -> 1 .. Len(h) + 1] /\ tag[Len(W) + 1] = Len(h) + 1
    BY <1>2 DEF Numbered
  <2>2. 1 \in 1 .. Len(W) + 1
    OBVIOUS
  <2> QED
    BY <2>1, <2>2
<1>8. step <= Len(h) /\ h[step] = Head(R)
  <2>1. step <= Len(h)
    <3>1. \A x, y, z, w \in Nat : x + y = z /\ z <= w + 1 /\ y # 0 => x <= w
      OBVIOUS
    <3>2. tag[1] \in Nat /\ tag[1] <= Len(h) + 1 /\ step \in Nat /\ Len(h) \in Nat
      BY <1>6, <1>7
    <3> QED
      BY <3>1, <3>2, <1>4, <1>5, <1>6
  <2>2. 1 \in 1 .. Len(R) /\ step - 1 + 1 = step
    BY <1>4, <1>5
  <2> QED
    BY <2>1, <2>2, <1>4, <1>6
<1>9. ASSUME NEW p \in 1 .. step' - 1 PROVE p <= Len(h) /\ h[p] \in S!Wanted[p]
  <2>1. p \in 1 .. step - 1 \/ p = step
    OBVIOUS
  <2> QED
    BY <2>1, <1>2, <1>8
<1>10. UpTo(Tail(R), b, h, lax, tag[1])'
  <2>1. step' + Len(Tail(R)) = tag[1]
    BY <1>4, <1>6
  <2>2. ASSUME NEW j \in 1 .. Len(Tail(R)) PROVE Tail(R)[j] = h[step' - 1 + j]
    <3>1. j + 1 \in 1 .. Len(R) /\ step - 1 + (j + 1) = step' - 1 + j
      BY <1>4
    <3> QED
      BY <3>1, <1>4, <1>6
  <2> QED
    BY <2>1, <2>2, <1>2 DEF UpTo
<1>11. Numbered(tag, W, h, lax)'
  BY <1>2 DEF Numbered, Ends, Stray, S!Malformed, S!Line
<1>20. (\A p \in 1 .. step - 1 : p <= Len(h) /\ h[p] \in S!Wanted[p])'
  BY <1>9 DEF S!Wanted
<1>21. \E mu : /\ Said(h, lax)'
                  /\ (\A p \in 1 .. step - 1 : p <= Len(h) /\ h[p] \in S!Wanted[p])'
                  /\ Numbered(mu, W, h, lax)' /\ UpTo(Tail(R), b, h, lax, mu[1])'
  BY <1>3, <1>10, <1>11, <1>20
<1> QED
  BY <1>21 DEF Hears

\* The server answers: what it says next is heard next.
LEMMA HearsAnswer ==
  ASSUME NEW R \in Seq(Nat), NEW b \in Nat, NEW W \in Seq(Lines), Hears(R, b, W),
         SmtpTypes, stream = "up", NEW c \in Nat, c # 0, c # 421, NEW k \in 1 .. 2,
         answers' = Append(answers, c), step' = step, fault' = fault, stream' = stream,
         NEW V, V = W \o ReplyOf(c, k)
  PROVE  Hears(R, b, V)'
<1>1. PICK h \in Seq(Nat), lax \in BOOLEAN :
        \E tag : /\ Said(h, lax)
                 /\ \A p \in 1 .. step - 1 : p <= Len(h) /\ h[p] \in S!Wanted[p]
                 /\ Numbered(tag, W, h, lax) /\ UpTo(R, b, h, lax, tag[1])
  BY DEF Hears
<1>2. PICK tag : /\ Said(h, lax)
                 /\ \A p \in 1 .. step - 1 : p <= Len(h) /\ h[p] \in S!Wanted[p]
                 /\ Numbered(tag, W, h, lax) /\ UpTo(R, b, h, lax, tag[1])
  BY <1>1
<1> DEFINE g == Append(h, c)
<1>3. /\ g \in Seq(Nat) /\ Len(g) = Len(h) + 1 /\ Len(h) \in Nat
      /\ \A i \in 1 .. Len(h) : g[i] = h[i]
      /\ g[Len(h) + 1] = c
  BY AppendProperties
<1>4. /\ answers \in Seq(Nat) /\ Len(answers) \in Nat
      /\ Len(answers') = Len(answers) + 1 /\ answers'[Len(answers) + 1] = c
      /\ \A i \in 1 .. Len(answers) : answers'[i] = answers[i]
  <2>1. answers \in Seq(Nat)
    BY DEF SmtpTypes
  <2> QED
    BY <2>1, AppendProperties
<1>5. PICK tau : /\ Numbered(tau, V, g, lax)
                 /\ UpTo(R, b, g, lax, tau[1])
  <2>1. step \in Nat \ {0}
    BY DEF SmtpTypes
  <2> QED
    BY <2>1, <1>2, HearsReply
<1>6. Base(h, lax) /\ (lax => fault)
  BY <1>2 DEF Said
<1> HIDE DEF g
<1>7. Base(g, lax)'
  <2>1. CASE h = answers
    <3>1. g = answers'
      BY <2>1 DEF g
    <3> QED
      BY <3>1 DEF Base
  <2>2. CASE fault /\ ~lax /\ \E s \in 1 .. Len(answers) + 1 : Extra(h, s)
    <3>1. PICK s \in 1 .. Len(answers) + 1 : Extra(h, s)
      BY <2>2
    <3>2. /\ Len(h) = Len(answers) + 1
          /\ \A i \in 1 .. Len(answers) + 1 :
               h[i] = IF i < s THEN answers[i] ELSE IF i = s THEN 250 ELSE answers[i - 1]
      BY <3>1 DEF Extra
    <3>3. Len(g) = Len(answers') + 1
      BY <3>2, <1>3, <1>4
    <3>4. ASSUME NEW i \in 1 .. Len(answers') + 1
          PROVE  g[i] = IF i < s THEN answers'[i] ELSE IF i = s THEN 250 ELSE answers'[i - 1]
      <4>1. CASE i \in 1 .. Len(answers) + 1
        <5>1. g[i] = h[i]
          BY <4>1, <3>2, <1>3
        <5>2. i < s => i \in 1 .. Len(answers)
          BY <4>1, <1>4
        <5>3. ~(i < s) /\ i # s => i - 1 \in 1 .. Len(answers)
          BY <4>1, <1>4
        <5> QED
          BY <4>1, <5>1, <5>2, <5>3, <3>2, <1>4
      <4>2. CASE i \notin 1 .. Len(answers) + 1
        <5>1. i = Len(answers) + 2 /\ ~(i < s) /\ i # s /\ i - 1 = Len(answers) + 1
              /\ i = Len(h) + 1
          BY <4>2, <3>2, <1>4
        <5> QED
          BY <5>1, <1>3, <1>4
      <4> QED
        BY <4>1, <4>2
    <3>5. s \in 1 .. Len(answers') + 1
      BY <1>4
    <3> QED
      BY <2>2, <3>3, <3>4, <3>5 DEF Base, Extra
  <2> QED
    BY <2>1, <2>2, <1>6 DEF Base
<1>8. Said(g, lax)'
  BY <1>3, <1>6, <1>7 DEF Said
<1>9. ASSUME NEW p \in 1 .. step' - 1 PROVE p <= Len(g) /\ g[p] \in S!Wanted[p]
  <2>1. p <= Len(h) /\ h[p] \in S!Wanted[p]
    BY <1>2
  <2> QED
    BY <2>1, <1>3
<1>10. UpTo(R, b, g, lax, tau[1])'
  BY <1>5 DEF UpTo
<1>11. Numbered(tau, V, g, lax)'
  BY <1>5 DEF Numbered, Ends, Stray, S!Malformed, S!Line
<1>20. (\A p \in 1 .. step - 1 : p <= Len(g) /\ g[p] \in S!Wanted[p])'
  BY <1>9 DEF S!Wanted
<1>21. \E mu : /\ Said(g, lax)'
                  /\ (\A p \in 1 .. step - 1 : p <= Len(g) /\ g[p] \in S!Wanted[p])'
                  /\ Numbered(mu, V, g, lax)' /\ UpTo(R, b, g, lax, mu[1])'
  BY <1>8, <1>10, <1>11, <1>20
<1>22. g \in Seq(Nat)
  BY <1>3
<1> QED
  BY <1>21, <1>22 DEF Hears

\* The server says that it closes, while answers are due.
LEMMA HearsFarewell ==
  ASSUME NEW R \in Seq(Nat), NEW b \in Nat, NEW W \in Seq(Lines), Hears(R, b, W),
         SmtpTypes, stream = "up", answers' = answers, step' = step,
         fault' = TRUE, stream' = "closed",
         NEW V, V = W \o ReplyOf(421, 1)
  PROVE  Hears(R, b, V)'
<1>1. PICK h \in Seq(Nat), lax \in BOOLEAN :
        \E tag : /\ Said(h, lax)
                 /\ \A p \in 1 .. step - 1 : p <= Len(h) /\ h[p] \in S!Wanted[p]
                 /\ Numbered(tag, W, h, lax) /\ UpTo(R, b, h, lax, tag[1])
  BY DEF Hears
<1>2. PICK tag : /\ Said(h, lax)
                 /\ \A p \in 1 .. step - 1 : p <= Len(h) /\ h[p] \in S!Wanted[p]
                 /\ Numbered(tag, W, h, lax) /\ UpTo(R, b, h, lax, tag[1])
  BY <1>1
<1> DEFINE g == Append(h, 421)
<1>3. /\ g \in Seq(Nat) /\ Len(g) = Len(h) + 1 /\ Len(h) \in Nat
      /\ \A i \in 1 .. Len(h) : g[i] = h[i]
  BY AppendProperties
<1>4. PICK tau : Numbered(tau, V, g, lax) /\ UpTo(R, b, g, lax, tau[1])
  <2>1. step \in Nat \ {0}
    BY DEF SmtpTypes
  <2> QED
    BY <2>1, <1>2, HearsReply
<1>5. Base(h, lax)
  BY <1>2 DEF Said
<1>6. Base(h, lax)'
  BY <1>5 DEF Base, Extra
<1>7. Said(g, lax)'
  BY <1>6 DEF Said
<1> HIDE DEF g
<1>8. ASSUME NEW p \in 1 .. step' - 1 PROVE p <= Len(g) /\ g[p] \in S!Wanted[p]
  <2>1. p <= Len(h) /\ h[p] \in S!Wanted[p]
    BY <1>2
  <2> QED
    BY <2>1, <1>3
<1>9. UpTo(R, b, g, lax, tau[1])'
  BY <1>4 DEF UpTo
<1>10. Numbered(tau, V, g, lax)'
  BY <1>4 DEF Numbered, Ends, Stray, S!Malformed, S!Line
<1>20. (\A p \in 1 .. step - 1 : p <= Len(g) /\ g[p] \in S!Wanted[p])'
  BY <1>8 DEF S!Wanted
<1>21. \E mu : /\ Said(g, lax)'
                  /\ (\A p \in 1 .. step - 1 : p <= Len(g) /\ g[p] \in S!Wanted[p])'
                  /\ Numbered(mu, V, g, lax)' /\ UpTo(R, b, g, lax, mu[1])'
  BY <1>7, <1>9, <1>10, <1>20
<1>22. g \in Seq(Nat)
  BY <1>3
<1> QED
  BY <1>21, <1>22 DEF Hears

\* A whole stray reply comes: it may be taken for the answer to the next command.
LEMMA HearsExtra ==
  ASSUME NEW R \in Seq(Nat), NEW b \in Nat, NEW W \in Seq(Lines), Hears(R, b, W),
         SmtpTypes, stream = "up", ~fault, answers' = answers, step' = step,
         fault' = TRUE, stream' = stream,
         NEW V, V = W \o ReplyOf(250, 1)
  PROVE  Hears(R, b, V)'
<1>1. PICK h \in Seq(Nat), lax \in BOOLEAN :
        \E tag : /\ Said(h, lax)
                 /\ \A p \in 1 .. step - 1 : p <= Len(h) /\ h[p] \in S!Wanted[p]
                 /\ Numbered(tag, W, h, lax) /\ UpTo(R, b, h, lax, tag[1])
  BY DEF Hears
<1>2. PICK tag : /\ Said(h, lax)
                 /\ \A p \in 1 .. step - 1 : p <= Len(h) /\ h[p] \in S!Wanted[p]
                 /\ Numbered(tag, W, h, lax) /\ UpTo(R, b, h, lax, tag[1])
  BY <1>1
<1> DEFINE g == Append(h, 250)
<1>3. /\ g \in Seq(Nat) /\ Len(g) = Len(h) + 1 /\ Len(h) \in Nat
      /\ \A i \in 1 .. Len(h) : g[i] = h[i]
      /\ g[Len(h) + 1] = 250
  BY AppendProperties
<1>4. PICK tau : Numbered(tau, V, g, lax) /\ UpTo(R, b, g, lax, tau[1])
  <2>1. step \in Nat \ {0}
    BY DEF SmtpTypes
  <2> QED
    BY <2>1, <1>2, HearsReply
<1>5. h = answers /\ ~lax
  BY <1>2 DEF Said, Base
<1> HIDE DEF g
<1>6. Extra(g, Len(answers) + 1)'
  <2> SUFFICES ASSUME NEW i \in 1 .. Len(answers) + 1
               PROVE  g[i] = IF i < Len(answers) + 1 THEN answers[i]
                             ELSE IF i = Len(answers) + 1 THEN 250 ELSE answers[i - 1]
    BY <1>3, <1>5 DEF Extra
  <2>1. CASE i \in 1 .. Len(h)
    <3>1. g[i] = answers[i] /\ i < Len(answers) + 1
      BY <2>1, <1>3, <1>5
    <3> QED
      BY <3>1
  <2>2. CASE i \notin 1 .. Len(h)
    <3>1. i = Len(answers) + 1
      BY <2>2, <1>3, <1>5
    <3> QED
      BY <3>1, <1>3, <1>5
  <2> QED
    BY <2>1, <2>2
<1>7. Said(g, lax)'
  <2>1. Len(answers) + 1 \in 1 .. Len(answers) + 1
    BY <1>3, <1>5
  <2>2. Base(g, lax)'
    BY <2>1, <1>5, <1>6 DEF Base
  <2> QED
    BY <2>2, <1>3, <1>5 DEF Said
<1>8. ASSUME NEW p \in 1 .. step' - 1 PROVE p <= Len(g) /\ g[p] \in S!Wanted[p]
  <2>1. p <= Len(h) /\ h[p] \in S!Wanted[p]
    BY <1>2
  <2> QED
    BY <2>1, <1>3
<1>9. UpTo(R, b, g, lax, tau[1])'
  BY <1>4 DEF UpTo
<1>10. Numbered(tau, V, g, lax)'
  BY <1>4 DEF Numbered, Ends, Stray, S!Malformed, S!Line
<1>20. (\A p \in 1 .. step - 1 : p <= Len(g) /\ g[p] \in S!Wanted[p])'
  BY <1>8 DEF S!Wanted
<1>21. \E mu : /\ Said(g, lax)'
                  /\ (\A p \in 1 .. step - 1 : p <= Len(g) /\ g[p] \in S!Wanted[p])'
                  /\ Numbered(mu, V, g, lax)' /\ UpTo(R, b, g, lax, mu[1])'
  BY <1>7, <1>9, <1>10, <1>20
<1>22. g \in Seq(Nat)
  BY <1>3
<1> QED
  BY <1>21, <1>22 DEF Hears

\* A line comes that is no reply, or the begin of one.
LEMMA HearsStray ==
  ASSUME NEW R \in Seq(Nat), NEW b \in Nat, NEW W \in Seq(Lines), Hears(R, b, W),
         SmtpTypes, stream = "up", ~fault, answers' = answers, step' = step,
         fault' = TRUE, stream' = stream,
         NEW line \in Lines, Stray(line), NEW V, V = Append(W, line)
  PROVE  Hears(R, b, V)'
<1>1. PICK h \in Seq(Nat), lax \in BOOLEAN :
        \E tag : /\ Said(h, lax)
                 /\ \A p \in 1 .. step - 1 : p <= Len(h) /\ h[p] \in S!Wanted[p]
                 /\ Numbered(tag, W, h, lax) /\ UpTo(R, b, h, lax, tag[1])
  BY DEF Hears
<1>2. PICK tag : /\ Said(h, lax)
                 /\ \A p \in 1 .. step - 1 : p <= Len(h) /\ h[p] \in S!Wanted[p]
                 /\ Numbered(tag, W, h, lax) /\ UpTo(R, b, h, lax, tag[1])
  BY <1>1
<1>3. PICK lox \in BOOLEAN : lox
  OBVIOUS
<1>4. PICK tau : Numbered(tau, V, h, lox) /\ tau[1] = tag[1]
  <2>1. Numbered(tag, W, h, lax)
    BY <1>2
  <2>3. Allowed(line, lox)
    BY <1>3 DEF Allowed
  <2>2. \E tau : Numbered(tau, Append(W, line), h, lox) /\ tau[1] = tag[1]
    BY <2>1, <2>3, NumberedStray
  <2> QED
    BY <2>2
<1>5. h = answers /\ ~lax
  BY <1>2 DEF Said, Base
<1>6. Said(h, lox)'
  BY <1>5 DEF Said, Base
<1>7. UpTo(R, b, h, lox, tau[1])'
  BY <1>2, <1>3, <1>4 DEF UpTo
<1>8. ASSUME NEW p \in 1 .. step' - 1 PROVE p <= Len(h) /\ h[p] \in S!Wanted[p]
  BY <1>2
<1>9. Numbered(tau, V, h, lox)'
  BY <1>4 DEF Numbered, Ends, Stray, S!Malformed, S!Line
<1>20. (\A p \in 1 .. step - 1 : p <= Len(h) /\ h[p] \in S!Wanted[p])'
  BY <1>8 DEF S!Wanted
<1>21. \E mu : /\ Said(h, lox)'
                  /\ (\A p \in 1 .. step - 1 : p <= Len(h) /\ h[p] \in S!Wanted[p])'
                  /\ Numbered(mu, V, h, lox)' /\ UpTo(R, b, h, lox, mu[1])'
  BY <1>6, <1>7, <1>9, <1>20
<1> QED
  BY <1>21 DEF Hears

LEMMA WantedAre ==
  /\ Len(S!Wanted) = 7
  /\ S!Wanted[1] = {220} /\ S!Wanted[2] = {250} /\ S!Wanted[3] = {250}
  /\ S!Wanted[4] = {250, 251} /\ S!Wanted[5] = {354} /\ S!Wanted[6] = {250} /\ S!Wanted[7] = {221}
<1>1. Len(S!Wanted) = 7
  BY DEF S!Wanted
<1> QED
  BY <1>1 DEF S!Wanted

(* The invariant: the answers are in order and allowed, and what the       *)
(* server took over and how far the adapter has come agree with them;      *)
SmtpOrder ==
  /\ Len(answers) <= step
  /\ \A i \in 1 .. Len(answers) : answers[i] \in S!Wanted[i] \cup S!Refusals
  /\ accepted <=> Len(answers) >= 6 /\ answers[6] = 250
  /\ step >= 6 => Len(answers) >= 5 /\ \A i \in 1 .. 5 : answers[i] \in S!Wanted[i]

(* a connection that nothing happened to is silent only when the farewell  *)
(* was answered;                                                           *)
SmtpActive == smtpPc \in {"connect", "write", "next"}
SmtpQuiet ==
  /\ smtpPc = "connect" => step = 1 /\ answers = <<>> /\ ~fault /\ ~broken /\ stream = "up"
                             /\ replies = <<>>
  /\ smtpPc = "next" => replies = <<>> /\ ~broken
  /\ SmtpActive => stream # "down" /\ (broken \/ buffer = <<>>)
  /\ SmtpActive /\ ~fault => /\ stream = "closed" => Len(answers) = 7
                             /\ broken => stream = "closed" /\ buffer = <<>> /\ wire = <<>>

(* the verdict rests on answers, or on a fault;                            *)
SmtpOutcome ==
  /\ smtpPc = "sent" => Len(answers) = 7 /\ \A i \in 1 .. 7 : answers[i] \in S!Wanted[i]
  /\ smtpPc = "permanent" /\ headers => \E i \in 1 .. Len(answers) : answers[i] >= 500
  /\ smtpPc = "temporary" =>
       fault \/ \E i \in 1 .. Len(answers) : answers[i] \notin S!Wanted[i] /\ answers[i] < 500

(* and until then the adapter hears what the server said, or is stuck      *)
(* with a write to come.                                                   *)
SmtpHears ==
  SmtpActive =>
    \E R \in Seq(Nat), b \in Nat, W \in Seq(Lines) :
      /\ R = replies /\ b = begun /\ W = buffer \o wire
      /\ Hears(R, b, W) \/ (broken /\ smtpPc = "write" /\ Deafened(R, b, W))
SmtpInv == SmtpTypes /\ SmtpOrder /\ SmtpQuiet /\ SmtpOutcome /\ SmtpHears

LEMMA SmtpVerdict == SmtpInv => VerdictIsTheServers
<1> SUFFICES ASSUME SmtpInv PROVE S!VerdictIsTheServers
  BY DEF VerdictIsTheServers
<1>1. /\ answers \in Seq(Nat) /\ Len(answers) \in Nat /\ DOMAIN answers = 1 .. Len(answers)
  BY DEF SmtpInv, SmtpTypes
<1>2. CASE smtpPc = "sent"
  <2>1. Len(answers) = 7 /\ \A i \in 1 .. 7 : answers[i] \in S!Wanted[i]
    BY <1>2 DEF SmtpInv, SmtpOutcome
  <2>2. accepted
    BY <2>1, WantedAre DEF SmtpInv, SmtpOrder
  <2> QED
    BY <1>1, <1>2, <2>1, <2>2, WantedAre DEF S!VerdictIsTheServers, S!Pleased
<1>3. CASE smtpPc = "permanent"
  <2>1. SUFFICES ASSUME headers
                 PROVE  \E i \in DOMAIN answers : answers[i] >= 500 /\ (accepted => i > 6)
    BY <1>3 DEF S!VerdictIsTheServers, S!Message
  <2>2. PICK i \in 1 .. Len(answers) : answers[i] >= 500
    BY <1>3, <2>1 DEF SmtpInv, SmtpOutcome
  <2>3. ASSUME accepted PROVE i > 6
    <3>1. Len(answers) >= 6 /\ answers[6] = 250 /\ step >= 6
      BY <2>3, <1>1 DEF SmtpInv, SmtpOrder, SmtpTypes
    <3>2. \A k \in 1 .. 5 : answers[k] \in S!Wanted[k]
      BY <3>1 DEF SmtpInv, SmtpOrder
    <3>3. i # 1 /\ i # 2 /\ i # 3 /\ i # 4 /\ i # 5 /\ i # 6
      BY <2>2, <3>1, <3>2, WantedAre
    <3> QED
      BY <3>3, <1>1
  <2> QED
    BY <2>2, <2>3, <1>1
<1>4. CASE smtpPc = "temporary"
  BY <1>1, <1>4 DEF SmtpInv, SmtpOutcome, S!VerdictIsTheServers, S!Pleased
<1> QED
  BY <1>2, <1>3, <1>4 DEF S!VerdictIsTheServers

\* What refuses a command is an answer of the server.
LEMMA SaidIsAnswer ==
  ASSUME SmtpTypes, NEW h \in Seq(Nat), NEW lax, Said(h, lax),
         NEW p \in 1 .. Len(h), h[p] # 250, h[p] # 421
  PROVE  \E i \in 1 .. Len(answers) : answers[i] = h[p]
<1>1. answers \in Seq(Nat) /\ Len(answers) \in Nat /\ Len(h) \in Nat
  BY DEF SmtpTypes
<1>2. PICK base \in Seq(Nat) :
        Base(base, lax) /\ (h = base \/ (fault /\ stream = "closed" /\ h = Append(base, 421)))
  BY DEF Said
<1>3. Len(base) \in Nat
  OBVIOUS
<1>4. p \in 1 .. Len(base) /\ h[p] = base[p]
  <2>1. CASE h = base
    BY <2>1
  <2>2. CASE h = Append(base, 421)
    <3>1. /\ Len(h) = Len(base) + 1 /\ h[Len(base) + 1] = 421
          /\ \A i \in 1 .. Len(base) : h[i] = base[i]
      BY <2>2, AppendProperties
    <3>2. p # Len(base) + 1
      BY <3>1
    <3>3. p \in 1 .. Len(base)
      BY <3>1, <3>2, <1>3
    <3> QED
      BY <3>1, <3>3
  <2> QED
    BY <2>1, <2>2, <1>2
<1>5. CASE base = answers
  BY <1>4, <1>5
<1>6. CASE \E s \in 1 .. Len(answers) + 1 : Extra(base, s)
  <2>1. PICK s \in 1 .. Len(answers) + 1 : Extra(base, s)
    BY <1>6
  <2>2. /\ Len(base) = Len(answers) + 1
        /\ base[p] = IF p < s THEN answers[p] ELSE IF p = s THEN 250 ELSE answers[p - 1]
    BY <2>1, <1>4 DEF Extra
  <2>3. CASE p < s
    <3>1. p \in 1 .. Len(answers)
      BY <2>3, <1>1
    <3> QED
      BY <3>1, <2>2, <2>3, <1>4
  <2>4. CASE ~(p < s)
    <3>1. p # s
      BY <2>2, <2>4, <1>4
    <3>2. p - 1 \in 1 .. Len(answers)
      BY <2>2, <2>4, <3>1, <1>1, <1>4
    <3> QED
      BY <3>1, <3>2, <2>2, <2>4, <1>4
  <2> QED
    BY <2>3, <2>4
<1> QED
  BY <1>2, <1>5, <1>6 DEF Base

\* What was said is the answers up to a line put in, or throughout.
Placed(h, n) ==
  \/ n <= Len(answers) /\ \A i \in 1 .. n : h[i] = answers[i]
  \/ \E s \in 1 .. n : /\ n <= Len(answers) + 1 /\ h[s] = 250
                       /\ \A i \in 1 .. n : i > s => h[i] = answers[i - 1]
LEMMA SaidIs ==
  ASSUME SmtpTypes, NEW h \in Seq(Nat), NEW lax, Said(h, lax),
         NEW n \in 1 .. Len(h), h[n] # 421
  PROVE  Placed(h, n)
<1>1. answers \in Seq(Nat) /\ Len(answers) \in Nat /\ Len(h) \in Nat
  BY DEF SmtpTypes
<1>2. PICK base \in Seq(Nat) :
        Base(base, lax) /\ (h = base \/ (fault /\ stream = "closed" /\ h = Append(base, 421)))
  BY DEF Said
<1>3. Len(base) \in Nat
  OBVIOUS
<1>4. n \in 1 .. Len(base) /\ \A i \in 1 .. n : h[i] = base[i]
  <2>1. CASE h = base
    BY <2>1
  <2>2. CASE h = Append(base, 421)
    <3>1. /\ Len(h) = Len(base) + 1 /\ h[Len(base) + 1] = 421
          /\ \A i \in 1 .. Len(base) : h[i] = base[i]
      BY <2>2, AppendProperties
    <3>2. n # Len(base) + 1
      BY <3>1
    <3>3. n \in 1 .. Len(base)
      BY <3>1, <3>2, <1>3
    <3> QED
      BY <3>1, <3>3, <1>3
  <2> QED
    BY <2>1, <2>2, <1>2
<1>5. CASE base = answers
  BY <1>1, <1>4, <1>5 DEF Placed
<1>6. CASE \E s \in 1 .. Len(answers) + 1 : Extra(base, s)
  <2>1. PICK s \in 1 .. Len(answers) + 1 : Extra(base, s)
    BY <1>6
  <2>2. /\ Len(base) = Len(answers) + 1
        /\ \A i \in 1 .. Len(answers) + 1 :
             base[i] = IF i < s THEN answers[i] ELSE IF i = s THEN 250 ELSE answers[i - 1]
    BY <2>1 DEF Extra
  <2>3. \A i \in 1 .. n : i \in 1 .. Len(answers) + 1
    BY <2>2, <1>1, <1>4
  <2>4. CASE n < s
    <3>1. n <= Len(answers)
      BY <2>4, <1>1
    <3>2. ASSUME NEW i \in 1 .. n PROVE h[i] = answers[i]
      <4>1. i < s
        BY <2>4
      <4> QED
        BY <4>1, <2>2, <2>3, <1>4
    <3> QED
      BY <3>1, <3>2 DEF Placed
  <2>5. CASE ~(n < s)
    <3>1. s \in 1 .. n /\ n <= Len(answers) + 1
      BY <2>2, <2>5, <1>4, <1>1
    <3>2. h[s] = 250
      BY <3>1, <2>2, <2>3, <1>4
    <3>3. ASSUME NEW i \in 1 .. n, i > s PROVE h[i] = answers[i - 1]
      <4>1. ~(i < s) /\ i # s
        BY <3>3
      <4> QED
        BY <4>1, <2>2, <2>3, <1>4
    <3> QED
      BY <3>1, <3>2, <3>3 DEF Placed
  <2> QED
    BY <2>4, <2>5
<1> QED
  BY <1>2, <1>5, <1>6 DEF Base

\* That the text is asked for says that the server took what came before.
LEMMA TextIsAskedFor ==
  ASSUME SmtpTypes, SmtpOrder, step = 5, NEW h \in Seq(Nat), NEW lax, Said(h, lax),
         \A p \in 1 .. 5 : p <= Len(h) /\ h[p] \in S!Wanted[p]
  PROVE  Len(answers) >= 5 /\ \A i \in 1 .. 5 : answers[i] \in S!Wanted[i]
<1>1. answers \in Seq(Nat) /\ Len(answers) \in Nat /\ Len(h) \in Nat
  BY DEF SmtpTypes
<1>2. 5 \in 1 .. Len(h) /\ h[5] = 354
  BY <1>1, WantedAre
<1>3. CASE 5 <= Len(answers) /\ \A i \in 1 .. 5 : h[i] = answers[i]
  BY <1>3, <1>1
<1>4. ASSUME NEW s \in 1 .. 5, 5 <= Len(answers) + 1, h[s] = 250,
             \A i \in 1 .. 5 : i > s => h[i] = answers[i - 1]
      PROVE  FALSE
  <2>1. s # 5
    BY <1>2, <1>4
  <2>2. answers[4] = 354
    BY <2>1, <1>2, <1>4
  <2>3. 4 \in 1 .. Len(answers)
    BY <1>1, <1>4
  <2>4. answers[4] \in S!Wanted[4] \cup S!Refusals
    BY <2>3 DEF SmtpOrder
  <2> QED
    BY <2>2, <2>4, WantedAre DEF S!Refusals
<1>5. 354 # 421
  OBVIOUS
<1>6. Placed(h, 5)
  BY <1>2, <1>5, SaidIs
<1> QED
  BY <1>3, <1>4, <1>6 DEF Placed

\* That the farewell is answered says that all was taken.
LEMMA FarewellIsAnswered ==
  ASSUME SmtpTypes, SmtpOrder, step = 7, NEW h \in Seq(Nat), NEW lax, Said(h, lax),
         \A p \in 1 .. 7 : p <= Len(h) /\ h[p] \in S!Wanted[p]
  PROVE  Len(answers) = 7 /\ \A i \in 1 .. 7 : answers[i] \in S!Wanted[i]
<1>1. answers \in Seq(Nat) /\ Len(answers) \in Nat /\ Len(h) \in Nat /\ Len(answers) <= 7
  <2>1. answers \in Seq(Nat) /\ Len(answers) \in Nat
    BY DEF SmtpTypes
  <2>2. Len(answers) <= 7
    BY DEF SmtpOrder
  <2> QED
    BY <2>1, <2>2
<1>2. 7 \in 1 .. Len(h) /\ h[7] = 221
  BY <1>1, WantedAre
<1>3. CASE 7 <= Len(answers) /\ \A i \in 1 .. 7 : h[i] = answers[i]
  <2>0. \A x \in Nat : 7 <= x /\ x <= 7 => x = 7
    OBVIOUS
  <2>3. 7 <= Len(answers) /\ Len(answers) <= 7 /\ Len(answers) \in Nat
    BY <1>3, <1>1
  <2>1. Len(answers) = 7
    BY <2>0, <2>3
  <2>2. ASSUME NEW i \in 1 .. 7 PROVE answers[i] \in S!Wanted[i]
    BY <1>3
  <2> QED
    BY <2>1, <2>2
<1>4. ASSUME NEW s \in 1 .. 7, 7 <= Len(answers) + 1, h[s] = 250,
             \A i \in 1 .. 7 : i > s => h[i] = answers[i - 1]
      PROVE  FALSE
  <2>1. s # 7
    BY <1>2, <1>4
  <2>2. answers[6] = 221
    BY <2>1, <1>2, <1>4
  <2>3. 6 \in 1 .. Len(answers)
    BY <1>1, <1>4
  <2>4. answers[6] \in S!Wanted[6] \cup S!Refusals
    BY <2>3 DEF SmtpOrder
  <2> QED
    BY <2>2, <2>4, WantedAre DEF S!Refusals
<1>5. Placed(h, 7)
  <2>1. 221 # 421
    OBVIOUS
  <2> QED
    BY <2>1, <1>2, SaidIs
<1> QED
  BY <1>3, <1>4, <1>5 DEF Placed

\* The adapter takes a reply: it goes on, or has its verdict.
LEMMA ReplyIsTaken ==
  ASSUME SmtpTypes, SmtpOrder, NEW R \in Seq(Nat), NEW b, NEW W \in Seq(Lines), Hears(R, b, W),
         R # <<>>, S!Proceed(Head(R)),
         answers' = answers, fault' = fault, stream' = stream, accepted' = accepted
  PROVE  /\ step' \in 1 .. 7 /\ smtpPc' \in {"write", "sent", "temporary", "permanent"}
         /\ smtpPc' = "write" => Hears(Tail(R), b, W)'
         /\ SmtpOrder' /\ SmtpOutcome'
<1>1. PICK h \in Seq(Nat), lax \in BOOLEAN :
        \E tag : /\ Said(h, lax)
                 /\ \A p \in 1 .. step - 1 : p <= Len(h) /\ h[p] \in S!Wanted[p]
                 /\ Numbered(tag, W, h, lax) /\ UpTo(R, b, h, lax, tag[1])
  BY DEF Hears
<1>2. PICK tag : /\ Said(h, lax)
                 /\ \A p \in 1 .. step - 1 : p <= Len(h) /\ h[p] \in S!Wanted[p]
                 /\ Numbered(tag, W, h, lax) /\ UpTo(R, b, h, lax, tag[1])
  BY <1>1
<1>3. step \in 1 .. Len(h) /\ h[step] = Head(R)
  <2>1. 1 \in 1 .. Len(W) + 1
    OBVIOUS
  <2>2. tag[1] \in 1 .. Len(h) + 1
    BY <2>1, <1>2 DEF Numbered
  <2>3. step + Len(R) = tag[1] /\ \A j \in 1 .. Len(R) : R[j] = h[step - 1 + j]
    BY <1>2 DEF UpTo
  <2>4. Len(R) \in Nat /\ Len(R) # 0 /\ Head(R) = R[1]
    BY EmptySeq
  <2>5. step \in 1 .. 7
    BY DEF SmtpTypes
  <2>6. step \in 1 .. Len(h)
    <3>1. \A x, y, z, w \in Nat : x + y = z /\ z <= w + 1 /\ y # 0 => x <= w
      OBVIOUS
    <3>2. tag[1] \in Nat /\ tag[1] <= Len(h) + 1 /\ step \in Nat /\ Len(h) \in Nat
      BY <2>2, <2>5
    <3> QED
      BY <3>1, <3>2, <2>3, <2>4, <2>5
  <2>7. 1 \in 1 .. Len(R) /\ step - 1 + 1 = step
    BY <2>4, <2>5
  <2> QED
    BY <2>3, <2>4, <2>6, <2>7
<1> DEFINE code == Head(R)
<1>4. /\ code \in Nat /\ step \in 1 .. 7 /\ answers \in Seq(Nat)
  BY HeadTailProperties DEF SmtpTypes
<1>5. \/ /\ code \in S!Wanted[step] /\ step < 7
         /\ smtpPc' = "write" /\ step' = step + 1
      \/ /\ ~(code \in S!Wanted[step] /\ step < 7)
         /\ smtpPc' = IF code \in S!Wanted[step] THEN "sent"
                      ELSE IF code >= 500 THEN "permanent" ELSE "temporary"
         /\ step' = step
  BY WantedAre DEF S!Proceed
<1> HIDE DEF code
<1>6. SmtpOrder'
  <2>1. /\ Len(answers) <= step
        /\ accepted <=> Len(answers) >= 6 /\ answers[6] = 250
        /\ \A i \in 1 .. Len(answers) : answers[i] \in S!Wanted[i] \cup S!Refusals
    BY DEF SmtpOrder
  <2>2. Len(answers) <= step'
    BY <2>1, <1>4, <1>5
  <2>3. ASSUME step' >= 6
        PROVE  Len(answers) >= 5 /\ \A i \in 1 .. 5 : answers[i] \in S!Wanted[i]
    <3>1. CASE step >= 6
      BY <3>1 DEF SmtpOrder
    <3>2. CASE ~(step >= 6)
      <4>1. step = 5 /\ code \in S!Wanted[step]
        BY <3>2, <2>3, <1>4, <1>5
      <4>2. \A p \in 1 .. 5 : p <= Len(h) /\ h[p] \in S!Wanted[p]
        <5> SUFFICES ASSUME NEW p \in 1 .. 5 PROVE p <= Len(h) /\ h[p] \in S!Wanted[p]
          OBVIOUS
        <5>1. CASE p \in 1 .. step - 1
          BY <5>1, <1>2
        <5>2. CASE p = step
          BY <5>2, <4>1, <1>3 DEF code
        <5> QED
          BY <5>1, <5>2, <4>1
      <4>3. Said(h, lax)
        BY <1>2
      <4> QED
        BY <4>1, <4>2, <4>3, TextIsAskedFor
    <3> QED
      BY <3>1, <3>2
  <2>4. S!Wanted' = S!Wanted /\ S!Refusals' = S!Refusals
    BY DEF S!Wanted, S!Refusals
  <2> QED
    BY <2>1, <2>2, <2>3, <2>4 DEF SmtpOrder
<1>7. SmtpOutcome'
  <2>0. S!Wanted' = S!Wanted
    BY DEF S!Wanted
  <2>1. CASE code \in S!Wanted[step] /\ step < 7
    <3>1. smtpPc' = "write"
      BY <2>1, <1>5
    <3> QED
      BY <3>1 DEF SmtpOutcome
  <2>2. CASE code \in S!Wanted[step] /\ ~(step < 7)
    <3>1. smtpPc' = "sent" /\ step = 7
      BY <2>2, <1>4, <1>5
    <3>2. \A p \in 1 .. 7 : p <= Len(h) /\ h[p] \in S!Wanted[p]
      <4> SUFFICES ASSUME NEW p \in 1 .. 7 PROVE p <= Len(h) /\ h[p] \in S!Wanted[p]
        OBVIOUS
      <4>1. CASE p \in 1 .. step - 1
        BY <4>1, <1>2
      <4>2. CASE p = step
        BY <4>2, <2>2, <1>3 DEF code
      <4> QED
        BY <4>1, <4>2, <3>1
    <3>3. Said(h, lax)
      BY <1>2
    <3>4. Len(answers) = 7 /\ \A i \in 1 .. 7 : answers[i] \in S!Wanted[i]
      BY <3>1, <3>2, <3>3, FarewellIsAnswered
    <3> QED
      BY <3>1, <3>4, <2>0 DEF SmtpOutcome
  <2>3. CASE code \notin S!Wanted[step] /\ code >= 500
    <3>1. smtpPc' = "permanent"
      BY <2>3, <1>5
    <3>2. h[step] # 250 /\ h[step] # 421 /\ Said(h, lax)
      BY <2>3, <1>2, <1>3, <1>4 DEF code
    <3>3. \E i \in 1 .. Len(answers) : answers[i] = h[step]
      BY <3>2, <1>3, SaidIsAnswer
    <3>4. \E i \in 1 .. Len(answers) : answers[i] >= 500
      BY <3>3, <2>3, <1>3 DEF code
    <3> QED
      BY <3>1, <3>4 DEF SmtpOutcome
  <2>4. CASE code \notin S!Wanted[step] /\ ~(code >= 500)
    <3>1. smtpPc' = "temporary"
      BY <2>4, <1>5
    <3>2. ASSUME ~fault
          PROVE  \E i \in 1 .. Len(answers) : answers[i] \notin S!Wanted[i] /\ answers[i] < 500
      <4>1. h = answers
        BY <3>2, <1>2 DEF Said, Base
      <4>2. step \in 1 .. Len(answers) /\ answers[step] = code
        BY <4>1, <1>3 DEF code
      <4>3. code < 500
        BY <2>4, <1>4
      <4> QED
        BY <4>2, <4>3, <2>4
    <3> QED
      BY <3>1, <3>2, <2>0 DEF SmtpOutcome
  <2> QED
    BY <2>1, <2>2, <2>3, <2>4
<1>8. ASSUME smtpPc' = "write" PROVE Hears(Tail(R), b, W)'
  <2>1. code \in S!Wanted[step] /\ step' = step + 1
    BY <1>5, <1>8
  <2> QED
    BY <2>1, <1>4, HearsTakes DEF code
<1>9. step' \in 1 .. 7 /\ smtpPc' \in {"write", "sent", "temporary", "permanent"}
  BY <1>4, <1>5
<1> QED
  BY <1>6, <1>7, <1>8, <1>9

\* A step of the connection that the verdict does not hang on.
LEMMA OutcomeKept ==
  ASSUME SmtpInv, smtpPc' = smtpPc, answers' = answers, headers' = headers, fault => fault'
  PROVE  SmtpOutcome'
<1>1. S!Wanted' = S!Wanted
  BY DEF S!Wanted
<1> QED
  BY <1>1 DEF SmtpInv, SmtpOutcome

LEMMA OrderKept ==
  ASSUME SmtpInv, step' = step, answers' = answers, accepted' = accepted
  PROVE  SmtpOrder'
<1>1. S!Wanted' = S!Wanted /\ S!Refusals' = S!Refusals
  BY DEF S!Wanted, S!Refusals
<1> QED
  BY <1>1 DEF SmtpInv, SmtpOrder

\* The adapter hears nothing new: then it is waiting for the next answer.
LEMMA NothingIsDue ==
  ASSUME SmtpInv, NEW b, Hears(<<>>, b, <<>>), ~fault
  PROVE  Len(answers) = step - 1
<1>1. PICK h \in Seq(Nat), lax \in BOOLEAN :
        \E tag : /\ Said(h, lax)
                 /\ Numbered(tag, <<>>, h, lax) /\ UpTo(<<>>, b, h, lax, tag[1])
  BY DEF Hears
<1>2. PICK tag : Said(h, lax) /\ Numbered(tag, <<>>, h, lax) /\ UpTo(<<>>, b, h, lax, tag[1])
  BY <1>1
<1>3. h = answers
  BY <1>2 DEF Said, Base
<1>4. Len(<<>>) = 0 /\ Len(answers) \in Nat /\ step \in Nat
  BY DEF SmtpInv, SmtpTypes
<1>5. tag[1] = Len(answers) + 1
  BY <1>2, <1>3, <1>4 DEF Numbered
<1>6. step = tag[1]
  BY <1>2, <1>4 DEF UpTo
<1> QED
  BY <1>4, <1>5, <1>6

LEMMA SmtpStarts == S!Init => SmtpInv
<1> SUFFICES ASSUME S!Init PROVE SmtpInv
  OBVIOUS
<1>1. SmtpTypes
  <2>1. <<>> \in Seq(Nat) /\ <<>> \in Seq(Lines)
    BY EmptySeq
  <2>2. /\ headers \in BOOLEAN /\ broken \in BOOLEAN /\ accepted \in BOOLEAN /\ fault \in BOOLEAN
    BY DEF S!Init
  <2>3. step = 1 /\ smtpPc = "connect" /\ stream = "up" /\ begun = 0
    BY DEF S!Init
  <2>4. buffer = <<>> /\ wire = <<>> /\ replies = <<>> /\ answers = <<>>
    BY DEF S!Init
  <2> QED
    BY <2>1, <2>2, <2>3, <2>4 DEF SmtpTypes
<1>2. SmtpOrder
  BY DEF S!Init, SmtpOrder
<1>3. SmtpQuiet
  BY DEF S!Init, SmtpQuiet
<1>4. SmtpOutcome
  BY DEF S!Init, SmtpOutcome
<1>5. SmtpHears
  <2>1. Len(<<>>) = 0 /\ <<>> \o <<>> = <<>> /\ <<>> \in Seq(Nat) /\ <<>> \in Seq(Lines)
    BY EmptySeq, ConcatEmptySeq
  <2>2. PICK lax \in BOOLEAN : lax = FALSE
    OBVIOUS
  <2>3. Said(<<>>, lax)
    BY <2>1, <2>2 DEF S!Init, Said, Base
  <2> DEFINE tag == [i \in 1 .. 1 |-> 1]
  <2>4. tag \in [1 .. 1 -> 1 .. 1] /\ tag[1] = 1 /\ \A i \in 1 .. 1 : i = 1
    OBVIOUS
  <2> HIDE DEF tag
  <2>5. Numbered(tag, <<>>, <<>>, lax)
    BY <2>1, <2>4 DEF Numbered
  <2>6. UpTo(<<>>, 0, <<>>, lax, tag[1])
    BY <2>1, <2>4 DEF S!Init, UpTo
  <2>7. Hears(<<>>, 0, <<>>)
    <3>1. \A p \in 1 .. step - 1 : p <= Len(<<>>) /\ <<>>[p] \in S!Wanted[p]
      <4>1. 1 .. step - 1 = {}
        BY DEF S!Init
      <4> QED
        BY <4>1
    <3>2. \E mu : /\ Said(<<>>, lax)
                  /\ \A p \in 1 .. step - 1 : p <= Len(<<>>) /\ <<>>[p] \in S!Wanted[p]
                  /\ Numbered(mu, <<>>, <<>>, lax) /\ UpTo(<<>>, 0, <<>>, lax, mu[1])
      BY <2>3, <2>5, <2>6, <3>1
    <3> QED
      BY <2>1, <3>2 DEF Hears
  <2> QED
    BY <2>1, <2>7 DEF S!Init, SmtpHears
<1> QED
  BY <1>1, <1>2, <1>3, <1>4, <1>5 DEF SmtpInv

\* The reader's and the server's part at rest: what is heard stays heard.
LEMMA HearsAtRest ==
  ASSUME SmtpInv, SmtpActive, step' = step, answers' = answers, stream' = stream, fault' = fault,
         replies' = replies, begun' = begun, buffer' = buffer, wire' = wire,
         broken => broken', smtpPc' = smtpPc \/ (smtpPc = "connect" /\ smtpPc' = "next")
  PROVE  SmtpHears'
<1>1. PICK R \in Seq(Nat), b \in Nat, W \in Seq(Lines) :
        /\ R = replies /\ b = begun /\ W = buffer \o wire
        /\ Hears(R, b, W) \/ (broken /\ smtpPc = "write" /\ Deafened(R, b, W))
  BY DEF SmtpInv, SmtpHears
<1>2. CASE Hears(R, b, W)
  <2>1. Hears(R, b, W)'
    BY <1>2, HearsKept
  <2> QED
    BY <1>1, <2>1 DEF SmtpHears
<1>3. CASE broken /\ smtpPc = "write" /\ Deafened(R, b, W)
  <2>1. Deafened(R, b, W)'
    BY <1>3 DEF Deafened, Whole, S!Line
  <2> QED
    BY <1>1, <1>3, <2>1 DEF SmtpHears
<1> QED
  BY <1>1, <1>2, <1>3

LEMMA ConnectKeeps ==
  ASSUME SmtpInv, S!Connect PROVE SmtpInv'
<1>1. /\ smtpPc = "connect" /\ smtpPc' = (IF headers THEN "next" ELSE "permanent")
      /\ headers' = headers /\ step' = step /\ buffer' = buffer /\ begun' = begun
      /\ replies' = replies /\ broken' = broken /\ stream' = stream /\ wire' = wire
      /\ answers' = answers /\ accepted' = accepted /\ fault' = fault
  BY DEF S!Connect, S!reader, S!server
<1>2. SmtpTypes'
  <2>1. smtpPc' \in {"connect", "write", "next"} \cup S!Outcomes'
    BY <1>1 DEF S!Outcomes
  <2> QED
    BY <1>1, <2>1 DEF SmtpInv, SmtpTypes
<1>3. SmtpOrder'
  BY <1>1, OrderKept
<1>4. SmtpQuiet'
  BY <1>1 DEF SmtpInv, SmtpQuiet, SmtpActive
<1>5. SmtpOutcome'
  BY <1>1 DEF SmtpOutcome
<1>6. SmtpHears'
  <2>1. CASE headers
    <3>1. SmtpActive
      BY <1>1 DEF SmtpActive
    <3> QED
      BY <1>1, <2>1, <3>1, HearsAtRest
  <2>2. CASE ~headers
    BY <1>1, <2>2 DEF SmtpHears, SmtpActive
  <2> QED
    BY <2>1, <2>2
<1> QED
  BY <1>2, <1>3, <1>4, <1>5, <1>6 DEF SmtpInv

LEMMA ConnectFailsKeeps ==
  ASSUME SmtpInv, S!ConnectFails PROVE SmtpInv'
<1>1. /\ smtpPc' = "temporary" /\ fault' = TRUE
      /\ headers' = headers /\ step' = step /\ buffer' = buffer /\ begun' = begun
      /\ replies' = replies /\ broken' = broken /\ stream' = stream /\ wire' = wire
      /\ answers' = answers /\ accepted' = accepted
  BY DEF S!ConnectFails, S!reader
<1>2. SmtpTypes'
  <2>1. smtpPc' \in {"connect", "write", "next"} \cup S!Outcomes'
    BY <1>1 DEF S!Outcomes
  <2> QED
    BY <1>1, <2>1 DEF SmtpInv, SmtpTypes
<1>3. SmtpOrder'
  BY <1>1, OrderKept
<1>4. SmtpQuiet' /\ SmtpOutcome' /\ SmtpHears'
  BY <1>1 DEF SmtpQuiet, SmtpActive, SmtpOutcome, SmtpHears
<1> QED
  BY <1>2, <1>3, <1>4 DEF SmtpInv

LEMMA BreaksKeeps ==
  ASSUME SmtpInv, S!Breaks PROVE SmtpInv'
<1>1. /\ smtpPc' = "temporary" /\ fault' = TRUE /\ broken' = TRUE /\ stream' = "down" /\ wire' = <<>>
      /\ headers' = headers /\ step' = step /\ buffer' = buffer /\ begun' = begun
      /\ replies' = replies
      /\ answers' = answers /\ accepted' = accepted
  BY DEF S!Breaks, S!Rejected
<1>2. SmtpTypes'
  <2>1. smtpPc' \in {"connect", "write", "next"} \cup S!Outcomes' /\ <<>> \in Seq(Lines')
    BY <1>1, EmptySeq DEF S!Outcomes
  <2> QED
    BY <1>1, <2>1 DEF SmtpInv, SmtpTypes, Lines
<1>3. SmtpOrder'
  BY <1>1, OrderKept
<1>4. SmtpQuiet' /\ SmtpOutcome' /\ SmtpHears'
  BY <1>1 DEF SmtpQuiet, SmtpActive, SmtpOutcome, SmtpHears
<1> QED
  BY <1>2, <1>3, <1>4 DEF SmtpInv

LEMMA StreamEndsKeeps ==
  ASSUME SmtpInv, S!StreamEnds PROVE SmtpInv'
<1>1. /\ smtpPc \in {"write", "next"} /\ stream = "closed" /\ wire = <<>> /\ ~broken /\ broken' = TRUE
      /\ smtpPc' = IF smtpPc = "next" THEN "temporary" ELSE smtpPc
      /\ step' = step
      /\ headers' = headers /\ buffer' = buffer /\ begun' = begun
      /\ replies' = replies /\ stream' = stream /\ wire' = wire
      /\ answers' = answers /\ accepted' = accepted /\ fault' = fault
  BY DEF S!StreamEnds, S!Open, S!Rejected, S!server
<1>2. SmtpTypes'
  <2>1. smtpPc' \in {"connect", "write", "next"} \cup S!Outcomes'
    BY <1>1 DEF S!Outcomes
  <2> QED
    BY <1>1, <2>1 DEF SmtpInv, SmtpTypes
<1>3. SmtpOrder'
  BY <1>1, OrderKept
<1>4. SmtpActive /\ buffer = <<>>
  BY <1>1 DEF SmtpActive, SmtpInv, SmtpQuiet
<1>5. SmtpQuiet'
  BY <1>1, <1>4 DEF SmtpQuiet, SmtpActive, SmtpInv
<1>6. CASE smtpPc = "write"
  <2>1. SmtpOutcome' /\ SmtpHears'
    BY <1>1, <1>4, <1>6, OutcomeKept, HearsAtRest
  <2> QED
    BY <1>2, <1>3, <1>5, <2>1 DEF SmtpInv
<1>7. CASE smtpPc = "next"
  <2>1. ASSUME ~fault PROVE FALSE
    <3>1. replies = <<>> /\ Len(answers) = 7 /\ step \in 1 .. 7
      BY <1>1, <1>4, <1>7, <2>1 DEF SmtpInv, SmtpQuiet, SmtpTypes
    <3>2. PICK R \in Seq(Nat), b \in Nat, W \in Seq(Lines) :
            R = replies /\ W = buffer \o wire /\ Hears(R, b, W)
      BY <1>1, <1>4, <1>7 DEF SmtpInv, SmtpHears
    <3>3. R = <<>> /\ W = <<>>
      <4>1. <<>> \o <<>> = <<>>
        BY EmptySeq, ConcatEmptySeq
      <4> QED
        BY <4>1, <3>1, <3>2, <1>1, <1>4
    <3>4. Hears(<<>>, b, <<>>)
      BY <3>2, <3>3
    <3>5. Len(answers) = step - 1
      BY <3>4, <2>1, NothingIsDue
    <3>6. \A x \in 1 .. 7 : 7 # x - 1
      OBVIOUS
    <3> QED
      BY <3>1, <3>5, <3>6
  <2>2. SmtpOutcome' /\ SmtpHears'
    BY <1>1, <1>7, <2>1 DEF SmtpOutcome, SmtpHears, SmtpActive
  <2> QED
    BY <1>2, <1>3, <1>5, <2>2 DEF SmtpInv
<1> QED
  BY <1>1, <1>6, <1>7

LEMMA WrittenKeeps ==
  ASSUME SmtpInv, S!Written PROVE SmtpInv'
<1>1. /\ smtpPc = "write"
      /\ headers' = headers /\ buffer' = buffer /\ begun' = begun /\ broken' = broken
      /\ stream' = stream /\ wire' = wire
      /\ answers' = answers /\ accepted' = accepted /\ fault' = fault
  BY DEF S!Written, S!server
<1>2. PICK R \in Seq(Nat), b \in Nat, W \in Seq(Lines) :
        /\ R = replies /\ b = begun /\ W = buffer \o wire
        /\ Hears(R, b, W) \/ (broken /\ smtpPc = "write" /\ Deafened(R, b, W))
  BY <1>1 DEF SmtpInv, SmtpHears, SmtpActive
<1>3. CASE replies # <<>>
  <2>1. S!Proceed(Head(R)) /\ replies' = Tail(R) /\ R # <<>>
    BY <1>2, <1>3 DEF S!Written
  <2>2. Hears(R, b, W)
    BY <1>2, <2>1 DEF Deafened
  <2>3. SmtpTypes /\ SmtpOrder
    BY DEF SmtpInv
  <2>4. /\ step' \in 1 .. 7 /\ smtpPc' \in {"write", "sent", "temporary", "permanent"}
        /\ smtpPc' = "write" => Hears(Tail(R), b, W)'
        /\ SmtpOrder' /\ SmtpOutcome'
    BY <1>1, <2>1, <2>2, <2>3, ReplyIsTaken
  <2>5. Tail(R) \in Seq(Nat)
    BY <2>1, HeadTailProperties
  <2>6. SmtpTypes'
    <3>1. smtpPc' \in {"connect", "write", "next"} \cup S!Outcomes'
      BY <2>4 DEF S!Outcomes
    <3> QED
      BY <1>1, <2>1, <2>4, <2>5, <3>1 DEF SmtpInv, SmtpTypes
  <2>7. SmtpQuiet'
    BY <1>1, <2>4 DEF SmtpInv, SmtpQuiet, SmtpActive
  <2>8. SmtpHears'
    <3>1. SmtpActive' => smtpPc' = "write"
      BY <2>4 DEF SmtpActive
    <3> QED
      BY <3>1, <1>1, <1>2, <2>1, <2>4, <2>5 DEF SmtpHears
  <2> QED
    BY <2>4, <2>6, <2>7, <2>8 DEF SmtpInv
<1>4. CASE replies = <<>>
  <2>1. /\ replies' = replies /\ step' = step
        /\ smtpPc' = IF broken THEN "temporary" ELSE "next"
    BY <1>4 DEF S!Written, S!Rejected
  <2>2. SmtpTypes'
    <3>1. smtpPc' \in {"connect", "write", "next"} \cup S!Outcomes'
      BY <2>1 DEF S!Outcomes
    <3> QED
      BY <1>1, <2>1, <3>1 DEF SmtpInv, SmtpTypes
  <2>3. SmtpOrder'
    BY <1>1, <2>1, OrderKept
  <2>4. CASE ~broken
    <3>1. SmtpQuiet' /\ SmtpOutcome'
      BY <1>1, <1>4, <2>1, <2>4 DEF SmtpInv, SmtpQuiet, SmtpActive, SmtpOutcome
    <3>2. Hears(R, b, W)'
      BY <1>1, <1>2, <2>1, <2>4, HearsKept
    <3>3. SmtpHears'
      BY <3>2, <1>1, <1>2, <2>1 DEF SmtpHears
    <3> QED
      BY <2>2, <2>3, <3>1, <3>3 DEF SmtpInv
  <2>5. CASE broken
    <3>1. ASSUME ~fault PROVE FALSE
      <4>1. Len(answers) = 7 /\ step \in 1 .. 7 /\ buffer = <<>> /\ wire = <<>>
        BY <1>1, <2>5, <3>1 DEF SmtpInv, SmtpQuiet, SmtpActive, SmtpTypes
      <4>2. R = <<>> /\ W = <<>>
        <5>1. <<>> \o <<>> = <<>>
          BY EmptySeq, ConcatEmptySeq
        <5> QED
          BY <5>1, <4>1, <1>2, <1>4
      <4>3. Hears(<<>>, b, <<>>)
        BY <1>2, <3>1, <4>2 DEF Deafened
      <4>4. Len(answers) = step - 1
        BY <4>3, <3>1, NothingIsDue
      <4>5. \A x \in 1 .. 7 : 7 # x - 1
        OBVIOUS
      <4> QED
        BY <4>1, <4>4, <4>5
    <3>2. SmtpQuiet' /\ SmtpOutcome' /\ SmtpHears'
      BY <1>1, <2>1, <2>5, <3>1 DEF SmtpQuiet, SmtpActive, SmtpOutcome, SmtpHears
    <3> QED
      BY <2>2, <2>3, <3>2 DEF SmtpInv
  <2> QED
    BY <2>4, <2>5
<1> QED
  BY <1>3, <1>4

LEMMA ConsumeKeeps ==
  ASSUME SmtpInv, NEW n \in 0 .. Len(wire), S!Consume(n) PROVE SmtpInv'
<1> DEFINE r == S!Reads(buffer \o SubSeq(wire, 1, n))
           rest == SubSeq(wire, n + 1, Len(wire))
           V == r.rest \o rest
<1>1. /\ smtpPc \in {"write", "next"} /\ wire # <<>> /\ wire' = rest
      /\ buffer' = r.rest /\ begun' = r.begun /\ broken' = (broken \/ r.stuck)
      /\ headers' = headers /\ stream' = stream
      /\ answers' = answers /\ accepted' = accepted /\ fault' = fault
  BY DEF S!Consume, S!Open
<1>2. IF smtpPc = "next" /\ r.replies # <<>>
      THEN S!Proceed(Head(r.replies)) /\ replies' = Tail(r.replies)
      ELSE /\ replies' = r.replies /\ step' = step
           /\ smtpPc' = IF smtpPc = "next" /\ r.stuck THEN "temporary" ELSE smtpPc
  BY DEF S!Consume, S!Rejected
<1>3. SmtpTypes /\ SmtpOrder /\ Len(answers) <= step
  BY DEF SmtpInv, SmtpOrder
<1>4. /\ r \in Readings /\ r.rest \in Seq(Lines) /\ r.replies \in Seq(Nat)
      /\ r.begun \in Nat /\ r.stuck \in BOOLEAN
  <2>1. \E f \in [0 .. Len(buffer) + n -> Readings] : r = f[Len(buffer) + n]
    BY <1>3, ReadsOf
  <2>2. Len(buffer) + n \in 0 .. Len(buffer) + n
    BY <1>3 DEF SmtpTypes
  <2> HIDE DEF r
  <2>3. r \in Readings
    BY <2>1, <2>2
  <2> QED
    BY <2>3 DEF Readings
<1>5. PICK R \in Seq(Nat), b \in Nat, W \in Seq(Lines) :
        /\ R = replies /\ b = begun /\ W = buffer \o wire
        /\ Hears(R, b, W) \/ (broken /\ smtpPc = "write" /\ Deafened(R, b, W))
  BY <1>1 DEF SmtpInv, SmtpHears, SmtpActive
<1>6. rest \in Seq(Lines)
  <2>1. wire \in Seq(Lines) /\ Len(wire) \in Nat /\ n \in Nat
    BY <1>3 DEF SmtpTypes
  <2>2. \A i \in n + 1 .. Len(wire) : wire[i] \in Lines
    BY <2>1, ElementOfSeq
  <2>3. n + 1 \in Int /\ Len(wire) \in Int
    BY <2>1
  <2> QED
    BY <2>2, <2>3, SubSeqProperties
<1>7. V \in Seq(Lines)
  BY <1>4, <1>6, ConcatProperties
<1>8. /\ \/ Hears(r.replies, r.begun, V)
         \/ (broken \/ r.stuck) /\ ~(smtpPc = "next" /\ ~r.stuck) /\ Deafened(r.replies, r.begun, V)
      /\ r.stuck => fault
      /\ r.stuck \/ broken \/ r.rest = <<>>
  <2>1. CASE Hears(R, b, W)
    <3>1. Hears(replies, begun, buffer \o wire)
      BY <1>5, <2>1
    <3>2. /\ \/ Hears(r.replies, r.begun, V)
             \/ r.stuck /\ Deafened(r.replies, r.begun, V)
          /\ r.stuck => fault
          /\ r.stuck \/ r.rest = <<>>
      BY <3>1, <1>3, ReadsHear
    <3> HIDE DEF r, V
    <3> QED
      BY <3>2
  <2>2. CASE broken /\ smtpPc = "write" /\ Deafened(R, b, W)
    <3>1. Deafened(replies, begun, buffer \o wire)
      BY <1>5, <2>2
    <3>2. Deafened(r.replies, r.begun, V)
      BY <3>1, <1>3, ReadsDeaf
    <3>3. fault
      BY <3>1 DEF Deafened
    <3> HIDE DEF r, V
    <3> QED
      BY <3>2, <3>3, <2>2
  <2> QED
    BY <1>5, <2>1, <2>2
<1>9. buffer' \o wire' = V
  BY <1>1
<1>10. S!Wanted' = S!Wanted /\ S!Refusals' = S!Refusals /\ S!Outcomes' = S!Outcomes
       /\ Lines' = Lines /\ S!Outcomes = {"sent", "temporary", "permanent"}
  BY DEF S!Wanted, S!Refusals, S!Outcomes, Lines
<1> HIDE DEF r, rest, V
<1>11. ASSUME NEW Q \in Seq(Nat), Q = replies', step' \in 1 .. 7,
              smtpPc' \in {"write", "next"} \cup S!Outcomes
       PROVE  SmtpTypes'
  BY <1>1, <1>3, <1>4, <1>6, <1>10, <1>11 DEF SmtpTypes
<1>12. CASE smtpPc = "next" /\ r.replies # <<>>
  <2>1. S!Proceed(Head(r.replies)) /\ replies' = Tail(r.replies)
    BY <1>2, <1>12
  <2>2. Hears(r.replies, r.begun, V)
    BY <1>8, <1>12 DEF Deafened
  <2>3. PICK Q \in Seq(Nat), c \in Nat : Q = r.replies /\ c = r.begun
    BY <1>4
  <2>4. PICK Z \in Seq(Lines) : Z = V
    BY <1>7
  <2>5. /\ step' \in 1 .. 7 /\ smtpPc' \in {"write", "sent", "temporary", "permanent"}
        /\ smtpPc' = "write" => Hears(Tail(Q), c, Z)'
        /\ SmtpOrder' /\ SmtpOutcome'
    <3>1. S!Proceed(Head(Q)) /\ Hears(Q, c, Z) /\ Q # <<>>
      BY <2>1, <2>2, <2>3, <2>4, <1>12
    <3> QED
      BY <3>1, <1>1, <1>3, ReplyIsTaken
  <2>6. Tail(Q) \in Seq(Nat) /\ Tail(Q) = replies'
    BY <2>1, <2>3, <1>12, HeadTailProperties
  <2>7. SmtpTypes'
    BY <2>5, <2>6, <1>10, <1>11
  <2>8. SmtpQuiet'
    <3>1. smtpPc' # "connect" /\ smtpPc' # "next"
      BY <2>5
    <3>2. SmtpActive' => stream' # "down" /\ (broken' \/ buffer' = <<>>)
      BY <1>1, <1>8 DEF SmtpInv, SmtpQuiet, SmtpActive
    <3>3. fault' \/ (~broken /\ ~r.stuck /\ (stream = "closed" => Len(answers) = 7))
      BY <1>1, <1>8 DEF SmtpInv, SmtpQuiet, SmtpActive
    <3> QED
      BY <3>1, <3>2, <3>3, <1>1 DEF SmtpQuiet
  <2>9. SmtpHears'
    <3>1. SmtpActive' => smtpPc' = "write"
      BY <2>5 DEF SmtpActive
    <3> QED
      BY <3>1, <1>1, <1>9, <2>3, <2>4, <2>5, <2>6 DEF SmtpHears
  <2> QED
    BY <2>5, <2>7, <2>8, <2>9 DEF SmtpInv
<1>13. CASE ~(smtpPc = "next" /\ r.replies # <<>>)
  <2>1. /\ replies' = r.replies /\ step' = step
        /\ smtpPc' = IF smtpPc = "next" /\ r.stuck THEN "temporary" ELSE smtpPc
    BY <1>2, <1>13
  <2>2. SmtpTypes'
    <3>1. step' \in 1 .. 7 /\ smtpPc' \in {"write", "next"} \cup S!Outcomes
      BY <2>1, <1>1, <1>3, <1>10 DEF SmtpTypes
    <3> QED
      BY <2>1, <3>1, <1>4, <1>11
  <2>3. SmtpOrder'
    BY <2>1, <1>1, OrderKept
  <2>4. SmtpQuiet'
    <3>1. smtpPc' # "connect"
      BY <1>1, <2>1
    <3>2. SmtpActive' => stream' # "down" /\ (broken' \/ buffer' = <<>>)
      BY <1>1, <1>8 DEF SmtpInv, SmtpQuiet, SmtpActive
    <3>3. fault' \/ (~broken /\ ~r.stuck /\ (stream = "closed" => Len(answers) = 7))
      BY <1>1, <1>8 DEF SmtpInv, SmtpQuiet, SmtpActive
    <3>4. smtpPc' = "next" => replies' = <<>> /\ ~broken'
      BY <1>1, <1>13, <2>1 DEF SmtpInv, SmtpQuiet
    <3> QED
      BY <3>1, <3>2, <3>3, <3>4, <1>1 DEF SmtpQuiet
  <2>5. SmtpOutcome'
    <3>1. CASE smtpPc = "next" /\ r.stuck
      BY <3>1, <2>1, <1>1, <1>8 DEF SmtpOutcome
    <3>2. CASE ~(smtpPc = "next" /\ r.stuck)
      BY <3>2, <2>1, <1>1 DEF SmtpOutcome
    <3> QED
      BY <3>1, <3>2
  <2>6. SmtpHears'
    <3>1. SUFFICES ASSUME smtpPc' = smtpPc, ~(smtpPc = "next" /\ r.stuck) PROVE SmtpHears'
      BY <2>1 DEF SmtpHears, SmtpActive
    <3>2. PICK Q \in Seq(Nat), c \in Nat : Q = r.replies /\ c = r.begun
      BY <1>4
    <3>3. PICK Z \in Seq(Lines) : Z = V
      BY <1>7
    <3>4. CASE Hears(Q, c, Z)
      <4>1. Hears(Q, c, Z)'
        BY <3>4, <1>1, <2>1, HearsKept
      <4> QED
        BY <4>1, <1>1, <1>9, <2>1, <3>2, <3>3 DEF SmtpHears
    <3>5. CASE /\ broken \/ r.stuck
               /\ ~(smtpPc = "next" /\ ~r.stuck) /\ Deafened(Q, c, Z)
      <4>1. Deafened(Q, c, Z)'
        BY <3>5, <1>1, <2>1 DEF Deafened, Whole, S!Line
      <4>2. smtpPc' = "write" /\ broken'
        BY <3>1, <3>5, <1>1
      <4> QED
        BY <4>1, <4>2, <1>1, <1>9, <2>1, <3>2, <3>3 DEF SmtpHears
    <3> QED
      BY <3>2, <3>3, <3>4, <3>5, <1>8
  <2> QED
    BY <2>2, <2>3, <2>4, <2>5, <2>6 DEF SmtpInv
<1> QED
  BY <1>12, <1>13

\* A reply of one line, the other way to write it.
OneLined(c) == S!Line(c, TRUE)
LEMMA Single ==
  ASSUME NEW L, NEW U \in Seq(L), Len(U) = 1, NEW x, U[1] = x
  PROVE  U = <<x>>
<1>1. x \in L
  BY ElementOfSeq
<1>2. <<x>> \in Seq(L) /\ Len(<<x>>) = 1 /\ <<x>>[1] = x
  BY <1>1
<1>3. \A i \in 1 .. Len(U) : U[i] = <<x>>[i]
  BY <1>2
<1> QED
  BY <1>2, <1>3, SeqEqual

LEMMA OneLineReply ==
  ASSUME NEW c \in Nat, c # 0, NEW w \in Seq(Lines)
  PROVE  /\ OneLined(c) \in Lines
         /\ Append(w, OneLined(c)) = w \o ReplyOf(c, 1)
<1>1. OneLined(c) \in Lines
  BY DEF OneLined, S!Line, Lines
<1>2. ReplyOf(c, 1) = <<OneLined(c)>>
  <2>1. ReplyOf(c, 1) \in Seq(Lines) /\ Len(ReplyOf(c, 1)) = 1
    BY ReplyIs
  <2>2. ReplyOf(c, 1)[1] = S!Line(c, 1 = 1)
    BY DEF ReplyOf
  <2>3. ReplyOf(c, 1)[1] = OneLined(c)
    BY <2>2 DEF S!Line, OneLined
  <2> QED
    BY <2>1, <2>3, Single
<1> QED
  BY <1>1, <1>2, AppendIsConcat

\* What the server's lines add to what is heard.
LEMMA HearsMore ==
  ASSUME SmtpInv, SmtpActive, UNCHANGED <<replies, begun, buffer, smtpPc, broken>>,
         NEW X \in Seq(Lines), wire' = wire \o X,
         ASSUME NEW R \in Seq(Nat), NEW b \in Nat, NEW W \in Seq(Lines), Hears(R, b, W),
                NEW V, V = W \o X
         PROVE  Hears(R, b, V)',
         ASSUME NEW R \in Seq(Nat), NEW b \in Nat, NEW W \in Seq(Lines), Deafened(R, b, W),
                NEW V, V = W \o X
         PROVE  Deafened(R, b, V)'
  PROVE  SmtpHears'
<1>1. PICK R \in Seq(Nat), b \in Nat, W \in Seq(Lines) :
        /\ R = replies /\ b = begun /\ W = buffer \o wire
        /\ Hears(R, b, W) \/ (broken /\ smtpPc = "write" /\ Deafened(R, b, W))
  BY DEF SmtpInv, SmtpHears
<1>2. PICK V \in Seq(Lines) : V = W \o X
  <2>1. W \o X \in Seq(Lines)
    BY ConcatProperties
  <2> QED
    BY <2>1
<1>3. V = buffer' \o wire'
  <2>1. buffer \in Seq(Lines) /\ wire \in Seq(Lines)
    BY DEF SmtpInv, SmtpTypes
  <2>2. (buffer \o wire) \o X = buffer \o (wire \o X)
    BY <2>1, ConcatAssociative
  <2> QED
    BY <1>1, <1>2, <2>2
<1>4. Lines' = Lines
  BY DEF Lines
<1>5. Hears(R, b, W) => Hears(R, b, V)'
  BY <1>2
<1>6. Deafened(R, b, W) => Deafened(R, b, V)'
  BY <1>2
<1> QED
  BY <1>1, <1>3, <1>4, <1>5, <1>6 DEF SmtpHears

LEMMA DeafenedMore ==
  ASSUME NEW R, NEW b, NEW W \in Seq(Lines), Deafened(R, b, W),
         step' = step, answers' = answers, fault' = TRUE,
         NEW line \in Lines, line # Whole, NEW V, V = Append(W, line)
  PROVE  Deafened(R, b, V)'
<1>1. /\ Len(V) = Len(W) + 1 /\ Len(W) \in Nat /\ V[Len(W) + 1] = line
      /\ \A i \in 1 .. Len(W) : V[i] = W[i]
  BY AppendProperties
<1>2. ASSUME NEW i \in 1 .. Len(V) PROVE V[i] # Whole
  <2>1. CASE i \in 1 .. Len(W)
    BY <2>1, <1>1 DEF Deafened
  <2>2. CASE i \notin 1 .. Len(W)
    <3>1. i = Len(W) + 1
      BY <2>2, <1>1
    <3> QED
      BY <3>1, <1>1
  <2> QED
    BY <2>1, <2>2
<1>3. Whole' = Whole
  BY DEF Whole, S!Line
<1> QED
  BY <1>2, <1>3 DEF Deafened

LEMMA AnswerKeeps ==
  ASSUME SmtpInv, NEW code \in Nat, NEW lines \in 1 .. 2, S!Answer(code, lines) PROVE SmtpInv'
<1> DEFINE n == Len(answers) + 1
<1>1. /\ smtpPc # "connect" /\ n <= step /\ stream # "closed"
      /\ code \in S!Wanted[n] \cup S!Refusals
      /\ answers' = Append(answers, code)
      /\ accepted' = (accepted \/ (n = 6 /\ code = 250))
      /\ wire' = IF stream = "up" THEN wire \o ReplyOf(code, lines) ELSE wire
      /\ headers' = headers /\ step' = step /\ smtpPc' = smtpPc
      /\ buffer' = buffer /\ begun' = begun /\ replies' = replies /\ broken' = broken
      /\ stream' = stream /\ fault' = fault
  BY DEF S!Answer, S!reader, S!Message, ReplyOf
<1>2. /\ answers \in Seq(Nat) /\ Len(answers) \in Nat /\ step \in 1 .. 7 /\ n \in 1 .. 7
      /\ wire \in Seq(Lines)
  <2>1. answers \in Seq(Nat) /\ step \in 1 .. 7 /\ wire \in Seq(Lines)
    BY DEF SmtpInv, SmtpTypes
  <2>2. Len(answers) \in Nat
    BY <2>1, LenProperties
  <2>3. \A x \in Nat, y \in 1 .. 7 : x + 1 <= y => x + 1 \in 1 .. 7
    OBVIOUS
  <2>4. n \in 1 .. 7
    BY <1>1, <2>1, <2>2, <2>3
  <2> QED
    BY <2>1, <2>2, <2>4
<1>3. /\ answers' \in Seq(Nat) /\ Len(answers') = n /\ answers'[n] = code
      /\ \A i \in 1 .. Len(answers) : answers'[i] = answers[i]
  BY <1>1, <1>2, AppendProperties
<1>4. code # 0 /\ code # 421
  <2>1. \A m \in 1 .. 7 : 0 \notin S!Wanted[m] /\ 421 \notin S!Wanted[m]
    <3>1. ASSUME NEW m \in 1 .. 7 PROVE S!Wanted[m] \in {{220}, {250}, {250, 251}, {354}, {221}}
      <4>1. m = 1 \/ m = 2 \/ m = 3 \/ m = 4 \/ m = 5 \/ m = 6 \/ m = 7
        OBVIOUS
      <4> QED
        BY <4>1, WantedAre
    <3> QED
      BY <3>1
  <2> HIDE DEF n
  <2>2. 0 \notin S!Refusals /\ 421 \notin S!Refusals
    BY DEF S!Refusals
  <2> QED
    BY <1>1, <1>2, <2>1, <2>2
<1>5. ReplyOf(code, lines) \in Seq(Lines)
  BY <1>4, ReplyIs
<1>6. SmtpTypes'
  <2>1. wire' \in Seq(Lines)
    BY <1>1, <1>2, <1>5, ConcatProperties
  <2>2. accepted' \in BOOLEAN
    BY <1>1 DEF SmtpInv, SmtpTypes
  <2>3. S!Outcomes' = S!Outcomes /\ Lines' = Lines
    BY DEF S!Outcomes, Lines
  <2> QED
    BY <1>1, <1>3, <2>1, <2>2, <2>3 DEF SmtpInv, SmtpTypes
<1>7. S!Wanted' = S!Wanted /\ S!Refusals' = S!Refusals
  BY DEF S!Wanted, S!Refusals
<1> HIDE DEF n
<1>0. n = Len(answers) + 1
  BY DEF n
<1>8. SmtpOrder'
  <2>1. /\ \A i \in 1 .. Len(answers) : answers[i] \in S!Wanted[i] \cup S!Refusals
        /\ accepted <=> Len(answers) >= 6 /\ answers[6] = 250
        /\ step >= 6 => Len(answers) >= 5 /\ \A i \in 1 .. 5 : answers[i] \in S!Wanted[i]
    BY DEF SmtpInv, SmtpOrder
  <2>2. ASSUME NEW i \in 1 .. n PROVE answers'[i] \in S!Wanted[i] \cup S!Refusals
    <3>1. CASE i \in 1 .. Len(answers)
      BY <3>1, <1>3, <2>1
    <3>2. CASE i \notin 1 .. Len(answers)
      <4>1. i = n
        BY <3>2, <1>0, <1>2
      <4> QED
        BY <4>1, <1>1, <1>3
    <3> QED
      BY <3>1, <3>2
  <2>3. accepted' <=> n >= 6 /\ answers'[6] = 250
    <3>1. CASE Len(answers) >= 6
      <4>1. 6 \in 1 .. Len(answers) /\ n # 6 /\ n >= 6
        BY <3>1, <1>0, <1>2
      <4>2. answers'[6] = answers[6]
        BY <4>1, <1>3
      <4> QED
        BY <3>1, <4>1, <4>2, <2>1, <1>1
    <3>2. CASE ~(Len(answers) >= 6)
      <4>1. ~accepted /\ (n >= 6 <=> n = 6)
        BY <3>2, <2>1, <1>0, <1>2
      <4> QED
        BY <4>1, <1>1, <1>3
    <3> QED
      BY <3>1, <3>2
  <2>4. ASSUME step >= 6
        PROVE  n >= 5 /\ \A i \in 1 .. 5 : answers'[i] \in S!Wanted[i]
    <3>1. Len(answers) >= 5 /\ \A i \in 1 .. 5 : answers[i] \in S!Wanted[i]
      BY <2>1, <2>4
    <3>2. \A i \in 1 .. 5 : i \in 1 .. Len(answers)
      BY <3>1, <1>2
    <3>3. n >= 5
      BY <3>1, <1>0, <1>2
    <3> QED
      BY <3>1, <3>2, <3>3, <1>3
  <2> QED
    BY <2>2, <2>3, <2>4, <1>1, <1>3, <1>7 DEF SmtpOrder
<1>9. SmtpQuiet'
  BY <1>1 DEF SmtpInv, SmtpQuiet, SmtpActive
<1>10. SmtpOutcome'
  <2>1. \A i \in 1 .. Len(answers) : i \in 1 .. Len(answers') /\ answers'[i] = answers[i]
    BY <1>0, <1>2, <1>3
  <2>2. smtpPc # "sent" \/ Len(answers) = 7
    BY DEF SmtpInv, SmtpOutcome
  <2>3. smtpPc # "sent"
    BY <2>2, <1>0, <1>1, <1>2
  <2>4. smtpPc = "permanent" /\ headers => \E i \in 1 .. Len(answers) : answers[i] >= 500
    BY DEF SmtpInv, SmtpOutcome
  <2>5. smtpPc = "temporary" =>
          fault \/ \E i \in 1 .. Len(answers) : answers[i] \notin S!Wanted[i] /\ answers[i] < 500
    BY DEF SmtpInv, SmtpOutcome
  <2>6. smtpPc = "permanent" /\ headers => \E i \in 1 .. Len(answers') : answers'[i] >= 500
    BY <2>1, <2>4
  <2>7. smtpPc = "temporary" =>
          fault \/ \E i \in 1 .. Len(answers') : answers'[i] \notin S!Wanted[i] /\ answers'[i] < 500
    BY <2>1, <2>5
  <2> QED
    BY <2>3, <2>6, <2>7, <1>1, <1>7 DEF SmtpOutcome
<1>11. SmtpHears'
  <2>1. SUFFICES ASSUME SmtpActive PROVE SmtpHears'
    BY <1>1 DEF SmtpHears, SmtpActive
  <2>2. stream = "up" /\ SmtpTypes
    BY <2>1, <1>1 DEF SmtpInv, SmtpQuiet, SmtpTypes
  <2>3. ASSUME NEW R \in Seq(Nat), NEW b \in Nat, NEW W \in Seq(Lines), Hears(R, b, W),
               NEW V, V = W \o ReplyOf(code, lines)
        PROVE  Hears(R, b, V)'
    BY <2>2, <2>3, <1>1, <1>4, HearsAnswer
  <2>4. ASSUME NEW R \in Seq(Nat), NEW b \in Nat, NEW W \in Seq(Lines), Deafened(R, b, W),
               NEW V, V = W \o ReplyOf(code, lines)
        PROVE  Deafened(R, b, V)'
    <3>1. Len(answers) = step
      BY <2>4 DEF Deafened
    <3> QED
      BY <3>1, <1>0, <1>1, <1>2
  <2>5. wire' = wire \o ReplyOf(code, lines)
    BY <2>2, <1>1
  <2> QED
    BY <2>1, <2>3, <2>4, <2>5, <1>1, <1>5, HearsMore
<1> QED
  BY <1>6, <1>8, <1>9, <1>10, <1>11 DEF SmtpInv

LEMMA ClosesKeeps ==
  ASSUME SmtpInv, S!Closes PROVE SmtpInv'
<1>1. /\ smtpPc \in {"write", "next"} /\ stream = "up" /\ stream' = "closed"
      /\ fault' = (fault \/ Len(answers) < 7)
      /\ wire' = wire \/ (Len(answers) < 7 /\ wire' = Append(wire, OneLined(421)))
      /\ headers' = headers /\ step' = step /\ smtpPc' = smtpPc
      /\ buffer' = buffer /\ begun' = begun /\ replies' = replies /\ broken' = broken
      /\ answers' = answers /\ accepted' = accepted
  BY WantedAre DEF S!Closes, S!Open, S!reader, OneLined
<1>2. /\ SmtpTypes /\ SmtpOrder /\ SmtpQuiet /\ SmtpOutcome /\ SmtpHears /\ SmtpActive
      /\ wire \in Seq(Lines) /\ Len(answers) \in Nat /\ step \in 1 .. 7
  <2>1. Len(answers) \in Nat
    BY LenProperties DEF SmtpInv, SmtpTypes
  <2> QED
    BY <1>1, <2>1 DEF SmtpInv, SmtpTypes, SmtpActive
<1>3. OneLined(421) \in Lines /\ Append(wire, OneLined(421)) = wire \o ReplyOf(421, 1)
  BY <1>2, OneLineReply
<1>4. ReplyOf(421, 1) \in Seq(Lines)
  BY ReplyIs
<1>5. Len(answers) <= step
  BY <1>2 DEF SmtpOrder
<1>6. SmtpTypes'
  <2>1. Append(wire, OneLined(421)) \in Seq(Lines)
    BY <1>2, <1>3, AppendProperties
  <2>2. wire' \in Seq(Lines)
    BY <1>1, <1>2, <2>1
  <2>3. S!Outcomes' = S!Outcomes /\ Lines' = Lines
    BY DEF S!Outcomes, Lines
  <2>4. fault' \in BOOLEAN
    BY <1>1
  <2> QED
    BY <1>1, <1>2, <2>2, <2>3, <2>4 DEF SmtpTypes
<1>7. SmtpOrder'
  BY <1>1, <1>2, OrderKept
<1>8. SmtpQuiet'
  <2>1. ASSUME ~fault' PROVE ~fault /\ Len(answers) = 7 /\ ~broken
    <3>1. ~fault /\ ~(Len(answers) < 7)
      BY <1>1, <2>1
    <3>2. \A x \in Nat, y \in 1 .. 7 : x <= y /\ ~(x < 7) => x = 7
      OBVIOUS
    <3>3. ~broken
      BY <1>1, <1>2, <3>1 DEF SmtpQuiet
    <3> QED
      BY <1>2, <1>5, <3>1, <3>2, <3>3
  <2> QED
    BY <1>1, <1>2, <2>1 DEF SmtpQuiet, SmtpActive
<1>9. SmtpOutcome'
  BY <1>1 DEF SmtpOutcome
<1>10. CASE wire' = wire
  <2>1. PICK R \in Seq(Nat), b \in Nat, W \in Seq(Lines) :
          /\ R = replies /\ b = begun /\ W = buffer \o wire
          /\ Hears(R, b, W) \/ (broken /\ smtpPc = "write" /\ Deafened(R, b, W))
    BY <1>2 DEF SmtpHears
  <2>2. Hears(R, b, W) => Hears(R, b, W)'
    <3>1. fault => fault'
      BY <1>1
    <3> QED
      BY <3>1, <1>1, HearsKept
  <2>3. Deafened(R, b, W) => Deafened(R, b, W)'
    BY <1>1 DEF Deafened, Whole, S!Line
  <2>4. Lines' = Lines
    BY DEF Lines
  <2>5. SmtpHears'
    BY <2>1, <2>2, <2>3, <2>4, <1>1, <1>10 DEF SmtpHears
  <2> QED
    BY <2>5, <1>6, <1>7, <1>8, <1>9 DEF SmtpInv
<1>11. CASE wire' # wire
  <2>1. fault' = TRUE /\ wire' = wire \o ReplyOf(421, 1)
    BY <1>1, <1>3, <1>11
  <2>2. ASSUME NEW R \in Seq(Nat), NEW b \in Nat, NEW W \in Seq(Lines), Hears(R, b, W),
               NEW V, V = W \o ReplyOf(421, 1)
        PROVE  Hears(R, b, V)'
    BY <2>1, <2>2, <1>1, <1>2, HearsFarewell
  <2>3. ASSUME NEW R \in Seq(Nat), NEW b \in Nat, NEW W \in Seq(Lines), Deafened(R, b, W),
               NEW V, V = W \o ReplyOf(421, 1)
        PROVE  Deafened(R, b, V)'
    <3>1. V = Append(W, OneLined(421))
      BY <2>3, OneLineReply
    <3>2. OneLined(421) # Whole
      BY DEF OneLined, Whole, S!Line
    <3>3. PICK line \in Lines : line = OneLined(421)
      BY <1>3
    <3>4. line # Whole /\ V = Append(W, line)
      BY <3>1, <3>2, <3>3
    <3> QED
      BY <2>1, <2>3, <3>4, <1>1, DeafenedMore
  <2>4. SmtpHears'
    BY <2>1, <2>2, <2>3, <1>1, <1>2, <1>4, HearsMore
  <2> QED
    BY <2>4, <1>6, <1>7, <1>8, <1>9 DEF SmtpInv
<1> QED
  BY <1>10, <1>11

LEMMA IntrudesKeeps ==
  ASSUME SmtpInv, NEW line \in {S!Malformed, S!Line(250, TRUE), S!Line(250, FALSE)},
         S!Intrudes(line)
  PROVE  SmtpInv'
<1>1. /\ smtpPc \in {"write", "next"} /\ stream = "up" /\ ~fault /\ fault' = TRUE
      /\ wire' = Append(wire, line) /\ stream' = stream
      /\ headers' = headers /\ step' = step /\ smtpPc' = smtpPc
      /\ buffer' = buffer /\ begun' = begun /\ replies' = replies /\ broken' = broken
      /\ answers' = answers /\ accepted' = accepted
  BY DEF S!Intrudes, S!Open, S!reader
<1>2. /\ SmtpTypes /\ SmtpOrder /\ SmtpQuiet /\ SmtpOutcome /\ SmtpHears /\ SmtpActive
      /\ wire \in Seq(Lines)
  BY <1>1 DEF SmtpInv, SmtpTypes, SmtpActive
<1>3. line = OneLined(250) \/ Stray(line)
  BY DEF OneLined, Stray, S!Malformed, S!Line
<1>4. line \in Lines
  <2>1. S!Malformed \in Lines
    BY DEF S!Malformed, S!Line, Lines
  <2>2. S!Line(250, FALSE) \in Lines
    BY DEF S!Line, Lines
  <2>3. OneLined(250) \in Lines
    BY <1>2, OneLineReply
  <2> QED
    BY <2>1, <2>2, <2>3, <1>3 DEF Stray
<1>5. <<line>> \in Seq(Lines) /\ wire' = wire \o <<line>>
  <2>1. Append(wire, line) = wire \o <<line>>
    BY <1>2, <1>4, AppendIsConcat
  <2> QED
    BY <2>1, <1>1, <1>4
<1>6. SmtpTypes'
  <2>1. wire' \in Seq(Lines)
    BY <1>1, <1>2, <1>4, AppendProperties
  <2>2. S!Outcomes' = S!Outcomes /\ Lines' = Lines
    BY DEF S!Outcomes, Lines
  <2> QED
    BY <1>1, <1>2, <2>1, <2>2 DEF SmtpTypes
<1>7. SmtpOrder'
  BY <1>1, <1>2, OrderKept
<1>8. SmtpQuiet' /\ SmtpOutcome'
  BY <1>1, <1>2 DEF SmtpQuiet, SmtpActive, SmtpOutcome
<1>9. ASSUME NEW R \in Seq(Nat), NEW b \in Nat, NEW W \in Seq(Lines), Hears(R, b, W),
             NEW V, V = W \o <<line>>
      PROVE  Hears(R, b, V)'
  <2>1. V = Append(W, line)
    BY <1>4, <1>9, AppendIsConcat
  <2>2. CASE line = OneLined(250)
    <3>1. V = W \o ReplyOf(250, 1)
      BY <2>1, <2>2, OneLineReply
    <3> QED
      BY <3>1, <1>1, <1>2, <1>9, HearsExtra
  <2>3. CASE Stray(line)
    BY <2>1, <2>3, <1>1, <1>2, <1>4, <1>9, HearsStray
  <2> QED
    BY <2>2, <2>3, <1>3
<1>10. ASSUME NEW R \in Seq(Nat), NEW b \in Nat, NEW W \in Seq(Lines), Deafened(R, b, W),
              NEW V, V = W \o <<line>>
       PROVE  Deafened(R, b, V)'
  BY <1>1, <1>10 DEF Deafened
<1>11. SmtpHears'
  BY <1>1, <1>2, <1>5, <1>9, <1>10, HearsMore
<1> QED
  BY <1>6, <1>7, <1>8, <1>11 DEF SmtpInv

LEMMA SmtpRestKeeps ==
  ASSUME SmtpInv, UNCHANGED smtp PROVE SmtpInv'
<1>1. /\ headers' = headers /\ step' = step /\ smtpPc' = smtpPc /\ stream' = stream
      /\ buffer' = buffer /\ begun' = begun /\ replies' = replies /\ broken' = broken
      /\ wire' = wire /\ answers' = answers /\ accepted' = accepted /\ fault' = fault
  BY DEF smtp
<1>2. SmtpTypes'
  BY <1>1 DEF SmtpInv, SmtpTypes, S!Outcomes, Lines
<1>3. SmtpOrder'
  BY <1>1, OrderKept DEF SmtpInv
<1>4. SmtpQuiet' /\ SmtpOutcome'
  <2>1. SmtpQuiet'
    BY <1>1 DEF SmtpInv, SmtpQuiet, SmtpActive
  <2>2. SmtpOutcome'
    BY <1>1 DEF SmtpInv, SmtpOutcome, S!Wanted
  <2> QED
    BY <2>1, <2>2
<1>5. SmtpHears'
  <2>1. CASE SmtpActive
    BY <1>1, <2>1, HearsAtRest
  <2>2. CASE ~SmtpActive
    BY <1>1, <2>2 DEF SmtpHears, SmtpActive
  <2> QED
    BY <2>1, <2>2
<1> QED
  BY <1>2, <1>3, <1>4, <1>5 DEF SmtpInv

LEMMA SmtpStep ==
  ASSUME SmtpInv, S!Next \/ UNCHANGED smtp PROVE SmtpInv'
<1>1. ASSUME NEW code \in (UNION {S!Wanted[n] : n \in DOMAIN S!Wanted}) \cup S!Refusals
      PROVE  code \in Nat
  <2>1. \A n \in DOMAIN S!Wanted : S!Wanted[n] \in SUBSET Nat
    BY DEF S!Wanted
  <2>2. S!Refusals \in SUBSET Nat
    BY DEF S!Refusals
  <2>3. CASE code \in S!Refusals
    BY <2>2, <2>3
  <2>4. CASE code \in UNION {S!Wanted[n] : n \in DOMAIN S!Wanted}
    <3>1. PICK n \in DOMAIN S!Wanted : code \in S!Wanted[n]
      BY <2>4
    <3> QED
      BY <2>1, <3>1
  <2> QED
    BY <2>3, <2>4
<1>2. CASE S!Connect \/ S!ConnectFails \/ S!Written \/ S!StreamEnds \/ S!Breaks \/ S!Closes
  BY <1>2, ConnectKeeps, ConnectFailsKeeps, WrittenKeeps, StreamEndsKeeps, BreaksKeeps, ClosesKeeps
<1>3. ASSUME NEW n \in 0 .. Len(wire), S!Consume(n) PROVE SmtpInv'
  BY <1>3, ConsumeKeeps
<1>4. ASSUME NEW code \in (UNION {S!Wanted[n] : n \in DOMAIN S!Wanted}) \cup S!Refusals,
             NEW lines \in 1 .. 2, S!Answer(code, lines)
      PROVE  SmtpInv'
  BY <1>1, <1>4, AnswerKeeps
<1>5. ASSUME NEW line \in {S!Malformed, S!Line(250, TRUE), S!Line(250, FALSE)}, S!Intrudes(line)
      PROVE  SmtpInv'
  BY <1>5, IntrudesKeeps
<1>6. CASE UNCHANGED smtp
  BY <1>6, SmtpRestKeeps
<1> QED
  BY <1>2, <1>3, <1>4, <1>5, <1>6 DEF S!Next

LEMMA SmtpKept == OnboardingSpec => []SmtpInv
<1>1. OnboardingInit => SmtpInv
  BY SmtpStarts DEF OnboardingInit
<1>2. SmtpInv /\ [OnboardingNext]_<<part, mailVars, onboarding, smtp>> => SmtpInv'
  <2> SUFFICES ASSUME SmtpInv, [OnboardingNext]_<<part, mailVars, onboarding, smtp>> PROVE SmtpInv'
    OBVIOUS
  <2>1. S!Next \/ UNCHANGED smtp
    BY DEF OnboardingNext
  <2> QED
    BY <2>1, SmtpStep
<1> QED
  BY <1>1, <1>2, PTL DEF OnboardingSpec

(* What the reader and the adapter keep, and what is on the wire, have     *)
(* their types.                                                            *)
THEOREM SmtpTypeCorrect == OnboardingSpec => []S!TypeOK
<1>1. ASSUME SmtpInv PROVE S!TypeOK
  <2>1. SmtpTypes
    BY <1>1 DEF SmtpInv
  <2>2. \A w \in Seq(Lines) : w \in Seq([code : Nat, last : BOOLEAN])
    <3>1. PICK T : T = [code : Nat, last : BOOLEAN]
      OBVIOUS
    <3>2. Lines \subseteq T
      BY <3>1 DEF Lines
    <3>3. \A w \in Seq(Lines) : w \in Seq(T)
      BY <3>2, SeqMonotonic
    <3> QED
      BY <3>1, <3>3
  <2> QED
    BY <2>1, <2>2, WantedAre DEF SmtpTypes, S!TypeOK
<1> QED
  BY <1>1, SmtpKept, PTL

(* The text of a mail is written only to a server that took the greeting,  *)
(* the sender and the recipient and asked for the text, whatever stray     *)
(* replies came before.                                                    *)
THEOREM TextWhenAskedFor ==
  OnboardingSpec => [](step >= 6 => Len(answers) >= 5 /\ \A i \in 1 .. 5 : S!Pleased(i))
<1>1. SmtpInv => (step >= 6 => Len(answers) >= 5 /\ \A i \in 1 .. 5 : S!Pleased(i))
  BY DEF SmtpInv, SmtpOrder, S!Pleased
<1> QED
  BY <1>1, SmtpKept, PTL

(* The worker's verdict on a mail is the server's: sent when the server    *)
(* took it over, given up when it refused for good, tried again when it    *)
(* put it off or the connection or a stray line is to blame; in whatever   *)
(* pieces the replies came and whatever came between them.                 *)
THEOREM VerdictIsServers == OnboardingSpec => []VerdictIsTheServers
<1>1. SmtpInv => VerdictIsTheServers
  BY SmtpVerdict
<1> QED
  BY <1>1, SmtpKept, PTL
=============================================================================
