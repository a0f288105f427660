---------------------------- MODULE MCOnboarding ----------------------------
(* An instance for TLC of three modules side by side: the mails with       *)
(* one-time links while the envelope keys are rotated, their submission to *)
(* the SMTP server, and the tables of tenant onboarding.  Each behaviour   *)
(* is one of a single module, the others rest.  Requests, addresses and    *)
(* idempotency keys are interchangeable.                                   *)
EXTENDS SealedMail, TLC

CONSTANTS Request, Email, Slug, IdempotencyKey, Nobody   \* Onboarding

VARIABLES
  part,       \* the module that runs
  user, tenant, member, invitation, grant, late, link, claimed, pc, call,
  headers, step, smtpPc, buffer, begun, replies, broken, stream, wire, answers, accepted, fault

(* The missing value is nobody's. *)
ASSUME OnboardingAssumption == Nobody \notin Request \union Email \union Slug \union IdempotencyKey

S == INSTANCE SmtpSubmission WITH pc <- smtpPc
O == INSTANCE Onboarding WITH Key <- IdempotencyKey, None <- Nobody

onboarding == <<user, tenant, member, invitation, grant, late, link, claimed, pc, call>>
smtp == <<headers, step, smtpPc, buffer, begun, replies, broken, stream, wire, answers,
          accepted, fault>>
Symmetry == Permutations(Request) \union Permutations(Email)
              \union Permutations(IdempotencyKey)

OnboardingInit ==
  /\ part \in {"onboarding", "mail", "smtp"} /\ Init /\ O!Init /\ S!Init
  /\ part # "mail" => setting.active = CHOOSE k \in Key : TRUE
  /\ part # "onboarding" => \A e \in Email : user[e] = "active"
  /\ part # "smtp" => headers
OnboardingNext ==
  \/ part = "onboarding" /\ O!Next /\ UNCHANGED <<part, mailVars, smtp>>
  \/ part = "mail" /\ Next /\ UNCHANGED <<part, onboarding, smtp>>
  \/ part = "smtp" /\ S!Next /\ UNCHANGED <<part, mailVars, onboarding>>
OnboardingSpec == OnboardingInit /\ [][OnboardingNext]_<<part, mailVars, onboarding, smtp>>

(* A member is invited once at a time, whatever is issued and resent.      *)
OneInvitationPerInvitee == O!OneInvitationPerInvitee

(* A provisioned tenant has an owner, or a way for one to come.            *)
TenantHasItsOwner == O!TenantHasItsOwner

(* Who is invited can activate the account that accepts.                   *)
InviteeCanActivate == O!InviteeCanActivate

(* A provisioning request repeated under its key repeats the answer.       *)
RetryReplays == O!RetryReplays

(* The worker's verdict on a mail is the SMTP server's.                    *)
VerdictIsTheServers == S!VerdictIsTheServers
=============================================================================
