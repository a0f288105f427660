SPECIFICATION OnboardingSpec
CONSTANTS
  Request = {r1, r2, r3, r4, r5}
  Email = {ann, bob}
  Slug = {acme}
  IdempotencyKey = {k1, k2}
  Nobody = Nobody
  Api = {api1, api2}
  Worker = {worker}
  Key = {key1, key2}
  Tenant = {shop}
  Platform = platform
  User = {cy, dee}
  MaxMails = 1
SYMMETRY Symmetry
INVARIANT OneInvitationPerInvitee
INVARIANT TenantHasItsOwner
INVARIANT InviteeCanActivate
INVARIANT RetryReplays
INVARIANT NoMailIsRefused
INVARIANT MailedLinksFit
INVARIANT VerdictIsTheServers
CHECK_DEADLOCK FALSE
