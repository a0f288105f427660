# Booking OS: a TLA+ verification development

TLA+ models of the parts of Booking OS whose correctness depends on the order in
which things happen: transactions that interleave, workers that crash, answers
that are lost, tokens that are replaced while somebody still holds them. Each
module is translated from the source; `PROJECT.json` names the lines every
definition stands for, every run, every mutant and every theorem.

## 1. The system

Booking OS is a multi-tenant booking platform at its foundation stage. What runs:

| Unit | What it is |
|---|---|
| `apps/api` | NestJS API on PostgreSQL (row-level security per tenant), Redis, S3. Modules `identity`, `sessions`, `memberships`, `authorization`, `tenancy`; also bootstrap CLI, health, dependencies, observability, OpenAPI |
| `apps/worker-critical` | drains the transactional outbox into BullMQ and sends identity e-mail over SMTP |
| `apps/worker-batch` | scaffold: connects a queue, handles a smoke job |
| `apps/web-console` | Next.js console with back-ends-for-front-end that forward cookies to the API |
| `apps/web-storefront` | static shell |
| `packages/*` | shared policy (`auth`), generated client, contracts, i18n, observability, UI |

### Inventory

| Component | State | Operations | Hard | Correct when |
|---|---|---|---|---|
| Transactional outbox (`worker-critical/src/outbox`, `.../queue`, `api/src/reliability`) | rows of `outbox_events`, the `dispatching` flag, BullMQ jobs | append, claim with `SKIP LOCKED`, `queue.add`, mark, fail, poll, shut down | outlived leases, crashes between two systems, lost answers | nothing is lost, claims are exclusive while leases hold, attempts and duplicates are bounded, every event settles |
| Identity e-mail (`worker-critical/src/identity-email`) | a job's attempts, what SMTP accepted | process, classify, retry; connect, command, read replies | acceptance followed by a failure, replies that come in pieces or never | duplicates are bounded, only permanent errors lose mail, a verdict is the server's |
| Sealed links (`api/.../identity`, `api/.../memberships`, `worker-critical/src/identity-email`, `packages/auth`) | the envelope keys each process runs with, mails waiting, links sent | issue and seal a link, dispatch and open it, accept it; add, switch to and retire a key | six writers and one reader of the same associated data, processes that restart at different times | a committed mail is read, a link fits its page, host and user |
| Sessions (`api/.../sessions`) and authorization reconciliation (`api/.../authorization`) | `auth_sessions`, `auth_session_tokens` | create, validate, rotate, detect reuse, compromise, revoke, refresh the snapshot, elevate | READ COMMITTED transactions that read before they lock and lock in different orders | one current token, one successor, an ended family stays ended |
| Identity and credentials (`api/.../identity`, login) | users, password hashes, one-time tokens, sessions opened | request, reissue and use a link, replace a password, log in, rehash | links used twice or while reissued, a login in flight across a reset | a link works once, one link is outstanding, a reset ends what was open |
| Login abuse limits (`sessions/infrastructure/abuse`) | Redis counters with expiry | delay, count a failure, forgive on success | counters shared by accounts and networks | nobody's success removes another's delay |
| Memberships and ownership (`api/.../memberships`) | tenants, memberships, role assignments, versions | accept, promote, demote, suspend, revoke | owners counted by two at once, authority that lapses before the commit | an active tenant has an owner, changes are made on current authority |
| Onboarding and invitations (`api/.../memberships`, `api/.../tenancy`) | tenants by slug, idempotency records, invitations, activation links | provision, invite, resend, accept, expire, activate | a retry under a running key, acceptance during a resend | one live invitation per invitee, a provisioned tenant can get its owner, a retry repeats the answer |
| Tenant RBAC (`api/.../authorization`) | custom roles with versions and permissions, assignments | create, update, replace, archive, grant, revoke | edits on stale looks, authority that lapses | archived roles are held by nobody, versions tell permissions, no blind overwrite |
| Web console (`web-console`) | the session cookie, calls in flight, pages in several tabs | forward, fetch a CSRF token, pass cookies on; activate, sign in, reset, accept | answers that overtake each other or are lost, tokens rotated under way | the browser holds the newest token, is not taken for a thief, is not refused without cause; a page knows what it did |
| Pages of members, sessions and tenants (`web-console/components`, `.../src/components/session`) | the list shown, loads under way, the change a page is about, an idempotency key | load, change, invite; submit, try again, show the status | loads that overlap, answers lost, requests served after they were given up, others changing the same rows | a page shows its own work, offers what is permitted, a visit makes one tenant |
| CSRF proofs (`sessions/infrastructure/http`, `identity/infrastructure/http`, `packages/auth`) | a proof between its issue and its use, clocks and allowed origins of the processes | issue, verify; list an origin, restart | proofs at the edge of their window, clocks that differ, processes with different configuration | a proof is accepted for its time and refused only with cause |
| Tenant data sessions and policy verifier (`api/src/database`, `api/.../tenancy/infrastructure`) | the role and tenant of a pooled connection, the catalog's policies, privileges and roles | begin, set role and tenant, check authority, work, end; verify; migrate | what a migration adds acts together with what is there already | a catalog the verifier accepts keeps tenants apart |
| Session lifetime (`sessions/application/use-cases/validate-session.ts`) | idle and absolute expiry, last use | find, judge, touch, elevate | touches computed from a row and a clock read before, writes that give way to each other | an unused session ends, a used one does not |
| Platform bootstrap (`api/src/cli`, `api/prisma/seed.ts`) | the administrator role, its permissions, who has it, his link | seed, bootstrap | operators and deployments at the same time | one administrator, and one link for him |
| Readiness (`api/src/health`) | the run of probes, the outcome of the last | ask, probe, time out, serve | requests that share a run and its outcome | who is told "ready" is told so about recent answers |
| Shared database client (`scripts/prisma`) | the lock directory, the client, the marker | wait, take over, generate, mark | a builder killed anywhere, a lock that looks old | a client that loads fits its marker |

`PROJECT.json` lists the remaining components with the reason they are left out.

Components meet in three ways: by shared rows under PostgreSQL locks (sessions,
credentials, memberships, roles), by the outbox (API writes, worker reads), and by
the authorization version that membership and role changes raise and session
snapshots carry.

## 2. Modules

| Module | Models | Checked by |
|---|---|---|
| `Delivery` | what the outbox promises: at-least-once hand-over | refined by `Outbox` |
| `Outbox`, `OutboxProofs` | claim, dispatch, mark, fail, jobs, mail, crashes, leases | `MCOutboxRecovery`, `MCOutbox` |
| `SessionRotation`, `ProgressProofs` | one session family under concurrent requests | `MCEntry`, `MCSessionRotation`, `MCProgress` |
| `SessionLifetime`, `EntryProofs` | idle and absolute expiry of one session | `MCEntry` |
| `Ownership` | what a tenant is promised about its owners | refined by `TenantOwnership` |
| `TenantOwnership`, `OwnershipProofs` | accept, promote, demote, suspend, revoke as transactions | `MCAuthority`, `MCProgress` |
| `TenantRbac`, `AuthorityProofs` | edits of custom roles and their holders as transactions | `MCAuthority` |
| `Credentials`, `CredentialsProofs` | one account: links, password, logins | `MCCredentials` |
| `Onboarding`, `OnboardingProofs` | one slug: provisioning, invitations, activation | `MCOnboarding` |
| `SealedMail`, `OnboardingProofs` | one-time links from the API to the mailbox, key rotation | `MCOnboarding` |
| `SmtpSubmission`, `OnboardingProofs` | the handing over of one mail to the SMTP server | `MCOnboarding` |
| `LoginAbuse`, `ConsoleProofs` | the delays on logins | `MCConsole` |
| `ConsoleSession`, `ConsoleProofs` | a browser, the console's back end, the API's session routes | `MCConsole`, `MCConsoleSession` |
| `OwnerJourney`, `EntryProofs` | the pages that let a new user in | `MCEntry` |
| `CsrfProof`, `AuthorityProofs` | the proofs against cross-site requests between issue and use | `MCAuthority` |
| `ConsolePages`, `AuthorityProofs` | the panels of members and of sessions | `MCAuthority` |
| `TenantCreatePage`, `AuthorityProofs` | the creation of a tenant and its status | `MCAuthority` |
| `PlatformBootstrap`, `EntryProofs` | the first administrator and the seed of his role | `MCEntry` |
| `TenantIsolation`, `EntryProofs` | row-level security, the verifier of the catalog, tenant transactions | `MCEntry` |
| `Readiness`, `ProgressProofs` | the readiness probe with its shared runs and cache | `MCProgress` |
| `SharedClient`, `ProgressProofs` | the build of the generated database client behind a lock | `MCProgress` |

Operators named for a bug (`MarkFailedOffByOne`, `FindOwnersUnlocked`, ...) stand
beside the definition they vary; no specification uses them. Substituting one for
its original makes the property named in `PROJECT.json` fail, which shows that the
property depends on the code.

`MCEntry`, `MCAuthority`, `MCProgress`, `MCConsole` and `MCOnboarding` hold several modules *side by
side*: the variable `part` says which of them a behaviour runs, and the others rest
in one initial state. Nothing is composed there; the run asks the questions of all
its modules and is as exhaustive for each as a run of its own. Their proof modules
extend them, so that the theorems are about the specifications the runs check. Modules whose state
really meets are composed: `Ownership` with `TenantOwnership`, `Delivery` with
`Outbox`, sessions and authorization reconciliation in `SessionRotation`, browser,
back end and API in `ConsoleSession`.

### Outbox

`published`, `dispatched`, `dead`, `deferred`, `lease`, `attempts` are the columns of a
row; `step`, `held`, `cur`, `seen` the program counter and locals of
`dispatchBatch`/`markFailed`; `job`, `tries`, `stalls`, `owner`, `sent` the BullMQ job and
the mail server. `ClaimBatch` is the whole claim statement, and every await of the
loop ends a step, so a crash or a second worker fits between any two. Clock
readings are reduced to what the queries compare. `DropBatch` is the catch and
finally of the poll loop.

### SessionRotation

`Request` is the set of all requests ever made; `pc[r]` is the statement request `r`
runs next. `parent` is the chain of tokens in minting order, `rowLock` and `held` are
the row locks. A statement that waits for a lock is a disabled action; the writes
of a transaction appear in its last step, the commit. `Validate` reads without a
lock, `Find` and `Compare` are the two halves of the refresh (before and under the
token lock), `LockBoth`/`Recheck` the two row locks of the authorization refresh,
`FindTokens`/`LockNext` the snapshot and the row-by-row locking of an `UPDATE` of the
whole family. `DeadlockVictim` is PostgreSQL's deadlock detector, `Crash` any other
failure of a transaction.

### TenantOwnership

`tenant`, `status`, `version`, `userVersion` are columns; `role` is the role of a member's
one unrevoked assignment. `pc[r]` is the statement request `r` runs next and `call[r]`
what it asks for, with the authority its permission guard read. `LockUser` and
`LockActor` are the checks every authorised tenant transaction begins with,
`FindOwners`/`LockOwner` the snapshot and the row-by-row locking of
`SELECT ... ORDER BY user_id FOR UPDATE`, `LockTarget` the lock on the target and
the use case's decision, `Commit` all its writes, the version increment and the
deferred trigger. Locks are operators of `pc` and `call` (`Sharing`, `Updating`,
`SharingUser`, and `counted` for owner assignments), `WaitsFor` says who waits for
whom, `DeadlockVictim` and `Abort` are PostgreSQL's answers. Custom role changes and
password resets appear as what they do to the versions. The revocation of the
member's sessions is in `SessionRotation`, invitation rows are in `Onboarding`; here
the membership row alone decides between two acceptances.

### TenantRbac

`role[x]` is a custom role (status, version, permissions), `holds` the unrevoked
assignments, `member` what the authorization of a member depends on. An edit has two
halves, as in the browser: `LookAtRow` and `LookAtKeys` read the role's version and
its permissions by two statements (`seen`), `Guard` reads the editor's authority
(`context`), and then the transaction enters, checks that authority again (`Enter`,
`Recheck`), locks the role (`LockRole`), finds and locks the holders (`ListHolders`,
`LockHolder`, `found`, `locked`) or the target (`LockTarget`) and commits one of
`Create`, `Update`, `Replace`, `Archive`, `Grant`, `Revoke`; `Fail` rolls back. `Demote` (while
another owner remains) and `Suspend` are what other transactions do to members
(`TenantOwnership`). The escalation rule of
`grant-policy.ts` decides with what was read.

### Credentials

One account. `token` is the one-time links with their scope (platform or a tenant's
host) and state, `status`, `version` and `stored` the columns of the user (the hash as an
atom, `outdated` its algorithm), `session` the sessions opened. Requests arrive
(`Arrive`) and run statement by statement: reissuing is `LookUser`, `FindOutstanding`,
`LockOutstanding`, `Issue`; using a link is `LockToken`, a compare-and-set, and `Activate`,
or `FindSessions` and `Reset`, which ends the sessions found; a login is `Verify`,
`Resolve`, `Rehash`, `Create`. `Rehash` writes the hash of the typed password by user id,
as the code does. `Expire` lets a link lapse, `Fail` ends a request anywhere.

### Onboarding

One slug: `user`, `tenant`, `member`, `invitation`, idempotency records (`claimed`) and
activation links (`link`). `AskProvision`, `AskInvite`, `AskResend`, `AskResendOwner` and
`AskAccept` are arrivals. Provisioning claims its key (`Claim`), creates or finds the
user (`Identity`), checks for duplicates and writes tenant, membership, invitation
and event (`CheckDuplicate`, `Provision`); a repeated key replays or refuses. `LockTenant`
and `LockInvitation` lead to `Invite`, `Resend` and `ResendOwner`, `LockSelector` and
`LockMember` to `Accept`. `UseLink`, `Expire`, `Remove` (of a member) and
`Fail` may come anywhere between two statements.

### SealedMail

`setting` is what the deployment is configured with, `running[p]` what process `p` read
when it started; the bootstrap CLI is one of the API's processes. `Write` is any of the
six workflows that issue a link, each with the purpose, the associated data and the
event it writes (`BootstrapActivation` ... `OwnerOnboarding`); it may be one of several in
a transaction that ends by `Commit` or `Rollback`. `Dispatch` parses the event, opens the
envelope with the worker's ring and the associated data recomputed from the event, and
writes the links; what the worker calls a permanent failure goes to `refused`.
`Accepts` is what the API makes of a token on a page. `AddKey`, `SwitchActive` and `Retire`
are the operator's steps with the conditions the runbook names for them
(`docs/runbooks/identity-access-recovery.md`). An envelope opens under exactly its key and
its data, a token verifies for exactly its purpose; addresses keep the form
(`"display"`, `"normalized"`) they were written in, because writer and reader must agree
on it. SMTP's temporary failures are in `Outbox`, expiry and single use in `Credentials`.

### SmtpSubmission

`pc` is where `sendMail` stands and `step` the command it wrote last; `buffer`, `begun`,
`replies` and `broken` are the fields of `SmtpResponseReader`. `Consume` is the arrival of
a piece, of one line or several (`Reads`, line by line `Look`), `Written` the end of a write and the look for a
reply that is there already, `StreamEnds` and `Breaks` the events of the socket,
`Connect` and `ConnectFails` the check of the headers and the connection. `Answer`,
`Closes` and `Intrudes` are the server and the network: a reply of one line or two for
each command, a refusal for now (450) or for good (550), the end of the connection with
or without a line 421, and one line that answers nothing. What the worker makes of the
outcome is `JobFailsTemporarily` and `JobFailsPermanently` of `Outbox`.

### LoginAbuse

`count` and `until` are the Redis counters of an account, of a source network and of
both together; each Lua script is one step. `Tick` lets the window pass.

### ConsoleSession

`jar` is the browser's cookie, `cookie[c]` what a call carries, `offer[c]` the
`Set-Cookie` of the API's answer. A call goes through `Send`, the CSRF fetch and the
session middleware (`Authenticate`), guard and handler, and `Receive`, where the console
passes the cookie on or not (`Forwards`). Tokens are named after the call that minted
them. What happens inside one API call is `SessionRotation`; here each API step is
atomic. The membership's version stands for the user's authorization; the user's own
version (raised by a password reset) is in `SessionRotation`.

### CsrfProof

A change takes two requests: `Fetch` gets the proof (`Issues`) from one API process,
`Post` shows it to another (`Verifies`). A proof is the tuple of what its key and value
are derived from: the session for changes within one (`SessionProof`), the ten minutes
of its issue for a login (`BucketProof`), purpose and time for the public commands
(`IdentityProof`). `skew` is how far each process's clock is ahead, `listed` the origins
the deployment allows and `allowed[a]` those process `a` read when it started (`List`,
`Restart`). `Send` is the console's own check of the origin.

### ConsolePages

`page` is the panel of members or that of sessions; `role`, `status` and `alive` are the
API's state. `load[i]` is the i-th load, which asks who the viewer is and then reads the
list (`ReadMe`, `ReadList`, `ReadRoles`: the statuses and the roles of the members are two
statements), and sets it when it arrives (`Arrive`); loads overlap and the last to arrive
stays. `Click` is a button the list offers (`Offers`), `ChangeMember` and `ChangeSessions`
the API's whole change, `Answered` and `Unanswered` what the page does after it; the form
of invitations is `Submit`, `Invite`, `Invited`, `NotInvited`. `Elsewhere` and `EndsElsewhere`
are changes by others. A request whose fetch failed, or that the console's server
answered with 503, has been carried out, never will be, or is carried out later
(`GivesUp`): `late` holds such requests until the API serves them by `LateChange`,
`LateInvite` or `LateSessions`, after whatever the page has done and loaded since. Then
nothing tells the page, and a list it has read meanwhile stays without the change:
`PagesShowTheirOwnWork` is about the changes the API made while the page awaited them,
and says so. Its other exception is a list that came out of turn: `shownBy` is the load
whose list is shown, `latest` the latest load that ever was. Without either exception the
property fails, as the code allows both.

### TenantCreatePage

`IdempotencyKey` is made up once per visit of the form. `Submit` sends the values, `Serve`
is the API's provisioning of a submission, in any order and as late as it likes, `Fails`
the loss of request or answer, `Leaves` the move to the page of the status, `Load` its
query, which knows a tenant until its owner has accepted (`OwnerAccepts`). What happens
inside a provisioning is `Onboarding`.

### SessionLifetime

One session at rest: nobody rotates it, but its row is written by touches, snapshot
refreshes, elevation and revocation. `Find`, `Read`, `Admit` and `Touch` are the
middleware's look-up, the validator's, its decision against the clock, and the
touch, which goes through only if the row's version is what was read (`written` of a
call is empty). Versions are known by who changed them since. `Tick` holds while a
request would be under way longer than `MaxFlight`. What is on record may lag behind
the last answered request by the coalescing interval, or by two flights where a touch
gave way to that of another request, which had read its clock earlier:
`ExpiresWhenUnused` allows the later of the two (`Lag`). The session of an invited user
waits for him to accept (`invited`, `Onward`); `Elevate` sets `last_seen_at` and leaves
`idle_expires_at` alone, so that no touch is due for another interval although nothing
was prolonged: the bound is then `LagElevated`, which TLC finds to be exact. Beyond
both is a touch that gave way to a write of another kind, which records nothing
(`Recorded`), or an elevation before which that had happened (`vouched`).

### OwnerJourney

The console's pages in several tabs. `link` is the mailed links with what they still
open, `tab[t]` what a page shows (`told`), whether it offers to go on and whether it
waits; `wire` the calls and answers under way. The fragment of a link is taken into
memory and stripped from the address, so `Reload` mounts the page without it. The
API is atomic here and may refuse anything (`Refuse`); `Lose` turns an answer into the
refusal the page takes a network error for.

### PlatformBootstrap

`Operator`s run the command, `Seeder`s the seed of a deployment, which deletes the
role's permissions and inserts them again by statements of their own. `Lock` is the
advisory lock, `FindAssignment`, `FindRole`, `FindUser` and `Create` the statements of the
transaction, whose writes appear with the last. `Fail` is its time-out or the end of
the process. Links are used and expire, and other workflows create users. An
administrator whose link has expired is not issued another: a run that finds the
assignment returns early, and a reset is refused to a pending user.
`OneAdministratorOneLink` says so. It does not say that he can get in; that depends on
the link being used in time, or on another workflow that invites him.

### TenantIsolation

`catalog` is what PostgreSQL and the verifier read of one table and one role: whether
row-level security is enabled and forced, policies (for whom, with which `USING` and
`WITH CHECK`), privileges, ownership, memberships, superuser and `BYPASSRLS`. An
expression is `tenant` (the row's tenant is the session's), `any`, or unset.
`Enforces`, `Applies`, `Complete` and the four `...Fails` operators are the verifier;
`Exempt`, `Passes`, `Rows`, `May` and `Reached` are PostgreSQL's rules, external.
`Migrate` changes any one part of the catalog and withdraws the verdict, `Verify` gives a
new one. A request begins a transaction on a pooled connection, which keeps its
settings until `End`, and `Work` is any command, with no condition on the tenant at all.
`Reached` judges every command by the application's role: that a transaction sets it
(`SET LOCAL ROLE`) is in the model but no property would notice if it did not.

### Readiness

`waiting` are the requests that joined the run of probes, `outcome` and `age` what is
served from memory. Time is counted from the events it is about and saturates, so
the module runs forever and needs no bound on time.

### SharedClient

Schemas are versions; `client` and `marker` name the version the client was generated
from and the one the marker claims. `late[b]` says that a builder's time to wait for the
lock is over, `robbed` (history) that a lock was removed while a live builder worked
under it. A builder may be killed anywhere.

## 3. Runs

| Run | Instance | Shows |
|---|---|---|
| `outbox_recovery` | 2 workers, 1 event and, apart, 1 worker, 2 events, batch of 2; 2 faults; fair | nothing lost, claims exclusive, duplicates bounded by attempts and faults, refinement of `Delivery`, every event settles and every job ends |
| `outbox_lease` | violation | a late `markFailed` releases another worker's lease |
| `outbox_onboarding` | violation | onboarding mail gets a single attempt |
| `entry` | 3 session requests of any kind, 1 crash, 2 version changes; 2 requests and 11 ticks of one session; 2 tabs, 2 links, 2 calls; 2 operators, 2 seeds, 2 addresses; 2 tenants, 2 migrations | one usable token, revocations hold, no stale snapshot; expiry neither late nor early; pages know what they did; one administrator and no second link for him; an accepted catalog isolates |
| `session_reuse` | violation | the compromise of a reused family is lost to a deadlock |
| `authority` | 3 members, 2 requests; 2 editors, 1 role, 1 permission, 2 edits of any kind; 1 command, 2 processes, 1 host; 2 members or 2 sessions, 3 loads, 1 late request, 2 changes by others; 2 administrators, 2 submissions each, 2 slugs | the owner trigger never has to reject, versions tell authority and permissions, no change on lapsed authority, archived roles are held by nobody, no blind overwrite, refinement of `Ownership`; proofs live their time; pages show their own work and offer what is permitted; a visit makes one tenant |
| `progress` | 3 session requests; 2 tenant requests; 2 probers, 2 dependencies; 2 builders, 2 schemas; fair | every request is answered and every build ends; reuse ends the family unless its transaction was rolled back; readiness is recent; the client fits its marker |
| `credentials` | 4 requests of any kind, two scopes, timeouts anywhere | one outstanding link, a link works once, a reset ends every session that was active when it arrived |
| `credentials_reset` | violation | a login that checked the old password before the reset opens its session after it |
| `onboarding` | 5 requests, 2 users, 2 idempotency keys, expiry, removal and rollback anywhere; 2 APIs, 1 worker, 2 envelope keys, 1 mail; 1 submission with 1 stray line | one live invitation, an owner can still come, invitees can activate, retries replay; no mail is refused, links fit; the verdict on a mail is the server's |
| `console` | 3 calls of any kind, lost and late answers; 3 logins, 2 accounts, 2 networks | the browser holds the newest token, compromise and refusal have causes, failures keep their delay |
| `console_cookie` | violation | the token the permission guard rotates is withheld from the browser |

`Limit`, `MaxAttempts`, `JobAttempts` of the outbox are 25, 5, 5 in the code and 1-2
here, which already separates the first, a middle and the last attempt. Three session
requests are enough for every pairwise race with a third that reads or completes a
cycle; two ownership requests make every pairwise race, and a third member can be
the owner who remains or the target of both. Two edits of one role make every
pairwise race of editors; a second permission adds nothing that one present or absent
does not show. Four credential requests are a link, its reissue, its use and a login;
five onboarding requests are a provisioning, its retry, an acceptance and two resends.
One mail is enough, for mails do not read each other; the theorems are about any number.
Three calls are a rotation, a call on the old token and one that follows.
Two requests on one session are a touch and a touch or judgement that it overtakes,
and eleven ticks pass its absolute end at 10 with idle time 5, coalescing 2 and
flight 1, in the order of the code's values. A member who was revoked is invited like
one who never was, so `authority` begins with none; its editors begin as owners and are
demoted later. Two tabs are the one that uses a link and the one that
finds it used; two links an old and a new one. Two migrations are a change and
another that undoes or completes it; the verifier's findings depend on one part of
the catalog each or on a pair of policies. One connection is enough, for connections
share nothing. One command is enough, for proofs of different commands do not meet; the window
of 2, the life of 3 and a skew of 1 put an issue and a use before, at and behind each
edge, and time to 5 passes both. Three loads of a page are the first, one after a change
and one that overlaps it, the two changes by others one before and one after. One request
given up at a time is enough for it to be served before, during and after another and
its load. Two
submissions of two administrators are a retry and a conflict between visits. Replies
of one line or two have every shape the reader tells apart, and one stray line is enough
to put replies out of step with commands.
Two builders are the holder of a lock and one who thinks it old, and
two schemas the one before and after an edit. Edits go forward only: the marker is
written with the fingerprint taken at the start of a build, so an edit made and undone
while the generator runs may leave the client of the undone edit under a marker that
fits; the property compares with "not older than" and is not about that. `MaxVersion`,
`MaxChanges`, `MaxCrashes`, `MaxFaults` and `MaxTime` are bounds of the model only. Runs
switch off the deadlock check because all these systems may stop: everything settled
and every request answered. No run lists a type invariant. Every module with a theorem
has its types in the inductive invariant (section 5), as `TypeOK` or, where the module
is composed under other names, as what the proof needs of it; `TypeOK` of
`SmtpSubmission` follows from it (`SmtpTypeCorrect`).

The violations are disagreements between a statement of the repository and its
code; `PROJECT.json` quotes each statement with its line. Three more the models show
without a run of their own: `docs/runbooks/identity-access-recovery.md:70` has an operator
replace a link that expired undelivered by the normal resend or reset flow, which
issues nothing to a first administrator who is still pending (`OneAdministratorOneLink`);
a password reset leaves sessions alone that wait for the
acceptance of an invitation (`SessionRotation`, kind `reset` of a pending family), and
two owners who demote each other deadlock, which the API does not map to a
retryable answer (`TenantOwnership!DeadlockVictim`).

## 4. Fairness

Outbox: the poll interval keeps firing (`setInterval`), the loop's awaits return or
throw, leases and back-offs elapse with the clock, a container that exited is
restarted, BullMQ gives waiting jobs to a running worker. Nothing is assumed of
crashes, of lost answers or of how SMTP answers.

Sessions and ownership: a statement that can run does run, per request; PostgreSQL
resolves deadlocks. Nothing forces a request to arrive, an overlap to end or a version
to change.

Readiness: timers fire and promises settle (`R!Passing` is the tick, a probe's time-out
and the end of a run), but no dependency has to answer. Shared client: a builder that
can step does, and its wait for the lock has a deadline (`Deadline`); nobody has to
release anything, so a killed builder's lock may stay until it is old.

The other modules state no fairness and are checked for safety.

## 5. Proofs

Checked by TLAPS for every value of the constants. The only assumptions are the named
`ASSUME`s (`OutboxAssumption`, `SessionAssumption`, `OwnershipAssumption`,
`CredentialAssumption`, `ConsoleAssumption`, and for the modules side by side
`AbuseAssumption`, `AuthorityAssumption`, `EntryAssumption`, `ProgressAssumption`,
`OnboardingAssumption`): bounds are numbers, kinds are known, a placeholder for "nobody"
is nobody, idle time is not longer than a session's life, the coalescing interval is not zero. The theorems about
`SealedMail` carry `HostsApart` instead: the platform is no tenant, and neither is the
placeholder for "no tenant". No theorem assumes that a set is finite or a number small:
`Max...` bounds occur in guards and may be any number.

Every safety property of a passing run is a theorem. Few are inductive as they
stand; what follows says what had to be added, and why. In the modules side by side a
first lemma says that a step is of one of them.

### Outbox

`TypeCorrect`; `HandedOver` (dispatched rows reached the queue) by the invariant that an
event whose loop is past `queue.add` is handed over; `Exclusive` is inductive with
`TypeOK`; `Implements` maps every step to a `Delivery` step or a stutter.

`Bounded` (attempts and mails are bounded by the configured attempts and the faults) is
about two accounts. `ClaimsInv`: a worker who holds an event without the running lease
has cost a fault; once an event is at its maximum, each further claim, each worker
that may still release it by an old reading (`Low`) or is stopping (`Weak`), and its being
claimable while nobody has it (not `Guarded`) have cost one more. `MailsInv`: each claim pays
for one job, whether it has been added or its claimer may yet add it (`Adders`), and a
job pays for its attempts and one recovery from a stall (`Left`).

### Sessions, readiness, shared client (`ProgressProofs`)

The invariants of `SessionRotation` are stacked, each inductive relative to those before
it. `Locking`: no row is locked twice, a request about to write holds its lock.
`Fate`: whoever holds the session row found the family alive, whoever sweeps tokens
without it found it dead -- this is why the sessions-then-tokens order of the
revocations is needed. `Pending`: a pending family has its first token only and no
rotation under way. `Chain`: a token has at most one child and then is replaced, one
token is current, and what is about to be rotated is that token. `Versions`: a
version that can still be written is not behind the snapshot. `Ends`: where a
logout or revocation can stand before it answers. The theorems `OneCurrent`,
`SingleSuccessor`, `Usable`, `OneUsable`, `ReusedDead`, `Sticks`, `NoRevival`, `NoRegress` follow. `OneUsable` is what
the run `entry` checks of the chain: a live family has exactly one usable token;
`OneCurrentToken`, `AliveIsUsable` and `DeadStaysDead`, the invariants it is made of, are
theorems only.

`ReadyIsRecentlySo`: a "ready" is told of by answers not older than a run's time-out
and the life of the cached outcome. `Fresh` relates what is served to when each
dependency last answered: during a run, no reply that counts is older than the run;
after it, none is older than the time-out and the outcome's age.

`ClientFits`: `Alone` says that, while no lock was taken from a live builder, whoever
works holds the lock, works alone, generates for a schema not older than the marker's
and finds the client he generated; `Fingerprints`, that markers speak of schemas that
have been and builders produce what is not older than the fingerprint they took.

### Memberships and ownership (`OwnershipProofs`)

The inductive invariant is `IInv`. `Owned` says an active tenant has an
active owner and one being provisioned has no roles. `Exclusive` says row locks
exclude each other. `Reading(r)` says that what a transaction has read under its
locks is still true: the owners it counted are owners, its actor has the status,
role and versions it carries, the target still fits the verdict. `TriggerNeverRejects`
is not inductive without them: a demotion is safe because another owner it counted
cannot be demoted by anybody else before it ends (`OwnerRemains`), a suspension
because its target is no owner. `AlwaysOwned`, `RolesFitStatus`,
`VersionTellsAuthority`, `AuthorityHolds` and `StatusAdvances` follow (`AlwaysOwned`,
`RolesFitStatus`, `VersionTellsAuthority` and `StatusAdvances` are theorems only), and
`Refinement` maps each commit to `Activate`, `Gain`, `Lose` or a stutter of `Ownership`.

### Credentials (`CredentialsProofs`)

`LinksInv` and on top of it `CredentialInv`. `Found`: the links a reissue found are of its
purpose and scope, and those it has locked still work; `Exclusive`: a link's row is
locked by one transaction; `Using`: a link being used still works, and one that
completed something is consumed. With these `OneWorks` is inductive: a new link is
issued when all of its kind that worked are locked by the issuer and replaced, or
when the unique index answers a conflict. `OneLeft` is the other half of `OneOutstanding`:
whoever was replaced left one that works or was used. `LinkIsUsedOnce` follows from
`Using` (`UsedOnce`). For `ResetEndsSessions`, `ActiveUser` says that a login past its password
check and a request for a reset have an active user, and `Ending` that the active
sessions which a reset met are those it is about to revoke: it finds them after it
locked the link.

### Console and login delays (`ConsoleProofs`)

`TokenInv` says of the tokens: only an answered call has minted one, and offers it
(`Minting`); what the browser and the calls carry was given to the browser (`Carrying`);
a session has one token that is not replaced (`OneCurrent`). `ConsoleInv` adds what links
the two sides. `Succession`: if the browser holds a token with a successor, the answer
with that one is under way, lost or withheld by the console. `Stale`: a token past its
overlap is carried only by a call that outlived it, or because the browser could not
know better. So whoever presents a replaced token too late was late, or an answer had
been lost or withheld (`ReuseIsExplained`), the browser has the newest it was given
(`NewestTokenIsKept`) and a refused call has one of the listed reasons
(`RefusalIsExplained`). Steps of the API are first reduced to four effects: let through,
answered without a token, a session opened, a successor minted.

`DelayIsKept` needs that the counter of an account *and* network together is at least the
failures that no success of this pair has forgiven, and expires no sooner (`Counted`).
That more failures never mean a shorter delay is about a recursive function (the doubling
up to the limit) and is proved with a least counterexample in place of induction.

### Authority (`AuthorityProofs`)

Custom roles (`RbacInv`): a role is locked by one request (`RoleLocks`), a member locked for
a change is not the author of another under way (`MemberLocks`), so an author's
membership stays as it was when his transaction began (`Exact`); holders of a role are
found by whoever archives it or replaces its permissions, as grants of it wait
(`FoundAll`), which `NobodyHoldsAnArchivedRole` needs; a role that has the version its editor saw has the
permissions he saw, although he read them by two statements (`SeenAsOf`), which
`NothingIsOverwrittenUnseen` needs; an authorization whose version is current was built
from what is current (`Authorized`), which `VersionsTell` and `ActsOnCurrent` need: the
versions that edits raise are the whole of what a change checks again.

CSRF proofs (`CsrfInv`): the proof under way is the one issued by the process and at the
time recorded (`Issued`), so the verdict depends on its age by the two clocks (`Due`); the
theorem is about any window, life and skew.

Pages (`PagesInv`): loads begin in order, and what was shown has begun (`InOrder`); a list,
shown or on its way, that misses a change which the page awaited is not left so: the page
is busy or tells of an error, or a later load is in flight, or has been shown already
(`OwnWork`); a list holds what was read, but for members who changed since (`AsRead`), so a
change on its way, given up or not, is permitted unless what it depends on has moved
(`OnItsWay`). `VisitMakesOneTenant` rests on `Submitted` and `Made`: a
submission and a tenant bear the key of their visit, which tells visits apart.

### What lets a user in (`EntryProofs`)

`CatalogIsolates`: what the verifier accepted is still so (`Sound`: a change withdraws the
verdict), a session has a connection of its own (`OwnConnection`) and has named its tenant
before its first command (`Named`). The heart is a lemma without state: where none of the
four `...Fails` holds, the rows that any command reaches are the named tenant's.

`OneLink`: the advisory lock lets one bootstrap run (`OneRuns`), so what it found is
still so or has gone on, never back (`Found`); there is one administrator with a link
if he needs one (`Appointed`), and his role has its permissions unless a seed is writing
them or stopped half-way (`Entitled`).

`EndsWhenUnused`: until an elevation the recorded expiry follows the recorded use, and
it provides for the last use on record but for `Lag`; after it, for that use and for those
that no touch was due for, but for `LagElevated` (`Record`, `Provides`). What a request
under way has read, or goes on to accept with, is bounded by its own flight and that of
the request whose touch came between (`Flights`).
`PagesKnow`: until it is told or an answer is lost, a page has one message under way, waits
for it and will hear by it of what it did (`Waiting`); what a page tells is backed by what
took effect (`Told`, `Posted`).

### Onboarding and sealed links (`OnboardingProofs`)

`OnboardingInv`: requests are about rows that are there (`Asked`), row locks exclude each
other (`Locking`), and what a request has read under its locks is still so (`Reading`): the
invitation it resends or accepts is pending, the person it invites is no member, the
key it claims is free. Therefore issuing an invitation replaces the one that was
pending and adds none elsewhere (`OneInvitation`), the loss of an invitation comes with
a new one or with an owner (`NeverWithoutOwner`), and the link that activates the invited
account is renewed with it (`CanActivate`). `Claims` and `Answers` say who holds an
idempotency key and why a request under it was answered as it was (`Replays`).

`SealedMail`: `Inv` is `TypeOK`, `KeysReach` and `NoMailIsRefused`. That no mail is
refused needs `KeysReach`: the keys anybody seals with, or would after a restart, are in
every running ring, which the order of the runbook's steps maintains; and it needs
that each of the six writers agrees with the reader (`WrittenReads`).
`CommittedMailIsRead` and `DeliveredLinksFit` follow without any fairness.

### Submission over SMTP (`OnboardingProofs`)

`VerdictIsServers` (a mail called sent was accepted, one given up was refused, one tried
again was put off or disturbed) is about any number of lines in pieces of any size. What
the server *said* (`Said`) is its answers in order, with at most one stray 250 among them
and, after all others, the 421 with which it closes. `Numbered` gives each line that the
adapter has not heard the place of the reply it belongs to, so a reply of two lines may be
cut anywhere. The invariant `SmtpInv` is that the replies the adapter waits for are the
next of what was said (`Hears`), or that the reader waits for the end of a stray reply
that nobody sends and the adapter only has the end of a write before it fails
(`Deafened`). A stray line that is malformed, or begins a reply, has no place in the
numbering (`Stray`); the reader stops at it or at the next line of another reply
(`Missed`), and then the fault is on record.

So the adapter may be one answer ahead of the server, when a stray 250 was taken for
one, and the verdict still stands. Only the fifth command is answered by 354 and only the
seventh by 221: whoever writes the text has heard the first five answers
(`TextWhenAskedFor`), and whoever calls a mail sent has heard all seven
(`FarewellIsAnswered`). An error is an answer the server gave (`SaidIsAnswer`),
for a stray reply is a 250, and with a 421 the fault is on record. What `Reads`
returns is a function on prefixes; that the invariant survives each line (`ReadingFollows`,
`ReadingDeaf`) is an induction, carried out as the impossibility of a first line that breaks
it (`Least`), which needs no induction theorem with an operator parameter.

### Only model-checked

`EventuallySettled`, `EveryRequestEnds` and `ReuseEndsUnlessRolledBack` are liveness: fairness
and ENABLED are outside the prover.

## 6. Not modelled

Observability, the generated client, the storefront, documentation tools and
infrastructure keep no state whose order of change matters. Request plumbing of the API
(validation, error mapping, route metadata, configuration) is stateless. Cryptography
is taken as such: tokens, hashes and envelopes are atoms. Listings and previews are
reads and left out where nothing is decided on them. Audit rows are written in the transactions modelled and read by
nothing. The batch worker handles a smoke job only. PostgreSQL's locking, visibility
and row-level security are modelled from how the code uses them and marked external.

Partly modelled: the outbox leaves out the start-up check of its queue and the
validation of payloads; the throttle of reset requests is left out of `Credentials`; provisioning of roles and permissions other than
the administrator's is left out of `PlatformBootstrap`; the clients of PostgreSQL,
Redis and S3 behind the probes are left out of `Readiness`. `SmtpSubmission` leaves
the text of a mail out, its header check is a Boolean, and a write ends or fails: that one
which waits for a full socket buffer would wait for ever if the server closed
meanwhile is outside it, as mails are smaller than that buffer.

Code that nothing calls is not modelled: `ProvisionUserUseCase`,
`BuildPlatformAuthorizationContextUseCase` with its adapter (a second list of the
platform's permissions that lacks `platform.security.session.revoke`), the readiness
checker that `Readiness` has replaced, and the transport of the generated client.

Hazards no property covers are listed in `PROJECT.json` with the reason.
