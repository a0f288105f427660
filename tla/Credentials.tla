---------------------------- MODULE Credentials ----------------------------
(***************************************************************************)
(* The account of one user of booking-os: password, mailed activation and  *)
(* reset links, and the sessions that logins open.  Requests arrive at     *)
(* several hostnames (Scope), run concurrently and are made once; a link   *)
(* is named after the request that issued it and a password after the      *)
(* request that chose it.  Transactions run at READ COMMITTED: their       *)
(* writes appear at the commit, their row locks are operators of pc.       *)
(***************************************************************************)
EXTENDS Naturals, FiniteSets

CONSTANTS
  Request,   \* requests, each made once
  Asked,     \* what they may ask for
  Scope,     \* platform or tenant, each with its hostname
  Tenant,    \* the scopes that can invite
  Original   \* the password an active user starts with

Kinds == {"forgot", "invite", "activate", "reset", "login"}
Access == {"none", "pending", "active"}
Password == Request \union {Original}
Label == {"new", "look", "find", "lock", "insert", "token", "sessions", "write",
          "verify", "resolve", "rehash", "create", "ok", "refused", "failed"}

ASSUME CredentialAssumption ==
  /\ Asked \subseteq Kinds
  /\ Tenant \subseteq Scope
  /\ Scope # {}
  /\ Original \notin Request

VARIABLES
  status,    \* users.status
  version,   \* users.authorization_version
  stored,    \* the password whose hash is stored, as a set of at most one
  outdated,  \* its hash has parameters below the policy
  access,    \* role assignment and membership, or open invitation, per scope
  token,     \* token[t]: the link that request t issued
  session,   \* session[r]: the session that login r opened
  pc,        \* the statement a request is about to run
  call,      \* what it asks for
  found,     \* links or sessions its last query returned
  subject,   \* what a login found out about its user
  before,    \* history: sessions active when a reset arrived
  replaced   \* history: passwords a reset has replaced

account == <<status, version, stored, outdated, access>>
request == <<pc, call, found, subject>>
history == <<before, replaced>>
vars == <<account, token, session, request, history>>

Purpose(k) == IF k \in {"forgot", "reset"} THEN "reset" ELSE "activation"
Outstanding(k, s) ==   \* consumed_at IS NULL AND revoked_at IS NULL
  {t \in Request : /\ token[t] \in {"live", "expired"}
                   /\ Purpose(call[t].kind) = Purpose(k)
                   /\ call[t].scope = s}
LockedBy(t) == {r \in Request : \/ pc[r] \in {"write", "sessions"} /\ call[r].token = t
                                \/ pc[r] = "insert" /\ t \in found[r]}
LocksUser(r) == call[r].kind = "invite" /\ pc[r] \in {"find", "lock", "insert"}
UserFree(r) == \A q \in Request \ {r} : ~LocksUser(q)
CredentialFree(r) ==
  \A q \in Request \ {r} : ~(call[q].kind = "reset" /\ pc[q] = "write")
Open(r) == pc[r] \notin {"new", "ok", "refused", "failed"}
Sessions(S) == {q \in Request : session[q] \in S}
-----------------------------------------------------------------------------
Init ==
  /\ \/ status = "pending" /\ stored = {}
     \/ status = "active" /\ stored = {Original}
  /\ version = 1
  /\ outdated \in {b \in BOOLEAN : b => status = "active"}
  /\ access \in [Scope -> Access]
  /\ token = [t \in Request |-> "none"]
  /\ session = [r \in Request |-> "none"]
  /\ pc = [r \in Request |-> "new"]
  /\ call \in [Request -> {[kind |-> "login", scope |-> CHOOSE s \in Scope : TRUE,
                            token |-> Original, typed |-> Original]}]
  /\ found = [r \in Request |-> {}]
  /\ subject = [r \in Request |-> [rehash |-> FALSE, state |-> "none"]]
  /\ before = [r \in Request |-> {}]
  /\ replaced = {}

Go(r, label) == pc' = [pc EXCEPT ![r] = label]
Note(r, S) == found' = [found EXCEPT ![r] = S]

(* The first step of each kind.  A password that breaks the policy is      *)
(* refused before any row is read.                                         *)
First(k) == CASE k \in {"forgot", "invite"} -> "look"
              [] k \in {"activate", "reset"} -> "token"
              [] k = "login" -> "verify"
Arrive(r) ==
  /\ pc[r] = "new"
  /\ \E k \in Asked, s \in Scope, t \in {q \in Request : token[q] # "none"} \union {Original},
        p \in {q \in Request : call[q].kind \in {"activate", "reset"} /\ pc[q] = "ok"}
                \union {Original} :
       /\ k = "invite" => s \in Tenant
       /\ (k \in {"activate", "reset"}) <=> (t # Original)
       /\ k # "login" => p = Original
       /\ call' = [call EXCEPT ![r] = [kind |-> k, scope |-> s, token |-> t,
                                       typed |-> IF k = "login" THEN p ELSE r]]
       /\ Go(r, First(k))
       /\ before' = [before EXCEPT ![r] = IF k = "reset" THEN Sessions({"active"}) ELSE {}]
  /\ UNCHANGED <<account, token, session, found, subject, replaced>>
WeakPassword(r) ==
  /\ pc[r] = "token" /\ Go(r, "refused")
  /\ UNCHANGED <<account, token, session, call, found, subject, history>>

(* Issue a link: only an active user gets a reset, only a pending one an   *)
(* activation.  An invitation has its user's row locked FOR UPDATE.        *)
LookUser(r) ==
  /\ pc[r] = "look"
  /\ call[r].kind = "invite" => UserFree(r)
  /\ Go(r, IF status = (IF call[r].kind = "forgot" THEN "active" ELSE "pending")
             THEN "find" ELSE "ok")
  /\ UNCHANGED <<account, token, session, call, found, subject, history>>
FindOutstanding(r) ==   \* the snapshot of the UPDATE that revokes
  /\ pc[r] = "find"
  /\ Note(r, Outstanding(call[r].kind, call[r].scope))
  /\ Go(r, "lock")
  /\ UNCHANGED <<account, token, session, call, subject, history>>
LockOutstanding(r) ==   \* it waits for their locks and checks them again
  /\ pc[r] = "lock"
  /\ \A t \in found[r] : LockedBy(t) = {}
  /\ Note(r, found[r] \intersect Outstanding(call[r].kind, call[r].scope))
  /\ Go(r, "insert")
  /\ UNCHANGED <<account, token, session, call, subject, history>>

\* Faulty variant: no unique index stops a second link.
ConflictUnchecked(r) == FALSE

Conflict(r) == Outstanding(call[r].kind, call[r].scope) \ found[r] # {}
Reissued(r) == [t \in Request |-> IF t = r THEN "live"
                                  ELSE IF t \in found[r] THEN "revoked" ELSE token[t]]
Issue(r) ==             \* insert under the unique index, and commit
  /\ pc[r] = "insert" /\ UserFree(r)
  /\ IF Conflict(r)
       THEN Go(r, "failed") /\ UNCHANGED token
       ELSE /\ Go(r, "ok")
            /\ token' = Reissued(r)
  /\ UNCHANGED <<account, session, call, found, subject, history>>
Expire(t) ==
  /\ token[t] = "live"
  /\ token' = [token EXCEPT ![t] = "expired"]
  /\ UNCHANGED <<account, session, request, history>>

(* Use a link: SELECT ... FOR UPDATE, then check it. *)
Valid(r) ==
  LET t == call[r].token IN
    /\ token[t] = "live"
    /\ Purpose(call[t].kind) = Purpose(call[r].kind)
    /\ call[t].scope = call[r].scope

\* Faulty variant: the link is read without FOR UPDATE.
LockTokenWithoutWaiting(r) ==
  /\ pc[r] = "token"
  /\ Go(r, IF ~Valid(r) THEN "refused"
           ELSE IF call[r].kind = "reset" THEN "sessions" ELSE "write")
  /\ UNCHANGED <<account, token, session, call, found, subject, history>>

LockToken(r) ==
  /\ pc[r] = "token"
  /\ LockedBy(call[r].token) = {}
  /\ Go(r, IF ~Valid(r) THEN "refused"
           ELSE IF call[r].kind = "reset" THEN "sessions" ELSE "write")
  /\ UNCHANGED <<account, token, session, call, found, subject, history>>

Activate(r) ==
  /\ pc[r] = "write" /\ call[r].kind = "activate"
  /\ UserFree(r) /\ CredentialFree(r)
  /\ stored' = {r} /\ outdated' = FALSE
  /\ token' = [token EXCEPT ![call[r].token] = "consumed"]
  /\ status' = "active"
  /\ Go(r, "ok")
  /\ UNCHANGED <<version, access, session, call, found, subject, history>>

\* Faulty variant: only the sessions of the link's scope are ended.
FindSessionsOfScope(r) ==
  /\ pc[r] = "sessions"
  /\ UserFree(r) /\ CredentialFree(r)
  /\ Note(r, {q \in Sessions({"active"}) : call[q].scope = call[r].scope})
  /\ Go(r, "write")
  /\ UNCHANGED <<account, token, session, call, subject, history>>

(* The reset writes the credential, which it keeps locked, and the version *)
(* before it reads the sessions that it then revokes.                      *)
FindSessions(r) ==
  /\ pc[r] = "sessions"
  /\ UserFree(r) /\ CredentialFree(r)
  /\ Note(r, Sessions({"active"}))
  /\ Go(r, "write")
  /\ UNCHANGED <<account, token, session, call, subject, history>>
Others(r) == Outstanding("reset", call[r].scope) \ {call[r].token}
Reset(r) ==
  /\ pc[r] = "write" /\ call[r].kind = "reset"
  /\ stored' = {r} /\ outdated' = FALSE /\ replaced' = replaced \union stored
  /\ token' = [t \in Request |-> IF t = call[r].token THEN "consumed"
                                 ELSE IF t \in Others(r) THEN "revoked" ELSE token[t]]
  /\ version' = version + 1
  /\ session' = [q \in Request |-> IF q \in found[r] /\ session[q] = "active"
                                     THEN "revoked" ELSE session[q]]
  /\ Go(r, "ok")
  /\ UNCHANGED <<status, access, call, found, subject, before>>

(* Log in: four transactions, each on its own. *)
Verified(r) == call[r].typed \in stored
Verify(r) ==
  /\ pc[r] = "verify"
  /\ Go(r, IF status = "active" /\ Verified(r) THEN "resolve" ELSE "refused")
  /\ subject' = [subject EXCEPT ![r].rehash = outdated]
  /\ UNCHANGED <<account, token, session, call, found, history>>
SubjectState(r) ==      \* pending: no role, but an open invitation to the tenant
  IF status = "active" THEN access[call[r].scope] ELSE "none"
Resolve(r) ==
  /\ pc[r] = "resolve"
  /\ LET state == SubjectState(r) IN
       /\ subject' = [subject EXCEPT ![r].state = state]
       /\ Go(r, IF state = "none" THEN "refused"
                ELSE IF subject[r].rehash THEN "rehash" ELSE "create")
  /\ UNCHANGED <<account, token, session, call, found, history>>
Rehash(r) ==            \* stores the typed password, whatever is stored by now
  /\ pc[r] = "rehash" /\ CredentialFree(r)
  /\ stored' = {call[r].typed} /\ outdated' = FALSE
  /\ Go(r, "create")
  /\ UNCHANGED <<status, version, access, token, session, call, found, subject, history>>
Create(r) ==
  /\ pc[r] = "create" /\ UserFree(r)
  /\ session' = [session EXCEPT ![r] = subject[r].state]
  /\ Go(r, "ok")
  /\ UNCHANGED <<account, token, call, found, subject, history>>

(* A transaction times out, loses its connection or is a deadlock victim.  *)
Fail(r) ==
  /\ Open(r) /\ Go(r, "failed")
  /\ UNCHANGED <<account, token, session, call, found, subject, history>>

Next ==
  \/ \E r \in Request :
       \/ Arrive(r) \/ WeakPassword(r)
       \/ LookUser(r) \/ FindOutstanding(r) \/ LockOutstanding(r) \/ Issue(r)
       \/ LockToken(r) \/ Activate(r) \/ FindSessions(r) \/ Reset(r)
       \/ Verify(r) \/ Resolve(r) \/ Rehash(r) \/ Create(r)
       \/ Fail(r)
  \/ \E t \in Request : Expire(t)
Spec == Init /\ [][Next]_vars
-----------------------------------------------------------------------------
(* Values have their types. *)
TypeOK ==
  /\ status \in {"pending", "active"} /\ version \in Nat
  /\ stored \in SUBSET Password /\ outdated \in BOOLEAN
  /\ access \in [Scope -> Access]
  /\ token \in [Request -> {"none", "live", "expired", "revoked", "consumed"}]
  /\ session \in [Request -> {"none", "pending", "active", "revoked"}]
  /\ pc \in [Request -> Label]
  /\ call \in [Request -> [kind : Kinds, scope : Scope, token : Password, typed : Password]]
  /\ found \in [Request -> SUBSET Request]
  /\ subject \in [Request -> [rehash : BOOLEAN, state : Access]]
  /\ before \in [Request -> SUBSET Request]
  /\ replaced \in SUBSET Password

(* Whatever requests, reissues and completions overlap, a scope in which a *)
(* link was ever issued has exactly one that works, or none because one    *)
(* was used: reissuing never leaves the user without a link, nor with two. *)
OneOutstanding ==
  \A k \in {"forgot", "invite"}, s \in Scope :
    LET Issued == {t \in Request : /\ token[t] # "none"
                                   /\ call[t].kind = k /\ call[t].scope = s} IN
      Issued # {} =>
        \/ Cardinality(Outstanding(k, s)) = 1
        \/ Outstanding(k, s) = {} /\ \E t \in Issued : token[t] = "consumed"

(* A link completes one activation or reset, however often and however     *)
(* closely together it is presented.                                       *)
LinkUsedOnce ==
  \A r, q \in Request :
    /\ {pc[r], pc[q]} = {"ok"} /\ {call[r].kind, call[q].kind} \subseteq {"activate", "reset"}
    /\ call[r].token = call[q].token
    => r = q

(* A reset that is answered has ended every session that was active when   *)
(* it arrived, in every scope.                                             *)
ResetEndsOpenSessions ==
  \A r \in Request :
    call[r].kind = "reset" /\ pc[r] = "ok" => before[r] \intersect Sessions({"active"}) = {}

(* What the design says of a reset: it revokes every session.  A login     *)
(* that verified the replaced password before the reset committed opens    *)
(* its session after it.                                                   *)
ResetRevokesEverySession ==
  \A q \in Sessions({"active"}) : call[q].typed \notin replaced
=============================================================================
