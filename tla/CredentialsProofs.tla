------------------------- MODULE CredentialsProofs -------------------------
(***************************************************************************)
(* Proofs about Credentials for every set of requests and of scopes: no    *)
(* bound on how many links are issued, used or reset, nor on how many of   *)
(* the requests overlap.                                                   *)
(***************************************************************************)
EXTENDS Credentials, FiniteSetTheorems, TLAPS

Issuers == {"forgot", "invite"}
Users == {"activate", "reset"}
Live == {"live", "expired"}

(* The statement a request is about to run says what it asked for; only an *)
(* issuer that finished has a link; a completion names a link that exists. *)
Stages ==
  \A r \in Request :
    /\ pc[r] \in {"look", "find", "lock", "insert"} => call[r].kind \in Issuers
    /\ pc[r] \in {"verify", "resolve", "rehash", "create"} => call[r].kind = "login"
    /\ pc[r] \in {"token", "sessions", "write"} => call[r].kind \in Users
    /\ pc[r] = "sessions" => call[r].kind = "reset"
    /\ token[r] # "none" => pc[r] = "ok" /\ call[r].kind \in Issuers
    /\ session[r] # "none" => pc[r] = "ok" /\ call[r].kind = "login"
    /\ call[r].kind \in Users =>
         call[r].token \in Request /\ token[call[r].token] # "none"

SameFamily(t, u) ==   \* the links one reissue replaces
  /\ Purpose(call[t].kind) = Purpose(call[u].kind)
  /\ call[t].scope = call[u].scope

(* What an issuer found were links of its purpose and scope; those it has  *)
(* locked still work.                                                      *)
Replaces(q, t) ==
  /\ token[t] # "none" /\ SameFamily(t, q)
  /\ pc[q] = "insert" => token[t] \in Live
Found ==
  \A q \in Request : pc[q] \in {"lock", "insert"} => \A t \in found[q] : Replaces(q, t)

(* A link's row is locked by one transaction at a time. *)
Exclusive == \A t \in Request : \A r, q \in LockedBy(t) : r = q

(* A link that is being used still works and was meant for this use; one   *)
(* that completed something is consumed.                                   *)
Using ==
  \A r \in Request : call[r].kind \in Users =>
    /\ pc[r] \in {"write", "sessions"} =>
         token[call[r].token] \in Live /\ SameFamily(call[r].token, r)
    /\ pc[r] = "ok" => token[call[r].token] = "consumed"

(* Two links that work differ in purpose or scope, and a link that was     *)
(* replaced left one that works or was used.                               *)
OneWorks ==
  \A t, u \in Request : token[t] \in Live /\ token[u] \in Live /\ SameFamily(t, u) => t = u
OneLeft ==
  \A t \in Request : token[t] # "none" =>
    \E u \in Request : token[u] \in Live \cup {"consumed"} /\ SameFamily(u, t)

(* A password is stored exactly when the user is active, and whoever needs *)
(* an active user has one.                                                 *)
ActiveUser ==
  /\ status = "active" <=> stored # {}
  /\ \A p, q \in stored : p = q
  /\ \A r \in Request :
       \/ pc[r] \in {"resolve", "rehash", "create"}
       \/ call[r].kind = "forgot" /\ (pc[r] \in {"find", "lock", "insert"} \/ token[r] # "none")
       => status = "active"

(* The sessions a reset met exist; the active ones it is about to revoke.  *)
Ending ==
  \A r \in Request :
    /\ \A q \in before[r] : session[q] # "none"
    /\ call[r].kind = "reset" /\ pc[r] = "write" =>
         before[r] \cap Sessions({"active"}) \subseteq found[r]

(* LinkUsedOnce without its sets. *)
UsedOnce ==
  \A r, q \in Request :
    /\ pc[r] = "ok" /\ call[r].kind \in Users
    /\ pc[q] = "ok" /\ call[q].kind \in Users
    /\ call[r].token = call[q].token
    => r = q

LinksInv == TypeOK /\ Stages /\ Found /\ Exclusive /\ Using /\ OneWorks /\ OneLeft
CredentialInv == LinksInv /\ ActiveUser /\ Ending /\ UsedOnce /\ ResetEndsOpenSessions

Call == [kind : Kinds, scope : Scope, token : Password, typed : Password]

\* What an arriving request may ask for.
LEMMA Arrival ==
  ASSUME TypeOK, NEW r \in Request, Arrive(r)
  PROVE  \E c \in Call :
           /\ call' = [call EXCEPT ![r] = c]
           /\ pc' = [pc EXCEPT ![r] = First(c.kind)]
           /\ before' = [before EXCEPT ![r] =
                            IF c.kind = "reset" THEN Sessions({"active"}) ELSE {}]
           /\ c.kind \in Users => c.token \in Request /\ token[c.token] # "none"
<1> USE DEF TypeOK
<1>1. PICK k \in Asked, s \in Scope,
           t \in {q \in Request : token[q] # "none"} \union {Original},
           p \in {q \in Request : call[q].kind \in {"activate", "reset"} /\ pc[q] = "ok"}
                   \union {Original} :
        /\ k = "invite" => s \in Tenant
        /\ (k \in {"activate", "reset"}) <=> (t # Original)
        /\ k # "login" => p = Original
        /\ call' = [call EXCEPT ![r] = [kind |-> k, scope |-> s, token |-> t,
                                        typed |-> IF k = "login" THEN p ELSE r]]
        /\ Go(r, First(k))
        /\ before' = [before EXCEPT ![r] = IF k = "reset" THEN Sessions({"active"}) ELSE {}]
  BY Zenon DEF Arrive
<1> DEFINE c == [kind |-> k, scope |-> s, token |-> t,
                 typed |-> IF k = "login" THEN p ELSE r]
<1>2. c \in Call
  BY <1>1, CredentialAssumption DEF Call, Password
<1>3. c.kind \in Users => c.token \in Request /\ token[c.token] # "none"
  BY <1>1 DEF Users
<1> QED
  BY <1>1, <1>2, <1>3 DEF Go

\* The label a request of a known kind starts with.
LEMMA Starts ==
  ASSUME NEW k \in Kinds
  PROVE  /\ First(k) \in {"look", "token", "verify"}
         /\ First(k) = "look" <=> k \in Issuers
         /\ First(k) = "token" <=> k \in Users
         /\ First(k) = "verify" <=> k = "login"
  BY DEF First, Kinds, Issuers, Users

\* What a query finds are requests.
LEMMA Queries ==
  /\ \A k, s : Outstanding(k, s) \subseteq Request
  /\ \A S : Sessions(S) \subseteq Request
  BY DEF Outstanding, Sessions

LEMMA TypeOKStep ==
  ASSUME TypeOK, [Next]_vars
  PROVE  TypeOK'
<1> USE CredentialAssumption DEF account, request, history, Go, Note, TypeOK
<1>1. ASSUME NEW r \in Request, Arrive(r) PROVE TypeOK'
  <2>1. PICK c \in Call :
          /\ call' = [call EXCEPT ![r] = c]
          /\ pc' = [pc EXCEPT ![r] = First(c.kind)]
          /\ before' = [before EXCEPT ![r] =
                           IF c.kind = "reset" THEN Sessions({"active"}) ELSE {}]
    BY <1>1, Arrival
  <2>2. First(c.kind) \in Label
    BY Starts DEF Call, Label
  <2>3. (IF c.kind = "reset" THEN Sessions({"active"}) ELSE {}) \in SUBSET Request
    BY Queries
  <2> QED
    BY <1>1, <2>1, <2>2, <2>3 DEF Arrive, Call
<1>2. ASSUME NEW r \in Request, WeakPassword(r) PROVE TypeOK'
  BY <1>2 DEF WeakPassword, Kinds, Access, Password, Label
<1>3. ASSUME NEW r \in Request, LookUser(r) PROVE TypeOK'
  BY <1>3 DEF LookUser, Kinds, Access, Password, Label
<1>4. ASSUME NEW r \in Request, FindOutstanding(r) PROVE TypeOK'
  BY <1>4, Queries DEF FindOutstanding, Kinds, Access, Password, Label
<1>5. ASSUME NEW r \in Request, LockOutstanding(r) PROVE TypeOK'
  BY <1>5 DEF LockOutstanding, Kinds, Access, Password, Label
<1>6. ASSUME NEW r \in Request, Issue(r) PROVE TypeOK'
  BY <1>6 DEF Issue, Reissued, Conflict, Kinds, Access, Password, Label
<1>7. ASSUME NEW r \in Request, LockToken(r) PROVE TypeOK'
  BY <1>7 DEF LockToken, Valid, Kinds, Access, Password, Label
<1>8. ASSUME NEW r \in Request, Activate(r) PROVE TypeOK'
  BY <1>8 DEF Activate, Kinds, Access, Password, Label
<1>9. ASSUME NEW r \in Request, FindSessions(r) PROVE TypeOK'
  BY <1>9, Queries DEF FindSessions, Kinds, Access, Password, Label
<1>10. ASSUME NEW r \in Request, Reset(r) PROVE TypeOK'
  <2>1. token' \in [Request -> {"none", "live", "expired", "revoked", "consumed"}]
    BY <1>10 DEF Reset
  <2>2. session' \in [Request -> {"none", "pending", "active", "revoked"}]
    BY <1>10 DEF Reset
  <2>3. stored' \in SUBSET Password /\ replaced' \in SUBSET Password
    BY <1>10 DEF Reset, Password
  <2>4. pc' \in [Request -> Label] /\ version' \in Nat
    BY <1>10 DEF Reset, Label
  <2> QED
    BY <1>10, <2>1, <2>2, <2>3, <2>4 DEF Reset
<1>11. ASSUME NEW r \in Request, Verify(r) PROVE TypeOK'
  BY <1>11 DEF Verify, Verified, Kinds, Access, Password, Label
<1>12. ASSUME NEW r \in Request, Resolve(r) PROVE TypeOK'
  BY <1>12 DEF Resolve, SubjectState, Kinds, Access, Password, Label
<1>13. ASSUME NEW r \in Request, Rehash(r) PROVE TypeOK'
  BY <1>13 DEF Rehash, Kinds, Access, Password, Label
<1>14. ASSUME NEW r \in Request, Create(r) PROVE TypeOK'
  BY <1>14 DEF Create, Kinds, Access, Password, Label
<1>15. ASSUME NEW r \in Request, Fail(r) PROVE TypeOK'
  BY <1>15 DEF Fail, Open, Kinds, Access, Password, Label
<1>16. ASSUME NEW t \in Request, Expire(t) PROVE TypeOK'
  BY <1>16 DEF Expire, Kinds, Access, Password, Label
<1>17. CASE UNCHANGED vars
  BY <1>17 DEF vars, Kinds, Access, Password, Label
<1> QED
  BY <1>1, <1>2, <1>3, <1>4, <1>5, <1>6, <1>7, <1>8, <1>9, <1>10, <1>11, <1>12, <1>13, <1>14, <1>15, <1>16, <1>17 DEF Next

LEMMA StagesStep ==
  ASSUME TypeOK, Stages, Found, [Next]_vars
  PROVE  Stages'
<1> USE CredentialAssumption DEF account, request, history, Go, Note, TypeOK
<1>1. ASSUME NEW r \in Request, Arrive(r) PROVE Stages'
  <2>1. PICK c \in Call :
          /\ call' = [call EXCEPT ![r] = c]
          /\ pc' = [pc EXCEPT ![r] = First(c.kind)]
          /\ c.kind \in Users => c.token \in Request /\ token[c.token] # "none"
    BY <1>1, Arrival
  <2>2. c.kind \in Kinds /\ pc[r] = "new" /\ token' = token /\ session' = session
    BY <1>1, <2>1 DEF Arrive, Call
  <2> QED
    BY <2>1, <2>2, Starts DEF Stages
<1>2. ASSUME NEW r \in Request, WeakPassword(r) PROVE Stages'
  BY <1>2 DEF WeakPassword, Stages, Issuers, Users
<1>3. ASSUME NEW r \in Request, LookUser(r) PROVE Stages'
  BY <1>3 DEF LookUser, Stages, Issuers, Users
<1>4. ASSUME NEW r \in Request, FindOutstanding(r) PROVE Stages'
  BY <1>4 DEF FindOutstanding, Stages, Issuers, Users
<1>5. ASSUME NEW r \in Request, LockOutstanding(r) PROVE Stages'
  BY <1>5 DEF LockOutstanding, Stages, Issuers, Users
<1>6. ASSUME NEW r \in Request, Issue(r) PROVE Stages'
  <2>1. /\ pc[r] = "insert" /\ call' = call /\ session' = session
        /\ \/ pc' = [pc EXCEPT ![r] = "failed"] /\ token' = token
           \/ pc' = [pc EXCEPT ![r] = "ok"] /\ token' = Reissued(r)
    BY <1>6 DEF Issue
  <2>2. \A t \in Request : Reissued(r)[t] = "none" => token[t] = "none"
    BY DEF Reissued
  <2>3. \A t \in Request \ {r} : token[t] = "none" =>
          t \notin found[r] /\ Reissued(r)[t] = "none"
    BY <2>1 DEF Reissued, Found, Replaces
  <2> QED
    BY <2>1, <2>2, <2>3 DEF Stages, Issuers, Users
<1>7. ASSUME NEW r \in Request, LockToken(r) PROVE Stages'
  BY <1>7 DEF LockToken, Valid, Stages, Issuers, Users
<1>8. ASSUME NEW r \in Request, Activate(r) PROVE Stages'
  BY <1>8 DEF Activate, Stages, Issuers, Users
<1>9. ASSUME NEW r \in Request, FindSessions(r) PROVE Stages'
  BY <1>9 DEF FindSessions, Stages, Issuers, Users
<1>10. ASSUME NEW r \in Request, Reset(r) PROVE Stages'
  <2>1. /\ pc[r] = "write" /\ call[r].kind = "reset" /\ call' = call
        /\ pc' = [pc EXCEPT ![r] = "ok"]
    BY <1>10 DEF Reset
  <2>2. \A t \in Request : token'[t] = "none" <=> token[t] = "none"
    <3>1. call[r].token \in Request /\ token[call[r].token] # "none"
      BY <2>1 DEF Stages, Users
    <3>2. \A t \in Others(r) : token[t] # "none"
      BY DEF Others, Outstanding
    <3> QED
      BY <1>10, <3>1, <3>2 DEF Reset
  <2>3. \A q \in Request : session'[q] = "none" <=> session[q] = "none"
    BY <1>10 DEF Reset
  <2> QED
    BY <2>1, <2>2, <2>3 DEF Stages, Issuers, Users
<1>11. ASSUME NEW r \in Request, Verify(r) PROVE Stages'
  BY <1>11 DEF Verify, Verified, Stages, Issuers, Users
<1>12. ASSUME NEW r \in Request, Resolve(r) PROVE Stages'
  BY <1>12 DEF Resolve, SubjectState, Stages, Issuers, Users
<1>13. ASSUME NEW r \in Request, Rehash(r) PROVE Stages'
  BY <1>13 DEF Rehash, Stages, Issuers, Users
<1>14. ASSUME NEW r \in Request, Create(r) PROVE Stages'
  BY <1>14 DEF Create, Stages, Issuers, Users
<1>15. ASSUME NEW r \in Request, Fail(r) PROVE Stages'
  BY <1>15 DEF Fail, Open, Stages, Issuers, Users
<1>16. ASSUME NEW t \in Request, Expire(t) PROVE Stages'
  BY <1>16 DEF Expire, Stages, Issuers, Users
<1>17. CASE UNCHANGED vars
  BY <1>17 DEF vars, Stages, Issuers, Users
<1> QED
  BY <1>1, <1>2, <1>3, <1>4, <1>5, <1>6, <1>7, <1>8, <1>9, <1>10, <1>11, <1>12, <1>13, <1>14, <1>15, <1>16, <1>17 DEF Next

\* A request that arrives holds nothing yet, and nobody else's call changes.
LEMMA ArrivalApart ==
  ASSUME TypeOK, Stages, NEW r \in Request, Arrive(r)
  PROVE  /\ pc[r] = "new" /\ token[r] = "none" /\ session[r] = "none"
         /\ token' = token /\ session' = session /\ found' = found
         /\ pc'[r] \in {"look", "token", "verify"}
         /\ \A q \in Request \ {r} : pc'[q] = pc[q] /\ call'[q] = call[q]
                                     /\ before'[q] = before[q]
<1>1. PICK c \in Call :
        /\ call' = [call EXCEPT ![r] = c]
        /\ pc' = [pc EXCEPT ![r] = First(c.kind)]
        /\ before' = [before EXCEPT ![r] =
                         IF c.kind = "reset" THEN Sessions({"active"}) ELSE {}]
  BY Arrival
<1>2. First(c.kind) \in {"look", "token", "verify"}
  BY Starts DEF Call
<1>3. pc[r] = "new" /\ token' = token /\ session' = session /\ found' = found
  BY DEF Arrive
<1>4. token[r] = "none" /\ session[r] = "none"
  BY <1>3 DEF Stages
<1> QED
  BY <1>1, <1>2, <1>3, <1>4 DEF TypeOK

\* A completion consumes its link and touches no other: none else of its
\* purpose and scope works.
LEMMA Consumes ==
  ASSUME LinksInv, NEW r \in Request, Activate(r) \/ Reset(r)
  PROVE  /\ pc[r] = "write" /\ call[r].kind \in Users
         /\ call[r].token \in Request /\ token[call[r].token] \in Live
         /\ SameFamily(call[r].token, r)
         /\ pc' = [pc EXCEPT ![r] = "ok"] /\ call' = call /\ found' = found
         /\ token' = [token EXCEPT ![call[r].token] = "consumed"]
<1> USE DEF LinksInv
<1>1. /\ pc[r] = "write" /\ call[r].kind \in Users
      /\ pc' = [pc EXCEPT ![r] = "ok"] /\ call' = call /\ found' = found
  BY DEF Activate, Reset, Users, Go, request
<1>2. call[r].token \in Request /\ token[call[r].token] \in Live /\ SameFamily(call[r].token, r)
  BY <1>1 DEF Stages, Using
<1>3. CASE Activate(r)
  BY <1>1, <1>2, <1>3 DEF Activate
<1>4. CASE Reset(r)
  <2>1. call[r].kind = "reset"
    BY <1>4 DEF Reset
  <2>2. ASSUME NEW t \in Others(r) PROVE FALSE
    <3>1. t \in Request /\ token[t] \in Live /\ t # call[r].token
      BY <2>2 DEF Others, Outstanding, Live
    <3>2. SameFamily(t, r)
      BY <2>1, <2>2 DEF Others, Outstanding, SameFamily
    <3> QED
      BY <1>2, <3>1, <3>2 DEF OneWorks, SameFamily
  <2>3. token' = [t \in Request |-> IF t = call[r].token THEN "consumed"
                                   ELSE IF t \in Others(r) THEN "revoked" ELSE token[t]]
    BY <1>4 DEF Reset
  <2> QED
    BY <1>1, <1>2, <2>2, <2>3 DEF TypeOK
<1> QED
  BY <1>3, <1>4

\* An issuer either fails or replaces what it has locked, which is all that
\* works of its purpose and scope.
LEMMA Issues ==
  ASSUME LinksInv, NEW r \in Request, Issue(r)
  PROVE  /\ pc[r] = "insert" /\ call[r].kind \in Issuers /\ token[r] = "none"
         /\ call' = call /\ found' = found
         /\ \/ pc' = [pc EXCEPT ![r] = "failed"] /\ token' = token
            \/ /\ pc' = [pc EXCEPT ![r] = "ok"]
               /\ \A t \in found[r] : token[t] \in Live /\ SameFamily(t, r)
               /\ \A t \in Request : token[t] \in Live /\ SameFamily(t, r) => t \in found[r]
               /\ r \notin found[r]
               /\ token' = Reissued(r)
<1> USE DEF LinksInv
<1>1. pc[r] = "insert" /\ call' = call /\ found' = found
  BY DEF Issue
<1>2. call[r].kind \in Issuers /\ token[r] = "none"
  BY <1>1 DEF Stages
<1>3. CASE Conflict(r)
  BY <1>1, <1>2, <1>3 DEF Issue, Go
<1>4. CASE ~Conflict(r)
  <2>1. \A t \in found[r] : token[t] \in Live /\ SameFamily(t, r)
    BY <1>1 DEF Found, Replaces
  <2>2. ASSUME NEW t \in Request, token[t] \in Live, SameFamily(t, r) PROVE t \in found[r]
    <3>1. t \in Outstanding(call[r].kind, call[r].scope)
      BY <2>2 DEF Outstanding, SameFamily, Live
    <3> QED
      BY <1>4, <3>1 DEF Conflict
  <2>3. r \notin found[r]
    BY <1>2, <2>1 DEF Live
  <2> QED
    BY <1>1, <1>2, <1>4, <2>1, <2>2, <2>3 DEF Issue, Go
<1> QED
  BY <1>3, <1>4

\* The statements that change no link and whose locks are the caller's.
LEMMA Reissuing ==
  ASSUME TypeOK, NEW r \in Request, NEW t \in Request
  PROVE  Reissued(r)[t] = IF t = r THEN "live" ELSE IF t \in found[r] THEN "revoked" ELSE token[t]
  BY DEF Reissued

\* What other issuers have locked is not the link a completion consumes.
LEMMA ConsumedFound ==
  ASSUME LinksInv, NEW r \in Request, Activate(r) \/ Reset(r)
  PROVE  Found'
<1> USE DEF LinksInv, TypeOK
<1>1. /\ pc[r] = "write" /\ call[r].token \in Request
      /\ pc' = [pc EXCEPT ![r] = "ok"] /\ call' = call /\ found' = found
      /\ token' = [token EXCEPT ![call[r].token] = "consumed"]
  BY Consumes
<1>2. ASSUME NEW q \in Request, pc[q] = "insert" PROVE call[r].token \notin found[q]
  <2>1. call[r].token \in found[q] => {q, r} \subseteq LockedBy(call[r].token)
    BY <1>1, <1>2 DEF LockedBy
  <2> QED
    BY <1>1, <1>2, <2>1 DEF Exclusive
<1> QED
  BY <1>1, <1>2 DEF Found, Replaces, SameFamily, Live

LEMMA FoundStep ==
  ASSUME LinksInv, [Next]_vars
  PROVE  Found'
<1> USE CredentialAssumption DEF account, request, history, Go, Note, TypeOK, LinksInv
<1>1. ASSUME NEW r \in Request, Arrive(r) PROVE Found'
  <2>1. /\ pc'[r] \in {"look", "token", "verify"} /\ token[r] = "none"
        /\ token' = token /\ found' = found
        /\ \A q \in Request \ {r} : pc'[q] = pc[q] /\ call'[q] = call[q]
    BY <1>1, ArrivalApart
  <2> SUFFICES ASSUME NEW q \in Request, pc'[q] \in {"lock", "insert"}, NEW t \in found'[q]
                 PROVE  Replaces(q, t)'
    BY DEF Found
  <2>2. q # r /\ t \in found[q]
    BY <2>1
  <2>3. token[t] # "none" /\ SameFamily(t, q) /\ (pc[q] = "insert" => token[t] \in Live)
    BY <2>1, <2>2 DEF Found, Replaces
  <2>4. t \in Request /\ t # r
    BY <2>1, <2>2, <2>3
  <2> QED
    BY <2>1, <2>2, <2>3, <2>4 DEF Replaces, SameFamily
<1>2. ASSUME NEW r \in Request, WeakPassword(r) PROVE Found'
  BY <1>2 DEF WeakPassword, Found, Replaces, SameFamily
<1>3. ASSUME NEW r \in Request, LookUser(r) PROVE Found'
  BY <1>3 DEF LookUser, Found, Replaces, SameFamily
<1>4. ASSUME NEW r \in Request, FindOutstanding(r) PROVE Found'
  <2>1. \A t \in Outstanding(call[r].kind, call[r].scope) : token[t] # "none" /\ SameFamily(t, r)
    BY DEF Outstanding, SameFamily
  <2> QED
    BY <1>4, <2>1, Queries DEF FindOutstanding, Found, Replaces, SameFamily
<1>5. ASSUME NEW r \in Request, LockOutstanding(r) PROVE Found'
  <2>1. \A t \in Outstanding(call[r].kind, call[r].scope) : token[t] \in Live
    BY DEF Outstanding, Live
  <2> QED
    BY <1>5, <2>1 DEF LockOutstanding, Found, Replaces, SameFamily
<1>6. ASSUME NEW r \in Request, Issue(r) PROVE Found'
  <2>1. CASE token' = token
    <3>1. /\ call' = call /\ found' = found
          /\ \/ pc' = [pc EXCEPT ![r] = "failed"]
             \/ pc' = [pc EXCEPT ![r] = "ok"]
      BY <1>6, Issues
    <3> QED
      BY <2>1, <3>1 DEF Found, Replaces, SameFamily
  <2>2. CASE token' # token
    <3>1. pc' = [pc EXCEPT ![r] = "ok"] /\ token' = Reissued(r) /\ pc[r] = "insert"
          /\ call' = call /\ found' = found
      BY <1>6, <2>2, Issues
    <3>2. ASSUME NEW q \in Request, q # r, pc[q] = "insert", NEW t \in found[q]
          PROVE  t \notin found[r]
      <4>1. t \in found[r] => {q, r} \subseteq LockedBy(t)
        BY <3>1, <3>2 DEF LockedBy
      <4> QED
        BY <3>2, <4>1 DEF Exclusive
    <3> SUFFICES ASSUME NEW q \in Request, pc'[q] \in {"lock", "insert"}, NEW t \in found'[q]
                   PROVE  Replaces(q, t)'
      BY DEF Found
    <3>3. q # r /\ pc[q] = pc'[q] /\ t \in found[q] /\ t \in Request
      BY <3>1
    <3>4. token[t] # "none" /\ SameFamily(t, q) /\ (pc[q] = "insert" => token[t] \in Live)
      BY <3>3 DEF Found, Replaces
    <3>5. token'[t] = IF t = r THEN "live" ELSE IF t \in found[r] THEN "revoked" ELSE token[t]
      BY <3>1, <3>3, Reissuing
    <3>6. pc[q] = "insert" => t \notin found[r]
      BY <3>2, <3>3
    <3>7. SameFamily(t, q)'
      BY <3>1, <3>4 DEF SameFamily
    <3> QED
      BY <3>3, <3>4, <3>5, <3>6, <3>7 DEF Replaces, Live
  <2> QED
    BY <2>1, <2>2
<1>7. ASSUME NEW r \in Request, LockToken(r) PROVE Found'
  BY <1>7 DEF LockToken, Found, Replaces, SameFamily
<1>8. ASSUME NEW r \in Request, Activate(r) PROVE Found'
  BY <1>8, ConsumedFound
<1>9. ASSUME NEW r \in Request, FindSessions(r) PROVE Found'
  BY <1>9, Queries DEF FindSessions, Found, Replaces, SameFamily
<1>10. ASSUME NEW r \in Request, Reset(r) PROVE Found'
  BY <1>10, ConsumedFound
<1>11. ASSUME NEW r \in Request, Verify(r) PROVE Found'
  BY <1>11 DEF Verify, Found, Replaces, SameFamily
<1>12. ASSUME NEW r \in Request, Resolve(r) PROVE Found'
  BY <1>12 DEF Resolve, Found, Replaces, SameFamily
<1>13. ASSUME NEW r \in Request, Rehash(r) PROVE Found'
  BY <1>13 DEF Rehash, Found, Replaces, SameFamily
<1>14. ASSUME NEW r \in Request, Create(r) PROVE Found'
  BY <1>14 DEF Create, Found, Replaces, SameFamily
<1>15. ASSUME NEW r \in Request, Fail(r) PROVE Found'
  BY <1>15 DEF Fail, Found, Replaces, SameFamily
<1>16. ASSUME NEW t \in Request, Expire(t) PROVE Found'
  <2>1. /\ token[t] = "live" /\ token' = [token EXCEPT ![t] = "expired"]
        /\ call' = call /\ found' = found /\ pc' = pc
    BY <1>16 DEF Expire
  <2>2. \A u \in Request : /\ token[u] # "none" => token'[u] # "none"
                           /\ token[u] \in Live => token'[u] \in Live
    BY <2>1 DEF Live
  <2> QED
    BY <2>1, <2>2 DEF Found, Replaces, SameFamily
<1>17. CASE UNCHANGED vars
  BY <1>17 DEF vars, Found, Replaces, SameFamily
<1> QED
  BY <1>1, <1>2, <1>3, <1>4, <1>5, <1>6, <1>7, <1>8, <1>9, <1>10, <1>11, <1>12, <1>13, <1>14, <1>15, <1>16, <1>17 DEF Next

\* Only a request that found a row free takes its lock.
LEMMA ExclusiveStep ==
  ASSUME LinksInv, [Next]_vars
  PROVE  Exclusive'
<1> USE CredentialAssumption DEF account, request, history, Go, Note, TypeOK, LinksInv
<1>1. ASSUME NEW r \in Request, Arrive(r) PROVE Exclusive'
  <2>1. \A t \in Request : LockedBy(t)' \subseteq LockedBy(t)
    <3>1. /\ pc'[r] \in {"look", "token", "verify"} /\ found' = found
          /\ \A q \in Request \ {r} : pc'[q] = pc[q] /\ call'[q] = call[q]
      BY <1>1, ArrivalApart
    <3> QED
      BY <3>1 DEF LockedBy
  <2> QED
    BY <2>1 DEF Exclusive
<1>2. ASSUME NEW r \in Request, WeakPassword(r) PROVE Exclusive'
  <2>1. \A t \in Request : LockedBy(t)' \subseteq LockedBy(t)
    BY <1>2 DEF WeakPassword, LockedBy
  <2> QED
    BY <2>1 DEF Exclusive
<1>3. ASSUME NEW r \in Request, LookUser(r) PROVE Exclusive'
  <2>1. \A t \in Request : LockedBy(t)' \subseteq LockedBy(t)
    BY <1>3 DEF LookUser, LockedBy
  <2> QED
    BY <2>1 DEF Exclusive
<1>4. ASSUME NEW r \in Request, FindOutstanding(r) PROVE Exclusive'
  <2>1. \A t \in Request : LockedBy(t)' \subseteq LockedBy(t)
    BY <1>4 DEF FindOutstanding, LockedBy
  <2> QED
    BY <2>1 DEF Exclusive
<1>5. ASSUME NEW r \in Request, LockOutstanding(r) PROVE Exclusive'
  <2>1. ASSUME NEW t \in Request, t \in found[r] PROVE LockedBy(t)' \subseteq {r}
    <3>1. LockedBy(t) = {}
      BY <1>5, <2>1 DEF LockOutstanding
    <3> QED
      BY <1>5, <3>1 DEF LockOutstanding, LockedBy
  <2>2. ASSUME NEW t \in Request, t \notin found[r] PROVE LockedBy(t)' \subseteq LockedBy(t)
    BY <1>5, <2>2 DEF LockOutstanding, LockedBy
  <2> QED
    BY <2>1, <2>2 DEF Exclusive
<1>6. ASSUME NEW r \in Request, Issue(r) PROVE Exclusive'
  <2>1. \A t \in Request : LockedBy(t)' \subseteq LockedBy(t)
    <3>1. /\ call' = call /\ found' = found
          /\ pc' = [pc EXCEPT ![r] = "ok"] \/ pc' = [pc EXCEPT ![r] = "failed"]
      BY <1>6, Issues
    <3> QED
      BY <3>1 DEF LockedBy
  <2> QED
    BY <2>1 DEF Exclusive
<1>7. ASSUME NEW r \in Request, LockToken(r) PROVE Exclusive'
  <2>1. ASSUME NEW t \in Request, t = call[r].token PROVE LockedBy(t)' \subseteq {r}
    <3>1. LockedBy(t) = {}
      BY <1>7, <2>1 DEF LockToken
    <3> QED
      BY <1>7, <3>1 DEF LockToken, LockedBy
  <2>2. ASSUME NEW t \in Request, t # call[r].token PROVE LockedBy(t)' \subseteq LockedBy(t)
    BY <1>7, <2>2 DEF LockToken, LockedBy
  <2> QED
    BY <2>1, <2>2 DEF Exclusive
<1>8. ASSUME NEW r \in Request, Activate(r) PROVE Exclusive'
  <2>1. \A t \in Request : LockedBy(t)' \subseteq LockedBy(t)
    <3>1. pc' = [pc EXCEPT ![r] = "ok"] /\ call' = call /\ found' = found
      BY <1>8, Consumes
    <3> QED
      BY <3>1 DEF LockedBy
  <2> QED
    BY <2>1 DEF Exclusive
<1>9. ASSUME NEW r \in Request, FindSessions(r) PROVE Exclusive'
  <2>1. \A t \in Request : LockedBy(t)' \subseteq LockedBy(t)
    BY <1>9 DEF FindSessions, LockedBy
  <2> QED
    BY <2>1 DEF Exclusive
<1>10. ASSUME NEW r \in Request, Reset(r) PROVE Exclusive'
  <2>1. \A t \in Request : LockedBy(t)' \subseteq LockedBy(t)
    <3>1. pc' = [pc EXCEPT ![r] = "ok"] /\ call' = call /\ found' = found
      BY <1>10, Consumes
    <3> QED
      BY <3>1 DEF LockedBy
  <2> QED
    BY <2>1 DEF Exclusive
<1>11. ASSUME NEW r \in Request, Verify(r) PROVE Exclusive'
  <2>1. \A t \in Request : LockedBy(t)' \subseteq LockedBy(t)
    BY <1>11 DEF Verify, LockedBy
  <2> QED
    BY <2>1 DEF Exclusive
<1>12. ASSUME NEW r \in Request, Resolve(r) PROVE Exclusive'
  <2>1. \A t \in Request : LockedBy(t)' \subseteq LockedBy(t)
    BY <1>12 DEF Resolve, LockedBy
  <2> QED
    BY <2>1 DEF Exclusive
<1>13. ASSUME NEW r \in Request, Rehash(r) PROVE Exclusive'
  <2>1. \A t \in Request : LockedBy(t)' \subseteq LockedBy(t)
    BY <1>13 DEF Rehash, LockedBy
  <2> QED
    BY <2>1 DEF Exclusive
<1>14. ASSUME NEW r \in Request, Create(r) PROVE Exclusive'
  <2>1. \A t \in Request : LockedBy(t)' \subseteq LockedBy(t)
    BY <1>14 DEF Create, LockedBy
  <2> QED
    BY <2>1 DEF Exclusive
<1>15. ASSUME NEW r \in Request, Fail(r) PROVE Exclusive'
  <2>1. \A t \in Request : LockedBy(t)' \subseteq LockedBy(t)
    BY <1>15 DEF Fail, Open, LockedBy
  <2> QED
    BY <2>1 DEF Exclusive
<1>16. ASSUME NEW t \in Request, Expire(t) PROVE Exclusive'
  <2>1. \A q \in Request : LockedBy(q)' \subseteq LockedBy(q)
    BY <1>16 DEF Expire, LockedBy
  <2> QED
    BY <2>1 DEF Exclusive
<1>17. CASE UNCHANGED vars
  BY <1>17 DEF vars, Exclusive, LockedBy
<1> QED
  BY <1>1, <1>2, <1>3, <1>4, <1>5, <1>6, <1>7, <1>8, <1>9, <1>10, <1>11, <1>12, <1>13, <1>14, <1>15, <1>16, <1>17 DEF Next

\* Two completions never hold the same link, so one spoils no other.
LEMMA ConsumedUsing ==
  ASSUME LinksInv, NEW r \in Request, Activate(r) \/ Reset(r)
  PROVE  Using'
<1> USE DEF LinksInv, TypeOK
<1>1. /\ pc[r] = "write" /\ call[r].kind \in Users /\ call[r].token \in Request
      /\ pc' = [pc EXCEPT ![r] = "ok"] /\ call' = call
      /\ token' = [token EXCEPT ![call[r].token] = "consumed"]
  BY Consumes
<1>2. ASSUME NEW q \in Request \ {r}, call[q].kind \in Users, pc[q] \in {"write", "sessions"}
      PROVE  call[q].token # call[r].token
  <2>1. call[q].token = call[r].token => {q, r} \subseteq LockedBy(call[r].token)
    BY <1>1, <1>2 DEF LockedBy
  <2> QED
    BY <1>1, <1>2, <2>1 DEF Exclusive
<1> QED
  BY <1>1, <1>2 DEF Using, SameFamily

\* A link that is being used goes on working until its completion commits.
LEMMA UsingStep ==
  ASSUME LinksInv, [Next]_vars
  PROVE  Using'
<1> USE CredentialAssumption DEF account, request, history, Go, Note, TypeOK, LinksInv
<1>1. ASSUME NEW r \in Request, Arrive(r) PROVE Using'
  <2>1. /\ pc'[r] \in {"look", "token", "verify"} /\ token[r] = "none"
        /\ token' = token
        /\ \A q \in Request \ {r} : pc'[q] = pc[q] /\ call'[q] = call[q]
    BY <1>1, ArrivalApart
  <2>2. \A q \in Request : call[q].kind \in Users =>
          call[q].token \in Request /\ call[q].token # r
    BY <2>1 DEF Stages
  <2> QED
    BY <2>1, <2>2 DEF Using, SameFamily
<1>2. ASSUME NEW r \in Request, WeakPassword(r) PROVE Using'
  BY <1>2 DEF WeakPassword, Using, Users, SameFamily
<1>3. ASSUME NEW r \in Request, LookUser(r) PROVE Using'
  BY <1>3 DEF LookUser, Using, Users, Issuers, Stages, SameFamily
<1>4. ASSUME NEW r \in Request, FindOutstanding(r) PROVE Using'
  BY <1>4 DEF FindOutstanding, Using, Users, SameFamily
<1>5. ASSUME NEW r \in Request, LockOutstanding(r) PROVE Using'
  BY <1>5 DEF LockOutstanding, Using, Users, SameFamily
<1>6. ASSUME NEW r \in Request, Issue(r) PROVE Using'
  <2>1. CASE token' = token
    <3>1. /\ call' = call /\ call[r].kind \in Issuers
          /\ pc' = [pc EXCEPT ![r] = "failed"] \/ pc' = [pc EXCEPT ![r] = "ok"]
      BY <1>6, Issues
    <3> QED
      BY <2>1, <3>1 DEF Using, Users, Issuers, SameFamily
  <2>2. CASE token' # token
    <3>1. /\ call' = call /\ found' = found /\ call[r].kind \in Issuers /\ pc[r] = "insert"
          /\ token[r] = "none" /\ pc' = [pc EXCEPT ![r] = "ok"] /\ token' = Reissued(r)
          /\ \A t \in found[r] : token[t] \in Live
      BY <1>6, <2>2, Issues
    <3>2. ASSUME NEW q \in Request, call[q].kind \in Users, pc[q] \in {"write", "sessions"}
          PROVE  call[q].token \notin found[r]
      <4>1. call[q].token \in found[r] => {q, r} \subseteq LockedBy(call[q].token)
        BY <3>1, <3>2 DEF LockedBy
      <4>2. q # r
        BY <3>1, <3>2
      <4> QED
        BY <3>1, <3>2, <4>1, <4>2 DEF Exclusive
    <3>3. \A q \in Request : call[q].kind \in Users => q # r /\ call[q].token \in Request \ {r}
      BY <3>1 DEF Stages, Issuers, Users
    <3>4. \A t \in Request \ {r} : t \notin found[r] => token'[t] = token[t]
      BY <3>1, Reissuing
    <3>5. \A t \in Request : token[t] = "consumed" => t \notin found[r]
      BY <3>1 DEF Live
    <3> QED
      BY <3>1, <3>2, <3>3, <3>4, <3>5 DEF Using, SameFamily
  <2> QED
    BY <2>1, <2>2
<1>7. ASSUME NEW r \in Request, LockToken(r) PROVE Using'
  <2>1. /\ call[r].kind \in Users /\ call' = call /\ token' = token
        /\ \E l \in {"refused", "sessions", "write"} :
             /\ pc' = [pc EXCEPT ![r] = l]
             /\ l # "refused" => Valid(r)
    BY <1>7 DEF LockToken, Stages
  <2>2. Valid(r) => token[call[r].token] \in Live /\ SameFamily(call[r].token, r)
    BY DEF Valid, Live, SameFamily
  <2> QED
    BY <2>1, <2>2 DEF Using, SameFamily
<1>8. ASSUME NEW r \in Request, Activate(r) PROVE Using'
  BY <1>8, ConsumedUsing
<1>9. ASSUME NEW r \in Request, FindSessions(r) PROVE Using'
  BY <1>9 DEF FindSessions, Using, Users, SameFamily
<1>10. ASSUME NEW r \in Request, Reset(r) PROVE Using'
  BY <1>10, ConsumedUsing
<1>11. ASSUME NEW r \in Request, Verify(r) PROVE Using'
  BY <1>11 DEF Verify, Using, Users, SameFamily
<1>12. ASSUME NEW r \in Request, Resolve(r) PROVE Using'
  BY <1>12 DEF Resolve, Using, Users, SameFamily
<1>13. ASSUME NEW r \in Request, Rehash(r) PROVE Using'
  BY <1>13 DEF Rehash, Using, Users, SameFamily
<1>14. ASSUME NEW r \in Request, Create(r) PROVE Using'
  BY <1>14 DEF Create, Using, Users, Stages, SameFamily
<1>15. ASSUME NEW r \in Request, Fail(r) PROVE Using'
  BY <1>15 DEF Fail, Using, Users, SameFamily
<1>16. ASSUME NEW t \in Request, Expire(t) PROVE Using'
  <2>1. /\ token[t] = "live" /\ token' = [token EXCEPT ![t] = "expired"]
        /\ call' = call /\ pc' = pc
    BY <1>16 DEF Expire
  <2>2. \A u \in Request : /\ token[u] = "consumed" => token'[u] = "consumed"
                           /\ token[u] \in Live => token'[u] \in Live
    BY <2>1 DEF Live
  <2> QED
    BY <2>1, <2>2 DEF Using, SameFamily, Stages
<1>17. CASE UNCHANGED vars
  BY <1>17 DEF vars, Using, Users, SameFamily
<1> QED
  BY <1>1, <1>2, <1>3, <1>4, <1>5, <1>6, <1>7, <1>8, <1>9, <1>10, <1>11, <1>12, <1>13, <1>14, <1>15, <1>16, <1>17 DEF Next

\* An issuer replaces all that works before its own link does.
LEMMA OneWorksStep ==
  ASSUME LinksInv, [Next]_vars
  PROVE  OneWorks'
<1> USE CredentialAssumption DEF account, request, history, Go, Note, TypeOK, LinksInv
<1>1. ASSUME NEW r \in Request, Arrive(r) PROVE OneWorks'
  <2>1. /\ token[r] = "none" /\ token' = token
        /\ \A q \in Request \ {r} : call'[q] = call[q]
    BY <1>1, ArrivalApart
  <2> QED
    BY <2>1 DEF OneWorks, SameFamily, Live
<1>2. ASSUME NEW r \in Request, WeakPassword(r) PROVE OneWorks'
  BY <1>2 DEF WeakPassword, OneWorks, SameFamily
<1>3. ASSUME NEW r \in Request, LookUser(r) PROVE OneWorks'
  BY <1>3 DEF LookUser, OneWorks, SameFamily
<1>4. ASSUME NEW r \in Request, FindOutstanding(r) PROVE OneWorks'
  BY <1>4 DEF FindOutstanding, OneWorks, SameFamily
<1>5. ASSUME NEW r \in Request, LockOutstanding(r) PROVE OneWorks'
  BY <1>5 DEF LockOutstanding, OneWorks, SameFamily
<1>6. ASSUME NEW r \in Request, Issue(r) PROVE OneWorks'
  <2>1. CASE token' = token
    <3>1. call' = call
      BY <1>6, Issues
    <3> QED
      BY <2>1, <3>1 DEF OneWorks, SameFamily
  <2>2. CASE token' # token
    <3>1. /\ call' = call /\ token' = Reissued(r)
          /\ \A t \in found[r] : token[t] \in Live /\ SameFamily(t, r)
          /\ \A t \in Request : token[t] \in Live /\ SameFamily(t, r) => t \in found[r]
      BY <1>6, <2>2, Issues
    <3>2. ASSUME NEW t \in Request, token'[t] \in Live, SameFamily(t, r) PROVE t = r
      BY <3>1, <3>2, Reissuing DEF Live
    <3>3. ASSUME NEW t \in Request, token'[t] \in Live, ~SameFamily(t, r) PROVE token[t] \in Live
      BY <3>1, <3>3, Reissuing DEF SameFamily
    <3> QED
      BY <3>1, <3>2, <3>3 DEF OneWorks, SameFamily
  <2> QED
    BY <2>1, <2>2
<1>7. ASSUME NEW r \in Request, LockToken(r) PROVE OneWorks'
  BY <1>7 DEF LockToken, OneWorks, SameFamily
<1>8. ASSUME NEW r \in Request, Activate(r) PROVE OneWorks'
  <2>1. call' = call /\ token' = [token EXCEPT ![call[r].token] = "consumed"]
    BY <1>8, Consumes
  <2> QED
    BY <2>1 DEF OneWorks, SameFamily, Live
<1>9. ASSUME NEW r \in Request, FindSessions(r) PROVE OneWorks'
  BY <1>9 DEF FindSessions, OneWorks, SameFamily
<1>10. ASSUME NEW r \in Request, Reset(r) PROVE OneWorks'
  <2>1. call' = call /\ token' = [token EXCEPT ![call[r].token] = "consumed"]
    BY <1>10, Consumes
  <2> QED
    BY <2>1 DEF OneWorks, SameFamily, Live
<1>11. ASSUME NEW r \in Request, Verify(r) PROVE OneWorks'
  BY <1>11 DEF Verify, OneWorks, SameFamily
<1>12. ASSUME NEW r \in Request, Resolve(r) PROVE OneWorks'
  BY <1>12 DEF Resolve, OneWorks, SameFamily
<1>13. ASSUME NEW r \in Request, Rehash(r) PROVE OneWorks'
  BY <1>13 DEF Rehash, OneWorks, SameFamily
<1>14. ASSUME NEW r \in Request, Create(r) PROVE OneWorks'
  BY <1>14 DEF Create, OneWorks, SameFamily
<1>15. ASSUME NEW r \in Request, Fail(r) PROVE OneWorks'
  BY <1>15 DEF Fail, OneWorks, SameFamily
<1>16. ASSUME NEW t \in Request, Expire(t) PROVE OneWorks'
  <2>1. token[t] = "live" /\ token' = [token EXCEPT ![t] = "expired"] /\ call' = call
    BY <1>16 DEF Expire
  <2>2. \A u \in Request : token'[u] \in Live => token[u] \in Live
    BY <2>1 DEF Live
  <2> QED
    BY <2>1, <2>2 DEF OneWorks, SameFamily
<1>17. CASE UNCHANGED vars
  BY <1>17 DEF vars, OneWorks, SameFamily
<1> QED
  BY <1>1, <1>2, <1>3, <1>4, <1>5, <1>6, <1>7, <1>8, <1>9, <1>10, <1>11, <1>12, <1>13, <1>14, <1>15, <1>16, <1>17 DEF Next

\* A link is replaced by one that works, and what was used stays used.
LEMMA OneLeftStep ==
  ASSUME LinksInv, [Next]_vars
  PROVE  OneLeft'
<1> USE CredentialAssumption DEF account, request, history, Go, Note, TypeOK, LinksInv
<1>1. ASSUME NEW r \in Request, Arrive(r) PROVE OneLeft'
  <2>1. /\ token[r] = "none" /\ token' = token
        /\ \A q \in Request \ {r} : call'[q] = call[q]
    BY <1>1, ArrivalApart
  <2> QED
    BY <2>1 DEF OneLeft, SameFamily, Live
<1>2. ASSUME NEW r \in Request, WeakPassword(r) PROVE OneLeft'
  BY <1>2 DEF WeakPassword, OneLeft, SameFamily
<1>3. ASSUME NEW r \in Request, LookUser(r) PROVE OneLeft'
  BY <1>3 DEF LookUser, OneLeft, SameFamily
<1>4. ASSUME NEW r \in Request, FindOutstanding(r) PROVE OneLeft'
  BY <1>4 DEF FindOutstanding, OneLeft, SameFamily
<1>5. ASSUME NEW r \in Request, LockOutstanding(r) PROVE OneLeft'
  BY <1>5 DEF LockOutstanding, OneLeft, SameFamily
<1>6. ASSUME NEW r \in Request, Issue(r) PROVE OneLeft'
  <2>1. CASE token' = token
    <3>1. call' = call
      BY <1>6, Issues
    <3> QED
      BY <2>1, <3>1 DEF OneLeft, SameFamily
  <2>2. CASE token' # token
    <3>1. /\ call' = call /\ token' = Reissued(r)
          /\ \A t \in found[r] : token[t] \in Live /\ SameFamily(t, r)
          /\ \A t \in Request : token[t] \in Live /\ SameFamily(t, r) => t \in found[r]
      BY <1>6, <2>2, Issues
    <3>2. token'[r] = "live"
      BY <3>1, Reissuing
    <3>3. ASSUME NEW t \in Request, ~SameFamily(t, r) PROVE token'[t] = token[t]
      BY <3>1, <3>3, Reissuing DEF SameFamily
    <3>4. ASSUME NEW t \in Request, token'[t] # "none"
          PROVE  \E u \in Request : token'[u] \in Live \cup {"consumed"} /\ SameFamily(u, t)
      <4>1. CASE SameFamily(t, r)
        BY <3>2, <4>1 DEF SameFamily, Live
      <4>2. CASE ~SameFamily(t, r)
        <5>1. PICK u \in Request : token[u] \in Live \cup {"consumed"} /\ SameFamily(u, t)
          BY <3>3, <3>4, <4>2 DEF OneLeft
        <5>2. ~SameFamily(u, r)
          BY <4>2, <5>1 DEF SameFamily
        <5> QED
          BY <3>3, <5>1, <5>2
      <4> QED
        BY <4>1, <4>2
    <3> QED
      BY <3>1, <3>4 DEF OneLeft, SameFamily
  <2> QED
    BY <2>1, <2>2
<1>7. ASSUME NEW r \in Request, LockToken(r) PROVE OneLeft'
  BY <1>7 DEF LockToken, OneLeft, SameFamily
<1>8. ASSUME NEW r \in Request, Activate(r) PROVE OneLeft'
  <2>1. /\ call' = call /\ token' = [token EXCEPT ![call[r].token] = "consumed"]
        /\ call[r].token \in Request /\ token[call[r].token] \in Live
    BY <1>8, Consumes
  <2> QED
    BY <2>1 DEF OneLeft, SameFamily, Live
<1>9. ASSUME NEW r \in Request, FindSessions(r) PROVE OneLeft'
  BY <1>9 DEF FindSessions, OneLeft, SameFamily
<1>10. ASSUME NEW r \in Request, Reset(r) PROVE OneLeft'
  <2>1. /\ call' = call /\ token' = [token EXCEPT ![call[r].token] = "consumed"]
        /\ call[r].token \in Request /\ token[call[r].token] \in Live
    BY <1>10, Consumes
  <2> QED
    BY <2>1 DEF OneLeft, SameFamily, Live
<1>11. ASSUME NEW r \in Request, Verify(r) PROVE OneLeft'
  BY <1>11 DEF Verify, OneLeft, SameFamily
<1>12. ASSUME NEW r \in Request, Resolve(r) PROVE OneLeft'
  BY <1>12 DEF Resolve, OneLeft, SameFamily
<1>13. ASSUME NEW r \in Request, Rehash(r) PROVE OneLeft'
  BY <1>13 DEF Rehash, OneLeft, SameFamily
<1>14. ASSUME NEW r \in Request, Create(r) PROVE OneLeft'
  BY <1>14 DEF Create, OneLeft, SameFamily
<1>15. ASSUME NEW r \in Request, Fail(r) PROVE OneLeft'
  BY <1>15 DEF Fail, OneLeft, SameFamily
<1>16. ASSUME NEW t \in Request, Expire(t) PROVE OneLeft'
  <2>1. token[t] = "live" /\ token' = [token EXCEPT ![t] = "expired"] /\ call' = call
    BY <1>16 DEF Expire
  <2>2. \A u \in Request : /\ token[u] \in Live \cup {"consumed"} => token'[u] \in Live \cup {"consumed"}
                           /\ token'[u] # "none" => token[u] # "none"
    BY <2>1 DEF Live
  <2>3. ASSUME NEW u \in Request, token'[u] # "none"
        PROVE  \E v \in Request : token'[v] \in Live \cup {"consumed"} /\ SameFamily(v, u)
    <3>1. token[u] # "none"
      BY <2>2, <2>3
    <3>2. PICK v \in Request : token[v] \in Live \cup {"consumed"} /\ SameFamily(v, u)
      BY <3>1 DEF OneLeft
    <3>3. token'[v] \in Live \cup {"consumed"}
      BY <2>2, <3>2
    <3> QED
      BY <3>2, <3>3
  <2> QED
    BY <2>1, <2>3 DEF OneLeft, SameFamily
<1>17. CASE UNCHANGED vars
  BY <1>17 DEF vars, OneLeft, SameFamily
<1> QED
  BY <1>1, <1>2, <1>3, <1>4, <1>5, <1>6, <1>7, <1>8, <1>9, <1>10, <1>11, <1>12, <1>13, <1>14, <1>15, <1>16, <1>17 DEF Next

\* Whoever needs an active user found one, and a user stays active.
LEMMA ActiveUserStep ==
  ASSUME LinksInv, ActiveUser, [Next]_vars
  PROVE  ActiveUser'
<1> USE CredentialAssumption DEF account, request, history, Go, Note, TypeOK, LinksInv
<1>1. ASSUME NEW r \in Request, Arrive(r) PROVE ActiveUser'
  <2>1. /\ pc'[r] \in {"look", "token", "verify"} /\ token[r] = "none"
        /\ token' = token
        /\ \A q \in Request \ {r} : pc'[q] = pc[q] /\ call'[q] = call[q]
    BY <1>1, ArrivalApart
  <2>2. status' = status /\ stored' = stored
    BY <1>1 DEF Arrive
  <2> QED
    BY <2>1, <2>2 DEF ActiveUser
<1>2. ASSUME NEW r \in Request, WeakPassword(r) PROVE ActiveUser'
  BY <1>2 DEF WeakPassword, ActiveUser
<1>3. ASSUME NEW r \in Request, LookUser(r) PROVE ActiveUser'
  BY <1>3 DEF LookUser, ActiveUser
<1>4. ASSUME NEW r \in Request, FindOutstanding(r) PROVE ActiveUser'
  BY <1>4 DEF FindOutstanding, ActiveUser
<1>5. ASSUME NEW r \in Request, LockOutstanding(r) PROVE ActiveUser'
  BY <1>5 DEF LockOutstanding, ActiveUser
<1>6. ASSUME NEW r \in Request, Issue(r) PROVE ActiveUser'
  <2>1. /\ pc[r] = "insert" /\ call' = call
        /\ \/ pc' = [pc EXCEPT ![r] = "failed"] /\ token' = token
           \/ pc' = [pc EXCEPT ![r] = "ok"] /\ token' = Reissued(r)
    BY <1>6, Issues
  <2>2. \A t \in found[r] : token[t] # "none"
    BY <2>1 DEF Found, Replaces
  <2>3. \A t \in Request \ {r} : token'[t] # "none" => token[t] # "none"
    BY <2>1, <2>2, Reissuing
  <2>4. status' = status /\ stored' = stored
    BY <1>6 DEF Issue
  <2> QED
    BY <2>1, <2>3, <2>4 DEF ActiveUser
<1>7. ASSUME NEW r \in Request, LockToken(r) PROVE ActiveUser'
  BY <1>7 DEF LockToken, ActiveUser
<1>8. ASSUME NEW r \in Request, Activate(r) PROVE ActiveUser'
  <2>1. /\ pc' = [pc EXCEPT ![r] = "ok"] /\ call' = call
        /\ call[r].token \in Request /\ token[call[r].token] \in Live
        /\ token' = [token EXCEPT ![call[r].token] = "consumed"]
    BY <1>8, Consumes
  <2>2. status' = "active" /\ stored' = {r}
    BY <1>8 DEF Activate
  <2> QED
    BY <2>1, <2>2 DEF ActiveUser
<1>9. ASSUME NEW r \in Request, FindSessions(r) PROVE ActiveUser'
  BY <1>9 DEF FindSessions, ActiveUser
<1>10. ASSUME NEW r \in Request, Reset(r) PROVE ActiveUser'
  <2>1. /\ pc' = [pc EXCEPT ![r] = "ok"] /\ call' = call
        /\ call[r].token \in Request /\ token[call[r].token] \in Live
        /\ SameFamily(call[r].token, r)
        /\ token' = [token EXCEPT ![call[r].token] = "consumed"]
    BY <1>10, Consumes
  <2>2. status' = status /\ stored' = {r} /\ call[r].kind = "reset"
    BY <1>10 DEF Reset
  <2>3. call[call[r].token].kind = "forgot"
    BY <2>1, <2>2 DEF SameFamily, Purpose, Stages, Issuers, Live
  <2>4. status = "active"
    BY <2>1, <2>3 DEF ActiveUser, Live
  <2> QED
    BY <2>1, <2>2, <2>4 DEF ActiveUser, Live
<1>11. ASSUME NEW r \in Request, Verify(r) PROVE ActiveUser'
  BY <1>11 DEF Verify, ActiveUser
<1>12. ASSUME NEW r \in Request, Resolve(r) PROVE ActiveUser'
  BY <1>12 DEF Resolve, ActiveUser
<1>13. ASSUME NEW r \in Request, Rehash(r) PROVE ActiveUser'
  <2>1. /\ pc[r] = "rehash" /\ pc' = [pc EXCEPT ![r] = "create"] /\ call' = call
        /\ status' = status /\ stored' = {call[r].typed} /\ token' = token
    BY <1>13 DEF Rehash
  <2> QED
    BY <2>1 DEF ActiveUser
<1>14. ASSUME NEW r \in Request, Create(r) PROVE ActiveUser'
  BY <1>14 DEF Create, ActiveUser
<1>15. ASSUME NEW r \in Request, Fail(r) PROVE ActiveUser'
  BY <1>15 DEF Fail, ActiveUser
<1>16. ASSUME NEW t \in Request, Expire(t) PROVE ActiveUser'
  <2>1. /\ token[t] = "live" /\ token' = [token EXCEPT ![t] = "expired"]
        /\ call' = call /\ pc' = pc /\ status' = status /\ stored' = stored
    BY <1>16 DEF Expire
  <2>2. \A u \in Request : token'[u] # "none" => token[u] # "none"
    BY <2>1
  <2> QED
    BY <2>1, <2>2 DEF ActiveUser
<1>17. CASE UNCHANGED vars
  BY <1>17 DEF vars, ActiveUser
<1> QED
  BY <1>1, <1>2, <1>3, <1>4, <1>5, <1>6, <1>7, <1>8, <1>9, <1>10, <1>11, <1>12, <1>13, <1>14, <1>15, <1>16, <1>17 DEF Next

\* A session a reset met is still there when it looks, or has ended.
LEMMA EndingStep ==
  ASSUME LinksInv, Ending, [Next]_vars
  PROVE  Ending'
<1> USE CredentialAssumption DEF account, request, history, Go, Note, TypeOK, LinksInv
<1>1. ASSUME NEW r \in Request, Arrive(r) PROVE Ending'
  <2>1. /\ pc'[r] \in {"look", "token", "verify"} /\ session' = session /\ found' = found
        /\ \A q \in Request \ {r} : pc'[q] = pc[q] /\ call'[q] = call[q] /\ before'[q] = before[q]
    BY <1>1, ArrivalApart
  <2>2. before'[r] = {} \/ before'[r] = Sessions({"active"})
    <3>1. PICK c \in Call : before' = [before EXCEPT ![r] =
                               IF c.kind = "reset" THEN Sessions({"active"}) ELSE {}]
      BY <1>1, Arrival
    <3> QED
      BY <3>1
  <2> QED
    BY <2>1, <2>2 DEF Ending, Sessions
<1>2. ASSUME NEW r \in Request, WeakPassword(r) PROVE Ending'
  BY <1>2 DEF WeakPassword, Ending, Sessions
<1>3. ASSUME NEW r \in Request, LookUser(r) PROVE Ending'
  BY <1>3 DEF LookUser, Ending, Sessions
<1>4. ASSUME NEW r \in Request, FindOutstanding(r) PROVE Ending'
  BY <1>4 DEF FindOutstanding, Ending, Sessions
<1>5. ASSUME NEW r \in Request, LockOutstanding(r) PROVE Ending'
  BY <1>5 DEF LockOutstanding, Ending, Sessions
<1>6. ASSUME NEW r \in Request, Issue(r) PROVE Ending'
  <2>1. /\ call' = call /\ found' = found
        /\ pc' = [pc EXCEPT ![r] = "ok"] \/ pc' = [pc EXCEPT ![r] = "failed"]
    BY <1>6, Issues
  <2> QED
    BY <1>6, <2>1 DEF Issue, Ending, Sessions
<1>7. ASSUME NEW r \in Request, LockToken(r) PROVE Ending'
  BY <1>7 DEF LockToken, Ending, Sessions
<1>8. ASSUME NEW r \in Request, Activate(r) PROVE Ending'
  <2>1. /\ pc' = [pc EXCEPT ![r] = "ok"] /\ call' = call
    BY <1>8, Consumes
  <2> QED
    BY <1>8, <2>1 DEF Activate, Ending, Sessions
<1>9. ASSUME NEW r \in Request, FindSessions(r) PROVE Ending'
  BY <1>9 DEF FindSessions, Ending, Sessions
<1>10. ASSUME NEW r \in Request, Reset(r) PROVE Ending'
  <2>1. /\ pc' = [pc EXCEPT ![r] = "ok"] /\ call' = call /\ found' = found /\ before' = before
    BY <1>10, Consumes DEF Reset
  <2>2. \A q \in Request : /\ session[q] # "none" => session'[q] # "none"
                           /\ session'[q] = "active" => session[q] = "active"
    BY <1>10 DEF Reset
  <2>3. Sessions({"active"})' \subseteq Sessions({"active"})
    BY <2>2 DEF Sessions
  <2>4. ASSUME NEW p \in Request PROVE \A q \in before'[p] : session'[q] # "none"
    BY <2>1, <2>2 DEF Ending
  <2>5. ASSUME NEW p \in Request, call'[p].kind = "reset", pc'[p] = "write"
        PROVE  before'[p] \cap Sessions({"active"})' \subseteq found'[p]
    <3>1. pc[p] = "write"
      BY <2>1, <2>5
    <3> QED
      BY <2>1, <2>3, <2>5, <3>1 DEF Ending
  <2> QED
    BY <2>4, <2>5 DEF Ending
<1>11. ASSUME NEW r \in Request, Verify(r) PROVE Ending'
  BY <1>11 DEF Verify, Ending, Sessions
<1>12. ASSUME NEW r \in Request, Resolve(r) PROVE Ending'
  BY <1>12 DEF Resolve, Ending, Sessions
<1>13. ASSUME NEW r \in Request, Rehash(r) PROVE Ending'
  BY <1>13 DEF Rehash, Ending, Sessions
<1>14. ASSUME NEW r \in Request, Create(r) PROVE Ending'
  <2>1. /\ session[r] = "none" /\ pc[r] = "create" /\ pc' = [pc EXCEPT ![r] = "ok"]
        /\ call' = call /\ found' = found /\ before' = before
        /\ \A q \in Request \ {r} : session'[q] = session[q]
    BY <1>14 DEF Create, Stages
  <2>2. \A q \in Request : r \notin before[q]
    BY <2>1 DEF Ending
  <2> QED
    BY <2>1, <2>2 DEF Ending, Sessions
<1>15. ASSUME NEW r \in Request, Fail(r) PROVE Ending'
  BY <1>15 DEF Fail, Ending, Sessions
<1>16. ASSUME NEW t \in Request, Expire(t) PROVE Ending'
  BY <1>16 DEF Expire, Ending, Sessions
<1>17. CASE UNCHANGED vars
  BY <1>17 DEF vars, Ending, Sessions
<1> QED
  BY <1>1, <1>2, <1>3, <1>4, <1>5, <1>6, <1>7, <1>8, <1>9, <1>10, <1>11, <1>12, <1>13, <1>14, <1>15, <1>16, <1>17 DEF Next

\* Whoever completes with a link finds it working, so nobody did before.
LEMMA UsedOnceStep ==
  ASSUME LinksInv, UsedOnce, [Next]_vars
  PROVE  UsedOnce'
<1> USE CredentialAssumption DEF account, request, history, Go, Note, TypeOK, LinksInv
<1>1. ASSUME NEW r \in Request, Arrive(r) PROVE UsedOnce'
  <2>1. /\ pc'[r] \in {"look", "token", "verify"}
        /\ \A q \in Request \ {r} : pc'[q] = pc[q] /\ call'[q] = call[q]
    BY <1>1, ArrivalApart
  <2> QED
    BY <2>1 DEF UsedOnce, Users
<1>2. ASSUME NEW r \in Request, WeakPassword(r) PROVE UsedOnce'
  BY <1>2 DEF WeakPassword, UsedOnce, Users
<1>3. ASSUME NEW r \in Request, LookUser(r) PROVE UsedOnce'
  BY <1>3 DEF LookUser, UsedOnce, Users, Stages, Issuers
<1>4. ASSUME NEW r \in Request, FindOutstanding(r) PROVE UsedOnce'
  BY <1>4 DEF FindOutstanding, UsedOnce, Users
<1>5. ASSUME NEW r \in Request, LockOutstanding(r) PROVE UsedOnce'
  BY <1>5 DEF LockOutstanding, UsedOnce, Users
<1>6. ASSUME NEW r \in Request, Issue(r) PROVE UsedOnce'
  <2>1. /\ call' = call /\ call[r].kind \in Issuers
        /\ pc' = [pc EXCEPT ![r] = "ok"] \/ pc' = [pc EXCEPT ![r] = "failed"]
    BY <1>6, Issues
  <2> QED
    BY <2>1 DEF UsedOnce, Users, Issuers
<1>7. ASSUME NEW r \in Request, LockToken(r) PROVE UsedOnce'
  BY <1>7 DEF LockToken, UsedOnce, Users
<1>8. ASSUME NEW r \in Request, Activate(r) PROVE UsedOnce'
  <2>1. /\ pc' = [pc EXCEPT ![r] = "ok"] /\ call' = call
        /\ token[call[r].token] \in Live /\ call[r].kind \in Users
    BY <1>8, Consumes
  <2>2. ASSUME NEW q \in Request, pc[q] = "ok", call[q].kind \in Users
        PROVE  call[q].token # call[r].token
    BY <2>1, <2>2 DEF Using, Live
  <2> QED
    BY <2>1, <2>2 DEF UsedOnce, Users
<1>9. ASSUME NEW r \in Request, FindSessions(r) PROVE UsedOnce'
  BY <1>9 DEF FindSessions, UsedOnce, Users
<1>10. ASSUME NEW r \in Request, Reset(r) PROVE UsedOnce'
  <2>1. /\ pc' = [pc EXCEPT ![r] = "ok"] /\ call' = call
        /\ token[call[r].token] \in Live /\ call[r].kind \in Users
    BY <1>10, Consumes
  <2>2. ASSUME NEW q \in Request, pc[q] = "ok", call[q].kind \in Users
        PROVE  call[q].token # call[r].token
    BY <2>1, <2>2 DEF Using, Live
  <2> QED
    BY <2>1, <2>2 DEF UsedOnce, Users
<1>11. ASSUME NEW r \in Request, Verify(r) PROVE UsedOnce'
  BY <1>11 DEF Verify, UsedOnce, Users
<1>12. ASSUME NEW r \in Request, Resolve(r) PROVE UsedOnce'
  BY <1>12 DEF Resolve, UsedOnce, Users
<1>13. ASSUME NEW r \in Request, Rehash(r) PROVE UsedOnce'
  BY <1>13 DEF Rehash, UsedOnce, Users
<1>14. ASSUME NEW r \in Request, Create(r) PROVE UsedOnce'
  BY <1>14 DEF Create, UsedOnce, Users, Stages
<1>15. ASSUME NEW r \in Request, Fail(r) PROVE UsedOnce'
  BY <1>15 DEF Fail, UsedOnce, Users
<1>16. ASSUME NEW t \in Request, Expire(t) PROVE UsedOnce'
  BY <1>16 DEF Expire, UsedOnce, Users
<1>17. CASE UNCHANGED vars
  BY <1>17 DEF vars, UsedOnce, Users
<1> QED
  BY <1>1, <1>2, <1>3, <1>4, <1>5, <1>6, <1>7, <1>8, <1>9, <1>10, <1>11, <1>12, <1>13, <1>14, <1>15, <1>16, <1>17 DEF Next

\* A reset revokes all it found, which is all it met that is still active.
LEMMA ResetEndsOpenSessionsStep ==
  ASSUME LinksInv, Ending, ResetEndsOpenSessions, [Next]_vars
  PROVE  ResetEndsOpenSessions'
<1> USE CredentialAssumption DEF account, request, history, Go, Note, TypeOK, LinksInv
<1>1. ASSUME NEW r \in Request, Arrive(r) PROVE ResetEndsOpenSessions'
  <2>1. /\ pc'[r] \in {"look", "token", "verify"} /\ session' = session
        /\ \A q \in Request \ {r} : pc'[q] = pc[q] /\ call'[q] = call[q] /\ before'[q] = before[q]
    BY <1>1, ArrivalApart
  <2> QED
    BY <2>1 DEF ResetEndsOpenSessions, Sessions
<1>2. ASSUME NEW r \in Request, WeakPassword(r) PROVE ResetEndsOpenSessions'
  BY <1>2 DEF WeakPassword, ResetEndsOpenSessions, Sessions
<1>3. ASSUME NEW r \in Request, LookUser(r) PROVE ResetEndsOpenSessions'
  BY <1>3 DEF LookUser, ResetEndsOpenSessions, Sessions, Stages, Issuers
<1>4. ASSUME NEW r \in Request, FindOutstanding(r) PROVE ResetEndsOpenSessions'
  BY <1>4 DEF FindOutstanding, ResetEndsOpenSessions, Sessions
<1>5. ASSUME NEW r \in Request, LockOutstanding(r) PROVE ResetEndsOpenSessions'
  BY <1>5 DEF LockOutstanding, ResetEndsOpenSessions, Sessions
<1>6. ASSUME NEW r \in Request, Issue(r) PROVE ResetEndsOpenSessions'
  <2>1. /\ call' = call /\ call[r].kind \in Issuers
        /\ pc' = [pc EXCEPT ![r] = "ok"] \/ pc' = [pc EXCEPT ![r] = "failed"]
    BY <1>6, Issues
  <2> QED
    BY <1>6, <2>1 DEF Issue, ResetEndsOpenSessions, Sessions, Issuers
<1>7. ASSUME NEW r \in Request, LockToken(r) PROVE ResetEndsOpenSessions'
  BY <1>7 DEF LockToken, ResetEndsOpenSessions, Sessions
<1>8. ASSUME NEW r \in Request, Activate(r) PROVE ResetEndsOpenSessions'
  BY <1>8 DEF Activate, ResetEndsOpenSessions, Sessions
<1>9. ASSUME NEW r \in Request, FindSessions(r) PROVE ResetEndsOpenSessions'
  BY <1>9 DEF FindSessions, ResetEndsOpenSessions, Sessions
<1>10. ASSUME NEW r \in Request, Reset(r) PROVE ResetEndsOpenSessions'
  <2>1. /\ pc[r] = "write" /\ call[r].kind = "reset" /\ before' = before
        /\ pc' = [pc EXCEPT ![r] = "ok"] /\ call' = call
        /\ session' = [q \in Request |-> IF q \in found[r] /\ session[q] = "active"
                                         THEN "revoked" ELSE session[q]]
    BY <1>10 DEF Reset
  <2>2. before[r] \cap Sessions({"active"}) \subseteq found[r]
    BY <2>1 DEF Ending
  <2>3. Sessions({"active"})' \subseteq Sessions({"active"}) \ found[r]
    BY <2>1 DEF Sessions
  <2>4. ASSUME NEW p \in Request, call'[p].kind = "reset", pc'[p] = "ok"
        PROVE  before'[p] \cap Sessions({"active"})' = {}
    <3>1. CASE p = r
      BY <2>1, <2>2, <2>3, <3>1
    <3>2. CASE p # r
      <4>1. before[p] \cap Sessions({"active"}) = {}
        BY <2>1, <2>4, <3>2 DEF ResetEndsOpenSessions
      <4> QED
        BY <2>1, <2>3, <4>1
    <3> QED
      BY <3>1, <3>2
  <2> QED
    BY <2>4 DEF ResetEndsOpenSessions
<1>11. ASSUME NEW r \in Request, Verify(r) PROVE ResetEndsOpenSessions'
  BY <1>11 DEF Verify, ResetEndsOpenSessions, Sessions
<1>12. ASSUME NEW r \in Request, Resolve(r) PROVE ResetEndsOpenSessions'
  BY <1>12 DEF Resolve, ResetEndsOpenSessions, Sessions
<1>13. ASSUME NEW r \in Request, Rehash(r) PROVE ResetEndsOpenSessions'
  BY <1>13 DEF Rehash, ResetEndsOpenSessions, Sessions
<1>14. ASSUME NEW r \in Request, Create(r) PROVE ResetEndsOpenSessions'
  <2>1. /\ session[r] = "none" /\ pc[r] = "create" /\ pc' = [pc EXCEPT ![r] = "ok"]
        /\ call' = call /\ before' = before /\ call[r].kind = "login"
        /\ \A q \in Request \ {r} : session'[q] = session[q]
    BY <1>14 DEF Create, Stages
  <2>2. \A q \in Request : r \notin before[q]
    BY <2>1 DEF Ending
  <2> QED
    BY <2>1, <2>2 DEF ResetEndsOpenSessions, Sessions
<1>15. ASSUME NEW r \in Request, Fail(r) PROVE ResetEndsOpenSessions'
  BY <1>15 DEF Fail, ResetEndsOpenSessions, Sessions
<1>16. ASSUME NEW t \in Request, Expire(t) PROVE ResetEndsOpenSessions'
  BY <1>16 DEF Expire, ResetEndsOpenSessions, Sessions
<1>17. CASE UNCHANGED vars
  BY <1>17 DEF vars, ResetEndsOpenSessions, Sessions
<1> QED
  BY <1>1, <1>2, <1>3, <1>4, <1>5, <1>6, <1>7, <1>8, <1>9, <1>10, <1>11, <1>12, <1>13, <1>14, <1>15, <1>16, <1>17 DEF Next

\* Initially nothing was asked for, issued or opened.
LEMMA InitInv == Init => CredentialInv
<1> SUFFICES ASSUME Init PROVE CredentialInv
  OBVIOUS
<1> USE CredentialAssumption
<1>1. (CHOOSE s \in Scope : TRUE) \in Scope
  OBVIOUS
<1>2. TypeOK
  BY <1>1 DEF Init, TypeOK, Password, Label, Kinds, Access
<1>3. /\ \A r \in Request : /\ pc[r] = "new" /\ token[r] = "none" /\ session[r] = "none"
                            /\ call[r].kind = "login" /\ before[r] = {}
  <2>1. \A r \in Request : call[r].kind = "login"
    BY DEF Init
  <2> QED
    BY <2>1 DEF Init
<1>3a. status = "active" <=> stored # {}
  BY DEF Init
<1>3b. \A p, q \in stored : p = q
  BY DEF Init
<1>4. Stages /\ Found /\ Exclusive /\ Using /\ OneWorks /\ OneLeft
  BY <1>3 DEF Stages, Found, Exclusive, LockedBy, Using, OneWorks, OneLeft, Live, Users
<1>5. ActiveUser /\ Ending /\ UsedOnce /\ ResetEndsOpenSessions
  BY <1>3, <1>3a, <1>3b DEF ActiveUser, Ending, UsedOnce, Users, ResetEndsOpenSessions
<1> QED
  BY <1>2, <1>4, <1>5 DEF CredentialInv, LinksInv

\* The conjunction of the parts is inductive.
THEOREM Inductive == Spec => []CredentialInv
<1>1. CredentialInv /\ [Next]_vars => CredentialInv'
  BY TypeOKStep, StagesStep, FoundStep, ExclusiveStep, UsingStep, OneWorksStep, OneLeftStep,
     ActiveUserStep, EndingStep, UsedOnceStep, ResetEndsOpenSessionsStep
     DEF CredentialInv, LinksInv
<1> QED
  BY InitInv, <1>1, PTL DEF Spec

\* The variables of the account and of every request keep their types.
THEOREM TypeCorrect == Spec => []TypeOK
<1>1. CredentialInv => TypeOK
  BY DEF CredentialInv, LinksInv
<1> QED
  BY <1>1, Inductive, PTL

\* Reissuing leaves a user with exactly one working link per purpose and
\* scope, or none because one was used.
THEOREM LinkStaysOne == Spec => []OneOutstanding
<1>1. ASSUME CredentialInv PROVE OneOutstanding
  <2> USE <1>1 DEF CredentialInv, LinksInv
  <2> SUFFICES ASSUME NEW k \in {"forgot", "invite"}, NEW s \in Scope,
                      NEW t \in Request, token[t] # "none",
                      call[t].kind = k, call[t].scope = s
               PROVE  \/ Cardinality(Outstanding(k, s)) = 1
                      \/ /\ Outstanding(k, s) = {}
                         /\ \E u \in Request : /\ token[u] = "consumed"
                                             /\ call[u].kind = k /\ call[u].scope = s
    BY DEF OneOutstanding
  <2>1. \A u \in Outstanding(k, s) : u \in Request /\ token[u] \in Live /\ SameFamily(u, t)
    BY DEF Outstanding, SameFamily, Live
  <2>2. \A u, v \in Outstanding(k, s) : u = v
    BY <2>1 DEF OneWorks, SameFamily
  <2>3. CASE Outstanding(k, s) # {}
    <3>1. PICK u : Outstanding(k, s) = {u}
      BY <2>2, <2>3
    <3> QED
      BY <3>1, FS_Singleton
  <2>4. CASE Outstanding(k, s) = {}
    <3>1. PICK u \in Request : token[u] \in Live \cup {"consumed"} /\ SameFamily(u, t)
      BY DEF OneLeft
    <3>2. token[u] \notin Live
      BY <2>4, <3>1 DEF Outstanding, SameFamily, Live
    <3>3. token[u] = "consumed" /\ call[u].kind \in Issuers
      BY <3>1, <3>2 DEF Stages
    <3>4. call[u].kind = k /\ call[u].scope = s
      BY <3>1, <3>3 DEF SameFamily, Purpose, Issuers
    <3> QED
      BY <2>4, <3>3, <3>4
  <2> QED
    BY <2>3, <2>4
<1> QED
  BY <1>1, Inductive, PTL

\* A link completes one activation or reset, however many present it.
THEOREM LinkIsUsedOnce == Spec => []LinkUsedOnce
<1>1. CredentialInv => LinkUsedOnce
  BY DEF CredentialInv, UsedOnce, LinkUsedOnce, Users
<1> QED
  BY <1>1, Inductive, PTL

\* An answered reset has ended every session that was active when it came.
THEOREM ResetEndsSessions == Spec => []ResetEndsOpenSessions
<1>1. CredentialInv => ResetEndsOpenSessions
  BY DEF CredentialInv
<1> QED
  BY <1>1, Inductive, PTL

=============================================================================
