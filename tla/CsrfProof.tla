----------------------------- MODULE CsrfProof -----------------------------
(***************************************************************************)
(* The proofs against cross-site requests.  The console's back end fetches *)
(* a proof for each change of a page and sends it with the change itself,  *)
(* so that the two requests may reach different API processes at different *)
(* times.  There are three proofs: a login's is keyed by the ten minutes   *)
(* in which it was issued, that of a change within a session by the        *)
(* session's token, and that of a command for somebody who cannot sign in  *)
(* (activation, password) carries its purpose and its time of issue.       *)
(*                                                                         *)
(* Abstracted: a proof is the key and the values it was derived from, and  *)
(* verifies for exactly those; a host stands for its origin; the API       *)
(* trusts the console's x-forwarded-host.  Time is in units that divide    *)
(* both lives of a proof (ten and fifteen minutes).  Tokens that are       *)
(* replaced between the two requests are ConsoleSession's.                 *)
(***************************************************************************)
EXTENDS Integers

CONSTANTS Call,     \* commands of pages, each sent once
          Api,      \* API processes
          Host,     \* the console's hosts
          Asked,    \* the kinds of command the pages send
          Window,   \* PRE_AUTH_WINDOW_MS
          Ttl,      \* CSRF_TTL_MS
          MaxSkew,  \* bound: how far ahead of time a process's clock may be
          MaxTime   \* bound

VARIABLES now,
          skew,     \* by process, how far its clock is ahead
          listed,   \* SESSION_ALLOWED_ORIGINS of the deployment
          allowed,  \* the origins each process read when it started
          signedIn, \* calls whose browser has a session
          call,     \* what a call asks for: [kind, host, origin]
          stage,    \* new, fetch, post, and then ok, forbidden or signedOut
          proof,    \* the proof a call carries
          issue,    \* history: true time of its issue, and the issuer
          verdict   \* history: true time and process of its verdict, and
                    \* whether that process knew the host's origin

vars == <<now, skew, listed, allowed, signedIn, call, stage, proof, issue, verdict>>

Identity == {"activation", "password_forgot", "password_reset"}
Kinds == Identity \cup {"login", "session"}
Nothing == "nothing"
Clock(a) == now + skew[a]
Bucket(a) == Clock(a) \div Window

-----------------------------------------------------------------------------
SessionProof(c) == <<"session", c, call[c].host>>
BucketProof(bucket, host) == <<"pre-auth", bucket, host>>
IdentityProof(purpose, host, at) == <<"identity", purpose, host, at>>

Issues(c, a) ==
  CASE call[c].kind \in Identity ->
         IdentityProof(call[c].kind, call[c].host, Clock(a))
    [] call[c].kind = "session" -> SessionProof(c)
    [] OTHER -> BucketProof(Bucket(a), call[c].host)

\* Faulty variant: a proof is good in the ten minutes of its issue only.
VerifiesThisWindow(c, a) ==
  IF call[c].kind = "session"
  THEN proof[c] = SessionProof(c)
  ELSE proof[c] = BucketProof(Bucket(a), call[c].host)

VerifiesSession(c, a) ==
  IF call[c].kind = "session"
  THEN proof[c] = SessionProof(c)
  ELSE \E b \in {Bucket(a), Bucket(a) - 1} : proof[c] = BucketProof(b, call[c].host)

VerifiesIdentity(c, a) ==
  \E at \in Clock(a) - Ttl .. Clock(a) :
    proof[c] = IdentityProof(call[c].kind, call[c].host, at)

\* CsrfGuard wants the console's origin on its list; the commands for the
\* signed-out are sent with the API's own origin, which is expected of them.
Verifies(c, a) ==
  IF call[c].kind \in Identity THEN VerifiesIdentity(c, a)
  ELSE call[c].host \in allowed[a] /\ VerifiesSession(c, a)

-----------------------------------------------------------------------------
Init ==
  /\ now = 0 /\ skew \in [Api -> 0..MaxSkew]
  /\ listed \in SUBSET Host /\ allowed = [a \in Api |-> listed]
  /\ signedIn = Call
  /\ call = [c \in Call |-> [kind |-> "login", host |-> Nothing, origin |-> Nothing]]
  /\ stage = [c \in Call |-> "new"] /\ proof = [c \in Call |-> Nothing]
  /\ issue = [c \in Call |-> [at |-> 0, by |-> Nothing]]
  /\ verdict = [c \in Call |-> [at |-> 0, by |-> Nothing, known |-> FALSE]]

Go(c, label) == stage' = [stage EXCEPT ![c] = label]

(* A page sends a change; the console's back end wants it to come from a   *)
(* page of the host it is sent to.                                         *)
Send(c, kind, host, origin) ==
  /\ stage[c] = "new"
  /\ call' = [call EXCEPT ![c] = [kind |-> kind, host |-> host, origin |-> origin]]
  /\ Go(c, IF origin = host THEN "fetch" ELSE "forbidden")
  /\ UNCHANGED <<now, skew, listed, allowed, signedIn, proof, issue, verdict>>

\* The middleware of the API refuses the cookie of a session that ended.
Unknown(c) == call[c].kind = "session" /\ c \notin signedIn

Fetch(c, a) ==
  /\ stage[c] = "fetch"
  /\ IF Unknown(c)
     THEN Go(c, "signedOut") /\ UNCHANGED <<proof, issue>>
     ELSE /\ Go(c, "post")
          /\ proof' = [proof EXCEPT ![c] = Issues(c, a)]
          /\ issue' = [issue EXCEPT ![c] = [at |-> now, by |-> a]]
  /\ UNCHANGED <<now, skew, listed, allowed, signedIn, call, verdict>>

Post(c, a) ==
  /\ stage[c] = "post"
  /\ verdict' = [verdict EXCEPT ![c] = [at |-> now, by |-> a, known |-> call[c].host \in allowed[a]]]
  /\ Go(c, IF Unknown(c) THEN "signedOut" ELSE IF Verifies(c, a) THEN "ok" ELSE "forbidden")
  /\ UNCHANGED <<now, skew, listed, allowed, signedIn, call, proof, issue>>

SessionEnds(c) ==
  /\ c \in signedIn /\ call[c].kind = "session" /\ signedIn' = signedIn \ {c}
  /\ UNCHANGED <<now, skew, listed, allowed, call, stage, proof, issue, verdict>>

(* The operator adds a host's origin; a process knows it when restarted.   *)
List(h) ==
  /\ h \notin listed /\ listed' = listed \cup {h}
  /\ UNCHANGED <<now, skew, allowed, signedIn, call, stage, proof, issue, verdict>>

Restart(a) ==
  /\ allowed[a] # listed /\ allowed' = [allowed EXCEPT ![a] = listed]
  /\ UNCHANGED <<now, skew, listed, signedIn, call, stage, proof, issue, verdict>>

Tick ==
  /\ now < MaxTime /\ now' = now + 1
  /\ UNCHANGED <<skew, listed, allowed, signedIn, call, stage, proof, issue, verdict>>

Next ==
  \/ \E c \in Call :
       \/ \E kind \in Asked, host \in Host, origin \in Host \cup {Nothing} :
            Send(c, kind, host, origin)
       \/ \E a \in Api : Fetch(c, a) \/ Post(c, a)
       \/ SessionEnds(c)
  \/ \E h \in Host : List(h)
  \/ \E a \in Api : Restart(a)
  \/ Tick

Spec == Init /\ [][Next]_vars

-----------------------------------------------------------------------------
(* Values have their types.                                                *)
TypeOK ==
  /\ now \in 0..MaxTime /\ skew \in [Api -> 0..MaxSkew]
  /\ listed \subseteq Host /\ allowed \in [Api -> SUBSET Host]
  /\ signedIn \subseteq Call
  /\ stage \in [Call -> {"new", "fetch", "post", "ok", "forbidden", "signedOut"}]

\* The age of a proof, as the clocks of the two processes tell it.
Age(c) == verdict[c].at + skew[verdict[c].by] - issue[c].at - skew[issue[c].by]

(* A proof lives its time, on whichever side of a ten-minute boundary it   *)
(* was issued and whichever process verifies it.  A login's is good for    *)
(* ten minutes and never for twenty, one for the signed-out for fifteen, a *)
(* session's until the session ends: one is refused earlier only by a      *)
(* process whose clock is behind the issuer's, or that was not restarted   *)
(* since the host's origin was listed, which activation and passwords at a *)
(* new host do not wait for.                                               *)
ProofsLiveTheirTime ==
  \A c \in Call : verdict[c].by # Nothing =>
    /\ stage[c] = "ok" =>
         CASE call[c].kind \in Identity -> Age(c) \in 0..Ttl
           [] call[c].kind = "login"    -> Age(c) > -Window /\ Age(c) < 2 * Window
           [] call[c].kind = "session"  -> verdict[c].known
    /\ stage[c] = "forbidden" =>
         CASE call[c].kind \in Identity -> Age(c) \notin 0..Ttl
           [] call[c].kind = "login"    -> verdict[c].known => Age(c) \notin 0..Window
           [] call[c].kind = "session"  -> ~verdict[c].known
=============================================================================
