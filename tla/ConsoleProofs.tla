--------------------------- MODULE ConsoleProofs ---------------------------
(***************************************************************************)
(* Proofs about ConsoleSession and LoginAbuse: for every set of calls,     *)
(* tokens and sessions, and for every set of logins, accounts and          *)
(* networks, however long the clock runs.                                  *)
(***************************************************************************)
EXTENDS MCConsole, FiniteSetTheorems, NaturalsInduction, WellFoundedInduction, TLAPS

Minted(t) == fate[t] # "none"

(* Only a call that the API has answered has minted a token; it offers that *)
(* one to the browser, and until the answer is in nobody can replace it.   *)
Minting ==
  /\ Minted(Start)
  /\ \A c \in Call :
       /\ Minted(c) => /\ pc[c] \in {"answer", "done"}
                       /\ kind[c] \in Guarded \cup {"login", "refresh", "accept"}
                       /\ pc[c] = "answer" => offer[c] = c /\ fate[c] = "current"
       /\ ~Minted(c) => family[c] = c /\ state[c] = "none"
       /\ offer[c] \in Token => offer[c] = c /\ Minted(c)
       /\ pc[c] \notin {"answer", "done"} => offer[c] = NoCookie

\* A token in use is one the browser was given.
Given(t) == Minted(t) /\ (t \in Call => pc[t] = "done")

(* What the browser and the calls carry was given to the browser. *)
Carrying ==
  /\ jar # NoCookie => Given(jar)
  /\ \A c \in Call :
       /\ cookie[c] # NoCookie => Given(cookie[c])
       /\ pc[c] = "new" => cookie[c] = NoCookie
       /\ pc[c] \in {"csrf", "handle"} => kind[c] # "login"
       /\ pc[c] \in {"csrf", "auth", "handle"} /\ kind[c] # "login" => cookie[c] # NoCookie

(* A session has one token that is not replaced. *)
OneCurrent ==
  /\ \A t \in Token : Minted(t) => state[family[t]] # "none"
  /\ \A s \in Token : state[s] # "none" =>
       \E t \in Token : family[t] = s /\ fate[t] = "current"
  /\ \A t, u \in Token :
       family[t] = family[u] /\ fate[t] = "current" /\ fate[u] = "current" => t = u

(* A session seen active never goes back to pending. *)
Seeing ==
  \A c \in Call :
    /\ pc[c] = "handle" => seen[c].state \in {"pending", "active"}
    /\ seen[c].state = "active" => cookie[c] # NoCookie /\ state[Own(c)] \notin {"none", "pending"}

(* A token in its overlap has a successor.  If the browser holds a token   *)
(* with a successor, the answer with that is under way, lost or withheld.  *)
Succession ==
  /\ \A t \in Token : fate[t] = "overlap" => \E d \in Call : Successor(t, d)
  /\ jar # NoCookie => \A d \in Call : Successor(jar, d) =>
       InFlight(d) \/ d \in lost \/ kind[d] \in Guarded

Excused(t) == Missed(t) \/ Withheld(t)
(* A token past its overlap is carried only by calls that outlived it, or  *)
(* because the browser could not know better.                              *)
Stale ==
  /\ jar # NoCookie /\ fate[jar] = "stale" => Excused(jar)
  /\ \A c \in Call : InFlight(c) /\ cookie[c] # NoCookie /\ fate[cookie[c]] = "stale" =>
       c \in late \/ Excused(cookie[c])

\* The histories speak of calls that were made.
Histories ==
  /\ \A c \in refused : pc[c] \in {"answer", "done"}
  /\ \A c \in reuse : pc[c] # "new" /\ cookie[c] # NoCookie
  /\ \A c \in late \cup lost : pc[c] # "new"

(* Token d of t's session is newer and the browser does not have it. *)
Newer(t, d) ==
  /\ family[d] = family[t] /\ Minted(d)
  /\ d \in lost \/ kind[d] \in Guarded \/ InFlight(d)

TokenInv == TypeOK /\ Minting /\ Carrying /\ OneCurrent
ConsoleInv ==
  /\ TokenInv /\ Seeing /\ Succession /\ Stale /\ Histories
  /\ ReuseHasCause /\ JarIsNewest /\ RefusalHasCause
-----------------------------------------------------------------------------
(* The steps of the API by their effect. *)

\* Sessions may end.
Ending ==
  /\ state' \in [Token -> {"none", "pending", "active", "revoked", "compromised"}]
  /\ \A s \in Token : \/ state'[s] = state[s]
                      \/ Alive(s) /\ state'[s] \in {"revoked", "compromised"}

Cause(c) ==
  \/ kind[c] \in {"login", "accept"} \/ cookie[c] = NoCookie
  \/ ~Alive(Own(c)) \/ seen[c].state = "pending" \/ fate[cookie[c]] = "revoked"
  \/ kind[c] \in Guarded \cup {"refresh"} /\ fate[cookie[c]] # "current"

\* The middleware lets a call through.
Pass(c) ==
  /\ pc[c] \in {"csrf", "auth"} /\ kind[c] # "login" /\ Alive(Own(c))
  /\ pc' = [pc EXCEPT ![c] = IF pc[c] = "csrf" THEN "auth" ELSE "handle"]
  /\ seen' = [seen EXCEPT ![c] = [state |-> state[Own(c)], version |-> snapshot[Own(c)]]]
  /\ UNCHANGED <<sessions, account, jar, request, offer, refused, history>>

\* A call is answered, no token is minted.
Quiet(c) ==
  /\ pc[c] \in {"csrf", "auth", "handle"} /\ pc' = [pc EXCEPT ![c] = "answer"]
  /\ Ending
  /\ offer' \in {offer, [offer EXCEPT ![c] = NoCookie], [offer EXCEPT ![c] = Expired]}
  /\ \/ refused' = refused
     \/ refused' = refused \cup {c} /\ Cause(c)'
  /\ \/ reuse' = reuse
     \/ /\ reuse' = reuse \cup {c}
        /\ cookie[c] # NoCookie /\ fate[cookie[c]] = "stale"
  /\ UNCHANGED <<snapshot, fate, family, account, jar, request, seen, late, lost>>

Opening(c) ==
  /\ pc[c] = "auth" /\ kind[c] = "login"
  /\ \E s \in {"pending", "active"} : state' = [state EXCEPT ![c] = s]
  /\ snapshot' = [snapshot EXCEPT ![c] = current]
  /\ fate' = [fate EXCEPT ![c] = "current"] /\ offer' = [offer EXCEPT ![c] = c]
  /\ pc' = [pc EXCEPT ![c] = "answer"]
  /\ UNCHANGED <<family, account, jar, request, seen, refused, history>>

\* A call mints the successor of the token it carries.
Rotation(c) ==
  /\ pc[c] = "handle" /\ kind[c] \in Guarded \cup {"refresh", "accept"}
  /\ fate[cookie[c]] = "current" /\ Alive(Own(c))
  /\ \E end \in {"overlap", "revoked"} : Replace(c, end)
  /\ state' \in {state, [state EXCEPT ![Own(c)] = "active"]}
  /\ snapshot' \in {snapshot, [snapshot EXCEPT ![Own(c)] = current]}
  /\ current' \in {current, current + 1} /\ member' \in {member, "active"}
  /\ UNCHANGED <<jar, request, seen, history>>

\* Where a call that carries a token finds it.
LEMMA Carried ==
  ASSUME TypeOK, Carrying, NEW c \in Call,
         pc[c] \in {"csrf", "auth", "handle"}, kind[c] # "login"
  PROVE  /\ cookie[c] \in Token /\ cookie[c] # NoCookie /\ Own(c) \in Token
         /\ Minted(cookie[c])
  BY DEF TypeOK, Carrying, Given, Own

\* The middleware lets a call through or answers it.
LEMMA AuthenticateEffect ==
  ASSUME TokenInv, NEW c \in Call, Authenticate(c)
  PROVE  Pass(c) \/ Quiet(c)
<1> USE DEF TokenInv
<1>1. /\ pc[c] \in {"csrf", "auth"} /\ kind[c] # "login"
      /\ UNCHANGED <<snapshot, fate, family, account, jar, request, offer, late, lost>>
  BY DEF Authenticate
<1>2. cookie[c] \in Token /\ cookie[c] # NoCookie /\ Own(c) \in Token /\ Minted(cookie[c])
  BY <1>1, Carried
<1>3. CASE Accepts(cookie[c])
  <2>1. Alive(Own(c))
    BY <1>3 DEF Accepts, Own
  <2>2. /\ pc' = [pc EXCEPT ![c] = IF pc[c] = "csrf" THEN "auth" ELSE "handle"]
        /\ seen' = [seen EXCEPT ![c] = [state |-> state[Own(c)], version |-> snapshot[Own(c)]]]
        /\ UNCHANGED <<state, refused, reuse>>
    BY <1>3 DEF Authenticate, Go
  <2> QED
    BY <1>1, <2>1, <2>2 DEF Pass, sessions, history
<1>4. CASE ~Accepts(cookie[c])
  <2>1. /\ pc' = [pc EXCEPT ![c] = "answer"] /\ refused' = refused \cup {c} /\ seen' = seen
    BY <1>4 DEF Authenticate, Refuse, Go
  <2>2. CASE Alive(Own(c)) /\ fate[cookie[c]] = "stale"
    <3>1. state' = [state EXCEPT ![Own(c)] = "compromised"] /\ reuse' = reuse \cup {c}
      BY <1>4, <2>2 DEF Authenticate
    <3>2. Ending
      BY <1>2, <2>2, <3>1 DEF Ending, TypeOK
    <3>3. Own(c)' = Own(c) /\ ~Alive(Own(c))'
      BY <1>1, <1>2, <3>1 DEF Own, Alive, TypeOK, request
    <3>4. Cause(c)'
      BY <3>3 DEF Cause
    <3> QED
      BY <1>1, <1>2, <2>1, <2>2, <3>1, <3>2, <3>4 DEF Quiet
  <2>3. CASE ~(Alive(Own(c)) /\ fate[cookie[c]] = "stale")
    <3>1. state' = state /\ reuse' = reuse
      BY <1>4, <2>3 DEF Authenticate
    <3>2. Ending
      BY <3>1 DEF Ending, TypeOK
    <3>3. ~Alive(Own(c)) \/ fate[cookie[c]] = "revoked"
      BY <1>2, <1>4, <2>3 DEF Accepts, Own, Minted, TypeOK
    <3>4. Cause(c)'
      BY <1>1, <3>1, <3>3 DEF Cause, Own, Alive, request
    <3> QED
      BY <1>1, <2>1, <3>1, <3>2, <3>4 DEF Quiet
  <2> QED
    BY <2>2, <2>3
<1> QED
  BY <1>3, <1>4

\* Ending some sessions is an end.
LEMMA Killing ==
  ASSUME TypeOK, NEW S, Kill(S)
  PROVE  Ending /\ \A s \in S \cap Token : state'[s] \notin {"pending", "active"}
  BY DEF TypeOK, Kill, Ending, Alive

\* An answer without a new token that leaves the sessions alone or ends some.
LEMMA QuietAnswer ==
  ASSUME NEW c \in Call, pc[c] = "handle", pc' = [pc EXCEPT ![c] = "answer"],
         Ending, NEW o \in {NoCookie, Expired}, offer' = [offer EXCEPT ![c] = o],
         refused' = refused, UNCHANGED <<snapshot, fate, family>>, Keep(c)
  PROVE  Quiet(c)
  BY DEF Quiet, Keep, history

\* A refusal with a cause.
LEMMA QuietRefusal ==
  ASSUME NEW c \in Call, pc[c] \in {"auth", "handle"}, Refuse(c), Ending,
         UNCHANGED <<snapshot, fate, family, offer>>, Keep(c), Cause(c)'
  PROVE  Quiet(c)
  BY DEF Quiet, Keep, Refuse, Go, history

\* A login opens a session or fails.
LEMMA LoginEffect ==
  ASSUME TypeOK, NEW c \in Call, Login(c)
  PROVE  Opening(c) \/ Quiet(c)
<1>1. pc[c] = "auth" /\ kind[c] = "login" /\ UNCHANGED <<account, jar, request, seen, history>>
  BY DEF Login
<1>2. CASE Fail(c)
  <2>1. Ending /\ Cause(c)'
    BY <1>1, <1>2 DEF Ending, TypeOK, Fail, sessions, Cause, request
  <2> QED
    BY <1>1, <1>2, <2>1, QuietRefusal DEF Fail, Keep, sessions
<1>3. CASE ~Fail(c)
  BY <1>1, <1>3 DEF Login, Opening, Settle, Offer, Go
<1> QED
  BY <1>2, <1>3

\* What a handler knows of the call it handles.
LEMMA Handling ==
  ASSUME TokenInv, Seeing, NEW c \in Call, pc[c] = "handle"
  PROVE  /\ cookie[c] \in Token /\ cookie[c] # NoCookie /\ Own(c) \in Token
         /\ Minted(cookie[c])
         /\ seen[c].state = "active" => Alive(Own(c)) <=> state[Own(c)] = "active"
<1>1. kind[c] # "login"
  BY DEF TokenInv, Carrying
<1>2. /\ cookie[c] \in Token /\ cookie[c] # NoCookie /\ Own(c) \in Token /\ Minted(cookie[c])
  BY <1>1, Carried DEF TokenInv
<1> QED
  BY <1>2 DEF Seeing, Alive

\* A refusal of the guards, a reading, a logout and the revocations mint none.
LEMMA OthersEffect ==
  ASSUME TokenInv, Seeing, NEW c \in Call,
         Forbid(c) \/ Read(c) \/ Logout(c) \/ RevokeSession(c) \/ RevokeOthers(c)
  PROVE  Quiet(c)
<1> USE DEF TokenInv
<1>1. pc[c] = "handle" /\ Keep(c)
  BY DEF Forbid, Read, Logout, RevokeSession, RevokeOthers, Handles
<1>2. CASE Forbid(c)
  <2>1. seen[c].state = "pending"
    BY <1>1, <1>2 DEF Forbid, Allowed, Seeing
  <2>2. Ending /\ Cause(c)'
    BY <1>1, <1>2, <2>1 DEF Ending, TypeOK, Forbid, Fail, sessions, Cause, Keep
  <2> QED
    BY <1>1, <1>2, <2>2, QuietRefusal DEF Forbid, Fail, sessions
<1>3. CASE Read(c)
  <2>1. Ending
    BY <1>3 DEF Ending, TypeOK, Read, sessions
  <2> QED
    BY <1>1, <1>3, <2>1, QuietAnswer DEF Read, Settle, Offer, Go, sessions
<1>4. CASE Logout(c) \/ RevokeSession(c) \/ RevokeOthers(c)
  <2>1. \E S \in SUBSET Token, o \in {NoCookie, Expired} :
          Kill(S) /\ Settle(c, o) /\ UNCHANGED <<snapshot, fate, family>>
    <3>1. Own(c) \in Token /\ target[c] \in Token
      BY <1>1, Handling DEF TypeOK
    <3>2. CASE Logout(c)
      BY <3>1, <3>2 DEF Logout
    <3>3. CASE RevokeSession(c)
      <4>1. (IF target[c] = Own(c) THEN Expired ELSE NoCookie) \in {NoCookie, Expired}
        OBVIOUS
      <4> QED
        BY <3>1, <3>3, <4>1 DEF RevokeSession
    <3>4. CASE RevokeOthers(c)
      BY <3>4 DEF RevokeOthers
    <3> QED
      BY <1>4, <3>2, <3>3, <3>4
  <2>2. PICK S \in SUBSET Token, o \in {NoCookie, Expired} :
          Kill(S) /\ Settle(c, o) /\ UNCHANGED <<snapshot, fate, family>>
    BY <2>1
  <2>3. Ending
    BY <2>2, Killing
  <2> QED
    BY <1>1, <2>2, <2>3, QuietAnswer DEF Settle, Offer, Go
<1> QED
  BY <1>2, <1>3, <1>4

\* PermissionGuard ends the session, lets it be, rotates, or is too late.
LEMMA GuardEffect ==
  ASSUME TokenInv, Seeing, NEW c \in Call, Guard(c)
  PROVE  Rotation(c) \/ Quiet(c)
<1> USE DEF TokenInv
<1>1. /\ pc[c] = "handle" /\ kind[c] \in Guarded /\ Keep(c) /\ seen[c].state = "active"
  BY DEF Guard, Handles, Allowed, Guarded
<1>2. /\ cookie[c] \in Token /\ cookie[c] # NoCookie /\ Own(c) \in Token /\ Minted(cookie[c])
      /\ Alive(Own(c)) <=> state[Own(c)] = "active"
  BY <1>1, Handling
<1>3. CASE member # "active"
  <2>1. Kill({Own(c)}) /\ Refuse(c) /\ UNCHANGED <<snapshot, fate, family, offer>>
    BY <1>3 DEF Guard
  <2>2. Ending /\ state'[Own(c)] \notin {"pending", "active"}
    BY <1>2, <2>1, Killing
  <2>3. Cause(c)'
    BY <1>1, <2>1, <2>2 DEF Cause, Own, Alive, Keep, request
  <2> QED
    BY <1>1, <2>1, <2>2, <2>3, QuietRefusal
<1>4. CASE member = "active" /\ seen[c].version = current
  <2>1. Settle(c, NoCookie) /\ UNCHANGED sessions
    BY <1>4 DEF Guard
  <2>2. Ending
    BY <2>1 DEF Ending, TypeOK, sessions
  <2> QED
    BY <1>1, <2>1, <2>2, QuietAnswer DEF Settle, Offer, Go, sessions
<1>5. CASE member = "active" /\ seen[c].version # current /\ Holds(c, "active")
  <2>1. /\ Replace(c, "overlap") /\ snapshot' = [snapshot EXCEPT ![Own(c)] = current]
        /\ state' = state
    BY <1>5 DEF Guard
  <2> QED
    BY <1>1, <1>2, <1>5, <2>1 DEF Rotation, Holds, Alive, Keep, account
<1>6. CASE member = "active" /\ seen[c].version # current /\ ~Holds(c, "active")
  <2>1. Fail(c)
    BY <1>6 DEF Guard
  <2>2. Ending
    BY <2>1 DEF Ending, TypeOK, Fail, sessions
  <2>3. ~Alive(Own(c)) \/ fate[cookie[c]] # "current"
    BY <1>2, <1>6 DEF Holds
  <2>4. Cause(c)'
    BY <1>1, <2>1, <2>3 DEF Cause, Own, Alive, Keep, request, Fail, sessions
  <2> QED
    BY <1>1, <2>1, <2>2, <2>4, QuietRefusal DEF Fail, sessions
<1> QED
  BY <1>3, <1>4, <1>5, <1>6

\* A refresh rotates, finds that another did, or takes the caller for a thief.
LEMMA RefreshEffect ==
  ASSUME TokenInv, Seeing, NEW c \in Call, Refresh(c)
  PROVE  Rotation(c) \/ Quiet(c)
<1> USE DEF TokenInv
<1>1. /\ pc[c] = "handle" /\ kind[c] = "refresh" /\ seen[c].state = "active"
      /\ reuse' = IF state' # state THEN reuse \cup {c} ELSE reuse
      /\ UNCHANGED <<account, jar, request, seen, late, lost>>
  BY DEF Refresh, Handles, Allowed
<1>2. /\ cookie[c] \in Token /\ cookie[c] # NoCookie /\ Own(c) \in Token /\ Minted(cookie[c])
      /\ Alive(Own(c)) <=> state[Own(c)] = "active"
  BY <1>1, Handling
<1>3. CASE state[Own(c)] # "active" \/ fate[cookie[c]] = "revoked"
  <2>1. Fail(c)
    BY <1>3 DEF Refresh, Holds
  <2>2. Ending /\ reuse' = reuse
    BY <1>1, <2>1 DEF Ending, TypeOK, Fail, sessions
  <2>3. Cause(c)'
    BY <1>1, <1>2, <1>3, <2>1 DEF Cause, Own, Alive, request, Fail, sessions
  <2> QED
    BY <1>1, <2>1, <2>2, <2>3, QuietRefusal DEF Fail, sessions, Keep, history
<1>4. CASE Holds(c, "active")
  <2>1. Replace(c, "overlap") /\ UNCHANGED <<state, snapshot>>
    BY <1>4 DEF Refresh, Holds
  <2> QED
    BY <1>1, <1>2, <1>4, <2>1 DEF Rotation, Holds, Alive, history, account
<1>5. CASE state[Own(c)] = "active" /\ fate[cookie[c]] = "overlap"
  <2>1. Settle(c, NoCookie) /\ UNCHANGED sessions
    BY <1>5 DEF Refresh, Holds
  <2>2. Ending /\ reuse' = reuse
    BY <1>1, <2>1 DEF Ending, TypeOK, sessions
  <2> QED
    BY <1>1, <2>1, <2>2, QuietAnswer DEF Settle, Offer, Go, sessions, Keep, history
<1>6. CASE state[Own(c)] = "active" /\ fate[cookie[c]] \notin {"revoked", "current", "overlap"}
  <2>1. /\ Refuse(c) /\ state' = [state EXCEPT ![Own(c)] = "compromised"]
        /\ UNCHANGED <<snapshot, fate, family, offer>>
    BY <1>6 DEF Refresh, Holds
  <2>2. Ending /\ ~Alive(Own(c))'
    BY <1>1, <1>2, <1>6, <2>1 DEF Ending, TypeOK, Alive, Own, request
  <2>3. Cause(c)'
    BY <2>2 DEF Cause
  <2>4. reuse' = reuse \cup {c} \/ reuse' = reuse
    BY <1>1
  <2>5. fate[cookie[c]] = "stale"
    BY <1>2, <1>6 DEF Minted, TypeOK
  <2> QED
    BY <1>1, <1>2, <2>1, <2>2, <2>3, <2>4, <2>5 DEF Quiet, Refuse, Go
<1> QED
  BY <1>3, <1>4, <1>5, <1>6 DEF Holds

\* An acceptance elevates the session, or is refused.
LEMMA AcceptEffect ==
  ASSUME TokenInv, Seeing, NEW c \in Call, Accept(c)
  PROVE  Rotation(c) \/ Quiet(c)
<1> USE DEF TokenInv
<1>1. pc[c] = "handle" /\ kind[c] = "accept" /\ UNCHANGED <<jar, request, seen, history>>
  BY DEF Accept, Handles
<1>2. CASE seen[c].state = "pending" /\ Holds(c, "pending") /\ member = "invited"
  BY <1>1, <1>2 DEF Accept, Rotation, Holds, Alive
<1>3. CASE ~(seen[c].state = "pending" /\ Holds(c, "pending") /\ member = "invited")
  <2>1. Fail(c) /\ UNCHANGED account
    BY <1>3 DEF Accept
  <2>2. Ending /\ Cause(c)'
    BY <1>1, <2>1 DEF Ending, TypeOK, Fail, sessions, Cause, request
  <2> QED
    BY <1>1, <2>1, <2>2, QuietRefusal DEF Fail, sessions, Keep, account
<1> QED
  BY <1>2, <1>3

\* Every step by its effect.
LEMMA Effects ==
  ASSUME TokenInv, Seeing, [Next]_vars
  PROVE  \/ \E c \in Call : \/ Send(c) \/ Pass(c) \/ Quiet(c) \/ Opening(c) \/ Rotation(c)
                            \/ Receive(c) \/ Lose(c)
         \/ \E t \in Token : OverlapEnds(t)
         \/ ChangeAuthorization
         \/ UNCHANGED vars
<1>1. ASSUME NEW c \in Call, Handle(c) PROVE Opening(c) \/ Rotation(c) \/ Quiet(c)
  BY <1>1, LoginEffect, OthersEffect, GuardEffect, RefreshEffect, AcceptEffect DEF Handle, TokenInv
<1> QED
  BY <1>1, AuthenticateEffect DEF Next
-----------------------------------------------------------------------------
(* The parts of the invariant, one effect at a time. *)

\* The facts about constants that the steps need.
LEMMA Tokens ==
  /\ Start \in Token /\ Call \subseteq Token /\ Start \notin Call
  /\ NoCookie \notin Token /\ Expired \notin Token /\ NoCookie # Expired
  BY ConsoleAssumption DEF Token, NoCookie, Expired

\* A rotation, token by token: no other current token of the session is lost.
LEMMA Replacing ==
  ASSUME TokenInv, NEW c \in Call, Rotation(c)
  PROVE  /\ cookie[c] \in Token /\ cookie[c] # NoCookie /\ Own(c) \in Token
         /\ ~Minted(c) /\ c # cookie[c] /\ family[c] = c /\ Minted(cookie[c])
         /\ fate'[c] = "current" /\ fate'[cookie[c]] \in {"overlap", "revoked"}
         /\ \A t \in Token \ {c, cookie[c]} :
              \/ fate'[t] = fate[t]
              \/ Minted(t) /\ fate[t] # "current" /\ fate'[t] = "revoked"
         /\ fate' \in [Token -> {"none", "current", "overlap", "stale", "revoked"}]
         /\ family' = [family EXCEPT ![c] = Own(c)]
         /\ pc' = [pc EXCEPT ![c] = "answer"] /\ offer' = [offer EXCEPT ![c] = c]
         /\ refused' = refused
<1> USE DEF TokenInv
<1>1. pc[c] = "handle" /\ kind[c] # "login"
  BY DEF Rotation, Carrying
<1>2. cookie[c] \in Token /\ cookie[c] # NoCookie /\ Own(c) \in Token /\ Minted(cookie[c])
  BY <1>1, Carried
<1>3. ~Minted(c) /\ c # cookie[c] /\ family[c] = c
  BY <1>1, <1>2 DEF Minting
<1>4. PICK end \in {"overlap", "revoked"} : Replace(c, end)
  BY DEF Rotation
<1>5. fate' = [t \in Token |-> CASE t = c -> "current"
                 [] end = "revoked" /\ family[t] = Own(c) /\ fate[t] # "none" -> end
                 [] t = cookie[c] -> end
                 [] OTHER -> fate[t]]
  BY <1>4 DEF Replace
<1>6. ASSUME NEW t \in Token
      PROVE  fate'[t] = IF t = c THEN "current"
                        ELSE IF end = "revoked" /\ family[t] = Own(c) /\ fate[t] # "none" THEN end
                        ELSE IF t = cookie[c] THEN end ELSE fate[t]
  BY <1>3, <1>5 DEF Minted
<1>7. fate[cookie[c]] = "current" /\ family[cookie[c]] = Own(c)
  BY DEF Rotation, Own
<1>8. \A t \in Token : family[t] = Own(c) /\ fate[t] = "current" => t = cookie[c]
  BY <1>2, <1>7 DEF OneCurrent
<1>9. \A t \in Token \ {c, cookie[c]} :
        \/ fate'[t] = fate[t]
        \/ Minted(t) /\ fate[t] # "current" /\ fate'[t] = "revoked"
  BY <1>6, <1>8 DEF Minted
<1>10. fate'[c] = "current" /\ fate'[cookie[c]] \in {"overlap", "revoked"}
  BY <1>2, <1>3, <1>6, Tokens
<1>11. fate' \in [Token -> {"none", "current", "overlap", "stale", "revoked"}]
  <2>1. \A t \in Token : fate'[t] \in {"none", "current", "overlap", "stale", "revoked"}
    BY <1>6 DEF TypeOK
  <2> QED
    BY <1>5, <2>1
<1> QED
  BY <1>2, <1>3, <1>4, <1>9, <1>10, <1>11 DEF Replace, Settle, Offer, Go

\* Values keep their types.
LEMMA TypeOKStep ==
  ASSUME TokenInv, Seeing, [Next]_vars
  PROVE  TypeOK'
<1> USE Tokens DEF TokenInv, TypeOK, sessions, account, request, history
<1>1. ASSUME NEW c \in Call, Send(c) PROVE TypeOK'
  <2>1. PICK k \in Asked, s \in Token :
          /\ kind' = [kind EXCEPT ![c] = k] /\ target' = [target EXCEPT ![c] = s]
          /\ cookie' = [cookie EXCEPT ![c] = IF k = "login" THEN NoCookie ELSE jar]
          /\ IF k # "login" /\ jar = NoCookie THEN Refuse(c)
             ELSE Go(c, IF k \in Mutations THEN "csrf" ELSE "auth") /\ UNCHANGED refused
    BY <1>1 DEF Send
  <2>2. pc' \in [Call -> Label] /\ refused' \in SUBSET Call
    BY <2>1 DEF Refuse, Go, Label
  <2>3. k \in Kinds /\ UNCHANGED <<sessions, account, jar, seen, offer, history>>
    BY <1>1, ConsoleAssumption DEF Send
  <2> QED
    BY <2>1, <2>2, <2>3
<1>2. ASSUME NEW c \in Call, Pass(c) PROVE TypeOK'
  <2>1. /\ pc[c] \in {"csrf", "auth"} /\ kind[c] # "login" /\ Alive(Own(c))
        /\ UNCHANGED <<sessions, account, jar, request, offer, refused, history>>
        /\ pc' = [pc EXCEPT ![c] = IF pc[c] = "csrf" THEN "auth" ELSE "handle"]
        /\ seen' = [seen EXCEPT ![c] = [state |-> state[Own(c)], version |-> snapshot[Own(c)]]]
    BY <1>2 DEF Pass
  <2>2. Own(c) \in Token
    BY <2>1, Carried
  <2>3. state[Own(c)] \in {"none", "pending", "active"} /\ snapshot[Own(c)] \in 0 .. current
    BY <2>1, <2>2 DEF Alive
  <2> QED
    BY <2>1, <2>3 DEF Label
<1>3. ASSUME NEW c \in Call, Quiet(c) PROVE TypeOK'
  <2>1. pc' \in [Call -> Label]
    BY <1>3 DEF Quiet, Label
  <2>2. offer' \in [Call -> Token \union {NoCookie, Expired}]
    BY <1>3 DEF Quiet
  <2>3. {refused', reuse', late', lost'} \subseteq SUBSET Call
    BY <1>3 DEF Quiet
  <2>4. state' \in [Token -> {"none", "pending", "active", "revoked", "compromised"}]
    BY <1>3 DEF Quiet, Ending
  <2>5. UNCHANGED <<snapshot, fate, family, account, jar, request, seen>>
    BY <1>3 DEF Quiet
  <2> QED
    BY <2>1, <2>2, <2>3, <2>4, <2>5
<1>4. ASSUME NEW c \in Call, Opening(c) PROVE TypeOK'
  BY <1>4 DEF Opening, Label
<1>5. ASSUME NEW c \in Call, Rotation(c) PROVE TypeOK'
  <2>1. /\ cookie[c] \in Token /\ Own(c) \in Token
        /\ fate' \in [Token -> {"none", "current", "overlap", "stale", "revoked"}]
        /\ family' = [family EXCEPT ![c] = Own(c)]
        /\ pc' = [pc EXCEPT ![c] = "answer"] /\ offer' = [offer EXCEPT ![c] = c]
        /\ refused' = refused
    BY <1>5, Replacing
  <2>2. /\ state' \in {state, [state EXCEPT ![Own(c)] = "active"]}
        /\ snapshot' \in {snapshot, [snapshot EXCEPT ![Own(c)] = current]}
        /\ current' \in {current, current + 1} /\ member' \in {member, "active"}
        /\ UNCHANGED <<jar, request, seen, history>>
    BY <1>5 DEF Rotation
  <2>3. snapshot' \in [Token -> 1 .. current']
    BY <2>1, <2>2
  <2>4. seen' \in [Call -> [state : {"none", "pending", "active"}, version : 0 .. current']]
    BY <2>2
  <2>5. pc' \in [Call -> Label] /\ offer' \in [Call -> Token \union {NoCookie, Expired}]
    BY <2>1 DEF Label
  <2>6. current' \in Nat /\ member' \in {"invited", "active", "ended"}
    BY <2>2
  <2>7. state' \in [Token -> {"none", "pending", "active", "revoked", "compromised"}]
        /\ family' \in [Token -> Token]
    BY <2>1, <2>2
  <2>8. {refused', reuse', late', lost'} \subseteq SUBSET Call
    BY <2>1, <2>2
  <2> QED
    BY <2>1, <2>2, <2>3, <2>4, <2>5, <2>6, <2>7, <2>8
<1>6. ASSUME NEW c \in Call, Receive(c) PROVE TypeOK'
  BY <1>6 DEF Receive, Go, Label
<1>7. ASSUME NEW c \in Call, Lose(c) PROVE TypeOK'
  BY <1>7 DEF Lose, Go, Label
<1>8. ASSUME NEW t \in Token, OverlapEnds(t) PROVE TypeOK'
  BY <1>8 DEF OverlapEnds
<1>9. ASSUME ChangeAuthorization PROVE TypeOK'
  <2>1. current' = current + 1 /\ member' \in {"invited", "active", "ended"}
    BY <1>9 DEF ChangeAuthorization
  <2>2. state' \in [Token -> {"none", "pending", "active", "revoked", "compromised"}]
    BY <1>9 DEF ChangeAuthorization, Kill
  <2>3. UNCHANGED <<snapshot, fate, family, jar, pc, request, seen, offer, refused, history>>
    BY <1>9 DEF ChangeAuthorization
  <2>4. snapshot' \in [Token -> 1 .. current']
    BY <2>1, <2>3
  <2>5. seen' \in [Call -> [state : {"none", "pending", "active"}, version : 0 .. current']]
    BY <2>1, <2>3
  <2> QED
    BY <2>1, <2>2, <2>3, <2>4, <2>5
<1>10. CASE UNCHANGED vars
  BY <1>10 DEF vars, Label
<1> QED
  BY <1>1, <1>2, <1>3, <1>4, <1>5, <1>6, <1>7, <1>8, <1>9, <1>10, Effects

\* Another member's change ends sessions at most.
LEMMA ChangeEffect ==
  ASSUME TypeOK, ChangeAuthorization
  PROVE  /\ Ending
         /\ UNCHANGED <<snapshot, fate, family, jar, pc, request, seen, offer, refused, history>>
  BY Killing DEF ChangeAuthorization, Ending, TypeOK

\* A rotation leaves an active session active and starts none.
LEMMA RotatedState ==
  ASSUME TokenInv, NEW c \in Call, Rotation(c)
  PROVE  /\ Alive(Own(c)) /\ state'[Own(c)] \in {state[Own(c)], "active"}
         /\ \A s \in Token \ {Own(c)} : state'[s] = state[s]
         /\ UNCHANGED <<jar, kind, target, cookie, seen, reuse, late, lost>>
         /\ pc[c] = "handle" /\ kind[c] \in Guarded \cup {"refresh", "accept"}
  BY DEF Rotation, TokenInv, TypeOK, request, history

\* A call mints at most once, when the API answers it.
LEMMA MintingStep ==
  ASSUME TokenInv, Seeing, [Next]_vars
  PROVE  Minting'
<1> USE Tokens DEF TokenInv, TypeOK, sessions, account, request, history
<1>1. ASSUME NEW c \in Call, Send(c) PROVE Minting'
  BY <1>1 DEF Send, Refuse, Go, Minting, Minted
<1>2. ASSUME NEW c \in Call, Pass(c) PROVE Minting'
  BY <1>2 DEF Pass, Minting, Minted
<1>3. ASSUME NEW c \in Call, Quiet(c) PROVE Minting'
  <2>1. /\ pc' = [pc EXCEPT ![c] = "answer"] /\ pc[c] \in {"csrf", "auth", "handle"}
        /\ UNCHANGED <<fate, family, kind>>
        /\ offer' \in {offer, [offer EXCEPT ![c] = NoCookie], [offer EXCEPT ![c] = Expired]}
        /\ \A s \in Token : state[s] = "none" => state'[s] = "none"
    BY <1>3 DEF Quiet, Ending, Alive
  <2> QED
    BY <2>1 DEF Minting, Minted
<1>4. ASSUME NEW c \in Call, Opening(c) PROVE Minting'
  BY <1>4 DEF Opening, Minting, Minted
<1>5. ASSUME NEW c \in Call, Rotation(c) PROVE Minting'
  <2>1. /\ ~Minted(c) /\ Minted(cookie[c]) /\ fate'[c] = "current" /\ c # cookie[c]
        /\ cookie[c] \in Token /\ cookie[c] # NoCookie
        /\ fate'[cookie[c]] \in {"overlap", "revoked"}
        /\ \A t \in Token \ {c, cookie[c]} :
              \/ fate'[t] = fate[t]
              \/ Minted(t) /\ fate[t] # "current" /\ fate'[t] = "revoked"
        /\ family' = [family EXCEPT ![c] = Own(c)]
        /\ pc' = [pc EXCEPT ![c] = "answer"] /\ offer' = [offer EXCEPT ![c] = c]
    BY <1>5, Replacing
  <2>2. /\ Alive(Own(c)) /\ \A s \in Token \ {Own(c)} : state'[s] = state[s]
        /\ kind' = kind /\ kind[c] \in Guarded \cup {"refresh", "accept"}
    BY <1>5, RotatedState
  <2>3. cookie[c] \in Call => pc[cookie[c]] = "done"
    BY <2>1 DEF Carrying, Given
  <2>4. \A t \in Token : (Minted(t) /\ t # c => Minted(t)') /\ (Minted(t)' => t = c \/ Minted(t))
    BY <2>1 DEF Minted
  <2>5. ASSUME NEW d \in Call, d # c, ~Minted(d) PROVE state'[d] = "none" /\ family'[d] = d
    <3>1. state[d] = "none"
      BY <2>5 DEF Minting
    <3>2. d # Own(c)
      BY <2>2, <3>1 DEF Alive
    <3> QED
      BY <2>1, <2>2, <2>5, <3>1, <3>2 DEF Minting
  <2>6. ASSUME NEW d \in Call, d # c, Minted(d), pc[d] = "answer" PROVE fate'[d] = "current"
    BY <2>1, <2>3, <2>6 DEF Minting
  <2>7. Minted(Start)'
    BY <2>4 DEF Minting
  <2>8. ASSUME NEW d \in Call
        PROVE  /\ Minted(d)' =>
                    /\ pc'[d] \in {"answer", "done"}
                    /\ kind'[d] \in Guarded \cup {"login", "refresh", "accept"}
                    /\ pc'[d] = "answer" => offer'[d] = d /\ fate'[d] = "current"
               /\ ~Minted(d)' => family'[d] = d /\ state'[d] = "none"
               /\ offer'[d] \in Token => offer'[d] = d /\ Minted(d)'
               /\ pc'[d] \notin {"answer", "done"} => offer'[d] = NoCookie
    <3>1. CASE d = c
      BY <2>1, <2>2, <3>1 DEF Minted
    <3>2. CASE d # c
      BY <2>1, <2>2, <2>4, <2>5, <2>6, <3>2 DEF Minting
    <3> QED
      BY <3>1, <3>2
  <2> QED
    BY <2>7, <2>8 DEF Minting, Minted
<1>6. ASSUME NEW c \in Call, Receive(c) PROVE Minting'
  BY <1>6 DEF Receive, Go, Minting, Minted
<1>7. ASSUME NEW c \in Call, Lose(c) PROVE Minting'
  BY <1>7 DEF Lose, Go, InFlight, Minting, Minted
<1>8. ASSUME NEW t \in Token, OverlapEnds(t) PROVE Minting'
  BY <1>8 DEF OverlapEnds, Minting, Minted
<1>9. ASSUME ChangeAuthorization PROVE Minting'
  BY <1>9, ChangeEffect DEF Ending, Alive, Minting, Minted
<1>10. CASE UNCHANGED vars
  BY <1>10 DEF vars, Minting, Minted
<1> QED
  BY <1>1, <1>2, <1>3, <1>4, <1>5, <1>6, <1>7, <1>8, <1>9, <1>10, Effects

\* What the browser receives it was given.
LEMMA CarryingStep ==
  ASSUME TokenInv, Seeing, [Next]_vars
  PROVE  Carrying'
<1> USE Tokens DEF TokenInv, TypeOK, sessions, account, request, history
<1>1. ASSUME NEW c \in Call, Send(c) PROVE Carrying'
  <2>1. PICK k \in Asked, s \in Token :
          /\ kind' = [kind EXCEPT ![c] = k]
          /\ cookie' = [cookie EXCEPT ![c] = IF k = "login" THEN NoCookie ELSE jar]
          /\ IF k # "login" /\ jar = NoCookie THEN Refuse(c)
             ELSE Go(c, IF k \in Mutations THEN "csrf" ELSE "auth") /\ UNCHANGED refused
    BY <1>1 DEF Send
  <2>2. pc[c] = "new" /\ UNCHANGED <<fate, jar>>
    BY <1>1 DEF Send
  <2>3. ~Minted(c)
    BY <2>2 DEF Minting
  <2>4. /\ \A d \in Call \ {c} : pc'[d] = pc[d] /\ cookie'[d] = cookie[d] /\ kind'[d] = kind[d]
        /\ pc'[c] \in {"answer", "csrf", "auth"}
        /\ pc'[c] = "csrf" => k # "login"
        /\ pc'[c] # "answer" => k = "login" \/ jar # NoCookie
    BY <2>1 DEF Refuse, Go, Mutations
  <2>5. ASSUME NEW t \in Token, Given(t) PROVE Given(t)'
    BY <2>2, <2>3, <2>4, <2>5 DEF Given, Minted
  <2>6. (jar' # NoCookie => Given(jar)') /\ (cookie'[c] # NoCookie => Given(cookie[c])')
    BY <2>1, <2>2, <2>5 DEF Carrying, Given, Minted
  <2>7. \A d \in Call \ {c} : cookie'[d] # NoCookie => Given(cookie[d])'
    BY <2>4, <2>5 DEF Carrying, Given, Minted
  <2>8. kind'[c] = k
    BY <2>1
  <2> QED
    BY <2>1, <2>4, <2>6, <2>7, <2>8 DEF Carrying, Given, Minted
<1>2. ASSUME NEW c \in Call, Pass(c) PROVE Carrying'
  BY <1>2 DEF Pass, Carrying, Given, Minting, Minted
<1>3. ASSUME NEW c \in Call, Quiet(c) PROVE Carrying'
  BY <1>3 DEF Quiet, Ending, Carrying, Given, Minting, Minted
<1>4. ASSUME NEW c \in Call, Opening(c) PROVE Carrying'
  BY <1>4 DEF Opening, Carrying, Given, Minting, Minted
<1>5. ASSUME NEW c \in Call, Rotation(c) PROVE Carrying'
  <2>1. /\ fate'[c] = "current" /\ fate'[cookie[c]] \in {"overlap", "revoked"}
        /\ \A t \in Token \ {c, cookie[c]} : fate'[t] = fate[t] \/ fate'[t] = "revoked"
        /\ pc' = [pc EXCEPT ![c] = "answer"]
    BY <1>5, Replacing
  <2>2. UNCHANGED <<jar, kind, cookie>> /\ pc[c] = "handle"
    BY <1>5, RotatedState
  <2>3. \A t \in Token : Minted(t) => Minted(t)'
    BY <2>1 DEF Minted
  <2> QED
    BY <2>1, <2>2, <2>3 DEF Carrying, Given
<1>6. ASSUME NEW c \in Call, Receive(c) PROVE Carrying'
  BY <1>6 DEF Receive, Go, Carrying, Given, Minting, Minted
<1>7. ASSUME NEW c \in Call, Lose(c) PROVE Carrying'
  BY <1>7 DEF Lose, Go, InFlight, Carrying, Given, Minting, Minted
<1>8. ASSUME NEW t \in Token, OverlapEnds(t) PROVE Carrying'
  BY <1>8 DEF OverlapEnds, Carrying, Given, Minting, Minted
<1>9. ASSUME ChangeAuthorization PROVE Carrying'
  BY <1>9 DEF ChangeAuthorization, Kill, Carrying, Given, Minting, Minted
<1>10. CASE UNCHANGED vars
  BY <1>10 DEF vars, Carrying, Given, Minting, Minted
<1> QED
  BY <1>1, <1>2, <1>3, <1>4, <1>5, <1>6, <1>7, <1>8, <1>9, <1>10, Effects

\* Whoever mints a token replaces the current one.
LEMMA OneCurrentStep ==
  ASSUME TokenInv, Seeing, [Next]_vars
  PROVE  OneCurrent'
<1> USE Tokens DEF TokenInv, TypeOK, sessions, account, request, history
<1>1. ASSUME NEW c \in Call, Send(c) PROVE OneCurrent'
  BY <1>1 DEF Send, Refuse, Go, OneCurrent, Minting, Minted
<1>2. ASSUME NEW c \in Call, Pass(c) PROVE OneCurrent'
  BY <1>2 DEF Pass, OneCurrent, Minting, Minted
<1>3. ASSUME NEW c \in Call, Quiet(c) PROVE OneCurrent'
  <2>1. /\ UNCHANGED <<fate, family>>
        /\ \A s \in Token : state[s] = "none" <=> state'[s] = "none"
    BY <1>3 DEF Quiet, Ending, Alive
  <2> QED
    BY <2>1 DEF OneCurrent, Minted
<1>4. ASSUME NEW c \in Call, Opening(c) PROVE OneCurrent'
  <2>1. /\ fate' = [fate EXCEPT ![c] = "current"] /\ family' = family
        /\ \E s \in {"pending", "active"} : state' = [state EXCEPT ![c] = s]
        /\ pc[c] = "auth"
    BY <1>4 DEF Opening
  <2>2. ~Minted(c) /\ family[c] = c /\ state[c] = "none"
    BY <2>1 DEF Minting
  <2>3. \A t \in Token \ {c} : Minted(t) => family[t] # c
    BY <2>2 DEF OneCurrent
  <2>4. \A t \in Token : Minted(t)' <=> t = c \/ Minted(t)
    BY <2>1 DEF Minted
  <2>5. \A t \in Token : Minted(t)' => state'[family'[t]] # "none"
    BY <2>1, <2>2, <2>4 DEF OneCurrent
  <2>6. ASSUME NEW s \in Token, state'[s] # "none"
        PROVE  \E t \in Token : family'[t] = s /\ fate'[t] = "current"
    <3>1. CASE s = c
      BY <2>1, <2>2, <3>1
    <3>2. CASE s # c
      BY <2>1, <2>2, <2>6, <3>2 DEF OneCurrent
    <3> QED
      BY <3>1, <3>2
  <2>7. \A t, u \in Token :
          family'[t] = family'[u] /\ fate'[t] = "current" /\ fate'[u] = "current" => t = u
    BY <2>1, <2>2, <2>3 DEF OneCurrent, Minted
  <2> QED
    BY <2>5, <2>6, <2>7 DEF OneCurrent
<1>5. ASSUME NEW c \in Call, Rotation(c) PROVE OneCurrent'
  <2>1. /\ ~Minted(c) /\ fate'[c] = "current" /\ c # cookie[c] /\ family[c] = c
        /\ cookie[c] \in Token /\ Own(c) \in Token /\ fate'[cookie[c]] # "current"
        /\ \A t \in Token \ {c, cookie[c]} :
              fate'[t] = fate[t] \/ (Minted(t) /\ fate[t] # "current" /\ fate'[t] = "revoked")
        /\ family' = [family EXCEPT ![c] = Own(c)]
    BY <1>5, Replacing
  <2>2. /\ Alive(Own(c)) /\ state'[Own(c)] \in {state[Own(c)], "active"}
        /\ \A s \in Token \ {Own(c)} : state'[s] = state[s]
    BY <1>5, RotatedState
  <2>3. fate[cookie[c]] = "current" /\ family[cookie[c]] = Own(c)
    BY <1>5 DEF Rotation, Own
  <2>4. \A s \in Token : state'[s] = "none" <=> state[s] = "none"
    BY <2>2 DEF Alive
  <2>5. \A t \in Token : Minted(t)' => t = c \/ Minted(t)
    BY <2>1, <2>3 DEF Minted
  <2>6. \A t \in Token : Minted(t)' => state'[family'[t]] # "none"
    BY <2>1, <2>2, <2>4, <2>5 DEF OneCurrent, Alive
  <2>7. \A t \in Token \ {c} : fate'[t] = "current" <=> fate[t] = "current" /\ t # cookie[c]
    BY <2>1
  <2>8. ASSUME NEW s \in Token, state'[s] # "none"
        PROVE  \E t \in Token : family'[t] = s /\ fate'[t] = "current"
    <3>1. CASE s = Own(c)
      BY <2>1, <3>1
    <3>2. CASE s # Own(c)
      <4>1. PICK t \in Token : family[t] = s /\ fate[t] = "current"
        BY <2>4, <2>8 DEF OneCurrent
      <4>2. t # c /\ t # cookie[c]
        BY <2>1, <2>3, <3>2, <4>1 DEF Minted
      <4> QED
        BY <2>1, <2>7, <4>1, <4>2
    <3> QED
      BY <3>1, <3>2
  <2>9. ASSUME NEW t \in Token, t # c, fate'[t] = "current" PROVE family'[t] # Own(c)
    <3>1. fate[t] = "current" /\ t # cookie[c] /\ family'[t] = family[t]
      BY <2>1, <2>7, <2>9
    <3> QED
      BY <2>1, <2>3, <3>1 DEF OneCurrent
  <2>10. \A t, u \in Token :
           family'[t] = family'[u] /\ fate'[t] = "current" /\ fate'[u] = "current" => t = u
    BY <2>1, <2>7, <2>9 DEF OneCurrent
  <2> QED
    BY <2>6, <2>8, <2>10 DEF OneCurrent
<1>6. ASSUME NEW c \in Call, Receive(c) PROVE OneCurrent'
  BY <1>6 DEF Receive, Go, OneCurrent, Minting, Minted
<1>7. ASSUME NEW c \in Call, Lose(c) PROVE OneCurrent'
  BY <1>7 DEF Lose, Go, InFlight, OneCurrent, Minting, Minted
<1>8. ASSUME NEW t \in Token, OverlapEnds(t) PROVE OneCurrent'
  <2>1. /\ fate[t] = "overlap" /\ fate' = [fate EXCEPT ![t] = "stale"]
        /\ family' = family /\ state' = state
    BY <1>8 DEF OverlapEnds
  <2>2. \A u \in Token : /\ Minted(u)' <=> Minted(u)
                         /\ fate'[u] = "current" <=> fate[u] = "current"
    BY <2>1 DEF Minted
  <2> QED
    BY <2>1, <2>2 DEF OneCurrent
<1>9. ASSUME ChangeAuthorization PROVE OneCurrent'
  <2>1. /\ UNCHANGED <<fate, family>>
        /\ \A s \in Token : state[s] = "none" <=> state'[s] = "none"
    BY <1>9, ChangeEffect DEF Ending, Alive
  <2> QED
    BY <2>1 DEF OneCurrent, Minted
<1>10. CASE UNCHANGED vars
  BY <1>10 DEF vars, OneCurrent, Minting, Minted
<1> QED
  BY <1>1, <1>2, <1>3, <1>4, <1>5, <1>6, <1>7, <1>8, <1>9, <1>10, Effects

\* What a carried token and its session have in common over a login and a
\* rotation: the token is minted and its session has begun.
LEMMA CarriedOn ==
  ASSUME TokenInv, NEW q \in Call, cookie[q] # NoCookie
  PROVE  /\ cookie[q] \in Token /\ Minted(cookie[q]) /\ Own(q) \in Token
         /\ state[Own(q)] # "none"
         /\ \A c \in Call : ~Minted(c) => c # cookie[q] /\ c # Own(q)
<1> USE DEF TokenInv, TypeOK
<1>1. cookie[q] \in Token /\ Minted(cookie[q]) /\ Own(q) \in Token
  BY DEF Carrying, Given, Own
<1>2. state[Own(q)] # "none"
  BY <1>1 DEF OneCurrent, Own
<1> QED
  BY <1>1, <1>2 DEF Minting

\* A session seen active stays active or ends.
LEMMA SeeingStep ==
  ASSUME TokenInv, Seeing, [Next]_vars
  PROVE  Seeing'
<1> USE Tokens DEF TokenInv, TypeOK, sessions, account, request, history
<1>1. ASSUME NEW c \in Call, Send(c) PROVE Seeing'
  BY <1>1 DEF Send, Refuse, Go, Seeing, Own, Alive, OneCurrent, Carrying, Given, Minted
<1>2. ASSUME NEW c \in Call, Pass(c) PROVE Seeing'
  BY <1>2 DEF Pass, Seeing, Own, Alive, OneCurrent, Carrying, Given, Minted
<1>3. ASSUME NEW c \in Call, Quiet(c) PROVE Seeing'
  BY <1>3 DEF Quiet, Ending, Seeing, Own, Alive, OneCurrent, Carrying, Given, Minted
<1>4. ASSUME NEW c \in Call, Opening(c) PROVE Seeing'
  <2>1. /\ ~Minted(c) /\ pc[c] = "auth" /\ pc' = [pc EXCEPT ![c] = "answer"]
        /\ \A s \in Token \ {c} : state'[s] = state[s]
        /\ UNCHANGED <<family, cookie, seen>>
    BY <1>4 DEF Opening, Minting
  <2>2. ASSUME NEW q \in Call, seen'[q].state = "active"
        PROVE  cookie'[q] # NoCookie /\ Own(q)' = Own(q) /\ state'[Own(q)] \notin {"none", "pending"}
    BY <2>1, <2>2, CarriedOn DEF Seeing, Own
  <2> QED
    BY <2>1, <2>2 DEF Seeing
<1>5. ASSUME NEW c \in Call, Rotation(c) PROVE Seeing'
  <2>1. ~Minted(c) /\ pc' = [pc EXCEPT ![c] = "answer"] /\ family' = [family EXCEPT ![c] = Own(c)]
    BY <1>5, Replacing
  <2>2. /\ Alive(Own(c)) /\ state'[Own(c)] \in {state[Own(c)], "active"}
        /\ \A s \in Token \ {Own(c)} : state'[s] = state[s]
        /\ UNCHANGED <<cookie, seen>>
    BY <1>5, RotatedState
  <2>3. ASSUME NEW q \in Call, seen'[q].state = "active"
        PROVE  cookie'[q] # NoCookie /\ Own(q)' = Own(q) /\ state'[Own(q)] \notin {"none", "pending"}
    <3>1. cookie[q] # NoCookie /\ state[Own(q)] \notin {"none", "pending"}
      BY <2>2, <2>3 DEF Seeing
    <3>2. cookie[q] \in Token /\ cookie[q] # c /\ Own(q) \in Token
      BY <2>1, <3>1, CarriedOn
    <3> QED
      BY <2>1, <2>2, <3>1, <3>2 DEF Own
  <2> QED
    BY <2>1, <2>2, <2>3 DEF Seeing
<1>6. ASSUME NEW c \in Call, Receive(c) PROVE Seeing'
  BY <1>6 DEF Receive, Go, Seeing, Own, Alive, OneCurrent, Carrying, Given, Minted
<1>7. ASSUME NEW c \in Call, Lose(c) PROVE Seeing'
  BY <1>7 DEF Lose, Go, InFlight, Seeing, Own, Alive, OneCurrent, Carrying, Given, Minted
<1>8. ASSUME NEW t \in Token, OverlapEnds(t) PROVE Seeing'
  BY <1>8 DEF OverlapEnds, Seeing, Own, Alive, OneCurrent, Carrying, Given, Minted
<1>9. ASSUME ChangeAuthorization PROVE Seeing'
  BY <1>9 DEF ChangeAuthorization, Kill, Seeing, Own, Alive, OneCurrent, Carrying, Given, Minted
<1>10. CASE UNCHANGED vars
  BY <1>10 DEF vars, Seeing, Own, Alive, OneCurrent, Carrying, Given, Minted
<1> QED
  BY <1>1, <1>2, <1>3, <1>4, <1>5, <1>6, <1>7, <1>8, <1>9, <1>10, Effects

\* Only calls that were made are remembered.
LEMMA HistoriesStep ==
  ASSUME TokenInv, Seeing, Histories, [Next]_vars
  PROVE  Histories'
<1> USE Tokens DEF TokenInv, TypeOK, sessions, account, request, history
<1>1. ASSUME NEW c \in Call, Send(c) PROVE Histories'
  BY <1>1 DEF Send, Refuse, Go, Histories, InFlight
<1>2. ASSUME NEW c \in Call, Pass(c) PROVE Histories'
  BY <1>2 DEF Pass, Histories, InFlight
<1>3. ASSUME NEW c \in Call, Quiet(c) PROVE Histories'
  BY <1>3 DEF Quiet, Ending, Histories, InFlight
<1>4. ASSUME NEW c \in Call, Opening(c) PROVE Histories'
  BY <1>4 DEF Opening, Histories, InFlight
<1>5. ASSUME NEW c \in Call, Rotation(c) PROVE Histories'
  BY <1>5, Replacing DEF Rotation, Histories, InFlight
<1>6. ASSUME NEW c \in Call, Receive(c) PROVE Histories'
  BY <1>6 DEF Receive, Go, Histories, InFlight
<1>7. ASSUME NEW c \in Call, Lose(c) PROVE Histories'
  BY <1>7 DEF Lose, Go, InFlight, Histories, InFlight
<1>8. ASSUME NEW t \in Token, OverlapEnds(t) PROVE Histories'
  BY <1>8 DEF OverlapEnds, Histories, InFlight
<1>9. ASSUME ChangeAuthorization PROVE Histories'
  BY <1>9 DEF ChangeAuthorization, Kill, Histories, InFlight
<1>10. CASE UNCHANGED vars
  BY <1>10 DEF vars, Histories, InFlight
<1> QED
  BY <1>1, <1>2, <1>3, <1>4, <1>5, <1>6, <1>7, <1>8, <1>9, <1>10, Effects

\* A cause lasts while the call, its token and a session that has ended stay.
LEMMA CauseLasts ==
  ASSUME NEW q \in Call, Cause(q),
         kind'[q] = kind[q], cookie'[q] = cookie[q], seen'[q] = seen[q],
         cookie[q] # NoCookie =>
           /\ family'[cookie[q]] = family[cookie[q]]
           /\ state[Own(q)] \in {"pending", "active"} \/ state'[Own(q)] = state[Own(q)]
           /\ fate[cookie[q]] # "current" => fate'[cookie[q]] # "current"
           /\ fate[cookie[q]] = "revoked" => fate'[cookie[q]] = "revoked"
  PROVE  Cause(q)'
  BY DEF Cause, Own, Alive

\* What caused a refusal lasts.
LEMMA RefusalHasCauseStep ==
  ASSUME TokenInv, Seeing, Histories, RefusalHasCause, [Next]_vars
  PROVE  RefusalHasCause'
<1> USE Tokens DEF TokenInv, TypeOK, sessions, account, request, history
<1>1. ASSUME NEW c \in Call, Send(c) PROVE RefusalHasCause'
  <2> SUFFICES ASSUME NEW q \in refused' PROVE Cause(q)'
    BY DEF RefusalHasCause, Cause
  <2>9. CASE q \in refused
    <3>1. Cause(q) /\ pc[q] \in {"answer", "done"} /\ q \in Call
      BY <2>9 DEF RefusalHasCause, Cause, Histories
    <3>2. cookie[q] # NoCookie => /\ cookie[q] \in Token /\ Own(q) \in Token
                                  /\ state[Own(q)] # "none"
                                  /\ \A d \in Call : ~Minted(d) => d # cookie[q] /\ d # Own(q)
      BY <3>1, CarriedOn
    <3> QED
      BY <1>1, <2>9, <3>1, <3>2, CauseLasts DEF Send, Refuse, Go
  <2>10. CASE q \notin refused
    <3>1. q = c /\ cookie'[c] = NoCookie
      BY <1>1, <2>10 DEF Send, Refuse, Go
    <3> QED
      BY <3>1 DEF Cause
  <2> QED
    BY <2>9, <2>10
<1>2. ASSUME NEW c \in Call, Pass(c) PROVE RefusalHasCause'
  <2> SUFFICES ASSUME NEW q \in refused' PROVE Cause(q)'
    BY DEF RefusalHasCause, Cause
  <2>1. q \in refused
    BY <1>2 DEF Pass
  <2>9. CASE q \in refused
    <3>1. Cause(q) /\ pc[q] \in {"answer", "done"} /\ q \in Call
      BY <2>9 DEF RefusalHasCause, Cause, Histories
    <3>2. cookie[q] # NoCookie => /\ cookie[q] \in Token /\ Own(q) \in Token
                                  /\ state[Own(q)] # "none"
                                  /\ \A d \in Call : ~Minted(d) => d # cookie[q] /\ d # Own(q)
      BY <3>1, CarriedOn
    <3> QED
      BY <1>2, <2>9, <3>1, <3>2, CauseLasts DEF Pass
  <2> QED
    BY <2>9, <2>1
<1>3. ASSUME NEW c \in Call, Quiet(c) PROVE RefusalHasCause'
  <2> SUFFICES ASSUME NEW q \in refused' PROVE Cause(q)'
    BY DEF RefusalHasCause, Cause
  <2>9. CASE q \in refused
    <3>1. Cause(q) /\ pc[q] \in {"answer", "done"} /\ q \in Call
      BY <2>9 DEF RefusalHasCause, Cause, Histories
    <3>2. cookie[q] # NoCookie => /\ cookie[q] \in Token /\ Own(q) \in Token
                                  /\ state[Own(q)] # "none"
                                  /\ \A d \in Call : ~Minted(d) => d # cookie[q] /\ d # Own(q)
      BY <3>1, CarriedOn
    <3> QED
      BY <1>3, <2>9, <3>1, <3>2, CauseLasts DEF Quiet, Ending, Alive
  <2>10. CASE q \notin refused
    BY <1>3, <2>10 DEF Quiet
  <2> QED
    BY <2>9, <2>10
<1>4. ASSUME NEW c \in Call, Opening(c) PROVE RefusalHasCause'
  <2> SUFFICES ASSUME NEW q \in refused' PROVE Cause(q)'
    BY DEF RefusalHasCause, Cause
  <2>1. q \in refused /\ ~Minted(c)
    BY <1>4 DEF Opening, Minting
  <2>9. CASE q \in refused
    <3>1. Cause(q) /\ pc[q] \in {"answer", "done"} /\ q \in Call
      BY <2>9 DEF RefusalHasCause, Cause, Histories
    <3>2. cookie[q] # NoCookie => /\ cookie[q] \in Token /\ Own(q) \in Token
                                  /\ state[Own(q)] # "none"
                                  /\ \A d \in Call : ~Minted(d) => d # cookie[q] /\ d # Own(q)
      BY <3>1, CarriedOn
    <3> QED
      BY <1>4, <2>1, <2>9, <3>1, <3>2, CauseLasts DEF Opening
  <2> QED
    BY <2>9, <2>1
<1>5. ASSUME NEW c \in Call, Rotation(c) PROVE RefusalHasCause'
  <2> SUFFICES ASSUME NEW q \in refused' PROVE Cause(q)'
    BY DEF RefusalHasCause, Cause
  <2>1. /\ refused' = refused /\ ~Minted(c)
        /\ fate'[cookie[c]] \in {"overlap", "revoked"} /\ fate[cookie[c]] = "current"
        /\ \A t \in Token \ {c, cookie[c]} :
              \/ fate'[t] = fate[t]
              \/ Minted(t) /\ fate[t] # "current" /\ fate'[t] = "revoked"
        /\ family' = [family EXCEPT ![c] = Own(c)]
    BY <1>5, Replacing DEF Rotation
  <2>2. /\ Alive(Own(c)) /\ \A s \in Token \ {Own(c)} : state'[s] = state[s]
        /\ UNCHANGED <<kind, cookie, seen>>
    BY <1>5, RotatedState
  <2>9. CASE q \in refused
    <3>1. Cause(q) /\ pc[q] \in {"answer", "done"} /\ q \in Call
      BY <2>9 DEF RefusalHasCause, Cause, Histories
    <3>2. cookie[q] # NoCookie => /\ cookie[q] \in Token /\ Own(q) \in Token
                                  /\ state[Own(q)] # "none"
                                  /\ \A d \in Call : ~Minted(d) => d # cookie[q] /\ d # Own(q)
      BY <3>1, CarriedOn
    <3> QED
      BY <2>1, <2>2, <2>9, <3>1, <3>2, CauseLasts DEF Alive
  <2> QED
    BY <2>9, <2>1
<1>6. ASSUME NEW c \in Call, Receive(c) PROVE RefusalHasCause'
  <2> SUFFICES ASSUME NEW q \in refused' PROVE Cause(q)'
    BY DEF RefusalHasCause, Cause
  <2>1. q \in refused
    BY <1>6 DEF Receive
  <2>9. CASE q \in refused
    <3>1. Cause(q) /\ pc[q] \in {"answer", "done"} /\ q \in Call
      BY <2>9 DEF RefusalHasCause, Cause, Histories
    <3>2. cookie[q] # NoCookie => /\ cookie[q] \in Token /\ Own(q) \in Token
                                  /\ state[Own(q)] # "none"
                                  /\ \A d \in Call : ~Minted(d) => d # cookie[q] /\ d # Own(q)
      BY <3>1, CarriedOn
    <3> QED
      BY <1>6, <2>9, <3>1, <3>2, CauseLasts DEF Receive
  <2> QED
    BY <2>9, <2>1
<1>7. ASSUME NEW c \in Call, Lose(c) PROVE RefusalHasCause'
  <2> SUFFICES ASSUME NEW q \in refused' PROVE Cause(q)'
    BY DEF RefusalHasCause, Cause
  <2>1. q \in refused
    BY <1>7 DEF Lose
  <2>9. CASE q \in refused
    <3>1. Cause(q) /\ pc[q] \in {"answer", "done"} /\ q \in Call
      BY <2>9 DEF RefusalHasCause, Cause, Histories
    <3>2. cookie[q] # NoCookie => /\ cookie[q] \in Token /\ Own(q) \in Token
                                  /\ state[Own(q)] # "none"
                                  /\ \A d \in Call : ~Minted(d) => d # cookie[q] /\ d # Own(q)
      BY <3>1, CarriedOn
    <3> QED
      BY <1>7, <2>9, <3>1, <3>2, CauseLasts DEF Lose
  <2> QED
    BY <2>9, <2>1
<1>8. ASSUME NEW t \in Token, OverlapEnds(t) PROVE RefusalHasCause'
  <2> SUFFICES ASSUME NEW q \in refused' PROVE Cause(q)'
    BY DEF RefusalHasCause, Cause
  <2>1. q \in refused
    BY <1>8 DEF OverlapEnds
  <2>9. CASE q \in refused
    <3>1. Cause(q) /\ pc[q] \in {"answer", "done"} /\ q \in Call
      BY <2>9 DEF RefusalHasCause, Cause, Histories
    <3>2. cookie[q] # NoCookie => /\ cookie[q] \in Token /\ Own(q) \in Token
                                  /\ state[Own(q)] # "none"
                                  /\ \A d \in Call : ~Minted(d) => d # cookie[q] /\ d # Own(q)
      BY <3>1, CarriedOn
    <3> QED
      BY <1>8, <2>9, <3>1, <3>2, CauseLasts DEF OverlapEnds
  <2> QED
    BY <2>9, <2>1
<1>9. ASSUME ChangeAuthorization PROVE RefusalHasCause'
  <2> SUFFICES ASSUME NEW q \in refused' PROVE Cause(q)'
    BY DEF RefusalHasCause, Cause
  <2>1. q \in refused
    BY <1>9 DEF ChangeAuthorization
  <2>9. CASE q \in refused
    <3>1. Cause(q) /\ pc[q] \in {"answer", "done"} /\ q \in Call
      BY <2>9 DEF RefusalHasCause, Cause, Histories
    <3>2. cookie[q] # NoCookie => /\ cookie[q] \in Token /\ Own(q) \in Token
                                  /\ state[Own(q)] # "none"
                                  /\ \A d \in Call : ~Minted(d) => d # cookie[q] /\ d # Own(q)
      BY <3>1, CarriedOn
    <3> QED
      BY <1>9, ChangeEffect, <2>9, <3>1, <3>2, CauseLasts DEF Ending, Alive
  <2> QED
    BY <2>9, <2>1
<1>10. CASE UNCHANGED vars
  BY <1>10 DEF vars, RefusalHasCause, Own, Alive
<1> QED
  BY <1>1, <1>2, <1>3, <1>4, <1>5, <1>6, <1>7, <1>8, <1>9, <1>10, Effects

\* Successors are counted for good, and so are the excuses they make.
LEMMA SuccessorLasts ==
  ASSUME TokenInv, NEW t \in Token, NEW d \in Call, Successor(t, d),
         Minted(d)', kind'[d] = kind[d], cookie'[d] = cookie[d]
  PROVE  Successor(t, d)'
  BY DEF Successor, Minted

\* Minted tokens stay minted and finished calls keep what they carried.
LEMMA Lasting ==
  ASSUME TokenInv, Seeing, [Next]_vars
  PROVE  /\ \A t \in Token : Minted(t) => Minted(t)'
         /\ \A d \in Call : pc[d] # "new" => kind'[d] = kind[d] /\ cookie'[d] = cookie[d]
         /\ late \subseteq late' /\ lost \subseteq lost'
<1> USE Tokens DEF TokenInv, TypeOK, sessions, account, request, history
<1>1. ASSUME NEW c \in Call, Send(c)
      PROVE  /\ \A t \in Token : Minted(t) => Minted(t)'
             /\ \A d \in Call : pc[d] # "new" => kind'[d] = kind[d] /\ cookie'[d] = cookie[d]
             /\ late \subseteq late' /\ lost \subseteq lost'
  BY <1>1 DEF Send, Minted, Refuse, Go
<1>2. ASSUME NEW c \in Call, Pass(c)
      PROVE  /\ \A t \in Token : Minted(t) => Minted(t)'
             /\ \A d \in Call : pc[d] # "new" => kind'[d] = kind[d] /\ cookie'[d] = cookie[d]
             /\ late \subseteq late' /\ lost \subseteq lost'
  BY <1>2 DEF Pass, Minted
<1>3. ASSUME NEW c \in Call, Quiet(c)
      PROVE  /\ \A t \in Token : Minted(t) => Minted(t)'
             /\ \A d \in Call : pc[d] # "new" => kind'[d] = kind[d] /\ cookie'[d] = cookie[d]
             /\ late \subseteq late' /\ lost \subseteq lost'
  BY <1>3 DEF Quiet, Minted
<1>4. ASSUME NEW c \in Call, Opening(c)
      PROVE  /\ \A t \in Token : Minted(t) => Minted(t)'
             /\ \A d \in Call : pc[d] # "new" => kind'[d] = kind[d] /\ cookie'[d] = cookie[d]
             /\ late \subseteq late' /\ lost \subseteq lost'
  BY <1>4 DEF Opening, Minted
<1>5. ASSUME NEW c \in Call, Rotation(c)
      PROVE  /\ \A t \in Token : Minted(t) => Minted(t)'
             /\ \A d \in Call : pc[d] # "new" => kind'[d] = kind[d] /\ cookie'[d] = cookie[d]
             /\ late \subseteq late' /\ lost \subseteq lost'
  <2>1. /\ fate'[c] = "current" /\ fate'[cookie[c]] \in {"overlap", "revoked"}
        /\ \A t \in Token \ {c, cookie[c]} : fate'[t] = fate[t] \/ fate'[t] = "revoked"
    BY <1>5, Replacing
  <2>2. \A t \in Token : Minted(t) => Minted(t)'
    BY <2>1 DEF Minted
  <2> QED
    BY <1>5, <2>2, RotatedState
<1>6. ASSUME NEW c \in Call, Receive(c)
      PROVE  /\ \A t \in Token : Minted(t) => Minted(t)'
             /\ \A d \in Call : pc[d] # "new" => kind'[d] = kind[d] /\ cookie'[d] = cookie[d]
             /\ late \subseteq late' /\ lost \subseteq lost'
  BY <1>6 DEF Receive, Minted
<1>7. ASSUME NEW c \in Call, Lose(c)
      PROVE  /\ \A t \in Token : Minted(t) => Minted(t)'
             /\ \A d \in Call : pc[d] # "new" => kind'[d] = kind[d] /\ cookie'[d] = cookie[d]
             /\ late \subseteq late' /\ lost \subseteq lost'
  BY <1>7 DEF Lose, Minted
<1>8. ASSUME NEW t \in Token, OverlapEnds(t)
      PROVE  /\ \A u \in Token : Minted(u) => Minted(u)'
             /\ \A d \in Call : pc[d] # "new" => kind'[d] = kind[d] /\ cookie'[d] = cookie[d]
             /\ late \subseteq late' /\ lost \subseteq lost'
  BY <1>8 DEF OverlapEnds, Minted
<1>9. ASSUME ChangeAuthorization
      PROVE  /\ \A t \in Token : Minted(t) => Minted(t)'
             /\ \A d \in Call : pc[d] # "new" => kind'[d] = kind[d] /\ cookie'[d] = cookie[d]
             /\ late \subseteq late' /\ lost \subseteq lost'
  BY <1>9, ChangeEffect DEF ChangeAuthorization, Minted
<1>10. CASE UNCHANGED vars
  BY <1>10 DEF vars, Minted
<1> QED
  BY <1>1, <1>2, <1>3, <1>4, <1>5, <1>6, <1>7, <1>8, <1>9, <1>10, Effects

\* So an excuse lasts.
LEMMA ExcuseLasts ==
  ASSUME TokenInv, Seeing, [Next]_vars, NEW t \in Token, Excused(t)
  PROVE  Excused(t)'
<1>1. PICK d \in Call : Successor(t, d) /\ (d \in lost \union late \/ kind[d] \in Guarded)
  BY DEF Excused, Missed, Withheld
<1>2. Minted(d) /\ pc[d] # "new" /\ d \in Token
  BY <1>1, Tokens DEF Successor, Minted, TokenInv, Minting
<1>3. Successor(t, d)' /\ kind'[d] = kind[d]
  BY <1>1, <1>2, Lasting DEF Successor, Minted
<1> QED
  BY <1>1, <1>3, Lasting DEF Excused, Missed, Withheld

\* Who receives a successor keeps it; it is never overtaken by an older token.
LEMMA SuccessionStep ==
  ASSUME TokenInv, Seeing, Succession, [Next]_vars
  PROVE  Succession'
<1> USE Tokens DEF TokenInv, TypeOK, sessions, account, request, history
<1>1. ASSUME NEW c \in Call, Send(c) PROVE Succession'
  <2>1. pc[c] = "new" /\ ~Minted(c) /\ UNCHANGED <<fate, jar, lost>>
    BY <1>1 DEF Send, Minting
  <2>2. \A d \in Call \ {c} : pc'[d] = pc[d] /\ kind'[d] = kind[d] /\ cookie'[d] = cookie[d]
    BY <1>1 DEF Send, Refuse, Go
  <2>3. \A t \in Token, d \in Call : Successor(t, d)' <=> (d # c /\ Successor(t, d))
    BY <2>1, <2>2 DEF Successor, Minted
  <2>4. \A t \in Token : fate'[t] = "overlap" => \E d \in Call : Successor(t, d)'
    BY <2>1, <2>3 DEF Succession, Successor, Minted
  <2>5. ASSUME jar # NoCookie, NEW d \in Call, Successor(jar, d)'
        PROVE  InFlight(d)' \/ d \in lost' \/ kind'[d] \in Guarded
    <3>1. d # c /\ Successor(jar, d)
      BY <2>1, <2>2, <2>5 DEF Successor, Minted
    <3> QED
      BY <2>1, <2>2, <2>5, <3>1 DEF Succession, InFlight
  <2> QED
    BY <2>1, <2>4, <2>5 DEF Succession, Successor
<1>2. ASSUME NEW c \in Call, Pass(c) PROVE Succession'
  <2>1. UNCHANGED <<fate, kind, cookie, jar, lost>>
    BY <1>2 DEF Pass
  <2>2. \A d \in Call : InFlight(d) => InFlight(d)'
    BY <1>2 DEF Pass, InFlight
  <2> QED
    BY <2>1, <2>2 DEF Succession, Successor
<1>3. ASSUME NEW c \in Call, Quiet(c) PROVE Succession'
  <2>1. UNCHANGED <<fate, kind, cookie, jar, lost>> /\ pc' = [pc EXCEPT ![c] = "answer"]
    BY <1>3 DEF Quiet
  <2> QED
    BY <2>1 DEF Succession, Successor, InFlight
<1>4. ASSUME NEW c \in Call, Opening(c) PROVE Succession'
  <2>1. /\ ~Minted(c) /\ kind[c] = "login" /\ UNCHANGED <<kind, cookie, jar, lost>>
        /\ fate' = [fate EXCEPT ![c] = "current"] /\ pc' = [pc EXCEPT ![c] = "answer"]
    BY <1>4 DEF Opening, Minting
  <2>2. \A t \in Token, d \in Call : Successor(t, d)' <=> Successor(t, d)
    BY <2>1 DEF Successor
  <2> QED
    BY <2>1, <2>2 DEF Succession, InFlight
<1>5. ASSUME NEW c \in Call, Rotation(c) PROVE Succession'
  <2>1. /\ ~Minted(c) /\ fate'[c] = "current" /\ cookie[c] \in Token /\ cookie[c] # NoCookie
        /\ \A t \in Token \ {c, cookie[c]} :
             fate'[t] = fate[t] \/ (Minted(t) /\ fate'[t] = "revoked")
        /\ fate'[cookie[c]] \in {"overlap", "revoked"} /\ Minted(cookie[c])
        /\ pc' = [pc EXCEPT ![c] = "answer"]
    BY <1>5, Replacing
  <2>2. UNCHANGED <<jar, kind, cookie, lost>> /\ kind[c] # "login"
    BY <1>5, RotatedState DEF Guarded
  <2>3. Successor(cookie[c], c)' /\ InFlight(c)'
    BY <2>1, <2>2 DEF Successor, InFlight
  <2>4. \A t \in Token, d \in Call \ {c} : Successor(t, d)' <=> Successor(t, d)
    BY <2>1, <2>2 DEF Successor, Minted
  <2>5. ASSUME NEW t \in Token, fate'[t] = "overlap" PROVE \E d \in Call : Successor(t, d)'
    <3>1. CASE t = cookie[c]
      BY <2>2, <2>3, <3>1 DEF Successor
    <3>2. CASE t # cookie[c]
      <4>1. fate[t] = "overlap"
        BY <2>1, <2>5, <3>2
      <4>2. PICK d \in Call : Successor(t, d)
        BY <4>1 DEF Succession
      <4>3. d # c
        BY <2>1, <4>2 DEF Successor, Minted
      <4> QED
        BY <2>4, <4>2, <4>3
    <3> QED
      BY <3>1, <3>2
  <2>6. ASSUME jar # NoCookie, NEW d \in Call, Successor(jar, d)'
        PROVE  InFlight(d)' \/ d \in lost' \/ kind'[d] \in Guarded
    <3>1. CASE d = c
      BY <2>3, <3>1
    <3>2. CASE d # c
      <4>1. Successor(jar, d)
        BY <2>1, <2>2, <2>6, <3>2 DEF Successor, Minted
      <4> QED
        BY <2>1, <2>2, <2>6, <3>2, <4>1 DEF Succession, InFlight
    <3> QED
      BY <3>1, <3>2
  <2> QED
    BY <2>2, <2>5, <2>6 DEF Succession, Successor
<1>6. ASSUME NEW c \in Call, Receive(c) PROVE Succession'
  <2>1. /\ pc[c] = "answer" /\ pc' = [pc EXCEPT ![c] = "done"]
        /\ jar' = IF ~Forwards(kind[c]) \/ offer[c] = NoCookie THEN jar
                  ELSE IF offer[c] = Expired THEN NoCookie ELSE offer[c]
        /\ UNCHANGED <<fate, kind, cookie, lost>>
    BY <1>6 DEF Receive, Go
  <2>2. ASSUME jar' # NoCookie, NEW d \in Call, Successor(jar, d)'
        PROVE  InFlight(d)' \/ d \in lost' \/ kind'[d] \in Guarded
    <3>1. d \in Call /\ cookie[d] = jar' /\ Minted(d) /\ kind[d] # "login"
      BY <2>1, <2>2 DEF Successor, Minted
    <3>2. jar' \in Token /\ (jar' \in Call => pc[jar'] = "done")
      BY <2>2, <3>1 DEF Carrying, Given
    <3>3. jar' = jar
      <4>1. offer[c] \in Token => offer[c] = c
        BY DEF Minting
      <4>2. jar' # c
        BY <2>1, <3>2
      <4> QED
        BY <2>1, <2>2, <4>1, <4>2
    <3>4. Successor(jar, d) /\ jar # NoCookie
      BY <2>2, <3>1, <3>3 DEF Successor, Minted
    <3>5. CASE d = c
      <4>1. offer[c] = c /\ kind[c] \in Guarded \cup {"refresh", "accept"}
        BY <2>1, <3>1, <3>5 DEF Minting
      <4>2. kind[c] \notin Guarded => jar' = c
        BY <2>1, <4>1 DEF Forwards
      <4> QED
        BY <2>1, <3>2, <3>5, <4>2
    <3>6. CASE d # c
      BY <2>1, <3>4, <3>6 DEF Succession, InFlight
    <3> QED
      BY <3>5, <3>6
  <2>3. \A t \in Token : fate'[t] = "overlap" => \E d \in Call : Successor(t, d)'
    BY <2>1 DEF Succession, Successor
  <2> QED
    BY <2>2, <2>3 DEF Succession
<1>7. ASSUME NEW c \in Call, Lose(c) PROVE Succession'
  <2>1. /\ UNCHANGED <<fate, kind, cookie, jar>> /\ lost' = lost \cup {c}
        /\ pc' = [pc EXCEPT ![c] = "done"]
    BY <1>7 DEF Lose, Go
  <2> QED
    BY <2>1 DEF Succession, Successor, InFlight
<1>8. ASSUME NEW t \in Token, OverlapEnds(t) PROVE Succession'
  <2>1. fate[t] = "overlap" /\ fate' = [fate EXCEPT ![t] = "stale"]
        /\ UNCHANGED <<kind, cookie, jar, pc, lost>>
    BY <1>8 DEF OverlapEnds
  <2>2. \A u \in Token, d \in Call : Successor(u, d)' <=> Successor(u, d)
    BY <2>1 DEF Successor
  <2> QED
    BY <2>1, <2>2 DEF Succession, InFlight
<1>9. ASSUME ChangeAuthorization PROVE Succession'
  BY <1>9, ChangeEffect DEF ChangeAuthorization, Succession, Successor, InFlight
<1>10. CASE UNCHANGED vars
  BY <1>10 DEF vars, Succession, Successor, InFlight
<1> QED
  BY <1>1, <1>2, <1>3, <1>4, <1>5, <1>6, <1>7, <1>8, <1>9, <1>10, Effects

\* ExcuseLasts where the token is the value of an expression that stays.
LEMMA ExcusedNow ==
  ASSUME TokenInv, Seeing, [Next]_vars
  PROVE  /\ jar' = jar /\ jar \in Token /\ Excused(jar) => Excused(jar)'
         /\ \A q \in Call : cookie'[q] = cookie[q] /\ cookie[q] \in Token /\ Excused(cookie[q])
                            => Excused(cookie[q])'
  BY ExcuseLasts DEF Excused, Missed, Withheld, Successor

\* A stale token in the browser or under way is excused.
LEMMA StaleStep ==
  ASSUME TokenInv, Seeing, Succession, Stale, [Next]_vars
  PROVE  Stale'
<1> USE Tokens DEF TokenInv, TypeOK, sessions, account, request, history
<1>1. ASSUME NEW c \in Call, Send(c) PROVE Stale'
  <2>1. /\ pc[c] = "new" /\ UNCHANGED <<fate, jar, late>>
        /\ cookie'[c] \in {NoCookie, jar}
        /\ \A q \in Call \ {c} : pc'[q] = pc[q] /\ cookie'[q] = cookie[q]
    BY <1>1 DEF Send, Refuse, Go
  <2>8. ASSUME jar' # NoCookie, fate'[jar'] = "stale" PROVE Excused(jar)'
    <3>1. jar' = jar /\ jar \in Token /\ fate[jar] = "stale" /\ jar # NoCookie
      BY <2>1, <2>8
    <3>2. Excused(jar)
      BY <3>1 DEF Stale
    <3>3. Excused(jar)'
      BY <3>1, <3>2, ExcusedNow
    <3> QED
      BY <3>3
  <2>9. ASSUME NEW q \in Call, InFlight(q)', cookie'[q] # NoCookie, fate'[cookie'[q]] = "stale"
        PROVE  q \in late' \/ Excused(cookie[q])'
    <3>1. CASE q = c
      <4>1. cookie'[c] = jar /\ jar \in Token /\ fate[jar] = "stale" /\ jar # NoCookie /\ jar' = jar
        BY <2>1, <2>9, <3>1
      <4>2. Excused(jar)'
        BY <4>1, ExcusedNow DEF Stale
      <4> QED
        BY <3>1, <4>1, <4>2 DEF Excused, Missed, Withheld, Successor
    <3>2. CASE q # c
      <4>1. cookie'[q] = cookie[q] /\ cookie[q] \in Token /\ fate[cookie[q]] = "stale" /\ InFlight(q)
        BY <2>1, <2>9, <3>2 DEF InFlight
      <4>2. q \in late \/ Excused(cookie[q])
        BY <2>9, <4>1 DEF Stale
      <4> QED
        BY <2>1, <4>1, <4>2, ExcusedNow
    <3> QED
      BY <3>1, <3>2
  <2> QED
    BY <2>8, <2>9 DEF Stale
<1>2. ASSUME NEW c \in Call, Pass(c) PROVE Stale'
  <2>1. jar' = jar /\ UNCHANGED <<fate, cookie>> /\ late \subseteq late'
        /\ \A q \in Call : InFlight(q)' => InFlight(q)
    BY <1>2 DEF Pass, InFlight
  <2>8. ASSUME jar' # NoCookie, fate'[jar'] = "stale" PROVE Excused(jar)'
    <3>1. jar' = jar /\ jar \in Token /\ fate[jar] = "stale" /\ jar # NoCookie
      BY <2>1, <2>8
    <3>2. Excused(jar)
      BY <3>1 DEF Stale
    <3>3. Excused(jar)'
      BY <3>1, <3>2, ExcusedNow
    <3> QED
      BY <3>3
  <2>9. ASSUME NEW q \in Call, InFlight(q)', cookie'[q] # NoCookie, fate'[cookie'[q]] = "stale"
        PROVE  q \in late' \/ Excused(cookie[q])'
    <3>1. cookie'[q] = cookie[q] /\ cookie[q] \in Token /\ fate[cookie[q]] = "stale" /\ InFlight(q)
      BY <2>1, <2>9 DEF InFlight
    <3>2. q \in late \/ Excused(cookie[q])
      BY <2>9, <3>1 DEF Stale
    <3> QED
      BY <2>1, <3>1, <3>2, ExcusedNow
  <2> QED
    BY <2>8, <2>9 DEF Stale
<1>3. ASSUME NEW c \in Call, Quiet(c) PROVE Stale'
  <2>1. jar' = jar /\ UNCHANGED <<fate, cookie>> /\ late \subseteq late'
        /\ \A q \in Call : InFlight(q)' => InFlight(q)
    BY <1>3 DEF Quiet, InFlight
  <2>8. ASSUME jar' # NoCookie, fate'[jar'] = "stale" PROVE Excused(jar)'
    <3>1. jar' = jar /\ jar \in Token /\ fate[jar] = "stale" /\ jar # NoCookie
      BY <2>1, <2>8
    <3>2. Excused(jar)
      BY <3>1 DEF Stale
    <3>3. Excused(jar)'
      BY <3>1, <3>2, ExcusedNow
    <3> QED
      BY <3>3
  <2>9. ASSUME NEW q \in Call, InFlight(q)', cookie'[q] # NoCookie, fate'[cookie'[q]] = "stale"
        PROVE  q \in late' \/ Excused(cookie[q])'
    <3>1. cookie'[q] = cookie[q] /\ cookie[q] \in Token /\ fate[cookie[q]] = "stale" /\ InFlight(q)
      BY <2>1, <2>9 DEF InFlight
    <3>2. q \in late \/ Excused(cookie[q])
      BY <2>9, <3>1 DEF Stale
    <3> QED
      BY <2>1, <3>1, <3>2, ExcusedNow
  <2> QED
    BY <2>8, <2>9 DEF Stale
<1>4. ASSUME NEW c \in Call, Opening(c) PROVE Stale'
  <2>1. jar' = jar /\ cookie' = cookie /\ late' = late
        /\ \A u \in Token : fate'[u] = "stale" => fate[u] = "stale"
        /\ \A q \in Call : InFlight(q)' => InFlight(q)
    BY <1>4 DEF Opening, InFlight
  <2>8. ASSUME jar' # NoCookie, fate'[jar'] = "stale" PROVE Excused(jar)'
    <3>1. jar' = jar /\ jar \in Token /\ fate[jar] = "stale" /\ jar # NoCookie
      BY <2>1, <2>8
    <3>2. Excused(jar)
      BY <3>1 DEF Stale
    <3>3. Excused(jar)'
      BY <3>1, <3>2, ExcusedNow
    <3> QED
      BY <3>3
  <2>9. ASSUME NEW q \in Call, InFlight(q)', cookie'[q] # NoCookie, fate'[cookie'[q]] = "stale"
        PROVE  q \in late' \/ Excused(cookie[q])'
    <3>1. cookie'[q] = cookie[q] /\ cookie[q] \in Token /\ fate[cookie[q]] = "stale" /\ InFlight(q)
      BY <2>1, <2>9 DEF InFlight
    <3>2. q \in late \/ Excused(cookie[q])
      BY <2>9, <3>1 DEF Stale
    <3> QED
      BY <2>1, <3>1, <3>2, ExcusedNow
  <2> QED
    BY <2>8, <2>9 DEF Stale
<1>5. ASSUME NEW c \in Call, Rotation(c) PROVE Stale'
  <2>0. /\ fate'[c] = "current" /\ fate'[cookie[c]] \in {"overlap", "revoked"}
        /\ \A u \in Token \ {c, cookie[c]} : fate'[u] = fate[u] \/ fate'[u] = "revoked"
        /\ pc' = [pc EXCEPT ![c] = "answer"]
    BY <1>5, Replacing
  <2>00. UNCHANGED <<jar, cookie, late>> /\ pc[c] = "handle"
    BY <1>5, RotatedState
  <2>1. jar' = jar /\ cookie' = cookie /\ late' = late
        /\ \A u \in Token : fate'[u] = "stale" => fate[u] = "stale"
        /\ \A q \in Call : InFlight(q)' => InFlight(q)
    BY <2>0, <2>00 DEF InFlight
  <2>8. ASSUME jar' # NoCookie, fate'[jar'] = "stale" PROVE Excused(jar)'
    <3>1. jar' = jar /\ jar \in Token /\ fate[jar] = "stale" /\ jar # NoCookie
      BY <2>1, <2>8
    <3>2. Excused(jar)
      BY <3>1 DEF Stale
    <3>3. Excused(jar)'
      BY <3>1, <3>2, ExcusedNow
    <3> QED
      BY <3>3
  <2>9. ASSUME NEW q \in Call, InFlight(q)', cookie'[q] # NoCookie, fate'[cookie'[q]] = "stale"
        PROVE  q \in late' \/ Excused(cookie[q])'
    <3>1. cookie'[q] = cookie[q] /\ cookie[q] \in Token /\ fate[cookie[q]] = "stale" /\ InFlight(q)
      BY <2>1, <2>9 DEF InFlight
    <3>2. q \in late \/ Excused(cookie[q])
      BY <2>9, <3>1 DEF Stale
    <3> QED
      BY <2>1, <3>1, <3>2, ExcusedNow
  <2> QED
    BY <2>8, <2>9 DEF Stale
<1>6. ASSUME NEW c \in Call, Receive(c) PROVE Stale'
  <2>1. /\ pc[c] = "answer" /\ pc' = [pc EXCEPT ![c] = "done"]
        /\ jar' = IF ~Forwards(kind[c]) \/ offer[c] = NoCookie THEN jar
                  ELSE IF offer[c] = Expired THEN NoCookie ELSE offer[c]
        /\ UNCHANGED <<fate, cookie, late>>
    BY <1>6 DEF Receive, Go
  <2>2. \A q \in Call : InFlight(q)' => InFlight(q)
    BY <2>1 DEF InFlight
  <2>8. ASSUME jar' # NoCookie, fate'[jar'] = "stale" PROVE Excused(jar)'
    <3>0. jar' = jar
      <4>1. offer[c] \in Token => fate[offer[c]] = "current"
        BY <2>1 DEF Minting
      <4> QED
        BY <2>1, <2>8, <4>1
    <3>1. jar' = jar /\ jar \in Token /\ fate[jar] = "stale" /\ jar # NoCookie
      BY <2>1, <2>8, <3>0
    <3>2. Excused(jar)
      BY <3>1 DEF Stale
    <3>3. Excused(jar)'
      BY <3>1, <3>2, ExcusedNow
    <3> QED
      BY <3>3
  <2>9. ASSUME NEW q \in Call, InFlight(q)', cookie'[q] # NoCookie, fate'[cookie'[q]] = "stale"
        PROVE  q \in late' \/ Excused(cookie[q])'
    <3>1. cookie'[q] = cookie[q] /\ cookie[q] \in Token /\ fate[cookie[q]] = "stale" /\ InFlight(q)
      BY <2>1, <2>2, <2>9
    <3>2. q \in late \/ Excused(cookie[q])
      BY <2>9, <3>1 DEF Stale
    <3> QED
      BY <2>1, <3>1, <3>2, ExcusedNow
  <2> QED
    BY <2>8, <2>9 DEF Stale
<1>7. ASSUME NEW c \in Call, Lose(c) PROVE Stale'
  <2>1. jar' = jar /\ UNCHANGED <<fate, cookie>> /\ late \subseteq late'
        /\ \A q \in Call : InFlight(q)' => InFlight(q)
    BY <1>7 DEF Lose, Go, InFlight
  <2>8. ASSUME jar' # NoCookie, fate'[jar'] = "stale" PROVE Excused(jar)'
    <3>1. jar' = jar /\ jar \in Token /\ fate[jar] = "stale" /\ jar # NoCookie
      BY <2>1, <2>8
    <3>2. Excused(jar)
      BY <3>1 DEF Stale
    <3>3. Excused(jar)'
      BY <3>1, <3>2, ExcusedNow
    <3> QED
      BY <3>3
  <2>9. ASSUME NEW q \in Call, InFlight(q)', cookie'[q] # NoCookie, fate'[cookie'[q]] = "stale"
        PROVE  q \in late' \/ Excused(cookie[q])'
    <3>1. cookie'[q] = cookie[q] /\ cookie[q] \in Token /\ fate[cookie[q]] = "stale" /\ InFlight(q)
      BY <2>1, <2>9 DEF InFlight
    <3>2. q \in late \/ Excused(cookie[q])
      BY <2>9, <3>1 DEF Stale
    <3> QED
      BY <2>1, <3>1, <3>2, ExcusedNow
  <2> QED
    BY <2>8, <2>9 DEF Stale
<1>8. ASSUME NEW t \in Token, OverlapEnds(t) PROVE Stale'
  <2>1. /\ fate[t] = "overlap" /\ fate' = [fate EXCEPT ![t] = "stale"]
        /\ late' = late \cup {q \in Call : InFlight(q) /\ cookie[q] = t}
        /\ UNCHANGED <<jar, cookie, pc, kind, lost>>
    BY <1>8 DEF OverlapEnds
  <2>8. ASSUME jar' # NoCookie, fate'[jar'] = "stale" PROVE Excused(jar)'
    <3>1. jar \in Token /\ jar # NoCookie
      BY <2>1, <2>8
    <3>2. CASE jar = t
      <4>1. PICK d \in Call : Successor(jar, d)
        BY <2>1, <3>2 DEF Succession
      <4>2. InFlight(d) \/ d \in lost \/ kind[d] \in Guarded
        BY <3>1, <4>1 DEF Succession
      <4>3. cookie[d] = t /\ Successor(jar, d)'
        BY <2>1, <3>2, <4>1 DEF Successor
      <4>4. d \in late' \/ d \in lost' \/ kind'[d] \in Guarded
        BY <2>1, <4>2, <4>3
      <4> QED
        BY <4>3, <4>4 DEF Excused, Missed, Withheld
    <3>3. CASE jar # t
      <4>1. fate[jar] = "stale"
        BY <2>1, <2>8, <3>1, <3>3
      <4> QED
        BY <2>1, <3>1, <4>1, ExcusedNow DEF Stale
    <3> QED
      BY <3>2, <3>3
  <2>9. ASSUME NEW q \in Call, InFlight(q)', cookie'[q] # NoCookie, fate'[cookie'[q]] = "stale"
        PROVE  q \in late' \/ Excused(cookie[q])'
    <3>1. InFlight(q) /\ cookie[q] \in Token /\ cookie'[q] = cookie[q]
      BY <2>1, <2>9 DEF InFlight
    <3>2. CASE cookie[q] = t
      BY <2>1, <3>1, <3>2
    <3>3. CASE cookie[q] # t
      <4>1. fate[cookie[q]] = "stale"
        BY <2>1, <2>9, <3>1, <3>3
      <4>2. q \in late \/ Excused(cookie[q])
        BY <2>9, <3>1, <4>1 DEF Stale
      <4> QED
        BY <2>1, <3>1, <4>2, ExcusedNow
    <3> QED
      BY <3>2, <3>3
  <2> QED
    BY <2>8, <2>9 DEF Stale
<1>9. ASSUME ChangeAuthorization PROVE Stale'
  <2>1. jar' = jar /\ UNCHANGED <<fate, cookie, pc, late>>
    BY <1>9 DEF ChangeAuthorization
  <2>8. ASSUME jar' # NoCookie, fate'[jar'] = "stale" PROVE Excused(jar)'
    <3>1. jar' = jar /\ jar \in Token /\ fate[jar] = "stale" /\ jar # NoCookie
      BY <2>1, <2>8
    <3>2. Excused(jar)
      BY <3>1 DEF Stale
    <3>3. Excused(jar)'
      BY <3>1, <3>2, ExcusedNow
    <3> QED
      BY <3>3
  <2>9. ASSUME NEW q \in Call, InFlight(q)', cookie'[q] # NoCookie, fate'[cookie'[q]] = "stale"
        PROVE  q \in late' \/ Excused(cookie[q])'
    <3>1. cookie'[q] = cookie[q] /\ cookie[q] \in Token /\ fate[cookie[q]] = "stale" /\ InFlight(q)
      BY <2>1, <2>9 DEF InFlight
    <3>2. q \in late \/ Excused(cookie[q])
      BY <2>9, <3>1 DEF Stale
    <3> QED
      BY <2>1, <3>1, <3>2, ExcusedNow
  <2> QED
    BY <2>8, <2>9 DEF Stale
<1>10. CASE UNCHANGED vars
  BY <1>10 DEF vars, Stale, Excused, Missed, Withheld, Successor, InFlight
<1> QED
  BY <1>1, <1>2, <1>3, <1>4, <1>5, <1>6, <1>7, <1>8, <1>9, <1>10, Effects

\* A history of reuse keeps its excuse.
LEMMA ReuseHasCauseStep ==
  ASSUME TokenInv, Seeing, Histories, Succession, Stale, ReuseHasCause, [Next]_vars
  PROVE  ReuseHasCause'
<1> USE Tokens DEF TokenInv, TypeOK, sessions, account, request, history
<1>1. \A c \in reuse : /\ c \in Call /\ pc[c] # "new" /\ cookie[c] \in Token
                       /\ c \in late \/ Excused(cookie[c])
  BY DEF ReuseHasCause, Excused, Histories
<1>2. \A c \in reuse : c \in late' \/ Excused(cookie[c])'
  BY <1>1, Lasting, ExcusedNow
<1>3. CASE reuse' = reuse
  BY <1>2, <1>3 DEF ReuseHasCause, Excused
<1>4. CASE reuse' # reuse
  <2>1. PICK c \in Call : Quiet(c)
    BY <1>4, Effects DEF Send, Pass, Opening, Rotation, Receive, Lose, OverlapEnds,
                         ChangeAuthorization, vars
  <2>2. /\ reuse' = reuse \cup {c} /\ cookie[c] # NoCookie /\ fate[cookie[c]] = "stale"
        /\ InFlight(c) /\ cookie' = cookie /\ late' = late
    BY <1>4, <2>1 DEF Quiet, InFlight
  <2>3. c \in late \/ Excused(cookie[c])
    BY <2>2 DEF Stale
  <2>4. c \in late' \/ Excused(cookie[c])'
    BY <2>2, <2>3, ExcusedNow
  <2> QED
    BY <1>2, <2>2, <2>4 DEF ReuseHasCause, Excused
<1> QED
  BY <1>3, <1>4

\* What is newer than the browser's token is under way, lost or withheld.
LEMMA JarIsNewestStep ==
  ASSUME TokenInv, Seeing, JarIsNewest, [Next]_vars
  PROVE  JarIsNewest'
<1> USE Tokens DEF TokenInv, TypeOK, sessions, account, request, history
<1>1. ASSUME NEW c \in Call, Send(c) PROVE JarIsNewest'
  <2> SUFFICES ASSUME jar' # NoCookie, Alive(family[jar])', fate'[jar'] # "current"
               PROVE  \E d \in Call : Newer(jar, d)'
    BY DEF JarIsNewest, Newer, Minted
  <2>1. /\ pc[c] = "new" /\ ~Minted(c) /\ UNCHANGED <<state, fate, family, jar, lost>>
        /\ \A q \in Call \ {c} : pc'[q] = pc[q] /\ kind'[q] = kind[q]
    BY <1>1 DEF Send, Refuse, Go, Minting
  <2>7. jar \in Token /\ Alive(family[jar]) /\ fate[jar] # "current"
    BY <2>1 DEF Alive
  <2>8. PICK d \in Call : Newer(jar, d)
    BY <2>7 DEF JarIsNewest, Newer, Minted
  <2>9. Newer(jar, d)'
    BY <2>1, <2>8 DEF Newer, Minted, InFlight
  <2> QED
    BY <2>9
<1>2. ASSUME NEW c \in Call, Pass(c) PROVE JarIsNewest'
  <2> SUFFICES ASSUME jar' # NoCookie, Alive(family[jar])', fate'[jar'] # "current"
               PROVE  \E d \in Call : Newer(jar, d)'
    BY DEF JarIsNewest, Newer, Minted
  <2>1. /\ UNCHANGED <<fate, family, jar, kind>> /\ lost \subseteq lost'
        /\ \A q \in Call : InFlight(q) => InFlight(q)' \/ q \in lost'
        /\ \A s \in Token : state'[s] \in {"pending", "active"} => Alive(s)
    BY <1>2 DEF Pass, Ending, Alive, InFlight, Go
  <2>7. jar \in Token /\ Alive(family[jar]) /\ fate[jar] # "current"
    BY <2>1 DEF Alive
  <2>8. PICK d \in Call : Newer(jar, d)
    BY <2>7 DEF JarIsNewest, Newer, Minted
  <2>9. Newer(jar, d)'
    BY <2>1, <2>8 DEF Newer, Minted
  <2> QED
    BY <2>9
<1>3. ASSUME NEW c \in Call, Quiet(c) PROVE JarIsNewest'
  <2> SUFFICES ASSUME jar' # NoCookie, Alive(family[jar])', fate'[jar'] # "current"
               PROVE  \E d \in Call : Newer(jar, d)'
    BY DEF JarIsNewest, Newer, Minted
  <2>1. /\ UNCHANGED <<fate, family, jar, kind>> /\ lost \subseteq lost'
        /\ \A q \in Call : InFlight(q) => InFlight(q)' \/ q \in lost'
        /\ \A s \in Token : state'[s] \in {"pending", "active"} => Alive(s)
    BY <1>3 DEF Quiet, Ending, Alive, InFlight, Go
  <2>7. jar \in Token /\ Alive(family[jar]) /\ fate[jar] # "current"
    BY <2>1 DEF Alive
  <2>8. PICK d \in Call : Newer(jar, d)
    BY <2>7 DEF JarIsNewest, Newer, Minted
  <2>9. Newer(jar, d)'
    BY <2>1, <2>8 DEF Newer, Minted
  <2> QED
    BY <2>9
<1>4. ASSUME NEW c \in Call, Opening(c) PROVE JarIsNewest'
  <2> SUFFICES ASSUME jar' # NoCookie, Alive(family[jar])', fate'[jar'] # "current"
               PROVE  \E d \in Call : Newer(jar, d)'
    BY DEF JarIsNewest, Newer, Minted
  <2>1. /\ UNCHANGED <<family, jar, kind, lost>> /\ ~Minted(c) /\ pc[c] = "auth"
        /\ fate' = [fate EXCEPT ![c] = "current"] /\ pc' = [pc EXCEPT ![c] = "answer"]
        /\ \A s \in Token \ {c} : state'[s] = state[s]
    BY <1>4 DEF Opening, Minting
  <2>2. jar \in Token /\ family[jar] \in Token /\ family[jar] # c
    <3>1. jar \in Token /\ Minted(jar)
      BY <2>1 DEF Carrying, Given
    <3>2. state[family[jar]] # "none"
      BY <3>1 DEF OneCurrent
    <3> QED
      BY <2>1, <3>1, <3>2 DEF Minting
  <2>7. jar \in Token /\ Alive(family[jar]) /\ fate[jar] # "current"
    BY <2>1, <2>2 DEF Alive
  <2>8. PICK d \in Call : Newer(jar, d)
    BY <2>7 DEF JarIsNewest, Newer, Minted
  <2>9. Newer(jar, d)'
    BY <2>1, <2>2, <2>8 DEF Newer, Minted, InFlight
  <2> QED
    BY <2>9
<1>5. ASSUME NEW c \in Call, Rotation(c) PROVE JarIsNewest'
  <2> SUFFICES ASSUME jar' # NoCookie, Alive(family[jar])', fate'[jar'] # "current"
               PROVE  \E d \in Call : Newer(jar, d)'
    BY DEF JarIsNewest, Newer, Minted
  <2>1. /\ ~Minted(c) /\ fate'[c] = "current" /\ cookie[c] \in Token /\ Own(c) \in Token
        /\ family' = [family EXCEPT ![c] = Own(c)] /\ pc' = [pc EXCEPT ![c] = "answer"]
        /\ family[c] = c
    BY <1>5, Replacing
  <2>2. /\ Alive(Own(c)) /\ \A s \in Token \ {Own(c)} : state'[s] = state[s]
        /\ UNCHANGED <<jar, kind, lost>>
    BY <1>5, RotatedState
  <2>3. jar \in Token /\ Minted(jar) /\ jar # c /\ family'[jar] = family[jar]
    BY <2>1, <2>2 DEF Carrying, Given
  <2>4. CASE family[jar] = Own(c)
    <3>1. Newer(jar, c)'
      BY <2>1, <2>2, <2>3, <2>4 DEF Newer, Minted, InFlight
    <3> QED
      BY <3>1
  <2>5. CASE family[jar] # Own(c)
    <3>1. Alive(family[jar])
      BY <2>2, <2>3, <2>5 DEF Alive
    <3>2. fate[jar] # "current"
      <4>1. jar # cookie[c]
        BY <2>5 DEF Own
      <4>2. fate'[jar] = fate[jar] \/ fate[jar] # "current"
        BY <1>5, <2>3, <4>1, Replacing
      <4> QED
        BY <2>2, <4>2
    <3>3. PICK d \in Call : Newer(jar, d)
      BY <2>3, <3>1, <3>2 DEF JarIsNewest, Newer, Minted
    <3>4. d # c /\ Minted(d)'
      BY <1>5, <2>1, <3>3, Lasting DEF Newer
    <3>5. Newer(jar, d)'
      BY <2>1, <2>2, <2>3, <3>3, <3>4 DEF Newer, InFlight
    <3> QED
      BY <3>5
  <2> QED
    BY <2>4, <2>5
<1>6. ASSUME NEW c \in Call, Receive(c) PROVE JarIsNewest'
  <2> SUFFICES ASSUME jar' # NoCookie, Alive(family[jar])', fate'[jar'] # "current"
               PROVE  \E d \in Call : Newer(jar, d)'
    BY DEF JarIsNewest, Newer, Minted
  <2>1. /\ pc[c] = "answer" /\ pc' = [pc EXCEPT ![c] = "done"]
        /\ jar' = IF ~Forwards(kind[c]) \/ offer[c] = NoCookie THEN jar
                  ELSE IF offer[c] = Expired THEN NoCookie ELSE offer[c]
        /\ UNCHANGED <<state, fate, family, kind, lost>>
    BY <1>6 DEF Receive, Go
  <2>2. offer[c] \in Token => offer[c] = c /\ fate[c] = "current"
    BY <2>1 DEF Minting
  <2>3. jar' = jar /\ jar \in Token
    BY <2>1, <2>2
  <2>4. Alive(family[jar]) /\ fate[jar] # "current"
    BY <2>1, <2>3 DEF Alive
  <2>5. PICK d \in Call : Newer(jar, d)
    BY <2>3, <2>4 DEF JarIsNewest, Newer, Minted
  <2>6. d = c => kind[c] \in Guarded \/ c \in lost
    <3>1. d = c /\ kind[c] \notin Guarded => offer[c] = c /\ Forwards(kind[c])
      BY <2>1, <2>5 DEF Newer, Minting, Minted, Forwards
    <3>2. fate[c] = "current" => jar # c
      BY <2>4
    <3> QED
      BY <2>1, <2>2, <2>3, <3>1, <3>2
  <2>7. Newer(jar, d)'
    BY <2>1, <2>3, <2>5, <2>6 DEF Newer, Minted, InFlight
  <2> QED
    BY <2>7
<1>7. ASSUME NEW c \in Call, Lose(c) PROVE JarIsNewest'
  <2> SUFFICES ASSUME jar' # NoCookie, Alive(family[jar])', fate'[jar'] # "current"
               PROVE  \E d \in Call : Newer(jar, d)'
    BY DEF JarIsNewest, Newer, Minted
  <2>1. /\ UNCHANGED <<fate, family, jar, kind>> /\ lost \subseteq lost'
        /\ \A q \in Call : InFlight(q) => InFlight(q)' \/ q \in lost'
        /\ \A s \in Token : state'[s] \in {"pending", "active"} => Alive(s)
    BY <1>7 DEF Lose, Ending, Alive, InFlight, Go
  <2>7. jar \in Token /\ Alive(family[jar]) /\ fate[jar] # "current"
    BY <2>1 DEF Alive
  <2>8. PICK d \in Call : Newer(jar, d)
    BY <2>7 DEF JarIsNewest, Newer, Minted
  <2>9. Newer(jar, d)'
    BY <2>1, <2>8 DEF Newer, Minted
  <2> QED
    BY <2>9
<1>8. ASSUME NEW t \in Token, OverlapEnds(t) PROVE JarIsNewest'
  <2> SUFFICES ASSUME jar' # NoCookie, Alive(family[jar])', fate'[jar'] # "current"
               PROVE  \E d \in Call : Newer(jar, d)'
    BY DEF JarIsNewest, Newer, Minted
  <2>1. /\ UNCHANGED <<state, family, jar, kind, pc, lost>>
        /\ fate[t] = "overlap" /\ fate' = [fate EXCEPT ![t] = "stale"]
    BY <1>8 DEF OverlapEnds
  <2>7. jar \in Token /\ Alive(family[jar]) /\ fate[jar] # "current"
    BY <2>1 DEF Alive
  <2>8. PICK d \in Call : Newer(jar, d)
    BY <2>7 DEF JarIsNewest, Newer, Minted
  <2>9. Newer(jar, d)'
    BY <2>1, <2>8 DEF Newer, Minted, InFlight
  <2> QED
    BY <2>9
<1>9. ASSUME ChangeAuthorization PROVE JarIsNewest'
  <2> SUFFICES ASSUME jar' # NoCookie, Alive(family[jar])', fate'[jar'] # "current"
               PROVE  \E d \in Call : Newer(jar, d)'
    BY DEF JarIsNewest, Newer, Minted
  <2>1. /\ UNCHANGED <<fate, family, jar, kind>> /\ lost \subseteq lost'
        /\ \A q \in Call : InFlight(q) => InFlight(q)' \/ q \in lost'
        /\ \A s \in Token : state'[s] \in {"pending", "active"} => Alive(s)
    BY <1>9, ChangeEffect DEF Ending, Alive, InFlight
  <2>7. jar \in Token /\ Alive(family[jar]) /\ fate[jar] # "current"
    BY <2>1 DEF Alive
  <2>8. PICK d \in Call : Newer(jar, d)
    BY <2>7 DEF JarIsNewest, Newer, Minted
  <2>9. Newer(jar, d)'
    BY <2>1, <2>8 DEF Newer, Minted
  <2> QED
    BY <2>9
<1>10. CASE UNCHANGED vars
  BY <1>10 DEF vars, JarIsNewest, Alive, InFlight
<1> QED
  BY <1>1, <1>2, <1>3, <1>4, <1>5, <1>6, <1>7, <1>8, <1>9, <1>10, Effects

-----------------------------------------------------------------------------
\* At first the browser's own session is the only one and nobody has called.
LEMMA InitInv == Init => ConsoleInv
<1> SUFFICES ASSUME Init PROVE ConsoleInv
  OBVIOUS
<1> USE Tokens, ConsoleAssumption
<1>1. TypeOK
  <2>1. state \in [Token -> {"none", "pending", "active", "revoked", "compromised"}]
    BY DEF Init
  <2>2. {refused, reuse, late, lost} \subseteq SUBSET Call
    BY DEF Init
  <2> QED
    BY <2>1, <2>2 DEF Init, TypeOK, Label, Kinds
<1>2. /\ \A t \in Token : (state[t] = "none" <=> t # Start) /\ family[t] = t
                        /\ fate[t] = (IF t = Start THEN "current" ELSE "none")
      /\ jar = Start
      /\ \A c \in Call : /\ pc[c] = "new" /\ cookie[c] = NoCookie /\ offer[c] = NoCookie
                        /\ seen[c].state = "none"
      /\ refused = {} /\ reuse = {} /\ late = {} /\ lost = {}
  BY DEF Init
<1>3. Minting /\ Carrying
  BY <1>2 DEF Minting, Carrying, Given, Minted
<1>4. OneCurrent /\ Seeing
  BY <1>2 DEF OneCurrent, Minted, Seeing
<1>5. Succession /\ Stale /\ Histories
  BY <1>2 DEF Succession, Stale, Histories, Successor, InFlight
<1>6. ReuseHasCause /\ JarIsNewest /\ RefusalHasCause
  BY <1>2 DEF ReuseHasCause, JarIsNewest, RefusalHasCause
<1> QED
  BY <1>1, <1>3, <1>4, <1>5, <1>6 DEF ConsoleInv, TokenInv

\* The conjunction of the parts is inductive.
THEOREM Inductive == Spec => []ConsoleInv
<1>1. ConsoleInv /\ [Next]_vars => ConsoleInv'
  BY TypeOKStep, MintingStep, CarryingStep, OneCurrentStep, SeeingStep, HistoriesStep,
     RefusalHasCauseStep, SuccessionStep, StaleStep, ReuseHasCauseStep, JarIsNewestStep
     DEF ConsoleInv, TokenInv
<1> QED
  BY InitInv, <1>1, PTL DEF Spec

\* The variables of browser, calls and sessions keep their types.
THEOREM TypeCorrect == Spec => []TypeOK
<1>1. ConsoleInv => TypeOK
  BY DEF ConsoleInv, TokenInv
<1> QED
  BY <1>1, Inductive, PTL

\* A session never has two tokens that are not replaced, nor none.
THEOREM SessionHasOneToken == Spec => []OneCurrent
<1>1. ConsoleInv => OneCurrent
  BY DEF ConsoleInv, TokenInv
<1> QED
  BY <1>1, Inductive, PTL

\* The console's own browser is taken for a thief only if a call outlived
\* the overlap, or the answer with the new token was lost, late or withheld.
THEOREM ReuseIsExplained == Spec => []ReuseHasCause
<1>1. ConsoleInv => ReuseHasCause
  BY DEF ConsoleInv
<1> QED
  BY <1>1, Inductive, PTL

\* No order of the answers brings an older token back to the browser.
THEOREM NewestTokenIsKept == Spec => []JarIsNewest
<1>1. ConsoleInv => JarIsNewest
  BY DEF ConsoleInv
<1> QED
  BY <1>1, Inductive, PTL

\* A call that another one's rotation overtakes is not refused for that.
THEOREM RefusalIsExplained == Spec => []RefusalHasCause
<1>1. ConsoleInv => RefusalHasCause
  BY DEF ConsoleInv
<1> QED
  BY <1>1, Inductive, PTL

-----------------------------------------------------------------------------
(* LoginAbuse: what a pair of account and network has counted. *)

PairOf(p) == [account |-> p[1], source |-> p[2]]
AbuseTypes ==
  /\ now \in Nat /\ count \in [L!Counter -> Nat] /\ until \in [L!Counter -> Nat]
  /\ from \in [Attempt -> [account : Account, address : L!Address]]
  /\ missed \in [Account \X L!Source -> [net : Nat, last : Nat]]
Counted ==
  \A p \in Account \X L!Source :
    L!Net(p) > 0 => /\ until[PairOf(p)] >= missed[p].last + Window
                    /\ count[PairOf(p)] >= missed[p].net
AbuseInv == AbuseTypes /\ Counted

\* The counters of a login, and its pair among them.
LEMMA KeysAre ==
  ASSUME AbuseTypes, NEW r \in Attempt
  PROVE  LET p == <<from[r].account, L!Summary(from[r].address)>> IN
           /\ p \in Account \X L!Source /\ PairOf(p) = L!Pair(r)
           /\ L!KeysOf(r) \subseteq L!Counter /\ PairOf(p) \in L!KeysOf(r)
           /\ \A q \in Account \X L!Source : PairOf(q) \in L!KeysOf(r) => q = p
<1> DEFINE a == from[r].account
           s == L!Summary(from[r].address)
<1>1. a \in Account /\ s \in L!Source
  BY DEF AbuseTypes, L!Summary, L!Address, L!Source
<1>2. L!KeysOf(r) = {[account |-> a], [source |-> s], [account |-> a, source |-> s]}
  BY DEF L!KeysOf, L!Keys
<1>3. L!KeysOf(r) \subseteq L!Counter
  BY <1>1, <1>2 DEF L!Counter
<1>4. ASSUME NEW q \in Account \X L!Source, PairOf(q) \in L!KeysOf(r) PROVE q = <<a, s>>
  <2>1. PairOf(q) # [account |-> a] /\ PairOf(q) # [source |-> s]
    BY DEF PairOf
  <2>2. PairOf(q) = [account |-> a, source |-> s]
    BY <1>2, <1>4, <2>1
  <2> QED
    BY <2>2 DEF PairOf
<1> QED
  BY <1>1, <1>2, <1>3, <1>4 DEF PairOf, L!Pair

\* What a pair has failed is covered by its own counter.
LEMMA PairCovers ==
  ASSUME AbuseInv, NEW p \in Account \X L!Source
  PROVE  /\ PairOf(p) \in L!Counter
         /\ L!Net(p) \in Nat /\ L!Value(PairOf(p)) \in Nat
         /\ L!Value(PairOf(p)) >= L!Net(p)
<1>1. PairOf(p) \in L!Counter
  BY DEF PairOf, L!Counter
<1>2. /\ missed[p].net \in Nat /\ missed[p].last \in Nat
      /\ count[PairOf(p)] \in Nat /\ until[PairOf(p)] \in Nat /\ now \in Nat /\ Window \in Nat
  BY <1>1, AbuseAssumption DEF AbuseInv, AbuseTypes
<1>3. L!Net(p) \in Nat /\ L!Value(PairOf(p)) \in Nat
  BY <1>2 DEF L!Net, L!Value
<1>4. CASE L!Net(p) > 0
  <2>1. missed[p].last + Window > now /\ L!Net(p) = missed[p].net
    BY <1>4 DEF L!Net
  <2>2. until[PairOf(p)] > now /\ count[PairOf(p)] >= missed[p].net
    BY <1>2, <1>4, <2>1 DEF AbuseInv, Counted
  <2> QED
    BY <1>1, <1>3, <2>1, <2>2 DEF L!Value
<1> QED
  BY <1>1, <1>3, <1>4

\* The worst of three counters is at least each of them.
LEMMA WorstCovers ==
  ASSUME AbuseTypes, NEW a \in Account, NEW s \in L!Source
  PROVE  LET w == L!Worst(L!Keys(a, s)) IN
           w \in Nat /\ \A k \in L!Keys(a, s) : L!Value(k) <= w
<1> DEFINE K == L!Keys(a, s)
           x == L!Value([account |-> a])
           y == L!Value([source |-> s])
           z == L!Value([account |-> a, source |-> s])
<1>1. K = {[account |-> a], [source |-> s], [account |-> a, source |-> s]}
  BY DEF L!Keys
<1>2. K \subseteq L!Counter
  BY <1>1 DEF L!Counter
<1>3. x \in Nat /\ y \in Nat /\ z \in Nat
  BY <1>1, <1>2 DEF AbuseTypes, L!Value
<1>4. \A k \in K : L!Value(k) \in {x, y, z}
  BY <1>1
<1>5. {L!Value(k) : k \in K} = {x, y, z}
  BY <1>1
<1> HIDE DEF x, y, z, K
<1>6. \E n \in {x, y, z} : x <= n /\ y <= n /\ z <= n
  BY <1>3
<1>7. \E n \in {L!Value(k) : k \in K} : \A k \in K : L!Value(k) <= n
  BY <1>3, <1>4, <1>5, <1>6
<1>8. /\ L!Worst(K) \in {L!Value(k) : k \in K}
      /\ \A k \in K : L!Value(k) <= L!Worst(K)
  BY <1>7 DEF L!Worst
<1> QED
  BY <1>3, <1>5, <1>8 DEF K

\* A pair's counter is the only one of its kind a login writes.
LEMMA OthersKeep ==
  ASSUME AbuseInv, NEW r \in Attempt, NEW V, L!Write(L!KeysOf(r), V), now' = now,
         NEW q \in Account \X L!Source, PairOf(q) \notin L!KeysOf(r), missed'[q] = missed[q],
         L!Net(q)' > 0
  PROVE  /\ until'[PairOf(q)] >= missed'[q].last + Window
         /\ count'[PairOf(q)] >= missed'[q].net
<1>1. /\ PairOf(q) \in L!Counter /\ L!Value(PairOf(q)) >= L!Net(q)
      /\ until'[PairOf(q)] = until[PairOf(q)] /\ count'[PairOf(q)] = L!Value(PairOf(q))
  BY PairCovers DEF L!Write
<1>2. L!Net(q)' = L!Net(q) /\ L!Net(q) > 0 /\ L!Net(q) = missed[q].net
  BY AbuseAssumption DEF L!Net, AbuseInv, AbuseTypes
<1>3. until[PairOf(q)] >= missed[q].last + Window
  BY <1>2 DEF AbuseInv, Counted
<1> QED
  BY <1>1, <1>2, <1>3

\* A failed login: its counters rise, and so does what its pair has failed.
LEMMA RejectStep ==
  ASSUME AbuseInv, NEW r \in Attempt, L!Reject(r)
  PROVE  AbuseInv'
<1> DEFINE p == <<from[r].account, L!Summary(from[r].address)>>
           V == [k \in L!Counter |-> L!Value(k) + 1]
<1>1. /\ L!Write(L!KeysOf(r), V) /\ now' = now /\ from' = from
      /\ missed' = [missed EXCEPT ![p] = [net |-> L!Net(p) + 1, last |-> now]]
  BY DEF L!Reject, L!Remember
<1>2. /\ p \in Account \X L!Source /\ PairOf(p) \in L!KeysOf(r) /\ L!KeysOf(r) \subseteq L!Counter
      /\ \A q \in Account \X L!Source : PairOf(q) \in L!KeysOf(r) => q = p
  BY KeysAre DEF AbuseInv
<1>3. L!Net(p) \in Nat /\ L!Value(PairOf(p)) \in Nat /\ L!Value(PairOf(p)) >= L!Net(p)
  BY <1>2, PairCovers
<1>4. \A k \in L!Counter : L!Value(k) \in Nat
  BY DEF AbuseInv, AbuseTypes, L!Value
<1> HIDE DEF p
<1>5. /\ count' = [k \in L!Counter |-> IF k \in L!KeysOf(r) THEN L!Value(k) + 1 ELSE L!Value(k)]
      /\ until' = [k \in L!Counter |-> IF k \in L!KeysOf(r) THEN now + Window ELSE until[k]]
  BY <1>1, <1>2, <1>4 DEF L!Write
<1>6. AbuseTypes'
  <2>1. now' \in Nat /\ now \in Nat /\ now + Window \in Nat
    BY <1>1, AbuseAssumption DEF AbuseInv, AbuseTypes
  <2>2. count' \in [L!Counter -> Nat] /\ until' \in [L!Counter -> Nat]
    BY <1>4, <1>5, <2>1 DEF AbuseInv, AbuseTypes
  <2>3. missed' \in [Account \X L!Source -> [net : Nat, last : Nat]]
    <3> DEFINE D == Account \X L!Source
               e == [net |-> L!Net(p) + 1, last |-> now]
               R == [net : Nat, last : Nat]
    <3>1. e \in R /\ missed \in [D -> R] /\ missed' = [missed EXCEPT ![p] = e]
      BY <1>1, <1>3, <2>1 DEF AbuseInv, AbuseTypes
    <3> HIDE DEF D, e, R
    <3>2. missed' \in [D -> R]
      BY <3>1
    <3> QED
      BY <3>2 DEF D, R
  <2> QED
    BY <1>1, <2>1, <2>2, <2>3 DEF AbuseInv, AbuseTypes, L!Counter, L!Source, L!Address
<1>7. ASSUME NEW q \in Account \X L!Source, L!Net(q)' > 0
      PROVE  /\ until'[PairOf(q)] >= missed'[q].last + Window
             /\ count'[PairOf(q)] >= missed'[q].net
  <2>1. CASE q = p
    <3>1. missed'[q] = [net |-> L!Net(p) + 1, last |-> now]
      BY <1>1, <2>1 DEF AbuseInv, AbuseTypes
    <3>2. until'[PairOf(q)] = now + Window /\ count'[PairOf(q)] = L!Value(PairOf(p)) + 1
      BY <1>2, <1>5, <2>1
    <3> QED
      BY <1>3, <3>1, <3>2, AbuseAssumption DEF AbuseInv, AbuseTypes
  <2>2. CASE q # p
    <3>1. missed'[q] = missed[q] /\ PairOf(q) \notin L!KeysOf(r)
      BY <1>1, <1>2, <2>2 DEF AbuseInv, AbuseTypes
    <3> QED
      BY <1>1, <1>7, <3>1, OthersKeep
  <2> QED
    BY <2>1, <2>2
<1> QED
  BY <1>6, <1>7 DEF AbuseInv, Counted, L!Source

\* A login that succeeds: its counters fall by one, and so does its pair's balance.
LEMMA AcceptStep ==
  ASSUME AbuseInv, NEW r \in Attempt, L!Accept(r)
  PROVE  AbuseInv'
<1> DEFINE p == <<from[r].account, L!Summary(from[r].address)>>
           n == L!Net(p)
<1>1. /\ L!Write(L!KeysOf(r), L!Lowered) /\ now' = now /\ from' = from
      /\ missed' = [missed EXCEPT ![p] = [net |-> IF n = 0 THEN 0 ELSE n - 1, last |-> now]]
  BY DEF L!Accept, L!Remember
<1>2. /\ p \in Account \X L!Source /\ PairOf(p) \in L!KeysOf(r) /\ L!KeysOf(r) \subseteq L!Counter
      /\ \A q \in Account \X L!Source : PairOf(q) \in L!KeysOf(r) => q = p
  BY KeysAre DEF AbuseInv
<1>3. n \in Nat /\ L!Value(PairOf(p)) \in Nat /\ L!Value(PairOf(p)) >= n
  BY <1>2, PairCovers
<1>4. \A k \in L!Counter : L!Value(k) \in Nat
  BY DEF AbuseInv, AbuseTypes, L!Value
<1> HIDE DEF p, n
<1>5. /\ \A k \in L!Counter : L!Lowered[k] = IF L!Value(k) <= 1 THEN 0 ELSE L!Value(k) - 1
      /\ \A k \in L!Counter : L!Lowered[k] \in Nat
  BY <1>4 DEF L!Lowered
<1>6. AbuseTypes'
  <2>1. now' \in Nat /\ now \in Nat /\ now + Window \in Nat
    BY <1>1, AbuseAssumption DEF AbuseInv, AbuseTypes
  <2>2. count' \in [L!Counter -> Nat] /\ until' \in [L!Counter -> Nat]
    BY <1>1, <1>4, <1>5, <2>1 DEF AbuseInv, AbuseTypes, L!Write
  <2>3. missed' \in [Account \X L!Source -> [net : Nat, last : Nat]]
    <3> DEFINE D == Account \X L!Source
               e == [net |-> IF n = 0 THEN 0 ELSE n - 1, last |-> now]
               R == [net : Nat, last : Nat]
    <3>1. e \in R /\ missed \in [D -> R] /\ missed' = [missed EXCEPT ![p] = e]
      BY <1>1, <1>3, <2>1 DEF AbuseInv, AbuseTypes
    <3> HIDE DEF D, e, R
    <3>2. missed' \in [D -> R]
      BY <3>1
    <3> QED
      BY <3>2 DEF D, R
  <2> QED
    BY <1>1, <2>1, <2>2, <2>3 DEF AbuseInv, AbuseTypes, L!Counter, L!Source, L!Address
<1>7. ASSUME NEW q \in Account \X L!Source, L!Net(q)' > 0
      PROVE  /\ until'[PairOf(q)] >= missed'[q].last + Window
             /\ count'[PairOf(q)] >= missed'[q].net
  <2>1. CASE q = p
    <3>1. missed'[q] = [net |-> IF n = 0 THEN 0 ELSE n - 1, last |-> now]
      BY <1>1, <2>1 DEF AbuseInv, AbuseTypes
    <3>2. n > 1
      BY <1>1, <1>3, <1>7, <3>1 DEF L!Net
    <3>3. L!Lowered[PairOf(p)] = L!Value(PairOf(p)) - 1 /\ L!Lowered[PairOf(p)] > 0
      BY <1>2, <1>3, <1>5, <3>2
    <3>4. until'[PairOf(q)] = now + Window /\ count'[PairOf(q)] = L!Lowered[PairOf(p)]
      BY <1>1, <1>2, <2>1, <3>3 DEF L!Write
    <3> QED
      BY <1>3, <3>1, <3>2, <3>3, <3>4, AbuseAssumption DEF AbuseInv, AbuseTypes
  <2>2. CASE q # p
    <3>1. missed'[q] = missed[q] /\ PairOf(q) \notin L!KeysOf(r)
      BY <1>1, <1>2, <2>2 DEF AbuseInv, AbuseTypes
    <3> QED
      BY <1>1, <1>7, <3>1, OthersKeep
  <2> QED
    BY <2>1, <2>2
<1> QED
  BY <1>6, <1>7 DEF AbuseInv, Counted, L!Source

\* The clock runs: failures and counters go out of date together.
LEMMA TickStep ==
  ASSUME AbuseInv, L!Tick
  PROVE  AbuseInv'
<1>1. now' = now + 1 /\ UNCHANGED <<count, until, from, missed>>
  BY DEF L!Tick
<1>2. AbuseTypes'
  BY <1>1 DEF AbuseInv, AbuseTypes, L!Counter, L!Source, L!Address
<1>3. ASSUME NEW q \in Account \X L!Source, L!Net(q)' > 0 PROVE L!Net(q) > 0
  BY <1>1, <1>3, AbuseAssumption DEF AbuseInv, AbuseTypes, L!Net
<1> QED
  BY <1>1, <1>2, <1>3 DEF AbuseInv, Counted, L!Source

LEMMA AbuseStarts == ConsoleInit => AbuseInv
<1>1. SUFFICES ASSUME ConsoleInit PROVE AbuseInv
  OBVIOUS
<1>2. /\ now = 0
      /\ count = [k \in L!Counter |-> 0] /\ until = [k \in L!Counter |-> 0]
      /\ from \in [Attempt -> [account : Account, address : L!Address]]
      /\ missed = [k \in Account \X L!Source |-> [net |-> 0, last |-> 0]]
  BY <1>1 DEF ConsoleInit, L!Init
<1>3. \A p \in Account \X L!Source : ~(L!Net(p) > 0)
  BY <1>2 DEF L!Net
<1> QED
  BY <1>2, <1>3 DEF AbuseInv, AbuseTypes, Counted

LEMMA AbuseSteps == AbuseInv /\ [ConsoleNext]_<<part, vars, abuse>> => AbuseInv'
<1>1. SUFFICES ASSUME AbuseInv, [ConsoleNext]_<<part, vars, abuse>> PROVE AbuseInv'
  OBVIOUS
<1>2. CASE UNCHANGED <<now, count, until, from, missed>>
  BY <1>1, <1>2 DEF AbuseInv, AbuseTypes, Counted, L!Net, L!Counter, L!Source, L!Address
<1>3. CASE L!Next
  <2>1. ASSUME NEW r \in Attempt, L!Before(r) \/ L!Unavailable(r) PROVE AbuseInv'
    BY <1>2, <2>1 DEF L!Before, L!Unavailable
  <2> QED
    BY <1>1, <1>3, <2>1, RejectStep, AcceptStep, TickStep DEF L!Next
<1> QED
  BY <1>1, <1>2, <1>3 DEF ConsoleNext, abuse

\* The counters of every pair keep up with what the pair has failed.
THEOREM AbuseInductive == ConsoleSpec => []AbuseInv
BY AbuseStarts, AbuseSteps, PTL DEF ConsoleSpec

-----------------------------------------------------------------------------
(* Delays double with failures, up to the limit. *)

\* A set of naturals with a member has a least one.
LEMMA Least ==
  ASSUME NEW T \in SUBSET Nat, T # {}
  PROVE  \E x \in T : \A y \in T : x <= y
<1>1. \E x \in T : \A y \in T : ~(<<y, x>> \in OpToRel(<, Nat))
  BY NatLessThanWellFounded, WFMin
<1>2. \A x, y \in Nat : <<y, x>> \in OpToRel(<, Nat) <=> y < x
  BY DEF OpToRel
<1>3. PICK x \in T : \A y \in T : ~(<<y, x>> \in OpToRel(<, Nat))
  BY <1>1
<1>4. ASSUME NEW y \in T PROVE x <= y
  <2>1. x \in Nat /\ y \in Nat
    OBVIOUS
  <2>2. ~(y < x)
    BY <1>2, <1>3, <2>1
  <2> QED
    BY <2>1, <2>2
<1> QED
  BY <1>4

\* f doubles up to n.
Doubling(f, n) == f[0] = 1 /\ \A i \in 1 .. n : f[i] = 2 * f[i - 1]

LEMMA DoublingExists ==
  \A n \in Nat : \E f \in [0 .. n -> Nat] : Doubling(f, n)
<1> DEFINE Bad == {n \in Nat : ~\E f \in [0 .. n -> Nat] : Doubling(f, n)}
<1>1. SUFFICES ASSUME Bad # {} PROVE FALSE
  OBVIOUS
<1>2. PICK m \in Bad : \A y \in Bad : m <= y
  BY <1>1, Least
<1>3. m # 0
  <2>1. Doubling([i \in 0 .. 0 |-> 1], 0)
    BY DEF Doubling
  <2> QED
    BY <2>1
<1>4. m \in Nat /\ m - 1 \in Nat /\ m - 1 \notin Bad
  BY <1>2, <1>3
<1>5. PICK f \in [0 .. m - 1 -> Nat] : Doubling(f, m - 1)
  BY <1>4
<1> DEFINE g == [i \in 0 .. m |-> IF i = m THEN 2 * f[m - 1] ELSE f[i]]
<1>6. g \in [0 .. m -> Nat]
  BY <1>4
<1>7. Doubling(g, m)
  <2>1. m \in 1 .. m /\ m - 1 \in 0 .. m - 1 /\ 0 \in 0 .. m /\ 0 # m
    BY <1>3, <1>4
  <2>2. g[0] = 1
    BY <1>5, <2>1 DEF Doubling
  <2>3. ASSUME NEW i \in 1 .. m PROVE g[i] = 2 * g[i - 1]
    <3>1. i \in 0 .. m /\ i - 1 \in 0 .. m /\ i - 1 # m
      BY <1>4
    <3>2. CASE i = m
      BY <3>1, <3>2
    <3>3. CASE i # m
      <4>1. i \in 1 .. m - 1
        BY <1>4, <3>3
      <4>2. f[i] = 2 * f[i - 1]
        BY <1>5, <4>1 DEF Doubling
      <4> QED
        BY <3>1, <3>3, <4>2
    <3> QED
      BY <3>2, <3>3
  <2> QED
    BY <2>2, <2>3 DEF Doubling
<1> QED
  BY <1>2, <1>6, <1>7

LEMMA DoublingAgrees ==
  ASSUME NEW n \in Nat, NEW f \in [0 .. n -> Nat], Doubling(f, n),
         NEW m \in Nat, m <= n, NEW g \in [0 .. m -> Nat], Doubling(g, m)
  PROVE  f[m] = g[m]
<1> DEFINE Bad == {i \in 0 .. m : f[i] # g[i]}
<1>1. SUFFICES ASSUME Bad # {} PROVE FALSE
  OBVIOUS
<1>2. PICK i \in Bad : \A y \in Bad : i <= y
  <2>1. Bad \in SUBSET Nat
    OBVIOUS
  <2> HIDE DEF Bad
  <2> QED
    BY <1>1, <2>1, Least
<1>3. i # 0
  BY <1>2 DEF Doubling
<1>4. i - 1 \in 0 .. m /\ i - 1 \notin Bad
  BY <1>2, <1>3
<1> QED
  BY <1>2, <1>3, <1>4 DEF Doubling

LEMMA DoubledIs ==
  L!Doubled = [n \in Nat |-> IF n = 0 THEN 1 ELSE 2 * L!Doubled[n - 1]]
<1> DEFINE F(n) == CHOOSE f \in [0 .. n -> Nat] : Doubling(f, n)
           g == [n \in Nat |-> F(n)[n]]
<1>1. \A n \in Nat : F(n) \in [0 .. n -> Nat] /\ Doubling(F(n), n)
  BY DoublingExists
<1>2. \A n \in Nat : g[n] = IF n = 0 THEN 1 ELSE 2 * g[n - 1]
  <2>1. SUFFICES ASSUME NEW n \in Nat PROVE g[n] = IF n = 0 THEN 1 ELSE 2 * g[n - 1]
    OBVIOUS
  <2>2. CASE n = 0
    BY <1>1, <2>2 DEF Doubling
  <2>3. CASE n # 0
    <3>1. n - 1 \in Nat /\ g[n] = F(n)[n] /\ g[n - 1] = F(n - 1)[n - 1]
      BY <2>3
    <3>2. /\ F(n) \in [0 .. n -> Nat] /\ Doubling(F(n), n)
          /\ F(n - 1) \in [0 .. n - 1 -> Nat] /\ Doubling(F(n - 1), n - 1)
      BY <1>1, <3>1
    <3> HIDE DEF F
    <3>3. F(n)[n - 1] = F(n - 1)[n - 1]
      <4> DEFINE f == F(n)
                 h == F(n - 1)
                 m == n - 1
      <4>1. /\ f \in [0 .. n -> Nat] /\ Doubling(f, n)
            /\ m \in Nat /\ m <= n /\ h \in [0 .. m -> Nat] /\ Doubling(h, m)
        BY <3>1, <3>2
      <4> HIDE DEF f, h, m
      <4>2. f[m] = h[m]
        BY <4>1, DoublingAgrees
      <4> QED
        BY <4>2 DEF f, h, m
    <3>4. n \in 1 .. n
      BY <2>3
    <3>5. F(n)[n] = 2 * F(n)[n - 1]
      BY <3>2, <3>4 DEF Doubling
    <3> QED
      BY <2>3, <3>1, <3>3, <3>5
  <2> QED
    BY <2>2, <2>3
<1>3. g = [n \in Nat |-> IF n = 0 THEN 1 ELSE 2 * g[n - 1]]
  <2> HIDE DEF F
  <2> QED
  BY <1>2
<1> HIDE DEF g
<1> QED
  BY <1>3 DEF L!Doubled

\* More failures never double less.
LEMMA DoubledGrows ==
  /\ \A n \in Nat : L!Doubled[n] \in Nat
  /\ \A m, n \in Nat : m <= n => L!Doubled[m] <= L!Doubled[n]
<1>1. \A n \in Nat : L!Doubled[n] = IF n = 0 THEN 1 ELSE 2 * L!Doubled[n - 1]
  BY DoubledIs
<1> HIDE DEF L!Doubled
<1>2. ASSUME NEW n \in Nat PROVE L!Doubled[n] \in Nat
  <2> DEFINE Bad == {i \in Nat : L!Doubled[i] \notin Nat}
  <2>1. SUFFICES ASSUME Bad # {} PROVE FALSE
    OBVIOUS
  <2>2. PICK i \in Bad : \A y \in Bad : i <= y
    BY <2>1, Least
  <2>3. i # 0
    BY <1>1, <2>2
  <2>4. i - 1 \in Nat /\ i - 1 \notin Bad
    BY <2>2, <2>3
  <2> QED
    BY <1>1, <2>2, <2>3, <2>4
<1>3. ASSUME NEW m \in Nat, NEW n \in Nat, m <= n PROVE L!Doubled[m] <= L!Doubled[n]
  <2> DEFINE Bad == {i \in Nat : m <= i /\ ~(L!Doubled[m] <= L!Doubled[i])}
  <2>1. SUFFICES ASSUME Bad # {} PROVE FALSE
    BY <1>3
  <2>2. PICK i \in Bad : \A y \in Bad : i <= y
    BY <2>1, Least
  <2>3. i # m
    BY <1>2, <2>2
  <2>4. i - 1 \in Nat /\ m <= i - 1 /\ i - 1 \notin Bad
    BY <2>2, <2>3
  <2>5. L!Doubled[m] <= L!Doubled[i - 1] /\ L!Doubled[i] = 2 * L!Doubled[i - 1]
    BY <1>1, <2>2, <2>3, <2>4
  <2> QED
    BY <1>2, <2>2, <2>4, <2>5
<1> QED
  BY <1>2, <1>3
\* Multiplying keeps the order.
LEMMA Times ==
  ASSUME NEW a \in Nat, NEW b \in Nat, NEW c \in Nat, b <= c
  PROVE  a * b \in Nat /\ a * c \in Nat /\ a * b <= a * c
OBVIOUS

\* A delay is a number.
LEMMA DelayIsNat ==
  ASSUME NEW n \in Nat
  PROVE  L!Delay(n) \in Nat
<1>1. CASE n = 0
  BY <1>1 DEF L!Delay
<1>2. CASE n # 0
  <2>1. n - 1 \in Nat
    BY <1>2
  <2>2. L!Doubled[n - 1] \in Nat
    BY <2>1, DoubledGrows
  <2>3. Base * L!Doubled[n - 1] \in Nat
    BY <2>2, Times, AbuseAssumption
  <2> QED
    BY <1>2, <2>3, AbuseAssumption DEF L!Delay, L!Capped
<1> QED
  BY <1>1, <1>2

\* More failures never earn a shorter delay.
LEMMA DelayGrows ==
  ASSUME NEW m \in Nat, NEW n \in Nat, m <= n
  PROVE  L!Delay(m) <= L!Delay(n)
<1>1. Base \in Nat /\ Limit \in Nat
  BY AbuseAssumption
<1>2. CASE m = 0
  <2>1. CASE n = 0
    BY <1>2, <2>1 DEF L!Delay
  <2>2. CASE n # 0
    <3>1. n - 1 \in Nat
      BY <2>2
    <3>2. L!Doubled[n - 1] \in Nat
      BY <3>1, DoubledGrows
    <3> HIDE DEF L!Doubled
    <3>3. Base * L!Doubled[n - 1] \in Nat
      BY <1>1, <3>2, Times
    <3> QED
      BY <1>1, <1>2, <2>2, <3>3 DEF L!Delay, L!Capped
  <2> QED
    BY <2>1, <2>2
<1>3. CASE m # 0
  <2>1. m - 1 \in Nat /\ n - 1 \in Nat /\ m - 1 <= n - 1 /\ n # 0
    BY <1>3
  <2>2. /\ L!Doubled[m - 1] \in Nat /\ L!Doubled[n - 1] \in Nat
        /\ L!Doubled[m - 1] <= L!Doubled[n - 1]
    BY <2>1, DoubledGrows
  <2> DEFINE x == L!Doubled[m - 1]
             y == L!Doubled[n - 1]
  <2>3. x \in Nat /\ y \in Nat /\ x <= y
    BY <2>2
  <2>4. L!Delay(m) = L!Capped(Base * x) /\ L!Delay(n) = L!Capped(Base * y)
    BY <1>3, <2>1 DEF L!Delay
  <2> HIDE DEF x, y
  <2>5. Base * x \in Nat /\ Base * y \in Nat /\ Base * x <= Base * y
    BY <1>1, <2>3, Times
  <2> QED
    BY <1>1, <2>4, <2>5 DEF L!Capped
<1> QED
  BY <1>2, <1>3

(* A login waits as long as its own pair's failures within the window      *)
(* deserve: nobody else's success takes that delay away.                   *)
THEOREM DelayIsKept == ConsoleSpec => []FailuresKeepTheirDelay
<1>1. AbuseInv => FailuresKeepTheirDelay
  <2>1. SUFFICES ASSUME AbuseInv, NEW a \in Account, NEW s \in L!Source
                 PROVE  L!Delay(L!Worst(L!Keys(a, s))) >= L!Delay(L!Net(<<a, s>>))
    BY DEF FailuresKeepTheirDelay, L!FailuresKeepTheirDelay
  <2> DEFINE w == L!Worst(L!Keys(a, s))
             n == L!Net(<<a, s>>)
  <2>2. PairOf(<<a, s>>) \in L!Keys(a, s)
    BY DEF PairOf, L!Keys
  <2>3. w \in Nat /\ L!Value(PairOf(<<a, s>>)) <= w
    BY <2>1, <2>2, WorstCovers DEF AbuseInv
  <2>4. n \in Nat /\ L!Value(PairOf(<<a, s>>)) >= n /\ L!Value(PairOf(<<a, s>>)) \in Nat
    BY <2>1, PairCovers
  <2> HIDE DEF w, n
  <2>5. L!Delay(n) <= L!Delay(w)
    BY <2>3, <2>4, DelayGrows
  <2>6. L!Delay(n) \in Nat /\ L!Delay(w) \in Nat
    BY <2>3, <2>4, DelayIsNat
  <2> QED
    BY <2>5, <2>6 DEF w, n
<1> QED
  BY <1>1, AbuseInductive, PTL

=============================================================================
