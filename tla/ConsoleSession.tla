--------------------------- MODULE ConsoleSession ---------------------------
(***************************************************************************)
(* A browser of the booking-os console.  Its tabs share one session        *)
(* cookie; every call goes through a handler of the console's back end,    *)
(* which takes the cookie along to the API, fetches a CSRF token for       *)
(* changes, and decides whether a cookie in the API's answer reaches the   *)
(* browser.  A call of the API is two steps: the session middleware, and   *)
(* guard and handler; what happens within them is SessionRotation.         *)
(* Tokens are named after the call that minted them, and sessions after    *)
(* their first token.  All sessions are of one user at one hostname.       *)
(***************************************************************************)
EXTENDS Naturals, FiniteSets

CONSTANTS
  Call,         \* calls, each made once
  Asked,        \* what they may ask for
  Start,        \* the token the browser starts with
  MaxVersion    \* bound of the model on changes of the user's authorization

Token == Call \union {Start}
NoCookie == "none"     \* no cookie, or no Set-Cookie in an answer
Expired == "expired"   \* the Set-Cookie that deletes it
Guarded == {"list", "change"}                   \* membership handlers
Mutations == {"change", "accept", "refresh", "logout", "revoke", "others"}
Kinds == {"me", "sessions", "list", "login"} \union Mutations

Label == {"new", "csrf", "auth", "handle", "answer", "done"}

ASSUME ConsoleAssumption ==
  /\ Asked \subseteq Kinds
  /\ Start \notin Call
  /\ {NoCookie, Expired} \cap Token = {}
  /\ MaxVersion \in Nat

VARIABLES
  state,      \* state[t]: of the session that t began
  snapshot,   \* its authorization_version
  fate,       \* fate[t]: current, replaced within or past its overlap
  family,     \* family[t]: the session t belongs to
  current,    \* authorization version of the user's membership
  member,     \* the membership: invited, active, or ended
  jar,        \* the browser's cookie
  pc, kind, target,
  cookie,     \* the token a call carries
  seen,       \* what its middleware read of the session
  offer,      \* Set-Cookie of the API's answer
  refused,    \* calls answered with an error
  reuse,      \* history: calls that presented a token past its overlap
  late,       \* history: calls in flight when the overlap of their token ended
  lost        \* history: calls whose answer never arrived

sessions == <<state, snapshot, fate, family>>
account == <<current, member>>
request == <<kind, target, cookie>>
history == <<reuse, late, lost>>
vars == <<sessions, account, jar, pc, request, seen, offer, refused, history>>

Alive(s) == state[s] \in {"pending", "active"}
Own(c) == family[cookie[c]]
InFlight(c) == pc[c] \notin {"new", "done"}
-----------------------------------------------------------------------------
Init ==
  /\ state \in [Token -> {"none", "pending", "active"}]
  /\ \A t \in Token : state[t] = "none" <=> t # Start
  /\ snapshot = [t \in Token |-> 1] /\ current = 1
  /\ member = IF state[Start] = "active" THEN "active" ELSE "invited"
  /\ fate = [t \in Token |-> IF t = Start THEN "current" ELSE "none"]
  /\ family = [t \in Token |-> t]
  /\ jar = Start
  /\ pc = [c \in Call |-> "new"] /\ kind = [c \in Call |-> "me"]
  /\ target = [c \in Call |-> Start] /\ cookie = [c \in Call |-> NoCookie]
  /\ seen = [c \in Call |-> [state |-> "none", version |-> 0]]
  /\ offer = [c \in Call |-> NoCookie]
  /\ refused = {} /\ reuse = {} /\ late = {} /\ lost = {}

Go(c, label) == pc' = [pc EXCEPT ![c] = label]
Refuse(c) == Go(c, "answer") /\ refused' = refused \union {c}
Offer(c, o) == offer' = [offer EXCEPT ![c] = o]
Settle(c, o) == Go(c, "answer") /\ Offer(c, o) /\ UNCHANGED refused
\* A refusal, after which nothing has changed.
Fail(c) == Refuse(c) /\ UNCHANGED <<sessions, offer>>
Kill(S) == state' = [s \in Token |-> IF s \in S /\ Alive(s) THEN "revoked" ELSE state[s]]

\* The handler asks no further without a cookie; a login takes none along.
Send(c) ==
  /\ pc[c] = "new"
  /\ \E k \in Asked, s \in Token :
       /\ IF k = "revoke" THEN state[s] # "none" ELSE s = Start
       /\ kind' = [kind EXCEPT ![c] = k] /\ target' = [target EXCEPT ![c] = s]
       /\ cookie' = [cookie EXCEPT ![c] = IF k = "login" THEN NoCookie ELSE jar]
       /\ IF k # "login" /\ jar = NoCookie THEN Refuse(c)
          ELSE Go(c, IF k \in Mutations THEN "csrf" ELSE "auth") /\ UNCHANGED refused
  /\ UNCHANGED <<sessions, account, jar, seen, offer, history>>

\* Faulty variant: a replaced token is refused at once.
AcceptsCurrentOnly(t) == Alive(family[t]) /\ fate[t] = "current"

Accepts(t) == Alive(family[t]) /\ fate[t] \in {"current", "overlap"}
\* The middleware of the API, for the CSRF token (the answer of which is bound
\* to session and cookie) and again for the call itself.
Authenticate(c) ==
  /\ pc[c] \in {"csrf", "auth"} /\ kind[c] # "login"
  /\ IF Accepts(cookie[c])
     THEN /\ Go(c, IF pc[c] = "csrf" THEN "auth" ELSE "handle")
          /\ seen' = [seen EXCEPT ![c] = [state |-> state[Own(c)], version |-> snapshot[Own(c)]]]
          /\ UNCHANGED <<state, refused, reuse>>
     ELSE /\ Refuse(c) /\ UNCHANGED seen
          /\ IF Alive(Own(c)) /\ fate[cookie[c]] = "stale"
             THEN /\ state' = [state EXCEPT ![Own(c)] = "compromised"]
                  /\ reuse' = reuse \union {c}
             ELSE UNCHANGED <<state, reuse>>
  /\ UNCHANGED <<snapshot, fate, family, account, jar, request, offer, late, lost>>

Login(c) ==
  /\ pc[c] = "auth" /\ kind[c] = "login"
  /\ \/ /\ member # "ended"
        /\ state' = [state EXCEPT ![c] = IF member = "active" THEN "active" ELSE "pending"]
        /\ snapshot' = [snapshot EXCEPT ![c] = current]
        /\ fate' = [fate EXCEPT ![c] = "current"]
        /\ UNCHANGED family /\ Settle(c, c)
     \/ Fail(c)
  /\ UNCHANGED <<account, jar, request, seen, history>>

\* Faulty variant: no overlap.
ReplaceAtOnce(c, end) ==
  /\ fate' = [t \in Token |-> CASE t = c -> "current"
                 [] end = "revoked" /\ family[t] = Own(c) /\ fate[t] # "none" -> end
                 [] t = cookie[c] -> "stale"
                 [] OTHER -> fate[t]]
  /\ family' = [family EXCEPT ![c] = Own(c)]
  /\ Settle(c, c)

\* c mints the session's next token; its own, now replaced, ends so.
Replace(c, end) ==
  /\ fate' = [t \in Token |-> CASE t = c -> "current"
                 [] end = "revoked" /\ family[t] = Own(c) /\ fate[t] # "none" -> end
                 [] t = cookie[c] -> end
                 [] OTHER -> fate[t]]
  /\ family' = [family EXCEPT ![c] = Own(c)]
  /\ Settle(c, c)
Handles(c, K) == pc[c] = "handle" /\ kind[c] \in K
Keep(c) == UNCHANGED <<account, jar, request, seen, history>>
\* A pending session is let through to a few routes only.
Allowed(c) == seen[c].state = "active" \/ kind[c] \in {"me", "logout", "accept"}
Forbid(c) == pc[c] = "handle" /\ ~Allowed(c) /\ Fail(c) /\ Keep(c)

Holds(c, s) == state[Own(c)] = s /\ fate[cookie[c]] = "current"

Read(c) ==
  /\ Handles(c, {"me", "sessions"}) /\ Allowed(c)
  /\ Settle(c, NoCookie) /\ UNCHANGED sessions /\ Keep(c)
\* PermissionGuard: the authorization is rebuilt; when its version has moved
\* on the session's snapshot does so too, and the token is rotated.
Guard(c) ==
  /\ Handles(c, Guarded) /\ Allowed(c)
  /\ CASE member # "active" -> Kill({Own(c)}) /\ Refuse(c) /\ UNCHANGED <<snapshot, fate, family, offer>>
       [] member = "active" /\ seen[c].version = current -> Settle(c, NoCookie) /\ UNCHANGED sessions
       [] OTHER -> IF Holds(c, "active")
                   THEN Replace(c, "overlap") /\ snapshot' = [snapshot EXCEPT ![Own(c)] = current]
                        /\ UNCHANGED state
                   ELSE Fail(c)
  /\ Keep(c)
Refresh(c) ==
  /\ Handles(c, {"refresh"}) /\ Allowed(c)
  /\ CASE state[Own(c)] # "active" \/ fate[cookie[c]] = "revoked" -> Fail(c)
       [] Holds(c, "active") -> Replace(c, "overlap") /\ UNCHANGED <<state, snapshot>>
       [] state[Own(c)] = "active" /\ fate[cookie[c]] = "overlap" ->
            Settle(c, NoCookie) /\ UNCHANGED sessions
       [] OTHER -> Refuse(c) /\ state' = [state EXCEPT ![Own(c)] = "compromised"]
                   /\ UNCHANGED <<snapshot, fate, family, offer>>
  /\ reuse' = IF state' # state THEN reuse \union {c} ELSE reuse
  /\ UNCHANGED <<account, jar, request, seen, late, lost>>
\* The membership becomes active, which raises its version; the session is
\* elevated, and its snapshot stays as it was.
Accept(c) ==
  /\ Handles(c, {"accept"})
  /\ IF seen[c].state = "pending" /\ Holds(c, "pending") /\ member = "invited"
     THEN /\ Replace(c, "revoked") /\ state' = [state EXCEPT ![Own(c)] = "active"]
          /\ member' = "active" /\ current' = current + 1 /\ UNCHANGED snapshot
     ELSE Fail(c) /\ UNCHANGED account
  /\ UNCHANGED <<jar, request, seen, history>>
Logout(c) ==
  /\ Handles(c, {"logout"}) /\ Kill({Own(c)}) /\ Settle(c, Expired)
  /\ UNCHANGED <<snapshot, fate, family>> /\ Keep(c)
RevokeSession(c) ==
  /\ Handles(c, {"revoke"}) /\ Allowed(c)
  /\ Kill({target[c]}) /\ Settle(c, IF target[c] = Own(c) THEN Expired ELSE NoCookie)
  /\ UNCHANGED <<snapshot, fate, family>>
  /\ Keep(c)
RevokeOthers(c) ==
  /\ Handles(c, {"others"}) /\ Allowed(c)
  /\ Kill(Token \ {Own(c)}) /\ Settle(c, NoCookie)
  /\ UNCHANGED <<snapshot, fate, family>>
  /\ Keep(c)
Handle(c) == \/ Login(c) \/ Forbid(c) \/ Read(c) \/ Guard(c) \/ Refresh(c) \/ Accept(c)
             \/ Logout(c) \/ RevokeSession(c) \/ RevokeOthers(c)

\* Faulty variant: only the login's cookie is passed on.
ForwardsLoginOnly(k) == k = "login"

\* allowSessionCookie: the answers whose Set-Cookie the console passes on.
Forwards(k) == k \in {"login", "refresh", "logout", "revoke", "accept"}
Receive(c) ==
  /\ pc[c] = "answer" /\ Go(c, "done")
  /\ jar' = IF ~Forwards(kind[c]) \/ offer[c] = NoCookie THEN jar
            ELSE IF offer[c] = Expired THEN NoCookie ELSE offer[c]
  /\ UNCHANGED <<sessions, account, request, seen, offer, refused, history>>
\* The tab is closed, the connection breaks, the API is unreachable.
Lose(c) ==
  /\ InFlight(c) /\ Go(c, "done") /\ lost' = lost \union {c}
  /\ UNCHANGED <<sessions, account, jar, request, seen, offer, refused, reuse, late>>
OverlapEnds(t) ==
  /\ fate[t] = "overlap"
  /\ fate' = [fate EXCEPT ![t] = "stale"]
  /\ late' = late \union {c \in Call : InFlight(c) /\ cookie[c] = t}
  /\ UNCHANGED <<state, snapshot, family, account, jar, pc, request, seen, offer,
                 refused, reuse, lost>>
\* Another member's change: of roles, or of the membership, which ends his
\* sessions too.
ChangeAuthorization ==
  /\ member = "active" /\ current < MaxVersion /\ current' = current + 1
  /\ \/ member' = "ended" /\ Kill(Token)
     \/ UNCHANGED <<member, state>>
  /\ UNCHANGED <<snapshot, fate, family, jar, pc, request, seen, offer, refused, history>>

Next == \/ \E c \in Call : Send(c) \/ Authenticate(c) \/ Handle(c) \/ Receive(c) \/ Lose(c)
        \/ \E t \in Token : OverlapEnds(t)
        \/ ChangeAuthorization
Spec == Init /\ [][Next]_vars
-----------------------------------------------------------------------------
(* Properties.  Successor(t, d): call d replaced token t.                  *)

Successor(t, d) == cookie[d] = t /\ fate[d] # "none" /\ kind[d] # "login"
\* The browser cannot know the successor of t in time.
Missed(t) == \E d \in Call : Successor(t, d) /\ d \in lost \union late
Withheld(t) == \E d \in Call : Successor(t, d) /\ kind[d] \in Guarded

(* Values have their types. *)
TypeOK ==
  /\ state \in [Token -> {"none", "pending", "active", "revoked", "compromised"}]
  /\ current \in Nat /\ member \in {"invited", "active", "ended"}
  /\ snapshot \in [Token -> 1 .. current] /\ family \in [Token -> Token]
  /\ fate \in [Token -> {"none", "current", "overlap", "stale", "revoked"}]
  /\ jar \in Token \union {NoCookie} /\ cookie \in [Call -> Token \union {NoCookie}]
  /\ pc \in [Call -> Label] /\ kind \in [Call -> Kinds] /\ target \in [Call -> Token]
  /\ seen \in [Call -> [state : {"none", "pending", "active"}, version : 0 .. current]]
  /\ offer \in [Call -> Token \union {NoCookie, Expired}]
  /\ {refused, reuse, late, lost} \subseteq SUBSET Call

(* The console's own browser is taken for a thief only if a call outlived  *)
(* the overlap, or the answer that held the new token was lost, came after *)
(* the overlap, or was one whose cookie the console does not pass on.      *)
ReuseHasCause ==
  \A c \in reuse : c \in late \/ Missed(cookie[c]) \/ Withheld(cookie[c])

(* Answers that overtake each other never bring an older token back: the   *)
(* browser holds the newest token of the session unless the answer with it *)
(* is under way, was lost or was withheld.                                 *)
JarIsNewest ==
  jar # NoCookie /\ Alive(family[jar]) =>
    \/ fate[jar] = "current"
    \/ \E d \in Call : /\ family[d] = family[jar] /\ fate[d] # "none"
                       /\ d \in lost \/ kind[d] \in Guarded \/ InFlight(d)

(* Calls in flight while another call rotates the token are not refused:   *)
(* an error means that the session has ended or is pending, that the call  *)
(* had no cookie, or that it too was to rotate a token it found replaced.  *)
RefusalHasCause ==
  \A c \in refused : \/ kind[c] \in {"login", "accept"} \/ cookie[c] = NoCookie
                     \/ ~Alive(Own(c)) \/ seen[c].state = "pending"
                     \/ fate[cookie[c]] = "revoked"
                     \/ kind[c] \in Guarded \union {"refresh"} /\ fate[cookie[c]] # "current"

(* "If only permissions changed, the session may continue after refreshing *)
(* the snapshot and rotating its token": a browser whose answers all       *)
(* arrive in time is not taken for a thief.                                *)
PermissionChangeKeepsSession ==
  \A c \in reuse : c \in late \/ Missed(cookie[c])
=============================================================================
