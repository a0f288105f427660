---------------------------- MODULE OwnerJourney ----------------------------
(***************************************************************************)
(* The console's pages through which a new user gets in: activate, sign    *)
(* in, reset the password, accept the invitation, in several tabs of one   *)
(* browser.  A mailed link puts its tokens in the fragment; the page takes *)
(* them into memory and strips the address, so a reload forgets them.      *)
(* What the pages know of the account is what the answers tell them, and   *)
(* answers get lost.  The API's transactions are atomic here and may       *)
(* refuse anything; their races are those of Credentials and Onboarding.   *)
(***************************************************************************)
EXTENDS Naturals, Sequences, FiniteSets

CONSTANTS
  Tab,        \* tabs of the user's browser
  Password,   \* what he types
  MaxLinks,   \* links mailed to him
  MaxCalls    \* requests in flight at a time

Nobody == "nobody"
NoPassword == "none"

VARIABLES
  active,    \* the account has been activated
  secret,    \* its password
  joined,    \* the invitation has been accepted
  link,      \* the mailed links: page, joint or not, and what they still open
  jar,       \* whose session cookie the browser holds
  tab,       \* what each page shows and remembers
  wire,      \* requests of the pages and answers to them
  visit      \* history: what became of a page's command since it was opened

account == <<active, secret, joined, link>>
vars == <<account, jar, tab, wire, visit>>

(* A page as it is mounted, with the tokens of a link or with none (0).    *)
Mounted(p, l) == [page |-> p, link |-> l, told |-> "nothing", offer |-> FALSE, waits |-> FALSE]
Untried == [effect |-> NoPassword, lost |-> FALSE, informed |-> FALSE]

Init ==
  /\ active = FALSE /\ secret = NoPassword /\ joined = FALSE /\ jar = Nobody
  /\ \/ link = <<[page |-> "activate", joint |-> TRUE, opens |-> {"activate", "accept"}]>>
     \/ link = <<[page |-> "activate", joint |-> FALSE, opens |-> {"activate"}],
                 [page |-> "accept", joint |-> FALSE, opens |-> {"accept"}]>>
  /\ tab = [t \in Tab |-> Mounted("home", 0)]
  /\ wire = {}
  /\ visit = [t \in Tab |-> Untried]

\* Requests of a page that is left run on, and nobody hears the answer.
Orphan(m, t) == IF m.tab = t THEN [m EXCEPT !.tab = Nobody] ELSE m
Leave(t, calls) ==
  /\ wire' = {Orphan(m, t) : m \in calls}
  /\ visit' = [visit EXCEPT ![t] = Untried]
Show(t, p, l) == tab' = [tab EXCEPT ![t] = Mounted(p, l)]
Call(t, k, p, who) == [tab |-> t, kind |-> k, link |-> tab[t].link, password |-> p,
                       as |-> who, stage |-> "sent"]
Post(m) == Cardinality(wire) < MaxCalls /\ wire' = wire \union {m}
-----------------------------------------------------------------------------
(* The user.                                                               *)

OpenLink(t) ==
  /\ \E l \in 1 .. Len(link) : Show(t, link[l].page, l)
  /\ Leave(t, wire) /\ UNCHANGED <<account, jar>>
OpenPage(t) ==   \* by its address: without a token
  /\ \E p \in {"login", "forgot"} : Show(t, p, 0)
  /\ Leave(t, wire) /\ UNCHANGED <<account, jar>>
Reload(t) ==
  /\ tab[t].link # 0
  /\ Show(t, tab[t].page, 0) /\ Leave(t, wire) /\ UNCHANGED <<account, jar>>

(* Buttons are disabled while a form submits; its inputs are not, and hold *)
(* whatever has been typed when they are read.                             *)
Submits(t) ==
  /\ ~tab[t].waits
  /\ tab' = [tab EXCEPT ![t].waits = TRUE, ![t].told = "nothing"]
  /\ UNCHANGED <<account, jar, visit>>
SubmitPassword(t) ==
  /\ tab[t].page \in {"activate", "reset"} /\ tab[t].link # 0
  /\ Submits(t)
  /\ \E p \in Password : Post(Call(t, tab[t].page, p, Nobody))
SubmitForgot(t) ==
  /\ tab[t].page = "forgot"
  /\ Submits(t) /\ Post(Call(t, "forgot", NoPassword, Nobody))
SubmitLogin(t) ==
  /\ tab[t].page = "login"
  /\ \E p \in Password, who \in {"owner", "other"} : Post(Call(t, "login", p, who))
  /\ Submits(t)
SubmitAccept(t) ==
  /\ tab[t].page = "accept" /\ tab[t].link # 0
  /\ Submits(t) /\ Post(Call(t, "accept", NoPassword, jar))

(* Both are offered once the account is known to be active; a retry signs  *)
(* in with what the form holds by then, and disables nothing.              *)
TryAgain(t) ==
  /\ tab[t].offer /\ \E p \in Password : Post(Call(t, "login", p, "owner"))
  /\ UNCHANGED <<account, jar, tab, visit>>
ContinueToSignIn(t) ==
  /\ tab[t].offer /\ Show(t, "login", tab[t].link)
  /\ Leave(t, wire) /\ UNCHANGED <<account, jar>>
-----------------------------------------------------------------------------
(* The API behind the console's handlers.                                  *)

Opens(m, what) == what \in link[m.link].opens
Close(what) == [l \in 1 .. Len(link) |-> [link[l] EXCEPT !.opens = @ \ what]]
Answer(m, s) == wire' = (wire \ {m}) \union {[m EXCEPT !.stage = s]}
Effect(m) ==
  visit' = IF m.tab = Nobody THEN visit ELSE [visit EXCEPT ![m.tab].effect = m.password]

\* The answer names the e-mail address to go on with, unless its body is
\* not understood on the way.
Activate(m) ==
  /\ m.kind = "activate" /\ m.stage = "sent" /\ Opens(m, "activate")
  /\ active' = TRUE /\ secret' = m.password /\ link' = Close({"activate"})
  /\ \E s \in {"ok", "noEmail"} : Answer(m, s)
  /\ Effect(m) /\ UNCHANGED <<joined, jar, tab>>
Reset(m) ==
  /\ m.kind = "reset" /\ m.stage = "sent" /\ Opens(m, "reset")
  /\ secret' = m.password /\ link' = Close({"reset"})
  /\ Answer(m, "ok") /\ Effect(m) /\ UNCHANGED <<active, joined, jar, tab>>
RequestReset(m) ==   \* the answer does not tell whether there is an account
  /\ m.kind = "forgot" /\ m.stage = "sent"
  /\ IF active
       THEN /\ Len(link) < MaxLinks
            /\ link' = Append(Close({"reset"}),
                              [page |-> "reset", joint |-> FALSE, opens |-> {"reset"}])
       ELSE UNCHANGED link
  /\ Answer(m, "ok") /\ UNCHANGED <<active, secret, joined, jar, tab, visit>>
Login(m) ==
  /\ m.kind = "login" /\ m.stage = "sent"
  /\ m.as = "owner" => active /\ m.password = secret
  /\ Answer(m, "ok") /\ UNCHANGED <<account, jar, tab, visit>>
Accept(m) ==
  /\ m.kind = "accept" /\ m.stage = "sent" /\ m.as = "owner" /\ Opens(m, "accept")
  /\ joined' = TRUE /\ link' = Close({"accept"})
  /\ Answer(m, "ok") /\ UNCHANGED <<active, secret, jar, tab, visit>>
Refuse(m) ==   \* a rule, a limit, an ended session, an outage, or it never arrives
  /\ m.stage = "sent" /\ Answer(m, "refused")
  /\ UNCHANGED <<account, jar, tab, visit>>

(* A platform administrator sends the owner's invitation again.            *)
Resend ==
  /\ ~joined /\ link[1].joint /\ Len(link) < MaxLinks
  /\ link' = Append(Close({"activate", "accept"}),
                    IF active
                      THEN [page |-> "accept", joint |-> FALSE, opens |-> {"accept"}]
                      ELSE [page |-> "activate", joint |-> TRUE, opens |-> {"activate", "accept"}])
  /\ UNCHANGED <<active, secret, joined, jar, tab, wire, visit>>
-----------------------------------------------------------------------------
(* The pages hear the answers.                                             *)

Tells(m, what, offer) ==   \* messages of other pages are left out
  /\ tab' = [tab EXCEPT ![m.tab].told = IF tab[m.tab].page \in {"activate", "reset"} THEN what ELSE @,
                        ![m.tab].waits = FALSE, ![m.tab].offer = @ \/ offer]
  /\ visit' = [visit EXCEPT ![m.tab].informed = @ \/ what \in {"done", "loginFailed"}]
  /\ wire' = wire \ {m} /\ UNCHANGED jar
Heard(m, stages) == m.tab # Nobody /\ m.stage \in stages

Activated(m) ==
  /\ m.kind = "activate" /\ Heard(m, {"ok", "noEmail"})
  /\ \/ ~link[m.link].joint /\ Tells(m, "done", FALSE)
     \/ link[m.link].joint /\ m.stage = "noEmail" /\ Tells(m, "loginFailed", FALSE)
     \/ /\ link[m.link].joint /\ m.stage = "ok"
        /\ wire' = (wire \ {m}) \union {Call(m.tab, "login", m.password, "owner")}
        /\ UNCHANGED <<jar, tab, visit>>
  /\ UNCHANGED account
Settled(m) ==
  /\ m.kind \in {"reset", "forgot"} /\ Heard(m, {"ok"}) /\ Tells(m, "done", FALSE)
  /\ UNCHANGED account
(* The cookie comes with the answer; the page goes where it was headed.    *)
SignedIn(m) ==
  /\ m.kind = "login" /\ Heard(m, {"ok"})
  /\ jar' = m.as
  /\ IF tab[m.tab].link # 0 THEN Show(m.tab, "accept", tab[m.tab].link) ELSE Show(m.tab, "home", 0)
  /\ Leave(m.tab, wire \ {m}) /\ UNCHANGED account
(* The middleware looks at the session before the members' page opens.     *)
Landing == CASE jar = Nobody -> "login"
             [] jar = "owner" /\ joined -> "members"
             [] OTHER -> "home"
Accepted(m) ==
  /\ m.kind = "accept" /\ Heard(m, {"ok"}) /\ Show(m.tab, Landing, 0)
  /\ Leave(m.tab, wire \ {m}) /\ UNCHANGED <<account, jar>>
\* Faulty variant: a refused activation counts as a failed sign-in.
RefusedAsLogin(m) ==
  /\ Heard(m, {"refused"})
  /\ IF m.kind \in {"login", "activate"} /\ tab[m.tab].page = "activate"
       THEN Tells(m, "loginFailed", TRUE)
       ELSE Tells(m, "failed", FALSE)
  /\ UNCHANGED account

Refused(m) ==
  /\ Heard(m, {"refused"})
  /\ IF m.kind = "login" /\ tab[m.tab].page = "activate"
       THEN Tells(m, "loginFailed", TRUE)
       ELSE Tells(m, "failed", FALSE)
  /\ UNCHANGED account
(* The answer is lost: the page takes it for a refusal.                    *)
Lose(m) ==
  /\ Heard(m, {"ok", "noEmail"}) /\ Answer(m, "refused")
  /\ visit' = [visit EXCEPT ![m.tab].lost = TRUE]
  /\ UNCHANGED <<account, jar, tab>>
Unheard(m) ==   \* a cookie may still be taken from the answer
  /\ m.tab = Nobody /\ m.stage # "sent" /\ wire' = wire \ {m}
  /\ jar' \in {jar} \union (IF m.kind = "login" /\ m.stage = "ok" THEN {m.as} ELSE {})
  /\ UNCHANGED <<account, tab, visit>>

Next ==
  \/ \E t \in Tab : \/ OpenLink(t) \/ OpenPage(t) \/ Reload(t)
                    \/ SubmitPassword(t) \/ SubmitForgot(t) \/ SubmitLogin(t) \/ SubmitAccept(t)
                    \/ TryAgain(t) \/ ContinueToSignIn(t)
  \/ \E m \in wire : \/ Activate(m) \/ Reset(m) \/ RequestReset(m) \/ Login(m) \/ Accept(m)
                     \/ Refuse(m) \/ Activated(m) \/ Settled(m) \/ SignedIn(m) \/ Accepted(m)
                     \/ Refused(m) \/ Lose(m) \/ Unheard(m)
  \/ Resend

Spec == Init /\ [][Next]_vars
-----------------------------------------------------------------------------
TypeOK ==
  /\ active \in BOOLEAN /\ joined \in BOOLEAN
  /\ secret \in Password \union {NoPassword}
  /\ jar \in {Nobody, "owner", "other"}
  /\ \A l \in 1 .. Len(link) : link[l].opens \subseteq {"activate", "accept", "reset"}
  /\ \A t \in Tab : tab[t].link \in 0 .. Len(link)
  /\ Cardinality(wire) <= MaxCalls

(* A page knows what it did.  One that offers to go on, or reports         *)
(* success, has itself activated the account or reset the password; one    *)
(* whose command took effect reports a failure only if the answer was      *)
(* lost or it had reported the success before.                             *)
PagesKnowWhatTheyDid ==
  \A t \in Tab :
    /\ tab[t].offer \/ (tab[t].page \in {"activate", "reset"} /\ tab[t].told \in {"done", "loginFailed"})
         => visit[t].effect # NoPassword /\ active
    /\ tab[t].page \in {"activate", "reset"} /\ tab[t].told = "failed" /\ visit[t].effect # NoPassword
         => visit[t].lost \/ visit[t].informed
=============================================================================
