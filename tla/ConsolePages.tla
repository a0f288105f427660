---------------------------- MODULE ConsolePages ----------------------------
(***************************************************************************)
(* The console's two pages that show a list and change it: the members of  *)
(* a tenant, and the sessions of a user.  A page loads the list when it    *)
(* appears and after each of its own changes; requests overlap, their      *)
(* answers come in any order or not at all, the API may carry out a        *)
(* request after the page has given it up, and others change the same      *)
(* members and sessions meanwhile.                                         *)
(*                                                                         *)
(* Abstracted: a change is one step here, its transaction is               *)
(* TenantOwnership's; cookies and tokens are ConsoleSession's; an error is *)
(* told or not told, its wording is left out.                              *)
(***************************************************************************)
EXTENDS Naturals

CONSTANTS Member,     \* members of the tenant, and who may be invited
          Viewer,     \* the member who looks at the page
          Session,    \* sessions of the user
          Own,        \* the one of the browser
          MaxLoads,   \* bound: loads of a page
          MaxLate,    \* bound: requests given up at a time that the API still serves
          MaxChanges  \* bound: changes by others

VARIABLES
  page,      \* the page: members or security
  role,      \* the API's: system roles of active and former members
  status,    \* and statuses of memberships
  alive,     \* the API's: sessions not revoked
  load,      \* the loads of the page, in the order of their start
  shown,     \* the list it shows
  doing,     \* the change it is about: mutatingId, busyAction
  inviting,  \* the invitation form
  late,      \* requests it has given up, which the API may serve yet
  told,      \* errors on display: of the page, of the form
  changes,   \* number of changes by others
  shownBy,   \* history: the load whose list it shows
  latest,    \* history: the latest load whose list it has shown
  dead       \* history: an offered change was refused though nothing had changed

server == <<role, status, alive, changes>>
history == <<shownBy, latest, dead>>
vars == <<page, server, load, shown, doing, inviting, late, told, history>>

None == "none"
Roles == {None, "admin", "owner"}
Statuses == {"absent", "invited", "active", "suspended", "revoked"}
Kinds == {"suspend", "revoke", "promote", "demote", "refresh", "others", "logout", "end"}
Idle == [stage |-> "none", kind |-> None, target |-> None, load |-> 0, moved |-> {}]
\* A list: whether it was read, its members or sessions, the members that
\* changed since, and, for the properties, whether it misses a change that the
\* API made while the page awaited it.
NoList == [there |-> FALSE, rows |-> [m \in Member |-> [status |-> "absent", role |-> None]],
           open |-> {}, moved |-> {}, misses |-> FALSE]
InFlight(i) == load[i].stage \notin {"new", "over"}
Started == {i \in 1..MaxLoads : load[i].stage # "new"}

-----------------------------------------------------------------------------
(* What the page offers, and what the API permits.                         *)

\* Faulty variant: any viewer is offered the changes of owners.
OffersToAnybody(kind, m) ==
  /\ m # Viewer
  /\ LET r == shown.rows[m] IN
     CASE kind \in {"suspend", "promote"} -> r.status = "active" /\ r.role = "admin"
       [] kind = "revoke" -> \/ r.status = "suspended"
                             \/ r.status = "active" /\ r.role = "admin"
       [] kind = "demote" -> r.status = "active" /\ r.role = "owner"

Offers(kind, m) ==
  /\ m # Viewer
  /\ LET r == shown.rows[m]
         canManageOwners == shown.rows[Viewer].role = "owner"
     IN CASE kind = "suspend" -> r.status = "active" /\ r.role = "admin"
          [] kind = "revoke"  -> \/ r.status = "suspended"
                                 \/ r.status = "active" /\ r.role = "admin"
          [] kind = "promote" -> r.status = "active" /\ r.role = "admin" /\ canManageOwners
          [] kind = "demote"  -> r.status = "active" /\ r.role = "owner" /\ canManageOwners

\* Guard and use case: the permissions of the system roles, and the target.
Owners == {m \in Member : status[m] = "active" /\ role[m] = "owner"}
Permits(kind, actor, m) ==
  /\ status[actor] = "active"
  /\ CASE kind = "suspend" -> m # actor /\ status[m] = "active" /\ role[m] = "admin"
       [] kind = "revoke"  -> m # actor /\ status[m] \in {"active", "suspended"} /\ role[m] = "admin"
       [] kind = "promote" -> actor \in Owners /\ status[m] = "active" /\ role[m] = "admin"
       [] kind = "demote"  -> actor \in Owners /\ m \in Owners /\ Owners # {m}

Becomes(kind, m) ==
  /\ status' = [status EXCEPT ![m] = CASE kind = "suspend" -> "suspended"
                                       [] kind = "revoke"  -> "revoked"
                                       [] kind = "invite"  -> "invited"
                                       [] OTHER            -> "active"]
  /\ role' = [role EXCEPT ![m] = CASE kind = "promote" -> "owner"
                                   [] kind \in {"demote", "accept"} -> "admin"
                                   [] OTHER -> @]

\* The members ms changed, by the page's own doing or another's: lists that
\* were read do not show it.
Behind(list, ms, own) ==
  IF list.there THEN [list EXCEPT !.moved = @ \cup ms, !.misses = @ \/ own] ELSE list
Outdate(ms, own) ==
  /\ load' = [i \in 1..MaxLoads |-> [load[i] EXCEPT !.list = Behind(@, ms, own)]]
  /\ shown' = Behind(shown, ms, own)

\* A change was sent by what the page showed then: m has changed since.
Mark(q, m) == IF q.stage = "sent" THEN [q EXCEPT !.moved = @ \cup {m}] ELSE q
MarkAll(m) == [n \in DOMAIN late |-> Mark(late[n], m)]

-----------------------------------------------------------------------------
Init ==
  /\ page \in {"members", "security"}
  /\ status \in [Member -> {"absent", "active"}] /\ status[Viewer] = "active"
  /\ role \in [Member -> {None, "admin", "owner"}]
  /\ \A m \in Member : role[m] = None <=> status[m] = "absent"
  /\ \E m \in Member : role[m] = "owner"
  /\ page = "security" => \A m \in Member : role[m] = "owner"
  /\ alive = Session /\ changes = 0
  /\ load = [i \in 1..MaxLoads |->
       [stage |-> IF i = 1 THEN "me" ELSE "new", list |-> NoList]]
  /\ shown = NoList /\ doing = Idle /\ inviting = Idle
  /\ late = [n \in 1..MaxLate |-> Idle]
  /\ told = [page |-> FALSE, form |-> FALSE]
  /\ shownBy = 0 /\ latest = 0 /\ dead = FALSE

\* The next load, and the loads once it has begun.
Fresh == CHOOSE i \in 1..MaxLoads : load[i].stage = "new" /\ 1..(i - 1) \subseteq Started
Begun == [load EXCEPT ![Fresh].stage = "me"]

(* A load asks who is signed in, then for the list.  (The sessions page    *)
(* asks for both at once, and either may fail.)                            *)
ReadMe(i) ==
  /\ load[i].stage = "me" /\ Own \in alive
  /\ load' = [load EXCEPT ![i].stage = "list"]
  /\ UNCHANGED <<page, server, shown, doing, inviting, late, told, history>>

(* The API reads the memberships by one statement, their roles by others.  *)
ReadList(i) ==
  /\ load[i].stage = "list" /\ Own \in alive
  /\ load' = [load EXCEPT ![i].list.there = TRUE,
       ![i].list.rows = IF page = "members"
                        THEN [m \in Member |-> [status |-> status[m], role |-> None]] ELSE @,
       ![i].list.open = IF page = "members" THEN {} ELSE alive,
       ![i].stage = IF page = "members" THEN "roles" ELSE "answer"]
  /\ page = "members" => status[Viewer] = "active"
  /\ UNCHANGED <<page, server, shown, doing, inviting, late, told, history>>

ReadRoles(i) ==
  /\ load[i].stage = "roles"
  /\ load' = [load EXCEPT ![i].stage = "answer",
       ![i].list.rows = [m \in Member |-> [@[m] EXCEPT !.role = role[m]]]]
  /\ UNCHANGED <<page, server, shown, doing, inviting, late, told, history>>

\* A change that awaited this load is over.
Over(i) ==
  /\ load' = [load EXCEPT ![i] = [stage |-> "over", list |-> NoList]]
  /\ doing' = IF doing.stage = "loading" /\ doing.load = i THEN Idle ELSE doing

Arrive(i) ==
  /\ load[i].stage = "answer" /\ shown' = load[i].list /\ Over(i)
  /\ shownBy' = i /\ latest' = (IF i > latest THEN i ELSE latest)
  /\ UNCHANGED <<page, server, inviting, late, told, dead>>

\* Any request of a load may fail; the page of sessions then shows none.
LoadFails(i) ==
  /\ InFlight(i) /\ Over(i)
  /\ told' = [told EXCEPT !.page = TRUE]
  /\ shown' = IF page = "security" THEN NoList ELSE shown
  /\ UNCHANGED <<page, server, inviting, late, history>>

-----------------------------------------------------------------------------
(* A change by the page: a click, the API's step, the answer.  The buttons *)
(* are off while a change is under way, but not while a list loads.        *)
Click(kind, target) ==
  /\ doing.stage = "none" /\ Started # 1..MaxLoads
  /\ IF page = "members"
     THEN shown.there /\ target \in Member /\ kind \in {"suspend", "revoke", "promote", "demote"}
            /\ Offers(kind, target)
     ELSE \/ kind \in {"refresh", "others", "logout"} /\ target = Own
          \/ kind = "end" /\ target \in Session \ {Own} /\ shown.there
  /\ doing' = [stage |-> "sent", kind |-> kind, target |-> target, load |-> 0,
               moved |-> shown.moved]
  /\ told' = [told EXCEPT !.page = FALSE]
  /\ UNCHANGED <<page, server, load, shown, inviting, late, history>>

ChangeMember ==
  /\ doing.stage = "sent" /\ page = "members"
  /\ IF Permits(doing.kind, Viewer, doing.target)
     THEN /\ Becomes(doing.kind, doing.target) /\ Outdate({doing.target}, TRUE)
          /\ doing' = [Idle EXCEPT !.stage = "done"]
          /\ late' = MarkAll(doing.target) /\ UNCHANGED dead
     ELSE /\ doing' = [Idle EXCEPT !.stage = "refused"]
          /\ dead' = (dead \/ {Viewer, doing.target} \cap doing.moved = {})
          /\ UNCHANGED <<role, status, load, shown, late>>
  /\ UNCHANGED <<page, alive, changes, inviting, told, shownBy, latest>>

\* The sessions once the request q has been served.
AliveAfter(q) == CASE q.kind = "others"  -> {Own}
                   [] q.kind = "refresh" -> alive
                   [] OTHER              -> alive \ {q.target}

ChangeSessions ==
  /\ doing.stage = "sent" /\ page = "security"
  /\ IF Own \notin alive
     THEN doing' = [Idle EXCEPT !.stage = "refused"] /\ UNCHANGED <<alive, load, shown>>
     ELSE /\ doing' = [Idle EXCEPT !.stage = "done",
                        !.kind = IF doing.kind = "logout" THEN "logout" ELSE None]
          /\ alive' = AliveAfter(doing) /\ Outdate({}, TRUE)
  /\ UNCHANGED <<page, role, status, changes, inviting, late, told, history>>

\* Faulty variant: the list is left as it is after a change.
AnsweredWithoutLoad ==
  /\ doing.stage = "done" /\ doing' = Idle
  /\ UNCHANGED <<page, server, load, shown, inviting, late, told, history>>

(* The answer to a change that was made: the list is loaded again, and the *)
(* buttons stay off until it is there.  Signing out leaves the page.       *)
Answered ==
  /\ doing.stage = "done"
  /\ IF doing.kind = "logout"
     THEN doing' = [doing EXCEPT !.stage = "left"] /\ UNCHANGED <<load, told>>
     ELSE /\ Started # 1..MaxLoads /\ load' = Begun
          /\ doing' = [doing EXCEPT !.stage = "loading", !.load = Fresh]
          /\ told' = [told EXCEPT !.page = FALSE]
  /\ UNCHANGED <<page, server, shown, inviting, late, history>>

\* The page gives up the request q, by a failed fetch or the 503 of the
\* console's server: it is lost, was served, or the API serves it later.
GivesUp(q) ==
  \/ late' = late
  \/ /\ q.stage = "sent"
     /\ \E n \in 1..MaxLate : late[n].stage = "none" /\ late' = [late EXCEPT ![n] = q]

(* The API refuses, cannot be reached, or its answer does not come: the    *)
(* page tells of an error and loads nothing.                               *)
Unanswered ==
  /\ doing.stage \in {"sent", "done", "refused"} /\ doing' = Idle
  /\ GivesUp(doing) /\ told' = [told EXCEPT !.page = TRUE]
  /\ UNCHANGED <<page, server, load, shown, inviting, history>>

-----------------------------------------------------------------------------
(* The form that invites an administrator, on the page of members.         *)
Submit(m) ==
  /\ page = "members" /\ shown.there /\ inviting.stage = "none" /\ Started # 1..MaxLoads
  /\ inviting' = [Idle EXCEPT !.stage = "sent", !.kind = "invite", !.target = m]
  /\ told' = [told EXCEPT !.form = FALSE]
  /\ UNCHANGED <<page, server, load, shown, doing, late, history>>

\* Who is a member already, or was, is answered for like a success.
Invite ==
  /\ inviting.stage = "sent" /\ status[Viewer] = "active"
  /\ inviting' = [Idle EXCEPT !.stage = "done"]
  /\ IF status[inviting.target] = "absent"
     THEN /\ Becomes("invite", inviting.target) /\ Outdate({inviting.target}, TRUE)
          /\ doing' = Mark(doing, inviting.target) /\ late' = MarkAll(inviting.target)
     ELSE UNCHANGED <<role, status, load, shown, doing, late>>
  /\ UNCHANGED <<page, alive, changes, told, history>>

\* onInvited: the list is loaded again, and nothing waits for it.
Invited ==
  /\ inviting.stage = "done" /\ Started # 1..MaxLoads
  /\ inviting' = Idle /\ load' = Begun
  /\ told' = [told EXCEPT !.page = FALSE]
  /\ UNCHANGED <<page, server, shown, doing, late, history>>

NotInvited ==
  /\ inviting.stage \in {"sent", "done"} /\ inviting' = Idle
  /\ GivesUp(inviting) /\ told' = [told EXCEPT !.form = TRUE]
  /\ UNCHANGED <<page, server, load, shown, doing, history>>

-----------------------------------------------------------------------------
(* The API serves a request the page has given up.                         *)
LateChange(n) ==
  LET q == late[n] IN
  /\ q.stage = "sent" /\ page = "members" /\ q.kind # "invite"
  /\ IF Permits(q.kind, Viewer, q.target)
     THEN /\ Becomes(q.kind, q.target) /\ Outdate({q.target}, FALSE)
          /\ doing' = Mark(doing, q.target)
          /\ late' = [MarkAll(q.target) EXCEPT ![n] = Idle] /\ UNCHANGED dead
     ELSE /\ late' = [late EXCEPT ![n] = Idle]
          /\ dead' = (dead \/ {Viewer, q.target} \cap q.moved = {})
          /\ UNCHANGED <<role, status, load, shown, doing>>
  /\ UNCHANGED <<page, alive, changes, inviting, told, shownBy, latest>>

LateInvite(n) ==
  LET q == late[n] IN
  /\ q.stage = "sent" /\ q.kind = "invite"
  /\ IF status[Viewer] = "active" /\ status[q.target] = "absent"
     THEN /\ Becomes("invite", q.target) /\ Outdate({q.target}, FALSE)
          /\ doing' = Mark(doing, q.target)
          /\ late' = [MarkAll(q.target) EXCEPT ![n] = Idle]
     ELSE late' = [late EXCEPT ![n] = Idle] /\ UNCHANGED <<role, status, load, shown, doing>>
  /\ UNCHANGED <<page, alive, changes, inviting, told, history>>

LateSessions(n) ==
  /\ late[n].stage = "sent" /\ page = "security"
  /\ alive' = IF Own \in alive THEN AliveAfter(late[n]) ELSE alive
  /\ late' = [late EXCEPT ![n] = Idle]
  /\ UNCHANGED <<page, role, status, changes, load, shown, doing, inviting, told, history>>

-----------------------------------------------------------------------------
(* Others: administrators elsewhere, invitees, other devices of the user.  *)
Elsewhere(kind, m) ==
  /\ page = "members" /\ changes < MaxChanges /\ changes' = changes + 1
  /\ \/ kind = "accept" /\ status[m] = "invited"
     \/ kind \in {"suspend", "revoke", "promote", "demote"}
          /\ \E actor \in Member : Permits(kind, actor, m)
  /\ Becomes(kind, m) /\ Outdate({m}, FALSE) /\ doing' = Mark(doing, m) /\ late' = MarkAll(m)
  /\ UNCHANGED <<page, alive, inviting, told, history>>

EndsElsewhere(s) ==
  /\ page = "security" /\ changes < MaxChanges /\ s \in alive
  /\ alive' = alive \ {s} /\ changes' = changes + 1
  /\ UNCHANGED <<page, role, status, load, shown, doing, inviting, late, told, history>>

Next ==
  \/ \E i \in 1..MaxLoads :
       ReadMe(i) \/ ReadList(i) \/ ReadRoles(i) \/ Arrive(i) \/ LoadFails(i)
  \/ \E kind \in Kinds, t \in Member \cup Session : Click(kind, t)
  \/ ChangeMember \/ ChangeSessions \/ Answered \/ Unanswered
  \/ (\E m \in Member : Submit(m)) \/ Invite \/ Invited \/ NotInvited
  \/ \E n \in 1..MaxLate : LateChange(n) \/ LateInvite(n) \/ LateSessions(n)
  \/ \E kind \in {"accept", "suspend", "revoke", "promote", "demote"}, m \in Member : Elsewhere(kind, m)
  \/ \E s \in Session : EndsElsewhere(s)

Spec == Init /\ [][Next]_vars

-----------------------------------------------------------------------------
Lists == [there : BOOLEAN, rows : [Member -> [status : Statuses, role : Roles]],
          open : SUBSET Session, moved : SUBSET Member, misses : BOOLEAN]

(* Values have their types.                                                *)
TypeOK ==
  /\ page \in {"members", "security"}
  /\ role \in [Member -> Roles] /\ status \in [Member -> Statuses] /\ alive \subseteq Session
  /\ load \in [1..MaxLoads -> [stage : {"new", "me", "list", "roles", "answer", "over"},
                               list : Lists]]
  /\ shown \in Lists
  /\ doing \in [stage : {"none", "sent", "done", "refused", "loading", "left"},
                kind : Kinds \cup {None}, target : Member \cup Session \cup {None},
                load : 0..MaxLoads, moved : SUBSET Member]
  /\ inviting \in [stage : {"none", "sent", "done"}, kind : {"invite", None},
                   target : Member \cup {None}, load : {0}, moved : {{}}]
  /\ inviting.stage = "sent" => inviting.kind = "invite" /\ inviting.target \in Member
  /\ late \in [1..MaxLate -> [stage : {"none", "sent"}, kind : Kinds \cup {"invite", None},
                              target : Member \cup Session \cup {None},
                              load : 0..MaxLoads, moved : SUBSET Member]]
  /\ told \in [page : BOOLEAN, form : BOOLEAN] /\ changes \in 0..MaxChanges
  /\ shownBy \in 0..MaxLoads /\ latest \in 0..MaxLoads /\ dead \in BOOLEAN

Resting ==
  /\ doing.stage = "none" /\ inviting.stage = "none"
  /\ \A i \in 1..MaxLoads : ~InFlight(i)

(* A page at rest that tells of no error shows what it did: every change   *)
(* that the API made while the page awaited it is on its list, its answer  *)
(* heard or lost, whatever became of the page's other requests and loads.  *)
(* Not claimed of a change made after the page had given it up: a list     *)
(* read before does not show it, and nothing tells of it.  The exception   *)
(* is a list that came out of turn, after the list of a later load: the    *)
(* page shows the older one, and keeps it.                                 *)
PagesShowTheirOwnWork ==
  Resting /\ ~told.page /\ ~told.form => ~shown.misses \/ shownBy < latest

(* What the page of members offers the API permits: a change it offers is  *)
(* refused only if the member or the viewer changed since the list was     *)
(* read, the page's own late changes included.                             *)
OffersWhatIsPermitted == ~dead
=============================================================================
