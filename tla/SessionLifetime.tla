-------------------------- MODULE SessionLifetime ---------------------------
(***************************************************************************)
(* How long one session of booking-os lasts.  It ends Absolute after its   *)
(* creation and when it has not been used for Idle; uses are recorded at   *)
(* most every Coalesce, by a write that gives way to any other write of    *)
(* the row since the request read it (session.version).  Requests run      *)
(* concurrently, in slots that are used again and again; one of them may   *)
(* elevate the session of an invited user, which counts as having seen him *)
(* but does not prolong the session.  Time is counted from the creation;   *)
(* the row's version is known by who changed it since.                     *)
(***************************************************************************)
EXTENDS Naturals

CONSTANTS
  Request,     \* slots for requests
  Idle, Absolute, Coalesce,   \* 0 < Coalesce < Idle <= Absolute (session-expiry.ts)
  MaxFlight,   \* how long a request is under way at most, less than Idle
  MaxTime

VARIABLES
  now,
  alive,     \* revoked_at IS NULL
  idle,      \* idle_expires_at
  seen,      \* last_seen_at
  invited,   \* "no", "pending", or "elevated": the state of an invited user's session
  call,      \* the requests under way: see AtRest
  used,      \* history: when a request was last let in
  answered,  \* history: the last time whose use is on record for its request
  vouched    \* history: what `seen' says stands for a use on record

vars == <<now, alive, idle, seen, invited, call, used, answered, vouched>>

Earlier(a, b) == IF a < b THEN a ELSE b
Later(a, b) == IF a < b THEN b ELSE a

\* Its next step, when it began, the clock it read, the idle_expires_at it
\* read, the writes of the session since, and (history) answered at first.
AtRest == [pc |-> "rest", began |-> 0, clock |-> 0, row |-> 0, written |-> {}, known |-> 0]

Init ==   \* the session as it is created
  /\ now = 0 /\ alive = TRUE
  /\ idle = Idle /\ seen = 0
  /\ invited \in {"no", "pending"}
  /\ call = [r \in Request |-> AtRest]
  /\ used = 0 /\ answered = 0 /\ vouched = TRUE

At(r, label) == call[r].pc = label
Rest(r) == call' = [call EXCEPT ![r] = AtRest]
Written(r, kind) ==
  IF At(r, "rest") THEN call[r] ELSE [call[r] EXCEPT !.written = @ \union {kind}]
-----------------------------------------------------------------------------
(* The middleware finds the session, the validator finds it once more and  *)
(* then looks at the clock.                                                *)
Find(r) ==
  /\ At(r, "rest") /\ alive
  /\ call' = [call EXCEPT ![r] = [AtRest EXCEPT !.pc = "read", !.began = now, !.known = answered]]
  /\ UNCHANGED <<now, alive, idle, seen, invited, used, answered, vouched>>
(* Permissions that changed in between make the snapshot stale, and an     *)
(* elevation has revoked the request's token.                              *)
Read(r) ==
  /\ At(r, "read")
  /\ IF alive /\ call[r].written \subseteq {"touch"}
       THEN call' = [call EXCEPT ![r].pc = "judge", ![r].row = idle, ![r].written = {}]
       ELSE Rest(r)
  /\ UNCHANGED <<now, alive, idle, seen, invited, used, answered, vouched>>
Admit(r) ==
  /\ At(r, "judge")
  /\ call[r].row > now /\ Absolute > now
  /\ call' = [call EXCEPT ![r].pc = "touch", ![r].clock = now] /\ used' = now
  /\ UNCHANGED <<now, alive, idle, seen, invited, answered, vouched>>
Expire(r) ==
  /\ At(r, "judge")
  /\ call[r].row <= now \/ Absolute <= now
  /\ Rest(r)
  /\ UNCHANGED <<now, alive, idle, seen, invited, used, answered, vouched>>

(* One statement writes both times, if the row is as it was read.  What    *)
(* another touch has recorded is as good, and so is what no touch is due   *)
(* for, unless by an elevation that stands for no use on record.           *)
Due(r) == call[r].clock >= Coalesce /\ seen <= call[r].clock - Coalesce
Recorded(r) == call[r].written \subseteq {"touch"} /\ (Due(r) \/ vouched)
\* The request is done, or goes on to accept its user's invitation.
Onward(r) ==
  {AtRest} \union
    IF invited = "pending" THEN {[call[r] EXCEPT !.pc = "accept", !.clock = now]} ELSE {}
\* Faulty variant: the session is prolonged by the clock of the write.
TouchLate(r) ==
  /\ At(r, "touch")
  /\ \E c \in Onward(r) :
       IF alive /\ call[r].written = {} /\ Due(r)
         THEN /\ seen' = call[r].clock /\ idle' = Earlier(now + Idle, Absolute) /\ vouched' = TRUE
              /\ call' = [q \in Request |-> IF q = r THEN c ELSE Written(q, "touch")]
         ELSE call' = [call EXCEPT ![r] = c] /\ UNCHANGED <<seen, idle, vouched>>
  /\ answered' = IF Recorded(r) THEN Later(answered, call[r].clock) ELSE answered
  /\ UNCHANGED <<now, alive, invited, used>>

Touch(r) ==
  /\ At(r, "touch")
  /\ \E c \in Onward(r) :
       IF alive /\ call[r].written = {} /\ Due(r)
         THEN /\ seen' = call[r].clock /\ idle' = Earlier(call[r].clock + Idle, Absolute) /\ vouched' = TRUE
              /\ call' = [q \in Request |-> IF q = r THEN c ELSE Written(q, "touch")]
         ELSE call' = [call EXCEPT ![r] = c] /\ UNCHANGED <<seen, idle, vouched>>
  /\ answered' = IF Recorded(r) THEN Later(answered, call[r].clock) ELSE answered
  /\ UNCHANGED <<now, alive, invited, used>>

(* Accepting the invitation reads the clock, locks a session that is still *)
(* pending, and activates it: it is seen now, ends when it would have, and *)
(* has a new token.  All of it is undone when the session is no more.      *)
Elevate(r) ==
  /\ At(r, "accept")
  /\ \E at \in call[r].clock .. now :
       IF alive /\ invited = "pending" /\ idle > at /\ Absolute > at
         THEN /\ invited' = "elevated" /\ seen' = at
              /\ vouched' = (call[r].written \subseteq {"touch"})
              /\ call' = [q \in Request |-> IF q = r THEN AtRest ELSE Written(q, "state")]
         ELSE Rest(r) /\ UNCHANGED <<invited, seen, vouched>>
  /\ UNCHANGED <<now, alive, idle, used, answered>>

(* Other writes of the row: a new snapshot of the user's permissions, and  *)
(* the end of the session.                                                 *)
Write(kind) == alive /\ call' = [r \in Request |-> Written(r, kind)]
RefreshAuthority ==
  Write("authority") /\ UNCHANGED <<now, alive, idle, seen, invited, used, answered, vouched>>
Revoke ==
  Write("state") /\ alive' = FALSE /\ UNCHANGED <<now, idle, seen, invited, used, answered, vouched>>

Tick ==
  /\ now < MaxTime /\ now' = now + 1
  /\ \A r \in Request : At(r, "rest") \/ now < call[r].began + MaxFlight
  /\ UNCHANGED <<alive, idle, seen, invited, call, used, answered, vouched>>

Next ==
  \/ \E r \in Request : Find(r) \/ Read(r) \/ Admit(r) \/ Expire(r) \/ Touch(r) \/ Elevate(r)
  \/ RefreshAuthority \/ Revoke \/ Tick

Spec == Init /\ [][Next]_vars
-----------------------------------------------------------------------------
TypeOK ==
  /\ now \in 0 .. MaxTime /\ alive \in BOOLEAN
  /\ idle \in 0 .. Absolute /\ seen \in 0 .. now
  /\ invited \in {"no", "pending", "elevated"} /\ vouched \in BOOLEAN
  /\ call \in [Request -> [pc : {"rest", "read", "judge", "touch", "accept"}, began : 0 .. now, clock : 0 .. now,
                           row : 0 .. Absolute, written : SUBSET {"touch", "authority", "state"},
                           known : 0 .. now]]
  /\ used \in 0 .. now /\ answered \in 0 .. used

\* How far what is on record may lag behind what users were answered.
Lag == Later(Coalesce, 2 * MaxFlight + 1)
\* The same after an elevation, which puts off the next touch once more.
LagElevated == Later(Coalesce, MaxFlight + 1) + MaxFlight + Coalesce - 1

(* A session that nobody has used for Idle, or that is Absolute old, lets  *)
(* nobody in, however late touches are written; and a user whose last      *)
(* answered request is younger than Idle is not sent away, but for what    *)
(* coalescing may cost him, once more after an elevation, or the flights   *)
(* of two requests of which one's touch gave way to the other's, and       *)
(* unless another write of the row took the place of the touch of his      *)
(* request, or of the one that elevated the session.                       *)
ExpiresWhenUnused ==
  [][\A r \in Request :
       At(r, "judge") =>
         /\ call'[r].pc = "touch" => now < Absolute /\ now < used + Idle
         /\ call'[r].pc = "rest" =>
              \/ now >= Absolute
              \/ now + (IF invited = "elevated" THEN LagElevated ELSE Lag) > call[r].known + Idle]_vars
=============================================================================
