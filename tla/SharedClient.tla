---------------------------- MODULE SharedClient ----------------------------
(***************************************************************************)
(* The generated Prisma client that the builds, tests and type checks of   *)
(* booking-os share.  Each of them first sees to it that the client fits   *)
(* the schema, behind a lock that is a directory; a marker file names the  *)
(* schema the client was last generated for.  A lock that looks too old is *)
(* removed by whoever waits for it.                                        *)
(*                                                                         *)
(* A schema is its version; edits go forward only (see README).            *)
(***************************************************************************)
EXTENDS Naturals

CONSTANTS
  Builder,     \* processes, each of which needs the client once
  MaxSchema    \* bound: the versions of the schema are 1 .. MaxSchema

None == 0      \* no version: a file that is missing or does not load

VARIABLES
  schema,      \* the version in the working tree
  lock, old,   \* the lock is there; it is older than the limit
  client,      \* the schema that the client was generated from
  marker,      \* the fingerprint in the marker
  wanted,      \* the fingerprint a builder computed when it started
  built,       \* the schema that its generator read
  late,        \* its deadline for the lock has passed
  pc,
  robbed       \* history: a lock was removed whose builder was at work

vars == <<schema, lock, old, client, marker, wanted, built, late, pc, robbed>>
own == <<wanted, built, late>>

Init ==
  /\ schema = 1 /\ client \in {None, 1} /\ marker = client
  /\ lock = FALSE /\ old = FALSE /\ robbed = FALSE
  /\ wanted = [b \in Builder |-> None] /\ built = [b \in Builder |-> None]
  /\ late = [b \in Builder |-> FALSE] /\ pc = [b \in Builder |-> "start"]

Go(b, label) == pc' = [pc EXCEPT ![b] = label]
Working(b) == pc[b] \in {"check", "probe", "generate", "generating", "verify", "mark", "release"}
Others(b) == {q \in Builder \ {b} : Working(q)}
Remove(b) ==
  /\ lock' = FALSE /\ old' = FALSE
  /\ robbed' = (robbed \/ (lock /\ Others(b) # {}))
-----------------------------------------------------------------------------
(* Getting the lock.                                                       *)

Fingerprint(b) ==
  /\ pc[b] = "start" /\ Go(b, "knock") /\ wanted' = [wanted EXCEPT ![b] = schema]
  /\ UNCHANGED <<schema, lock, old, client, marker, built, late, robbed>>
Knock(b) ==
  /\ pc[b] = "knock" /\ lock' = TRUE
  /\ IF lock THEN Go(b, "look") /\ UNCHANGED old ELSE Go(b, "check") /\ old' = FALSE
  /\ UNCHANGED <<schema, client, marker, own, robbed>>
Look(b) ==
  /\ pc[b] = "look"
  /\ Go(b, CASE ~lock -> "knock" [] lock /\ old -> "steal"
             [] lock /\ ~old -> IF late[b] THEN "end" ELSE "knock")
  /\ UNCHANGED <<schema, lock, old, client, marker, own, robbed>>
Steal(b) ==    \* whatever lock is there by now
  /\ pc[b] = "steal" /\ Go(b, "knock") /\ Remove(b)
  /\ UNCHANGED <<schema, client, marker, own>>
-----------------------------------------------------------------------------
(* With the lock.                                                          *)

Check(b) ==
  /\ pc[b] = "check" /\ Go(b, IF marker = wanted[b] THEN "probe" ELSE "generate")
  /\ UNCHANGED <<schema, lock, old, client, marker, own, robbed>>
\* A probe may fail without the client being at fault.
Probe(b) ==
  /\ pc[b] = "probe"
  /\ \E ready \in {FALSE, client # None} : Go(b, IF ready THEN "release" ELSE "generate")
  /\ UNCHANGED <<schema, lock, old, client, marker, own, robbed>>
Generate(b) ==
  /\ pc[b] = "generate" /\ Go(b, "generating") /\ built' = [built EXCEPT ![b] = schema]
  /\ UNCHANGED <<schema, lock, old, client, marker, wanted, late, robbed>>
Generated(b) ==
  /\ pc[b] = "generating" /\ client' = built[b] /\ Go(b, "verify")
  /\ UNCHANGED <<schema, lock, old, marker, own, robbed>>
GeneratorFails(b) ==
  /\ pc[b] = "generating" /\ client' \in {client, None, built[b]} /\ Go(b, "release")
  /\ UNCHANGED <<schema, lock, old, marker, own, robbed>>
Verify(b) ==
  /\ pc[b] = "verify"
  /\ \E ready \in {FALSE, client # None} : Go(b, IF ready THEN "mark" ELSE "release")
  /\ UNCHANGED <<schema, lock, old, client, marker, own, robbed>>
\* Faulty variant: the marker names the schema as it is by now.
MarkAnew(b) ==
  /\ pc[b] = "mark" /\ Go(b, "release") /\ marker' = schema
  /\ UNCHANGED <<schema, lock, old, client, own, robbed>>
Mark(b) ==
  /\ pc[b] = "mark" /\ Go(b, "release") /\ marker' = wanted[b]
  /\ UNCHANGED <<schema, lock, old, client, own, robbed>>
Release(b) ==  \* after an error too, and without a look at whose lock it is
  /\ pc[b] = "release" /\ Go(b, "end") /\ Remove(b)
  /\ UNCHANGED <<schema, client, marker, own>>
-----------------------------------------------------------------------------
(* A process is killed with its generator; time passes; an edit.           *)

Crash(b) ==
  /\ pc[b] \notin {"start", "end"} /\ Go(b, "end")
  /\ client' \in IF pc[b] = "generating" THEN {client, None, built[b]} ELSE {client}
  /\ UNCHANGED <<schema, lock, old, marker, own, robbed>>
Age ==
  /\ lock /\ ~old /\ old' = TRUE
  /\ UNCHANGED <<schema, lock, client, marker, own, pc, robbed>>
Deadline(b) ==
  /\ pc[b] \in {"knock", "look", "steal"} /\ ~late[b] /\ late' = [late EXCEPT ![b] = TRUE]
  /\ UNCHANGED <<schema, lock, old, client, marker, wanted, built, pc, robbed>>
Edit ==
  /\ schema < MaxSchema /\ schema' = schema + 1
  /\ UNCHANGED <<lock, old, client, marker, own, pc, robbed>>

Step(b) ==
  \/ Fingerprint(b) \/ Knock(b) \/ Look(b) \/ Steal(b) \/ Check(b) \/ Probe(b) \/ Generate(b)
  \/ Generated(b) \/ GeneratorFails(b) \/ Verify(b) \/ Mark(b) \/ Release(b) \/ Deadline(b)
Next == (\E b \in Builder : Step(b) \/ Crash(b)) \/ Age \/ Edit

Spec == Init /\ [][Next]_vars

(* Processes run and generators end; deadlines pass.                       *)
FairSpec == Spec /\ \A b \in Builder : WF_vars(Step(b)) /\ WF_vars(Deadline(b))
-----------------------------------------------------------------------------
(* Variables have their types.                                             *)
TypeOK ==
  /\ schema \in 1 .. MaxSchema /\ {client, marker} \subseteq None .. MaxSchema
  /\ lock \in BOOLEAN /\ old \in BOOLEAN /\ robbed \in BOOLEAN
  /\ wanted \in [Builder -> None .. MaxSchema] /\ built \in [Builder -> None .. MaxSchema]
  /\ late \in [Builder -> BOOLEAN]
  /\ pc \in [Builder -> {"start", "knock", "look", "steal", "check", "probe", "generate",
                         "generating", "verify", "mark", "release", "end"}]

(* Through crashes, failing generators and edits, one builder at a time    *)
(* touches the client, and a client that loads is never older than what    *)
(* the marker says of it - unless a lock was removed from under a builder: *)
(* one slower than the limit, or one whose fresh lock was taken by a       *)
(* process that had seen the stale one before it.                          *)
ClientFitsMarker ==
  ~robbed => /\ \A b, q \in Builder : Working(b) /\ Working(q) => b = q
             /\ client # None /\ marker # None => client >= marker

(* Nobody waits for the client forever.                                    *)
Unfinished(b) == pc[b] # "end"
BuildersEnd == \A b \in Builder : Unfinished(b) ~> ~Unfinished(b)
=============================================================================
