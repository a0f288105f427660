-------------------------- MODULE OwnershipProofs --------------------------
(***************************************************************************)
(* Theorems about TenantOwnership, for every set of members and requests.  *)
(***************************************************************************)
EXTENDS TenantOwnership, FiniteSetTheorems, TLAPS

\* A tenant that is active has an active owner; one that is being provisioned
\* has no roles at all.
Owned == IF tenant = "active" THEN ActiveOwners # {} ELSE \A m \in Member : role[m] = "none"

\* Row locks exclude each other.
Exclusive ==
  \A q, r \in Request :
    q # r =>
      /\ counted[q] \cap counted[r] = {}
      /\ \A m \in Member : Updating(q, m) => ~Updating(r, m) /\ ~Sharing(r, m)

\* What a transaction has read under its locks stays true while it has them.
ReadOwners(r) == todo[r] \cup counted[r] \subseteq ActiveOwners

ReadUser(r) ==
  LET c == call[r] IN SharingUser(r, c.actor) => userVersion[c.actor] = c.userVersion

ReadActor(r) ==
  LET c == call[r] IN
  Sharing(r, c.actor) =>
    status[c.actor] = "active" /\ role[c.actor] = c.role /\ version[c.actor] = c.version

\* The verdict that let the call c go on to its writes.
Fits(c) ==
  \/ c.kind = "accept" /\ status[c.target] = "invited"
  \/ /\ c.kind # "accept"
     /\ status[c.target] = "active" \/ (c.kind = "revoke" /\ status[c.target] = "suspended")
     /\ Grantable(c.kind, c.role, role[c.target])

ReadTarget(r) ==
  LET c == call[r] IN
  pc[r] = "commit" =>
    /\ Fits(c)
    /\ c.kind = "demote" => c.target \in counted[r] /\ counted[r] # {c.target}

Reading(r) == ReadOwners(r) /\ ReadUser(r) /\ ReadActor(r) /\ ReadTarget(r)

Readings == \A r \in Request : Reading(r)

IInv == /\ TypeOK /\ RolesFitStatus /\ Owned /\ Exclusive /\ Readings
        /\ VersionTellsAuthority /\ TriggerNeverRejects
-----------------------------------------------------------------------------
(* Type correctness.                                                       *)

LEMMA JoiningType == \A m \in Member : Joining(m) \in Call
  BY DEF Joining, Call, Kinds, Roles

LEMMA NoCallType == NoCall \in Call
  BY OwnershipAssumption, JoiningType DEF NoCall, SomeMember

LEMMA InitType == Init => TypeOK
  BY OwnershipAssumption, NoCallType
  DEF Init, TypeOK, Statuses, Roles, Open, Ended

\* Ending a transaction keeps the types, whatever its outcome.
LEMMA FinishType ==
  ASSUME TypeOK, NEW r \in Request, NEW how \in Ended, Finish(r, how)
  PROVE  /\ pc' \in [Request -> {"new"} \cup Open \cup Ended]
         /\ call' \in [Request -> Call]
         /\ todo' \in [Request -> SUBSET Member] /\ counted' \in [Request -> SUBSET Member]
         /\ \A q \in Request :
              /\ todo'[q] # {} => pc'[q] = "rows"
              /\ counted'[q] # {} =>
                   pc'[q] \in {"rows", "target", "commit"} /\ call'[q].kind = "demote"
              /\ pc'[q] \in {"find", "rows"} => call'[q].kind = "demote"
  BY NoCallType DEF TypeOK, Finish, Goto, Ended

LEMMA VerdictType == \A r \in Request : Verdict(r) \in {"commit", "refused", "last"}
  BY DEF Verdict

LEMMA RefuseType ==
  ASSUME TypeOK, NEW r \in Request, NEW how \in Ended, Refuse(r, how)
  PROVE  TypeOK'
  BY FinishType DEF TypeOK, Refuse, tables

\* A transaction is rolled back or its writes appear.
Written(r) ==
  LET c == call[r] IN
  /\ pc[r] = "commit" /\ AssignmentsFit(c) /\ OwnerWouldRemain(c)
  /\ tenant' = TenantAfter(c) /\ status' = StatusAfter(c)
  /\ role' = RoleAfter(c) /\ version' = VersionAfter(c)
  /\ userVersion' = userVersion /\ changes' = changes
  /\ Goto(r, "ok")
  /\ call' = [call EXCEPT ![r] = NoCall]
  /\ counted' = [counted EXCEPT ![r] = {}]
  /\ \/ c.kind = "demote" /\ todo' = [q \in Request |-> todo[q] \ {c.target}]
     \/ c.kind # "demote" /\ todo' = todo

LEMMA CommitOutcome ==
  ASSUME NEW r \in Request, Commit(r)
  PROVE  Refuse(r, "refused") \/ Refuse(r, "ownerless") \/ Written(r)
  BY DEF Commit, Written

LEMMA AfterType ==
  ASSUME TypeOK, NEW c \in Call
  PROVE  /\ TenantAfter(c) \in {"provisioning", "active"}
         /\ StatusAfter(c) \in [Member -> Statuses]
         /\ RoleAfter(c) \in [Member -> Roles]
         /\ VersionAfter(c) \in [Member -> Nat]
<1>1. c.target \in Member
  BY DEF Call
<1>2. TenantAfter(c) \in {"provisioning", "active"}
  BY DEF TypeOK, TenantAfter
<1>3. StatusAfter(c) \in [Member -> Statuses]
  BY <1>1 DEF TypeOK, StatusAfter, Statuses
<1>4. RoleAfter(c) \in [Member -> Roles]
  BY <1>1 DEF TypeOK, RoleAfter, Roles
<1>5. VersionAfter(c) \in [Member -> Nat]
  BY <1>1 DEF TypeOK, VersionAfter
<1> QED BY <1>2, <1>3, <1>4, <1>5

LEMMA NextType == TypeOK /\ [Next]_vars => TypeOK'
<1> SUFFICES ASSUME TypeOK, [Next]_vars PROVE TypeOK'
  OBVIOUS
<1>1. ASSUME NEW r \in Request, Ask(r) PROVE TypeOK'
  <2> PICK k \in Asked \ {"accept"}, a \in Member, t \in Member :
        /\ status[a] = "active"
        /\ call' = [call EXCEPT ![r] =
            [kind |-> k, actor |-> a, target |-> t, role |-> role[a],
             version |-> version[a], userVersion |-> userVersion[a]]]
    BY <1>1 DEF Ask
  <2>1. [kind |-> k, actor |-> a, target |-> t, role |-> role[a],
         version |-> version[a], userVersion |-> userVersion[a]] \in Call
    BY OwnershipAssumption DEF Call, TypeOK
  <2>2. call' \in [Request -> Call]
    BY <2>1 DEF TypeOK
  <2>3. todo[r] = {} /\ counted[r] = {} BY <1>1 DEF Ask, TypeOK
  <2> QED BY <1>1, <2>2, <2>3 DEF Ask, TypeOK, Goto, tables, Open
<1>2. ASSUME NEW r \in Request, AskToJoin(r) PROVE TypeOK'
  <2> PICK m \in Member : call' = [call EXCEPT ![r] = Joining(m)]
    BY <1>2 DEF AskToJoin
  <2>2. call' \in [Request -> Call]
    BY JoiningType DEF TypeOK
  <2>3. todo[r] = {} /\ counted[r] = {} BY <1>2 DEF AskToJoin, TypeOK
  <2> QED BY <1>2, <2>2, <2>3 DEF AskToJoin, TypeOK, Goto, tables, Open
<1>3. ASSUME NEW r \in Request, LockUser(r) PROVE TypeOK'
  <2>1. CASE Refuse(r, "stale") BY <2>1, RefuseType DEF Ended
  <2>2. CASE Proceed(r, "actor")
    BY <1>3, <2>2 DEF LockUser, Proceed, TypeOK, Goto, tables, Open
  <2> QED BY <1>3, <2>1, <2>2 DEF LockUser
<1>4. ASSUME NEW r \in Request, LockActor(r) PROVE TypeOK'
  <2>1. CASE Refuse(r, "stale") BY <2>1, RefuseType DEF Ended
  <2>2. CASE Proceed(r, "find") /\ call[r].kind = "demote"
    BY <1>4, <2>2 DEF LockActor, Proceed, TypeOK, Goto, tables, Open
  <2>3. CASE Proceed(r, "target")
    BY <1>4, <2>3 DEF LockActor, Proceed, TypeOK, Goto, tables, Open
  <2> QED BY <1>4, <2>1, <2>2, <2>3 DEF LockActor
<1>5. ASSUME NEW r \in Request, FindOwners(r) PROVE TypeOK'
  <2>1. call[r].kind = "demote" BY <1>5 DEF FindOwners, TypeOK
  <2>2. ActiveOwners \in SUBSET Member BY DEF ActiveOwners
  <2>3. todo' \in [Request -> SUBSET Member] BY <1>5, <2>2 DEF FindOwners, TypeOK
  <2>4. pc' \in [Request -> {"new"} \cup Open \cup Ended]
    BY <1>5 DEF FindOwners, TypeOK, Goto, Open
  <2>5. pc' = [pc EXCEPT ![r] = "rows"] /\ UNCHANGED <<tables, call, counted, changes>>
    BY <1>5 DEF FindOwners, Goto
  <2>6. \A q \in Request : q # r => pc'[q] = pc[q] /\ todo'[q] = todo[q]
    BY <1>5 DEF FindOwners, TypeOK, Goto
  <2>7. pc'[r] = "rows" BY <2>5 DEF TypeOK
  <2> QED BY <2>1, <2>3, <2>4, <2>5, <2>6, <2>7 DEF TypeOK, tables
<1>6. ASSUME NEW r \in Request, LockOwner(r) PROVE TypeOK'
  BY <1>6 DEF LockOwner, TypeOK, tables, Open
<1>7. ASSUME NEW r \in Request, OwnersLocked(r) PROVE TypeOK'
  BY <1>7 DEF OwnersLocked, Proceed, TypeOK, Goto, tables, Open
<1>8. ASSUME NEW r \in Request, LockTarget(r) PROVE TypeOK'
  <2>1. CASE Verdict(r) = "commit"
    BY <1>8, <2>1 DEF LockTarget, Proceed, TypeOK, Goto, tables, Open
  <2>2. CASE Verdict(r) # "commit"
    BY <1>8, <2>2, VerdictType, RefuseType DEF LockTarget, Ended
  <2> QED BY <2>1, <2>2
<1>9. ASSUME NEW r \in Request, Commit(r) PROVE TypeOK'
  <2>1. CASE Refuse(r, "refused") \/ Refuse(r, "ownerless")
    BY <2>1, RefuseType DEF Ended
  <2>2. CASE Written(r)
    <3>1. call[r] \in Call BY DEF TypeOK
    <3>2. /\ pc' \in [Request -> {"new"} \cup Open \cup Ended]
          /\ call' \in [Request -> Call]
          /\ todo' \in [Request -> SUBSET Member]
          /\ counted' \in [Request -> SUBSET Member]
      BY <2>2, NoCallType DEF Written, TypeOK, Goto, Ended
    <3>3. \A q \in Request : todo'[q] \subseteq todo[q]
      BY <2>2 DEF Written, TypeOK
    <3>4. todo[r] = {} BY <2>2 DEF Written, TypeOK
    <3>5. \A q \in Request :
            /\ todo'[q] # {} => pc'[q] = "rows"
            /\ counted'[q] # {} =>
                 pc'[q] \in {"rows", "target", "commit"} /\ call'[q].kind = "demote"
            /\ pc'[q] \in {"find", "rows"} => call'[q].kind = "demote"
      BY <2>2, <3>3, <3>4 DEF Written, TypeOK, Goto
    <3> QED BY <2>2, <3>1, <3>2, <3>5, AfterType DEF Written, TypeOK
  <2> QED BY <1>9, <2>1, <2>2, CommitOutcome
<1>10. ASSUME NEW r \in Request, Abort(r) \/ DeadlockVictim(r) PROVE TypeOK'
  BY <1>10, RefuseType DEF Abort, DeadlockVictim, Ended
<1>11. ASSUME NEW m \in Member, CreateInvited(m) PROVE TypeOK'
  BY <1>11 DEF CreateInvited, TypeOK, requests, Statuses
<1>12. ASSUME NEW m \in Member, ChangeCustomRoles(m) \/ ResetPassword(m) PROVE TypeOK'
  BY <1>12, OwnershipAssumption
  DEF ChangeCustomRoles, ResetPassword, TypeOK, requests
<1>13. CASE UNCHANGED vars
  BY <1>13 DEF vars, tables, requests, TypeOK
<1> QED
  BY <1>1, <1>2, <1>3, <1>4, <1>5, <1>6, <1>7, <1>8, <1>9, <1>10, <1>11, <1>12, <1>13
  DEF Next, Step

\* Every variable keeps its type, and only demotions under way lock owners'
\* assignments.
THEOREM TypeCorrect == Spec => []TypeOK
  BY InitType, NextType, PTL DEF Spec
-----------------------------------------------------------------------------
(* The invariant holds at first, and while nothing is written.             *)

LEMMA InitInv == Init => IInv
<1> SUFFICES ASSUME Init PROVE IInv
  OBVIOUS
<1>1. TypeOK BY InitType
<1>2. \A r \in Request : pc[r] = "new" /\ todo[r] = {} /\ counted[r] = {}
  BY DEF Init
<1>3. Exclusive /\ Readings /\ VersionTellsAuthority /\ TriggerNeverRejects
  BY <1>2 DEF Exclusive, Updating, Sharing, SharingUser, VersionTellsAuthority, Open,
     TriggerNeverRejects, Readings, Reading, ReadOwners, ReadUser, ReadActor, ReadTarget
<1>4. RolesFitStatus
  BY DEF Init, RolesFitStatus
<1>5. Owned
  BY DEF Init, Owned, ActiveOwners
<1> QED BY <1>1, <1>3, <1>4, <1>5 DEF IInv

\* The invariant's parts about the tables alone.
LEMMA TablesKeep ==
  ASSUME IInv, UNCHANGED tables
  PROVE  RolesFitStatus' /\ Owned' /\ ActiveOwners' = ActiveOwners
  BY DEF IInv, tables, RolesFitStatus, Owned, ActiveOwners

\* What r has read is still there if neither the tables nor r have changed.
LEMMA ReadingKeeps ==
  ASSUME IInv, UNCHANGED tables, NEW q \in Request,
         pc'[q] = pc[q], call'[q] = call[q], todo'[q] = todo[q], counted'[q] = counted[q]
  PROVE  Reading(q)'
<1>1. Reading(q) BY DEF IInv, Readings
<1>2. ReadOwners(q)' BY <1>1, TablesKeep DEF Reading, ReadOwners
<1>3. ReadUser(q)' BY <1>1 DEF Reading, ReadUser, SharingUser, tables
<1>4. ReadActor(q)' BY <1>1 DEF Reading, ReadActor, Sharing, tables
<1>5. ReadTarget(q)' BY <1>1 DEF Reading, ReadTarget, Fits, tables
<1> QED BY <1>2, <1>3, <1>4, <1>5 DEF Reading

\* A transaction that is rolled back leaves the others what they have read.
LEMMA RefuseInv ==
  ASSUME IInv, NEW r \in Request, NEW how \in Ended \ {"ownerless"}, Refuse(r, how)
  PROVE  IInv'
<1> USE DEF IInv
<1>1. TypeOK' BY RefuseType
<1>2. UNCHANGED tables BY DEF Refuse
<1>3. pc'[r] = how /\ todo'[r] = {} /\ counted'[r] = {}
  BY DEF Refuse, Finish, Goto, TypeOK
<1>4. \A q \in Request : q # r =>
        pc'[q] = pc[q] /\ call'[q] = call[q] /\ todo'[q] = todo[q] /\ counted'[q] = counted[q]
  BY DEF Refuse, Finish, Goto, TypeOK
<1>5. how \notin Open /\ how # "ownerless" BY DEF Ended, Open
<1>6. Exclusive'
  BY <1>3, <1>4, <1>5 DEF Exclusive, Updating, Sharing, Open
<1>7. Reading(r)'
  BY <1>3, <1>5 DEF Reading, ReadOwners, ReadUser, ReadActor, ReadTarget, SharingUser, Sharing, Open
<1>8. \A q \in Request : q # r => Reading(q)'
  BY <1>2, <1>4, ReadingKeeps
<1>9. VersionTellsAuthority'
  BY <1>2, <1>3, <1>4, <1>5 DEF VersionTellsAuthority, tables
<1>10. TriggerNeverRejects'
  BY <1>3, <1>4, <1>5 DEF TriggerNeverRejects
<1> QED BY <1>1, <1>2, <1>6, <1>7, <1>8, <1>9, <1>10, TablesKeep DEF Readings

\* A statement of r that writes nothing: it is enough to look at what r holds
\* and has read afterwards.
LEMMA StatementInv ==
  ASSUME IInv, TypeOK', NEW r \in Request, UNCHANGED <<tables, call>>,
         pc[r] \in Open, pc'[r] \in Open,
         \A q \in Request : q # r => pc'[q] = pc[q] /\ todo'[q] = todo[q] /\ counted'[q] = counted[q],
         \A q \in Request : q # r =>
           /\ counted[q] \cap counted'[r] = {}
           /\ \A m \in Member : /\ Updating(q, m) => ~Updating(r, m)' /\ ~Sharing(r, m)'
                                /\ Updating(r, m)' => ~Sharing(q, m),
         Reading(r)'
  PROVE  IInv'
<1> USE DEF IInv
<1>1. \A q \in Request : q # r => \A m \in Member :
        (Updating(q, m)' <=> Updating(q, m)) /\ (Sharing(q, m)' <=> Sharing(q, m))
  BY DEF Updating, Sharing
<1>2. Exclusive'
  BY <1>1 DEF Exclusive
<1>3. \A q \in Request : q # r => Reading(q)'
  BY ReadingKeeps
<1>4. VersionTellsAuthority'
  BY DEF VersionTellsAuthority, tables
<1>5. TriggerNeverRejects'
  BY DEF TriggerNeverRejects, Open
<1> QED BY <1>2, <1>3, <1>4, <1>5, TablesKeep DEF Readings
-----------------------------------------------------------------------------
(* The statements that only lock and read.                                 *)

\* A request that arrives holds nothing; the authority it carries is current.
LEMMA AskInv ==
  ASSUME IInv, TypeOK', NEW r \in Request, Ask(r) \/ AskToJoin(r)
  PROVE  IInv'
<1> USE DEF IInv
<1>1. /\ UNCHANGED tables /\ counted' = counted /\ todo' = todo
      /\ pc[r] = "new" /\ todo[r] = {} /\ counted[r] = {}
  BY DEF Ask, AskToJoin, TypeOK
<1>2. pc'[r] \in {"user", "target"} /\ (pc'[r] = "target" => call'[r].kind = "accept")
  BY DEF Ask, AskToJoin, TypeOK, Goto, Joining
<1>3. \A q \in Request : q # r => pc'[q] = pc[q] /\ call'[q] = call[q]
  BY DEF Ask, AskToJoin, TypeOK, Goto
<1>4. Exclusive'
  BY <1>1, <1>2, <1>3 DEF Exclusive, Updating, Sharing
<1>5. Reading(r)'
  BY <1>1, <1>2 DEF Reading, ReadOwners, ReadUser, ReadActor, ReadTarget, SharingUser, Sharing
<1>6. \A q \in Request : q # r => Reading(q)'
  BY <1>1, <1>3, ReadingKeeps
<1>7. VersionTellsAuthority'
  <2>1. CASE Ask(r)
    <3> PICK k \in Asked \ {"accept"}, a \in Member, t \in Member :
          /\ status[a] = "active"
          /\ call' = [call EXCEPT ![r] =
              [kind |-> k, actor |-> a, target |-> t, role |-> role[a],
               version |-> version[a], userVersion |-> userVersion[a]]]
      BY <2>1 DEF Ask
    <3>1. call'[r].actor = a /\ call'[r].role = role[a] /\ call'[r].version = version[a]
      BY DEF TypeOK
    <3>2. version[a] \in Nat BY DEF TypeOK
    <3> QED BY <1>1, <1>3, <3>1, <3>2 DEF VersionTellsAuthority, tables
  <2>2. CASE AskToJoin(r)
    <3>1. call'[r].kind = "accept" BY <2>2 DEF AskToJoin, Joining, TypeOK
    <3> QED BY <1>1, <1>3, <3>1 DEF VersionTellsAuthority, tables
  <2> QED BY <2>1, <2>2
<1>8. TriggerNeverRejects'
  BY <1>2, <1>3 DEF TriggerNeverRejects
<1> QED BY <1>1, <1>4, <1>5, <1>6, <1>7, <1>8, TablesKeep DEF Readings

\* The actor's rows: his membership is locked and compared before anything
\* else is read.
LEMMA LockActorInv ==
  ASSUME IInv, TypeOK', NEW r \in Request, LockUser(r) \/ LockActor(r)
  PROVE  IInv'
<1>1. CASE Refuse(r, "stale")
  BY <1>1, RefuseInv DEF Ended
<1>2. CASE LockUser(r) /\ Proceed(r, "actor") /\ userVersion[call[r].actor] = call[r].userVersion
  <2>1. pc[r] = "user" /\ pc' = [pc EXCEPT ![r] = "actor"]
        /\ UNCHANGED <<tables, call, todo, counted>>
    BY <1>2 DEF LockUser, Proceed, Goto
  <2>2. pc'[r] = "actor" /\ \A q \in Request : q # r => pc'[q] = pc[q]
    BY <2>1 DEF IInv, TypeOK
  <2>3. todo[r] = {} /\ counted[r] = {}
    BY <2>1 DEF IInv, TypeOK
  <2>4. Reading(r)'
    BY <1>2, <2>1, <2>2, <2>3
    DEF Reading, ReadOwners, ReadUser, ReadActor, ReadTarget, Sharing, tables
  <2>5. \A m \in Member : ~Updating(r, m)' /\ ~Sharing(r, m)'
    BY <2>2 DEF Updating, Sharing
  <2> QED BY <2>1, <2>2, <2>3, <2>4, <2>5, StatementInv DEF Open
<1>3. CASE /\ LockActor(r)
           /\ Proceed(r, "find") \/ Proceed(r, "target")
           /\ status[call[r].actor] = "active"
           /\ version[call[r].actor] = call[r].version
           /\ role[call[r].actor] = call[r].role
  <2>1. pc[r] = "actor" /\ WaitsFor(r) = {} /\ UNCHANGED <<tables, call, todo, counted>>
    BY <1>3 DEF LockActor, Proceed
  <2>2. pc'[r] \in {"find", "target"} /\ \A q \in Request : q # r => pc'[q] = pc[q]
    BY <1>3 DEF Proceed, Goto, IInv, TypeOK
  <2>3. todo[r] = {} /\ counted[r] = {}
    BY <2>1 DEF IInv, TypeOK
  <2>4. ReadUser(r)'
    BY <2>1, <2>2 DEF IInv, Readings, Reading, ReadUser, SharingUser, tables
  <2>5. Reading(r)'
    BY <1>3, <2>1, <2>2, <2>3, <2>4
    DEF Reading, ReadOwners, ReadActor, ReadTarget, tables
  <2>6. \A q \in Request : q # r => ~Updating(q, call[r].actor)
    BY <2>1 DEF WaitsFor
  <2>7. \A m \in Member : ~Updating(r, m)' /\ (Sharing(r, m)' => m = call[r].actor)
    BY <2>1, <2>2 DEF Updating, Sharing
  <2> QED BY <2>1, <2>2, <2>3, <2>5, <2>6, <2>7, StatementInv DEF Open
<1> QED BY <1>1, <1>2, <1>3 DEF LockUser, LockActor

\* The owners' assignments: r counts only rows that nobody else has counted.
LEMMA LockOwnersInv ==
  ASSUME IInv, TypeOK', NEW r \in Request, FindOwners(r) \/ LockOwner(r) \/ OwnersLocked(r)
  PROVE  IInv'
<1>1. UNCHANGED <<tables, call>> /\ pc[r] \in {"find", "rows"}
  BY DEF FindOwners, LockOwner, OwnersLocked, Proceed
<1>2. pc'[r] \in {"rows", "target"} /\ \A q \in Request :
        q # r => pc'[q] = pc[q] /\ todo'[q] = todo[q] /\ counted'[q] = counted[q]
  BY DEF FindOwners, LockOwner, OwnersLocked, Proceed, Goto, IInv, TypeOK
<1>3. todo'[r] \cup counted'[r] \subseteq ActiveOwners
  <2>1. todo[r] \cup counted[r] \subseteq ActiveOwners
    BY DEF IInv, Readings, Reading, ReadOwners
  <2> QED BY <2>1 DEF FindOwners, LockOwner, OwnersLocked, Proceed, IInv, TypeOK
<1>4. Reading(r)'
  <2>1. ReadOwners(r)' BY <1>1, <1>3, TablesKeep DEF ReadOwners
  <2>2. ReadUser(r)'
    BY <1>1, <1>2 DEF IInv, Readings, Reading, ReadUser, SharingUser, tables
  <2>3. ReadActor(r)'
    BY <1>1, <1>2 DEF IInv, Readings, Reading, ReadActor, Sharing, tables
  <2>4. ReadTarget(r)' BY <1>2 DEF ReadTarget
  <2> QED BY <2>1, <2>2, <2>3, <2>4 DEF Reading
<1>5. \A m \in Member : ~Updating(r, m)' /\ (Sharing(r, m)' <=> Sharing(r, m))
  BY <1>1, <1>2 DEF Updating, Sharing
<1>6. \A q \in Request : q # r => counted[q] \cap counted'[r] = {}
  <2>1. \A q \in Request : q # r => counted[q] \cap counted[r] = {}
    BY DEF IInv, Exclusive
  <2>2. CASE counted' = counted BY <2>1, <2>2
  <2>3. CASE LockOwner(r)
    <3> PICK m \in todo[r] : /\ \A n \in todo[r] : m <= n
                             /\ counted' = [counted EXCEPT ![r] = @ \cup {m}]
      BY <2>3 DEF LockOwner
    <3>1. \A q \in Request : q # r => m \notin counted[q]
      BY <2>3 DEF LockOwner, WaitsFor
    <3> QED BY <2>1, <3>1 DEF IInv, TypeOK
  <2> QED BY <2>2, <2>3 DEF FindOwners, OwnersLocked, Proceed
<1>7. \A q \in Request : q # r => \A m \in Member : Updating(q, m) => ~Sharing(r, m)
  BY DEF IInv, Exclusive
<1> QED BY <1>1, <1>2, <1>4, <1>5, <1>6, <1>7, StatementInv DEF Open

\* The target: a demotion goes on with two counted owners at least.
LEMMA LockTargetInv ==
  ASSUME IInv, TypeOK', NEW r \in Request, LockTarget(r)
  PROVE  IInv'
<1>1. CASE Verdict(r) # "commit"
  BY <1>1, VerdictType, RefuseInv DEF LockTarget, Ended
<1>2. CASE Verdict(r) = "commit"
  <2>1. /\ pc[r] = "target" /\ WaitsFor(r) = {}
        /\ UNCHANGED <<tables, call, todo, counted>>
        /\ pc' = [pc EXCEPT ![r] = "commit"]
    BY <1>2 DEF LockTarget, Proceed, Goto
  <2>2. pc'[r] = "commit" /\ \A q \in Request : q # r => pc'[q] = pc[q]
    BY <2>1 DEF IInv, TypeOK
  <2>3. ReadOwners(r)'
    BY <2>1, TablesKeep DEF IInv, Readings, Reading, ReadOwners
  <2>4. ReadUser(r)'
    BY <2>1, <2>2 DEF IInv, Readings, Reading, ReadUser, SharingUser, tables
  <2>5. ReadActor(r)'
    BY <2>1, <2>2 DEF IInv, Readings, Reading, ReadActor, Sharing, tables
  <2>6. Fits(call[r]) /\ (call[r].kind = "demote" => call[r].target \in counted[r]
                            /\ ~(Cardinality(counted[r]) <= 1))
    BY <1>2 DEF Verdict, Fits
  <2>7. counted[r] # {call[r].target} \/ Cardinality(counted[r]) <= 1
    <3>1. Cardinality({call[r].target}) = 1 BY FS_Singleton
    <3> QED BY <3>1
  <2>8. ReadTarget(r)'
    BY <2>1, <2>6, <2>7 DEF ReadTarget, Fits, tables
  <2>9. \A q \in Request : q # r => ~Updating(q, call[r].target) /\ ~Sharing(q, call[r].target)
    BY <2>1 DEF WaitsFor
  <2>10. \A m \in Member : /\ Updating(r, m)' => m = call[r].target
                           /\ Sharing(r, m)' <=> Sharing(r, m)
    BY <2>1, <2>2 DEF Updating, Sharing
  <2>11. \A q \in Request : q # r =>
           /\ counted[q] \cap counted'[r] = {}
           /\ \A m \in Member : Updating(q, m) => ~Sharing(r, m)
    BY <2>1 DEF IInv, Exclusive
  <2> QED BY <2>1, <2>2, <2>3, <2>4, <2>5, <2>8, <2>9, <2>10, <2>11, StatementInv
          DEF Open, Reading
<1> QED BY <1>1, <1>2
-----------------------------------------------------------------------------
(* The writes.                                                             *)

\* Why the trigger never rejects: the owner that remains is another one, the
\* promoted one, or one of the others the demotion has locked and counted.
LEMMA OwnerRemains ==
  ASSUME IInv, NEW r \in Request, pc[r] = "commit"
  PROVE  OwnerWouldRemain(call[r])
<1> DEFINE c == call[r]
           t == call[r].target
<1>1. t \in Member /\ c.kind \in Kinds
  BY DEF IInv, TypeOK, Call
<1>2. Fits(c) /\ (c.kind = "demote" => t \in counted[r] /\ counted[r] # {t})
  BY DEF IInv, Readings, Reading, ReadTarget
<1>3. \A m \in Member : m # t => StatusAfter(c)[m] = status[m] /\ RoleAfter(c)[m] = role[m]
  BY DEF StatusAfter, RoleAfter, IInv, TypeOK
<1> SUFFICES ASSUME TenantAfter(c) = "active"
             PROVE  \E m \in Member : RoleAfter(c)[m] = "owner" /\ StatusAfter(c)[m] = "active"
  BY DEF OwnerWouldRemain
<1>4. CASE c.kind = "accept" /\ tenant = "provisioning"
  <2>1. RoleAfter(c)[t] = "owner" /\ StatusAfter(c)[t] = "active"
    BY <1>1, <1>4 DEF RoleAfter, StatusAfter, IInv, TypeOK
  <2> QED BY <1>1, <2>1
<1>5. CASE c.kind = "promote"
  <2>1. RoleAfter(c)[t] = "owner" /\ StatusAfter(c)[t] = "active"
    BY <1>1, <1>2, <1>5 DEF RoleAfter, StatusAfter, Fits, IInv, TypeOK
  <2> QED BY <1>1, <2>1
<1>6. CASE c.kind = "demote"
  <2> PICK m \in counted[r] : m # t
    BY <1>2, <1>6
  <2>1. m \in ActiveOwners
    BY DEF IInv, Readings, Reading, ReadOwners
  <2> QED BY <1>3, <2>1 DEF ActiveOwners
<1>7. CASE (c.kind = "accept" /\ tenant = "active") \/ c.kind \in {"suspend", "revoke"}
  <2>1. tenant = "active"
    BY <1>7 DEF TenantAfter
  <2> PICK m \in ActiveOwners : TRUE
    BY <2>1 DEF IInv, Owned
  <2>2. m # t
    BY <1>2, <1>7 DEF Fits, Grantable, ActiveOwners
  <2> QED BY <1>3, <2>2 DEF ActiveOwners
<1> QED BY <1>1, <1>4, <1>5, <1>6, <1>7 DEF Kinds, IInv, TypeOK

\* How the tenant's owners change.
LEMMA OwnersChange ==
  ASSUME IInv, NEW r \in Request, Written(r)
  PROVE  /\ ActiveOwners \ ActiveOwners' \subseteq
              IF call[r].kind = "demote" THEN {call[r].target} ELSE {}
         /\ ActiveOwners' \ ActiveOwners \subseteq
              IF call[r].kind = "promote" \/ tenant = "provisioning" THEN {call[r].target} ELSE {}
<1> DEFINE c == call[r]
           t == call[r].target
<1>1. t \in Member /\ c.kind \in Kinds
  BY DEF IInv, TypeOK, Call
<1>2. Fits(c)
  BY DEF IInv, Readings, Reading, ReadTarget, Written
<1>3. \A m \in Member : m # t => status'[m] = status[m] /\ role'[m] = role[m]
  BY DEF Written, StatusAfter, RoleAfter, IInv, TypeOK
<1>4. t \in ActiveOwners' => role'[t] = "owner"
  BY DEF ActiveOwners
<1>5. t \in ActiveOwners' /\ t \notin ActiveOwners => c.kind = "promote" \/ tenant = "provisioning"
  <2> SUFFICES ASSUME t \in ActiveOwners', t \notin ActiveOwners,
                      c.kind # "promote", tenant # "provisioning"
               PROVE  FALSE
    OBVIOUS
  <2>1. role'[t] = "owner" /\ status'[t] = "active" BY DEF ActiveOwners
  <2>2. c.kind \in {"suspend", "revoke"}
    BY <1>1, <2>1 DEF Kinds, Written, RoleAfter, IInv, TypeOK
  <2>3. status'[t] # "active"
    BY <1>1, <2>2 DEF Written, StatusAfter, IInv, TypeOK
  <2> QED BY <2>1, <2>3
<1>6. t \in ActiveOwners /\ t \notin ActiveOwners' => c.kind = "demote"
  <2> SUFFICES ASSUME t \in ActiveOwners, c.kind # "demote" PROVE t \in ActiveOwners'
    OBVIOUS
  <2>1. c.kind = "promote"
    BY <1>1, <1>2 DEF Kinds, Fits, Grantable, ActiveOwners
  <2>2. role'[t] = "owner" /\ status'[t] = status[t]
    BY <1>1, <2>1 DEF Written, RoleAfter, StatusAfter, IInv, TypeOK
  <2> QED BY <2>2 DEF ActiveOwners
<1> QED BY <1>3, <1>5, <1>6 DEF ActiveOwners

\* A commit leaves the other transactions what they have read under their
\* locks, for its target is locked by nobody else.
LEMMA WrittenInv ==
  ASSUME IInv, TypeOK', NEW r \in Request, Written(r)
  PROVE  IInv'
<1> DEFINE c == call[r]
           t == call[r].target
<1>1. t \in Member /\ c.kind \in Kinds
  BY DEF IInv, TypeOK, Call
<1>2. Fits(c) /\ (c.kind = "demote" => t \in counted[r])
  BY DEF IInv, Readings, Reading, ReadTarget, Written
<1>3. \A m \in Member : m # t =>
        status'[m] = status[m] /\ role'[m] = role[m] /\ version'[m] = version[m]
  BY DEF Written, StatusAfter, RoleAfter, VersionAfter, IInv, TypeOK
<1>4. version'[t] = version[t] + 1 /\ version[t] \in Nat /\ userVersion' = userVersion
  BY <1>1 DEF Written, VersionAfter, IInv, TypeOK
<1>5. pc'[r] = "ok" /\ todo'[r] = {} /\ counted'[r] = {}
  BY DEF Written, Goto, IInv, TypeOK
<1>6. \A q \in Request : q # r =>
        /\ pc'[q] = pc[q] /\ call'[q] = call[q] /\ counted'[q] = counted[q]
        /\ todo'[q] \subseteq todo[q]
        /\ c.kind = "demote" => t \notin todo'[q]
  BY DEF Written, Goto, IInv, TypeOK
<1>7. Updating(r, t)
  BY DEF Written, Updating
<1>8. \A q \in Request : q # r => ~Updating(q, t) /\ ~Sharing(q, t)
  BY <1>1, <1>7 DEF IInv, Exclusive
<1>9. RolesFitStatus'
  <2>1. role'[t] = "none" <=> status'[t] \in {"absent", "invited"}
    BY <1>1, <1>2 DEF Written, Fits, StatusAfter, RoleAfter, Grantable, Kinds, IInv, TypeOK,
       RolesFitStatus
  <2>2. role'[t] = "owner" => status'[t] = "active"
    BY <1>1, <1>2 DEF Written, Fits, StatusAfter, RoleAfter, Grantable, Kinds, IInv, TypeOK,
       RolesFitStatus
  <2> QED BY <1>3, <2>1, <2>2 DEF IInv, RolesFitStatus
<1>10. Owned'
  <2>1. CASE tenant' = "active"
    <3>1. \E m \in Member : role'[m] = "owner" /\ status'[m] = "active"
      BY <2>1 DEF Written, OwnerWouldRemain
    <3> QED BY <2>1, <3>1 DEF Owned, ActiveOwners
  <2>2. CASE tenant' # "active"
    <3>1. tenant # "active" /\ c.kind # "accept"
      BY <2>2 DEF Written, TenantAfter
    <3>2. role[t] = "none"
      BY <1>1, <3>1 DEF IInv, Owned
    <3>3. FALSE
      BY <1>2, <3>1, <3>2 DEF Fits, Grantable
    <3> QED BY <3>3
  <2> QED BY <2>1, <2>2
<1>11. Exclusive'
  BY <1>5, <1>6 DEF IInv, Exclusive, Updating, Sharing
<1>12. Reading(r)'
  BY <1>5 DEF Reading, ReadOwners, ReadUser, ReadActor, ReadTarget, SharingUser, Sharing
<1>13. ASSUME NEW q \in Request, q # r PROVE Reading(q)'
  <2>1. Reading(q) BY DEF IInv, Readings
  <2>2. ReadOwners(q)'
    <3>1. todo'[q] \cup counted'[q] \subseteq ActiveOwners
      BY <1>6, <1>13, <2>1 DEF Reading, ReadOwners
    <3>2. c.kind = "demote" => t \notin todo'[q] \cup counted'[q]
      BY <1>2, <1>6, <1>13 DEF IInv, Exclusive
    <3> QED BY <3>1, <3>2, OwnersChange DEF ReadOwners
  <2>3. ReadUser(q)'
    BY <1>4, <1>6, <1>13, <2>1 DEF Reading, ReadUser, SharingUser
  <2>4. call[q].actor \in Member /\ call[q].target \in Member
    BY DEF IInv, TypeOK, Call
  <2>5. ReadActor(q)'
    <3>1. Sharing(q, call[q].actor) => call[q].actor # t
      BY <1>8, <1>13
    <3> QED BY <1>3, <1>6, <1>13, <2>1, <2>4, <3>1 DEF Reading, ReadActor, Sharing
  <2>6. ReadTarget(q)'
    <3>1. pc[q] = "commit" => call[q].target # t
      BY <1>8, <1>13 DEF Updating
    <3>2. call[q].target # t => status'[call[q].target] = status[call[q].target]
                                /\ role'[call[q].target] = role[call[q].target]
      BY <1>3, <2>4
    <3> QED BY <1>6, <1>13, <2>1, <3>1, <3>2 DEF Reading, ReadTarget, Fits
  <2> QED BY <2>2, <2>3, <2>5, <2>6 DEF Reading
<1>14. VersionTellsAuthority'
  <2> SUFFICES ASSUME NEW q \in Request, q # r, pc[q] \in Open, call[q].kind # "accept"
               PROVE  LET d == call[q] IN
                      /\ d.version <= version'[d.actor]
                      /\ d.version = version'[d.actor] =>
                           status'[d.actor] = "active" /\ role'[d.actor] = d.role
    BY <1>5, <1>6 DEF VersionTellsAuthority, Open
  <2>1. call[q].actor \in Member /\ call[q].version \in Nat
    BY DEF IInv, TypeOK, Call
  <2>2. LET d == call[q] IN
        /\ d.version <= version[d.actor]
        /\ d.version = version[d.actor] => status[d.actor] = "active" /\ role[d.actor] = d.role
    BY DEF IInv, VersionTellsAuthority
  <2>3. CASE call[q].actor = t BY <1>4, <2>1, <2>2, <2>3
  <2>4. CASE call[q].actor # t BY <1>3, <2>1, <2>2, <2>4
  <2> QED BY <2>3, <2>4
<1>15. TriggerNeverRejects'
  BY <1>5, <1>6 DEF IInv, TriggerNeverRejects
<1>16. Readings' BY <1>12, <1>13 DEF Readings
<1> QED BY <1>9, <1>10, <1>11, <1>14, <1>15, <1>16 DEF IInv

\* What happens around the transactions: only rows that nobody has locked
\* change.
LEMMA AroundInv ==
  ASSUME IInv, TypeOK', NEW m \in Member,
         CreateInvited(m) \/ ChangeCustomRoles(m) \/ ResetPassword(m)
  PROVE  IInv'
<1>1. UNCHANGED <<tenant, role, requests>>
  BY DEF CreateInvited, ChangeCustomRoles, ResetPassword
<1>2. \A n \in Member : n # m => status'[n] = status[n] /\ version'[n] = version[n]
                                 /\ userVersion'[n] = userVersion[n]
  BY DEF CreateInvited, ChangeCustomRoles, ResetPassword, IInv, TypeOK
<1>3. \/ status[m] = "absent" /\ status'[m] = "invited"
      \/ status' = status
  BY DEF CreateInvited, ChangeCustomRoles, ResetPassword, IInv, TypeOK
<1>4. \/ version' = version
      \/ /\ version'[m] = version[m] + 1 /\ version[m] \in Nat
         /\ \A q \in Request : ~Sharing(q, m)
  BY DEF CreateInvited, ChangeCustomRoles, ResetPassword, IInv, TypeOK
<1>5. \/ userVersion' = userVersion
      \/ \A q \in Request : ~SharingUser(q, m)
  BY DEF CreateInvited, ChangeCustomRoles, ResetPassword
<1>6. RolesFitStatus'
  BY <1>1, <1>2, <1>3 DEF IInv, RolesFitStatus
<1>7. ActiveOwners' = ActiveOwners
  BY <1>1, <1>2, <1>3 DEF IInv, RolesFitStatus, ActiveOwners
<1>8. Owned'
  BY <1>1, <1>7 DEF IInv, Owned
<1>9. Exclusive' /\ TriggerNeverRejects'
  BY <1>1 DEF requests, IInv, Exclusive, Updating, Sharing, TriggerNeverRejects
<1>10. ASSUME NEW q \in Request PROVE Reading(q)'
  <2>1. Reading(q) BY DEF IInv, Readings
  <2>2. call[q].actor \in Member /\ call[q].target \in Member
    BY DEF IInv, TypeOK, Call
  <2>3. ReadOwners(q)' BY <1>1, <1>7, <2>1 DEF requests, Reading, ReadOwners
  <2>4. ReadUser(q)'
    BY <1>1, <1>2, <1>5, <2>1, <2>2 DEF requests, Reading, ReadUser, SharingUser
  <2>5. ReadActor(q)'
    BY <1>1, <1>2, <1>3, <1>4, <2>1, <2>2 DEF requests, Reading, ReadActor, Sharing
  <2>6. ReadTarget(q)'
    <3>1. pc[q] = "commit" => status[call[q].target] # "absent"
      BY <2>1 DEF Reading, ReadTarget, Fits
    <3>2. pc[q] = "commit" => status'[call[q].target] = status[call[q].target]
      BY <1>2, <1>3, <2>2, <3>1
    <3> QED BY <1>1, <2>1, <3>2 DEF requests, Reading, ReadTarget, Fits
  <2> QED BY <2>3, <2>4, <2>5, <2>6 DEF Reading
<1>11. VersionTellsAuthority'
  <2> SUFFICES ASSUME NEW q \in Request, pc[q] \in Open, call[q].kind # "accept"
               PROVE  LET d == call[q] IN
                      /\ d.version <= version'[d.actor]
                      /\ d.version = version'[d.actor] =>
                           status'[d.actor] = "active" /\ role'[d.actor] = d.role
    BY <1>1 DEF VersionTellsAuthority, requests
  <2>1. call[q].actor \in Member /\ call[q].version \in Nat
    BY DEF IInv, TypeOK, Call
  <2>2. LET d == call[q] IN
        /\ d.version <= version[d.actor]
        /\ d.version = version[d.actor] => status[d.actor] = "active" /\ role[d.actor] = d.role
    BY DEF IInv, VersionTellsAuthority
  <2>3. version[call[q].actor] \in Nat BY <2>1 DEF IInv, TypeOK
  <2> QED BY <1>1, <1>2, <1>3, <1>4, <2>1, <2>2, <2>3
<1>12. Readings' BY <1>10 DEF Readings
<1> QED BY <1>6, <1>8, <1>9, <1>11, <1>12 DEF IInv
-----------------------------------------------------------------------------
(* The invariant, and what follows from it.                                *)

LEMMA NextInv == IInv /\ [Next]_vars => IInv'
<1> SUFFICES ASSUME IInv, [Next]_vars PROVE IInv'
  OBVIOUS
<1>1. TypeOK' BY NextType DEF IInv
<1>2. ASSUME NEW r \in Request, Ask(r) \/ AskToJoin(r) PROVE IInv'
  BY <1>1, <1>2, AskInv
<1>3. ASSUME NEW r \in Request, LockUser(r) \/ LockActor(r) PROVE IInv'
  BY <1>1, <1>3, LockActorInv
<1>4. ASSUME NEW r \in Request, FindOwners(r) \/ LockOwner(r) \/ OwnersLocked(r) PROVE IInv'
  BY <1>1, <1>4, LockOwnersInv
<1>5. ASSUME NEW r \in Request, LockTarget(r) PROVE IInv'
  BY <1>1, <1>5, LockTargetInv
<1>6. ASSUME NEW r \in Request, Commit(r) PROVE IInv'
  <2>1. CASE Refuse(r, "refused") BY <2>1, RefuseInv DEF Ended
  <2>2. OwnerWouldRemain(call[r]) BY <1>6, OwnerRemains DEF Commit
  <2>3. CASE Written(r) BY <1>1, <2>3, WrittenInv
  <2> QED BY <1>6, <2>1, <2>2, <2>3, CommitOutcome DEF Commit, Written
<1>7. ASSUME NEW r \in Request, Abort(r) \/ DeadlockVictim(r) PROVE IInv'
  BY <1>7, RefuseInv DEF Abort, DeadlockVictim, Ended
<1>8. ASSUME NEW m \in Member, CreateInvited(m) \/ ChangeCustomRoles(m) \/ ResetPassword(m)
      PROVE  IInv'
  BY <1>1, <1>8, AroundInv
<1>9. CASE UNCHANGED vars
  <2>1. UNCHANGED tables /\ UNCHANGED requests BY <1>9 DEF vars
  <2>2. Exclusive' /\ TriggerNeverRejects'
    BY <2>1 DEF requests, IInv, Exclusive, Updating, Sharing, TriggerNeverRejects
  <2>3. Readings' BY <2>1, ReadingKeeps DEF requests, Readings
  <2>4. VersionTellsAuthority'
    BY <2>1 DEF requests, tables, IInv, VersionTellsAuthority
  <2> QED BY <1>1, <2>1, <2>2, <2>3, <2>4, TablesKeep DEF IInv
<1> QED BY <1>2, <1>3, <1>4, <1>5, <1>6, <1>7, <1>8, <1>9 DEF Next, Step

THEOREM Inductive == Spec => []IInv
  BY InitInv, NextInv, PTL DEF Spec

\* The owners the use case counts are owners still when it writes: the
\* trigger behind the application's own check never rejects a transaction.
THEOREM TriggerNeverRejectsProved == Spec => []TriggerNeverRejects
<1>1. IInv => TriggerNeverRejects BY DEF IInv
<1> QED BY <1>1, Inductive, PTL

\* An active tenant always has an active owner.
THEOREM AlwaysOwned == Spec => [](tenant = "active" => ActiveOwners # {})
<1>1. IInv => (tenant = "active" => ActiveOwners # {}) BY DEF IInv, Owned
<1> QED BY <1>1, Inductive, PTL

\* Roles and membership statuses agree: an owner's membership is active.
THEOREM RolesFitStatusProved == Spec => []RolesFitStatus
<1>1. IInv => RolesFitStatus BY DEF IInv
<1> QED BY <1>1, Inductive, PTL

\* A membership's version tells its authority apart.
THEOREM VersionTellsAuthorityProved == Spec => []VersionTellsAuthority
<1>1. IInv => VersionTellsAuthority BY DEF IInv
<1> QED BY <1>1, Inductive, PTL
-----------------------------------------------------------------------------
(* What a step may do.                                                     *)

\* The membership rows change by a commit or by what happens around.
LEMMA StepKinds ==
  ASSUME IInv, [Next]_vars
  PROVE  \/ UNCHANGED <<tenant, status, role>> /\ \A r \in Request : pc[r] = "commit" => pc'[r] # "ok"
         \/ \E r \in Request : Written(r)
         \/ \E m \in Member : CreateInvited(m)
<1> DEFINE Nothing == UNCHANGED <<tenant, status, role>>
                        /\ \A r \in Request : pc[r] = "commit" => pc'[r] # "ok"
<1>1. ASSUME NEW r \in Request, NEW how \in Ended \ {"ok"}, Refuse(r, how) PROVE Nothing
  BY <1>1 DEF Refuse, Finish, Goto, tables, IInv, TypeOK
<1>2. ASSUME NEW r \in Request, Ask(r) \/ AskToJoin(r) PROVE Nothing
  BY <1>2 DEF Ask, AskToJoin, Goto, tables, IInv, TypeOK
<1>3. ASSUME NEW r \in Request,
             FindOwners(r) \/ LockOwner(r) \/ OwnersLocked(r)
               \/ Proceed(r, "actor") \/ Proceed(r, "find") \/ Proceed(r, "target") \/ Proceed(r, "commit")
      PROVE  Nothing
  BY <1>3 DEF FindOwners, LockOwner, OwnersLocked, Proceed, Goto, tables, IInv, TypeOK
<1>4. ASSUME NEW r \in Request, LockUser(r) \/ LockActor(r) \/ LockTarget(r) PROVE Nothing
  BY <1>1, <1>3, <1>4, VerdictType DEF LockUser, LockActor, LockTarget, Ended
<1>5. ASSUME NEW r \in Request, Abort(r) \/ DeadlockVictim(r) PROVE Nothing
  BY <1>1, <1>5 DEF Abort, DeadlockVictim, Ended
<1>6. ASSUME NEW r \in Request, Commit(r) PROVE Nothing \/ Written(r)
  BY <1>1, <1>6, CommitOutcome DEF Ended
<1>7. ASSUME NEW m \in Member, ChangeCustomRoles(m) \/ ResetPassword(m) PROVE Nothing
  BY <1>7 DEF ChangeCustomRoles, ResetPassword, requests
<1>8. CASE UNCHANGED vars
  BY <1>8 DEF vars, tables, requests
<1> QED BY <1>2, <1>3, <1>4, <1>5, <1>6, <1>7, <1>8 DEF Next, Step

\* Nobody's authority lapses between the moment it is checked and the moment
\* the change takes effect.
THEOREM AuthorityHoldsProved == Spec => AuthorityHolds
<1> DEFINE Holds(r) ==
      LET c == call[r] IN
      pc[r] = "commit" /\ pc'[r] = "ok" /\ c.kind # "accept" =>
        /\ status[c.actor] = "active" /\ role[c.actor] = c.role
        /\ version[c.actor] = c.version /\ userVersion[c.actor] = c.userVersion
        /\ Grantable(c.kind, role[c.actor], role[c.target])
<1>1. ASSUME IInv, [Next]_vars, NEW r \in Request PROVE Holds(r)
  <2> SUFFICES ASSUME pc[r] = "commit", pc'[r] = "ok", call[r].kind # "accept"
               PROVE  LET c == call[r] IN
                      /\ status[c.actor] = "active" /\ role[c.actor] = c.role
                      /\ version[c.actor] = c.version /\ userVersion[c.actor] = c.userVersion
                      /\ Grantable(c.kind, role[c.actor], role[c.target])
    OBVIOUS
  <2>1. Sharing(r, call[r].actor) /\ SharingUser(r, call[r].actor)
    BY DEF Sharing, SharingUser
  <2>2. ReadUser(r) /\ ReadActor(r) /\ Fits(call[r])
    BY <1>1 DEF IInv, Readings, Reading, ReadTarget
  <2> QED BY <2>1, <2>2 DEF ReadUser, ReadActor, Fits
<1>2. IInv /\ [Next]_vars => [\A r \in Request : Holds(r)]_vars
  BY <1>1
<1>3. Spec => [][\A r \in Request : Holds(r)]_vars
  <2> HIDE DEF Holds
  <2> QED BY <1>2, Inductive, PTL DEF Spec
<1> QED BY <1>3 DEF AuthorityHolds

\* A membership only goes forward.
THEOREM StatusAdvancesProved == Spec => StatusAdvances
<1> DEFINE Advances == \A m \in Member : Stage(status[m]) <= Stage(status'[m])
<1>1. \A s \in Statuses : Stage(s) \in Nat
  BY DEF Statuses, Stage
<1>2. ASSUME IInv, [Next]_vars PROVE [Advances]_status
  <2>1. \A m \in Member : Stage(status[m]) <= Stage(status[m])
    BY <1>1, <1>2 DEF IInv, TypeOK
  <2>2. CASE \E r \in Request : Written(r)
    <3> PICK r \in Request : Written(r) BY <2>2
    <3> DEFINE c == call[r]
               t == call[r].target
    <3>1. t \in Member /\ c.kind \in Kinds /\ Fits(c)
      BY <1>2 DEF IInv, TypeOK, Call, Readings, Reading, ReadTarget, Written
    <3>2. \A m \in Member : m # t => status'[m] = status[m]
      BY <1>2 DEF Written, StatusAfter, IInv, TypeOK
    <3>3. Stage(status[t]) <= Stage(status'[t])
      <4>1. CASE c.kind \in {"promote", "demote"}
        BY <1>2, <2>1, <3>1, <4>1 DEF Written, StatusAfter, IInv, TypeOK
      <4>2. CASE c.kind = "accept"
        BY <1>2, <3>1, <4>2 DEF Written, StatusAfter, IInv, TypeOK, Fits, Stage
      <4>3. CASE c.kind = "suspend"
        BY <1>2, <3>1, <4>3 DEF Written, StatusAfter, IInv, TypeOK, Fits, Stage
      <4>4. CASE c.kind = "revoke"
        BY <1>2, <3>1, <4>4 DEF Written, StatusAfter, IInv, TypeOK, Fits, Stage
      <4> QED BY <3>1, <4>1, <4>2, <4>3, <4>4 DEF Kinds
    <3> QED BY <2>1, <3>2, <3>3
  <2>3. CASE \E m \in Member : CreateInvited(m)
    <3> PICK m \in Member : CreateInvited(m) BY <2>3
    <3>1. Stage(status[m]) <= Stage(status'[m])
      BY <1>2 DEF CreateInvited, IInv, TypeOK, Stage
    <3>2. \A n \in Member : n # m => status'[n] = status[n]
      BY <1>2 DEF CreateInvited, IInv, TypeOK
    <3> QED BY <2>1, <3>1, <3>2
  <2> QED BY <1>2, <2>2, <2>3, StepKinds
<1>3. Spec => [][Advances]_status
  <2>1. IInv /\ [Next]_vars => [Advances]_status BY <1>2
  <2> HIDE DEF Advances
  <2> QED BY <2>1, Inductive, PTL DEF Spec
<1> QED BY <1>3 DEF StatusAdvances

\* TenantOwnership implements Ownership: the first owner arrives with the
\* activation, owners change one at a time, the last one never goes.
THEOREM Refinement == Spec => KeepsPromise
<1>1. Init => Promised!Init
  BY InitType DEF Init, Promised!Init, ActiveOwners
<1>2. ASSUME IInv, [Next]_vars PROVE [Promised!Next]_<<tenant = "active", ActiveOwners>>
  <2>1. CASE UNCHANGED <<tenant, status, role>>
    BY <2>1 DEF ActiveOwners
  <2>2. CASE \E m \in Member : CreateInvited(m)
    BY <1>2, <2>2 DEF CreateInvited, ActiveOwners, IInv, TypeOK, RolesFitStatus
  <2>3. CASE \E r \in Request : Written(r)
    <3> PICK r \in Request : Written(r) BY <2>3
    <3> DEFINE c == call[r]
               t == call[r].target
    <3>1. t \in Member /\ c.kind \in Kinds /\ Fits(c)
      BY <1>2 DEF IInv, TypeOK, Call, Readings, Reading, ReadTarget, Written
    <3>2. tenant' = "active" => ActiveOwners' # {}
      BY DEF Written, OwnerWouldRemain, ActiveOwners
    <3>3. CASE tenant = "provisioning"
      <4>1. c.kind = "accept"
        BY <1>2, <3>1, <3>3 DEF IInv, Owned, Fits, Grantable
      <4>2. tenant' = "active"
        BY <4>1 DEF Written, TenantAfter
      <4>3. ActiveOwners = {}
        BY <1>2, <3>3 DEF IInv, Owned, ActiveOwners
      <4>4. ActiveOwners' = {t}
        BY <1>2, <3>2, <4>2, <4>3, OwnersChange
      <4> QED BY <3>1, <3>3, <4>2, <4>4 DEF Promised!Next, Promised!Activate
    <3>4. CASE tenant = "active"
      <4>1. tenant' = "active"
        BY <3>4 DEF Written, TenantAfter
      <4>2. CASE c.kind = "promote"
        <5>1. ActiveOwners' \ {t} = ActiveOwners \ {t} /\ ActiveOwners \subseteq ActiveOwners'
          BY <1>2, <4>2, OwnersChange
        <5>2. CASE t \in ActiveOwners'
          <6>1. ActiveOwners' = ActiveOwners \cup {t} BY <5>1, <5>2
          <6> QED BY <3>1, <3>4, <4>1, <6>1 DEF Promised!Next, Promised!Gain
        <5>3. CASE t \notin ActiveOwners'
          <6>1. ActiveOwners' = ActiveOwners BY <5>1, <5>3
          <6> QED BY <3>4, <4>1, <6>1
        <5> QED BY <5>2, <5>3
      <4>3. CASE c.kind = "demote"
        <5>1. ActiveOwners' \subseteq ActiveOwners /\ ActiveOwners \ {t} \subseteq ActiveOwners'
          BY <1>2, <3>4, <4>3, OwnersChange
        <5>2. CASE t \in ActiveOwners'
          <6>1. ActiveOwners' = ActiveOwners BY <5>1, <5>2
          <6> QED BY <3>4, <4>1, <6>1
        <5>3. CASE t \notin ActiveOwners'
          <6>1. ActiveOwners' = ActiveOwners \ {t} BY <5>1, <5>3
          <6> QED BY <3>1, <3>2, <3>4, <4>1, <6>1 DEF Promised!Next, Promised!Lose
        <5> QED BY <5>2, <5>3
      <4>4. CASE c.kind \notin {"promote", "demote"}
        <5>1. ActiveOwners' = ActiveOwners BY <1>2, <3>4, <4>4, OwnersChange
        <5> QED BY <3>4, <4>1, <5>1
      <4> QED BY <4>2, <4>3, <4>4
    <3> QED BY <1>2, <3>3, <3>4 DEF IInv, TypeOK
  <2> QED BY <1>2, <2>1, <2>2, <2>3, StepKinds
<1> QED BY <1>1, <1>2, Inductive, PTL
        DEF Spec, KeepsPromise, Promised!Promise, Promised!ovars
=============================================================================
