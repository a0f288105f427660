--------------------------- MODULE ProgressProofs ---------------------------
(***************************************************************************)
(* Proofs about SessionRotation for every set of requests, every length of *)
(* the token chain and every number of version changes and crashes; then   *)
(* about Readiness and SharedClient, which MCProgress runs beside it.      *)
(***************************************************************************)
EXTENDS MCProgress, TLAPS

USE DEF family, locks, request, history, Goto, Finish, Release, LockToken, LockRow,
        Mint, Alive, Unrevoked, Current, FreeToken, FreeRow, Detect, Swept

\* Tokens already minted stay minted; a successor is a new one.
LEMMA Minting ==
  ASSUME parent \in Seq(Nat), NEW t \in Nat, parent' = Append(parent, t)
  PROVE  /\ parent' \in Seq(Nat)
         /\ Len(parent) + 1 \notin Minted
         /\ Minted' = Minted \cup {Len(parent) + 1}
         /\ parent'[Len(parent) + 1] = t
         /\ \A u \in Minted : parent'[u] = parent[u]
  BY DEF Minted

\* The labels as a fact, so that their definition stays closed.
LEMMA LabelsKnown ==
  {"validate", "find", "lockToken", "rotate", "markToken", "readFamily", "killRow",
   "revokeRow", "lockPending", "findTokens", "lockTokens", "build", "lockBoth",
   "lockRow", "refreshSnapshot", "done"} \subseteq Labels
  BY DEF Labels

\* The variables keep their types and a finished request holds no lock.
THEOREM TypeCorrect == Spec => []TypeOK
<1>1. Init => TypeOK
  <2> SUFFICES ASSUME Init PROVE TypeOK
    OBVIOUS
  <2>1. Minted = {1} /\ parent \in Seq(Nat)
    BY DEF Init, Minted
  <2>2. "read" \in Kinds /\ "new" \in Labels
    BY DEF Kinds, Labels
  <2> QED
    BY <2>1, <2>2, SessionAssumption DEF Init, TypeOK
<1>2. TypeOK /\ [Next]_vars => TypeOK'
  <2> SUFFICES ASSUME TypeOK, [Next]_vars PROVE TypeOK'
    OBVIOUS
  <2> USE SessionAssumption, LabelsKnown DEF TypeOK
  <2>a. Minted \subseteq Nat
    BY DEF Minted
  <2>b. ASSUME UNCHANGED parent PROVE Minted' = Minted
    BY <2>b DEF Minted
  <2>1. ASSUME NEW r \in Request, Arrive(r) PROVE TypeOK'
    BY <2>b, <2>1 DEF Arrive
  <2>2. ASSUME NEW r \in Request, Validate(r) PROVE TypeOK'
    <3>1. CASE ~Alive \/ token[r] \in revoked
      BY <2>b, <2>2, <3>1 DEF Validate
    <3>2. CASE ~(~Alive \/ token[r] \in revoked) /\ token[r] \in ended
      BY <2>b, <2>2, <3>2 DEF Validate
    <3>3. CASE ~(~Alive \/ token[r] \in revoked) /\ token[r] \notin ended
      <4>1. Handler(kind[r]) \in Labels
        BY DEF Handler
      <4> QED
        BY <2>b, <2>2, <3>3, <4>1 DEF Validate
    <3> QED
      BY <3>1, <3>2, <3>3
  <2>3. ASSUME NEW r \in Request, Find(r) PROVE TypeOK'
    <3>1. CASE state = "active" /\ token[r] \notin revoked /\ snapshot = version[r]
      BY <2>b, <2>3, <3>1 DEF Find
    <3>2. CASE ~(state = "active" /\ token[r] \notin revoked /\ snapshot = version[r])
      BY <2>b, <2>3, <3>2 DEF Find
    <3> QED
      BY <3>1, <3>2
  <2>4. ASSUME NEW r \in Request, Compare(r) PROVE TypeOK'
    <3>1. CASE token[r] \in revoked \cup reused
      BY <2>b, <2>4, <3>1 DEF Compare
    <3>2. CASE token[r] \notin revoked \cup reused /\ token[r] \notin replaced
      <4>1. /\ pc' = [pc EXCEPT ![r] = "rotate"]
            /\ held' = [held EXCEPT ![r] = @ \cup {token[r]}]
        BY <2>4, <3>2 DEF Compare
      <4> QED
        BY <2>b, <2>4, <4>1 DEF Compare
    <3>3. CASE token[r] \notin revoked \cup reused /\ token[r] \in replaced
      <4>1. /\ pc' \in {[pc EXCEPT ![r] = "markToken"], [pc EXCEPT ![r] = "done"]}
            /\ pc[r] = "lockToken" /\ held' = held
            /\ detected' \subseteq Request
        BY <2>4, <3>3 DEF Compare
      <4> QED
        BY <2>b, <2>4, <4>1 DEF Compare
    <3> QED
      BY <3>1, <3>2, <3>3
  <2>5. ASSUME NEW r \in Request, Rotate(r) PROVE TypeOK'
    BY <2>a, <2>b, <2>5, Minting DEF Rotate
  <2>6. ASSUME NEW r \in Request, MarkToken(r) PROVE TypeOK'
    BY <2>b, <2>6 DEF MarkToken
  <2>7. ASSUME NEW r \in Request, ReadFamily(r) PROVE TypeOK'
    <3>1. CASE state = "active" \/ (state = "pending" /\ kind[r] = "sweep")
      BY <2>b, <2>7, <3>1 DEF ReadFamily
    <3>2. CASE ~(state = "active" \/ (state = "pending" /\ kind[r] = "sweep"))
      BY <2>b, <2>7, <3>2 DEF ReadFamily
    <3> QED
      BY <3>1, <3>2
  <2>8. ASSUME NEW r \in Request, KillRow(r) PROVE TypeOK'
    BY <2>b, <2>8 DEF KillRow
  <2>9. ASSUME NEW r \in Request, RevokeRow(r) PROVE TypeOK'
    <3>1. CASE Alive
      BY <2>b, <2>9, <3>1 DEF RevokeRow
    <3>2. CASE ~(Alive)
      BY <2>b, <2>9, <3>2 DEF RevokeRow
    <3> QED
      BY <3>1, <3>2
  <2>10. ASSUME NEW r \in Request, LockPending(r) PROVE TypeOK'
    <3>1. CASE state = "pending"
      BY <2>b, <2>10, <3>1 DEF LockPending
    <3>2. CASE ~(state = "pending")
      BY <2>b, <2>10, <3>2 DEF LockPending
    <3> QED
      BY <3>1, <3>2
  <2>11. ASSUME NEW r \in Request, FindTokens(r) PROVE TypeOK'
    BY <2>b, <2>11 DEF FindTokens
  <2>12. ASSUME NEW r \in Request, LockNext(r) PROVE TypeOK'
    <3>0. /\ pc[r] = "lockTokens"
          /\ UNCHANGED <<family, current, ended, rowLock, kind, pc, token, past,
                         version, history>>
      BY <2>12 DEF LockNext
    <3>1. PICK t \in sweep[r] \ held[r] :
            IF t \in revoked
            THEN sweep' = [sweep EXCEPT ![r] = @ \ {t}] /\ UNCHANGED held
            ELSE LockToken(r, t) /\ UNCHANGED sweep
      BY <2>12 DEF LockNext
    <3>2. CASE t \in revoked
      <4>1. sweep' = [sweep EXCEPT ![r] = @ \ {t}] /\ held' = held
        BY <3>1, <3>2
      <4> QED
        BY <2>b, <3>0, <4>1
    <3>3. CASE t \notin revoked
      <4>1. t \in Minted /\ sweep' = sweep /\ held' = [held EXCEPT ![r] = @ \cup {t}]
        BY <3>1, <3>3
      <4> QED
        BY <2>b, <3>0, <4>1
    <3> QED
      BY <3>2, <3>3
  <2>13. ASSUME NEW r \in Request, Compromise(r) PROVE TypeOK'
    BY <2>a, <2>b, <2>13, Minting DEF Compromise
  <2>14. ASSUME NEW r \in Request, Revoke(r) PROVE TypeOK'
    BY <2>b, <2>14 DEF Revoke
  <2>15. ASSUME NEW r \in Request, Elevate(r) PROVE TypeOK'
    BY <2>a, <2>b, <2>15, Minting DEF Elevate
  <2>16. ASSUME NEW r \in Request, Build(r) PROVE TypeOK'
    <3>1. CASE pc' = [pc EXCEPT ![r] = "done"] /\ UNCHANGED version
      BY <2>b, <2>16, <3>1 DEF Build
    <3>2. CASE /\ pc' = [pc EXCEPT ![r] = "lockBoth"]
               /\ version' = [version EXCEPT ![r] = current]
      BY <2>b, <2>16, <3>2 DEF Build
    <3>3. CASE pc' = [pc EXCEPT ![r] = "revokeRow"] /\ UNCHANGED version
      BY <2>b, <2>16, <3>3 DEF Build
    <3> QED
      BY <2>16, <3>1, <3>2, <3>3 DEF Build
  <2>17. ASSUME NEW r \in Request, LockBoth(r) PROVE TypeOK'
    <3>1. CASE state = "active" /\ token[r] \notin revoked
      <4>1. /\ pc' = [pc EXCEPT ![r] = "lockRow"]
            /\ held' = [held EXCEPT ![r] = @ \cup {token[r]}]
        BY <2>17, <3>1 DEF LockBoth
      <4> QED
        BY <2>b, <2>17, <4>1 DEF LockBoth
    <3>2. CASE ~(state = "active" /\ token[r] \notin revoked)
      BY <2>b, <2>17, <3>2 DEF LockBoth
    <3> QED
      BY <3>1, <3>2
  <2>18. ASSUME NEW r \in Request, Recheck(r) PROVE TypeOK'
    <3>1. CASE state = "active" /\ token[r] \notin revoked \cup replaced
      BY <2>b, <2>18, <3>1 DEF Recheck
    <3>2. CASE ~(state = "active" /\ token[r] \notin revoked \cup replaced)
      BY <2>b, <2>18, <3>2 DEF Recheck
    <3> QED
      BY <3>1, <3>2
  <2>19. ASSUME NEW r \in Request, RefreshSnapshot(r) PROVE TypeOK'
    BY <2>a, <2>b, <2>19, Minting DEF RefreshSnapshot
  <2>20. ASSUME NEW r \in Request, DeadlockVictim(r) PROVE TypeOK'
    BY <2>b, <2>20 DEF DeadlockVictim, Abort
  <2>21. ASSUME NEW r \in Request, Crash(r) PROVE TypeOK'
    BY <2>b, <2>21 DEF Crash, Abort
  <2>22. ASSUME NEW t \in Minted, OverlapEnds(t) PROVE TypeOK'
    BY <2>b, <2>22 DEF OverlapEnds
  <2>23. CASE RaiseVersion
    BY <2>b, <2>23 DEF RaiseVersion
  <2>24. CASE UNCHANGED vars
    BY <2>b, <2>24 DEF vars
  <2> QED
    BY <2>1, <2>2, <2>3, <2>4, <2>5, <2>6, <2>7, <2>8, <2>9, <2>10, <2>11, <2>12,
       <2>13, <2>14, <2>15, <2>16, <2>17, <2>18, <2>19, <2>20, <2>21, <2>22, <2>23,
       <2>24 DEF Next, Step
<1> QED
  BY <1>1, <1>2, PTL DEF Spec
-----------------------------------------------------------------------------
\* No row is locked twice, and a request that is about to write has its lock.
Locking ==
  /\ \A q, r \in Request : q # r => held[q] \cap held[r] = {}
  /\ \A r \in Request :
       /\ pc[r] \in {"rotate", "lockRow", "refreshSnapshot"} => token[r] \in held[r]
       /\ pc[r] = "refreshSnapshot" => rowLock = r

LEMMA LockingHolds == Spec => []Locking
<1>1. Init => Locking
  BY DEF Init, Locking
<1>2. TypeOK /\ Locking /\ [Next]_vars => Locking'
  <2> SUFFICES ASSUME TypeOK, Locking, [Next]_vars PROVE Locking'
    OBVIOUS
  <2> USE SessionAssumption DEF TypeOK, Locking
  <2>1. ASSUME NEW r \in Request, Arrive(r) PROVE Locking'
    BY <2>1 DEF Arrive
  <2>2. ASSUME NEW r \in Request, Validate(r) PROVE Locking'
    BY <2>2 DEF Validate, Handler
  <2>3. ASSUME NEW r \in Request, Find(r) PROVE Locking'
    BY <2>3 DEF Find
  <2>4. ASSUME NEW r \in Request, Compare(r) PROVE Locking'
    <3>1. CASE token[r] \notin revoked \cup reused \cup replaced
      <4>1. /\ pc' = [pc EXCEPT ![r] = "rotate"]
            /\ held' = [held EXCEPT ![r] = @ \cup {token[r]}]
            /\ UNCHANGED <<token, rowLock>>
        BY <2>4, <3>1 DEF Compare
      <4>2. \A q \in Request \ {r} : token[r] \notin held[q] /\ held'[q] = held[q]
        BY <2>4, <4>1 DEF Compare
      <4>3. held'[r] = held[r] \cup {token[r]}
        BY <4>1
      <4> QED
        BY <4>1, <4>2, <4>3
    <3>2. CASE token[r] \in revoked \cup reused \cup replaced
      <4>1. /\ pc' \in {[pc EXCEPT ![r] = "markToken"], [pc EXCEPT ![r] = "done"]}
            /\ UNCHANGED <<held, token, rowLock>>
        BY <2>4, <3>2 DEF Compare
      <4> QED
        BY <4>1
    <3> QED
      BY <3>1, <3>2
  <2>5. ASSUME NEW r \in Request, Rotate(r) PROVE Locking'
    BY <2>5 DEF Rotate
  <2>6. ASSUME NEW r \in Request, MarkToken(r) PROVE Locking'
    BY <2>6 DEF MarkToken
  <2>7. ASSUME NEW r \in Request, ReadFamily(r) PROVE Locking'
    BY <2>7 DEF ReadFamily
  <2>8. ASSUME NEW r \in Request, KillRow(r) PROVE Locking'
    BY <2>8 DEF KillRow
  <2>9. ASSUME NEW r \in Request, RevokeRow(r) PROVE Locking'
    BY <2>9 DEF RevokeRow
  <2>10. ASSUME NEW r \in Request, LockPending(r) PROVE Locking'
    BY <2>10 DEF LockPending
  <2>11. ASSUME NEW r \in Request, FindTokens(r) PROVE Locking'
    BY <2>11 DEF FindTokens
  <2>12. ASSUME NEW r \in Request, LockNext(r) PROVE Locking'
    <3>1. UNCHANGED <<pc, token, rowLock>> /\ pc[r] = "lockTokens"
      BY <2>12 DEF LockNext
    <3>2. CASE UNCHANGED held
      BY <3>1, <3>2
    <3>3. CASE \E t \in sweep[r] : FreeToken(r, t) /\ LockToken(r, t)
      <4>1. PICK t \in sweep[r] : FreeToken(r, t) /\ LockToken(r, t)
        BY <3>3
      <4> QED
        BY <3>1, <4>1
    <3> QED
      BY <2>12, <3>2, <3>3 DEF LockNext
  <2>13. ASSUME NEW r \in Request, Compromise(r) PROVE Locking'
    BY <2>13 DEF Compromise
  <2>14. ASSUME NEW r \in Request, Revoke(r) PROVE Locking'
    BY <2>14 DEF Revoke
  <2>15. ASSUME NEW r \in Request, Elevate(r) PROVE Locking'
    BY <2>15 DEF Elevate
  <2>16. ASSUME NEW r \in Request, Build(r) PROVE Locking'
    BY <2>16 DEF Build
  <2>17. ASSUME NEW r \in Request, LockBoth(r) PROVE Locking'
    BY <2>17 DEF LockBoth
  <2>18. ASSUME NEW r \in Request, Recheck(r) PROVE Locking'
    <3>1. CASE state = "active" /\ token[r] \notin revoked \cup replaced
      <4>1. pc' = [pc EXCEPT ![r] = "refreshSnapshot"] /\ rowLock' = r
        BY <2>18, <3>1 DEF Recheck
      <4>2. pc[r] = "lockRow" /\ rowLock = NoRequest /\ UNCHANGED <<held, token>>
        BY <2>18, <3>1 DEF Recheck
      <4> QED
        BY <4>1, <4>2
    <3>2. CASE ~(state = "active" /\ token[r] \notin revoked \cup replaced)
      <4>1. pc' = [pc EXCEPT ![r] = "done"] /\ held' = [held EXCEPT ![r] = {}]
        BY <2>18, <3>2 DEF Recheck
      <4>2. UNCHANGED <<rowLock, token>>
        BY <2>18, <3>2 DEF Recheck
      <4> QED
        BY <4>1, <4>2
    <3> QED
      BY <3>1, <3>2
  <2>19. ASSUME NEW r \in Request, RefreshSnapshot(r) PROVE Locking'
    BY <2>19 DEF RefreshSnapshot
  <2>20. ASSUME NEW r \in Request, DeadlockVictim(r) PROVE Locking'
    BY <2>20 DEF DeadlockVictim, Abort
  <2>21. ASSUME NEW r \in Request, Crash(r) PROVE Locking'
    BY <2>21 DEF Crash, Abort
  <2>22. ASSUME NEW t \in Minted, OverlapEnds(t) PROVE Locking'
    BY <2>22 DEF OverlapEnds
  <2>23. CASE RaiseVersion
    BY <2>23 DEF RaiseVersion
  <2>24. CASE UNCHANGED vars
    BY <2>24 DEF vars
  <2> QED
    BY <2>1, <2>2, <2>3, <2>4, <2>5, <2>6, <2>7, <2>8, <2>9, <2>10, <2>11,
       <2>12, <2>13, <2>14, <2>15, <2>16, <2>17, <2>18, <2>19, <2>20, <2>21,
       <2>22, <2>23, <2>24 DEF Next, Step
<1> QED
  BY <1>1, <1>2, TypeCorrect, PTL DEF Spec
-----------------------------------------------------------------------------
\* Who holds the session row decides the family's fate: the row is locked
\* while the family lives, a revocation without it found the family dead, and
\* an accepted invitation has a family that nothing else has touched.
Fate ==
  /\ rowLock # NoRequest => Alive
  /\ reused # {} => ~Alive
  /\ \A r \in Request :
       /\ pc[r] \in {"findTokens", "lockTokens"} /\ rowLock # r => ~Alive
       /\ pc[r] = "refreshSnapshot" => state = "active"

Accepting(r) ==
  /\ pc[r] \notin {"build", "revokeRow", "readFamily"}
  /\ r \notin detected => pc[r] \notin {"markToken", "killRow"}
  /\ r \notin detected /\ pc[r] \in {"findTokens", "lockTokens"} =>
       state = "pending" /\ rowLock = r
  /\ r \notin detected /\ pc[r] = "lockTokens" => sweep[r] = {1}

Untouched ==
  /\ parent = <<0>> /\ replaced = {} /\ revoked = {} /\ detected = {}
  /\ \A r \in Request : pc[r] \notin {"lockToken", "rotate", "lockRow"}

Pending ==
  /\ \A r \in Request : kind[r] = "accept" => Accepting(r)
  /\ state = "pending" => Untouched

LEMMA FateHolds == Spec => [](Fate /\ Pending)
<1>1. Init => Fate /\ Pending
  BY DEF Init, Fate, Pending, Accepting, Untouched
<1>2. TypeOK /\ Locking /\ Fate /\ Pending /\ [Next]_vars => Fate'
  <2> SUFFICES ASSUME TypeOK, Locking, Fate, Pending, [Next]_vars PROVE Fate'
    OBVIOUS
  <2> USE SessionAssumption DEF TypeOK, Locking, Fate
  <2>1. ASSUME NEW r \in Request, Arrive(r) PROVE Fate'
    BY <2>1 DEF Arrive
  <2>2. ASSUME NEW r \in Request, Validate(r) PROVE Fate'
    BY <2>2 DEF Validate, Handler
  <2>3. ASSUME NEW r \in Request, Find(r) PROVE Fate'
    BY <2>3 DEF Find
  <2>4. ASSUME NEW r \in Request, Compare(r) PROVE Fate'
    BY <2>4 DEF Compare
  <2>5. ASSUME NEW r \in Request, Rotate(r) PROVE Fate'
    BY <2>5 DEF Rotate
  <2>6. ASSUME NEW r \in Request, MarkToken(r) PROVE Fate'
    BY <2>6 DEF MarkToken
  <2>7. ASSUME NEW r \in Request, ReadFamily(r) PROVE Fate'
    BY <2>7 DEF ReadFamily
  <2>8. ASSUME NEW r \in Request, KillRow(r) PROVE Fate'
    BY <2>8 DEF KillRow
  <2>9. ASSUME NEW r \in Request, RevokeRow(r) PROVE Fate'
    BY <2>9 DEF RevokeRow
  <2>10. ASSUME NEW r \in Request, LockPending(r) PROVE Fate'
    BY <2>10 DEF LockPending
  <2>11. ASSUME NEW r \in Request, FindTokens(r) PROVE Fate'
    BY <2>11 DEF FindTokens
  <2>12. ASSUME NEW r \in Request, LockNext(r) PROVE Fate'
    BY <2>12 DEF LockNext
  <2>13. ASSUME NEW r \in Request, Compromise(r) PROVE Fate'
    BY <2>13 DEF Compromise
  <2>14. ASSUME NEW r \in Request, Revoke(r) PROVE Fate'
    BY <2>14 DEF Revoke
  <2>15. ASSUME NEW r \in Request, Elevate(r) PROVE Fate'
    <3>1. rowLock = r /\ state = "pending"
      BY <2>15 DEF Elevate, Pending, Accepting
    <3>2. state' \in {"pending", "active"} /\ rowLock' = NoRequest /\ reused' = reused
      BY <2>15, <3>1 DEF Elevate
    <3>3. \A q \in Request : pc[q] \in {"findTokens", "lockTokens"} => q = r
      BY <3>1
    <3>4. pc' = [pc EXCEPT ![r] = "done"]
      BY <2>15 DEF Elevate
    <3> QED
      BY <3>1, <3>2, <3>3, <3>4
  <2>16. ASSUME NEW r \in Request, Build(r) PROVE Fate'
    BY <2>16 DEF Build
  <2>17. ASSUME NEW r \in Request, LockBoth(r) PROVE Fate'
    BY <2>17 DEF LockBoth
  <2>18. ASSUME NEW r \in Request, Recheck(r) PROVE Fate'
    BY <2>18 DEF Recheck
  <2>19. ASSUME NEW r \in Request, RefreshSnapshot(r) PROVE Fate'
    BY <2>19 DEF RefreshSnapshot
  <2>20. ASSUME NEW r \in Request, DeadlockVictim(r) PROVE Fate'
    BY <2>20 DEF DeadlockVictim, Abort
  <2>21. ASSUME NEW r \in Request, Crash(r) PROVE Fate'
    BY <2>21 DEF Crash, Abort
  <2>22. ASSUME NEW t \in Minted, OverlapEnds(t) PROVE Fate'
    BY <2>22 DEF OverlapEnds
  <2>23. CASE RaiseVersion
    BY <2>23 DEF RaiseVersion
  <2>24. CASE UNCHANGED vars
    BY <2>24 DEF vars
  <2> QED
    BY <2>1, <2>2, <2>3, <2>4, <2>5, <2>6, <2>7, <2>8, <2>9, <2>10, <2>11,
       <2>12, <2>13, <2>14, <2>15, <2>16, <2>17, <2>18, <2>19, <2>20, <2>21,
       <2>22, <2>23, <2>24 DEF Next, Step
<1>3. TypeOK /\ Fate /\ Pending /\ [Next]_vars => Pending'
  <2> SUFFICES ASSUME TypeOK, Fate, Pending, [Next]_vars PROVE Pending'
    OBVIOUS
  <2> USE SessionAssumption DEF TypeOK, Fate, Pending, Accepting, Untouched
  <2>1. ASSUME NEW r \in Request, Arrive(r) PROVE Pending'
    BY <2>1 DEF Arrive
  <2>2. ASSUME NEW r \in Request, Validate(r) PROVE Pending'
    BY <2>2 DEF Validate, Handler
  <2>3. ASSUME NEW r \in Request, Find(r) PROVE Pending'
    BY <2>3 DEF Find
  <2>4. ASSUME NEW r \in Request, Compare(r) PROVE Pending'
    BY <2>4 DEF Compare
  <2>5. ASSUME NEW r \in Request, Rotate(r) PROVE Pending'
    BY <2>5 DEF Rotate
  <2>6. ASSUME NEW r \in Request, MarkToken(r) PROVE Pending'
    BY <2>6 DEF MarkToken
  <2>7. ASSUME NEW r \in Request, ReadFamily(r) PROVE Pending'
    BY <2>7 DEF ReadFamily
  <2>8. ASSUME NEW r \in Request, KillRow(r) PROVE Pending'
    BY <2>8 DEF KillRow
  <2>9. ASSUME NEW r \in Request, RevokeRow(r) PROVE Pending'
    BY <2>9 DEF RevokeRow
  <2>10. ASSUME NEW r \in Request, LockPending(r) PROVE Pending'
    BY <2>10 DEF LockPending
  <2>11. ASSUME NEW r \in Request, FindTokens(r) PROVE Pending'
    <3>1. state = "pending" => Unrevoked = {1}
      <4> SUFFICES ASSUME state = "pending" PROVE Unrevoked = {1}
        OBVIOUS
      <4>1. parent = <<0>> /\ revoked = {}
        OBVIOUS
      <4>2. Minted = {1}
        BY <4>1, Len(<<0>>) = 1 DEF Minted
      <4> QED
        BY <4>1, <4>2
    <3> QED
      BY <2>11, <3>1 DEF FindTokens
  <2>12. ASSUME NEW r \in Request, LockNext(r) PROVE Pending'
    BY <2>12 DEF LockNext
  <2>13. ASSUME NEW r \in Request, Compromise(r) PROVE Pending'
    BY <2>13 DEF Compromise
  <2>14. ASSUME NEW r \in Request, Revoke(r) PROVE Pending'
    BY <2>14 DEF Revoke
  <2>15. ASSUME NEW r \in Request, Elevate(r) PROVE Pending'
    BY <2>15 DEF Elevate
  <2>16. ASSUME NEW r \in Request, Build(r) PROVE Pending'
    BY <2>16 DEF Build
  <2>17. ASSUME NEW r \in Request, LockBoth(r) PROVE Pending'
    BY <2>17 DEF LockBoth
  <2>18. ASSUME NEW r \in Request, Recheck(r) PROVE Pending'
    BY <2>18 DEF Recheck
  <2>19. ASSUME NEW r \in Request, RefreshSnapshot(r) PROVE Pending'
    BY <2>19 DEF RefreshSnapshot
  <2>20. ASSUME NEW r \in Request, DeadlockVictim(r) PROVE Pending'
    BY <2>20 DEF DeadlockVictim, Abort
  <2>21. ASSUME NEW r \in Request, Crash(r) PROVE Pending'
    BY <2>21 DEF Crash, Abort
  <2>22. ASSUME NEW t \in Minted, OverlapEnds(t) PROVE Pending'
    BY <2>22 DEF OverlapEnds
  <2>23. CASE RaiseVersion
    BY <2>23 DEF RaiseVersion
  <2>24. CASE UNCHANGED vars
    BY <2>24 DEF vars
  <2> QED
    BY <2>1, <2>2, <2>3, <2>4, <2>5, <2>6, <2>7, <2>8, <2>9, <2>10, <2>11,
       <2>12, <2>13, <2>14, <2>15, <2>16, <2>17, <2>18, <2>19, <2>20, <2>21,
       <2>22, <2>23, <2>24 DEF Next, Step
<1> QED
  BY <1>1, <1>2, <1>3, TypeCorrect, LockingHolds, PTL DEF Spec
-----------------------------------------------------------------------------
\* The chain of tokens: a token with a successor is replaced, and what is
\* about to be replaced is the one current token.
Chain ==
  /\ \A t \in Minted : parent[t] # 0 => parent[t] \in replaced
  /\ OneSuccessor
  /\ OneCurrentToken
  /\ AliveIsUsable
  /\ \A r \in Request :
       pc[r] \in {"rotate", "refreshSnapshot"} => token[r] \in Current

\* Replacing the current token leaves a chain.
LEMMA Extension ==
  ASSUME TypeOK, Chain, NEW r \in Request, token[r] \in Current,
         parent' = Append(parent, token[r]), replaced' = replaced \cup {token[r]},
         UNCHANGED <<state, revoked, token>>, pc' = [pc EXCEPT ![r] = "done"],
         \A q \in Request \ {r} :
           pc[q] \in {"rotate", "refreshSnapshot"} => token[q] # token[r]
  PROVE  Chain'
<1> DEFINE new == Len(parent) + 1
<1>1. /\ new \notin Minted
      /\ Minted' = Minted \cup {new}
      /\ parent'[new] = token[r]
      /\ \A u \in Minted : parent'[u] = parent[u]
  BY Minting DEF TypeOK, Minted
<1> HIDE DEF new
<1>2. Current' = {new}
  BY <1>1 DEF TypeOK, Chain, OneCurrentToken
<1>3. \A t \in Minted' : parent'[t] # 0 => parent'[t] \in replaced'
  BY <1>1 DEF TypeOK, Chain
<1>4. OneSuccessor'
  <2>1. ASSUME NEW t \in Minted', NEW u \in Minted', parent'[t] = parent'[u],
               parent'[t] # 0
        PROVE  t = u
    <3>1. \A v \in Minted : parent[v] # token[r] \/ parent[v] = 0
      BY DEF Chain
    <3>2. CASE t \in Minted /\ u \in Minted
      <4>1. parent[t] = parent[u] /\ parent[t] # 0
        BY <1>1, <2>1, <3>2
      <4> QED
        BY <3>2, <4>1 DEF Chain, OneSuccessor
    <3>3. CASE t = new \/ u = new
      BY <1>1, <2>1, <3>1, <3>3
    <3> QED
      BY <1>1, <3>2, <3>3
  <2>2. \A t \in replaced' : \E u \in Minted' : parent'[u] = t
    <3>1. \A t \in replaced : \E u \in Minted : parent[u] = t
      BY DEF Chain, OneSuccessor
    <3> QED
      BY <1>1, <3>1
  <2> QED
    BY <2>1, <2>2 DEF OneSuccessor
<1>5. \A q \in Request : pc'[q] \in {"rotate", "refreshSnapshot"} => token'[q] \in Current'
  BY <1>1 DEF TypeOK, Chain
<1> QED
  BY <1>2, <1>3, <1>4, <1>5 DEF Chain, OneCurrentToken, AliveIsUsable

\* Revoking tokens of a dead family leaves a chain: nothing that is about to
\* be replaced is among them.
LEMMA Sweeping ==
  ASSUME TypeOK, Locking, Chain, NEW r \in Request, Swept(r), ~Alive',
         revoked' = revoked \cup sweep[r], UNCHANGED <<parent, replaced, token>>,
         pc' = [pc EXCEPT ![r] = "done"]
  PROVE  Chain'
<1>1. Minted' = Minted
  BY DEF Minted
<1>2. \A q \in Request :
        pc'[q] \in {"rotate", "refreshSnapshot"} => token'[q] \in Current'
  <2> SUFFICES ASSUME NEW q \in Request, pc'[q] \in {"rotate", "refreshSnapshot"}
               PROVE  token[q] \in Current'
    OBVIOUS
  <2>1. q # r /\ pc[q] = pc'[q]
    BY DEF TypeOK
  <2>2. token[q] \in held[q] /\ token[q] \notin sweep[r]
    BY <2>1 DEF Locking
  <2> QED
    BY <1>1, <2>1, <2>2 DEF Chain
<1> QED
  BY <1>1, <1>2 DEF Chain, OneSuccessor, OneCurrentToken, AliveIsUsable

LEMMA ChainHolds == Spec => []Chain
<1>1. Init => Chain
  <2> SUFFICES ASSUME Init PROVE Chain
    OBVIOUS
  <2>1. Minted = {1} /\ parent[1] = 0
    BY DEF Init, Minted
  <2> QED
    BY <2>1 DEF Init, Chain, OneSuccessor, OneCurrentToken, AliveIsUsable
<1>2. TypeOK /\ Locking /\ Fate /\ Pending /\ Chain /\ [Next]_vars => Chain'
  <2> SUFFICES ASSUME TypeOK, Locking, Fate, Pending, Chain, [Next]_vars PROVE Chain'
    OBVIOUS
  <2> USE SessionAssumption DEF TypeOK, Chain, OneSuccessor, OneCurrentToken, AliveIsUsable
  <2>b. ASSUME UNCHANGED parent PROVE Minted' = Minted
    BY <2>b DEF Minted
  <2>1. ASSUME NEW r \in Request, Arrive(r) PROVE Chain'
    BY <2>b, <2>1 DEF Arrive
  <2>2. ASSUME NEW r \in Request, Validate(r) PROVE Chain'
    BY <2>b, <2>2 DEF Validate, Handler
  <2>3. ASSUME NEW r \in Request, Find(r) PROVE Chain'
    BY <2>b, <2>3 DEF Find
  <2>4. ASSUME NEW r \in Request, Compare(r) PROVE Chain'
    BY <2>b, <2>4 DEF Compare
  <2>5. ASSUME NEW r \in Request, Rotate(r) PROVE Chain'
    <3>1. token[r] \in Current
      BY <2>5 DEF Rotate
    <3>2. parent' = Append(parent, token[r]) /\ replaced' = replaced \cup {token[r]}
      BY <2>5 DEF Rotate
    <3>3. UNCHANGED <<state, revoked, token>> /\ pc' = [pc EXCEPT ![r] = "done"]
      BY <2>5 DEF Rotate
    <3>4. \A q \in Request \ {r} :
            pc[q] \in {"rotate", "refreshSnapshot"} => token[q] # token[r]
      BY <2>5 DEF Locking, Rotate
    <3> QED
      BY <3>1, <3>2, <3>3, <3>4, Extension
  <2>6. ASSUME NEW r \in Request, MarkToken(r) PROVE Chain'
    BY <2>b, <2>6 DEF MarkToken
  <2>7. ASSUME NEW r \in Request, ReadFamily(r) PROVE Chain'
    BY <2>b, <2>7 DEF ReadFamily
  <2>8. ASSUME NEW r \in Request, KillRow(r) PROVE Chain'
    BY <2>b, <2>8 DEF KillRow
  <2>9. ASSUME NEW r \in Request, RevokeRow(r) PROVE Chain'
    BY <2>b, <2>9 DEF RevokeRow
  <2>10. ASSUME NEW r \in Request, LockPending(r) PROVE Chain'
    BY <2>b, <2>10 DEF LockPending
  <2>11. ASSUME NEW r \in Request, FindTokens(r) PROVE Chain'
    BY <2>b, <2>11 DEF FindTokens
  <2>12. ASSUME NEW r \in Request, LockNext(r) PROVE Chain'
    BY <2>b, <2>12 DEF LockNext
  <2>13. ASSUME NEW r \in Request, Compromise(r) PROVE Chain'
    <3>1. rowLock = r \/ ~Alive
      BY <2>13 DEF Compromise, Fate
    <3>2. ~Alive'
      BY <2>13, <3>1 DEF Compromise
    <3> QED
      BY <2>13, <3>2, Sweeping DEF Compromise
  <2>14. ASSUME NEW r \in Request, Revoke(r) PROVE Chain'
    <3>1. rowLock = r \/ ~Alive
      BY <2>14 DEF Revoke, Fate
    <3>2. ~Alive'
      BY <2>14, <3>1 DEF Revoke
    <3> QED
      BY <2>14, <3>2, Sweeping DEF Revoke
  <2>15. ASSUME NEW r \in Request, Elevate(r) PROVE Chain'
    <3>1. state = "pending" /\ sweep[r] = {1}
      BY <2>15 DEF Elevate, Pending, Accepting
    <3>2. /\ parent = <<0>> /\ replaced = {} /\ revoked = {}
          /\ \A q \in Request : pc[q] \notin {"rotate", "refreshSnapshot"}
      BY <3>1 DEF Pending, Untouched, Fate
    <3>3. /\ parent' = <<0, 0>> /\ replaced' = {} /\ revoked' = {1}
          /\ pc' = [pc EXCEPT ![r] = "done"]
      BY <2>15, <3>1, <3>2 DEF Elevate
    <3>4. Minted' = {1, 2} /\ parent'[1] = 0 /\ parent'[2] = 0
      BY <3>3 DEF Minted
    <3> QED
      BY <3>2, <3>3, <3>4
  <2>16. ASSUME NEW r \in Request, Build(r) PROVE Chain'
    BY <2>b, <2>16 DEF Build
  <2>17. ASSUME NEW r \in Request, LockBoth(r) PROVE Chain'
    BY <2>b, <2>17 DEF LockBoth
  <2>18. ASSUME NEW r \in Request, Recheck(r) PROVE Chain'
    BY <2>b, <2>18 DEF Recheck
  <2>19. ASSUME NEW r \in Request, RefreshSnapshot(r) PROVE Chain'
    <3>1. token[r] \in Current
      BY <2>19 DEF RefreshSnapshot
    <3>2. parent' = Append(parent, token[r]) /\ replaced' = replaced \cup {token[r]}
      BY <2>19 DEF RefreshSnapshot
    <3>3. UNCHANGED <<state, revoked, token>> /\ pc' = [pc EXCEPT ![r] = "done"]
      BY <2>19 DEF RefreshSnapshot
    <3>4. \A q \in Request \ {r} :
            pc[q] \in {"rotate", "refreshSnapshot"} => token[q] # token[r]
      BY <2>19 DEF Locking, RefreshSnapshot
    <3> QED
      BY <3>1, <3>2, <3>3, <3>4, Extension
  <2>20. ASSUME NEW r \in Request, DeadlockVictim(r) PROVE Chain'
    BY <2>b, <2>20 DEF DeadlockVictim, Abort
  <2>21. ASSUME NEW r \in Request, Crash(r) PROVE Chain'
    BY <2>b, <2>21 DEF Crash, Abort
  <2>22. ASSUME NEW t \in Minted, OverlapEnds(t) PROVE Chain'
    BY <2>b, <2>22 DEF OverlapEnds
  <2>23. CASE RaiseVersion
    BY <2>b, <2>23 DEF RaiseVersion
  <2>24. CASE UNCHANGED vars
    BY <2>b, <2>24 DEF vars
  <2> QED
    BY <2>1, <2>2, <2>3, <2>4, <2>5, <2>6, <2>7, <2>8, <2>9, <2>10, <2>11,
       <2>12, <2>13, <2>14, <2>15, <2>16, <2>17, <2>18, <2>19, <2>20, <2>21,
       <2>22, <2>23, <2>24 DEF Next, Step
<1> QED
  BY <1>1, <1>2, TypeCorrect, LockingHolds, FateHolds, PTL DEF Spec
\* Only the holder of the session row, or the acceptance of a pending
\* session's invitation, changes the state of a family.
LEMMA DeadRemains ==
  ASSUME TypeOK, Fate, Pending, [Next]_vars, ~Alive PROVE state' = state
<1>1. ASSUME NEW r \in Request, Compromise(r) PROVE state' = state
  BY <1>1, SessionAssumption DEF Compromise, Fate, TypeOK
<1>2. ASSUME NEW r \in Request, Revoke(r) PROVE state' = state
  BY <1>2, SessionAssumption DEF Revoke, Fate, TypeOK
<1>3. ASSUME NEW r \in Request, Elevate(r) PROVE state' = state
  BY <1>3 DEF Elevate, Pending, Accepting, TypeOK
<1> QED
  BY <1>1, <1>2, <1>3
     DEF Next, Step, vars, Arrive, Validate, Find, Compare, Rotate, MarkToken, ReadFamily,
         KillRow, RevokeRow, LockPending, FindTokens, LockNext, Build, LockBoth, Recheck,
         RefreshSnapshot, DeadlockVictim, Crash, Abort, OverlapEnds, RaiseVersion
-----------------------------------------------------------------------------
\* A version that may be written is not behind the snapshot it replaces.
Versions ==
  /\ snapshot <= current
  /\ \A r \in Request :
       /\ version[r] <= current
       /\ pc[r] \in {"lockBoth", "lockRow", "refreshSnapshot"} /\ token[r] \in Current =>
            version[r] >= snapshot

LEMMA VersionsHold == Spec => []Versions
<1>1. Init => Versions
  BY DEF Init, Versions
<1>2. TypeOK /\ Chain /\ Versions /\ [Next]_vars => Versions'
  <2> SUFFICES ASSUME TypeOK, Chain, Versions, [Next]_vars PROVE Versions'
    OBVIOUS
  <2> USE SessionAssumption DEF TypeOK, Versions
  <2>b. ASSUME UNCHANGED parent PROVE Minted' = Minted
    BY <2>b DEF Minted
  <2>1. ASSUME NEW r \in Request, Arrive(r) PROVE Versions'
    BY <2>b, <2>1 DEF Arrive
  <2>2. ASSUME NEW r \in Request, Validate(r) PROVE Versions'
    BY <2>b, <2>2 DEF Validate, Handler
  <2>3. ASSUME NEW r \in Request, Find(r) PROVE Versions'
    BY <2>b, <2>3 DEF Find
  <2>4. ASSUME NEW r \in Request, Compare(r) PROVE Versions'
    BY <2>b, <2>4 DEF Compare
  <2>5. ASSUME NEW r \in Request, Rotate(r) PROVE Versions'
    <3>1. Minted' = Minted \cup {Len(parent) + 1} /\ Len(parent) + 1 \notin Minted
      BY <2>5, Minting DEF Rotate, Minted
    <3>2. \A q \in Request : token[q] \in Current' => token[q] \in Current \ {token[r]}
      BY <2>5, <3>1 DEF Rotate
    <3> QED
      BY <2>5, <3>2 DEF Rotate, Chain, OneCurrentToken
  <2>6. ASSUME NEW r \in Request, MarkToken(r) PROVE Versions'
    BY <2>b, <2>6 DEF MarkToken
  <2>7. ASSUME NEW r \in Request, ReadFamily(r) PROVE Versions'
    BY <2>b, <2>7 DEF ReadFamily
  <2>8. ASSUME NEW r \in Request, KillRow(r) PROVE Versions'
    BY <2>b, <2>8 DEF KillRow
  <2>9. ASSUME NEW r \in Request, RevokeRow(r) PROVE Versions'
    BY <2>b, <2>9 DEF RevokeRow
  <2>10. ASSUME NEW r \in Request, LockPending(r) PROVE Versions'
    BY <2>b, <2>10 DEF LockPending
  <2>11. ASSUME NEW r \in Request, FindTokens(r) PROVE Versions'
    BY <2>b, <2>11 DEF FindTokens
  <2>12. ASSUME NEW r \in Request, LockNext(r) PROVE Versions'
    BY <2>b, <2>12 DEF LockNext
  <2>13. ASSUME NEW r \in Request, Compromise(r) PROVE Versions'
    BY <2>b, <2>13 DEF Compromise
  <2>14. ASSUME NEW r \in Request, Revoke(r) PROVE Versions'
    BY <2>b, <2>14 DEF Revoke
  <2>15. ASSUME NEW r \in Request, Elevate(r) PROVE Versions'
    BY <2>b, <2>15 DEF Elevate
  <2>16. ASSUME NEW r \in Request, Build(r) PROVE Versions'
    BY <2>b, <2>16 DEF Build
  <2>17. ASSUME NEW r \in Request, LockBoth(r) PROVE Versions'
    BY <2>b, <2>17 DEF LockBoth
  <2>18. ASSUME NEW r \in Request, Recheck(r) PROVE Versions'
    BY <2>b, <2>18 DEF Recheck
  <2>19. ASSUME NEW r \in Request, RefreshSnapshot(r) PROVE Versions'
    <3>1. Minted' = Minted \cup {Len(parent) + 1} /\ Len(parent) + 1 \notin Minted
      BY <2>19, Minting DEF RefreshSnapshot, Minted
    <3>2. \A q \in Request : token[q] \in Current' => token[q] \in Current \ {token[r]}
      BY <2>19, <3>1 DEF RefreshSnapshot
    <3> QED
      BY <2>19, <3>2 DEF RefreshSnapshot, Chain, OneCurrentToken
  <2>20. ASSUME NEW r \in Request, DeadlockVictim(r) PROVE Versions'
    BY <2>b, <2>20 DEF DeadlockVictim, Abort
  <2>21. ASSUME NEW r \in Request, Crash(r) PROVE Versions'
    BY <2>b, <2>21 DEF Crash, Abort
  <2>22. ASSUME NEW t \in Minted, OverlapEnds(t) PROVE Versions'
    BY <2>b, <2>22 DEF OverlapEnds
  <2>23. CASE RaiseVersion
    BY <2>b, <2>23 DEF RaiseVersion
  <2>24. CASE UNCHANGED vars
    BY <2>b, <2>24 DEF vars
  <2> QED
    BY <2>1, <2>2, <2>3, <2>4, <2>5, <2>6, <2>7, <2>8, <2>9, <2>10, <2>11,
       <2>12, <2>13, <2>14, <2>15, <2>16, <2>17, <2>18, <2>19, <2>20, <2>21,
       <2>22, <2>23, <2>24 DEF Next, Step
<1> QED
  BY <1>1, <1>2, TypeCorrect, ChainHolds, PTL DEF Spec
-----------------------------------------------------------------------------
\* What a logout or a revocation of all sessions may still do before it ends.
Ends ==
  /\ \A r \in Request :
       /\ pc[r] = "new" => kind[r] = "read"
       /\ pc[r] \in {"new", "validate"} => version[r] = 0
       /\ kind[r] = "sweep" =>
            pc[r] \in {"readFamily", "killRow", "findTokens", "lockTokens", "done"}
       /\ kind[r] = "logout" =>
            /\ pc[r] # "build"
            /\ version[r] # 0 => pc[r] \in {"revokeRow", "findTokens", "lockTokens", "done"}
  /\ RevocationSticks

LEMMA EndsHold == Spec => []Ends
<1>1. Init => Ends
  BY DEF Init, Ends, RevocationSticks
<1>2. TypeOK /\ Fate /\ Pending /\ Ends /\ [Next]_vars => Ends'
  <2> SUFFICES ASSUME TypeOK, Fate, Pending, Ends, [Next]_vars PROVE Ends'
    OBVIOUS
  <2> USE SessionAssumption DEF TypeOK, Ends, RevocationSticks
  <2>1. ASSUME NEW r \in Request, Arrive(r) PROVE Ends'
    BY <2>1 DEF Arrive
  <2>2. ASSUME NEW r \in Request, Validate(r) PROVE Ends'
    BY <2>2 DEF Validate, Handler
  <2>3. ASSUME NEW r \in Request, Find(r) PROVE Ends'
    BY <2>3 DEF Find
  <2>4. ASSUME NEW r \in Request, Compare(r) PROVE Ends'
    BY <2>4 DEF Compare
  <2>5. ASSUME NEW r \in Request, Rotate(r) PROVE Ends'
    BY <2>5 DEF Rotate
  <2>6. ASSUME NEW r \in Request, MarkToken(r) PROVE Ends'
    BY <2>6 DEF MarkToken
  <2>7. ASSUME NEW r \in Request, ReadFamily(r) PROVE Ends'
    BY <2>7 DEF ReadFamily
  <2>8. ASSUME NEW r \in Request, KillRow(r) PROVE Ends'
    BY <2>8 DEF KillRow
  <2>9. ASSUME NEW r \in Request, RevokeRow(r) PROVE Ends'
    BY <2>9 DEF RevokeRow
  <2>10. ASSUME NEW r \in Request, LockPending(r) PROVE Ends'
    BY <2>10 DEF LockPending
  <2>11. ASSUME NEW r \in Request, FindTokens(r) PROVE Ends'
    BY <2>11 DEF FindTokens
  <2>12. ASSUME NEW r \in Request, LockNext(r) PROVE Ends'
    BY <2>12 DEF LockNext
  <2>13. ASSUME NEW r \in Request, Compromise(r) PROVE Ends'
    <3>1. rowLock = r \/ ~Alive
      BY <2>13 DEF Compromise, Fate
    <3>2. ~Alive'
      BY <2>13, <3>1 DEF Compromise
    <3> QED
      BY <2>13, <3>2 DEF Compromise
  <2>14. ASSUME NEW r \in Request, Revoke(r) PROVE Ends'
    <3>1. rowLock = r \/ ~Alive
      BY <2>14 DEF Revoke, Fate
    <3>2. ~Alive'
      BY <2>14, <3>1 DEF Revoke
    <3> QED
      BY <2>14, <3>2 DEF Revoke
  <2>15. ASSUME NEW r \in Request, Elevate(r) PROVE Ends'
    <3>1. kind[r] = "accept" /\ Alive
      BY <2>15 DEF Elevate, Pending, Accepting
    <3> QED
      BY <2>15, <3>1 DEF Elevate
  <2>16. ASSUME NEW r \in Request, Build(r) PROVE Ends'
    BY <2>16 DEF Build
  <2>17. ASSUME NEW r \in Request, LockBoth(r) PROVE Ends'
    BY <2>17 DEF LockBoth
  <2>18. ASSUME NEW r \in Request, Recheck(r) PROVE Ends'
    BY <2>18 DEF Recheck
  <2>19. ASSUME NEW r \in Request, RefreshSnapshot(r) PROVE Ends'
    BY <2>19 DEF RefreshSnapshot
  <2>20. ASSUME NEW r \in Request, DeadlockVictim(r) PROVE Ends'
    BY <2>20 DEF DeadlockVictim, Abort
  <2>21. ASSUME NEW r \in Request, Crash(r) PROVE Ends'
    BY <2>21 DEF Crash, Abort
  <2>22. ASSUME NEW t \in Minted, OverlapEnds(t) PROVE Ends'
    BY <2>22 DEF OverlapEnds
  <2>23. CASE RaiseVersion
    BY <2>23 DEF RaiseVersion
  <2>24. CASE UNCHANGED vars
    BY <2>24 DEF vars
  <2> QED
    BY <2>1, <2>2, <2>3, <2>4, <2>5, <2>6, <2>7, <2>8, <2>9, <2>10, <2>11,
       <2>12, <2>13, <2>14, <2>15, <2>16, <2>17, <2>18, <2>19, <2>20, <2>21,
       <2>22, <2>23, <2>24 DEF Next, Step
<1> QED
  BY <1>1, <1>2, TypeCorrect, FateHolds, PTL DEF Spec
-----------------------------------------------------------------------------
\* Refreshes, reconciliations, acceptance and revocations never leave a family
\* with two current tokens.
THEOREM OneCurrent == Spec => []OneCurrentToken
<1>1. Chain => OneCurrentToken
  BY DEF Chain
<1> QED
  BY <1>1, ChainHolds, PTL

\* Concurrent rotations of one token mint one successor.
THEOREM SingleSuccessor == Spec => []OneSuccessor
<1>1. Chain => OneSuccessor
  BY DEF Chain
<1> QED
  BY <1>1, ChainHolds, PTL

\* A family that is alive has a token that opens it.
THEOREM Usable == Spec => []AliveIsUsable
<1>1. Chain => AliveIsUsable
  BY DEF Chain
<1> QED
  BY <1>1, ChainHolds, PTL

\* A family that is alive has one token that opens it, neither two nor none.
THEOREM OneUsable == Spec => []OneUsableToken
<1>1. OneCurrentToken /\ AliveIsUsable => OneUsableToken
  BY DEF OneUsableToken
<1> QED
  BY <1>1, OneCurrent, Usable, PTL

\* A token on record as reused belongs to a dead family.
THEOREM ReusedDead == Spec => []ReuseIsDead
<1>1. Fate => ReuseIsDead
  BY DEF Fate, ReuseIsDead
<1> QED
  BY <1>1, FateHolds, PTL

\* An answered logout or revocation of all sessions left the family dead.
THEOREM Sticks == Spec => []RevocationSticks
<1>1. Ends => RevocationSticks
  BY DEF Ends
<1> QED
  BY <1>1, EndsHold, PTL

\* A dead family is never revived, and how it ended does not change.
THEOREM NoRevival == Spec => DeadStaysDead
<1>1. TypeOK /\ Fate /\ Pending /\ [Next]_vars => [~Alive => state' = state]_state
  BY DeadRemains
<1> QED
  BY <1>1, TypeCorrect, FateHolds, PTL DEF Spec, DeadStaysDead

\* Writing a stale authorization context never takes the snapshot back.
THEOREM NoRegress == Spec => SnapshotNeverRegresses
<1>1. TypeOK /\ Chain /\ Versions /\ [Next]_vars => [snapshot' >= snapshot]_snapshot
  <2> SUFFICES ASSUME TypeOK, Chain, Versions, [Next]_vars, snapshot' # snapshot
               PROVE  snapshot' >= snapshot
    BY DEF TypeOK
  <2>1. PICK r \in Request : RefreshSnapshot(r)
    BY DEF Next, Step, vars, Arrive, Validate, Find, Compare, Rotate, MarkToken,
           ReadFamily, KillRow, RevokeRow, LockPending, FindTokens, LockNext, Compromise,
           Revoke, Elevate, Build, LockBoth, Recheck, DeadlockVictim, Crash, Abort,
           OverlapEnds, RaiseVersion
  <2> QED
    BY <2>1 DEF RefreshSnapshot, Chain, Versions
<1> QED
  BY <1>1, TypeCorrect, ChainHolds, VersionsHold, PTL DEF Spec, SnapshotNeverRegresses
-----------------------------------------------------------------------------
(* Readiness and SharedClient, for every number of probers, dependencies,  *)
(* builders and edits and all durations.                                   *)

\* A step is of one module at most; of the others nothing changes.
LEMMA EachItsOwn ==
  [ProgressNext]_Everything => [R!Next]_readiness /\ [S!Next]_building
BY DEF ProgressNext, Everything

(* Readiness.  A reply that counts came since the run of probes began, and *)
(* what is served since its time and the outcome's age.                    *)
ReadyTypes ==
  /\ answer \in [Prober -> {0, 200, 500, 503}]
  /\ inFlight \in BOOLEAN
  /\ probe \in [Dependency -> {"unasked", "open", "ok", "unavailable"}]
  /\ elapsed \in 0 .. Timeout /\ outcome \in {0, 200, 503} /\ age \in 0 .. R!Forever
  /\ silent \in [Dependency -> 0 .. R!Forever]
Fresh ==
  /\ inFlight => \A d \in Dependency : probe[d] = "ok" => silent[d] <= elapsed
  /\ outcome = 200 => \A d \in Dependency : silent[d] <= Timeout + age
ReadyInv == ReadyTypes /\ Fresh

LEMMA ForeverIsNumber == R!Forever \in Nat
BY ProgressAssumption DEF R!Forever

LEMMA ReadyStarts == R!Init => ReadyInv
<1> SUFFICES ASSUME R!Init PROVE ReadyInv
  OBVIOUS
<1>1. answer \in [Prober -> {0, 200, 500, 503}]
  BY DEF R!Init
<1>2. probe \in [Dependency -> {"unasked", "open", "ok", "unavailable"}]
  BY DEF R!Init
<1>3. silent \in [Dependency -> 0 .. R!Forever]
  BY ForeverIsNumber DEF R!Init
<1>4. /\ inFlight = FALSE /\ elapsed \in 0 .. Timeout /\ outcome = 0
      /\ age \in 0 .. R!Forever
  BY ProgressAssumption, ForeverIsNumber DEF R!Init
<1>5. ReadyTypes
  BY <1>1, <1>2, <1>3, <1>4 DEF ReadyTypes
<1>6. Fresh
  BY <1>4 DEF Fresh
<1> QED
  BY <1>5, <1>6 DEF ReadyInv

LEMMA ReadySteps == ReadyInv /\ [R!Next]_readiness => ReadyInv'
<1> SUFFICES ASSUME ReadyInv, [R!Next]_readiness PROVE ReadyInv'
  OBVIOUS
<1> USE ProgressAssumption DEF ReadyInv, ReadyTypes
<1>1. ASSUME NEW r \in Prober, R!Serve(r) \/ R!Leave(r) PROVE ReadyInv'
  BY <1>1 DEF R!Serve, R!Leave, Fresh
<1>2. ASSUME NEW r \in Prober, R!Ask(r) PROVE ReadyInv'
  BY <1>2 DEF R!Ask, Fresh
<1>3. ASSUME NEW d \in Dependency, R!Reply(d) PROVE ReadyInv'
  <2>1. ReadyTypes'
    BY <1>3 DEF R!Reply, R!Settle, R!Forever
  <2>2. silent' = [silent EXCEPT ![d] = 0] /\ UNCHANGED <<inFlight, elapsed, outcome, age>>
        /\ probe' = [probe EXCEPT ![d] = "ok"]
    BY <1>3 DEF R!Reply, R!Settle
  <2>3. \A x \in Dependency : silent'[x] = IF x = d THEN 0 ELSE silent[x]
    BY <2>2
  <2>4. \A x \in Dependency \ {d} : probe'[x] = probe[x]
    BY <2>2
  <2>5. R!Forever \in Nat
    BY DEF R!Forever
  <2>6. Fresh'
    BY <2>2, <2>3, <2>4, <2>5 DEF Fresh
  <2> QED
    BY <2>1, <2>6
<1>4. ASSUME NEW d \in Dependency, R!Refuse(d) \/ R!TimeOut(d) PROVE ReadyInv'
  BY <1>4 DEF R!Refuse, R!TimeOut, R!Settle, Fresh
<1>5. CASE R!Finish
  <2>1. ReadyTypes'
    <3>1. /\ outcome' \in {200, 503} /\ UNCHANGED <<probe, elapsed, silent>>
          /\ inFlight' = FALSE /\ age' = 0
      BY <1>5 DEF R!Finish
    <3>2. answer' \in [Prober -> {0, 200, 500, 503}]
      BY <1>5, <3>1 DEF R!Finish
    <3>3. age' \in 0 .. R!Forever
      BY <3>1, ForeverIsNumber
    <3> QED
      BY <3>1, <3>2, <3>3
  <2>2. /\ ~inFlight' /\ age' = 0 /\ silent' = silent
        /\ outcome' = 200 => inFlight /\ \A d \in Dependency : probe[d] = "ok"
    BY <1>5 DEF R!Finish
  <2>3. R!Forever \in Nat
    BY DEF R!Forever
  <2>4. Fresh'
    BY <2>2, <2>3 DEF Fresh
  <2> QED
    BY <2>1, <2>4
<1>6. CASE R!Break
  <2>1. answer' \in [Prober -> {0, 200, 500, 503}]
    BY <1>6 DEF R!Break
  <2>2. /\ inFlight' = FALSE
        /\ UNCHANGED <<probe, elapsed, outcome, age, silent>>
    BY <1>6 DEF R!Break
  <2> QED
    BY <2>1, <2>2 DEF Fresh
<1>7. CASE R!Tick
  <2>1. /\ UNCHANGED <<answer, inFlight, probe, outcome>>
        /\ elapsed' = IF inFlight THEN elapsed + 1 ELSE elapsed
        /\ inFlight => elapsed < Timeout
        /\ age' = R!Later(age)
        /\ \A d \in Dependency : silent'[d] = R!Later(silent[d])
    BY <1>7 DEF R!Tick, R!Due
  <2>2. ASSUME NEW n \in 0 .. R!Forever
        PROVE  R!Later(n) \in 0 .. R!Forever /\ R!Later(n) <= n + 1
    BY DEF R!Later, R!Forever
  <2>3. ReadyTypes'
    BY <1>7, <2>1, <2>2 DEF R!Tick
  <2>4. ASSUME NEW d \in Dependency, silent[d] <= Timeout + age
        PROVE  silent'[d] <= Timeout + age'
    BY <2>1, <2>4 DEF R!Later, R!Forever
  <2>5. ASSUME NEW d \in Dependency, inFlight, silent[d] <= elapsed
        PROVE  silent'[d] <= elapsed'
    <3>1. silent[d] \in 0 .. R!Forever /\ silent'[d] = R!Later(silent[d])
      BY <2>1
    <3> QED
      BY <2>1, <2>2, <2>5, <3>1 DEF R!Forever
  <2> QED
    BY <2>1, <2>3, <2>4, <2>5 DEF Fresh
<1>8. CASE UNCHANGED readiness
  BY <1>8 DEF readiness, Fresh
<1> QED
  BY <1>1, <1>2, <1>3, <1>4, <1>5, <1>6, <1>7, <1>8 DEF R!Next

\* Who is told "ready" in a step is told so of recent replies.
LEMMA ToldReady ==
  ASSUME ReadyInv, [R!Next]_readiness, NEW r \in Prober, answer[r] = 0, answer'[r] = 200,
         NEW d \in Dependency
  PROVE  silent[d] < Timeout + Cached
<1> USE ProgressAssumption DEF ReadyInv, ReadyTypes
<1>1. ASSUME NEW q \in Prober, R!Serve(q) PROVE silent[d] < Timeout + Cached
  <2>1. outcome = 200 /\ age < Cached
    BY <1>1 DEF R!Serve
  <2>2. silent[d] <= Timeout + age /\ silent[d] \in Nat /\ age \in Nat
    BY <2>1 DEF Fresh, R!Forever
  <2> QED
    BY <2>1, <2>2
<1>2. CASE R!Finish
  <2>1. inFlight /\ probe[d] = "ok"
    BY <1>2 DEF R!Finish
  <2>2. silent[d] <= elapsed /\ silent[d] \in Nat
    BY <2>1 DEF Fresh, R!Forever
  <2> QED
    BY <2>2
<1>3. ~R!Break
  BY DEF R!Break
<1>4. \A q \in Prober : ~R!Leave(q)
  BY DEF R!Leave
<1>5. answer' # answer
  OBVIOUS
<1> QED
  BY <1>1, <1>2, <1>3, <1>4, <1>5 DEF R!Next, R!Ask, R!Reply, R!Refuse, R!TimeOut, R!Settle,
       R!Tick, readiness

\* Whatever runs, replies and outcomes overlap: nobody is told that the API is
\* ready unless each dependency answered a probe within one run and one
\* lifetime of an outcome.
THEOREM ReadyIsRecentlySo == ProgressSpec => ReadyIsRecent
<1> DEFINE A == \A r \in Prober : answer[r] = 0 /\ answer'[r] = 200 =>
                  \A d \in Dependency : silent[d] < Timeout + Cached
<1>1. ProgressInit => ReadyInv
  BY ReadyStarts DEF ProgressInit
<1>2. ReadyInv /\ [ProgressNext]_Everything => ReadyInv'
  BY EachItsOwn, ReadySteps
<1>3. ReadyInv /\ [ProgressNext]_Everything => [A]_readiness
  BY EachItsOwn, ToldReady
<1>4. readiness = R!vars
  BY DEF readiness, R!vars
<1>5. ReadyIsRecent <=> [][A]_readiness
  BY <1>4 DEF ReadyIsRecent, R!ReadyIsRecent, readiness, R!vars
<1> QED
  BY <1>1, <1>2, <1>3, <1>5, PTL DEF ProgressSpec

(* SharedClient.  Fingerprints are of schemas there have been; and while   *)
(* no lock was taken from a builder, whoever works has the lock, works     *)
(* alone, and generates for no older schema than the marker names.         *)
BuildTypes ==
  /\ schema \in Nat \ {0} /\ client \in Nat /\ marker \in Nat
  /\ wanted \in [Builder -> Nat] /\ built \in [Builder -> Nat]
  /\ buildPc \in [Builder -> {"start", "knock", "look", "steal", "check", "probe", "generate",
                              "generating", "verify", "mark", "release", "end"}]
Produced(b) == buildPc[b] \in {"generating", "verify", "mark"}
Fingerprints ==
  /\ marker <= schema
  /\ \A b \in Builder : wanted[b] <= schema /\ (Produced(b) => wanted[b] <= built[b])
Alone ==
  ~robbed => /\ \A b \in Builder : S!Working(b) => lock
             /\ \A b, q \in Builder : S!Working(b) /\ S!Working(q) => b = q
             /\ \A b \in Builder : Produced(b) => marker <= built[b]
             /\ \A b \in Builder : buildPc[b] \in {"verify", "mark"} => client = built[b]
             /\ client # 0 /\ marker # 0 => client >= marker
BuildInv == BuildTypes /\ Fingerprints /\ Alone

LEMMA BuildStarts == S!Init => BuildInv
BY DEF S!Init, S!None, S!Working, BuildInv, BuildTypes, Fingerprints, Alone, Produced

LEMMA BuildSteps == BuildInv /\ [S!Next]_building => BuildInv'
<1> SUFFICES ASSUME BuildInv, [S!Next]_building PROVE BuildInv'
  OBVIOUS
<1> USE DEF BuildInv, BuildTypes, Fingerprints, Alone, Produced, S!Go, S!Working, S!None, S!own
<1>1. ASSUME NEW b \in Builder, S!Fingerprint(b) PROVE BuildInv'
  BY <1>1 DEF S!Fingerprint
<1>2. ASSUME NEW b \in Builder, S!Knock(b) PROVE BuildInv'
  BY <1>2 DEF S!Knock
<1>3. ASSUME NEW b \in Builder, S!Look(b) PROVE BuildInv'
  BY <1>3 DEF S!Look
<1>4. ASSUME NEW b \in Builder, S!Steal(b) PROVE BuildInv'
  BY <1>4 DEF S!Steal, S!Remove, S!Others
<1>5. ASSUME NEW b \in Builder, S!Check(b) \/ S!Probe(b) PROVE BuildInv'
  BY <1>5 DEF S!Check, S!Probe
<1>6. ASSUME NEW b \in Builder, S!Generate(b) PROVE BuildInv'
  BY <1>6 DEF S!Generate
<1>7. ASSUME NEW b \in Builder, S!Generated(b) PROVE BuildInv'
  BY <1>7 DEF S!Generated
<1>8. ASSUME NEW b \in Builder, S!GeneratorFails(b) PROVE BuildInv'
  BY <1>8 DEF S!GeneratorFails
<1>9. ASSUME NEW b \in Builder, S!Verify(b) PROVE BuildInv'
  BY <1>9 DEF S!Verify
<1>10. ASSUME NEW b \in Builder, S!Mark(b) PROVE BuildInv'
  BY <1>10 DEF S!Mark
<1>11. ASSUME NEW b \in Builder, S!Release(b) PROVE BuildInv'
  BY <1>11 DEF S!Release, S!Remove, S!Others
<1>12. ASSUME NEW b \in Builder, S!Crash(b) PROVE BuildInv'
  BY <1>12 DEF S!Crash
<1>13. CASE S!Age \/ S!Edit \/ \E b \in Builder : S!Deadline(b)
  BY <1>13 DEF S!Age, S!Edit, S!Deadline
<1>14. CASE UNCHANGED building
  BY <1>14 DEF building
<1> QED
  BY <1>1, <1>2, <1>3, <1>4, <1>5, <1>6, <1>7, <1>8, <1>9, <1>10, <1>11, <1>12, <1>13, <1>14
     DEF S!Next, S!Step

\* However often builders are killed, generators fail and schemas are edited:
\* unless a lock was taken from under a builder, one builds at a time and a
\* client that loads is no older than its marker says.
THEOREM ClientFits == ProgressSpec => []ClientFitsMarker
<1>1. ProgressInit => BuildInv
  BY BuildStarts DEF ProgressInit
<1>2. BuildInv /\ [ProgressNext]_Everything => BuildInv'
  BY EachItsOwn, BuildSteps
<1>3. BuildInv => ClientFitsMarker
  BY DEF BuildInv, Alone, ClientFitsMarker, S!ClientFitsMarker, S!None
<1> QED
  BY <1>1, <1>2, <1>3, PTL DEF ProgressSpec
=============================================================================
