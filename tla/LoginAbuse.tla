----------------------------- MODULE LoginAbuse -----------------------------
(***************************************************************************)
(* The delays booking-os puts on logins.  Redis counts recent failures per *)
(* account, per source network and per pair of both; scripts are atomic.   *)
(* A login reads its delay, sleeps, checks the password and then records   *)
(* what came of it.  Whether password and subject are good is open here:   *)
(* that is Credentials.  Time counts ticks; a counter lives Window ticks   *)
(* after it was last written.                                              *)
(***************************************************************************)
EXTENDS Naturals, FiniteSets

CONSTANTS
  Attempt,      \* logins, each made once
  Account, Network, Host,
  Base, Limit,  \* baseDelayMs, maxDelayMs
  Window,       \* ttlMs, in ticks
  MaxTime       \* bound of the model on the clock

VARIABLES
  now,
  count,   \* count[k]: the value of counter k, 0 when there is none
  until,   \* until[k]: when it expires
  pc,      \* what an attempt does next
  from,    \* its e-mail account and its address
  delay,   \* the delay it was given
  missed   \* history: failures less successes of a pair, and when the last was

vars == <<now, count, until, pc, from, delay, missed>>

Address == Network \X Host
Summary(address) == address[1]        \* IPv4 /24, IPv6 /56
Source == Network
Counter == [account : Account] \union [source : Source]
             \union [account : Account, source : Source]

\* Faulty variant: the pair has no counter of its own.
KeysWithoutPair(a, s) == {[account |-> a], [source |-> s]}

Keys(a, s) == {[account |-> a], [source |-> s], [account |-> a, source |-> s]}
KeysOf(r) == Keys(from[r].account, Summary(from[r].address))
Pair(r) == [account |-> from[r].account, source |-> Summary(from[r].address)]

Value(k) == IF until[k] > now THEN count[k] ELSE 0
Worst(K) == CHOOSE n \in {Value(k) : k \in K} : \A k \in K : Value(k) <= n
Capped(d) == IF d > Limit THEN Limit ELSE d
Doubled[n \in Nat] == IF n = 0 THEN 1 ELSE 2 * Doubled[n - 1]   \* 2 ** n
Delay(failures) == IF failures = 0 THEN 0 ELSE Capped(Base * Doubled[failures - 1])
-----------------------------------------------------------------------------
Init ==
  /\ now = 0
  /\ count = [k \in Counter |-> 0] /\ until = [k \in Counter |-> 0]
  /\ pc = [r \in Attempt |-> "new"]
  /\ from \in [Attempt -> [account : Account, address : Address]]
  /\ delay = [r \in Attempt |-> 0]
  /\ missed = [k \in Account \X Source |-> [net |-> 0, last |-> 0]]

Go(r, label) == pc' = [pc EXCEPT ![r] = label]
Write(K, value) ==   \* INCR or DECR, and PEXPIRE; DEL where 0 is written
  /\ count' = [k \in Counter |-> IF k \in K THEN value[k] ELSE Value(k)]
  /\ until' = [k \in Counter |-> IF k \in K /\ value[k] > 0 THEN now + Window
                                 ELSE IF k \in K THEN now ELSE until[k]]
Net(p) == IF missed[p].last + Window > now THEN missed[p].net ELSE 0
Remember(r, n) == LET p == <<from[r].account, Summary(from[r].address)>> IN
  missed' = [missed EXCEPT ![p] = [net |-> n, last |-> now]]

Before(r) ==
  /\ pc[r] = "new"
  /\ delay' = [delay EXCEPT ![r] = Delay(Worst(KeysOf(r)))]
  /\ Go(r, "sleep")
  /\ UNCHANGED <<now, count, until, from, missed>>
Reject(r) ==    \* bad password, user not active, or no subject in this scope
  /\ pc[r] = "sleep"
  /\ Write(KeysOf(r), [k \in Counter |-> Value(k) + 1])
  /\ Remember(r, Net(<<from[r].account, Summary(from[r].address)>>) + 1)
  /\ Go(r, "refused")
  /\ UNCHANGED <<now, from, delay>>

Lowered == [k \in Counter |-> IF Value(k) <= 1 THEN 0 ELSE Value(k) - 1]
Accept(r) ==
  /\ pc[r] = "sleep"
  /\ Write(KeysOf(r), Lowered)
  /\ LET n == Net(<<from[r].account, Summary(from[r].address)>>) IN
       Remember(r, IF n = 0 THEN 0 ELSE n - 1)
  /\ Go(r, "ok")
  /\ UNCHANGED <<now, from, delay>>
Unavailable(r) ==   \* Redis fails: no login without its protection
  /\ pc[r] \in {"new", "sleep"}
  /\ Go(r, "unavailable")
  /\ UNCHANGED <<now, count, until, from, delay, missed>>
Tick ==
  /\ now < MaxTime
  /\ now' = now + 1
  /\ UNCHANGED <<count, until, pc, from, delay, missed>>

Next == \/ \E r \in Attempt : Before(r) \/ Reject(r) \/ Accept(r) \/ Unavailable(r)
        \/ Tick
Spec == Init /\ [][Next]_vars
-----------------------------------------------------------------------------
(* Values have their types: counters never exceed the failures there were, *)
(* delays never the limit.                                                 *)
TypeOK ==
  /\ now \in 0 .. MaxTime
  /\ count \in [Counter -> 0 .. Cardinality(Attempt)] /\ until \in [Counter -> Nat]
  /\ pc \in [Attempt -> {"new", "sleep", "refused", "ok", "unavailable"}]
  /\ delay \in [Attempt -> 0 .. Limit]

(* Successes of other accounts behind the same network, or of the account  *)
(* from another network, never take away the delay that the failures of    *)
(* one account from one network have earned within the window.             *)
FailuresKeepTheirDelay ==
  \A a \in Account, s \in Source : Delay(Worst(Keys(a, s))) >= Delay(Net(<<a, s>>))
=============================================================================
