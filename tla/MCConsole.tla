----------------------------- MODULE MCConsole ------------------------------
(* An instance for TLC of two modules side by side: a browser with its     *)
(* session cookie, and the delays on logins.  Each behaviour is one of a   *)
(* single module, the other rests.  Calls are interchangeable.             *)
EXTENDS ConsoleSession, TLC

CONSTANTS Attempt, Account, Network, Host, Base, Limit, Window, MaxTime   \* LoginAbuse
ASSUME AbuseAssumption ==   \* the code reads positive whole numbers
  {Base, Limit, MaxTime} \subseteq Nat /\ Window \in Nat \ {0}

VARIABLES
  part,       \* the module that runs
  now, count, until, attemptPc, from, delay, missed

L == INSTANCE LoginAbuse WITH pc <- attemptPc

abuse == <<now, count, until, attemptPc, from, delay, missed>>
Symmetry == Permutations(Call)

ConsoleInit ==
  /\ part \in {"console", "abuse"} /\ Init /\ L!Init
  /\ part = "console" =>
       from = [r \in Attempt |-> CHOOSE f \in [account : Account, address : L!Address] : TRUE]
  /\ part = "abuse" => state[Start] = "active"
ConsoleNext ==
  \/ part = "console" /\ Next /\ UNCHANGED <<part, abuse>>
  \/ part = "abuse" /\ L!Next /\ UNCHANGED <<part, vars>>
ConsoleSpec == ConsoleInit /\ [][ConsoleNext]_<<part, vars, abuse>>

(* Successes of others never take away the delay that the failures of one  *)
(* account from one network have earned.                                   *)
FailuresKeepTheirDelay == L!FailuresKeepTheirDelay
=============================================================================
