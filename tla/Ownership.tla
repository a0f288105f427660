----------------------------- MODULE Ownership -----------------------------
(***************************************************************************)
(* What a tenant is promised about its owners: the first one arrives       *)
(* together with the tenant's activation, owners come and go one at a      *)
(* time, and the last one never goes.  Memberships, requests, locks and    *)
(* triggers do not appear.                                                 *)
(***************************************************************************)
CONSTANT Member
VARIABLES live, owners

ovars == <<live, owners>>

Init == /\ live \in BOOLEAN
        /\ owners \in SUBSET Member
        /\ live <=> owners # {}

Activate(m) == ~live /\ live' = TRUE /\ owners' = {m}

Gain(m) == live /\ owners' = owners \cup {m} /\ UNCHANGED live

Lose(m) == /\ owners \ {m} # {}
           /\ owners' = owners \ {m}
           /\ UNCHANGED live

Next == \E m \in Member : Activate(m) \/ Gain(m) \/ Lose(m)

Promise == Init /\ [][Next]_ovars
=============================================================================
