------------------------------ MODULE MCOutbox ------------------------------
(* Outbox on small instances, for the runs that look for a violation.      *)
EXTENDS Outbox, TLC

Symmetry == Permutations(Worker)
=============================================================================
