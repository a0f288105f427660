--------------------------- MODULE MCCredentials ---------------------------
(* Instances of Credentials for TLC: requests are interchangeable.         *)
EXTENDS Credentials, TLC

Symmetry == Permutations(Request)
=============================================================================
