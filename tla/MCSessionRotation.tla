------------------------- MODULE MCSessionRotation -------------------------
(* Instances of SessionRotation for TLC: requests are interchangeable.     *)
EXTENDS SessionRotation, TLC

Symmetry == Permutations(Request)
=============================================================================
