-------------------------- MODULE MCConsoleSession --------------------------
(* Instances of ConsoleSession for TLC: calls are interchangeable.         *)
EXTENDS ConsoleSession, TLC

Symmetry == Permutations(Call)
=============================================================================
