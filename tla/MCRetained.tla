------------------------------- MODULE MCRetained -------------------------------
(* Instances of Retained for TLC. *)
EXTENDS Retained, TLC

CONSTANTS p1, p2, s1, s2

Symmetry == Permutations(Publishers) \cup Permutations(Subscribers)
=================================================================================
