----------------------------- MODULE MCInflightStore -----------------------------
(* Instances of InflightStore for TLC. *)
EXTENDS InflightStore, TLC

CONSTANTS t1, t2

Symmetry == Permutations(Tasks)
=================================================================================
