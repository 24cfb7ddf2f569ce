------------------------------- MODULE MCEventLog -------------------------------
(* An instance of EventLog for TLC. *)
EXTENDS EventLog

CONSTANTS t1, t2

Symmetry == Permutations(Tasks)
=================================================================================
