------------------------------ MODULE MCConnection ------------------------------
(* An instance of Connection for TLC. *)
EXTENDS Connection

CONSTANTS k1, k2, k3, f1, f2
=================================================================================
