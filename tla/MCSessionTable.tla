---------------------------- MODULE MCSessionTable ----------------------------
(***************************************************************************)
(* Small instances of SessionTable.                                        *)
(***************************************************************************)
EXTENDS SessionTable, TLC

CONSTANTS c1, c2, k1, k2, f1

\* Both clients may ask for any kind of interval, and change it.
AnyExpiry == [cl \in Clients |-> {0, 60, NO_EXPIRY}]

Symmetry == Permutations(Clients) \cup Permutations(Conns)
===============================================================================
