-------------------------------- MODULE MCRouter --------------------------------
(* Instances of Router for TLC. *)
EXTENDS Router, TLC

CONSTANTS c1, c2, p1, p2

\* Like the filters a/# and a/b with the topics a/b and a/c.
MCFilters  == {"wide", "narrow"}
MCTopics   == {"ab", "ac"}
MCMatching == {<<"wide", "ab">>, <<"wide", "ac">>, <<"narrow", "ab">>}

Symmetry == Permutations(Clients) \cup Permutations(Publishers)
=================================================================================
