-------------------------------- MODULE MCAccess --------------------------------
(***************************************************************************)
(* An instance of Access for TLC: every pattern of up to three levels as   *)
(* the only one of a configuration, held against every filter of up to     *)
(* three levels and every name; and a configuration with templates and     *)
(* roles, for tokens of several kinds.                                     *)
(***************************************************************************)
EXTENDS Access

UpTo(k, S) == UNION {[1..j -> S] : j \in 1..k}

MCDollar   == {"$s", "$share"}
MCLiterals == {"", "a", "b"} \cup MCDollar
MCFilters  == UpTo(3, {"", "a", "$s", "+", "#", "a+"})
MCNames    == (UpTo(3, {"", "a", "b", "$s"}) \ {<<"">>}) \cup {<<"a", "a", "a", "a">>}

Rule(role, patterns) == [role |-> role, publish |-> patterns, subscribe |-> patterns]

Single == {<<Rule("*", <<f>>)>> : f \in MCFilters}
Templated ==
  <<Rule("*", << <<"a", "{sub}", "#">>, <<"{team}", "+">>, <<"a", "{sub">> >>),
    Rule("admin", << <<"a", "#">>, <<"{sub}", "b">> >>)>>
MCAclRules == Single \cup {Templated}

Token(genuine, aud, identity, roles, claims) ==
  [genuine |-> genuine, aud |-> aud, identity |-> identity, roles |-> roles, claims |-> claims]
NoClaims == [v \in {} |-> <<>>]

MCPasswords ==
  {Token(FALSE, {"relay"}, <<"a">>, {}, NoClaims),
   Token(TRUE, {}, <<"a">>, {}, NoClaims),
   Token(TRUE, {"relay"}, <<>>, {"admin"}, NoClaims),
   Token(TRUE, {"relay", "other"}, <<"a">>, {}, NoClaims),
   Token(TRUE, {"relay"}, <<"b">>, {"guest"}, [v \in {"{team}", "{sub}"} |-> <<"b", "a">>]),
   Token(TRUE, {"relay"}, <<"b">>, {"admin"}, NoClaims)}

MCRequests ==
  MCFilters \cup {<<"$share", g>> \o f : g \in {"a", "+", ""}, f \in UpTo(2, {"a", "b", "+", "#"})}
=================================================================================
