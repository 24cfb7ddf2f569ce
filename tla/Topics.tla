--------------------------------- MODULE Topics ---------------------------------
(***************************************************************************)
(* Topic names and topic filters (topic.rs).  A name or filter is the      *)
(* sequence of its levels, the parts between '/'; it has at least one.     *)
(***************************************************************************)
EXTENDS Integers, Sequences

CONSTANTS
  Literals,  \* levels without wildcard characters
  Dollar,    \* those that begin with '$'
  Blank,     \* the empty level
  Mixed,     \* levels in which '+' or '#' is not alone
  Filters,   \* the filters,
  TopicNames \* and the topic names, that occur

Plus == "+"
Hash == "#"

ASSUME LevelsAssumption ==
  /\ Dollar \subseteq Literals
  /\ Blank \in Literals \ Dollar
  /\ Plus \notin Literals /\ Hash \notin Literals
  /\ Mixed \cap (Literals \cup {Plus, Hash}) = {}

Level == Literals \cup Mixed \cup {Plus, Hash}

Names   == Seq(Literals) \ {<<>>}
Strings == Seq(Level) \ {<<>>}

ASSUME InputsAssumption == Filters \subseteq Strings /\ TopicNames \subseteq Names

\* TopicFilter::parse accepts the string.
parse(f) ==
  /\ f # <<Blank>>
  /\ \A i \in 1..Len(f) : /\ f[i] \notin Mixed
                          /\ f[i] = Hash => i = Len(f)

\* A level of a filter agrees with a level of a name.
Agrees(fl, tl) == fl = Plus \/ fl = tl

\* The leading-'$' rule: a wildcard first level does not match '$' topics.
HeldBack(f, t) == t[1] \in Dollar /\ f[1] \in {Plus, Hash}

\* MQTT 5, 4.7: what a filter matches.
Matches(f, t) ==
  /\ t[1] \in Dollar => f[1] \notin {Plus, Hash}
  /\ IF f[Len(f)] = Hash
       THEN /\ Len(f) - 1 <= Len(t)
            /\ \A i \in 1..(Len(f) - 1) : Agrees(f[i], t[i])
       ELSE /\ Len(f) = Len(t)
            /\ \A i \in 1..Len(f) : Agrees(f[i], t[i])
=================================================================================
