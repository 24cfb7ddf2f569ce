------------------------------- MODULE TopicMatch -------------------------------
(***************************************************************************)
(* The loop of topic_matches (topic.rs), which walks a filter and a topic  *)
(* name level by level, against what MQTT says a filter matches.           *)
(***************************************************************************)
EXTENDS Topics

VARIABLES filter, topic, i, result

vars == <<filter, topic, i, result>>

\* The leading-'$' rule, which the code tests before its loop.
Entry(f, t) == IF HeldBack(f, t) THEN "false" ELSE "running"

Init ==
  /\ filter \in Filters
  /\ topic \in TopicNames
  /\ i = 1
  /\ result = Entry(filter, topic)

Return(r) == result' = r /\ UNCHANGED <<filter, topic, i>>

Continue == i' = i + 1 /\ UNCHANGED <<filter, topic, result>>

\* f.next() and t.next(): there is a level i.
InFilter == i <= Len(filter)
InTopic  == i <= Len(topic)

\* (Mutant: '#' needs a level to match.)
HashLevel_NotParent == InFilter /\ filter[i] = Hash /\ InTopic
HashLevel == InFilter /\ filter[i] = Hash

Step ==
  /\ result = "running"
  /\ \/ HashLevel /\ Return("true")
     \/ ~HashLevel /\ InFilter /\ InTopic /\ Agrees(filter[i], topic[i]) /\ Continue
     \/ ~InFilter /\ ~InTopic /\ Return("true")
     \/ ~HashLevel /\ (InFilter \/ InTopic)
          /\ ~(InFilter /\ InTopic /\ Agrees(filter[i], topic[i])) /\ Return("false")

Spec == Init /\ [][Step]_vars

-------------------------------------------------------------------------------
\* The variables have their types; the walk stops at the latest one past the end
\* of the shorter of the two.
TypeOK ==
  /\ filter \in Filters
  /\ topic \in TopicNames
  /\ i \in Nat \ {0}
  /\ i <= Len(filter) + 1 /\ i <= Len(topic) + 1
  /\ result \in {"running", "true", "false"}

\* For a filter that TopicFilter::parse accepts, topic_matches answers what MQTT
\* says, the parent level of '#' and the '$' rule included.
MatchesCorrect ==
  parse(filter) /\ result # "running" => (result = "true" <=> Matches(filter, topic))
=================================================================================
