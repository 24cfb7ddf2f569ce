------------------------------ MODULE AccessProofs ------------------------------
(***************************************************************************)
(* topic_matches and filter_subsumes are right wherever the ACL of a       *)
(* connection calls them, whatever the patterns and the topics, and        *)
(* can_publish and can_subscribe answer what the patterns say.             *)
(***************************************************************************)
EXTENDS Access, TLAPS

\* At '#' the answer true is right: it is the last level.
LEMMA HashRight ==
  ASSUME NEW f \in Strings, NEW t \in Names, NEW j \in Nat \ {0},
         parse(f), ~HeldBack(f, t), j <= Len(f), j <= Len(t) + 1, f[j] = Hash,
         \A k \in 1..(j - 1) : Agrees(f[k], t[k])
  PROVE  Matches(f, t)
<1>1. j = Len(f)
  BY DEF parse, Strings
<1>2. QED
  BY <1>1 DEF Matches, HeldBack, Strings, Names

\* At the end of both the answer true is right.
LEMMA BothEnd ==
  ASSUME NEW f \in Strings, NEW t \in Names, NEW j \in Nat \ {0},
         ~HeldBack(f, t), j = Len(f) + 1, j = Len(t) + 1,
         \A k \in 1..(j - 1) : Agrees(f[k], t[k]) /\ f[k] # Hash
  PROVE  Matches(f, t)
<1>1. Len(f) \in Nat \ {0} /\ Len(t) = Len(f)
  BY DEF Strings, Names
<1>2. f[Len(f)] # Hash
  BY <1>1
<1>3. QED
  BY <1>1, <1>2 DEF Matches, HeldBack

\* Where the two differ, or one ends before the other, the answer false is right.
LEMMA Differ ==
  ASSUME NEW f \in Strings, NEW t \in Names, NEW j \in Nat \ {0},
         j <= Len(f) + 1, j <= Len(t) + 1,
         parse(f),
         j <= Len(f) => f[j] # Hash,
         \A k \in 1..(j - 1) : f[k] # Hash,
         j <= Len(f) \/ j <= Len(t),
         ~(j <= Len(f) /\ j <= Len(t) /\ Agrees(f[j], t[j]))
  PROVE  ~Matches(f, t)
<1>1. Len(f) \in Nat \ {0} /\ Len(t) \in Nat \ {0}
  BY DEF Strings, Names
<1>2. CASE f[Len(f)] = Hash
  <2>1. j < Len(f)
    BY <1>1, <1>2
  <2>2. j \in 1..(Len(f) - 1)
    BY <1>1, <2>1
  <2>3. QED
    BY <1>1, <1>2, <2>1, <2>2 DEF Matches
<1>3. CASE f[Len(f)] # Hash
  <2>1. CASE Len(f) = Len(t)
    <3>1. j \in 1..Len(f)
      BY <1>1, <2>1
    <3>2. QED
      BY <1>1, <1>3, <2>1, <3>1 DEF Matches
  <2>2. CASE Len(f) # Len(t)
    BY <1>3, <2>2 DEF Matches
  <2>3. QED
    BY <2>1, <2>2
<1>4. QED
  BY <1>2, <1>3

-------------------------------------------------------------------------------
(***************************************************************************)
(* The loop of topic_matches.                                              *)
(***************************************************************************)
\* What the loop knows when it comes to level i: all the levels before it agree, and
\* none of them is '#'; and what it has answered is right.
MatchWalk ==
  /\ i \in Nat \ {0} /\ i <= Len(left) + 1 /\ i <= Len(right) + 1
  /\ result \in {"running", "true", "false"}
  /\ parse(left) =>
       /\ result = "running" => /\ ~HeldBack(left, right)
                                /\ \A k \in 1..(i - 1) : Agrees(left[k], right[k])
                                                         /\ left[k] # Hash
       /\ result # "running" => (result = "true" <=> Matches(left, right))

LEMMA MatchingStep ==
  ASSUME Matching!Step
  PROVE  /\ result = "running" /\ left' = left /\ right' = right
         /\ \/ i <= Len(left) /\ left[i] = Hash /\ result' = "true" /\ i' = i
            \/ /\ i <= Len(left) /\ left[i] # Hash /\ i <= Len(right)
               /\ Agrees(left[i], right[i]) /\ i' = i + 1 /\ result' = "running"
            \/ ~(i <= Len(left)) /\ ~(i <= Len(right)) /\ result' = "true" /\ i' = i
            \/ /\ ~(i <= Len(left) /\ left[i] = Hash) /\ (i <= Len(left) \/ i <= Len(right))
               /\ ~(i <= Len(left) /\ i <= Len(right) /\ Agrees(left[i], right[i]))
               /\ result' = "false" /\ i' = i
BY DEF Matching!Step, Matching!HashLevel, Matching!InFilter, Matching!InTopic, Matching!Return,
       Matching!Continue, Matching!Agrees, Agrees, Matching!Hash, Hash, Matching!Plus, Plus

LEMMA MatchBegins ==
  ASSUME left' \in Strings, right' \in Names, i' = 1, result' = Matching!Entry(left', right')
  PROVE  MatchWalk'
<1>1. Len(left') \in Nat \ {0} /\ Len(right') \in Nat \ {0}
  BY DEF Strings, Names
<1>2. result' = IF HeldBack(left', right') THEN "false" ELSE "running"
  BY DEF Matching!Entry, Matching!HeldBack, HeldBack, Matching!Plus, Plus, Matching!Hash, Hash
<1>3. HeldBack(left', right') => ~Matches(left', right')
  BY DEF Matches, HeldBack
<1> QED BY <1>1, <1>2, <1>3 DEF MatchWalk

LEMMA MatchContinues ==
  ASSUME left \in Strings, right \in Names, MatchWalk, Matching!Step
  PROVE  MatchWalk'
<1>1. /\ result = "running" /\ left' = left /\ right' = right /\ i \in Nat \ {0}
      /\ Len(left) \in Nat \ {0} /\ Len(right) \in Nat \ {0}
      /\ i <= Len(left) + 1 /\ i <= Len(right) + 1
  BY MatchingStep DEF MatchWalk, Strings, Names
<1>2. parse(left) => /\ ~HeldBack(left, right)
                     /\ \A k \in 1..(i - 1) : Agrees(left[k], right[k]) /\ left[k] # Hash
  BY <1>1 DEF MatchWalk
<1>3. CASE i <= Len(left) /\ left[i] = Hash /\ result' = "true" /\ i' = i
  <2>1. parse(left) => Matches(left, right)
    BY <1>1, <1>2, <1>3, HashRight
  <2> QED BY <1>1, <1>3, <2>1 DEF MatchWalk
<1>4. CASE /\ i <= Len(left) /\ left[i] # Hash /\ i <= Len(right)
           /\ Agrees(left[i], right[i]) /\ i' = i + 1 /\ result' = "running"
  <2>1. i' \in Nat \ {0} /\ i' <= Len(left) + 1 /\ i' <= Len(right) + 1 /\ i' - 1 = i
    BY <1>1, <1>4
  <2>2. ASSUME parse(left), NEW k \in 1..i PROVE Agrees(left[k], right[k]) /\ left[k] # Hash
    <3>1. k = i \/ k \in 1..(i - 1)
      BY <1>1
    <3> QED BY <1>2, <1>4, <2>2, <3>1
  <2> QED BY <1>1, <1>2, <1>4, <2>1, <2>2 DEF MatchWalk
<1>5. CASE ~(i <= Len(left)) /\ ~(i <= Len(right)) /\ result' = "true" /\ i' = i
  <2>1. i = Len(left) + 1 /\ i = Len(right) + 1
    BY <1>1, <1>5
  <2>2. parse(left) => Matches(left, right)
    BY <1>1, <1>2, <2>1, BothEnd
  <2> QED BY <1>1, <1>5, <2>2 DEF MatchWalk
<1>6. CASE /\ ~(i <= Len(left) /\ left[i] = Hash) /\ (i <= Len(left) \/ i <= Len(right))
           /\ ~(i <= Len(left) /\ i <= Len(right) /\ Agrees(left[i], right[i]))
           /\ result' = "false" /\ i' = i
  <2>1. parse(left) => ~Matches(left, right)
    BY <1>1, <1>2, <1>6, Differ
  <2> QED BY <1>1, <1>6, <2>1 DEF MatchWalk
<1> QED BY <1>3, <1>4, <1>5, <1>6, MatchingStep

\* For a filter that TopicFilter::parse accepts, topic_matches answers what MQTT says,
\* whatever the levels and the lengths: the loop on its own, for any filter and name.
THEOREM MatchesRight == Matching!Spec => []Matching!MatchesCorrect
<1> DEFINE Inv == left \in Strings /\ right \in Names /\ MatchWalk
<1>1. Matching!Init => Inv
  <2> SUFFICES ASSUME Matching!Init PROVE Inv
    OBVIOUS
  <2>1. left \in Strings /\ right \in Names /\ i = 1
    BY InputsAssumption DEF Matching!Init
  <2>2. result = IF HeldBack(left, right) THEN "false" ELSE "running"
    BY DEF Matching!Init, Matching!Entry, Matching!HeldBack, HeldBack, Matching!Plus, Plus,
           Matching!Hash, Hash
  <2>3. HeldBack(left, right) => ~Matches(left, right)
    BY DEF Matches, HeldBack
  <2>4. Len(left) \in Nat \ {0} /\ Len(right) \in Nat \ {0}
    BY <2>1 DEF Strings, Names
  <2> QED BY <2>1, <2>2, <2>3, <2>4 DEF MatchWalk
<1>2. Inv /\ [Matching!Step]_Matching!vars => Inv'
  <2>1. CASE UNCHANGED Matching!vars
    BY <2>1 DEF Matching!vars, MatchWalk
  <2>2. CASE Matching!Step
    BY <2>2, MatchContinues, MatchingStep
  <2> QED BY <2>1, <2>2
<1>3. Inv => Matching!MatchesCorrect
  BY DEF MatchWalk, Matching!MatchesCorrect, Matching!parse, parse, Matching!Hash, Hash,
         Matching!Matches, Matches, Matching!Agrees, Agrees, Matching!Plus, Plus
<1> QED BY <1>1, <1>2, <1>3, PTL DEF Matching!Spec

-------------------------------------------------------------------------------
(***************************************************************************)
(* The loop of filter_subsumes.                                            *)
(***************************************************************************)
\* A level of the request that the same level of the allowed filter covers.
CoveredAt(a, r, k) == /\ r[k] # Hash
                      /\ a[k] # Hash
                      /\ a[k] = Plus \/ (r[k] # Plus /\ a[k] = r[k])

\* What the one filter matches outside '$', the other matches.
Wider(a, r) ==
  \A t \in Names : t[1] \notin Dollar /\ Matches(r, t) => Matches(a, t)

\* A level that is covered agrees with whatever the requested level agrees with.
LEMMA CoveredAgrees ==
  ASSUME NEW a, NEW r, NEW k, NEW tl, CoveredAt(a, r, k), Agrees(r[k], tl)
  PROVE  Agrees(a[k], tl)
BY DEF CoveredAt, Agrees

\* At '#' everything from here on is covered.
LEMMA HashCovers ==
  ASSUME NEW a \in Strings, NEW r \in Strings, NEW j \in Nat \ {0},
         parse(a), parse(r), j <= Len(a), j <= Len(r) + 1, a[j] = Hash,
         \A k \in 1..(j - 1) : CoveredAt(a, r, k)
  PROVE  Wider(a, r)
<1>1. j = Len(a) /\ Len(a) \in Nat \ {0} /\ Len(r) \in Nat \ {0}
  BY DEF parse, Strings
<1>2. SUFFICES ASSUME NEW t \in Names, t[1] \notin Dollar, Matches(r, t)
               PROVE  Matches(a, t)
  BY DEF Wider
<1>3. Len(t) \in Nat \ {0}
  BY DEF Names
<1>4. t[1] \in Dollar => a[1] \notin {Plus, Hash}
  BY <1>2
<1>5. CASE r[Len(r)] = Hash
  <2>1. j - 1 <= Len(r) - 1
    <3>1. SUFFICES ASSUME j - 1 >= Len(r) PROVE FALSE
      BY <1>1
    <3>2. Len(r) \in 1..(j - 1)
      BY <1>1, <3>1
    <3>3. QED
      BY <1>5, <3>2 DEF CoveredAt
  <2>2. \A k \in 1..(j - 1) : Agrees(r[k], t[k])
    BY <1>1, <1>2, <1>5, <2>1 DEF Matches
  <2>3. Len(r) - 1 <= Len(t)
    BY <1>2, <1>5 DEF Matches
  <2>4. \A k \in 1..(j - 1) : Agrees(a[k], t[k])
    BY <2>2, CoveredAgrees, Zenon
  <2>5. QED
    BY <1>1, <1>3, <1>4, <2>1, <2>3, <2>4 DEF Matches
<1>6. CASE r[Len(r)] # Hash
  <2>1. Len(r) = Len(t) /\ \A k \in 1..Len(r) : Agrees(r[k], t[k])
    BY <1>2, <1>6 DEF Matches
  <2>2. \A k \in 1..(j - 1) : Agrees(r[k], t[k])
    BY <1>1, <2>1
  <2>3. \A k \in 1..(j - 1) : Agrees(a[k], t[k])
    BY <2>2, CoveredAgrees, Zenon
  <2>4. QED
    BY <1>1, <1>3, <1>4, <2>1, <2>3 DEF Matches
<1>7. QED
  BY <1>5, <1>6

\* Two filters of the same length, every level covered.
LEMMA AllCovered ==
  ASSUME NEW a \in Strings, NEW r \in Strings, Len(a) = Len(r),
         \A k \in 1..Len(a) : CoveredAt(a, r, k)
  PROVE  Wider(a, r)
<1>1. Len(a) \in Nat \ {0}
  BY DEF Strings
<1>2. SUFFICES ASSUME NEW t \in Names, t[1] \notin Dollar, Matches(r, t)
               PROVE  Matches(a, t)
  BY DEF Wider
<1>3. t[1] \in Dollar => a[1] \notin {Plus, Hash}
  BY <1>2
<1>4. a[Len(a)] # Hash /\ r[Len(r)] # Hash
  BY <1>1 DEF CoveredAt
<1>5. Len(r) = Len(t) /\ \A k \in 1..Len(r) : Agrees(r[k], t[k])
  BY <1>2, <1>4 DEF Matches
<1>6. \A k \in 1..Len(a) : Agrees(a[k], t[k])
  BY <1>5, CoveredAgrees, Zenon
<1>7. QED
  BY <1>3, <1>4, <1>5, <1>6 DEF Matches

\* What the loop knows when it comes to level i: all the levels before it are covered;
\* and when it has granted the request the allowed filter is the wider one.
SubsumeWalk ==
  /\ i \in Nat \ {0} /\ i <= Len(left) + 1 /\ i <= Len(right) + 1
  /\ result \in {"running", "true", "false"}
  /\ parse(left) /\ parse(right) =>
       /\ result = "running" => \A k \in 1..(i - 1) : CoveredAt(left, right, k)
       /\ result = "true" => Wider(left, right)

LEMMA SubsumingStep ==
  ASSUME Subsuming!Step
  PROVE  /\ result = "running" /\ left' = left /\ right' = right
         /\ \/ i <= Len(left) /\ left[i] = Hash /\ result' = "true" /\ i' = i
            \/ ~(i <= Len(left)) /\ ~(i <= Len(right)) /\ result' = "true" /\ i' = i
            \/ /\ i <= Len(left) /\ i <= Len(right) /\ CoveredAt(left, right, i)
               /\ i' = i + 1 /\ result' = "running"
            \/ result' = "false" /\ i' = i
BY DEF Subsuming!Step, Subsuming!HashAllowed, Subsuming!InAllowed, Subsuming!InRequested,
       Subsuming!Return, Subsuming!Continue, Subsuming!Covered, CoveredAt, Subsuming!Hash, Hash,
       Subsuming!Plus, Plus

LEMMA SubsumeBegins ==
  ASSUME left' \in Strings, right' \in Strings, i' = 1, result' = "running"
  PROVE  SubsumeWalk'
<1>1. Len(left') \in Nat \ {0} /\ Len(right') \in Nat \ {0}
  BY DEF Strings
<1> QED BY <1>1 DEF SubsumeWalk

LEMMA SubsumeContinues ==
  ASSUME left \in Strings, right \in Strings, SubsumeWalk, Subsuming!Step
  PROVE  SubsumeWalk'
<1>1. /\ result = "running" /\ left' = left /\ right' = right /\ i \in Nat \ {0}
      /\ Len(left) \in Nat \ {0} /\ Len(right) \in Nat \ {0}
      /\ i <= Len(left) + 1 /\ i <= Len(right) + 1
  BY SubsumingStep DEF SubsumeWalk, Strings
<1>2. parse(left) /\ parse(right) => \A k \in 1..(i - 1) : CoveredAt(left, right, k)
  BY <1>1 DEF SubsumeWalk
<1>3. CASE i <= Len(left) /\ left[i] = Hash /\ result' = "true" /\ i' = i
  <2>1. parse(left) /\ parse(right) => Wider(left, right)
    BY <1>1, <1>2, <1>3, HashCovers
  <2> QED BY <1>1, <1>3, <2>1 DEF SubsumeWalk
<1>4. CASE ~(i <= Len(left)) /\ ~(i <= Len(right)) /\ result' = "true" /\ i' = i
  <2>1. i - 1 = Len(left) /\ Len(left) = Len(right)
    BY <1>1, <1>4
  <2>2. parse(left) /\ parse(right) => Wider(left, right)
    BY <1>2, <2>1, AllCovered
  <2> QED BY <1>1, <1>4, <2>2 DEF SubsumeWalk
<1>5. CASE /\ i <= Len(left) /\ i <= Len(right) /\ CoveredAt(left, right, i)
           /\ i' = i + 1 /\ result' = "running"
  <2>1. i' \in Nat \ {0} /\ i' <= Len(left) + 1 /\ i' <= Len(right) + 1 /\ i' - 1 = i
    BY <1>1, <1>5
  <2>2. ASSUME parse(left), parse(right), NEW k \in 1..i PROVE CoveredAt(left, right, k)
    <3>1. k = i \/ k \in 1..(i - 1)
      BY <1>1
    <3> QED BY <1>2, <1>5, <2>2, <3>1
  <2> QED BY <1>1, <1>5, <2>1, <2>2 DEF SubsumeWalk
<1>6. CASE result' = "false" /\ i' = i
  BY <1>1, <1>6 DEF SubsumeWalk
<1> QED BY <1>3, <1>4, <1>5, <1>6, SubsumingStep

\* A request that filter_subsumes grants matches no topic name outside '$' that the
\* allowed filter does not match: the loop on its own, for any two filters.
THEOREM SubsumesRight == Subsuming!Spec => []Subsuming!SubsumesSound
<1> DEFINE Inv == left \in Strings /\ right \in Strings /\ SubsumeWalk
<1>1. Subsuming!Init => Inv
  <2> SUFFICES ASSUME Subsuming!Init PROVE Inv
    OBVIOUS
  <2>1. left \in Strings /\ right \in Strings /\ i = 1 /\ result = "running"
    BY InputsAssumption DEF Subsuming!Init
  <2>2. Len(left) \in Nat \ {0} /\ Len(right) \in Nat \ {0}
    BY <2>1 DEF Strings
  <2> QED BY <2>1, <2>2 DEF SubsumeWalk
<1>2. Inv /\ [Subsuming!Step]_Subsuming!vars => Inv'
  <2>1. CASE UNCHANGED Subsuming!vars
    BY <2>1 DEF Subsuming!vars, SubsumeWalk
  <2>2. CASE Subsuming!Step
    BY <2>2, SubsumeContinues, SubsumingStep
  <2> QED BY <2>1, <2>2
<1>3. Inv => Subsuming!SubsumesSound
  BY InputsAssumption
  DEF SubsumeWalk, Wider, Subsuming!SubsumesSound, Subsuming!parse, parse, Subsuming!Hash, Hash,
      Subsuming!Matches, Matches, Subsuming!Agrees, Agrees, Subsuming!Plus, Plus
<1> QED BY <1>1, <1>2, <1>3, PTL DEF Subsuming!Spec

-------------------------------------------------------------------------------
(***************************************************************************)
(* `any` over the patterns.                                                *)
(***************************************************************************)
patterns == acl[List(ask.kind)]

\* The pattern that is being tried, and the loop that tries it.
Trying ==
  /\ left = patterns[n] /\ right = ask.string
  /\ ask.kind = "subscribe" => SubsumeWalk
  /\ ask.kind # "subscribe" => MatchWalk

\* None of the patterns before it matches the topic.
Tried ==
  ask.kind # "subscribe" =>
    \A k \in 1..(n - 1) : parse(patterns[k]) => ~Matches(patterns[k], ask.string)

Asked ==
  /\ ask.kind \in {"will", "publish", "subscribe"}
  /\ ask.kind = "subscribe" => ask.string \in Strings
  /\ ask.kind # "subscribe" => ask.string \in Names
  /\ n \in 0..Len(patterns)
  /\ n = 0 => patterns = <<>> /\ result = "false"
  /\ n > 0 => Trying
  /\ Tried

\* `access` holds the patterns of the latest token.
OfToken ==
  /\ who \in Passwords /\ Accepted(who)
  /\ \A list \in Lists : acl[list] = Patterns(rules, who, list)

Answered ==
  /\ answer \in BOOLEAN /\ (answer <=> result = "true")
  /\ result = "true" \/ (result = "false" /\ n = Len(patterns))

AccessInv ==
  /\ rules \in AclRules
  /\ pc \in {"new", "ready", "asking", "answered", "closed"}
  /\ pc \in {"ready", "asking", "answered"} => OfToken
  /\ pc \in {"asking", "answered"} => Asked
  /\ pc = "answered" => Answered

LEMMA Lists2 ==
  /\ "publish" \in Lists /\ "subscribe" \in Lists
  /\ \A kind : List(kind) \in Lists
BY DEF Lists, List

LEMMA PatternTypes ==
  ASSUME rules \in AclRules, OfToken
  PROVE  \A list \in Lists : acl[list] \in Seq(Strings)
BY PatternsAssumption DEF OfToken

\* The inner filter of a shared subscription is a string.
LEMMA EffectiveString ==
  ASSUME NEW s \in Requests
  PROVE  effective(s) \in Strings
<1>1. s \in Seq(Level) /\ s # <<>>
  BY AccessAssumption DEF Strings
<1>2. CASE IsShared(s)
  <2>1. Len(s) \in Nat /\ Len(s) >= 3
    BY <1>1, <1>2 DEF IsShared
  <2> DEFINE inner == SubSeq(s, 3, Len(s))
  <2>2. inner \in Seq(Level) /\ Len(inner) = Len(s) - 2
    BY <1>1, <2>1
  <2>3. inner # <<>>
    <3> HIDE DEF inner
    <3> QED BY <2>1, <2>2
  <2> QED BY <1>2, <2>2, <2>3 DEF effective, Strings
<1>3. CASE ~IsShared(s)
  BY <1>1, <1>3 DEF effective, Strings
<1> QED BY <1>2, <1>3

\* A pattern that is tried starts its loop afresh.
LEMMA TryBegins ==
  ASSUME NEW kind, NEW string, NEW ps \in Seq(Strings), NEW k \in 1..Len(ps),
         kind = "subscribe" => string \in Strings,
         kind # "subscribe" => string \in Names,
         Try(kind, string, ps, k),
         ask'.kind = kind, ask'.string = string, patterns' = ps
  PROVE  Trying' /\ n' = k
<1>1. /\ n' = k /\ left' = ps[k] /\ right' = string /\ i' = 1
      /\ result' = IF kind = "subscribe" THEN "running" ELSE Matching!Entry(ps[k], string)
  BY DEF Try
<1>2. left' \in Strings
  BY <1>1
<1>3. kind = "subscribe" => SubsumeWalk'
  BY <1>1, <1>2, SubsumeBegins
<1>4. kind # "subscribe" => MatchWalk'
  BY <1>1, <1>2, MatchBegins
<1> QED BY <1>1, <1>3, <1>4 DEF Trying

LEMMA AskBegins ==
  ASSUME NEW kind \in {"will", "publish", "subscribe"}, NEW string, NEW ps \in Seq(Strings),
         kind = "subscribe" => string \in Strings,
         kind # "subscribe" => string \in Names,
         Ask(kind, string, ps), acl'[List(kind)] = ps
  PROVE  pc' = "asking" /\ Asked'
<1>1. pc' = "asking" /\ ask'.kind = kind /\ ask'.string = string
  BY DEF Ask
<1>2. patterns' = ps
  BY <1>1 DEF patterns
<1>3. CASE ps # <<>> /\ Try(kind, string, ps, 1)
  <2>1. 1 \in 1..Len(ps)
    BY <1>3
  <2>2. Trying' /\ n' = 1
    BY <1>1, <1>2, <1>3, <2>1, TryBegins
  <2>3. Tried'
    BY <2>2 DEF Tried
  <2> QED BY <1>1, <1>2, <2>1, <2>2, <2>3 DEF Asked
<1>4. CASE ps = <<>> /\ n' = 0 /\ result' = "false"
  <2>1. Tried'
    BY <1>4 DEF Tried
  <2> QED BY <1>1, <1>2, <1>4, <2>1 DEF Asked
<1> QED BY <1>3, <1>4 DEF Ask

-------------------------------------------------------------------------------
(***************************************************************************)
(* The invariant, action by action.                                        *)
(***************************************************************************)
LEMMA InvInit == Init => AccessInv
BY DEF Init, AccessInv

LEMMA InvConnect ==
  ASSUME AccessInv, NEW pw \in Passwords, NEW will \in TopicNames \cup {None}, Connect(pw, will)
  PROVE  AccessInv'
<1>1. rules' = rules /\ rules \in AclRules
  BY DEF AccessInv, Connect
<1>2. CASE ~Accepted(pw)
  <2>1. pc' = "closed"
    BY <1>2 DEF Connect
  <2> QED BY <1>1, <2>1 DEF AccessInv
<1>3. CASE Accepted(pw) /\ acl' = Acl(pw) /\ who' = pw
  <2>1. \A list \in Lists : acl'[list] = Patterns(rules, pw, list)
    BY <1>3 DEF Acl
  <2>2. OfToken'
    BY <1>1, <1>3, <2>1 DEF OfToken
  <2>3. CASE will # None /\ Ask("will", will, Acl(pw).publish)
    <3>1. will \in Names /\ List("will") = "publish" /\ Acl(pw).publish = acl'["publish"]
      BY <1>3, <2>3, InputsAssumption DEF List
    <3>2. acl'["publish"] \in Seq(Strings)
      BY <1>1, <1>3, <2>1, Lists2, PatternsAssumption
    <3>3. pc' = "asking" /\ Asked'
      BY <2>3, <3>1, <3>2, AskBegins
    <3> QED BY <1>1, <2>2, <3>3 DEF AccessInv
  <2>4. CASE pc' = "ready"
    BY <1>1, <2>2, <2>4 DEF AccessInv
  <2> QED BY <1>2, <1>3, <2>3, <2>4 DEF Connect
<1> QED BY <1>2, <1>3 DEF Connect

\* A question about a topic or a filter of a client that is connected.
LEMMA InvAsk ==
  ASSUME AccessInv, pc = "ready", NEW kind \in {"publish", "subscribe"}, NEW string,
         kind = "subscribe" => string \in Strings,
         kind # "subscribe" => string \in Names,
         Ask(kind, string, acl[List(kind)]), UNCHANGED <<rules, acl, who>>
  PROVE  AccessInv'
<1>1. rules \in AclRules /\ OfToken
  BY DEF AccessInv
<1>2. acl[List(kind)] \in Seq(Strings) /\ acl'[List(kind)] = acl[List(kind)]
  BY <1>1, Lists2, PatternTypes
<1>3. pc' = "asking" /\ Asked'
  BY <1>2, AskBegins
<1>4. OfToken'
  BY <1>1 DEF OfToken
<1> QED BY <1>1, <1>3, <1>4 DEF AccessInv

LEMMA InvExamine ==
  ASSUME AccessInv, Examine
  PROVE  AccessInv'
<1>1. /\ pc = "asking" /\ rules \in AclRules /\ OfToken /\ Asked
      /\ UNCHANGED <<rules, pc, acl, who, ask, n, answer>>
  BY DEF AccessInv, Examine
<1>2. OfToken' /\ patterns' = patterns /\ patterns \in Seq(Strings)
  BY <1>1, Lists2, PatternTypes DEF OfToken, patterns
<1>3. /\ result = "running"
      /\ ask.kind = "subscribe" => Subsuming!Step
      /\ ask.kind # "subscribe" => Matching!Step
  BY MatchingStep, SubsumingStep DEF Examine
<1>4. n \in 1..Len(patterns) /\ Trying /\ left \in Strings
  BY <1>1, <1>2, <1>3 DEF Asked, Trying
<1>5. left' = left /\ right' = right
  BY <1>3, MatchingStep, SubsumingStep
<1>6. ask.kind = "subscribe" => SubsumeWalk'
  BY <1>1, <1>3, <1>4, SubsumeContinues DEF Trying, Asked
<1>7. ask.kind # "subscribe" => MatchWalk'
  BY <1>1, <1>3, <1>4, MatchContinues DEF Trying, Asked
<1>8. Trying'
  BY <1>1, <1>2, <1>4, <1>5, <1>6, <1>7 DEF Trying
<1>9. Tried'
  BY <1>1, <1>2 DEF Asked, Tried
<1>10. Asked'
  BY <1>1, <1>2, <1>4, <1>8, <1>9 DEF Asked
<1> QED BY <1>1, <1>2, <1>10 DEF AccessInv

LEMMA InvNextPattern ==
  ASSUME AccessInv, NextPattern
  PROVE  AccessInv'
<1>1. /\ pc = "asking" /\ rules \in AclRules /\ OfToken /\ Asked
      /\ UNCHANGED <<rules, pc, acl, who, ask, answer>>
      /\ result = "false" /\ n # Len(patterns) /\ Try(ask.kind, ask.string, patterns, n + 1)
  BY DEF AccessInv, NextPattern, Exhausted, patterns
<1>2. OfToken' /\ patterns' = patterns /\ patterns \in Seq(Strings)
  BY <1>1, Lists2, PatternTypes DEF OfToken, patterns
<1>3. n \in 1..Len(patterns) /\ n + 1 \in 1..Len(patterns) /\ Trying
  BY <1>1, <1>2 DEF Asked
<1>4. Trying' /\ n' = n + 1
  BY <1>1, <1>2, <1>3, TryBegins DEF Asked
<1>5. ask.kind # "subscribe" /\ parse(patterns[n]) => ~Matches(patterns[n], ask.string)
  BY <1>1, <1>3 DEF Trying, MatchWalk
<1>6. Tried'
  <2>1. \A k \in 1..n : k = n \/ k \in 1..(n - 1)
    BY <1>3
  <2>2. n' - 1 = n
    BY <1>3, <1>4
  <2> QED BY <1>1, <1>2, <1>5, <2>1, <2>2 DEF Tried, Asked
<1>7. Asked'
  BY <1>1, <1>2, <1>3, <1>4, <1>6 DEF Asked
<1> QED BY <1>1, <1>2, <1>7 DEF AccessInv

LEMMA InvDecide ==
  ASSUME AccessInv, Decide
  PROVE  AccessInv'
<1>1. /\ pc = "asking" /\ rules \in AclRules /\ OfToken /\ Asked /\ pc' = "answered"
      /\ UNCHANGED <<rules, acl, who, ask, n, left, right, i, result>>
      /\ result = "true" \/ (result = "false" /\ n = Len(patterns))
      /\ answer' = (result = "true")
  BY DEF AccessInv, Decide, Exhausted, patterns
<1>2. OfToken'
  BY <1>1 DEF OfToken
<1>3. Asked'
  BY <1>1 DEF Asked, patterns, Trying, Tried, SubsumeWalk, MatchWalk
<1>4. Answered'
  BY <1>1, Zenon DEF Answered, patterns
<1> QED BY <1>1, <1>2, <1>3, <1>4 DEF AccessInv

LEMMA InvRespond ==
  ASSUME AccessInv, Respond
  PROVE  AccessInv'
<1>1. /\ pc = "answered" /\ rules \in AclRules /\ OfToken /\ pc' \in {"closed", "ready"}
      /\ UNCHANGED <<rules, acl, who>>
  BY DEF AccessInv, Respond
<1>2. OfToken'
  BY <1>1 DEF OfToken
<1> QED BY <1>1, <1>2 DEF AccessInv

LEMMA InvStep == AccessInv /\ [Next]_vars => AccessInv'
<1> SUFFICES ASSUME AccessInv, [Next]_vars PROVE AccessInv'
  OBVIOUS
<1>1. ASSUME NEW pw \in Passwords, NEW will \in TopicNames \cup {None}, Connect(pw, will)
      PROVE  AccessInv'
  BY <1>1, InvConnect
<1>2. ASSUME NEW t \in TopicNames, Publish(t) PROVE AccessInv'
  <2>1. /\ pc = "ready" /\ t \in Names /\ List("publish") = "publish"
        /\ Ask("publish", t, acl["publish"]) /\ UNCHANGED <<rules, acl, who>>
    BY <1>2, InputsAssumption DEF Publish, List
  <2> QED BY <2>1, InvAsk
<1>3. ASSUME NEW s \in Requests, Subscribe(s) PROVE AccessInv'
  <2>1. /\ pc = "ready" /\ effective(s) \in Strings /\ List("subscribe") = "subscribe"
        /\ Ask("subscribe", effective(s), acl["subscribe"]) /\ UNCHANGED <<rules, acl, who>>
    BY <1>3, EffectiveString DEF Subscribe, List
  <2> QED BY <2>1, InvAsk
<1>4. ASSUME NEW f \in Filters, Replay(f) PROVE AccessInv'
  <2>1. /\ pc = "ready" /\ f \in Strings /\ List("subscribe") = "subscribe"
        /\ Ask("subscribe", f, acl["subscribe"]) /\ UNCHANGED <<rules, acl, who>>
    BY <1>4, InputsAssumption DEF Replay, List
  <2> QED BY <2>1, InvAsk
<1>5. CASE UNCHANGED vars
  <2>1. OfToken => OfToken'
    BY <1>5 DEF vars, OfToken
  <2>2. Asked => Asked'
    BY <1>5, Zenon DEF vars, Asked, patterns, Trying, Tried, SubsumeWalk, MatchWalk
  <2>3. Answered => Answered'
    BY <1>5 DEF vars, Answered, patterns
  <2> QED BY <1>5, <2>1, <2>2, <2>3 DEF vars, AccessInv
<1> QED BY <1>1, <1>2, <1>3, <1>4, <1>5, InvExamine, InvNextPattern, InvDecide, InvRespond DEF Next

LEMMA AccessAlways == Spec => []AccessInv
BY InvInit, InvStep, PTL DEF Spec

-------------------------------------------------------------------------------
\* Whatever the patterns of the configuration and the topics of the clients,
\* topic_matches answers what MQTT says wherever can_publish calls it.
THEOREM MatchesAlwaysCorrect == Spec => []MatchesCorrect
<1>1. AccessInv => MatchesCorrect
  <2> SUFFICES ASSUME AccessInv, pc = "asking", n > 0, ask.kind # "subscribe", parse(left),
                      result # "running"
               PROVE  result = "true" <=> Matches(left, right)
    BY DEF MatchesCorrect, Matching!MatchesCorrect, Matching!parse, parse, Matching!Hash, Hash,
           Matching!Matches, Matches, Matching!Agrees, Agrees, Matching!Plus, Plus
  <2> QED BY DEF AccessInv, Asked, Trying, MatchWalk
<1> QED BY <1>1, AccessAlways, PTL

\* Whatever the patterns and the requests, filter_subsumes grants nothing wider than
\* the allowed filter wherever can_subscribe calls it.
THEOREM SubsumesAlwaysSound == Spec => []SubsumesSound
<1>1. AccessInv => SubsumesSound
  <2> SUFFICES ASSUME AccessInv, pc = "asking", n > 0, ask.kind = "subscribe",
                      parse(left), parse(right), result = "true", NEW t \in TopicNames,
                      t[1] \notin Dollar, Matches(right, t)
               PROVE  Matches(left, t)
    BY DEF SubsumesSound, Subsuming!SubsumesSound, Subsuming!parse, parse, Subsuming!Hash, Hash,
           Subsuming!Matches, Matches, Subsuming!Agrees, Agrees, Subsuming!Plus, Plus
  <2>1. Wider(left, right)
    BY DEF AccessInv, Asked, Trying, SubsumeWalk
  <2> QED BY <2>1, InputsAssumption DEF Wider
<1> QED BY <1>1, AccessAlways, PTL

\* What `any` over the patterns comes to.  When they are filters that TopicFilter::parse
\* accepts, a connection may publish on exactly the topics that one of the patterns of
\* its latest token matches, and whatever it may subscribe to or replay is covered by a
\* single one of them.
DecidedByPatterns ==
  pc = "answered" =>
    LET ps == Patterns(rules, who, List(ask.kind))
    IN (\A k \in 1..Len(ps) : parse(ps[k])) =>
         /\ ask.kind # "subscribe" =>
              (answer <=> \E k \in 1..Len(ps) : Matches(ps[k], ask.string))
         /\ ask.kind = "subscribe" /\ answer /\ parse(ask.string) =>
              \E k \in 1..Len(ps) : Wider(ps[k], ask.string)

\* can_publish and can_subscribe answer what the patterns of the latest token say.
THEOREM PatternsDecide == Spec => []DecidedByPatterns
<1>1. AccessInv => DecidedByPatterns
  <2> SUFFICES ASSUME AccessInv, pc = "answered", \A k \in 1..Len(patterns) : parse(patterns[k])
               PROVE  /\ ask.kind # "subscribe" =>
                           (answer <=> \E k \in 1..Len(patterns) : Matches(patterns[k], ask.string))
                      /\ ask.kind = "subscribe" /\ answer /\ parse(ask.string) =>
                           \E k \in 1..Len(patterns) : Wider(patterns[k], ask.string)
    <3>1. AccessInv /\ pc = "answered" => patterns = Patterns(rules, who, List(ask.kind))
      BY Lists2 DEF AccessInv, OfToken, patterns
    <3> QED BY <3>1, Zenon DEF DecidedByPatterns
  <2>1. Asked /\ Answered /\ patterns \in Seq(Strings)
    BY Lists2, PatternTypes DEF AccessInv, patterns
  <2>2. CASE n = 0
    BY <2>1, <2>2 DEF Asked, Answered
  <2>3. CASE n # 0
    <3>1. n \in 1..Len(patterns) /\ Trying /\ parse(left)
      BY <2>1, <2>3 DEF Asked, Trying
    <3>2. CASE ask.kind = "subscribe"
      BY <2>1, <3>1, <3>2 DEF Answered, Trying, SubsumeWalk
    <3>3. CASE ask.kind # "subscribe"
      <4>1. result = "true" <=> Matches(patterns[n], ask.string)
        BY <2>1, <3>1, <3>3 DEF Answered, Trying, MatchWalk
      <4>2. \A k \in 1..(n - 1) : ~Matches(patterns[k], ask.string)
        BY <2>1, <3>1, <3>3 DEF Asked, Tried
      <4>3. ASSUME ~answer, NEW k \in 1..Len(patterns) PROVE ~Matches(patterns[k], ask.string)
        <5>1. n = Len(patterns) /\ result = "false"
          BY <2>1, <4>3 DEF Answered
        <5>2. k = n \/ k \in 1..(n - 1)
          BY <3>1, <5>1
        <5> QED BY <4>1, <4>2, <5>1, <5>2
      <4> QED BY <2>1, <3>1, <3>3, <4>1, <4>3 DEF Answered
    <3> QED BY <3>2, <3>3
  <2> QED BY <2>2, <2>3
<1> QED BY <1>1, AccessAlways, PTL
=================================================================================
