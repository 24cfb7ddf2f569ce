--------------------------------- MODULE Access ---------------------------------
(***************************************************************************)
(* What one connection is allowed to do: the authentication of its CONNECT *)
(* (auth.rs), the topic permissions that the token's roles and claims give *)
(* it, and the way each PUBLISH, SUBSCRIBE and Will is held against them   *)
(* (acl.rs, connection.rs), pattern by pattern and level by level.         *)
(*                                                                         *)
(* A topic, filter or pattern is the sequence of its levels (see Topics).  *)
(* A claim may hold several levels; a variable of a pattern is a level of  *)
(* its own.                                                                *)
(***************************************************************************)
EXTENDS Topics, SequencesExt

CONSTANTS
  Variables,          \* levels of a pattern such as {sub}
  Unclosed,           \* levels of a pattern with a '{' that is not closed
  SUB,                \* the variable {sub}
  allowed_audiences,  \* AuthConfig.allowed_audiences
  AclRules,           \* the values of AuthConfig.acl: sequences of rules
  Passwords,          \* what a CONNECT presents
  Requests,           \* filters of a SUBSCRIBE, with or without $share/{group}/
  SHARE               \* the level $share

ASSUME AccessAssumption ==
  /\ SUB \in Variables
  /\ (Variables \cup Unclosed) \cap Level = {}
  /\ SHARE \in Dollar
  /\ Requests \subseteq Strings

None == <<>>

VARIABLES
  rules,    \* AuthConfig.acl
  pc,       \* new, ready, asking, answered or closed
  acl,      \* the local `access`
  who,      \* history: the token behind `access`
  ask,      \* what is being decided
  n,        \* the pattern that is being tried
  left,     \* that pattern
  right,    \* the topic or filter it is held against
  i,        \* the level
  result,   \* what topic_matches or filter_subsumes has returned
  answer    \* what can_publish or can_subscribe has returned

vars == <<rules, pc, acl, who, ask, n, left, right, i, result, answer>>

Matching  == INSTANCE TopicMatch WITH filter <- left, topic <- right
Subsuming == INSTANCE FilterSubsumes WITH allowed <- left, requested <- right

Init ==
  /\ rules \in AclRules
  /\ pc = "new"
  /\ acl = [publish |-> <<>>, subscribe |-> <<>>]
  /\ who = None
  /\ ask = None /\ answer = FALSE
  /\ n = 0 /\ left = None /\ right = None /\ i = 0 /\ result = "none"

-------------------------------------------------------------------------------
(***************************************************************************)
(* AuthConfig::authenticate.  A password is a record: `genuine` is the     *)
(* verdict of jsonwebtoken (signature, expiry and issuer), `aud` the set   *)
(* of audiences, `identity` the identity claim or None, `roles` the role   *)
(* names and `claims` a function from variables to levels.                 *)
(***************************************************************************)
audience_allowed(aud) == aud \cap allowed_audiences # {}

Accepted(pw) == pw.genuine /\ audience_allowed(pw.aud) /\ pw.identity # None

\* The claims by name, with the identity as `sub` whichever claim it comes from.
Vars(pw) ==
  [v \in DOMAIN pw.claims \cup {SUB} |-> IF v = SUB THEN pw.identity ELSE pw.claims[v]]

\* None for a pattern with a variable the token has no claim for.
substitute(pattern, val) ==
  IF \E l \in ToSet(pattern) : l \in Unclosed \/ l \in Variables \ DOMAIN val
    THEN None
    ELSE FlattenSeq([k \in DOMAIN pattern |->
           IF pattern[k] \in Variables THEN val[pattern[k]] ELSE <<pattern[k]>>])

\* (Mutant: the role of a rule is not looked at.)
Applies_Any(rule, roles) == TRUE
Applies(rule, roles) == rule.role = "*" \/ rule.role \in roles

Lists == {"publish", "subscribe"}

\* The patterns of one list of the rules that apply, in order.
Patterns(rs, pw, list) ==
  LET applying == SelectSeq(rs, LAMBDA r : Applies(r, pw.roles))
      all == FlattenSeq([k \in DOMAIN applying |-> applying[k][list]])
  IN SelectSeq([k \in DOMAIN all |-> substitute(all[k], Vars(pw))], LAMBDA p : p # None)

\* A pattern without its variables has, like every string, at least one level.
ASSUME PatternsAssumption ==
  \A rs \in AclRules, pw \in Passwords, list \in Lists :
    Accepted(pw) => Patterns(rs, pw, list) \in Seq(Strings)

Acl(pw) == [list \in Lists |-> Patterns(rules, pw, list)]

-------------------------------------------------------------------------------
(***************************************************************************)
(* Acl::can_publish and Acl::can_subscribe: `any` over the patterns.       *)
(***************************************************************************)
List(kind) == IF kind = "subscribe" THEN "subscribe" ELSE "publish"

\* The k-th pattern is tried.
Try(kind, string, patterns, k) ==
  /\ n' = k
  /\ left' = patterns[k]
  /\ right' = string
  /\ i' = 1
  /\ result' = IF kind = "subscribe" THEN "running" ELSE Matching!Entry(patterns[k], string)

Ask(kind, string, patterns) ==
  /\ pc' = "asking"
  /\ ask' = [kind |-> kind, string |-> string]
  /\ answer' = FALSE
  /\ \/ patterns # <<>> /\ Try(kind, string, patterns, 1)
     \/ patterns = <<>> /\ n' = 0 /\ left' = None /\ right' = string /\ i' = 0
          /\ result' = "false"

\* CONNECT, the first or a later one, with a Will or without.
Connect(pw, will) ==
  /\ pc \in {"new", "ready"}
  /\ UNCHANGED rules
  /\ \/ /\ ~Accepted(pw)
        /\ pc' = "closed"
        /\ UNCHANGED <<acl, who, ask, n, left, right, i, result, answer>>
     \/ /\ Accepted(pw)
        /\ acl' = Acl(pw)
        /\ who' = pw
        /\ \/ will # None /\ Ask("will", will, Acl(pw).publish)
           \/ will = None /\ pc' = "ready"
                /\ UNCHANGED <<ask, n, left, right, i, result, answer>>

\* A topic outside $replay/.
Publish(topic) ==
  /\ pc = "ready"
  /\ Ask("publish", topic, acl.publish)
  /\ UNCHANGED <<rules, acl, who>>

\* SharedSubscription::parse, and the filter that is checked: the inner one of a
\* well-formed shared subscription, or the string as it was sent.
IsShared(s) ==
  /\ Len(s) >= 3 /\ s[1] = SHARE
  /\ s[2] \notin {Blank, Plus, Hash} \cup Mixed
  /\ parse(SubSeq(s, 3, Len(s)))

effective(s) == IF IsShared(s) THEN SubSeq(s, 3, Len(s)) ELSE s

Subscribe(s) ==
  /\ pc = "ready"
  /\ Ask("subscribe", effective(s), acl.subscribe)
  /\ UNCHANGED <<rules, acl, who>>

\* PUBLISH on $replay/{from}/{filter} asks to read the filter, not to publish.  One whose
\* filter parse_replay does not accept is passed over.
Replay(f) ==
  /\ pc = "ready"
  /\ parse(f)
  /\ Ask("subscribe", f, acl.subscribe)
  /\ UNCHANGED <<rules, acl, who>>

\* One step of topic_matches or filter_subsumes.
Examine ==
  /\ pc = "asking"
  /\ \/ ask.kind = "subscribe" /\ Subsuming!Step
     \/ ask.kind # "subscribe" /\ Matching!Step
  /\ UNCHANGED <<rules, pc, acl, who, ask, n, answer>>

Exhausted == n = Len(acl[List(ask.kind)])

NextPattern ==
  /\ pc = "asking"
  /\ result = "false" /\ ~Exhausted
  /\ Try(ask.kind, ask.string, acl[List(ask.kind)], n + 1)
  /\ UNCHANGED <<rules, pc, acl, who, ask, answer>>

Decide ==
  /\ pc = "asking"
  /\ result = "true" \/ (result = "false" /\ Exhausted)
  /\ answer' = (result = "true")
  /\ pc' = "answered"
  /\ UNCHANGED <<rules, acl, who, ask, n, left, right, i, result>>

\* The client is told.  A refused Will ends the connection, a refused PUBLISH or
\* SUBSCRIBE does not.
Respond ==
  /\ pc = "answered"
  /\ pc' = IF ask.kind = "will" /\ ~answer THEN "closed" ELSE "ready"
  /\ ask' = None /\ answer' = FALSE
  /\ n' = 0 /\ left' = None /\ right' = None /\ i' = 0 /\ result' = "none"
  /\ UNCHANGED <<rules, acl, who>>

Next ==
  \/ \E pw \in Passwords, will \in TopicNames \cup {None} : Connect(pw, will)
  \/ \E t \in TopicNames : Publish(t)
  \/ \E s \in Requests : Subscribe(s)
  \/ \E f \in Filters : Replay(f)
  \/ Examine
  \/ NextPattern
  \/ Decide
  \/ Respond

Spec == Init /\ [][Next]_vars

-------------------------------------------------------------------------------
(***************************************************************************)
(* Properties                                                              *)
(***************************************************************************)
\* topic_matches, wherever can_publish calls it, answers what MQTT says of a filter
\* that TopicFilter::parse accepts (TopicMatch).
MatchesCorrect ==
  pc = "asking" /\ n > 0 /\ ask.kind # "subscribe" => Matching!MatchesCorrect

\* filter_subsumes, wherever can_subscribe calls it, grants nothing wider than the
\* allowed filter (FilterSubsumes).
SubsumesSound ==
  pc = "asking" /\ n > 0 /\ ask.kind = "subscribe" => Subsuming!SubsumesSound

\* The patterns that a list of the configuration grants to a token.
Granted(pw, list) ==
  {substitute(p, Vars(pw)) :
     p \in UNION {ToSet(r[list]) : r \in {r \in ToSet(rules) : r.role \in pw.roles \cup {"*"}}}}
  \ {None}

\* "per-role publish/subscribe allow-lists, templated with the token's claims": a
\* connection may publish on exactly the topics that the rules grant to the roles and
\* claims of its latest token, and whatever it may subscribe to or replay matches no topic (but
\* those that begin with '$') that they do not grant; an earlier CONNECT, a rule for
\* another role and a pattern without its claim grant nothing.
GrantedByRules ==
  pc = "answered" =>
    LET granted == Granted(who, List(ask.kind))
    IN (\A p \in granted : parse(p)) =>
         \/ ask.kind # "subscribe" /\ answer = \E p \in granted : Matches(p, ask.string)
         \/ ask.kind = "subscribe" /\ (answer /\ parse(ask.string) =>
              \A t \in TopicNames : t[1] \notin Dollar /\ Matches(ask.string, t)
                => \E p \in granted : Matches(p, t))
=================================================================================
