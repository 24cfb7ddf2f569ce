--------------------------------- MODULE Router ---------------------------------
(***************************************************************************)
(* The router (router.rs): normal subscriptions and one share group with   *)
(* its round-robin cursor, together with the way Hub::publish uses it: the *)
(* recipients are resolved under the router lock and looked up in the      *)
(* session table afterwards, under the sessions lock.                      *)
(*                                                                         *)
(* Which filter matches which topic is given by Matching (see Topics).     *)
(***************************************************************************)
EXTENDS Integers, SequencesExt, FiniteSetsExt

CONSTANTS
  Clients,       \* routing ids of sessions
  Filters,       \* filters without their $share prefix
  Topics,        \* topics published to
  Matching,      \* pairs of a filter and a topic that it matches
  QoS,           \* granted QoS
  Publishers,    \* tasks that publish
  Threads,       \* threads of the runtime
  MaxMembers,    \* bound: members of the share group
  MaxMessages    \* bound: messages routed

ASSUME RouterAssumption ==
  /\ IsFiniteSet(Clients) /\ IsFiniteSet(Publishers)
  /\ Matching \subseteq Filters \X Topics
  /\ QoS \subseteq 0..2
  /\ Threads \in Nat \ {0}
  /\ MaxMembers \in Nat /\ MaxMessages \in Nat

VARIABLES
  live,      \* SessionTable.by_id: the sessions
  normal,    \* Router.normal
  members,   \* SharedGroup.members, in subscription order
  cursor,    \* SharedGroup.cursor
  job,       \* each publisher: the recipients it has still to look up
  routed,    \* history: the number of messages routed
  picked,    \* history: the members picked since the group last changed
  lost,      \* history: a message was given to no member, though one was there
  overlapped \* history: two tasks have been between their locks at once

vars == <<live, normal, members, cursor, job, routed, picked, lost, overlapped>>

matches(sub, topic) == <<sub.filter, topic>> \in Matching

Sub    == [filter : Filters, qos : QoS]
Member == [client : Clients, filter : Filters, qos : QoS]

Pick   == [topic : Topics, member : Member]

\* A publisher that has no recipient to look up.
Idle == [normal |-> {}, shared |-> <<>>]

Init ==
  /\ live = Clients
  /\ normal = [c \in Clients |-> {}]
  /\ members = <<>>
  /\ cursor = 0
  /\ job = [p \in Publishers |-> Idle]
  /\ routed = 0
  /\ picked = <<>>
  /\ lost = FALSE
  /\ overlapped = FALSE

Running == {p \in Publishers : job[p] # Idle}

\* A task is given a thread.  From then on two tasks have run at once, if another had
\* one already.
Scheduled ==
  /\ Cardinality(Running) < Threads
  /\ overlapped' = (overlapped \/ Running # {})

-------------------------------------------------------------------------------
(***************************************************************************)
(* Subscriptions.  Subscribing again with the same filter replaces the     *)
(* granted QoS; a group whose last member leaves is forgotten, with its    *)
(* cursor.                                                                 *)
(***************************************************************************)
subscribe(c, f, q) ==
  /\ Scheduled
  /\ c \in live
  /\ normal' = [normal EXCEPT ![c] = {s \in @ : s.filter # f}
                                       \cup {[filter |-> f, qos |-> q]}]
  /\ UNCHANGED <<live, members, cursor, job, routed, picked, lost>>

unsubscribe(c, f) ==
  /\ Scheduled
  /\ \E s \in normal[c] : s.filter = f
  /\ normal' = [normal EXCEPT ![c] = {s \in @ : s.filter # f}]
  /\ UNCHANGED <<live, members, cursor, job, routed, picked, lost>>

GroupBecomes(ms) ==
  /\ members' = ms
  /\ cursor' = IF ms = <<>> THEN 0 ELSE cursor
  /\ picked' = <<>>

\* Joining again only changes the QoS.
Joined(c, f, q) ==
  IF \E i \in DOMAIN members : members[i].client = c /\ members[i].filter = f
    THEN [i \in DOMAIN members |->
            IF members[i].client = c /\ members[i].filter = f
              THEN [members[i] EXCEPT !.qos = q] ELSE members[i]]
    ELSE Append(members, [client |-> c, filter |-> f, qos |-> q])

subscribe_shared(c, f, q) ==
  /\ Scheduled
  /\ c \in live
  /\ Len(Joined(c, f, q)) <= MaxMembers
  /\ GroupBecomes(Joined(c, f, q))
  /\ UNCHANGED <<live, normal, job, routed, lost>>

unsubscribe_shared(c, f) ==
  LET left == SelectSeq(members, LAMBDA m : ~(m.client = c /\ m.filter = f))
  IN /\ Scheduled
     /\ left # members
     /\ GroupBecomes(left)
     /\ UNCHANGED <<live, normal, job, routed, lost>>

\* Hub::discard, with Router::remove_client under the sessions lock.  (Mutant: the
\* client stays in its group.)
discard_KeepsMember(c) ==
  /\ Scheduled
  /\ c \in live
  /\ live' = live \ {c}
  /\ normal' = [normal EXCEPT ![c] = {}]
  /\ UNCHANGED <<members, cursor, job, routed, picked, lost>>

discard(c) ==
  /\ Scheduled
  /\ c \in live
  /\ live' = live \ {c}
  /\ normal' = [normal EXCEPT ![c] = {}]
  /\ GroupBecomes(SelectSeq(members, LAMBDA m : m.client # c))
  /\ UNCHANGED <<job, routed, lost>>

\* A session comes (back) with a fresh routing id, here the one that was free.
connect(c) ==
  /\ Scheduled
  /\ c \notin live
  /\ \A p \in Publishers : job[p] = Idle
  /\ live' = live \cup {c}
  /\ UNCHANGED <<normal, members, cursor, job, routed, picked, lost>>

-------------------------------------------------------------------------------
(***************************************************************************)
(* Hub::publish.                                                           *)
(***************************************************************************)
\* matching_subscribers: every client once, at its highest matching QoS.
matching_subscribers(topic) ==
  {[client |-> c, qos |-> Max({s.qos : s \in {s \in normal[c] : matches(s, topic)}})] :
     c \in {c \in Clients : \E s \in normal[c] : matches(s, topic)}}

\* (Mutant: the position is one of all the members.)
pick_AmongAll(topic) ==
  LET matching == SelectSeq(members, LAMBDA m : matches(m, topic))
      at == cursor % Len(members)
  IN matching[(IF at < Len(matching) THEN at ELSE 0) + 1]

pick(topic) ==
  LET matching == SelectSeq(members, LAMBDA m : matches(m, topic))
  IN matching[(cursor % Len(matching)) + 1]

InGroup(topic) == \E i \in DOMAIN members : matches(members[i], topic)

route(p, topic) ==
  /\ Scheduled
  /\ job[p] = Idle
  /\ routed < MaxMessages
  /\ routed' = routed + 1
  /\ LET shared == IF InGroup(topic) THEN <<[topic |-> topic, member |-> pick(topic)]>>
                                     ELSE <<>>
     IN /\ job' = [job EXCEPT ![p] = [normal |-> matching_subscribers(topic),
                                      shared |-> shared]]
        /\ cursor' = cursor + Len(shared)
        /\ picked' = picked \o shared
  /\ UNCHANGED <<live, normal, members, lost>>

MatchingMembers(topic) == {i \in DOMAIN members : matches(members[i], topic)}

\* The session of the member that was picked is gone, and the group has another one
\* for the message.
Missed(pk) ==
  /\ pk.member.client \notin live
  /\ \E i \in MatchingMembers(pk.topic) : members[i].client \in live

\* A recipient whose session is gone is skipped.
deliver(p) ==
  /\ job[p] # Idle
  /\ job' = [job EXCEPT ![p] = Idle]
  /\ lost' = (lost \/ \E i \in DOMAIN job[p].shared : Missed(job[p].shared[i]))
  /\ UNCHANGED <<overlapped, live, normal, members, cursor, routed, picked>>

ClientStep(c) ==
  \/ \E f \in Filters, q \in QoS : subscribe(c, f, q)
  \/ \E f \in Filters : unsubscribe(c, f)
  \/ \E f \in Filters, q \in QoS : subscribe_shared(c, f, q)
  \/ \E f \in Filters : unsubscribe_shared(c, f)
  \/ discard(c)
  \/ connect(c)

Next ==
  \/ \E c \in Clients : ClientStep(c)
  \/ \E p \in Publishers, t \in Topics : route(p, t)
  \/ \E p \in Publishers : deliver(p)

Spec == Init /\ [][Next]_vars

-------------------------------------------------------------------------------
(***************************************************************************)
(* Properties                                                              *)
(***************************************************************************)
\* The variables have their types; no client is in the group twice with a filter.
TypeOK ==
  /\ live \subseteq Clients
  /\ normal \in [Clients -> SUBSET Sub]
  /\ members \in Seq(Member)
  /\ \A i, j \in DOMAIN members :
       members[i].client = members[j].client /\ members[i].filter = members[j].filter
         => i = j
  /\ cursor \in Nat
  /\ \A p \in Publishers : /\ job[p].normal \subseteq [client : Clients, qos : QoS]
                           /\ job[p].shared \in Seq(Pick)
  /\ routed \in 0..MaxMessages
  /\ picked \in Seq(Pick)
  /\ lost \in BOOLEAN
  /\ overlapped \in BOOLEAN

\* Round-robin: while the group does not change and only one topic is published
\* to, no member of the group is picked again before every other matching member
\* has had its turn, wherever the cursor stood at the start.
Rotation ==
  \A i, j \in DOMAIN picked :
    (/\ i < j
     /\ \A k \in i..j : picked[k].topic = picked[i].topic
     /\ picked[i].member = picked[j].member)
      => j - i >= Cardinality(MatchingMembers(picked[i].topic))

\* "each matching message goes to exactly one member of the group": as long as no two
\* tasks have run at once, the member that was picked is there to be given the message,
\* or no member is.  (A session may go between Router::route and the sessions lock of
\* publish, which does not pick again.)
GroupServed == ~overlapped => ~lost
=================================================================================
