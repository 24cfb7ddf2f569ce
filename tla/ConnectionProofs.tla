---------------------------- MODULE ConnectionProofs ----------------------------
(***************************************************************************)
(* The permits of the accept loops are balanced, the subscription quota    *)
(* holds, and the presence topic and the Will say of each session what is  *)
(* so, for any number of connections.                                      *)
(***************************************************************************)
EXTENDS Connection, FiniteSetTheorems, TLAPS

Busy == {k \in Conns : phase[k] # "none"}

PermitInv ==
  /\ permits \in Nat
  /\ phase \in [Conns -> Phases]
  /\ permits + Cardinality(Busy) = max_connections

LEMMA BusyFinite == IsFiniteSet(Busy) /\ Cardinality(Busy) \in Nat
<1>1. Busy \subseteq Conns
  BY DEF Busy
<1> QED BY <1>1, ConnectionAssumption, FS_Subset, FS_CardinalityType

\* A connection goes on to another phase.
LEMMA Moves ==
  ASSUME PermitInv, NEW k \in Conns, NEW label \in Phases \ {"none"},
         phase[k] # "none", Goto(k, label), permits' = permits
  PROVE  PermitInv'
<1>1. phase' \in [Conns -> Phases] /\ \A j \in Conns : phase'[j] = "none" <=> phase[j] = "none"
  BY DEF PermitInv, Goto
<1>2. Busy' = Busy
  BY <1>1 DEF Busy
<1> QED BY <1>1, <1>2 DEF PermitInv

\* A task ends.
LEMMA EndsBalanced ==
  ASSUME PermitInv, NEW k \in Conns, phase[k] # "none", Ends(k)
  PROVE  PermitInv'
<1>1. phase' \in [Conns -> Phases] /\ phase' = [phase EXCEPT ![k] = "none"]
  BY DEF PermitInv, Ends, Goto, Phases
<1>2. Busy' = Busy \ {k} /\ k \in Busy
  BY <1>1 DEF Busy, PermitInv
<1>3. Cardinality(Busy') = Cardinality(Busy) - 1
  BY <1>2, BusyFinite, FS_RemoveElement
<1>4. permits' = permits + 1
  BY DEF Ends
<1> QED BY <1>1, <1>3, <1>4, BusyFinite DEF PermitInv

LEMMA AcceptBalanced ==
  ASSUME PermitInv, NEW k \in Conns, Accept(k)
  PROVE  PermitInv'
<1>1. PICK label \in {"first", "handshake"} : Goto(k, label)
  BY DEF Accept
<1>2. phase' \in [Conns -> Phases] /\ phase' = [phase EXCEPT ![k] = label]
  BY <1>1 DEF PermitInv, Goto, Phases
<1>3. Busy' = Busy \cup {k} /\ k \notin Busy
  BY <1>2 DEF Busy, PermitInv, Accept
<1>4. Cardinality(Busy') = Cardinality(Busy) + 1
  BY <1>3, BusyFinite, FS_AddElement
<1>5. permits > 0 /\ permits' = permits - 1
  BY DEF Accept
<1> QED BY <1>2, <1>4, <1>5, BusyFinite DEF PermitInv

LEMMA PermitStep == PermitInv /\ [Next]_vars => PermitInv'
<1> SUFFICES ASSUME PermitInv, [Next]_vars PROVE PermitInv'
  OBVIOUS
<1>1. ASSUME NEW k \in Conns, ConnStep(k) PROVE PermitInv'
  <2>1. CASE Accept(k)
    BY <2>1, AcceptBalanced
  <2>2. CASE HandshakeDone(k)
    BY <2>2, Moves DEF HandshakeDone, Phases
  <2>3. CASE HandshakeFails(k)
    BY <2>3, EndsBalanced DEF HandshakeFails
  <2>4. CASE ConnectTimeout(k) \/ ClosedEarly(k)
    BY <2>4, EndsBalanced DEF ConnectTimeout, ClosedEarly
  <2>5. CASE ConnectRefused(k) \/ TooEarly(k) \/ SocketFails(k) \/ ChannelClosed(k)
    BY <2>5, Moves DEF ConnectRefused, TooEarly, SocketFails, ChannelClosed, Reads, Break,
                       Exit, Phases
  <2>6. ASSUME NEW w, NEW clean_start, NEW expiry, Connect(k, w, clean_start, expiry)
        PROVE  PermitInv'
    BY <2>6, Moves DEF Connect, Reads, Break, Exit, Phases
  <2>7. CASE Other(k)
    BY <2>7, Moves DEF Other, Phases
  <2>8. ASSUME NEW reason, Disconnect(k, reason) PROVE PermitInv'
    BY <2>8, Moves DEF Disconnect, Reads, Break, Exit, Phases
  <2>9. CASE PublishWill(k)
    BY <2>9, Moves DEF PublishWill, After, Exit, Phases
  <2>10. CASE Detach(k)
    BY <2>10, EndsBalanced DEF Detach, After, Exit
  <2>11. ASSUME NEW f, Subscribe(k, f) \/ Unsubscribe(k, f) PROVE PermitInv'
    BY <2>11 DEF Subscribe, Unsubscribe, PermitInv, Busy
  <2>12. CASE PublishUp(k)
    BY <2>12 DEF PublishUp, PermitInv, Busy
  <2> QED BY <1>1, <2>1, <2>2, <2>3, <2>4, <2>5, <2>6, <2>7, <2>8, <2>9, <2>10, <2>11,
             <2>12 DEF ConnStep, Packet
<1>2. CASE Expire
  BY <1>2 DEF Expire, PermitInv, Busy
<1>3. CASE UNCHANGED vars
  BY <1>3 DEF vars, PermitInv, Busy
<1> QED BY <1>1, <1>2, <1>3 DEF Next

\* Every way out of a connection gives its permit back, once.
THEOREM PermitsAlwaysBalanced == Spec => []PermitsBalanced
<1>1. Init => PermitInv
  <2> SUFFICES ASSUME Init PROVE PermitInv
    OBVIOUS
  <2>1. Busy = {}
    BY DEF Init, Busy
  <2>2. Cardinality(Busy) = 0
    BY <2>1, FS_EmptySet
  <2> QED BY <2>2, ConnectionAssumption DEF Init, PermitInv, Phases
<1>2. PermitInv => PermitsBalanced
  BY DEF PermitInv, PermitsBalanced, Busy
<1> QED BY <1>1, <1>2, PermitStep, PTL DEF Spec

-------------------------------------------------------------------------------
(***************************************************************************)
(* The quota.  The connection of a session counts its own filters only;    *)
(* without a resumed session they include all the session has.             *)
(***************************************************************************)
QuotaType ==
  /\ connects \in Nat /\ session \in Nat /\ session <= connects
  /\ session_id \in [Conns -> Nat]
  /\ \A k \in Conns : session_id[k] <= connects
  /\ active_filters \in [Conns -> SUBSET Filters]
  /\ subs \subseteq Filters

Counted == \A k \in Conns : Cardinality(active_filters[k]) <= max_subscriptions_per_client

\* No session has two connections, and its connection knows all its filters.
Known ==
  /\ \A j, k \in Conns : session_id[j] = session_id[k] /\ session_id[k] # 0 => j = k
  /\ \A k \in Conns : session_id[k] = session /\ session # 0 => subs \subseteq active_filters[k]

QuotaInv ==
  /\ QuotaType /\ Counted
  /\ ~resumed => Known /\ Cardinality(subs) <= max_subscriptions_per_client

LEMMA Sizes ==
  ASSUME NEW S \in SUBSET Filters, NEW T \in SUBSET S
  PROVE  /\ IsFiniteSet(S) /\ Cardinality(S) \in Nat /\ Cardinality(T) \in Nat
         /\ Cardinality(T) <= Cardinality(S)
BY ConnectionAssumption, FS_Subset, FS_CardinalityType

LEMMA EmptyWithin == Cardinality({}) <= max_subscriptions_per_client
BY ConnectionAssumption, FS_EmptySet

\* The quota's variables stay, or a connection's locals are dropped, or the session is.
LEMMA QuotaKept ==
  ASSUME QuotaInv, UNCHANGED <<connects, resumed>>,
         UNCHANGED <<session_id, active_filters>>
           \/ \E k \in Conns : /\ session_id' = [session_id EXCEPT ![k] = 0]
                              /\ active_filters' = [active_filters EXCEPT ![k] = {}],
         UNCHANGED <<session, subs>> \/ (session' = 0 /\ subs' = {})
  PROVE  QuotaInv'
<1>1. \A k \in Conns : \/ session_id'[k] = session_id[k] /\ active_filters'[k] = active_filters[k]
                       \/ session_id'[k] = 0 /\ active_filters'[k] = {}
  BY DEF QuotaInv, QuotaType
<1>2. QuotaType'
  BY DEF QuotaInv, QuotaType
<1>3. Counted'
  BY <1>1, EmptyWithin DEF QuotaInv, Counted
<1>4. ASSUME ~resumed' PROVE Known' /\ Cardinality(subs') <= max_subscriptions_per_client
  <2>1. Known /\ Cardinality(subs) <= max_subscriptions_per_client
    BY <1>4 DEF QuotaInv
  <2>2. Known'
    BY <1>1, <2>1 DEF Known
  <2> QED BY <2>1, <2>2, EmptyWithin
<1> QED BY <1>2, <1>3, <1>4 DEF QuotaInv

LEMMA SubscribeQuota ==
  ASSUME QuotaInv, NEW k \in Conns, NEW f \in Filters, Subscribe(k, f)
  PROVE  QuotaInv'
<1> DEFINE A == active_filters[k]
<1>1. /\ A \in SUBSET Filters /\ active_filters' = [active_filters EXCEPT ![k] = A \cup {f}]
      /\ UNCHANGED <<connects, session, session_id, resumed>> /\ session_id[k] # 0
      /\ subs' = IF session_id[k] = session THEN subs \cup {f} ELSE subs
      /\ f \in A \/ Cardinality(A) < max_subscriptions_per_client
  BY DEF QuotaInv, QuotaType, Subscribe, WithinQuota, history
<1>2. active_filters'[k] = A \cup {f} /\ \A j \in Conns \ {k} : active_filters'[j] = active_filters[j]
  BY <1>1 DEF QuotaInv, QuotaType
<1>3. QuotaType'
  BY <1>1 DEF QuotaInv, QuotaType
<1>4. Cardinality(A \cup {f}) <= max_subscriptions_per_client
  <2>1. CASE f \in A
    <3>1. A \cup {f} = A
      BY <2>1
    <3> QED BY <3>1 DEF QuotaInv, Counted
  <2>2. CASE f \notin A
    BY <1>1, <2>2, Sizes, FS_AddElement, ConnectionAssumption
  <2> QED BY <2>1, <2>2
<1>5. Counted'
  BY <1>2, <1>4 DEF QuotaInv, Counted
<1>6. ASSUME ~resumed' PROVE Known' /\ Cardinality(subs') <= max_subscriptions_per_client
  <2>1. Known /\ Cardinality(subs) <= max_subscriptions_per_client
    BY <1>1, <1>6 DEF QuotaInv
  <2>2. Known'
    BY <1>1, <1>2, <2>1 DEF Known
  <2>3. CASE session_id[k] = session
    <3>1. subs' \subseteq A \cup {f}
      BY <1>1, <2>1, <2>3 DEF Known
    <3>2. Cardinality(subs') \in Nat /\ Cardinality(A \cup {f}) \in Nat
          /\ Cardinality(subs') <= Cardinality(A \cup {f})
      BY <1>1, <3>1, Sizes
    <3> QED BY <1>4, <2>2, <3>2, ConnectionAssumption
  <2>4. CASE session_id[k] # session
    BY <1>1, <2>1, <2>2, <2>4
  <2> QED BY <2>3, <2>4
<1> QED BY <1>3, <1>5, <1>6 DEF QuotaInv

LEMMA UnsubscribeQuota ==
  ASSUME QuotaInv, NEW k \in Conns, NEW f \in Filters, Unsubscribe(k, f)
  PROVE  QuotaInv'
<1> DEFINE A == active_filters[k]
<1>1. /\ A \in SUBSET Filters /\ active_filters' = [active_filters EXCEPT ![k] = A \ {f}]
      /\ UNCHANGED <<connects, session, session_id, resumed>> /\ session_id[k] # 0
      /\ subs' = IF session_id[k] = session THEN subs \ {f} ELSE subs
  BY DEF QuotaInv, QuotaType, Unsubscribe, history
<1>2. active_filters'[k] = A \ {f} /\ \A j \in Conns \ {k} : active_filters'[j] = active_filters[j]
  BY <1>1 DEF QuotaInv, QuotaType
<1>3. QuotaType'
  BY <1>1 DEF QuotaInv, QuotaType
<1>4. Cardinality(A \ {f}) <= Cardinality(A) /\ Cardinality(A) \in Nat /\ Cardinality(A \ {f}) \in Nat
  BY <1>1, Sizes
<1>5. Counted'
  BY <1>2, <1>4, ConnectionAssumption DEF QuotaInv, Counted
<1>6. ASSUME ~resumed' PROVE Known' /\ Cardinality(subs') <= max_subscriptions_per_client
  <2>1. Known /\ Cardinality(subs) <= max_subscriptions_per_client /\ subs \subseteq Filters
    BY <1>1, <1>6 DEF QuotaInv, QuotaType
  <2>2. Known'
    BY <1>1, <1>2, <2>1 DEF Known
  <2>3. subs' \subseteq subs
    BY <1>1
  <2>4. Cardinality(subs') \in Nat /\ Cardinality(subs) \in Nat
        /\ Cardinality(subs') <= Cardinality(subs)
    BY <2>1, <2>3, Sizes
  <2> QED BY <2>1, <2>2, <2>4, ConnectionAssumption
<1> QED BY <1>3, <1>5, <1>6 DEF QuotaInv

LEMMA ConnectQuota ==
  ASSUME QuotaInv, NEW k \in Conns, NEW w, NEW clean_start, NEW expiry,
         Connect(k, w, clean_start, expiry)
  PROVE  QuotaInv'
<1> DEFINE resumes == session # 0 /\ ~clean_start
<1>1. /\ connects' = connects + 1 /\ session' = (IF resumes THEN session ELSE connects + 1)
      /\ session_id' = [session_id EXCEPT ![k] = session']
      /\ subs' = (IF resumes THEN subs ELSE {})
      /\ resumed' = (resumed \/ resumes) /\ UNCHANGED active_filters
  BY DEF Connect
<1>2. QuotaType'
  BY <1>1 DEF QuotaInv, QuotaType
<1>3. Counted'
  BY <1>1 DEF QuotaInv, Counted
<1>4. ASSUME ~resumed' PROVE Known' /\ Cardinality(subs') <= max_subscriptions_per_client
  <2>1. Known /\ session' = connects + 1 /\ subs' = {}
    BY <1>1, <1>4, Zenon DEF QuotaInv
  <2>2. \A j \in Conns : session_id'[j] = IF j = k THEN connects + 1 ELSE session_id[j]
    BY <1>1, <2>1 DEF QuotaInv, QuotaType
  <2>3. Known'
    BY <2>1, <2>2 DEF Known, QuotaInv, QuotaType
  <2> QED BY <2>1, <2>3, EmptyWithin
<1> QED BY <1>2, <1>3, <1>4 DEF QuotaInv

LEMMA QuotaStep == QuotaInv /\ [Next]_vars => QuotaInv'
<1> SUFFICES ASSUME QuotaInv, [Next]_vars PROVE QuotaInv'
  OBVIOUS
<1>1. ASSUME NEW k \in Conns, ConnStep(k) PROVE QuotaInv'
  <2>1. ASSUME NEW w, NEW clean_start, NEW expiry, Connect(k, w, clean_start, expiry)
        PROVE  QuotaInv'
    BY <2>1, ConnectQuota
  <2>2. ASSUME NEW f \in Filters, Subscribe(k, f) \/ Unsubscribe(k, f) PROVE QuotaInv'
    BY <2>2, SubscribeQuota, UnsubscribeQuota
  <2>3. CASE HandshakeFails(k) \/ ConnectTimeout(k) \/ ClosedEarly(k)
    BY <2>3, QuotaKept DEF HandshakeFails, ConnectTimeout, ClosedEarly, Ends, hub, history
  <2>4. CASE Accept(k) \/ HandshakeDone(k) \/ ConnectRefused(k) \/ TooEarly(k) \/ Other(k)
    BY <2>4, QuotaKept DEF Accept, HandshakeDone, ConnectRefused, TooEarly, Other, locals, hub,
                           history
  <2>5. CASE PublishUp(k) \/ SocketFails(k) \/ ChannelClosed(k)
    BY <2>5, QuotaKept DEF PublishUp, SocketFails, ChannelClosed, locals, hub, history
  <2>6. ASSUME NEW reason, Disconnect(k, reason) PROVE QuotaInv'
    BY <2>6, QuotaKept DEF Disconnect, hub, history
  <2>7. CASE PublishWill(k)
    BY <2>7, QuotaKept DEF PublishWill, After, Exit, Ends, locals, hub
  <2>8. CASE Detach(k)
    BY <2>8, QuotaKept DEF Detach, After, Exit, Ends, locals, history
  <2> QED BY <1>1, <2>1, <2>2, <2>3, <2>4, <2>5, <2>6, <2>7, <2>8 DEF ConnStep, Packet
<1>2. CASE Expire
  BY <1>2, QuotaKept DEF Expire, locals, history
<1>3. CASE UNCHANGED vars
  BY <1>3, QuotaKept DEF vars, locals, hub, history
<1> QED BY <1>1, <1>2, <1>3 DEF Next

\* Without a resumed session, no session has more subscriptions than
\* max_subscriptions_per_client.
THEOREM QuotaAlwaysHolds == Spec => []QuotaHolds
<1>1. Init => QuotaInv
  BY EmptyWithin DEF Init, QuotaInv, QuotaType, Counted, Known
<1>2. QuotaInv => QuotaHolds
  BY DEF QuotaInv, QuotaHolds
<1> QED BY <1>1, <1>2, QuotaStep, PTL DEF Spec
-------------------------------------------------------------------------------
(***************************************************************************)
(* The presence topic.  A connection that was given a session is past its  *)
(* first packet, and leaves only by way of its Will: whoever publishes     *)
(* "up" has still to set the record straight.                              *)
(***************************************************************************)
PresenceType ==
  /\ connects \in Nat
  /\ DOMAIN phase = Conns /\ DOMAIN session_id = Conns
  /\ DOMAIN will = Conns /\ DOMAIN clean = Conns
  /\ DOMAIN announced = Conns /\ DOMAIN polite = Conns

\* Only a connection with a session has a Will, or has published; and it remembers
\* whether it was told to discard the Will.
Given ==
  \A k \in Conns :
    /\ session_id[k] = 0 \/ phase[k] \in {"loop", "will", "detach"}
    /\ will[k] => session_id[k] # 0
    /\ announced[k] => session_id[k] # 0
    /\ clean[k] <=> polite[k]

\* A connection that has still to come to its Will.
Unparted(k) == session_id[k] # 0 /\ phase[k] \in {"loop", "will"}

\* Without such a connection, the last Will stands.
LastWord == parting /\ (\A k \in Conns : ~Unparted(k)) => presence = "down"

\* Without a takeover, no connection but the owner of the channel has a session.
Alone ==
  ~taken => \A k \in Conns : /\ session_id[k] # 0 => owner = k
                             /\ announced[k] /\ phase[k] # "detach" => presence = "up"

PresenceInv == PresenceType /\ Given /\ LastWord /\ Alone

\* A connection goes on to another phase, short of its Will, or stays where it is.
LEMMA PresenceMoves ==
  ASSUME PresenceInv, NEW k \in Conns, NEW label,
         \/ label \in {"handshake", "first"} /\ phase[k] \in {"none", "handshake"}
         \/ label \in {"loop", "will"} /\ phase[k] \in {"first", "loop"},
         Goto(k, label), UNCHANGED <<locals, owner, presence, connects, parting, taken>>
  PROVE  PresenceInv'
<1>1. PresenceType'
  BY DEF PresenceInv, PresenceType, Goto, locals
<1>2. phase'[k] = label /\ \A j \in Conns \ {k} : phase'[j] = phase[j]
  BY DEF PresenceInv, PresenceType, Goto
<1>3. Given'
  BY <1>2 DEF PresenceInv, Given, locals
<1>4. \A j \in Conns : Unparted(j)' <=> Unparted(j)
  BY <1>2 DEF PresenceInv, Given, Unparted, locals
<1>5. LastWord'
  BY <1>4 DEF PresenceInv, LastWord
<1>6. Alone'
  BY <1>2 DEF PresenceInv, Alone, locals
<1> QED BY <1>1, <1>3, <1>5, <1>6 DEF PresenceInv

\* Nothing that the invariant is about changes.
LEMMA PresenceSame ==
  ASSUME PresenceInv, UNCHANGED <<phase, session_id, will, clean, announced, polite, owner,
                                  presence, connects, parting, taken>>
  PROVE  PresenceInv'
BY DEF PresenceInv, PresenceType, Given, LastWord, Unparted, Alone

\* A task ends, before it was given a session or after its Will.
LEMMA PresenceEnds ==
  ASSUME PresenceInv, NEW k \in Conns, phase[k] \notin {"loop", "will"}, Ends(k),
         owner' = owner \/ owner = k, UNCHANGED <<presence, connects, parting, taken>>
  PROVE  PresenceInv'
<1>1. PresenceType'
  BY DEF PresenceInv, PresenceType, Ends, Goto
<1>2. /\ phase'[k] = "none" /\ session_id'[k] = 0 /\ will'[k] = FALSE /\ clean'[k] = FALSE
      /\ announced'[k] = FALSE /\ polite'[k] = FALSE
      /\ \A j \in Conns \ {k} :
           /\ phase'[j] = phase[j] /\ session_id'[j] = session_id[j] /\ will'[j] = will[j]
           /\ clean'[j] = clean[j] /\ announced'[j] = announced[j] /\ polite'[j] = polite[j]
  BY DEF PresenceInv, PresenceType, Ends, Goto
<1>3. Given'
  BY <1>2 DEF PresenceInv, Given
<1>4. \A j \in Conns : Unparted(j)' <=> Unparted(j)
  BY <1>2 DEF Unparted
<1>5. LastWord'
  BY <1>4 DEF PresenceInv, LastWord
<1>6. Alone'
  BY <1>2 DEF PresenceInv, Alone
<1> QED BY <1>1, <1>3, <1>5, <1>6 DEF PresenceInv

LEMMA PresenceConnect ==
  ASSUME PresenceInv, QuotaType, NEW k \in Conns, NEW w, NEW clean_start, NEW expiry,
         Connect(k, w, clean_start, expiry)
  PROVE  PresenceInv'
<1>1. /\ session' # 0 /\ session_id' = [session_id EXCEPT ![k] = session']
      /\ connects' = connects + 1
      /\ owner' = k /\ will' = [will EXCEPT ![k] = w]
      /\ announced' = [announced EXCEPT ![k] = FALSE]
      /\ taken' = (taken \/ owner # NoConn)
      /\ UNCHANGED <<clean, polite, presence, parting>>
  BY DEF Connect, QuotaType
<1>2. PICK label \in {"loop", "will"} : phase' = [phase EXCEPT ![k] = label]
  BY DEF Connect, Break, Exit, Goto
<1>3. PresenceType'
  BY <1>1, <1>2 DEF PresenceInv, PresenceType
<1>4. /\ phase'[k] = label /\ session_id'[k] # 0 /\ announced'[k] = FALSE
      /\ \A j \in Conns \ {k} :
           /\ phase'[j] = phase[j] /\ session_id'[j] = session_id[j] /\ will'[j] = will[j]
           /\ announced'[j] = announced[j]
  BY <1>1, <1>2 DEF PresenceInv, PresenceType
<1>5. Given'
  BY <1>1, <1>4 DEF PresenceInv, Given
<1>6. LastWord'
  BY <1>4 DEF LastWord, Unparted
<1>7. ASSUME ~taken' PROVE \A j \in Conns \ {k} : session_id[j] = 0 /\ ~announced[j]
  BY <1>1, <1>7, ConnectionAssumption, Zenon DEF PresenceInv, Alone, Given
<1>8. Alone'
  BY <1>1, <1>4, <1>7 DEF Alone
<1> QED BY <1>3, <1>5, <1>6, <1>8 DEF PresenceInv

LEMMA PresencePublishUp ==
  ASSUME PresenceInv, NEW k \in Conns, PublishUp(k)
  PROVE  PresenceInv'
<1>1. /\ phase[k] = "loop" /\ session_id[k] # 0 /\ presence' = "up"
      /\ announced' = [announced EXCEPT ![k] = TRUE]
      /\ UNCHANGED <<phase, session_id, will, clean, polite, owner, connects, parting, taken>>
  BY DEF PresenceInv, Given, PublishUp, Reads, hub, history
<1>2. PresenceType'
  BY <1>1 DEF PresenceInv, PresenceType
<1>3. \A j \in Conns \ {k} : announced'[j] = announced[j]
  BY <1>1 DEF PresenceInv, PresenceType
<1>4. Given'
  BY <1>1, <1>3 DEF PresenceInv, Given
<1>5. LastWord'
  BY <1>1 DEF LastWord, Unparted
<1>6. Alone'
  BY <1>1 DEF PresenceInv, Alone
<1> QED BY <1>2, <1>4, <1>5, <1>6 DEF PresenceInv

LEMMA PresenceDisconnect ==
  ASSUME PresenceInv, NEW k \in Conns, NEW reason, Disconnect(k, reason)
  PROVE  PresenceInv'
<1>1. /\ phase[k] \in {"first", "loop"} /\ phase' = [phase EXCEPT ![k] = "will"]
      /\ clean' = [clean EXCEPT ![k] = reason = "NormalDisconnection"]
      /\ polite' = [polite EXCEPT ![k] = reason = "NormalDisconnection"]
      /\ UNCHANGED <<session_id, will, announced, owner, presence, connects, parting, taken>>
  BY DEF Disconnect, Reads, Break, Exit, Goto, Discards, hub, history
<1>2. PresenceType'
  BY <1>1 DEF PresenceInv, PresenceType
<1>3. /\ phase'[k] = "will" /\ clean'[k] = polite'[k]
      /\ \A j \in Conns \ {k} :
           phase'[j] = phase[j] /\ clean'[j] = clean[j] /\ polite'[j] = polite[j]
  BY <1>1 DEF PresenceInv, PresenceType
<1>4. Given'
  BY <1>1, <1>3 DEF PresenceInv, Given
<1>5. \A j \in Conns : Unparted(j)' <=> Unparted(j)
  BY <1>1, <1>3 DEF PresenceInv, Given, Unparted
<1>6. LastWord'
  BY <1>1, <1>5 DEF PresenceInv, LastWord
<1>7. Alone'
  BY <1>1, <1>3 DEF PresenceInv, Alone
<1> QED BY <1>2, <1>4, <1>6, <1>7 DEF PresenceInv

LEMMA PresencePublishWill ==
  ASSUME PresenceInv, NEW k \in Conns, PublishWill(k)
  PROVE  PresenceInv'
<1>1. /\ phase[k] = "will" /\ phase' = [phase EXCEPT ![k] = "detach"]
      /\ presence' = IF will[k] /\ ~clean[k] THEN "down" ELSE presence
      /\ parting' = IF session_id[k] # 0 THEN will[k] /\ ~polite[k] ELSE parting
      /\ UNCHANGED <<session_id, will, clean, polite, announced, owner, connects, taken>>
  BY DEF PublishWill, After, Exit, Goto, Bad, locals, hub
<1>2. PresenceType'
  BY <1>1 DEF PresenceInv, PresenceType
<1>3. phase'[k] = "detach" /\ \A j \in Conns \ {k} : phase'[j] = phase[j]
  BY <1>1 DEF PresenceInv, PresenceType
<1>4. Given'
  BY <1>1, <1>3 DEF PresenceInv, Given
<1>5. LastWord'
  <2>1. CASE session_id[k] # 0
    BY <1>1, <2>1, Zenon DEF PresenceInv, Given, LastWord
  <2>2. CASE session_id[k] = 0
    <3>1. \A j \in Conns : Unparted(j)' <=> Unparted(j)
      BY <1>1, <1>3, <2>2 DEF Unparted
    <3> QED BY <1>1, <2>2, <3>1 DEF PresenceInv, LastWord
  <2> QED BY <2>1, <2>2
<1>6. Alone'
  <2> SUFFICES ASSUME ~taken', NEW j \in Conns
               PROVE  /\ session_id'[j] # 0 => owner' = j
                      /\ announced'[j] /\ phase'[j] # "detach" => presence' = "up"
    BY DEF Alone
  <2>1. session_id[j] # 0 => owner = j
    BY <1>1 DEF PresenceInv, Alone
  <2>2. ASSUME announced[j], phase'[j] # "detach" PROVE presence' = "up"
    <3>1. j # k /\ phase[j] # "detach" /\ session_id[j] # 0
      BY <1>3, <2>2 DEF PresenceInv, Given
    <3>2. ~will[k]
      BY <1>1, <2>1, <3>1 DEF PresenceInv, Given, Alone
    <3> QED BY <1>1, <2>2, <3>1, <3>2 DEF PresenceInv, Alone
  <2> QED BY <1>1, <2>1, <2>2
<1> QED BY <1>2, <1>4, <1>5, <1>6 DEF PresenceInv

LEMMA PresenceStep == PresenceInv /\ QuotaType /\ [Next]_vars => PresenceInv'
<1> SUFFICES ASSUME PresenceInv, QuotaType, [Next]_vars PROVE PresenceInv'
  OBVIOUS
<1>1. ASSUME NEW k \in Conns, ConnStep(k) PROVE PresenceInv'
  <2>1. CASE Accept(k)
    <3>1. PICK label \in {"first", "handshake"} : Goto(k, label)
      BY <2>1 DEF Accept
    <3> QED BY <2>1, <3>1, PresenceMoves DEF Accept, hub, history
  <2>2. CASE HandshakeDone(k)
    BY <2>2, PresenceMoves DEF HandshakeDone, hub, history
  <2>3. CASE HandshakeFails(k) \/ ConnectTimeout(k) \/ ClosedEarly(k)
    BY <2>3, PresenceEnds DEF HandshakeFails, ConnectTimeout, ClosedEarly, hub, history
  <2>4. CASE ConnectRefused(k) \/ TooEarly(k) \/ Other(k) \/ SocketFails(k) \/ ChannelClosed(k)
    BY <2>4, PresenceMoves DEF ConnectRefused, TooEarly, Other, SocketFails, ChannelClosed,
                               Reads, Break, Exit, hub, history
  <2>5. ASSUME NEW w, NEW clean_start, NEW expiry, Connect(k, w, clean_start, expiry)
        PROVE  PresenceInv'
    BY <2>5, PresenceConnect
  <2>6. ASSUME NEW f, Subscribe(k, f) \/ Unsubscribe(k, f) PROVE PresenceInv'
    BY <2>6, PresenceSame DEF Subscribe, Unsubscribe, history
  <2>7. CASE PublishUp(k)
    BY <2>7, PresencePublishUp
  <2>8. ASSUME NEW reason, Disconnect(k, reason) PROVE PresenceInv'
    BY <2>8, PresenceDisconnect
  <2>9. CASE PublishWill(k)
    BY <2>9, PresencePublishWill
  <2>10. CASE Detach(k)
    BY <2>10, PresenceEnds DEF Detach, After, Exit, history
  <2> QED BY <1>1, <2>1, <2>2, <2>3, <2>4, <2>5, <2>6, <2>7, <2>8, <2>9, <2>10
          DEF ConnStep, Packet
<1>2. CASE Expire
  BY <1>2, PresenceSame DEF Expire, locals, history
<1>3. CASE UNCHANGED vars
  BY <1>3, PresenceSame DEF vars, locals, hub, history
<1> QED BY <1>1, <1>2, <1>3 DEF Next

LEMMA PresenceAlways == Spec => []PresenceInv
<1>1. Init => PresenceInv /\ QuotaInv
  BY EmptyWithin DEF Init, QuotaInv, QuotaType, Counted, Known, PresenceInv, PresenceType, Given,
                     LastWord, Alone
<1>2. QuotaInv => QuotaType
  BY DEF QuotaInv
<1> QED BY <1>1, <1>2, QuotaStep, PresenceStep, PTL DEF Spec

\* The death of a client is announced, for any number of connections and however they
\* overlap: when the last connection that had a Will did not end with a normal
\* DISCONNECT, and none is left, the presence topic says "down".
THEOREM DeathAlwaysAnnounced == Spec => []DeathAnnounced
<1>1. PresenceInv => DeathAnnounced
  BY DEF PresenceInv, LastWord, Unparted, DeathAnnounced
<1> QED BY <1>1, PresenceAlways, PTL

\* Without a takeover, no Will of an earlier connection overwrites what the present one
\* has published.
THEOREM AliveNeverDown == Spec => []AliveNotDown
<1>1. PresenceInv => AliveNotDown
  BY DEF PresenceInv, Alone, AliveNotDown
<1> QED BY <1>1, PresenceAlways, PTL

=================================================================================
