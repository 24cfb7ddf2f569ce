------------------------------- MODULE Connection -------------------------------
(***************************************************************************)
(* The connections of one client and of peers that never get as far as a   *)
(* CONNECT (main.rs, connection.rs): the permits of the accept loops, the  *)
(* TLS or WebSocket handshake, the time limit for the first packet, the    *)
(* Will, the subscription quota and every way out of a connection.         *)
(*                                                                         *)
(* The session is what connection.rs sees of it: its routing id, which     *)
(* connection holds its channel (`owner` stands for the generation, the    *)
(* subject of SessionTable) and its subscriptions.  The Will's topic is    *)
(* the presence topic of docs/USAGE.md, retained: the client publishes     *)
(* "up" there and its Will says "down".                                    *)
(***************************************************************************)
EXTENDS Integers, FiniteSets

CONSTANTS
  Conns,                         \* connection tasks
  NoConn,                        \* no connection holds the session's channel
  Filters,                       \* topic filters
  max_connections,               \* Config.max_connections
  max_subscriptions_per_client,  \* Limits.max_subscriptions_per_client
  MaxConnects                    \* bound: CONNECTs accepted

ASSUME ConnectionAssumption ==
  /\ IsFiniteSet(Conns) /\ NoConn \notin Conns
  /\ IsFiniteSet(Filters)
  /\ max_connections \in Nat /\ max_subscriptions_per_client \in Nat
  /\ MaxConnects \in Nat

VARIABLES
  permits,         \* the semaphore `connections`
  phase,           \* where each connection is
  session_id,      \* local: the session it was given, 0 for None
  will,            \* local: it has a Will
  clean,           \* local: clean_disconnect
  active_filters,  \* local
  session,         \* the routing id of the client's session, 0 if there is none
  owner,           \* the connection that holds the session's channel
  durable,         \* the session's expiry is not 0
  subs,            \* the session's subscriptions
  presence,        \* the retained message of the Will's topic
  connects,        \* history: CONNECTs accepted
  announced,       \* history: the connection has published "up" since its CONNECT
  polite,          \* history: the connection has read a normal DISCONNECT
  parting,         \* history: the last connection to end had a Will, and was not polite
  taken,           \* history: a session that had a connection was given another
  resumed          \* history: a session was resumed

locals  == <<session_id, will, clean, active_filters, announced, polite>>
hub     == <<session, owner, durable, subs>>
history == <<connects, parting, taken, resumed>>
vars    == <<permits, phase, locals, hub, presence, history>>

Phases == {"none", "handshake", "first", "loop", "will", "detach"}

Init ==
  /\ permits = max_connections
  /\ phase = [k \in Conns |-> "none"]
  /\ session_id = [k \in Conns |-> 0]
  /\ will = [k \in Conns |-> FALSE]
  /\ clean = [k \in Conns |-> FALSE]
  /\ active_filters = [k \in Conns |-> {}]
  /\ session = 0 /\ owner = NoConn /\ durable = FALSE /\ subs = {}
  /\ presence = "none"
  /\ connects = 0
  /\ announced = [k \in Conns |-> FALSE]
  /\ polite = [k \in Conns |-> FALSE]
  /\ parting = FALSE /\ taken = FALSE /\ resumed = FALSE

Goto(k, label) == phase' = [phase EXCEPT ![k] = label]

-------------------------------------------------------------------------------
(***************************************************************************)
(* The accept loops.  A peer that finds no permit is dropped at once.      *)
(***************************************************************************)
\* TCP goes straight to the connection task, TLS and WebSocket by a handshake for
\* which there is no time limit.
Accept(k) ==
  /\ phase[k] = "none"
  /\ permits > 0
  /\ permits' = permits - 1
  /\ \E label \in {"first", "handshake"} : Goto(k, label)
  /\ UNCHANGED <<locals, hub, presence, history>>

HandshakeDone(k) ==
  /\ phase[k] = "handshake"
  /\ Goto(k, "first")
  /\ UNCHANGED <<permits, locals, hub, presence, history>>

\* The task ends; its permit and its other locals are dropped.
Ends(k) ==
  /\ permits' = permits + 1
  /\ Goto(k, "none")
  /\ session_id' = [session_id EXCEPT ![k] = 0]
  /\ will' = [will EXCEPT ![k] = FALSE]
  /\ clean' = [clean EXCEPT ![k] = FALSE]
  /\ active_filters' = [active_filters EXCEPT ![k] = {}]
  /\ announced' = [announced EXCEPT ![k] = FALSE]
  /\ polite' = [polite EXCEPT ![k] = FALSE]

\* (Mutant: the permit is not a local of the task.)
HandshakeFails_KeepsPermit(k) ==
  /\ phase[k] = "handshake"
  /\ Goto(k, "none")
  /\ UNCHANGED <<permits, locals, hub, presence, history>>

HandshakeFails(k) ==
  /\ phase[k] = "handshake"
  /\ Ends(k)
  /\ UNCHANGED <<hub, presence, history>>

-------------------------------------------------------------------------------
(***************************************************************************)
(* The first packet, whatever it is, must come within connect_timeout.     *)
(***************************************************************************)
ConnectTimeout(k) ==
  /\ phase[k] = "first"
  /\ Ends(k)
  /\ UNCHANGED <<hub, presence, history>>

\* The peer closes or sends what is not MQTT.
ClosedEarly(k) ==
  /\ phase[k] = "first"
  /\ Ends(k)
  /\ UNCHANGED <<hub, presence, history>>

-------------------------------------------------------------------------------
(***************************************************************************)
(* One round of the loop: a packet, or the end of the loop.                *)
(***************************************************************************)
Reads(k) == phase[k] \in {"first", "loop"}

\* What a task does after its loop.  (Mutant: in the other order.)
Exit_DetachFirst == <<"detach", "will">>
Exit == <<"will", "detach">>

Break(k) == Goto(k, Exit[1])

\* Authentication fails, or the Will is denied.
ConnectRefused(k) ==
  /\ Reads(k)
  /\ Break(k)
  /\ UNCHANGED <<permits, locals, hub, presence, history>>

\* CONNECT, the first or a later one on this connection.  The loop ends if the
\* CONNACK cannot be written.
Connect(k, w, clean_start, expiry) ==
  LET resumes == session # 0 /\ ~clean_start
  IN /\ Reads(k)
     /\ connects < MaxConnects
     /\ connects' = connects + 1
     /\ session' = IF resumes THEN session ELSE connects + 1
     /\ session_id' = [session_id EXCEPT ![k] = session']
     /\ owner' = k
     /\ durable' = expiry
     /\ subs' = IF resumes THEN subs ELSE {}
     /\ will' = [will EXCEPT ![k] = w]
     /\ announced' = [announced EXCEPT ![k] = FALSE]
     /\ taken' = (taken \/ owner # NoConn)
     /\ resumed' = (resumed \/ resumes)
     /\ Goto(k, "loop") \/ Break(k)
     /\ UNCHANGED <<permits, clean, active_filters, polite, presence, parting>>

\* A packet that needs a session, before there is one.
TooEarly(k) ==
  /\ Reads(k)
  /\ session_id[k] = 0
  /\ Break(k)
  /\ UNCHANGED <<permits, locals, hub, presence, history>>

\* The quota lets this connection subscribe to f.  (Mutant: one more.)
WithinQuota_OneMore(k, f) ==
  f \in active_filters[k] \/ Cardinality(active_filters[k]) <= max_subscriptions_per_client
WithinQuota(k, f) ==
  f \in active_filters[k] \/ Cardinality(active_filters[k]) < max_subscriptions_per_client

Subscribe(k, f) ==
  /\ Reads(k)
  /\ session_id[k] # 0
  /\ WithinQuota(k, f)
  /\ active_filters' = [active_filters EXCEPT ![k] = @ \cup {f}]
  /\ subs' = IF session_id[k] = session THEN subs \cup {f} ELSE subs
  /\ UNCHANGED <<permits, phase, session_id, will, clean, announced, polite, session, owner,
                 durable, presence, history>>

Unsubscribe(k, f) ==
  /\ Reads(k)
  /\ session_id[k] # 0
  /\ active_filters' = [active_filters EXCEPT ![k] = @ \ {f}]
  /\ subs' = IF session_id[k] = session THEN subs \ {f} ELSE subs
  /\ UNCHANGED <<permits, phase, session_id, will, clean, announced, polite, session, owner,
                 durable, presence, history>>

\* The client says that it is there.
PublishUp(k) ==
  /\ Reads(k)
  /\ session_id[k] # 0
  /\ presence' = "up"
  /\ announced' = [announced EXCEPT ![k] = TRUE]
  /\ UNCHANGED <<permits, phase, session_id, will, clean, active_filters, polite, hub,
                 history>>

\* PINGREQ and the packets that are answered, or passed over, without a session.
Other(k) ==
  /\ phase[k] = "first"
  /\ Goto(k, "loop")
  /\ UNCHANGED <<permits, locals, hub, presence, history>>

\* (Mutant: any DISCONNECT discards the Will.)
Discards_Any(reason) == TRUE
Discards(reason) == reason = "NormalDisconnection"

Disconnect(k, reason) ==
  /\ Reads(k)
  /\ clean' = [clean EXCEPT ![k] = Discards(reason)]
  /\ polite' = [polite EXCEPT ![k] = reason = "NormalDisconnection"]
  /\ Break(k)
  /\ UNCHANGED <<permits, session_id, will, active_filters, announced, hub, presence,
                 history>>

\* The socket closes, fails, or carries what is not MQTT.
SocketFails(k) ==
  /\ phase[k] = "loop"
  /\ Break(k)
  /\ UNCHANGED <<permits, locals, hub, presence, history>>

\* rx.recv() returns None: the session's channel belongs to another connection.
\* (Mutant: only when the session itself is gone.)
Superseded(k) == session_id[k] # 0 /\ owner # k

ChannelClosed_Discarded(k) ==
  /\ phase[k] = "loop"
  /\ Superseded(k) /\ session # session_id[k]
  /\ Break(k)
  /\ UNCHANGED <<permits, locals, hub, presence, history>>

ChannelClosed(k) ==
  /\ phase[k] = "loop"
  /\ Superseded(k)
  /\ Break(k)
  /\ UNCHANGED <<permits, locals, hub, presence, history>>

-------------------------------------------------------------------------------
(***************************************************************************)
(* After the loop: the Will, then Hub::detach, then the task ends.         *)
(***************************************************************************)
After(k, step) ==
  \/ step = Exit[1] /\ Goto(k, Exit[2]) /\ UNCHANGED <<permits, locals>>
  \/ step = Exit[2] /\ Ends(k)

Bad(k) == will[k] /\ ~clean[k]

PublishWill(k) ==
  /\ phase[k] = "will"
  /\ presence' = IF Bad(k) THEN "down" ELSE presence
  /\ parting' = IF session_id[k] # 0 THEN will[k] /\ ~polite[k] ELSE parting
  /\ After(k, "will")
  /\ UNCHANGED <<hub, connects, taken, resumed>>

Detach(k) ==
  /\ phase[k] = "detach"
  /\ owner' = IF owner = k THEN NoConn ELSE owner
  /\ session' = IF owner = k /\ ~durable THEN 0 ELSE session
  /\ subs' = IF owner = k /\ ~durable THEN {} ELSE subs
  /\ After(k, "detach")
  /\ UNCHANGED <<durable, presence, history>>

\* Hub::purge_if_idle.
Expire ==
  /\ session # 0 /\ owner = NoConn
  /\ session' = 0 /\ subs' = {}
  /\ UNCHANGED <<permits, phase, locals, owner, durable, presence, history>>

-------------------------------------------------------------------------------
Packet(k) ==
  \/ ConnectRefused(k)
  \/ \E w, clean_start, expiry \in BOOLEAN : Connect(k, w, clean_start, expiry)
  \/ TooEarly(k)
  \/ \E f \in Filters : Subscribe(k, f) \/ Unsubscribe(k, f)
  \/ PublishUp(k)
  \/ Other(k)
  \/ \E reason \in {"NormalDisconnection", "DisconnectWithWill"} : Disconnect(k, reason)

ConnStep(k) ==
  \/ Accept(k) \/ HandshakeDone(k) \/ HandshakeFails(k)
  \/ ConnectTimeout(k) \/ ClosedEarly(k)
  \/ Packet(k) \/ SocketFails(k) \/ ChannelClosed(k)
  \/ PublishWill(k) \/ Detach(k)

Next == (\E k \in Conns : ConnStep(k)) \/ Expire

Spec == Init /\ [][Next]_vars

(***************************************************************************)
(* Fairness: the timer of the first packet fires, a closed channel is seen *)
(* (select! polls both of its branches), and a task that has left its loop *)
(* runs to its end.  Of the peers it is assumed only that a packet written *)
(* to them goes out or fails: `sink.send` has no time limit of its own.    *)
(***************************************************************************)
Fairness ==
  \A k \in Conns : WF_vars(ConnectTimeout(k)) /\ WF_vars(ChannelClosed(k))
                     /\ WF_vars(PublishWill(k)) /\ WF_vars(Detach(k))

FairSpec == Spec /\ Fairness

-------------------------------------------------------------------------------
(***************************************************************************)
(* Properties                                                              *)
(***************************************************************************)
\* The variables have their types.
TypeOK ==
  /\ permits \in 0..max_connections
  /\ phase \in [Conns -> Phases]
  /\ session_id \in [Conns -> 0..MaxConnects]
  /\ will \in [Conns -> BOOLEAN] /\ clean \in [Conns -> BOOLEAN]
  /\ active_filters \in [Conns -> SUBSET Filters]
  /\ session \in 0..MaxConnects /\ owner \in Conns \cup {NoConn}
  /\ durable \in BOOLEAN /\ subs \subseteq Filters
  /\ presence \in {"none", "up", "down"}
  /\ connects \in 0..MaxConnects
  /\ announced \in [Conns -> BOOLEAN] /\ polite \in [Conns -> BOOLEAN]
  /\ parting \in BOOLEAN /\ taken \in BOOLEAN /\ resumed \in BOOLEAN

\* Every way out of a connection, from the handshake to the detach, gives its permit
\* back, and none gives back two: the permits that are out are those of the
\* connections there are.
PermitsBalanced ==
  permits + Cardinality({k \in Conns : phase[k] # "none"}) = max_connections

\* "Dead service detection": when the client has no connection left, and the last one
\* that had a Will did not end with a normal DISCONNECT, the presence topic says so.
DeathAnnounced ==
  (parting /\ \A k \in Conns : session_id[k] = 0) => presence = "down"

\* As long as no connection was taken over, the presence topic is not overwritten by
\* the Will of an earlier connection while the client is there and has said so: a Will
\* is published before its session can be resumed without a takeover.
AliveNotDown ==
  \A k \in Conns :
    (~taken /\ owner = k /\ announced[k] /\ phase[k] # "detach") => presence = "up"

\* A session never has more subscriptions than max_subscriptions_per_client, as long
\* as none was resumed.  (active_filters, which is counted, belongs to the connection:
\* it is empty again on the next one, while the session keeps its subscriptions.)
QuotaHolds == ~resumed => Cardinality(subs) <= max_subscriptions_per_client

\* A peer that stays silent loses its permit, and so does a connection whose session
\* was taken over, unless it takes the session back.
PermitsReturn ==
  \A k \in Conns :
    /\ phase[k] = "first" ~> phase[k] # "first"
    /\ Superseded(k) ~> (phase[k] = "none" \/ owner = k)
=================================================================================
