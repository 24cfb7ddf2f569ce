--------------------------------- MODULE Inbound ---------------------------------
(***************************************************************************)
(* The inbound side of one session: a client that publishes at QoS 1 and 2 *)
(* over connections that break and are taken over, and the handlers of     *)
(* connection.rs that acknowledge, with the set Session.incoming_qos2 that *)
(* keeps a QoS 2 message from being routed twice.                          *)
(*                                                                         *)
(* The session outlives its connections.  The client, not part of the      *)
(* repository, follows MQTT: after a reconnect it sends again what is not  *)
(* acknowledged, a PUBLISH before its PUBREC and a PUBREL after it.        *)
(***************************************************************************)
EXTENDS Integers, Sequences

CONSTANTS
  NumIds,       \* packet ids of the client; 65535 in MQTT
  QoSOf,        \* the messages to publish: a sequence of QoS 1 and 2
  Denied,       \* those of them that the ACL denies
  MaxBreaks,    \* bound: lost connections and takeovers
  MaxLate,      \* bound: packets read from a connection that was taken over
  MaxCrashes    \* bound: crashes of the broker

ASSUME InboundAssumption ==
  /\ QoSOf \in Seq({1, 2})
  /\ Denied \subseteq DOMAIN QoSOf
  /\ NumIds \in Nat \ {0}
  /\ MaxBreaks \in Nat /\ MaxLate \in Nat /\ MaxCrashes \in Nat

VARIABLES
  incoming_qos2,  \* Session.incoming_qos2
  routed,         \* history: how often each message was routed (2: more than once)
  up,             \* packets under way to the broker
  late,           \* those of a connection that was taken over
  down,           \* acknowledgements under way to the client
  stage,          \* the client: where each message is
  pid,            \* the client: its packet id
  connected,      \* the client has a connection
  breaks, lates, crashes   \* history: what the bounds count

vars == <<incoming_qos2, routed, up, late, down, stage, pid, connected,
          breaks, lates, crashes>>

Message == DOMAIN QoSOf
NoId == 0

Init ==
  /\ incoming_qos2 = {}
  /\ routed = [m \in Message |-> 0]
  /\ up = <<>> /\ late = <<>> /\ down = <<>>
  /\ stage = [m \in Message |-> "new"]
  /\ pid = [m \in Message |-> NoId]
  /\ connected = TRUE
  /\ breaks = 0 /\ lates = 0 /\ crashes = 0

PUBLISH(m, id) == [type |-> "publish", msg |-> m, id |-> id]
Packet(type, id) == [type |-> type, id |-> id]

-------------------------------------------------------------------------------
(***************************************************************************)
(* The broker's handlers.  They answer on the connection they read from,   *)
(* which has no reader once it has been taken over.                        *)
(***************************************************************************)
\* heard: the connection still has a reader.
answer(a, heard) == down' = IF heard THEN Append(down, a) ELSE down

Route(m) == routed' = [routed EXCEPT ![m] = IF @ = 0 THEN 1 ELSE 2]

\* Hub::inbound_qos2_seen: the id was not there.  (Mutant: it never was.)
inbound_qos2_seen_Always(id) == TRUE
inbound_qos2_seen(id) == id \notin incoming_qos2

on_publish(p, heard) ==
  \/ /\ p.msg \in Denied
     /\ answer(Packet("denied", p.id), heard)
     /\ UNCHANGED <<routed, incoming_qos2>>
  \/ /\ p.msg \notin Denied
     /\ QoSOf[p.msg] = 1
     /\ Route(p.msg)
     /\ answer(Packet("puback", p.id), heard)
     /\ UNCHANGED incoming_qos2
  \/ /\ p.msg \notin Denied
     /\ QoSOf[p.msg] = 2
     /\ incoming_qos2' = incoming_qos2 \cup {p.id}
     /\ IF inbound_qos2_seen(p.id) THEN Route(p.msg) ELSE UNCHANGED routed
     /\ answer(Packet("pubrec", p.id), heard)

\* Hub::inbound_qos2_release.  (Mutant: the id stays.)
Release_Kept(id) == incoming_qos2
Release(id) == incoming_qos2 \ {id}

\* PUBREL is answered whether the id is known or not.  (Mutant: only when it is.)
PubcompDue_KnownOnly(id) == id \in incoming_qos2
PubcompDue(id) == TRUE

on_pubrel(p, heard) ==
  /\ incoming_qos2' = Release(p.id)
  /\ IF PubcompDue(p.id) THEN answer(Packet("pubcomp", p.id), heard) ELSE UNCHANGED down
  /\ UNCHANGED routed

on_packet(p, heard) ==
  \/ p.type = "publish" /\ on_publish(p, heard)
  \/ p.type = "pubrel" /\ on_pubrel(p, heard)

ReadPacket ==
  /\ up # <<>>
  /\ up' = Tail(up)
  /\ on_packet(Head(up), TRUE)
  /\ UNCHANGED <<late, stage, pid, connected, breaks, lates, crashes>>

ReadLatePacket ==
  /\ late # <<>>
  /\ lates < MaxLate
  /\ lates' = lates + 1
  /\ late' = Tail(late)
  /\ on_packet(Head(late), FALSE)
  /\ UNCHANGED <<up, stage, pid, connected, breaks, crashes>>

-------------------------------------------------------------------------------
(***************************************************************************)
(* The client.                                                             *)
(***************************************************************************)

InUse == {pid[m] : m \in {n \in Message : stage[n] \in {"sent", "received"}}}

\* Messages are published in turn, with the ids in turn.
IdFor(m) == ((m - 1) % NumIds) + 1

Publish(m) ==
  /\ connected
  /\ stage[m] = "new"
  /\ \A n \in Message : n < m => stage[n] # "new"
  /\ IdFor(m) \notin InUse
  /\ pid' = [pid EXCEPT ![m] = IdFor(m)]
  /\ up' = Append(up, PUBLISH(m, IdFor(m)))
  /\ stage' = [stage EXCEPT ![m] = "sent"]
  /\ UNCHANGED <<incoming_qos2, routed, late, down, connected, breaks, lates, crashes>>

\* The message that an acknowledgement is about: one that waits for it, if any.
Waiting(a) ==
  {m \in Message : pid[m] = a.id
     /\ \/ a.type = "puback" /\ QoSOf[m] = 1 /\ stage[m] = "sent"
        \/ a.type = "denied" /\ stage[m] = "sent"
        \/ a.type = "pubrec" /\ QoSOf[m] = 2 /\ stage[m] \in {"sent", "received"}
        \/ a.type = "pubcomp" /\ QoSOf[m] = 2 /\ stage[m] = "received"}

ClientReads ==
  /\ down # <<>>
  /\ down' = Tail(down)
  /\ LET a == Head(down)
         next == IF a.type = "pubrec" THEN "received" ELSE "done"
     IN /\ stage' = [m \in Message |-> IF m \in Waiting(a) THEN next ELSE stage[m]]
        /\ up' = IF a.type = "pubrec" THEN Append(up, Packet("pubrel", a.id)) ELSE up
  /\ UNCHANGED <<incoming_qos2, routed, late, pid, connected, breaks, lates, crashes>>

\* What the client sends first on a new connection, in the order of its messages.
Again ==
  LET pending == SelectSeq([m \in Message |-> m], LAMBDA m : stage[m] \in {"sent", "received"})
  IN [i \in DOMAIN pending |->
        IF stage[pending[i]] = "sent" THEN PUBLISH(pending[i], pid[pending[i]])
                                      ELSE Packet("pubrel", pid[pending[i]])]

\* The connection is lost, with what is under way; or the client opens a new one
\* while the broker still reads the old.
Break ==
  /\ connected
  /\ breaks < MaxBreaks
  /\ breaks' = breaks + 1
  /\ connected' = FALSE
  /\ up' = <<>> /\ down' = <<>>
  /\ UNCHANGED <<incoming_qos2, routed, late, stage, pid, lates, crashes>>

Reconnect ==
  /\ ~connected
  /\ connected' = TRUE
  /\ up' = Again
  /\ UNCHANGED <<incoming_qos2, routed, late, down, stage, pid, breaks, lates, crashes>>

Takeover ==
  /\ connected
  /\ breaks < MaxBreaks
  /\ breaks' = breaks + 1
  /\ late' = up
  /\ up' = Again
  /\ down' = <<>>
  /\ UNCHANGED <<incoming_qos2, routed, stage, pid, connected, lates, crashes>>

\* A crash: incoming_qos2 is not persisted, the session is (Hub::new).
Crash ==
  /\ crashes < MaxCrashes
  /\ crashes' = crashes + 1
  /\ incoming_qos2' = {}
  /\ connected' = FALSE
  /\ up' = <<>> /\ late' = <<>> /\ down' = <<>>
  /\ UNCHANGED <<routed, stage, pid, breaks, lates>>

Next ==
  \/ ReadPacket
  \/ ReadLatePacket
  \/ \E m \in Message : Publish(m)
  \/ ClientReads
  \/ Break
  \/ Reconnect
  \/ Takeover
  \/ Crash

Spec == Init /\ [][Next]_vars

\* The broker reads its connections and the client its own; the client publishes what
\* it has and comes back when its connection is lost.
Fairness ==
  /\ WF_vars(ReadPacket)
  /\ WF_vars(ClientReads)
  /\ WF_vars(Reconnect)
  /\ \A m \in Message : WF_vars(Publish(m))

FairSpec == Spec /\ Fairness

-------------------------------------------------------------------------------
(***************************************************************************)
(* Properties                                                              *)
(***************************************************************************)
\* "2 | exactly once": a QoS 2 message is routed at most once, however often the
\* client has to send it again over connections that break or are taken over.  (Not
\* so after a crash, since incoming_qos2 is not persisted, nor once a packet of a
\* connection that was taken over is read after those of the new one.)
RoutedOnce ==
  (crashes = 0 /\ lates = 0) => \A m \in Message : QoSOf[m] = 2 => routed[m] <= 1

\* A message that the client may forget, or will not publish again, has been routed,
\* unless it was denied, through crashes and late packets; one that was denied never
\* is.  In particular no id that an earlier message left in incoming_qos2 makes it look
\* like a duplicate.  (A late PUBLISH of an earlier message with the same id may leave
\* one there.)
AcknowledgedRouted ==
  \A m \in Message :
    /\ (stage[m] \in {"received", "done"} /\ m \notin Denied /\ (m <= NumIds \/ lates = 0))
         => routed[m] >= 1
    /\ m \in Denied => routed[m] = 0

\* Every message is acknowledged in the end.
Acknowledged == \A m \in Message : <>(stage[m] = "done")
=================================================================================
