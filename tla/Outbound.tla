-------------------------------- MODULE Outbound --------------------------------
(***************************************************************************)
(* The outbound side of one session (struct Session and the handlers of    *)
(* hub.rs that use it): the packet ids, the in-flight queue of QoS 1 and   *)
(* QoS 2 messages, retransmission after a reconnect, the retry timer and   *)
(* the dead letters; with the connection of its client, which may break    *)
(* or be taken over at any point, and a client that follows MQTT.          *)
(*                                                                         *)
(* Messages are numbered in the order in which they are delivered to the   *)
(* session.  The in-flight queue is only pushed at its back and filtered,  *)
(* so it is the set of its entries, in the order of their messages.        *)
(*                                                                         *)
(* Time is not modelled: at a tick of the retry timer any of the entries   *)
(* may be due.  The row of the session on disk is a copy of an earlier     *)
(* state of it; how writes reach it is the subject of InflightStore.       *)
(***************************************************************************)
EXTENDS Integers, Sequences, FiniteSets

CONSTANTS
  MAX_PID,        \* the largest packet id; 65535 in the code (u16)
  max_attempts,   \* RetryConfig.max_attempts
  Kinds,          \* kinds of messages published, records of qos and dlq
  MaxMessages,    \* bound: messages delivered to the session
  MaxBreaks,      \* bound: lost connections and takeovers
  MaxUnderway,    \* bound: packets under way when the retry timer adds more
  MaxCrashes,     \* bound: crashes of the broker
  NoRow           \* no row for the session on disk

ASSUME ConstantsAssumption ==
  /\ MAX_PID \in Nat \ {0}
  /\ max_attempts \in Nat \ {0}
  /\ Kinds \subseteq [qos : 0..2, dlq : BOOLEAN]
  /\ MaxMessages \in Nat
  /\ MaxBreaks \in Nat
  /\ MaxUnderway \in Nat
  /\ MaxCrashes \in Nat

VARIABLES
  state,      \* the session: in the table with a channel, without one, or gone
  next_id,    \* Session.next_id
  inflight,   \* Session.inflight
  row,        \* the session on disk
  down,       \* packets under way to the client, oldest first
  up,         \* acknowledgements under way to the broker
  late,       \* those of a connection that was taken over, still being read
  msgs,       \* history: the messages delivered to the session so far
  received,   \* the client: QoS 2 packet ids that await their PUBREL
  got,        \* the client: messages handed to the application, first time
  twice,      \* the client: messages handed to the application again
  confirmed,  \* history: messages whose receipt the broker knows of
  dead,       \* history: messages handed to the dead-letter path
  dropped,    \* history: messages that went with their session
  breaks,     \* history: the connections lost or taken over so far
  crashes,    \* history: the crashes so far
  reissued,   \* history: a crash has made ids free again that had been handed out
  reverted    \* history: a crash has brought back what had been confirmed or given up

client == <<received, got, twice>>
fates  == <<confirmed, dead, dropped>>
store  == <<row, crashes, reissued, reverted>>

vars == <<state, next_id, inflight, down, up, late, msgs, client, fates, breaks, store>>

Message == 1..MaxMessages
PacketId == 1..MAX_PID
Stages == {"Qos1", "Qos2AwaitRec", "Qos2AwaitComp"}

\* An InflightEntry.  `attempts` beyond max_attempts tells nothing apart.
Entry == [msg : Message, pid : PacketId, stage : Stages, attempts : 1..max_attempts]

\* A PUBLISH, with the packet id 0 for None, and a PUBREL.
Publish(m, pid) == [type |-> "publish", msg |-> m, pid |-> pid]
pubrel(pid) == [type |-> "pubrel", pid |-> pid]
Packet == [type : {"publish"}, msg : Message, pid : 0..MAX_PID]
            \cup [type : {"pubrel"}, pid : PacketId]

Ack == [type : {"puback", "pubrec", "pubcomp"}, pid : PacketId]

Init ==
  /\ state = "gone"
  /\ next_id = 1
  /\ inflight = {}
  /\ down = <<>> /\ up = <<>> /\ late = <<>>
  /\ msgs = <<>>
  /\ received = {}
  /\ got = <<>>
  /\ twice = {}
  /\ confirmed = {} /\ dead = {} /\ dropped = {}
  /\ breaks = 0
  /\ row = NoRow /\ crashes = 0
  /\ reissued = FALSE /\ reverted = FALSE

-------------------------------------------------------------------------------
MsgsOf(entries) == {e.msg : e \in entries}

\* Session::send: a packet for an offline session is dropped.
send(packets) == down' = IF state = "online" THEN down \o packets ELSE down

\* A u16 counter that skips 0.
AfterId(id) == IF id = MAX_PID THEN 1 ELSE id + 1

\* What is sent again for an entry: the PUBLISH until it is confirmed, and then
\* the PUBREL.
\* (Mutant: always the PUBLISH.)
Resend_Publish(e) == Publish(e.msg, e.pid)
Resend(e) == IF e.stage = "Qos2AwaitComp" THEN pubrel(e.pid) ELSE Publish(e.msg, e.pid)

\* The entries in queue order, and the packets that send them again.  (Mutant:
\* newest first.)
Listings(entries) ==
  {q \in UNION {[1..n -> entries] : n \in 0..MaxMessages} :
     \A e \in entries : \E i \in DOMAIN q : q[i] = e}

Orderings_NewestFirst(entries) ==
  {q \in Listings(entries) : \A i, j \in DOMAIN q : i < j => q[i].msg > q[j].msg}

Orderings(entries) ==
  {q \in Listings(entries) : \A i, j \in DOMAIN q : i < j => q[i].msg < q[j].msg}

Resent(q) == [i \in DOMAIN q |-> Resend(q[i])]

-------------------------------------------------------------------------------
(***************************************************************************)
(* Session::deliver, for each of the effective QoS.                        *)
(***************************************************************************)
deliver(k) ==
  LET m == Len(msgs) + 1
      e == [msg |-> m, pid |-> next_id, attempts |-> 1,
            stage |-> IF k.qos = 1 THEN "Qos1" ELSE "Qos2AwaitRec"]
  IN /\ state # "gone"
     /\ m <= MaxMessages
     /\ msgs' = Append(msgs, k)
     /\ IF k.qos = 0
          THEN /\ send(<<Publish(m, 0)>>)
               /\ UNCHANGED <<next_id, inflight>>
          ELSE /\ next_id' = AfterId(next_id)
               /\ inflight' = inflight \cup {e}
               /\ send(<<Publish(m, next_id)>>)
     /\ UNCHANGED <<state, up, late, client, fates, breaks, store>>

-------------------------------------------------------------------------------
(***************************************************************************)
(* Acknowledgements (Session::on_puback, on_pubrec and on_pubcomp), read   *)
(* by the connection that holds the channel or, until it notices that it   *)
(* has been taken over, by the one before it.                              *)
(***************************************************************************)
Acked(pid) == {e \in inflight : e.stage = "Qos1" /\ e.pid = pid}

on_puback(pid) ==
  /\ inflight' = inflight \ Acked(pid)
  /\ confirmed' = confirmed \cup MsgsOf(Acked(pid))
  /\ down' = down

\* The first entry that waits for this PUBREC, if there is one.
AwaitingRec(pid) ==
  LET waiting == {e \in inflight : e.stage = "Qos2AwaitRec" /\ e.pid = pid}
  IN {e \in waiting : \A f \in waiting : e.msg <= f.msg}

\* (Mutant: a PUBREC for an unknown id is not answered.)
Released_KnownOnly(pid) == IF AwaitingRec(pid) = {} THEN <<>> ELSE <<pubrel(pid)>>
Released(pid) == <<pubrel(pid)>>

on_pubrec(pid) ==
  /\ inflight' = (inflight \ AwaitingRec(pid))
                   \cup {[e EXCEPT !.stage = "Qos2AwaitComp"] : e \in AwaitingRec(pid)}
  /\ confirmed' = confirmed \cup MsgsOf(AwaitingRec(pid))
  /\ send(Released(pid))

\* (Mutant: it looks for an entry that awaits its PUBREC.)
on_pubcomp_AwaitRec(pid) ==
  /\ inflight' = {e \in inflight : ~(e.stage = "Qos2AwaitRec" /\ e.pid = pid)}
  /\ confirmed' = confirmed
  /\ down' = down

on_pubcomp(pid) ==
  /\ inflight' = {e \in inflight : ~(e.stage = "Qos2AwaitComp" /\ e.pid = pid)}
  /\ confirmed' = confirmed
  /\ down' = down

on_ack(a) ==
  /\ CASE a.type = "puback" -> on_puback(a.pid)
       [] a.type = "pubrec" -> on_pubrec(a.pid)
       [] a.type = "pubcomp" -> on_pubcomp(a.pid)
  /\ UNCHANGED <<state, next_id, msgs, client, dead, dropped, breaks, store>>

ReadAck ==
  /\ up # <<>>
  /\ up' = Tail(up)
  /\ on_ack(Head(up))
  /\ late' = late

ReadLateAck ==
  /\ late # <<>>
  /\ late' = Tail(late)
  /\ on_ack(Head(late))
  /\ up' = up

-------------------------------------------------------------------------------
(***************************************************************************)
(* Connections.  Hub::connect resumes a session that is in the table, and  *)
(* sends again what is in flight;  with clean_start, or when there is no   *)
(* session, the session is new (and the client, which is told so by        *)
(* session_present, forgets its side).                                     *)
(***************************************************************************)
Resume ==
  /\ state # "gone"
  /\ state = "online" => breaks < MaxBreaks
  /\ breaks' = IF state = "online" THEN breaks + 1 ELSE breaks
  /\ late' = IF state = "online" THEN up ELSE late
  /\ up' = <<>>
  /\ state' = "online"
  /\ \E q \in Orderings(inflight) : down' = Resent(q)
  /\ UNCHANGED <<next_id, inflight, msgs, client, fates, store>>

\* The session goes, with everything that belongs to it.
Forget ==
  /\ inflight' = {}
  /\ next_id' = 1
  /\ down' = <<>> /\ up' = <<>> /\ late' = <<>>

ConnectNew ==
  /\ state # "gone" => breaks < MaxBreaks
  /\ breaks' = IF state # "gone" THEN breaks + 1 ELSE breaks
  /\ state' = "online"
  /\ Forget
  /\ dropped' = dropped \cup MsgsOf(inflight)
  /\ received' = {}
  /\ UNCHANGED <<msgs, got, twice, confirmed, dead, store>>

\* Hub::detach, for a session that is kept and for one that is not.
Detach ==
  /\ state = "online"
  /\ breaks < MaxBreaks
  /\ breaks' = breaks + 1
  /\ state' = "offline"
  /\ down' = <<>> /\ up' = <<>>
  /\ UNCHANGED <<next_id, inflight, late, msgs, client, fates, store>>

DetachDiscard ==
  /\ state = "online"
  /\ breaks < MaxBreaks
  /\ breaks' = breaks + 1
  /\ state' = "gone"
  /\ Forget
  /\ dropped' = dropped \cup MsgsOf(inflight)
  /\ UNCHANGED <<msgs, client, confirmed, dead, store>>

\* The connection that was taken over ends.
LateEnds ==
  /\ late # <<>>
  /\ late' = <<>>
  /\ UNCHANGED <<state, next_id, inflight, down, up, msgs, client, fates, breaks, store>>

-------------------------------------------------------------------------------
(***************************************************************************)
(* Session::tick_retries, called for an online session by run_retries, and *)
(* the purge of an expired session.                                        *)
(***************************************************************************)
\* Messages still without a first confirmation that are not themselves dead
\* letters.  (Mutant: with those past PUBREC.)
Undelivered_All(e) == ~msgs[e.msg].dlq
Undelivered(e) == e.stage # "Qos2AwaitComp" /\ ~msgs[e.msg].dlq

Dies(e) == e.attempts >= max_attempts /\ Undelivered(e)

Bumped(e) ==
  [e EXCEPT !.attempts = IF @ < max_attempts THEN @ + 1 ELSE max_attempts]

tick_retries(due) ==
  LET gone  == {e \in due : Dies(e)}
      again == due \ gone
  IN /\ state = "online"
     /\ Len(down) + Len(up) + Len(late) + Cardinality(again) <= MaxUnderway
     /\ inflight' = (inflight \ due) \cup {Bumped(e) : e \in again}
     /\ dead' = dead \cup MsgsOf(gone)
     /\ \E q \in Orderings(again) : send(Resent(q))
     /\ UNCHANGED <<state, next_id, up, late, msgs, client, confirmed, dropped,
                    breaks, store>>

\* purge_if_idle: drain_undelivered, then discard.
Expire ==
  LET drained == {e \in inflight : Undelivered(e)}
  IN /\ state = "offline"
     /\ state' = "gone"
     /\ dead' = dead \cup MsgsOf(drained)
     /\ dropped' = dropped \cup MsgsOf(inflight \ drained)
     /\ Forget
     /\ UNCHANGED <<msgs, client, confirmed, breaks, store>>

-------------------------------------------------------------------------------
(***************************************************************************)
(* The disk.  Every change is enqueued for the persistence worker, which   *)
(* is behind by as many of them as happened since the state it last wrote. *)
(* Hub::new loads the row after a crash.                                   *)
(***************************************************************************)
\* encode_inflight: the counter is written with the queue, an empty one too.
Encoded == IF state = "gone" THEN NoRow ELSE [next_id |-> next_id, inflight |-> inflight]

\* A write that no crash follows shows nothing and is left out.  A session that is not
\* durable is one for which Persist never happens.
Persist ==
  /\ crashes < MaxCrashes
  /\ row # Encoded
  /\ row' = Encoded
  /\ UNCHANGED <<state, next_id, inflight, down, up, late, msgs, client, fates, breaks,
                 crashes, reissued, reverted>>

Saved == IF row = NoRow THEN [next_id |-> 1, inflight |-> {}] ELSE row

\* decode_inflight.  (Mutant: the counter starts again.)
Decoded_NewCounter == [Saved EXCEPT !.next_id = 1]
Decoded == Saved

Waiting(entries) == MsgsOf({e \in entries : e.stage # "Qos2AwaitComp"})

Crash ==
  /\ crashes < MaxCrashes
  /\ crashes' = crashes + 1
  /\ state' = IF row = NoRow THEN "gone" ELSE "offline"
  /\ next_id' = Decoded.next_id
  /\ inflight' = Decoded.inflight
  /\ down' = <<>> /\ up' = <<>> /\ late' = <<>>
  /\ reissued' = (reissued \/ Saved.next_id # next_id
                           \/ (state = "gone" /\ row # NoRow)
                           \/ ~(MsgsOf(inflight) \subseteq MsgsOf(Saved.inflight)))
  /\ reverted' = (reverted \/ ~(Waiting(Saved.inflight) \subseteq Waiting(inflight)))
  /\ UNCHANGED <<row, msgs, client, fates, breaks>>

-------------------------------------------------------------------------------
(***************************************************************************)
(* The client, not part of the repository: an MQTT 5 receiver that keeps   *)
(* its session and reads its newest connection.                            *)
(***************************************************************************)
Got == {got[i] : i \in 1..Len(got)}

Hand(m) ==
  /\ got' = IF m \in Got THEN got ELSE Append(got, m)
  /\ twice' = IF m \in Got THEN twice \cup {m} ELSE twice

Answer(type, pid) == up' = Append(up, [type |-> type, pid |-> pid])

ClientPublish(p) ==
  \/ /\ msgs[p.msg].qos = 0
     /\ Hand(p.msg)
     /\ UNCHANGED <<received, up>>
  \/ /\ msgs[p.msg].qos = 1
     /\ Hand(p.msg)
     /\ received' = received
     /\ Answer("puback", p.pid)
  \/ /\ msgs[p.msg].qos = 2
     /\ IF p.pid \in received THEN UNCHANGED <<got, twice>> ELSE Hand(p.msg)
     /\ received' = received \cup {p.pid}
     /\ Answer("pubrec", p.pid)

ClientPubrel(p) ==
  /\ received' = received \ {p.pid}
  /\ Answer("pubcomp", p.pid)
  /\ UNCHANGED <<got, twice>>

ClientReads ==
  /\ down # <<>>
  /\ down' = Tail(down)
  /\ \/ Head(down).type = "publish" /\ ClientPublish(Head(down))
     \/ Head(down).type = "pubrel" /\ ClientPubrel(Head(down))
  /\ UNCHANGED <<state, next_id, inflight, late, msgs, fates, breaks, store>>

-------------------------------------------------------------------------------
Tick == \E due \in SUBSET inflight : due # {} /\ tick_retries(due)

Next ==
  \/ \E k \in Kinds : deliver(k)
  \/ ReadAck
  \/ ReadLateAck
  \/ Resume
  \/ ConnectNew
  \/ Detach
  \/ DetachDiscard
  \/ LateEnds
  \/ Tick
  \/ Expire
  \/ ClientReads
  \/ Persist
  \/ Crash

Spec == Init /\ [][Next]_vars

(***************************************************************************)
(* Fairness.  The connection task reads its socket and the client its own; *)
(* the timer ticks for ever, so an entry of an online session is due again *)
(* and again (MaxUnderway holds a tick back now and then, which the code does  *)
(* not, hence the strong form); the client comes back.                     *)
(***************************************************************************)
RetryOf(m) == \E due \in SUBSET inflight : m \in MsgsOf(due) /\ tick_retries(due)

Fairness ==
  /\ WF_vars(ClientReads)
  /\ WF_vars(ReadAck)
  /\ WF_vars(Resume /\ state = "offline")
  /\ \A m \in Message : SF_vars(RetryOf(m))

FairSpec == Spec /\ Fairness

-------------------------------------------------------------------------------
(***************************************************************************)
(* Properties                                                              *)
(***************************************************************************)
\* The variables have their types; a packet id is never 0.
TypeOK ==
  /\ state \in {"online", "offline", "gone"}
  /\ next_id \in PacketId
  /\ inflight \subseteq Entry
  /\ down \in Seq(Packet)
  /\ up \in Seq(Ack)
  /\ late \in Seq(Ack)
  /\ msgs \in Seq(Kinds) /\ Len(msgs) <= MaxMessages
  /\ received \subseteq PacketId
  /\ got \in Seq(Message)
  /\ twice \subseteq Message
  /\ confirmed \subseteq Message
  /\ dead \subseteq Message
  /\ dropped \subseteq Message
  /\ breaks \in 0..MaxBreaks
  /\ row \in [next_id : PacketId, inflight : SUBSET Entry] \cup {NoRow}
  /\ crashes \in 0..MaxCrashes
  /\ reissued \in BOOLEAN /\ reverted \in BOOLEAN

\* At least once: a message accepted for the session at QoS 1 or 2 has reached
\* the client, or is still in the in-flight queue, or was dead-lettered, or went
\* with a session that the client gave up.  Neither a lost connection nor a late,
\* repeated or misdirected acknowledgement loses it; nor a crash, whatever
\* acknowledgements and retries were not yet on disk, unless ids handed out were not:
\* a message that gets such an id anew may be taken by the client for the old one.
NothingLost ==
  ~reissued => \A m \in 1..Len(msgs) :
    msgs[m].qos > 0 => m \in Got \cup MsgsOf(inflight) \cup dead \cup dropped

\* Exactly once: no QoS 2 message is handed to the application a second time,
\* whatever is sent again after a reconnect, by the retry timer or after a crash that
\* did not undo a confirmation.
ExactlyOnce == ~reverted => \A m \in twice : msgs[m].qos < 2

\* The session implements the promise of Delivery: in particular it first hands its
\* messages over in the order in which it accepted them, since retransmission comes
\* before new messages and keeps the queue's order, and only what was handed over or
\* given up leaves the queue.  Void once a crash has lost a write.
Promise ==
  INSTANCE Delivery WITH
    owed    <- MsgsOf(inflight) \ Got,
    settled <- dead \cup dropped,
    void    <- reissued \/ reverted

KeepsPromise == Promise!Spec

\* "A QoS 2 message past PUBREC was already delivered, so it is never
\* dead-lettered"; nor is a QoS 1 message whose PUBACK has been read (and the crash, if
\* any, did not undo it).
ConfirmedNotDead == ~reverted => confirmed \cap dead = {}

\* The timer and the acknowledgements between them bring every message to an end,
\* once the connection stays up.
Settles ==
  \A m \in Message : m \in MsgsOf(inflight) ~> m \notin MsgsOf(inflight)

\* A PUBREC that does not get lost with its connection makes the client release the
\* id, also when the broker has dead-lettered the message in the meantime, or lost it
\* in an earlier crash, and knows the id no more.
Underway(ack) == \E i \in 1..Len(up) : up[i] = ack

Releases ==
  \A pid \in PacketId, n \in 0..(MaxBreaks + MaxCrashes) :
    (Underway([type |-> "pubrec", pid |-> pid]) /\ breaks + crashes = n)
      ~> (pid \notin received \/ breaks + crashes # n)
=================================================================================
