----------------------------- MODULE OutboundProofs -----------------------------
(***************************************************************************)
(* The outbound side of a session, for any number of messages, breaks and  *)
(* crashes: what is confirmed is not given up and, as long as packet ids   *)
(* do not come round, QoS 2 is exactly once and nothing is lost.           *)
(***************************************************************************)
EXTENDS Outbound, TLAPS

(***************************************************************************)
(* Sequences.                                                              *)
(***************************************************************************)
LEMMA HeadTail ==
  ASSUME NEW S, NEW s \in Seq(S), s # <<>>
  PROVE  /\ Head(s) = s[1] /\ Head(s) \in S /\ Tail(s) \in Seq(S)
         /\ Len(s) \in Nat \ {0} /\ Len(Tail(s)) = Len(s) - 1
         /\ \A i \in 1..Len(Tail(s)) : Tail(s)[i] = s[i + 1]
OBVIOUS

LEMMA AppendSeq ==
  ASSUME NEW S, NEW s \in Seq(S), NEW x \in S
  PROVE  /\ Append(s, x) \in Seq(S) /\ Len(s) \in Nat /\ Len(Append(s, x)) = Len(s) + 1
         /\ \A i \in 1..Len(s) : Append(s, x)[i] = s[i]
         /\ Append(s, x)[Len(s) + 1] = x
OBVIOUS

LEMMA ConcatSeq ==
  ASSUME NEW S, NEW s \in Seq(S), NEW t \in Seq(S)
  PROVE  /\ s \o t \in Seq(S) /\ Len(s) \in Nat /\ Len(t) \in Nat
         /\ Len(s \o t) = Len(s) + Len(t)
         /\ \A i \in 1..(Len(s) + Len(t)) :
              (s \o t)[i] = IF i <= Len(s) THEN s[i] ELSE t[i - Len(s)]
OBVIOUS

-------------------------------------------------------------------------------
(***************************************************************************)
(* A message has one entry.                                                *)
(***************************************************************************)
OneEach(q) == \A e, f \in q : e.msg = f.msg => e = f

QueueBase(q) == q \subseteq Entry /\ OneEach(q) /\ \A e \in q : e.msg \in 1..Len(msgs)

RowBase == row # NoRow => QueueBase(row.inflight)

\* A PUBLISH is of a message there is, and has an id unless its QoS is 0.
PacketBase(k, ms) ==
  k.type = "publish" => k.msg \in 1..Len(ms) /\ (ms[k.msg].qos # 0 => k.pid # 0)
DownBase(d, ms) == d \in Seq(Packet) /\ \A i \in 1..Len(d) : PacketBase(d[i], ms)

BaseInv == TypeOK /\ QueueBase(inflight) /\ RowBase /\ DownBase(down, msgs)

\* What a step other than a delivery makes of a queue: entries go, and a PUBREC may move
\* one on.
Keeps(q, q2) ==
  /\ q2 \subseteq Entry /\ OneEach(q2)
  /\ \A f \in q2 : \E e \in q : /\ e.msg = f.msg /\ e.pid = f.pid
                                /\ \/ f.stage = e.stage
                                   \/ e.stage = "Qos2AwaitRec" /\ f.stage = "Qos2AwaitComp"

LEMMA SubsetKeeps ==
  ASSUME NEW q, q \subseteq Entry, OneEach(q), NEW q2 \in SUBSET q
  PROVE  Keeps(q, q2)
BY DEF Keeps, OneEach

LEMMA PubrecKeeps ==
  ASSUME inflight \subseteq Entry, OneEach(inflight), NEW pid,
         NEW q2, q2 = (inflight \ AwaitingRec(pid))
                        \cup {[e EXCEPT !.stage = "Qos2AwaitComp"] : e \in AwaitingRec(pid)}
  PROVE  Keeps(inflight, q2)
<1>1. AwaitingRec(pid) \subseteq inflight /\ \A e \in AwaitingRec(pid) : e.stage = "Qos2AwaitRec"
  BY DEF AwaitingRec
<1> DEFINE moved(e) == [e EXCEPT !.stage = "Qos2AwaitComp"]
<1>2. ASSUME NEW e \in Entry
      PROVE  /\ moved(e) \in Entry /\ moved(e).msg = e.msg /\ moved(e).pid = e.pid
             /\ moved(e).stage = "Qos2AwaitComp"
  BY DEF Entry, Stages
<1>3. \A f \in q2 : \/ f \in inflight \ AwaitingRec(pid)
                    \/ \E e \in AwaitingRec(pid) : f = moved(e)
  OBVIOUS
<1> HIDE DEF moved
<1>4. ASSUME NEW f \in q2
      PROVE  /\ f \in Entry
             /\ \E e \in inflight : /\ e.msg = f.msg /\ e.pid = f.pid
                                    /\ e \in AwaitingRec(pid) => f = moved(e)
                                    /\ e \notin AwaitingRec(pid) => f = e
  <2>1. CASE f \in inflight \ AwaitingRec(pid)
    BY <2>1
  <2>2. ASSUME NEW e \in AwaitingRec(pid), f = moved(e)
        PROVE  /\ f \in Entry /\ e \in inflight
               /\ e.msg = f.msg /\ e.pid = f.pid
    BY <1>1, <1>2, <2>2
  <2> QED BY <1>3, <2>1, <2>2
<1>5. ASSUME NEW f \in q2, NEW g \in q2, f.msg = g.msg PROVE f = g
  BY <1>4, <1>5 DEF OneEach
<1>6. ASSUME NEW f \in q2
      PROVE  \E e \in inflight : /\ e.msg = f.msg /\ e.pid = f.pid
                                 /\ \/ f.stage = e.stage
                                    \/ e.stage = "Qos2AwaitRec" /\ f.stage = "Qos2AwaitComp"
  BY <1>1, <1>2, <1>4
<1> QED BY <1>4, <1>5, <1>6 DEF Keeps, OneEach

LEMMA BumpedFacts ==
  ASSUME NEW e \in Entry
  PROVE  /\ Bumped(e) \in Entry /\ Bumped(e).msg = e.msg /\ Bumped(e).pid = e.pid
         /\ Bumped(e).stage = e.stage
BY ConstantsAssumption DEF Bumped, Entry

LEMMA TickKeeps ==
  ASSUME inflight \subseteq Entry, OneEach(inflight), NEW due \in SUBSET inflight,
         NEW again \in SUBSET due, NEW q2, q2 = (inflight \ due) \cup {Bumped(e) : e \in again}
  PROVE  Keeps(inflight, q2)
<1>1. ASSUME NEW f \in q2
      PROVE  /\ f \in Entry
             /\ \E e \in inflight : /\ e.msg = f.msg /\ e.pid = f.pid /\ e.stage = f.stage
                                    /\ e \in again => f = Bumped(e)
                                    /\ e \notin again => f = e
  <2>1. CASE f \in inflight \ due
    BY <2>1
  <2>2. ASSUME NEW e \in again, f = Bumped(e)
        PROVE  /\ f \in Entry /\ e \in inflight
               /\ e.msg = f.msg /\ e.pid = f.pid /\ e.stage = f.stage
    BY <2>2, BumpedFacts
  <2> QED BY <2>1, <2>2
<1>2. ASSUME NEW f \in q2, NEW g \in q2, f.msg = g.msg PROVE f = g
  BY <1>1, <1>2 DEF OneEach
<1> QED BY <1>1, <1>2 DEF Keeps, OneEach

-------------------------------------------------------------------------------
(***************************************************************************)
(* What is sent again: a packet for each entry.                            *)
(***************************************************************************)
LEMMA ResendType ==
  ASSUME NEW e \in Entry
  PROVE  Resend(e) \in Packet
BY ConstantsAssumption DEF Resend, Publish, pubrel, Packet, Entry, PacketId

LEMMA ResentFacts ==
  ASSUME NEW q, q \subseteq Entry, OneEach(q), NEW o \in Orderings(q)
  PROVE  /\ Resent(o) \in Seq(Packet)
         /\ \A i \in 1..Len(Resent(o)) : \E e \in q : Resent(o)[i] = Resend(e)
<1>1. PICK n \in 0..MaxMessages : o \in [1..n -> q]
  BY DEF Orderings, Listings
<1>2. n \in Nat
  BY ConstantsAssumption
<1>3. Resent(o) = [i \in 1..n |-> Resend(o[i])]
  BY <1>1 DEF Resent
<1>4. \A i \in 1..n : o[i] \in q /\ Resend(o[i]) \in Packet
  BY <1>1, ResendType
<1>5. Resent(o) \in Seq(Packet) /\ Len(Resent(o)) = n
  BY <1>2, <1>3, <1>4
<1> QED BY <1>3, <1>4, <1>5, Zenon

LEMMA ResentBase ==
  ASSUME NEW q, QueueBase(q), NEW o \in Orderings(q)
  PROVE  DownBase(Resent(o), msgs)
<1>1. \A e \in q : PacketBase(Resend(e), msgs)
  BY DEF QueueBase, PacketBase, Resend, Publish, pubrel, Entry, PacketId
<1> QED BY <1>1, ResentFacts DEF QueueBase, DownBase

LEMMA NothingBase == \A ms : DownBase(<<>>, ms)
BY DEF DownBase

LEMMA OneBase ==
  ASSUME NEW k \in Packet, NEW ms, PacketBase(k, ms)
  PROVE  DownBase(<<k>>, ms)
BY DEF DownBase

LEMMA SendBase ==
  ASSUME NEW ms, DownBase(down, ms), NEW s, DownBase(s, ms), send(s)
  PROVE  DownBase(down', ms)
<1>1. /\ Len(down \o s) = Len(down) + Len(s) /\ down \o s \in Seq(Packet)
      /\ Len(down) \in Nat /\ Len(s) \in Nat
      /\ \A i \in 1..(Len(down) + Len(s)) :
           (down \o s)[i] = IF i <= Len(down) THEN down[i] ELSE s[i - Len(down)]
  BY ConcatSeq DEF DownBase
<1>2. ASSUME NEW i \in 1..Len(down \o s) PROVE PacketBase((down \o s)[i], ms)
  <2>1. CASE i <= Len(down)
    BY <1>1, <2>1 DEF DownBase
  <2>2. CASE i > Len(down)
    <3>1. i - Len(down) \in 1..Len(s) /\ (down \o s)[i] = s[i - Len(down)]
      BY <1>1, <2>2
    <3> QED BY <3>1 DEF DownBase
  <2> QED BY <1>1, <2>1, <2>2
<1> QED BY <1>1, <1>2 DEF DownBase, send

-------------------------------------------------------------------------------
(***************************************************************************)
(* Types, and one entry for each message.                                  *)
(***************************************************************************)
LEMMA BaseInit == Init => BaseInv
<1> SUFFICES ASSUME Init PROVE BaseInv
  OBVIOUS
<1>1. /\ 1 \in PacketId /\ 0 \in 0..MaxBreaks /\ 0 \in 0..MaxCrashes /\ 0 <= MaxMessages
      /\ \A S : <<>> \in Seq(S) /\ Len(<<>>) = 0
  BY ConstantsAssumption DEF PacketId
<1>2. TypeOK
  BY <1>1, Zenon DEF Init, TypeOK
<1> QED BY <1>2, NothingBase DEF Init, BaseInv, RowBase, QueueBase, OneEach

LEMMA BaseRow ==
  ASSUME BaseInv, row' = row, Len(msgs') \in Nat, Len(msgs) <= Len(msgs')
  PROVE  RowBase'
<1>1. Len(msgs) \in Nat
  BY DEF BaseInv, TypeOK
<1> QED BY <1>1 DEF BaseInv, RowBase, QueueBase

LEMMA BaseKeeps ==
  ASSUME BaseInv, Keeps(inflight, inflight'), UNCHANGED <<row, msgs>>, TypeOK',
         DownBase(down', msgs)
  PROVE  BaseInv'
<1>1. RowBase'
  BY DEF BaseInv, RowBase, QueueBase
<1>2. QueueBase(inflight)'
  BY DEF Keeps, BaseInv, QueueBase
<1> QED BY <1>1, <1>2 DEF BaseInv

LEMMA BaseDeliver ==
  ASSUME BaseInv, NEW k \in Kinds, deliver(k)
  PROVE  BaseInv'
<1> DEFINE m == Len(msgs) + 1
           e == [msg |-> m, pid |-> next_id, attempts |-> 1,
                 stage |-> IF k.qos = 1 THEN "Qos1" ELSE "Qos2AwaitRec"]
<1>1. /\ TypeOK /\ QueueBase(inflight) /\ row' = row
      /\ Len(msgs) \in Nat /\ m <= MaxMessages /\ m \in Message
      /\ msgs' = Append(msgs, k)
  BY DEF BaseInv, TypeOK, deliver, Message, store
<1>2. msgs' \in Seq(Kinds) /\ Len(msgs') = m
  BY <1>1, AppendSeq DEF TypeOK
<1>3. e \in Entry /\ e.msg = m
  BY <1>1, ConstantsAssumption DEF TypeOK, Entry, Stages
<1>4. AfterId(next_id) \in PacketId
  BY <1>1, ConstantsAssumption DEF TypeOK, PacketId, AfterId
<1>5. inflight' \in {inflight, inflight \cup {e}} /\ next_id' \in PacketId
  BY <1>1, <1>4 DEF deliver, TypeOK
<1>6. DownBase(down', msgs')
  <2>1. /\ \A i \in 1..Len(msgs) : msgs'[i] = msgs[i]
        /\ msgs'[m] = k /\ m \in 1..Len(msgs')
    BY <1>1, <1>2, AppendSeq DEF TypeOK
  <2>2. DownBase(down, msgs')
    BY <1>1, <1>2, <2>1 DEF BaseInv, DownBase, PacketBase
  <2>3. Publish(m, 0) \in Packet /\ Publish(m, next_id) \in Packet /\ next_id # 0
    BY <1>1, ConstantsAssumption DEF Publish, Packet, TypeOK, PacketId
  <2>4. PacketBase(Publish(m, next_id), msgs') /\ (k.qos = 0 => PacketBase(Publish(m, 0), msgs'))
    BY <2>1, <2>3 DEF PacketBase, Publish
  <2>5. IF k.qos = 0 THEN send(<<Publish(m, 0)>>) ELSE send(<<Publish(m, next_id)>>)
    BY DEF deliver
  <2> HIDE DEF m
  <2>6. \/ DownBase(<<Publish(m, 0)>>, msgs') /\ send(<<Publish(m, 0)>>)
        \/ DownBase(<<Publish(m, next_id)>>, msgs') /\ send(<<Publish(m, next_id)>>)
    BY <2>3, <2>4, <2>5, OneBase
  <2> QED BY <2>2, <2>6, SendBase
<1> HIDE DEF e, m
<1>7. QueueBase(inflight)'
  BY <1>1, <1>2, <1>3, <1>5 DEF QueueBase, OneEach, m
<1>8. TypeOK'
  <2>1. UNCHANGED <<state, up, late, client, fates, breaks, store>>
    BY DEF deliver
  <2> QED BY <1>1, <1>2, <1>5, <1>6, <1>7, <2>1
          DEF TypeOK, QueueBase, DownBase, client, fates, store
<1>9. RowBase'
  BY <1>1, <1>2, BaseRow DEF m
<1> QED BY <1>6, <1>7, <1>8, <1>9 DEF BaseInv

\* What an acknowledgement does to the queue.
LEMMA AckKeeps ==
  ASSUME BaseInv, NEW a \in Ack, on_ack(a)
  PROVE  /\ Keeps(inflight, inflight')
         /\ DownBase(down', msgs)
         /\ confirmed' \subseteq Message
<1>1. inflight \subseteq Entry /\ OneEach(inflight) /\ confirmed \subseteq Message
      /\ DownBase(down, msgs)
  BY DEF BaseInv, QueueBase, TypeOK
<1>2. CASE a.type = "puback"
  <2>1. on_puback(a.pid)
    BY <1>2 DEF on_ack
  <2>2. Acked(a.pid) \subseteq inflight /\ MsgsOf(Acked(a.pid)) \subseteq Message
    BY <1>1 DEF Acked, MsgsOf, Entry
  <2>3. inflight' \in SUBSET inflight /\ confirmed' \subseteq Message /\ down' = down
    BY <1>1, <2>1, <2>2 DEF on_puback
  <2> QED BY <1>1, <2>3, SubsetKeeps
<1>3. CASE a.type = "pubrec"
  <2>1. on_pubrec(a.pid)
    BY <1>3 DEF on_ack
  <2>2. MsgsOf(AwaitingRec(a.pid)) \subseteq Message
    BY <1>1 DEF AwaitingRec, MsgsOf, Entry
  <2>3. DownBase(<<pubrel(a.pid)>>, msgs)
    BY OneBase DEF pubrel, Packet, Ack, PacketBase
  <2>4. DownBase(down', msgs)
    BY <1>1, <2>1, <2>3, SendBase DEF on_pubrec, Released
  <2>5. Keeps(inflight, inflight')
    BY <1>1, <2>1, PubrecKeeps DEF on_pubrec
  <2> QED BY <1>1, <2>1, <2>2, <2>4, <2>5 DEF on_pubrec
<1>4. CASE a.type = "pubcomp"
  <2>1. inflight' \in SUBSET inflight /\ confirmed' = confirmed /\ down' = down
    BY <1>4 DEF on_ack, on_pubcomp
  <2> QED BY <1>1, <2>1, SubsetKeeps
<1> QED BY <1>2, <1>3, <1>4 DEF Ack

LEMMA BaseReads ==
  ASSUME BaseInv, ReadAck \/ ReadLateAck
  PROVE  BaseInv'
<1>1. TypeOK
  BY DEF BaseInv
<1>2. PICK a \in Ack : on_ack(a) /\ up' \in Seq(Ack) /\ late' \in Seq(Ack)
  <2>1. CASE ReadAck
    <3>1. Head(up) \in Ack /\ Tail(up) \in Seq(Ack)
      BY <1>1, <2>1, HeadTail DEF ReadAck, TypeOK
    <3> QED BY <1>1, <2>1, <3>1 DEF ReadAck, TypeOK
  <2>2. CASE ReadLateAck
    <3>1. Head(late) \in Ack /\ Tail(late) \in Seq(Ack)
      BY <1>1, <2>2, HeadTail DEF ReadLateAck, TypeOK
    <3> QED BY <1>1, <2>2, <3>1 DEF ReadLateAck, TypeOK
  <2> QED BY <2>1, <2>2
<1>3. /\ Keeps(inflight, inflight') /\ DownBase(down', msgs) /\ confirmed' \subseteq Message
      /\ inflight' \subseteq Entry /\ down' \in Seq(Packet)
  BY <1>2, AckKeeps DEF Keeps, DownBase
<1>4. UNCHANGED <<state, next_id, msgs, client, dead, dropped, breaks, store>>
  BY <1>2 DEF on_ack
<1>5. TypeOK'
  BY <1>1, <1>2, <1>3, <1>4 DEF TypeOK, client, store
<1> QED BY <1>3, <1>4, <1>5, BaseKeeps DEF store

LEMMA SameKeeps ==
  ASSUME BaseInv
  PROVE  Keeps(inflight, inflight)
BY SubsetKeeps DEF BaseInv, QueueBase

LEMMA BaseResume ==
  ASSUME BaseInv, Resume
  PROVE  BaseInv'
<1>1. /\ UNCHANGED <<next_id, inflight, msgs, client, fates, store>> /\ TypeOK
      /\ state' = "online" /\ up' = <<>> /\ late' \in {up, late} /\ breaks' \in 0..MaxBreaks
  BY ConstantsAssumption DEF Resume, BaseInv, TypeOK
<1>2. DownBase(down', msgs)
  BY ResentBase DEF Resume, BaseInv
<1>3. TypeOK'
  BY <1>1, <1>2 DEF TypeOK, DownBase, client, fates, store
<1> QED BY <1>1, <1>2, <1>3, SameKeeps, BaseKeeps DEF store

LEMMA MsgsType ==
  ASSUME NEW q, q \subseteq Entry
  PROVE  MsgsOf(q) \subseteq Message
BY DEF MsgsOf, Entry

\* The end of a session, however it comes.
LEMMA BaseForget ==
  ASSUME BaseInv, Forget, UNCHANGED <<msgs, got, twice, confirmed, store>>,
         state' \in {"online", "gone"}, breaks' \in 0..MaxBreaks, received' \in {received, {}},
         dead' \subseteq Message, dropped' \subseteq Message
  PROVE  BaseInv'
<1>1. TypeOK /\ inflight' = {} /\ next_id' \in PacketId /\ down' = <<>> /\ up' = <<>> /\ late' = <<>>
  BY ConstantsAssumption DEF Forget, BaseInv, PacketId
<1>2. TypeOK'
  BY <1>1 DEF TypeOK, store
<1>3. Keeps(inflight, inflight')
  BY <1>1, SubsetKeeps DEF BaseInv, QueueBase
<1> QED BY <1>1, <1>2, <1>3, BaseKeeps, NothingBase DEF store

LEMMA BaseEnds ==
  ASSUME BaseInv, ConnectNew \/ DetachDiscard \/ Expire
  PROVE  BaseInv'
<1>1. inflight \subseteq Entry /\ dead \subseteq Message /\ dropped \subseteq Message
      /\ breaks \in 0..MaxBreaks
  BY DEF BaseInv, TypeOK, QueueBase
<1>2. CASE ConnectNew
  <2>1. breaks' \in 0..MaxBreaks /\ dropped' \subseteq Message
    BY <1>1, <1>2, MsgsType, ConstantsAssumption DEF ConnectNew
  <2> QED BY <1>1, <1>2, <2>1, BaseForget DEF ConnectNew
<1>3. CASE DetachDiscard
  <2>1. breaks' \in 0..MaxBreaks /\ dropped' \subseteq Message
    BY <1>1, <1>3, MsgsType, ConstantsAssumption DEF DetachDiscard
  <2> QED BY <1>1, <1>3, <2>1, BaseForget DEF DetachDiscard, client
<1>4. CASE Expire
  <2>1. dead' \subseteq Message /\ dropped' \subseteq Message
    <3> DEFINE drained == {e \in inflight : Undelivered(e)}
    <3>1. MsgsOf(drained) \subseteq Message /\ MsgsOf(inflight \ drained) \subseteq Message
      BY <1>1, MsgsType
    <3> QED BY <1>1, <1>4, <3>1 DEF Expire
  <2> QED BY <1>1, <1>4, <2>1, BaseForget DEF Expire, client
<1> QED BY <1>2, <1>3, <1>4

LEMMA BaseTick ==
  ASSUME BaseInv, NEW due \in SUBSET inflight, tick_retries(due)
  PROVE  BaseInv'
<1> DEFINE gone == {e \in due : Dies(e)}
           again == due \ gone
<1>1. /\ inflight' = (inflight \ due) \cup {Bumped(e) : e \in again}
      /\ dead' = dead \cup MsgsOf(gone)
      /\ \E q \in Orderings(again) : send(Resent(q))
      /\ UNCHANGED <<state, next_id, up, late, msgs, client, confirmed, dropped, breaks, store>>
  BY Zenon DEF tick_retries
<1>2. again \in SUBSET due /\ gone \subseteq inflight
  OBVIOUS
<1> HIDE DEF gone, again
<1>3. inflight \subseteq Entry /\ OneEach(inflight) /\ TypeOK
  BY DEF BaseInv, QueueBase
<1>4. Keeps(inflight, inflight')
  BY <1>1, <1>2, <1>3, TickKeeps
<1>5. DownBase(down', msgs)
  <2>1. QueueBase(again) /\ DownBase(down, msgs)
    BY <1>2 DEF BaseInv, QueueBase, OneEach
  <2> QED BY <1>1, <2>1, ResentBase, SendBase
<1>6. dead' \subseteq Message
  BY <1>1, <1>2, <1>3, MsgsType DEF TypeOK
<1>7. TypeOK'
  BY <1>1, <1>3, <1>4, <1>5, <1>6 DEF TypeOK, DownBase, Keeps, client, store
<1> QED BY <1>1, <1>4, <1>5, <1>7, BaseKeeps DEF store

\* What the client does with the packet it reads.
LEMMA ClientTypes ==
  ASSUME BaseInv, ClientReads
  PROVE  /\ Head(down) \in Packet /\ down' = Tail(down) /\ DownBase(down', msgs)
         /\ up' \in Seq(Ack) /\ received' \subseteq PacketId
         /\ got' \in Seq(Message) /\ twice' \subseteq Message
<1>1. /\ up \in Seq(Ack) /\ received \subseteq PacketId /\ got \in Seq(Message)
      /\ twice \subseteq Message /\ down \in Seq(Packet) /\ down # <<>> /\ down' = Tail(down)
  BY DEF BaseInv, TypeOK, ClientReads
<1>2. /\ Head(down) \in Packet /\ PacketBase(Head(down), msgs) /\ DownBase(Tail(down), msgs)
  <2>1. /\ Head(down) \in Packet /\ Tail(down) \in Seq(Packet) /\ Head(down) = down[1]
        /\ Len(down) \in Nat \ {0} /\ Len(Tail(down)) = Len(down) - 1
        /\ \A i \in 1..Len(Tail(down)) : Tail(down)[i] = down[i + 1]
    BY <1>1, HeadTail
  <2> QED BY <2>1 DEF BaseInv, DownBase
<1> DEFINE p == Head(down)
<1> HIDE DEF p
<1>3. CASE p.type = "publish" /\ ClientPublish(p)
  <2>1. p.msg \in Message /\ p.pid \in 0..MAX_PID /\ (msgs[p.msg].qos # 0 => p.pid # 0)
    BY <1>2, <1>3 DEF Packet, PacketBase, p
  <2>2. UNCHANGED <<got, twice>> \/ Hand(p.msg)
    BY <1>3 DEF ClientPublish
  <2>3. got' \in Seq(Message) /\ twice' \subseteq Message
    <3>1. Append(got, p.msg) \in Seq(Message)
      BY <1>1, <2>1, AppendSeq
    <3>2. got' \in {got, Append(got, p.msg)} /\ twice' \in {twice, twice \cup {p.msg}}
      BY <2>2 DEF Hand
    <3> QED BY <1>1, <2>1, <3>1, <3>2, Zenon
  <2>4. up' \in Seq(Ack) /\ received' \subseteq PacketId
    <3>1. CASE msgs[p.msg].qos = 0
      BY <1>1, <1>3, <3>1 DEF ClientPublish
    <3>2. CASE msgs[p.msg].qos # 0
      <4>1. p.pid \in PacketId
        BY <2>1, <3>2, ConstantsAssumption DEF PacketId
      <4>2. /\ [type |-> "puback", pid |-> p.pid] \in Ack
            /\ [type |-> "pubrec", pid |-> p.pid] \in Ack
        BY <4>1 DEF Ack
      <4>3. /\ received' \in {received, received \cup {p.pid}}
            /\ \/ up' = Append(up, [type |-> "puback", pid |-> p.pid])
               \/ up' = Append(up, [type |-> "pubrec", pid |-> p.pid])
        BY <1>3, <3>2 DEF ClientPublish, Answer
      <4>4. /\ Append(up, [type |-> "puback", pid |-> p.pid]) \in Seq(Ack)
            /\ Append(up, [type |-> "pubrec", pid |-> p.pid]) \in Seq(Ack)
        BY <1>1, <4>2, AppendSeq
      <4> QED BY <1>1, <4>1, <4>3, <4>4, Zenon
    <3> QED BY <3>1, <3>2
  <2> QED BY <1>1, <1>2, <2>3, <2>4
<1>4. CASE p.type = "pubrel" /\ ClientPubrel(p)
  <2>1. [type |-> "pubcomp", pid |-> p.pid] \in Ack
    BY <1>2, <1>4 DEF Packet, Ack, p
  <2>2. /\ received' = received \ {p.pid} /\ UNCHANGED <<got, twice>>
        /\ up' = Append(up, [type |-> "pubcomp", pid |-> p.pid])
    BY <1>4 DEF ClientPubrel, Answer
  <2> QED BY <1>1, <1>2, <2>1, <2>2, AppendSeq
<1> QED BY <1>3, <1>4 DEF ClientReads, p

LEMMA BaseClient ==
  ASSUME BaseInv, ClientReads
  PROVE  BaseInv'
<1>1. UNCHANGED <<state, next_id, inflight, late, msgs, fates, breaks, store>>
  BY DEF ClientReads
<1>2. TypeOK'
  BY <1>1, ClientTypes DEF BaseInv, TypeOK, DownBase, fates, store
<1> QED BY <1>1, <1>2, ClientTypes, SameKeeps, BaseKeeps DEF store

LEMMA BasePersist ==
  ASSUME BaseInv, Persist
  PROVE  BaseInv'
<1>1. /\ TypeOK /\ QueueBase(inflight) /\ row' = Encoded
      /\ UNCHANGED <<state, next_id, inflight, down, up, late, msgs, client, fates, breaks,
                     crashes, reissued, reverted>>
  BY DEF BaseInv, Persist
<1>2. /\ row' \in [next_id : PacketId, inflight : SUBSET Entry] \cup {NoRow}
      /\ row' # NoRow => row'.inflight = inflight
  BY <1>1 DEF Encoded, TypeOK
<1>3. TypeOK'
  BY <1>1, <1>2 DEF TypeOK, client, fates
<1>4. QueueBase(inflight)' /\ RowBase'
  BY <1>1, <1>2 DEF QueueBase, RowBase
<1> QED BY <1>1, <1>3, <1>4 DEF BaseInv

LEMMA BaseCrash ==
  ASSUME BaseInv, Crash
  PROVE  BaseInv'
<1>1. /\ TypeOK /\ RowBase /\ next_id' = Decoded.next_id /\ inflight' = Decoded.inflight
      /\ down' = <<>> /\ up' = <<>> /\ late' = <<>>
      /\ UNCHANGED <<row, msgs, client, fates, breaks>>
      /\ state' \in {"gone", "offline"} /\ crashes < MaxCrashes /\ crashes' = crashes + 1
  BY DEF BaseInv, Crash
<1>2. Saved.next_id \in PacketId /\ QueueBase(Saved.inflight)
  <2>1. CASE row = NoRow
    BY <2>1, ConstantsAssumption DEF Saved, PacketId, QueueBase, OneEach
  <2>2. CASE row # NoRow
    BY <1>1, <2>2 DEF Saved, RowBase, TypeOK
  <2> QED BY <2>1, <2>2
<1>3. QueueBase(inflight)'
  BY <1>1, <1>2 DEF Decoded, QueueBase
<1>4. reissued' \in BOOLEAN /\ reverted' \in BOOLEAN
  BY Zenon DEF Crash
<1>5. crashes' \in 0..MaxCrashes
  BY <1>1, ConstantsAssumption DEF TypeOK
<1>6. TypeOK'
  BY <1>1, <1>2, <1>3, <1>4, <1>5 DEF TypeOK, Decoded, QueueBase, client, fates
<1>7. RowBase'
  BY <1>1 DEF RowBase, QueueBase
<1> QED BY <1>1, <1>3, <1>6, <1>7, NothingBase DEF BaseInv

LEMMA BaseQuiet ==
  ASSUME BaseInv, Detach \/ LateEnds
  PROVE  BaseInv'
<1>1. /\ UNCHANGED <<next_id, inflight, msgs, client, fates, store>> /\ TypeOK
      /\ state' \in {"online", "offline", "gone"} /\ breaks' \in 0..MaxBreaks
      /\ down' \in {<<>>, down} /\ up' \in {<<>>, up} /\ late' \in {<<>>, late}
  BY ConstantsAssumption DEF BaseInv, TypeOK, Detach, LateEnds
<1>2. DownBase(down', msgs)
  BY <1>1, NothingBase DEF BaseInv
<1>3. TypeOK'
  <2>1. down' \in Seq(Packet) /\ up' \in Seq(Ack) /\ late' \in Seq(Ack)
    <3>1. \A S : <<>> \in Seq(S)
      OBVIOUS
    <3> QED BY <1>1, <3>1, Zenon DEF TypeOK
  <2> QED BY <1>1, <2>1, Zenon DEF TypeOK, client, fates, store
<1> QED BY <1>1, <1>2, <1>3, SameKeeps, BaseKeeps DEF store

LEMMA BaseStep == BaseInv /\ [Next]_vars => BaseInv'
<1> SUFFICES ASSUME BaseInv, [Next]_vars PROVE BaseInv'
  OBVIOUS
<1>1. CASE UNCHANGED vars
  <2>1. TypeOK'
    BY <1>1 DEF BaseInv, TypeOK, vars, client, fates, store
  <2> QED BY <1>1, <2>1, SameKeeps, BaseKeeps DEF BaseInv, vars, store
<1> QED BY <1>1, BaseDeliver, BaseReads, BaseResume, BaseEnds, BaseQuiet, BaseTick, BaseClient,
           BasePersist, BaseCrash DEF Next, Tick

LEMMA BaseAlways == Spec => []BaseInv
BY BaseInit, BaseStep, PTL DEF Spec

-------------------------------------------------------------------------------
(***************************************************************************)
(* What has been confirmed or given up does not wait for a confirmation.   *)
(***************************************************************************)
FatesInv ==
  /\ confirmed \cup dead \subseteq 1..Len(msgs)
  /\ ~reverted => /\ confirmed \cap dead = {}
                  /\ (confirmed \cup dead) \cap Waiting(inflight) = {}

LEMMA WaitingIs ==
  ASSUME NEW q, NEW m
  PROVE  m \in Waiting(q) <=> \E e \in q : e.msg = m /\ e.stage # "Qos2AwaitComp"
BY DEF Waiting, MsgsOf

LEMMA KeepsWaiting ==
  ASSUME NEW q, NEW q2, Keeps(q, q2)
  PROVE  Waiting(q2) \subseteq Waiting(q)
<1> SUFFICES ASSUME NEW m \in Waiting(q2) PROVE m \in Waiting(q)
  OBVIOUS
<1>1. PICK f \in q2 : f.msg = m /\ f.stage # "Qos2AwaitComp"
  BY WaitingIs
<1>2. PICK e \in q : e.msg = f.msg /\ e.stage = f.stage
  BY <1>1 DEF Keeps
<1> QED BY <1>1, <1>2, WaitingIs

LEMMA WaitingRange ==
  ASSUME BaseInv
  PROVE  Waiting(inflight) \subseteq 1..Len(msgs)
BY WaitingIs DEF BaseInv, QueueBase

\* A step that settles some of the messages that wait, one way or the other.
LEMMA FatesSettle ==
  ASSUME BaseInv, FatesInv, NEW M, M \subseteq Waiting(inflight),
         Waiting(inflight') \subseteq Waiting(inflight) \ M,
         \/ confirmed' = confirmed \cup M /\ dead' = dead
         \/ confirmed' = confirmed /\ dead' = dead \cup M,
         UNCHANGED <<msgs, reverted>>
  PROVE  FatesInv'
<1>1. M \subseteq 1..Len(msgs)
  BY WaitingRange
<1>2. confirmed' \cup dead' = (confirmed \cup dead) \cup M
  OBVIOUS
<1>3. (confirmed \cup dead)' \subseteq 1..Len(msgs')
  BY <1>1, <1>2, Zenon DEF FatesInv
<1>4. ASSUME ~reverted'
      PROVE  /\ confirmed' \cap dead' = {}
             /\ (confirmed' \cup dead') \cap Waiting(inflight') = {}
  <2>1. /\ confirmed \cap dead = {} /\ (confirmed \cup dead) \cap Waiting(inflight) = {}
    BY <1>4 DEF FatesInv
  <2> QED BY <1>2, <2>1
<1> QED BY <1>3, <1>4 DEF FatesInv

\* A step that settles nothing.
LEMMA FatesSame ==
  ASSUME BaseInv, FatesInv, Keeps(inflight, inflight'),
         UNCHANGED <<msgs, confirmed, dead, reverted>>
  PROVE  FatesInv'
BY FatesSettle, KeepsWaiting DEF FatesInv

LEMMA FatesDeliver ==
  ASSUME BaseInv, FatesInv, NEW k \in Kinds, deliver(k)
  PROVE  FatesInv'
<1> DEFINE m == Len(msgs) + 1
           e == [msg |-> m, pid |-> next_id, attempts |-> 1,
                 stage |-> IF k.qos = 1 THEN "Qos1" ELSE "Qos2AwaitRec"]
<1>1. /\ Len(msgs) \in Nat /\ msgs' = Append(msgs, k) /\ msgs \in Seq(Kinds)
      /\ UNCHANGED <<confirmed, dead, reverted>>
  BY DEF BaseInv, TypeOK, deliver, fates, store
<1>2. Len(msgs') = m
  BY <1>1, AppendSeq
<1>3. inflight' \in {inflight, inflight \cup {e}} /\ e.msg = m
  BY DEF deliver
<1> HIDE DEF e
<1>4. Waiting(inflight') \subseteq Waiting(inflight) \cup {m}
  BY <1>3, WaitingIs
<1>5. m \notin 1..Len(msgs) /\ 1..Len(msgs) \subseteq 1..m
  BY <1>1
<1> QED BY <1>1, <1>2, <1>4, <1>5 DEF FatesInv

LEMMA AckRead ==
  ASSUME BaseInv, ReadAck \/ ReadLateAck
  PROVE  \E a \in Ack : on_ack(a)
<1>1. CASE ReadAck
  BY <1>1, HeadTail DEF ReadAck, BaseInv, TypeOK
<1>2. CASE ReadLateAck
  BY <1>2, HeadTail DEF ReadLateAck, BaseInv, TypeOK
<1> QED BY <1>1, <1>2

LEMMA FatesAck ==
  ASSUME BaseInv, FatesInv, NEW a \in Ack, on_ack(a)
  PROVE  FatesInv'
<1>1. /\ Keeps(inflight, inflight') /\ UNCHANGED <<msgs, dead, reverted>>
      /\ OneEach(inflight) /\ OneEach(inflight') /\ inflight \subseteq Entry
  BY AckKeeps, Zenon DEF on_ack, store, BaseInv, QueueBase, Keeps
<1>2. Waiting(inflight') \subseteq Waiting(inflight)
  BY <1>1, KeepsWaiting
<1>3. CASE a.type = "puback"
  <2> DEFINE M == MsgsOf(Acked(a.pid))
  <2>1. inflight' = inflight \ Acked(a.pid) /\ confirmed' = confirmed \cup M
    BY <1>3 DEF on_ack, on_puback
  <2>2. M \subseteq Waiting(inflight)
    BY WaitingIs DEF MsgsOf, Acked
  <2>3. Waiting(inflight') \cap M = {}
    <3> SUFFICES ASSUME NEW e \in inflight', NEW f \in Acked(a.pid), e.msg = f.msg PROVE FALSE
      BY WaitingIs DEF MsgsOf
    <3> QED BY <1>1, <2>1 DEF OneEach, Acked
  <2> HIDE DEF M
  <2> QED BY <1>1, <1>2, <2>1, <2>2, <2>3, FatesSettle
<1>4. CASE a.type = "pubrec"
  <2> DEFINE A == AwaitingRec(a.pid)
             M == MsgsOf(A)
  <2>1. /\ inflight' = (inflight \ A) \cup {[e EXCEPT !.stage = "Qos2AwaitComp"] : e \in A}
        /\ confirmed' = confirmed \cup M
    BY <1>4 DEF on_ack, on_pubrec
  <2>2. A \subseteq inflight /\ \A e \in A : e.stage = "Qos2AwaitRec"
    BY DEF AwaitingRec
  <2> HIDE DEF A
  <2>3. M \subseteq Waiting(inflight)
    BY <2>2, WaitingIs DEF MsgsOf
  <2>4. Waiting(inflight') \cap M = {}
    <3> SUFFICES ASSUME NEW e \in inflight', NEW f \in A, e.msg = f.msg
                 PROVE  e.stage = "Qos2AwaitComp"
      BY WaitingIs DEF MsgsOf
    <3> DEFINE g == [f EXCEPT !.stage = "Qos2AwaitComp"]
    <3>1. g \in inflight' /\ g.msg = f.msg /\ g.stage = "Qos2AwaitComp"
      BY <1>1, <2>1, <2>2 DEF Entry
    <3> QED BY <1>1, <3>1, Zenon DEF OneEach
  <2> HIDE DEF M
  <2> QED BY <1>1, <1>2, <2>1, <2>3, <2>4, FatesSettle, Zenon
<1>5. CASE a.type = "pubcomp"
  <2>1. confirmed' = confirmed
    BY <1>5 DEF on_ack, on_pubcomp
  <2> QED BY <1>1, <2>1, FatesSame
<1> QED BY <1>3, <1>4, <1>5 DEF Ack

LEMMA FatesTick ==
  ASSUME BaseInv, FatesInv, NEW due \in SUBSET inflight, tick_retries(due)
  PROVE  FatesInv'
<1> DEFINE gone == {e \in due : Dies(e)}
           again == due \ gone
           M == MsgsOf(gone)
<1>1. /\ inflight' = (inflight \ due) \cup {Bumped(e) : e \in again}
      /\ dead' = dead \cup M
      /\ UNCHANGED <<msgs, confirmed, reverted>>
  BY Zenon DEF tick_retries, store
<1>2. /\ again \in SUBSET due /\ gone \subseteq due /\ gone \cap again = {}
      /\ \A e \in gone : e.stage # "Qos2AwaitComp"
  BY DEF Dies, Undelivered
<1> HIDE DEF gone, again
<1>3. inflight \subseteq Entry /\ OneEach(inflight)
  BY DEF BaseInv, QueueBase
<1>4. Waiting(inflight') \subseteq Waiting(inflight)
  BY <1>1, <1>2, <1>3, TickKeeps, KeepsWaiting, Zenon
<1>5. M \subseteq Waiting(inflight)
  BY <1>2, WaitingIs DEF MsgsOf
<1>6. Waiting(inflight') \cap M = {}
  <2> SUFFICES ASSUME NEW f \in inflight', NEW g \in gone, f.msg = g.msg PROVE FALSE
    BY WaitingIs DEF MsgsOf
  <2>1. CASE f \in inflight \ due
    BY <1>2, <1>3, <2>1 DEF OneEach
  <2>2. ASSUME NEW e \in again, f = Bumped(e) PROVE FALSE
    <3>1. e.msg = g.msg /\ e \in inflight /\ g \in inflight
      BY <1>2, <1>3, <2>2, BumpedFacts
    <3> QED BY <1>2, <1>3, <3>1 DEF OneEach
  <2> QED BY <1>1, <2>1, <2>2
<1> HIDE DEF M
<1> QED BY <1>1, <1>4, <1>5, <1>6, FatesSettle, Zenon

LEMMA FatesExpire ==
  ASSUME BaseInv, FatesInv, Expire
  PROVE  FatesInv'
<1> DEFINE M == MsgsOf({e \in inflight : Undelivered(e)})
<1>1. /\ inflight' = {} /\ dead' = dead \cup M
      /\ UNCHANGED <<msgs, confirmed, reverted>>
  BY DEF Expire, Forget, store
<1>2. M \subseteq Waiting(inflight)
  BY WaitingIs DEF MsgsOf, Undelivered
<1>3. Waiting(inflight') = {}
  BY <1>1 DEF Waiting, MsgsOf
<1> HIDE DEF M
<1> QED BY <1>1, <1>2, <1>3, FatesSettle, Zenon

LEMMA FatesForget ==
  ASSUME BaseInv, FatesInv, ConnectNew \/ DetachDiscard
  PROVE  FatesInv'
<1>1. inflight' = {} /\ UNCHANGED <<msgs, confirmed, dead, reverted>>
  BY DEF ConnectNew, DetachDiscard, Forget, store
<1> QED BY <1>1, FatesSame, SubsetKeeps DEF BaseInv, QueueBase

LEMMA FatesCrash ==
  ASSUME BaseInv, FatesInv, Crash
  PROVE  FatesInv'
<1>1. /\ UNCHANGED <<msgs, confirmed, dead>> /\ inflight' = Saved.inflight
      /\ ~reverted' => ~reverted /\ Waiting(Saved.inflight) \subseteq Waiting(inflight)
  BY Zenon DEF Crash, Decoded, fates
<1> QED BY <1>1, Zenon DEF FatesInv

LEMMA FatesQuiet ==
  ASSUME BaseInv, FatesInv,
         Resume \/ Detach \/ LateEnds \/ ClientReads \/ Persist \/ UNCHANGED vars
  PROVE  FatesInv'
<1>1. UNCHANGED <<inflight, msgs, confirmed, dead, reverted>>
  BY DEF Resume, Detach, LateEnds, ClientReads, Persist, vars, fates, store
<1> QED BY <1>1, FatesSame, SameKeeps

LEMMA FatesStep == BaseInv /\ FatesInv /\ [Next]_vars => FatesInv'
<1> SUFFICES ASSUME BaseInv, FatesInv, [Next]_vars PROVE FatesInv'
  OBVIOUS
<1>1. CASE ReadAck \/ ReadLateAck
  <2>1. PICK a \in Ack : on_ack(a)
    BY <1>1, AckRead
  <2> QED BY <2>1, FatesAck
<1> QED BY <1>1, FatesDeliver, FatesQuiet, FatesForget, FatesTick, FatesExpire, FatesCrash
        DEF Next, Tick

\* A message whose receipt has been confirmed, by its PUBACK or its PUBREC, is never handed
\* to the dead-letter path, by tick_retries or by the purge of the expired session, and one
\* that has been is never confirmed; unless a crash brought back what had been settled.
THEOREM ConfirmedNeverDead == Spec => []ConfirmedNotDead
<1>1. Init => FatesInv
  BY DEF Init, FatesInv
<1>2. BaseInv /\ FatesInv /\ [Next]_vars => FatesInv'
  BY FatesStep
<1>3. FatesInv => ConfirmedNotDead
  BY DEF FatesInv, ConfirmedNotDead
<1> QED BY <1>1, <1>2, <1>3, BaseAlways, PTL DEF Spec

-------------------------------------------------------------------------------
(***************************************************************************)
(* Ids, entries and packets belong together, as long as ids do not come    *)
(* round.  The ids below Room have been handed out and the others have     *)
(* not; after the last message that no longer matters.                     *)
(***************************************************************************)
Room(id, ms) == IF Len(ms) < MaxMessages THEN id ELSE MAX_PID + 1

\* An id is that of one entry, and the stage is one of the message's QoS.
QueueOK(q, id, ms) ==
  /\ id \in 1..(Len(ms) + 1)
  /\ \A e \in q : /\ e.pid < Room(id, ms)
                  /\ ms[e.msg].qos = IF e.stage = "Qos1" THEN 1 ELSE 2
  /\ \A e, f \in q : e.pid = f.pid => e = f

\* A PUBLISH under way and an entry have the same id if they are of the same message, and
\* only then; the entry for whose id a PUBREL is under way does not wait for a PUBREC.
PacketOK(k, q, id, ms) ==
  /\ k.pid < Room(id, ms)
  /\ k.type = "publish" /\ ms[k.msg].qos # 0 =>
       \A e \in q : e.msg = k.msg <=> e.pid = k.pid
  /\ k.type = "pubrel" => \A e \in q : e.pid = k.pid => e.stage # "Qos2AwaitRec"

\* A message is sent again with the id it had, and a QoS 2 message is not sent behind the
\* PUBREL for its id.
Agree(k, l, ms) ==
  l.type = "publish" =>
    /\ k.type = "publish" /\ k.msg = l.msg /\ ms[l.msg].qos # 0 => k.pid = l.pid
    /\ k.type = "pubrel" /\ k.pid = l.pid => ms[l.msg].qos # 2

DownOK(d, q, id, ms) ==
  /\ \A i \in 1..Len(d) : PacketOK(d[i], q, id, ms)
  /\ \A i, j \in 1..Len(d) : i < j => Agree(d[i], d[j], ms)

AcksOK(acks, id, ms) == \A i \in 1..Len(acks) : acks[i].pid < Room(id, ms)

RowOK ==
  row # NoRow =>
    /\ QueueOK(row.inflight, row.next_id, msgs)
    /\ \A e \in row.inflight, f \in inflight : e.msg = f.msg => e.pid = f.pid

LinkInv ==
  /\ QueueOK(inflight, next_id, msgs)
  /\ RowOK
  /\ DownOK(down, inflight, next_id, msgs)
  /\ AcksOK(up, next_id, msgs) /\ AcksOK(late, next_id, msgs)

NoWrap == MaxMessages <= MAX_PID

LEMMA RoomType ==
  ASSUME NEW id \in Nat, NEW ms
  PROVE  Room(id, ms) \in Nat
BY ConstantsAssumption DEF Room

\* The session goes on: messages are added, and entries only for new messages, with ids that
\* had not been handed out.
Evolves(q, id, ms, q2, id2, ms2) ==
  /\ Room(id, ms) <= Room(id2, ms2)
  /\ Len(ms) <= Len(ms2)
  /\ \A i \in 1..Len(ms) : ms2[i] = ms[i]
  /\ \A f \in q2 :
       \/ f.msg \notin 1..Len(ms) /\ ~(f.pid < Room(id, ms))
       \/ \E e \in q : /\ e.msg = f.msg /\ e.pid = f.pid
                       /\ f.stage = "Qos2AwaitRec" => e.stage = "Qos2AwaitRec"

LEMMA KeepsEvolves ==
  ASSUME NEW q, NEW q2, Keeps(q, q2), NEW id \in Nat, NEW ms, Len(ms) \in Nat
  PROVE  Evolves(q, id, ms, q2, id, ms)
BY RoomType DEF Keeps, Evolves

LEMMA EvolvesPacket ==
  ASSUME NEW q, NEW id \in Nat, NEW ms, NEW q2, NEW id2 \in Nat, NEW ms2,
         Evolves(q, id, ms, q2, id2, ms2),
         NEW k \in Packet, PacketBase(k, ms), PacketOK(k, q, id, ms)
  PROVE  PacketOK(k, q2, id2, ms2)
<1>1. k.pid \in Nat /\ Room(id, ms) \in Nat /\ Room(id2, ms2) \in Nat
  BY RoomType, ConstantsAssumption DEF Packet, PacketId
<1>2. k.pid < Room(id2, ms2)
  BY <1>1 DEF Evolves, PacketOK
<1>3. ASSUME k.type = "publish", ms2[k.msg].qos # 0, NEW f \in q2
      PROVE  f.msg = k.msg <=> f.pid = k.pid
  <2>1. k.msg \in 1..Len(ms) /\ ms2[k.msg] = ms[k.msg]
    BY <1>3 DEF PacketBase, Evolves
  <2> QED BY <1>3, <2>1 DEF Evolves, PacketOK
<1>4. ASSUME k.type = "pubrel", NEW f \in q2, f.pid = k.pid
      PROVE  f.stage # "Qos2AwaitRec"
  BY <1>4 DEF Evolves, PacketOK
<1> QED BY <1>2, <1>3, <1>4 DEF PacketOK

LEMMA EvolvesDown ==
  ASSUME NEW q, NEW id \in Nat, NEW ms, NEW q2, NEW id2 \in Nat, NEW ms2,
         Evolves(q, id, ms, q2, id2, ms2),
         NEW d, DownBase(d, ms), DownOK(d, q, id, ms)
  PROVE  DownOK(d, q2, id2, ms2)
<1>1. \A i \in 1..Len(d) : d[i] \in Packet /\ PacketBase(d[i], ms) /\ PacketOK(d[i], q, id, ms)
  BY DEF DownBase, DownOK
<1>2. \A i \in 1..Len(d) : PacketOK(d[i], q2, id2, ms2)
  BY <1>1, EvolvesPacket
<1>3. ASSUME NEW i \in 1..Len(d), NEW j \in 1..Len(d), i < j
      PROVE  Agree(d[i], d[j], ms2)
  <2>1. Agree(d[i], d[j], ms) /\ PacketBase(d[j], ms)
    BY <1>1, <1>3 DEF DownOK
  <2> QED BY <2>1 DEF Agree, PacketBase, Evolves
<1> QED BY <1>2, <1>3 DEF DownOK

LEMMA EvolvesAcks ==
  ASSUME NEW q, NEW id \in Nat, NEW ms, NEW q2, NEW id2 \in Nat, NEW ms2,
         Evolves(q, id, ms, q2, id2, ms2),
         NEW acks \in Seq(Ack), AcksOK(acks, id, ms)
  PROVE  AcksOK(acks, id2, ms2)
<1>1. Room(id, ms) \in Nat /\ Room(id2, ms2) \in Nat
  BY RoomType
<1>2. \A i \in 1..Len(acks) : acks[i].pid \in Nat
  <2>1. \A i \in 1..Len(acks) : acks[i] \in Ack
    OBVIOUS
  <2> QED BY <2>1, ConstantsAssumption DEF Ack, PacketId
<1> QED BY <1>1, <1>2 DEF AcksOK, Evolves

\* Packets sent behind those under way.
LEMMA JoinDown ==
  ASSUME NEW q, NEW id, NEW ms, NEW d \in Seq(Packet), NEW s \in Seq(Packet),
         DownOK(d, q, id, ms), DownOK(s, q, id, ms),
         \A i \in 1..Len(d), j \in 1..Len(s) : Agree(d[i], s[j], ms)
  PROVE  DownOK(d \o s, q, id, ms)
<1> DEFINE n == Len(d)
           c == d \o s
<1>1. /\ n \in Nat /\ Len(s) \in Nat /\ Len(c) = n + Len(s)
      /\ \A i \in 1..Len(c) : c[i] = IF i <= n THEN d[i] ELSE s[i - n]
  BY ConcatSeq
<1> HIDE DEF c, n
<1>2. ASSUME NEW i \in 1..Len(c)
      PROVE  \/ i \in 1..Len(d) /\ i <= n /\ c[i] = d[i]
             \/ i - n \in 1..Len(s) /\ i > n /\ c[i] = s[i - n]
  BY <1>1 DEF n
<1>3. \A i \in 1..Len(c) : PacketOK(c[i], q, id, ms)
  BY <1>2 DEF DownOK
<1>4. ASSUME NEW i \in 1..Len(c), NEW j \in 1..Len(c), i < j
      PROVE  Agree(c[i], c[j], ms)
  <2>1. CASE i <= n /\ j <= n
    BY <1>1, <1>2, <1>4, <2>1 DEF DownOK
  <2>2. CASE i <= n /\ j > n
    <3>1. ~(i > n) /\ ~(j <= n)
      BY <1>1, <2>2
    <3>2. /\ i \in 1..Len(d) /\ c[i] = d[i]
          /\ j - n \in 1..Len(s) /\ c[j] = s[j - n]
      BY <1>2, <3>1, Zenon
    <3> QED BY <3>2, Zenon
  <2>3. CASE i > n /\ j > n
    <3>1. /\ i - n \in 1..Len(s) /\ j - n \in 1..Len(s) /\ i - n < j - n
          /\ c[i] = s[i - n] /\ c[j] = s[j - n]
      BY <1>1, <1>2, <1>4, <2>3
    <3> QED BY <3>1 DEF DownOK
  <2> QED BY <1>1, <1>4, <2>1, <2>2, <2>3
<1> QED BY <1>3, <1>4 DEF DownOK, c

LEMMA TailDown ==
  ASSUME NEW q, NEW id, NEW ms, NEW d \in Seq(Packet), d # <<>>, DownOK(d, q, id, ms)
  PROVE  /\ DownOK(Tail(d), q, id, ms) /\ PacketOK(Head(d), q, id, ms)
         /\ \A i \in 1..Len(Tail(d)) : Agree(Head(d), Tail(d)[i], ms)
<1>1. /\ Head(d) = d[1] /\ Len(d) \in Nat \ {0} /\ Len(Tail(d)) = Len(d) - 1
      /\ \A i \in 1..Len(Tail(d)) : Tail(d)[i] = d[i + 1]
  BY HeadTail
<1>2. \A i \in 1..Len(Tail(d)) : i + 1 \in 1..Len(d) /\ 1 < i + 1
  BY <1>1
<1>3. 1 \in 1..Len(d)
  BY <1>1
<1>4. \A i, j \in 1..Len(Tail(d)) : i < j => i + 1 < j + 1
  OBVIOUS
<1> QED BY <1>1, <1>2, <1>3, <1>4 DEF DownOK

LEMMA TailAcks ==
  ASSUME NEW id, NEW ms, NEW acks \in Seq(Ack), acks # <<>>, AcksOK(acks, id, ms)
  PROVE  AcksOK(Tail(acks), id, ms) /\ Head(acks).pid < Room(id, ms)
<1>1. /\ Head(acks) = acks[1] /\ Len(acks) \in Nat \ {0} /\ Len(Tail(acks)) = Len(acks) - 1
      /\ \A i \in 1..Len(Tail(acks)) : Tail(acks)[i] = acks[i + 1]
  BY HeadTail
<1>2. 1 \in 1..Len(acks) /\ \A i \in 1..Len(Tail(acks)) : i + 1 \in 1..Len(acks)
  BY <1>1
<1> QED BY <1>1, <1>2 DEF AcksOK

LEMMA NoneOK ==
  \A q, id, ms : DownOK(<<>>, q, id, ms) /\ AcksOK(<<>>, id, ms)
BY DEF DownOK, AcksOK

\* What is sent again fits what is under way, and itself.
LEMMA ResendAgrees ==
  ASSUME NEW q, QueueBase(q), NEW id, QueueOK(q, id, msgs), NEW e \in q
  PROVE  /\ PacketOK(Resend(e), q, id, msgs)
         /\ \A f \in q : Agree(Resend(f), Resend(e), msgs)
         /\ \A k \in Packet : PacketOK(k, q, id, msgs) => Agree(k, Resend(e), msgs)
<1>1. CASE e.stage = "Qos2AwaitComp"
  <2>1. Resend(e).type = "pubrel" /\ Resend(e).pid = e.pid
    BY <1>1 DEF Resend, pubrel
  <2> QED BY <1>1, <2>1 DEF PacketOK, Agree, QueueOK
<1>2. CASE e.stage # "Qos2AwaitComp"
  <2>1. Resend(e).type = "publish" /\ Resend(e).pid = e.pid /\ Resend(e).msg = e.msg
    BY <1>2 DEF Resend, Publish
  <2>2. PacketOK(Resend(e), q, id, msgs)
    BY <2>1 DEF PacketOK, QueueOK, QueueBase, OneEach
  <2>3. msgs[e.msg].qos # 0 /\ (msgs[e.msg].qos = 2 => e.stage = "Qos2AwaitRec")
    BY <1>2 DEF QueueOK, QueueBase, Entry, Stages
  <2>4. ASSUME NEW k \in Packet, PacketOK(k, q, id, msgs) PROVE Agree(k, Resend(e), msgs)
    BY <2>1, <2>3, <2>4 DEF PacketOK, Agree
  <2>5. ASSUME NEW f \in q PROVE Agree(Resend(f), Resend(e), msgs)
    <3>1. CASE f.stage = "Qos2AwaitComp"
      <4>1. Resend(f).type = "pubrel" /\ Resend(f).pid = f.pid
        BY <3>1 DEF Resend, pubrel
      <4> QED BY <1>2, <2>1, <3>1, <4>1 DEF Agree, QueueOK
    <3>2. CASE f.stage # "Qos2AwaitComp"
      <4>1. Resend(f).type = "publish" /\ Resend(f).pid = f.pid /\ Resend(f).msg = f.msg
        BY <3>2 DEF Resend, Publish
      <4> QED BY <2>1, <4>1 DEF Agree, QueueBase, OneEach
    <3> QED BY <3>1, <3>2
  <2> QED BY <2>2, <2>4, <2>5
<1> QED BY <1>1, <1>2

LEMMA ResentOK ==
  ASSUME NEW q, QueueBase(q), NEW id, QueueOK(q, id, msgs), NEW again \in SUBSET q,
         NEW o \in Orderings(again)
  PROVE  /\ Resent(o) \in Seq(Packet)
         /\ DownOK(Resent(o), q, id, msgs)
         /\ \A d : d \in Seq(Packet) /\ DownOK(d, q, id, msgs)
                     => \A i \in 1..Len(d), j \in 1..Len(Resent(o)) : Agree(d[i], Resent(o)[j], msgs)
<1>1. again \subseteq Entry /\ OneEach(again)
  BY DEF QueueBase, OneEach
<1> DEFINE s == Resent(o)
<1>2. s \in Seq(Packet) /\ \A i \in 1..Len(s) : \E e \in q : s[i] = Resend(e)
  BY <1>1, ResentFacts
<1> HIDE DEF s
<1>3. \A i \in 1..Len(s) : PacketOK(s[i], q, id, msgs)
  BY <1>2, ResendAgrees
<1>4. \A i, j \in 1..Len(s) : Agree(s[i], s[j], msgs)
  BY <1>2, ResendAgrees
<1>5. ASSUME NEW d \in Seq(Packet), DownOK(d, q, id, msgs), NEW i \in 1..Len(d), NEW j \in 1..Len(s)
      PROVE  Agree(d[i], s[j], msgs)
  <2>1. d[i] \in Packet /\ PacketOK(d[i], q, id, msgs)
    BY <1>5 DEF DownOK
  <2> QED BY <1>2, <2>1, ResendAgrees
<1> QED BY <1>2, <1>3, <1>4, <1>5, Zenon DEF DownOK, s

\* A step other than a delivery, an end of the session, a write or a crash.
LEMMA LinkKeeps ==
  ASSUME BaseInv, LinkInv, Keeps(inflight, inflight'), UNCHANGED <<next_id, msgs, row>>,
         DownOK(down', inflight', next_id, msgs),
         AcksOK(up', next_id, msgs), AcksOK(late', next_id, msgs)
  PROVE  LinkInv'
<1>1. QueueOK(inflight', next_id, msgs)
  <2>1. \A f \in inflight' : /\ f.pid < Room(next_id, msgs)
                             /\ msgs[f.msg].qos = IF f.stage = "Qos1" THEN 1 ELSE 2
    BY DEF Keeps, LinkInv, QueueOK
  <2>2. \A f, g \in inflight' : f.pid = g.pid => f = g
    BY DEF Keeps, OneEach, LinkInv, QueueOK
  <2> QED BY <2>1, <2>2 DEF LinkInv, QueueOK
<1>2. RowOK'
  <2> SUFFICES ASSUME row # NoRow
               PROVE  \A e \in row.inflight, f \in inflight' : e.msg = f.msg => e.pid = f.pid
    BY DEF LinkInv, RowOK
  <2> QED BY DEF Keeps, LinkInv, RowOK
<1> QED BY <1>1, <1>2 DEF LinkInv

LEMMA LinkTypes ==
  ASSUME BaseInv, LinkInv
  PROVE  /\ next_id \in Nat /\ Len(msgs) \in Nat /\ msgs \in Seq(Kinds)
         /\ down \in Seq(Packet) /\ up \in Seq(Ack) /\ late \in Seq(Ack)
         /\ QueueBase(inflight) /\ QueueOK(inflight, next_id, msgs)
         /\ DownBase(down, msgs) /\ DownOK(down, inflight, next_id, msgs)
         /\ AcksOK(up, next_id, msgs) /\ AcksOK(late, next_id, msgs)
BY ConstantsAssumption DEF BaseInv, TypeOK, LinkInv, PacketId

LEMMA LinkResume ==
  ASSUME BaseInv, LinkInv, Resume
  PROVE  LinkInv'
<1>1. /\ UNCHANGED <<next_id, inflight, msgs, row>> /\ up' = <<>> /\ late' \in {up, late}
      /\ \E o \in Orderings(inflight) : down' = Resent(o)
  BY DEF Resume, store
<1>2. DownOK(down', inflight, next_id, msgs)
  BY <1>1, LinkTypes, ResentOK
<1>3. AcksOK(up', next_id, msgs) /\ AcksOK(late', next_id, msgs)
  BY <1>1, LinkTypes, NoneOK
<1> QED BY <1>1, <1>2, <1>3, SameKeeps, LinkKeeps

LEMMA LinkTick ==
  ASSUME BaseInv, LinkInv, NEW due \in SUBSET inflight, tick_retries(due)
  PROVE  LinkInv'
<1> DEFINE gone == {e \in due : Dies(e)}
           again == due \ gone
<1>1. /\ inflight' = (inflight \ due) \cup {Bumped(e) : e \in again} /\ state = "online"
      /\ \E o \in Orderings(again) : send(Resent(o))
      /\ UNCHANGED <<next_id, up, late, msgs, row>>
  BY Zenon DEF tick_retries, store
<1>2. again \in SUBSET due /\ again \in SUBSET inflight
  OBVIOUS
<1> HIDE DEF gone, again
<1>3. Keeps(inflight, inflight')
  BY <1>1, <1>2, LinkTypes, TickKeeps, Zenon DEF QueueBase
<1>4. PICK o \in Orderings(again) : down' = down \o Resent(o)
  BY <1>1 DEF send
<1>5. DownOK(down', inflight, next_id, msgs)
  BY <1>2, <1>4, LinkTypes, ResentOK, JoinDown, Zenon
<1>6. DownBase(down', msgs)
  BY BaseTick, <1>1 DEF BaseInv
<1>7. DownOK(down', inflight', next_id, msgs)
  BY <1>3, <1>5, <1>6, LinkTypes, KeepsEvolves, EvolvesDown
<1> QED BY <1>1, <1>3, <1>7, LinkTypes, LinkKeeps

LEMMA LinkAck ==
  ASSUME BaseInv, LinkInv, NEW a \in Ack, on_ack(a), a.pid < Room(next_id, msgs),
         AcksOK(up', next_id, msgs), AcksOK(late', next_id, msgs)
  PROVE  LinkInv'
<1>1. Keeps(inflight, inflight') /\ UNCHANGED <<next_id, msgs, row>>
  BY AckKeeps, Zenon DEF on_ack, store
<1>2. DownOK(down, inflight', next_id, msgs)
  BY <1>1, LinkTypes, KeepsEvolves, EvolvesDown
<1>3. CASE a.type # "pubrec"
  <2>1. down' = down
    BY <1>3, Zenon DEF on_ack, on_puback, on_pubcomp, Ack
  <2> QED BY <1>1, <1>2, <2>1, LinkKeeps
<1>4. CASE a.type = "pubrec"
  <2> DEFINE s == <<pubrel(a.pid)>>
  <2>1. /\ inflight' = (inflight \ AwaitingRec(a.pid))
                         \cup {[e EXCEPT !.stage = "Qos2AwaitComp"] : e \in AwaitingRec(a.pid)}
        /\ down' \in {down, down \o s}
    BY <1>4 DEF on_ack, on_pubrec, send, Released
  <2>2. \A e \in inflight : e.pid = a.pid /\ e.stage = "Qos2AwaitRec" => e \in AwaitingRec(a.pid)
    <3>1. \A e \in inflight : e.msg \in Nat
      BY LinkTypes DEF QueueBase, Entry, Message
    <3> QED BY <3>1, LinkTypes DEF AwaitingRec, QueueOK
  <2>3. \A f \in inflight' : f.pid = a.pid => f.stage # "Qos2AwaitRec"
    <3> SUFFICES ASSUME NEW f \in inflight', f.pid = a.pid, f.stage = "Qos2AwaitRec" PROVE FALSE
      OBVIOUS
    <3>1. CASE f \in inflight \ AwaitingRec(a.pid)
      BY <2>2, <3>1
    <3>2. ASSUME NEW e \in AwaitingRec(a.pid), f = [e EXCEPT !.stage = "Qos2AwaitComp"]
          PROVE  FALSE
      <4>1. e \in Entry
        BY LinkTypes DEF AwaitingRec, QueueBase
      <4> QED BY <3>2, <4>1 DEF Entry
    <3> QED BY <2>1, <3>1, <3>2
  <2>4. s \in Seq(Packet) /\ Len(s) = 1 /\ s[1] = pubrel(a.pid)
    BY DEF pubrel, Packet, Ack
  <2>5. DownOK(s, inflight', next_id, msgs)
    BY <2>3, <2>4 DEF DownOK, PacketOK, pubrel
  <2>6. \A k : Agree(k, pubrel(a.pid), msgs)
    BY DEF Agree, pubrel
  <2> HIDE DEF s
  <2>7. DownOK(down \o s, inflight', next_id, msgs)
    BY <1>2, <2>4, <2>5, <2>6, LinkTypes, JoinDown
  <2> QED BY <1>1, <1>2, <2>1, <2>7, LinkKeeps, Zenon
<1> QED BY <1>3, <1>4

LEMMA LinkReads ==
  ASSUME BaseInv, LinkInv, ReadAck \/ ReadLateAck
  PROVE  LinkInv'
<1>1. CASE ReadAck
  <2>1. /\ up # <<>> /\ up' = Tail(up) /\ late' = late /\ on_ack(Head(up))
    BY <1>1 DEF ReadAck
  <2>2. Head(up) \in Ack
    BY <2>1, LinkTypes, HeadTail
  <2> QED BY <2>1, <2>2, LinkTypes, TailAcks, LinkAck
<1>2. CASE ReadLateAck
  <2>1. /\ late # <<>> /\ late' = Tail(late) /\ up' = up /\ on_ack(Head(late))
    BY <1>2 DEF ReadLateAck
  <2>2. Head(late) \in Ack
    BY <2>1, LinkTypes, HeadTail
  <2> QED BY <2>1, <2>2, LinkTypes, TailAcks, LinkAck
<1> QED BY <1>1, <1>2

\* A queue that is left alone while messages are added.
LEMMA QueueGrows ==
  ASSUME NEW q, QueueBase(q), NEW id \in Nat, QueueOK(q, id, msgs), Len(msgs) \in Nat,
         NEW ms, Len(ms) \in Nat, Len(msgs) <= Len(ms), Len(ms) <= MaxMessages, id <= MAX_PID,
         \A i \in 1..Len(msgs) : ms[i] = msgs[i]
  PROVE  QueueOK(q, id, ms)
<1>1. Room(id, msgs) <= Room(id, ms) /\ Room(id, msgs) \in Nat /\ Room(id, ms) \in Nat
  BY ConstantsAssumption DEF Room
<1>2. \A e \in q : e.pid \in Nat /\ e.msg \in 1..Len(msgs)
  BY ConstantsAssumption DEF QueueBase, Entry, PacketId
<1>3. \A e \in q : e.pid < Room(id, ms)
  BY <1>1, <1>2 DEF QueueOK
<1>4. id \in 1..(Len(ms) + 1)
  BY DEF QueueOK
<1> QED BY <1>2, <1>3, <1>4 DEF QueueOK

\* An id that is handed out has not been before, nor has the next one.
LEMMA DeliverRoom ==
  ASSUME NoWrap, BaseInv, LinkInv, NEW k \in Kinds, deliver(k)
  PROVE  /\ Room(next_id, msgs) = next_id /\ next_id <= Room(next_id', msgs')
         /\ next_id' \in 1..(Len(msgs) + 2) /\ next_id' \in Nat
         /\ Room(next_id', msgs') \in Nat
         /\ k.qos # 0 => next_id < Room(next_id', msgs')
<1> DEFINE m == Len(msgs) + 1
<1>1. /\ Len(msgs) \in Nat /\ m <= MaxMessages /\ msgs' = Append(msgs, k)
      /\ next_id \in PacketId /\ next_id \in 1..m /\ MAX_PID \in Nat /\ MaxMessages \in Nat
      /\ IF k.qos = 0 THEN next_id' = next_id ELSE next_id' = AfterId(next_id)
  BY LinkTypes, ConstantsAssumption DEF deliver, BaseInv, TypeOK, QueueOK
<1>2. Len(msgs') = m
  BY <1>1, LinkTypes, AppendSeq, Zenon
<1>3. Room(next_id, msgs) = next_id
  BY <1>1 DEF Room
<1>4. CASE k.qos = 0
  BY <1>1, <1>2, <1>3, <1>4 DEF Room, PacketId
<1>5. CASE k.qos # 0
  BY <1>1, <1>2, <1>3, <1>5 DEF Room, PacketId, AfterId, NoWrap
<1> QED BY <1>3, <1>4, <1>5

\* The message delivered is the last one.
LEMMA MsgsGrow ==
  ASSUME BaseInv, LinkInv, NEW k \in Kinds, msgs' = Append(msgs, k)
  PROVE  /\ Len(msgs') = Len(msgs) + 1 /\ msgs'[Len(msgs) + 1] = k
         /\ \A i \in 1..Len(msgs) : msgs'[i] = msgs[i]
<1>1. msgs \in Seq(Kinds)
  BY LinkTypes, Zenon
<1> QED BY <1>1, AppendSeq

LEMMA LinkDeliver ==
  ASSUME NoWrap, BaseInv, LinkInv, NEW k \in Kinds, deliver(k)
  PROVE  LinkInv'
<1> DEFINE m == Len(msgs) + 1
           e == [msg |-> m, pid |-> next_id, attempts |-> 1,
                 stage |-> IF k.qos = 1 THEN "Qos1" ELSE "Qos2AwaitRec"]
           pid == IF k.qos = 0 THEN 0 ELSE next_id
           s == <<Publish(m, pid)>>
<1>1. /\ Len(msgs) \in Nat /\ m <= MaxMessages /\ msgs' = Append(msgs, k)
      /\ UNCHANGED <<up, late, row>> /\ next_id \in PacketId /\ next_id \in 1..m
      /\ MAX_PID \in Nat /\ MaxMessages \in Nat /\ k.qos \in 0..2
  BY LinkTypes, ConstantsAssumption, Zenon DEF deliver, store, BaseInv, TypeOK, QueueOK
<1>2. /\ Len(msgs') = m /\ msgs'[m] = k /\ \A i \in 1..Len(msgs) : msgs'[i] = msgs[i]
  BY <1>1, MsgsGrow, Zenon
<1>3. /\ down' \in {down, down \o s}
      /\ IF k.qos = 0 THEN inflight' = inflight /\ next_id' = next_id
                      ELSE inflight' = inflight \cup {e} /\ next_id' = AfterId(next_id)
  BY DEF deliver, send
<1>4. e.msg = m /\ e.pid = next_id /\ e.stage = IF k.qos = 1 THEN "Qos1" ELSE "Qos2AwaitRec"
  OBVIOUS
<1> HIDE DEF e
<1>5. /\ Room(next_id, msgs) = next_id /\ next_id <= Room(next_id', msgs')
      /\ next_id' \in 1..(Len(msgs) + 2) /\ next_id' \in Nat /\ Room(next_id', msgs') \in Nat
      /\ k.qos # 0 => next_id < Room(next_id', msgs')
  BY DeliverRoom
<1>6. \A f \in inflight : f.msg \in 1..Len(msgs) /\ f.pid \in Nat /\ f.pid < next_id
  BY <1>5, LinkTypes, ConstantsAssumption DEF QueueBase, QueueOK, Entry, PacketId
<1>7. m \notin 1..Len(msgs) /\ m \in 1..m /\ Len(msgs) <= m /\ ~(next_id < next_id)
  BY <1>1 DEF PacketId
<1> HIDE DEF m
<1>8. Evolves(inflight, next_id, msgs, inflight', next_id', msgs')
  <2>1. \A f \in inflight' : f \in inflight \/ (f.msg = m /\ f.pid = next_id)
    BY <1>3, <1>4
  <2>2. \A f \in inflight' : \/ f.msg \notin 1..Len(msgs) /\ ~(f.pid < Room(next_id, msgs))
                             \/ f \in inflight
    BY <1>5, <1>7, <2>1
  <2> QED BY <1>2, <1>5, <1>7, <2>2 DEF Evolves
<1>9. QueueOK(inflight', next_id', msgs')
  <2>1. ASSUME NEW f \in inflight'
        PROVE  /\ f.pid < Room(next_id', msgs')
               /\ msgs'[f.msg].qos = IF f.stage = "Qos1" THEN 1 ELSE 2
    <3>1. CASE f \in inflight
      <4>1. f.pid < Room(next_id', msgs')
        BY <1>1, <1>5, <1>6, <3>1 DEF PacketId
      <4>2. msgs'[f.msg] = msgs[f.msg]
        BY <1>2, <1>6, <3>1
      <4> QED BY <3>1, <4>1, <4>2, LinkTypes DEF QueueOK
    <3>2. CASE k.qos # 0 /\ f = e
      BY <1>1, <1>2, <1>4, <1>5, <3>2
    <3> QED BY <1>3, <3>1, <3>2
  <2>2. ASSUME NEW f \in inflight', NEW g \in inflight', f.pid = g.pid PROVE f = g
    <3>1. \A h \in inflight : h.pid # next_id
      BY <1>1, <1>6 DEF PacketId
    <3>2. \A h \in inflight' : h \in inflight \/ h = e
      BY <1>3, Zenon
    <3>3. \A h, l \in inflight : h.pid = l.pid => h = l
      BY LinkTypes, Zenon DEF QueueOK
    <3> QED BY <1>4, <2>2, <3>1, <3>2, <3>3, Zenon
  <2>3. next_id' \in 1..(Len(msgs') + 1)
    BY <1>1, <1>2, <1>5 DEF m
  <2> QED BY <2>1, <2>2, <2>3 DEF QueueOK
<1>10. RowOK'
  <2> SUFFICES ASSUME row # NoRow
               PROVE  /\ QueueOK(row.inflight, row.next_id, msgs')
                      /\ \A f \in row.inflight, g \in inflight' : f.msg = g.msg => f.pid = g.pid
    BY <1>1 DEF RowOK
  <2>1. /\ QueueBase(row.inflight) /\ QueueOK(row.inflight, row.next_id, msgs)
        /\ row.next_id \in Nat /\ row.next_id <= MAX_PID
        /\ \A f \in row.inflight, g \in inflight : f.msg = g.msg => f.pid = g.pid
    BY ConstantsAssumption DEF BaseInv, TypeOK, RowBase, LinkInv, RowOK, PacketId
  <2>2. QueueOK(row.inflight, row.next_id, msgs')
    <3>1. Len(msgs') \in Nat /\ Len(msgs) <= Len(msgs') /\ Len(msgs') <= MaxMessages
      BY <1>1, <1>2 DEF m
    <3> QED BY <1>1, <1>2, <2>1, <3>1, QueueGrows, Zenon
  <2>3. \A f \in row.inflight : f.msg # m
    BY <1>7, <2>1, Zenon DEF QueueBase
  <2> QED BY <1>3, <1>4, <2>1, <2>2, <2>3
<1>11. DownOK(down', inflight', next_id', msgs')
  <2>1. DownOK(down, inflight', next_id', msgs')
    BY <1>5, <1>8, LinkTypes, EvolvesDown
  <2>2. s \in Seq(Packet) /\ Len(s) = 1 /\ s[1] = Publish(m, pid) /\ pid \in 0..MAX_PID
    BY <1>1 DEF Publish, Packet, Message, PacketId, m
  <2>3. pid < Room(next_id', msgs')
    BY <1>1, <1>5 DEF PacketId
  <2>4. k.qos # 0 => \A f \in inflight' : f.msg = m <=> f.pid = pid
    BY <1>1, <1>3, <1>4, <1>6, <1>7 DEF PacketId
  <2>5. PacketOK(Publish(m, pid), inflight', next_id', msgs')
    BY <1>2, <2>3, <2>4 DEF PacketOK, Publish
  <2>6. ASSUME NEW i \in 1..Len(down) PROVE Agree(down[i], Publish(m, pid), msgs')
    <3>1. /\ PacketOK(down[i], inflight, next_id, msgs) /\ PacketBase(down[i], msgs)
      BY LinkTypes DEF DownOK, DownBase
    <3>2. down[i].type = "publish" => down[i].msg # m
      BY <1>7, <3>1 DEF PacketBase
    <3>3. down[i].pid < next_id
      BY <1>5, <3>1 DEF PacketOK
    <3>4. k.qos = 2 => down[i].pid # pid
      BY <1>7, <3>3
    <3> QED BY <1>2, <3>2, <3>4 DEF Agree, Publish
  <2>7. DownOK(s, inflight', next_id', msgs')
    BY <2>2, <2>5 DEF DownOK
  <2> HIDE DEF s, pid
  <2>8. DownOK(down \o s, inflight', next_id', msgs')
    BY <2>1, <2>2, <2>6, <2>7, LinkTypes, JoinDown
  <2> QED BY <1>3, <2>1, <2>8, Zenon
<1>12. AcksOK(up', next_id', msgs') /\ AcksOK(late', next_id', msgs')
  BY <1>1, <1>5, <1>8, LinkTypes, EvolvesAcks
<1> QED BY <1>9, <1>10, <1>11, <1>12 DEF LinkInv

LEMMA LinkClient ==
  ASSUME BaseInv, LinkInv, ClientReads
  PROVE  LinkInv'
<1> DEFINE p == Head(down)
<1>1. /\ down # <<>> /\ down' = Tail(down)
      /\ UNCHANGED <<next_id, inflight, late, msgs, row>>
      /\ \/ p.type = "publish" /\ ClientPublish(p)
         \/ p.type = "pubrel" /\ ClientPubrel(p)
  BY DEF ClientReads, store
<1>2. /\ DownOK(down', inflight, next_id, msgs) /\ p.pid < Room(next_id, msgs)
  BY <1>1, LinkTypes, TailDown, Zenon DEF PacketOK
<1> HIDE DEF p
<1>3. \/ up' = up
      \/ \E t \in {"puback", "pubrec", "pubcomp"} : up' = Append(up, [type |-> t, pid |-> p.pid])
  BY <1>1 DEF ClientPublish, ClientPubrel, Answer
<1>4. AcksOK(up', next_id, msgs)
  <2>1. CASE up' = up
    BY <2>1, LinkTypes
  <2>2. ASSUME NEW t \in {"puback", "pubrec", "pubcomp"},
               up' = Append(up, [type |-> t, pid |-> p.pid])
        PROVE  AcksOK(up', next_id, msgs)
    <3> DEFINE a == [type |-> t, pid |-> p.pid]
    <3>1. up' \in Seq(Ack) /\ up \in Seq(Ack)
      BY ClientTypes, LinkTypes
    <3>2. /\ Len(up') = Len(up) + 1 /\ Len(up) \in Nat
          /\ \A i \in 1..Len(up) : up'[i] = up[i]
          /\ up'[Len(up) + 1] = a /\ a.pid = p.pid
      BY <2>2, <3>1
    <3> HIDE DEF a
    <3> QED BY <1>2, <3>2, LinkTypes DEF AcksOK
  <2> QED BY <1>3, <2>1, <2>2
<1> QED BY <1>1, <1>2, <1>4, LinkTypes, SameKeeps, LinkKeeps

LEMMA LinkQuiet ==
  ASSUME BaseInv, LinkInv, Detach \/ LateEnds \/ UNCHANGED vars
  PROVE  LinkInv'
<1>1. /\ UNCHANGED <<next_id, inflight, msgs, row>>
      /\ down' \in {<<>>, down} /\ up' \in {<<>>, up} /\ late' \in {<<>>, late}
  BY DEF Detach, LateEnds, vars, store
<1>2. /\ DownOK(down', inflight, next_id, msgs)
      /\ AcksOK(up', next_id, msgs) /\ AcksOK(late', next_id, msgs)
  BY <1>1, LinkTypes, NoneOK, Zenon
<1> QED BY <1>1, <1>2, SameKeeps, LinkKeeps

\* A session that is new, or the one of the row: nothing is under way.
LEMMA LinkFresh ==
  ASSUME LinkInv, QueueOK(inflight', next_id', msgs), UNCHANGED <<msgs, row>>,
         down' = <<>>, up' = <<>>, late' = <<>>,
         row # NoRow => \A e \in row.inflight, f \in inflight' : e.msg = f.msg => e.pid = f.pid
  PROVE  LinkInv'
<1>1. RowOK'
  BY DEF LinkInv, RowOK
<1> QED BY <1>1, NoneOK DEF LinkInv

LEMMA LinkForget ==
  ASSUME BaseInv, LinkInv, ConnectNew \/ DetachDiscard \/ Expire
  PROVE  LinkInv'
<1>1. /\ inflight' = {} /\ next_id' = 1 /\ UNCHANGED <<msgs, row>>
      /\ down' = <<>> /\ up' = <<>> /\ late' = <<>>
  BY DEF ConnectNew, DetachDiscard, Expire, Forget, store
<1>2. QueueOK(inflight', next_id', msgs)
  BY <1>1, LinkTypes DEF QueueOK
<1> QED BY <1>1, <1>2, LinkFresh

LEMMA LinkPersist ==
  ASSUME BaseInv, LinkInv, Persist
  PROVE  LinkInv'
<1>1. UNCHANGED <<next_id, inflight, down, up, late, msgs>> /\ row' = Encoded
  BY DEF Persist
<1>2. row' # NoRow => row'.inflight = inflight /\ row'.next_id = next_id
  BY <1>1 DEF Encoded
<1>3. RowOK'
  BY <1>1, <1>2, LinkTypes DEF RowOK, QueueBase, OneEach
<1> QED BY <1>1, <1>3 DEF LinkInv

LEMMA LinkCrash ==
  ASSUME BaseInv, LinkInv, Crash
  PROVE  LinkInv'
<1>1. /\ inflight' = Saved.inflight /\ next_id' = Saved.next_id /\ UNCHANGED <<msgs, row>>
      /\ down' = <<>> /\ up' = <<>> /\ late' = <<>>
  BY DEF Crash, Decoded
<1>2. CASE row = NoRow
  <2>1. inflight' = {} /\ next_id' = 1
    BY <1>1, <1>2 DEF Saved
  <2>2. QueueOK(inflight', next_id', msgs)
    BY <2>1, LinkTypes DEF QueueOK
  <2> QED BY <1>1, <1>2, <2>2, LinkFresh
<1>3. CASE row # NoRow
  <2>1. inflight' = row.inflight /\ next_id' = row.next_id
    BY <1>1, <1>3 DEF Saved
  <2>2. QueueOK(row.inflight, row.next_id, msgs) /\ OneEach(row.inflight)
    BY <1>3 DEF LinkInv, RowOK, BaseInv, RowBase, QueueBase
  <2> QED BY <1>1, <1>3, <2>1, <2>2, LinkFresh DEF OneEach
<1> QED BY <1>2, <1>3

LEMMA LinkStep ==
  ASSUME NoWrap
  PROVE  BaseInv /\ LinkInv /\ [Next]_vars => LinkInv'
BY LinkDeliver, LinkReads, LinkResume, LinkForget, LinkQuiet, LinkTick, LinkClient, LinkPersist,
   LinkCrash DEF Next, Tick

LEMMA LinkAlways ==
  ASSUME NoWrap
  PROVE  Spec => []LinkInv
<1>1. Init => LinkInv
  BY NoneOK DEF Init, LinkInv, QueueOK, RowOK
<1>2. BaseInv /\ LinkInv /\ [Next]_vars => LinkInv'
  BY LinkStep
<1> QED BY <1>1, <1>2, BaseAlways, PTL DEF Spec

-------------------------------------------------------------------------------
(***************************************************************************)
(* Exactly once.  A QoS 2 message that the client has, and that may be     *)
(* sent to it again, has its id among those that the client remembers.     *)
(***************************************************************************)
OnceInv ==
  /\ Got \cup twice \subseteq 1..Len(msgs)
  /\ ~reverted =>
       /\ \A m \in twice : msgs[m].qos < 2
       /\ \A m \in Got : msgs[m].qos = 2 =>
            /\ \A e \in inflight : e.msg = m /\ e.stage = "Qos2AwaitRec" => e.pid \in received
            /\ \A i \in 1..Len(down) :
                 down[i].type = "publish" /\ down[i].msg = m => down[i].pid \in received

LEMMA HandGot ==
  ASSUME got \in Seq(Message), NEW m \in Message, Hand(m)
  PROVE  /\ Got' = Got \cup {m}
         /\ twice' = IF m \in Got THEN twice \cup {m} ELSE twice
<1>1. CASE m \in Got
  BY <1>1 DEF Hand, Got
<1>2. CASE m \notin Got
  <2>1. /\ got' = Append(got, m) /\ Len(got) \in Nat /\ Len(got') = Len(got) + 1
        /\ \A i \in 1..Len(got) : got'[i] = got[i]
        /\ got'[Len(got) + 1] = m
    BY <1>2, AppendSeq DEF Hand
  <2>2. 1..Len(got') = 1..Len(got) \cup {Len(got) + 1}
    BY <2>1
  <2>3. Got' = Got \cup {m}
    BY <2>1, <2>2 DEF Got
  <2> QED BY <1>2, <2>3 DEF Hand
<1> QED BY <1>1, <1>2

\* Every PUBLISH of d is under way already, or sends an entry again.
Repeats(d) ==
  \A i \in 1..Len(d) : d[i].type = "publish" =>
    \/ \E j \in 1..Len(down) : d[i] = down[j]
    \/ \E e \in inflight : d[i] = Resend(e)

\* A step in which the client has no part, other than a delivery.
LEMMA OnceKeeps ==
  ASSUME BaseInv, LinkInv, OnceInv, Keeps(inflight, inflight'),
         UNCHANGED <<msgs, received, got, twice, reverted>>, Repeats(down')
  PROVE  OnceInv'
<1>1. Got' = Got
  BY DEF Got
<1>2. ASSUME ~reverted, NEW m \in Got, msgs[m].qos = 2
      PROVE  /\ \A f \in inflight' : f.msg = m /\ f.stage = "Qos2AwaitRec" => f.pid \in received
             /\ \A i \in 1..Len(down') :
                  down'[i].type = "publish" /\ down'[i].msg = m => down'[i].pid \in received
  <2>1. /\ \A e \in inflight : e.msg = m /\ e.stage = "Qos2AwaitRec" => e.pid \in received
        /\ \A i \in 1..Len(down) :
             down[i].type = "publish" /\ down[i].msg = m => down[i].pid \in received
    BY <1>2 DEF OnceInv
  <2>2. ASSUME NEW f \in inflight', f.msg = m, f.stage = "Qos2AwaitRec" PROVE f.pid \in received
    BY <2>1, <2>2 DEF Keeps
  <2>3. ASSUME NEW i \in 1..Len(down'), down'[i].type = "publish", down'[i].msg = m
        PROVE  down'[i].pid \in received
    <3>1. ASSUME NEW e \in inflight, down'[i] = Resend(e) PROVE down'[i].pid \in received
      <4>1. /\ e.stage # "Qos2AwaitComp" /\ down'[i].msg = e.msg /\ down'[i].pid = e.pid
        BY <2>3, <3>1 DEF Resend, Publish, pubrel
      <4>2. e \in Entry /\ msgs[e.msg].qos = IF e.stage = "Qos1" THEN 1 ELSE 2
        BY LinkTypes, Zenon DEF QueueBase, QueueOK
      <4>3. e.stage = "Qos2AwaitRec"
        BY <1>2, <2>3, <4>1, <4>2 DEF Entry, Stages
      <4> QED BY <2>1, <2>3, <4>1, <4>3, Zenon
    <3> QED BY <2>1, <2>3, <3>1, Zenon DEF Repeats
  <2> QED BY <2>2, <2>3
<1> QED BY <1>1, <1>2 DEF OnceInv

\* Nothing is under way any more, and nothing in flight.
LEMMA OnceEmpty ==
  ASSUME OnceInv, UNCHANGED <<msgs, got, twice, reverted>>, inflight' = {}, down' = <<>>
  PROVE  OnceInv'
<1>1. Got' = Got
  BY DEF Got
<1> QED BY <1>1 DEF OnceInv

LEMMA OnceDeliver ==
  ASSUME BaseInv, LinkInv, OnceInv, NEW k \in Kinds, deliver(k)
  PROVE  OnceInv'
<1> DEFINE m == Len(msgs) + 1
           e == [msg |-> m, pid |-> next_id, attempts |-> 1,
                 stage |-> IF k.qos = 1 THEN "Qos1" ELSE "Qos2AwaitRec"]
<1>1. /\ UNCHANGED <<received, got, twice, reverted>> /\ msgs' = Append(msgs, k)
      /\ inflight' \in {inflight, inflight \cup {e}} /\ e.msg = m
      /\ \E pid : down' \in {down, down \o <<Publish(m, pid)>>}
  BY Zenon DEF deliver, client, store, send
<1> HIDE DEF e
<1>2. /\ Len(msgs') = m /\ \A i \in 1..Len(msgs) : msgs'[i] = msgs[i]
  BY <1>1, MsgsGrow, Zenon
<1>3. m \notin 1..Len(msgs) /\ 1..Len(msgs) \subseteq 1..m
  BY LinkTypes
<1> HIDE DEF m
<1>4. \A i \in 1..Len(down') : \/ \E j \in 1..Len(down) : down'[i] = down[j]
                               \/ down'[i].msg = m
  <2> SUFFICES ASSUME NEW pid, down' = down \o <<Publish(m, pid)>>, NEW i \in 1..Len(down'),
                      i \notin 1..Len(down)
               PROVE  down'[i].msg = m
    BY <1>1
  <2> QED BY LinkTypes DEF Publish
<1>5. Got' = Got /\ Got \cup twice \subseteq 1..Len(msgs)
  BY <1>1, Zenon DEF Got, OnceInv
<1>6. ASSUME ~reverted, NEW g \in Got, msgs[g].qos = 2
      PROVE  /\ \A f \in inflight' : f.msg = g /\ f.stage = "Qos2AwaitRec" => f.pid \in received
             /\ \A i \in 1..Len(down') :
                  down'[i].type = "publish" /\ down'[i].msg = g => down'[i].pid \in received
  <2>1. g # m
    BY <1>3, <1>5
  <2> QED BY <1>1, <1>4, <1>6, <2>1, Zenon DEF OnceInv
<1>7. \A g \in Got \cup twice : msgs'[g] = msgs[g]
  BY <1>2, <1>5
<1> QED BY <1>1, <1>2, <1>3, <1>5, <1>6, <1>7 DEF OnceInv

LEMMA OnceAck ==
  ASSUME BaseInv, LinkInv, OnceInv, NEW a \in Ack, on_ack(a)
  PROVE  OnceInv'
<1>1. /\ Keeps(inflight, inflight') /\ UNCHANGED <<msgs, received, got, twice, reverted>>
  BY AckKeeps, Zenon DEF on_ack, client, store
<1>2. down' \in {down, down \o <<pubrel(a.pid)>>}
  BY Zenon DEF on_ack, on_puback, on_pubrec, on_pubcomp, send, Released, Ack
<1>3. Repeats(down')
  <2>1. CASE down' = down
    BY <2>1 DEF Repeats
  <2>2. CASE down' = down \o <<pubrel(a.pid)>>
    <3>1. \A i \in 1..Len(down') : i \in 1..Len(down) \/ down'[i].type = "pubrel"
      BY <2>2, LinkTypes DEF pubrel
    <3>2. \A i \in 1..Len(down) : down'[i] = down[i]
      BY <2>2, LinkTypes
    <3> QED BY <3>1, <3>2 DEF Repeats
  <2> QED BY <1>2, <2>1, <2>2
<1> QED BY <1>1, <1>3, OnceKeeps

LEMMA ResentRepeats ==
  ASSUME BaseInv, LinkInv, NEW again \in SUBSET inflight, NEW o \in Orderings(again)
  PROVE  Repeats(Resent(o)) /\ Repeats(down \o Resent(o))
<1> DEFINE s == Resent(o)
<1>1. s \in Seq(Packet) /\ \A i \in 1..Len(s) : \E e \in inflight : s[i] = Resend(e)
  BY LinkTypes, ResentFacts DEF QueueBase, OneEach
<1> HIDE DEF s
<1>2. /\ Len(down) \in Nat /\ Len(s) \in Nat /\ Len(down \o s) = Len(down) + Len(s)
      /\ \A i \in 1..Len(down \o s) :
           (down \o s)[i] = IF i <= Len(down) THEN down[i] ELSE s[i - Len(down)]
  BY <1>1, LinkTypes, ConcatSeq
<1>3. \A i \in 1..Len(down \o s) : \/ i \in 1..Len(down) /\ (down \o s)[i] = down[i]
                                   \/ \E j \in 1..Len(s) : (down \o s)[i] = s[j]
  <2> SUFFICES ASSUME NEW i \in 1..Len(down \o s), i > Len(down)
               PROVE  i - Len(down) \in 1..Len(s)
    BY <1>2
  <2> QED BY <1>2
<1> QED BY <1>1, <1>3 DEF Repeats, s

LEMMA OnceSends ==
  ASSUME BaseInv, LinkInv, OnceInv, Resume \/ Tick
  PROVE  OnceInv'
<1>1. CASE Resume
  BY <1>1, ResentRepeats, SameKeeps, OnceKeeps DEF Resume, client, store
<1>2. ASSUME NEW due \in SUBSET inflight, tick_retries(due) PROVE OnceInv'
  <2> DEFINE again == due \ {e \in due : Dies(e)}
  <2>1. /\ inflight' = (inflight \ due) \cup {Bumped(e) : e \in again} /\ state = "online"
        /\ \E o \in Orderings(again) : send(Resent(o))
        /\ UNCHANGED <<msgs, received, got, twice, reverted>>
    BY <1>2, Zenon DEF tick_retries, client, store
  <2>2. again \in SUBSET due /\ again \in SUBSET inflight
    OBVIOUS
  <2> HIDE DEF again
  <2>3. Keeps(inflight, inflight')
    BY <2>1, <2>2, LinkTypes, TickKeeps, Zenon DEF QueueBase
  <2>4. Repeats(down')
    BY <2>1, <2>2, ResentRepeats DEF send
  <2> QED BY <2>1, <2>3, <2>4, OnceKeeps
<1> QED BY <1>1, <1>2 DEF Tick

LEMMA OnceQuiet ==
  ASSUME BaseInv, LinkInv, OnceInv, Detach \/ LateEnds \/ Persist \/ UNCHANGED vars
  PROVE  OnceInv'
<1>1. /\ UNCHANGED <<inflight, msgs, received, got, twice, reverted>> /\ down' \in {<<>>, down}
  BY DEF Detach, LateEnds, Persist, vars, client, store
<1>2. Repeats(down')
  BY <1>1 DEF Repeats
<1> QED BY <1>1, <1>2, SameKeeps, OnceKeeps

LEMMA OnceForget ==
  ASSUME OnceInv, ConnectNew \/ DetachDiscard \/ Expire
  PROVE  OnceInv'
BY OnceEmpty DEF ConnectNew, DetachDiscard, Expire, Forget, client, store

\* What the crash brings back was waiting just before it.
LEMMA OnceCrash ==
  ASSUME BaseInv, LinkInv, OnceInv, Crash
  PROVE  OnceInv'
<1>1. /\ UNCHANGED <<msgs, received, got, twice>> /\ inflight' = Saved.inflight /\ down' = <<>>
      /\ ~reverted' => ~reverted /\ Waiting(Saved.inflight) \subseteq Waiting(inflight)
  BY Zenon DEF Crash, Decoded, client
<1>2. Got' = Got
  BY <1>1 DEF Got
<1>3. ASSUME ~reverted', NEW m \in Got, msgs[m].qos = 2,
             NEW e \in inflight', e.msg = m, e.stage = "Qos2AwaitRec"
      PROVE  e.pid \in received
  <2>1. row # NoRow /\ e \in row.inflight
    BY <1>1 DEF Saved
  <2>2. m \in Waiting(inflight)
    BY <1>1, <1>3, WaitingIs
  <2>3. PICK f \in inflight : f.msg = m /\ f.stage # "Qos2AwaitComp"
    BY <2>2, WaitingIs
  <2>4. f.stage = "Qos2AwaitRec"
    BY <1>3, <2>3, LinkTypes DEF QueueBase, QueueOK, Entry, Stages
  <2>5. f.pid \in received
    BY <1>1, <1>3, <2>3, <2>4 DEF OnceInv
  <2> QED BY <1>3, <2>1, <2>3, <2>5, Zenon DEF LinkInv, RowOK
<1>4. \A i \in 1..Len(down') : FALSE
  BY <1>1
<1> QED BY <1>1, <1>2, <1>3, <1>4, Zenon DEF OnceInv

\* What the client reads, with what is known of it.
LEMMA ClientFacts ==
  ASSUME BaseInv, LinkInv, ClientReads, NEW p, p = Head(down)
  PROVE  /\ p \in Packet /\ down' = Tail(down)
         /\ p.type = "publish" => p.msg \in 1..Len(msgs) /\ p.msg \in Message
         /\ PacketOK(p, inflight, next_id, msgs)
         /\ \A i \in 1..Len(down') : /\ Agree(p, down'[i], msgs)
                                     /\ \E j \in 1..Len(down) : down'[i] = down[j]
         /\ \E j \in 1..Len(down) : p = down[j]
<1>1. down # <<>> /\ down' = Tail(down)
  BY DEF ClientReads
<1>2. /\ Head(down) = down[1] /\ Len(down) \in Nat \ {0} /\ Len(Tail(down)) = Len(down) - 1
      /\ Head(down) \in Packet
      /\ \A i \in 1..Len(Tail(down)) : Tail(down)[i] = down[i + 1]
  BY <1>1, LinkTypes, HeadTail
<1>3. 1 \in 1..Len(down) /\ \A i \in 1..Len(Tail(down)) : i + 1 \in 1..Len(down)
  BY <1>2
<1>4. PacketBase(p, msgs)
  BY <1>2, <1>3, LinkTypes DEF DownBase
<1>5. PacketOK(p, inflight, next_id, msgs) /\ \A i \in 1..Len(down') : Agree(p, down'[i], msgs)
  BY <1>1, LinkTypes, TailDown, Zenon
<1> QED BY <1>1, <1>2, <1>3, <1>4, <1>5 DEF PacketBase, Packet

LEMMA OnceClient ==
  ASSUME BaseInv, LinkInv, OnceInv, ClientReads
  PROVE  OnceInv'
<1>1. PICK p : p = Head(down)
  OBVIOUS
<1>2. /\ UNCHANGED <<inflight, msgs, reverted>>
      /\ \/ p.type = "publish" /\ ClientPublish(p)
         \/ p.type = "pubrel" /\ ClientPubrel(p)
  BY <1>1 DEF ClientReads, store
<1>3. /\ p \in Packet
      /\ p.type = "publish" => p.msg \in 1..Len(msgs) /\ p.msg \in Message
      /\ PacketOK(p, inflight, next_id, msgs)
      /\ \A i \in 1..Len(down') : /\ Agree(p, down'[i], msgs)
                                  /\ \E j \in 1..Len(down) : down'[i] = down[j]
      /\ \E j \in 1..Len(down) : p = down[j]
  BY <1>1, ClientFacts
<1>4. got \in Seq(Message) /\ Got \cup twice \subseteq 1..Len(msgs)
  BY DEF BaseInv, TypeOK, OnceInv
<1>5. CASE p.type = "publish" /\ UNCHANGED <<got, twice>> /\ received \subseteq received'
  <2>1. Got' = Got
    BY <1>5 DEF Got
  <2>2. ASSUME ~reverted, NEW m \in Got, msgs[m].qos = 2
        PROVE  /\ \A e \in inflight : e.msg = m /\ e.stage = "Qos2AwaitRec" => e.pid \in received
               /\ \A i \in 1..Len(down') :
                    down'[i].type = "publish" /\ down'[i].msg = m => down'[i].pid \in received
    BY <1>3, <2>2, Zenon DEF OnceInv
  <2>3. ~reverted => \A m \in twice : msgs[m].qos < 2
    BY Zenon DEF OnceInv
  <2>4. \A pid : pid \in received => pid \in received'
    BY <1>5
  <2> QED BY <1>2, <1>4, <1>5, <2>1, <2>2, <2>3, <2>4, Zenon DEF OnceInv
<1>6. CASE p.type = "publish" /\ msgs[p.msg].qos < 2 /\ Hand(p.msg) /\ received' = received
  <2>1. Got' = Got \cup {p.msg} /\ twice' \subseteq twice \cup {p.msg}
    BY <1>3, <1>4, <1>6, HandGot, Zenon
  <2>2. msgs[p.msg].qos # 2
    BY <1>6
  <2>3. Got' \cup twice' \subseteq 1..Len(msgs')
    BY <1>2, <1>3, <1>4, <1>6, <2>1, Zenon
  <2>4. ~reverted => \A m \in twice' : msgs[m].qos < 2
    BY <1>6, <2>1, Zenon DEF OnceInv
  <2>5. ASSUME ~reverted, NEW m \in Got', msgs[m].qos = 2
        PROVE  /\ \A e \in inflight : e.msg = m /\ e.stage = "Qos2AwaitRec" => e.pid \in received
               /\ \A i \in 1..Len(down') :
                    down'[i].type = "publish" /\ down'[i].msg = m => down'[i].pid \in received
    <3>1. m \in Got
      BY <2>1, <2>2, <2>5, Zenon
    <3> QED BY <1>3, <2>5, <3>1, Zenon DEF OnceInv
  <2> QED BY <1>2, <1>6, <2>3, <2>4, <2>5, Zenon DEF OnceInv
<1>7. CASE /\ p.type = "publish" /\ msgs[p.msg].qos = 2 /\ p.pid \notin received /\ Hand(p.msg)
           /\ received' = received \cup {p.pid}
  <2>1. /\ Got' = Got \cup {p.msg}
        /\ twice' = IF p.msg \in Got THEN twice \cup {p.msg} ELSE twice
    BY <1>3, <1>4, <1>7, HandGot
  <2>2. ~reverted => p.msg \notin Got
    BY <1>3, <1>7 DEF OnceInv
  <2>3. \A e \in inflight : e.msg = p.msg => e.pid = p.pid
    BY <1>3, <1>7 DEF PacketOK
  <2>4. \A i \in 1..Len(down') : down'[i].type = "publish" /\ down'[i].msg = p.msg
                                   => down'[i].pid = p.pid
    BY <1>3, <1>7 DEF Agree
  <2>5. Got' \cup twice' \subseteq 1..Len(msgs')
    BY <1>2, <1>3, <1>4, <1>7, <2>1, Zenon
  <2>6. ASSUME ~reverted, NEW m \in Got', msgs[m].qos = 2
        PROVE  /\ \A e \in inflight : e.msg = m /\ e.stage = "Qos2AwaitRec" => e.pid \in received'
               /\ \A i \in 1..Len(down') :
                    down'[i].type = "publish" /\ down'[i].msg = m => down'[i].pid \in received'
    <3>1. CASE m = p.msg
      BY <1>7, <2>3, <2>4, <3>1
    <3>2. CASE m \in Got
      BY <1>3, <1>7, <2>6, <3>2, Zenon DEF OnceInv
    <3> QED BY <2>1, <2>6, <3>1, <3>2
  <2> QED BY <1>2, <2>1, <2>2, <2>5, <2>6 DEF OnceInv
<1>8. CASE p.type = "pubrel" /\ ClientPubrel(p)
  <2>1. UNCHANGED <<got, twice>> /\ received' = received \ {p.pid}
    BY <1>8 DEF ClientPubrel
  <2>2. Got' = Got
    BY <2>1, Zenon DEF Got
  <2>3. \A e \in inflight : e.stage = "Qos2AwaitRec" => e.pid # p.pid
    BY <1>3, <1>8 DEF PacketOK
  <2>4. \A i \in 1..Len(down') : down'[i].type = "publish" /\ msgs[down'[i].msg].qos = 2
                                   => down'[i].pid # p.pid
    BY <1>3, <1>8, Zenon DEF Agree
  <2>5. ASSUME ~reverted, NEW m \in Got, msgs[m].qos = 2
        PROVE  /\ \A e \in inflight : e.msg = m /\ e.stage = "Qos2AwaitRec" => e.pid \in received'
               /\ \A i \in 1..Len(down') :
                    down'[i].type = "publish" /\ down'[i].msg = m => down'[i].pid \in received'
    <3>1. /\ \A e \in inflight : e.msg = m /\ e.stage = "Qos2AwaitRec" => e.pid \in received
          /\ \A i \in 1..Len(down) :
               down[i].type = "publish" /\ down[i].msg = m => down[i].pid \in received
      BY <2>5 DEF OnceInv
    <3> QED BY <1>3, <2>1, <2>3, <2>4, <2>5, <3>1, Zenon
  <2> QED BY <1>2, <2>1, <2>2, <2>5 DEF OnceInv
<1>9. ASSUME p.type = "publish", ClientPublish(p)
      PROVE  \/ UNCHANGED <<got, twice>> /\ received \subseteq received'
             \/ msgs[p.msg].qos < 2 /\ Hand(p.msg) /\ received' = received
             \/ /\ msgs[p.msg].qos = 2 /\ p.pid \notin received /\ Hand(p.msg)
                /\ received' = received \cup {p.pid}
  BY <1>9 DEF ClientPublish
<1> QED BY <1>2, <1>5, <1>6, <1>7, <1>8, <1>9

LEMMA OnceStep == BaseInv /\ LinkInv /\ OnceInv /\ [Next]_vars => OnceInv'
<1> SUFFICES ASSUME BaseInv, LinkInv, OnceInv, [Next]_vars PROVE OnceInv'
  OBVIOUS
<1>1. CASE ReadAck \/ ReadLateAck
  <2>1. PICK a \in Ack : on_ack(a)
    BY <1>1, AckRead
  <2> QED BY <2>1, OnceAck
<1> QED BY <1>1, OnceDeliver, OnceSends, OnceForget, OnceQuiet, OnceClient, OnceCrash DEF Next

\* No QoS 2 message is handed to the application a second time, whatever Hub::connect sends
\* again after a lost connection or a takeover, tick_retries while one is up, or either of
\* them after a crash that did not undo a confirmation: as long as no more messages are
\* delivered than there are packet ids.
THEOREM HandedOverOnce ==
  ASSUME MaxMessages <= MAX_PID
  PROVE  Spec => []ExactlyOnce
<1>1. Init => OnceInv
  BY DEF Init, OnceInv, Got
<1>2. BaseInv /\ LinkInv /\ OnceInv /\ [Next]_vars => OnceInv'
  BY OnceStep
<1>3. OnceInv => ExactlyOnce
  BY DEF OnceInv, ExactlyOnce
<1>4. Spec => []LinkInv
  BY LinkAlways DEF NoWrap
<1> QED BY <1>1, <1>2, <1>3, <1>4, BaseAlways, PTL DEF Spec

-------------------------------------------------------------------------------
(***************************************************************************)
(* At least once.  An entry goes only when its message has come to its     *)
(* end, and so it has as soon as the acknowledgement is under way that     *)
(* takes the entry out or moves it on.                                     *)
(***************************************************************************)
Ended == Got \cup dead \cup dropped

Elements(s) == {s[i] : i \in 1..Len(s)}
Acks == Elements(up) \cup Elements(late)

TakesOut(a, e) ==
  /\ a.pid = e.pid
  /\ \/ a.type = "puback" /\ e.stage = "Qos1"
     \/ a.type = "pubrec" /\ e.stage = "Qos2AwaitRec"

\* The message of an entry that is past its PUBREC, whose id the client remembers, or that
\* an acknowledgement is about to take out or move on.
Ends(e, acks, ids, ended) ==
  e.stage = "Qos2AwaitComp" \/ e.pid \in ids \/ (\E a \in acks : TakesOut(a, e)) => e.msg \in ended

LostInv ==
  ~reissued =>
    /\ \A m \in 1..Len(msgs) : msgs[m].qos > 0 => m \in Ended \cup MsgsOf(inflight)
    /\ state # "gone" => \A pid \in received : pid < Room(next_id, msgs)
    /\ \A e \in inflight : Ends(e, Acks, received, Ended)
    /\ row # NoRow => \A e \in row.inflight : e.stage = "Qos2AwaitComp" => e.msg \in Ended

LEMMA ElementsTail ==
  ASSUME NEW s \in Seq(Ack), s # <<>>
  PROVE  Elements(Tail(s)) \subseteq Elements(s) /\ Head(s) \in Elements(s)
<1>1. /\ Head(s) = s[1] /\ Len(s) \in Nat \ {0} /\ Len(Tail(s)) = Len(s) - 1
      /\ \A i \in 1..Len(Tail(s)) : Tail(s)[i] = s[i + 1]
  BY HeadTail
<1>2. 1 \in 1..Len(s) /\ \A i \in 1..Len(Tail(s)) : i + 1 \in 1..Len(s)
  BY <1>1
<1> QED BY <1>1, <1>2 DEF Elements

LEMMA ElementsAppend ==
  ASSUME NEW s \in Seq(Ack), NEW a
  PROVE  Elements(Append(s, a)) \subseteq Elements(s) \cup {a}
<1>1. /\ Len(Append(s, a)) = Len(s) + 1 /\ Len(s) \in Nat
      /\ \A i \in 1..Len(s) : Append(s, a)[i] = s[i]
      /\ Append(s, a)[Len(s) + 1] = a
  BY AppendSeq
<1>2. \A i \in 1..Len(Append(s, a)) : i \in 1..Len(s) \/ i = Len(s) + 1
  BY <1>1
<1> QED BY <1>1, <1>2 DEF Elements

LEMMA ElementsNone == Elements(<<>>) = {}
BY DEF Elements

LEMMA MsgsIs ==
  ASSUME NEW q, NEW m
  PROVE  m \in MsgsOf(q) <=> \E e \in q : e.msg = m
BY DEF MsgsOf

\* A step of the broker alone: an entry goes, or moves on, when its message has come to its
\* end.
LEMMA LostKeeps ==
  ASSUME LostInv, UNCHANGED <<msgs, next_id, received, row, reissued>>,
         state' # "gone" => state # "gone",
         Acks' \subseteq Acks, Ended \subseteq Ended',
         ~reissued => \A e \in inflight : e.msg \in Ended' \/ e.msg \in MsgsOf(inflight'),
         ~reissued => \A f \in inflight' : \E e \in inflight :
           /\ e.msg = f.msg /\ e.pid = f.pid
           /\ f.stage = e.stage \/ e.msg \in Ended'
  PROVE  LostInv'
<1> SUFFICES ASSUME ~reissued
             PROVE  /\ \A m \in 1..Len(msgs) : msgs[m].qos > 0 => m \in Ended' \cup MsgsOf(inflight')
                    /\ \A f \in inflight' : Ends(f, Acks', received, Ended')
  BY DEF LostInv
<1>1. ASSUME NEW m \in 1..Len(msgs), msgs[m].qos > 0
      PROVE  m \in Ended' \cup MsgsOf(inflight')
  <2>1. m \in Ended \/ m \in MsgsOf(inflight)
    BY <1>1 DEF LostInv
  <2> QED BY <2>1, MsgsIs
<1>2. ASSUME NEW f \in inflight' PROVE Ends(f, Acks', received, Ended')
  <2>1. PICK e \in inflight : /\ e.msg = f.msg /\ e.pid = f.pid
                              /\ f.stage = e.stage \/ e.msg \in Ended'
    OBVIOUS
  <2>2. Ends(e, Acks, received, Ended)
    BY DEF LostInv
  <2> QED BY <2>1, <2>2 DEF Ends, TakesOut
<1> QED BY <1>1, <1>2

LEMMA LostAck ==
  ASSUME BaseInv, LinkInv, LostInv, NEW a \in Acks, a \in Ack, on_ack(a), Acks' \subseteq Acks
  PROVE  LostInv'
<1>1. /\ UNCHANGED <<msgs, next_id, received, row, reissued, state>> /\ Ended' = Ended
      /\ inflight \subseteq Entry
  BY LinkTypes DEF on_ack, client, store, Ended, Got, QueueBase
<1>2. ~reissued => \A e \in inflight : Ends(e, Acks, received, Ended)
  BY DEF LostInv
<1>3. CASE a.type = "puback"
  <2>1. inflight' = inflight \ Acked(a.pid)
    BY <1>3 DEF on_ack, on_puback
  <2>2. ~reissued => \A e \in Acked(a.pid) : e.msg \in Ended
    BY <1>2, <1>3 DEF Acked, Ends, TakesOut
  <2>3. ~reissued => \A e \in inflight : e.msg \in Ended' \/ e.msg \in MsgsOf(inflight')
    BY <1>1, <2>1, <2>2, MsgsIs
  <2> QED BY <1>1, <2>1, <2>3, LostKeeps
<1>4. CASE a.type = "pubrec"
  <2> DEFINE A == AwaitingRec(a.pid)
             moved(e) == [e EXCEPT !.stage = "Qos2AwaitComp"]
  <2>1. inflight' = (inflight \ A) \cup {moved(e) : e \in A}
    BY <1>4 DEF on_ack, on_pubrec
  <2>2. A \subseteq inflight /\ \A e \in A : e.stage = "Qos2AwaitRec" /\ e.pid = a.pid
    BY DEF AwaitingRec
  <2>3. \A e \in inflight : moved(e).msg = e.msg /\ moved(e).pid = e.pid
    BY <1>1 DEF Entry
  <2> HIDE DEF A, moved
  <2>4. ~reissued => \A e \in A : e.msg \in Ended
    BY <1>2, <1>4, <2>2 DEF Ends, TakesOut
  <2>5. ~reissued => \A e \in inflight : e.msg \in Ended' \/ e.msg \in MsgsOf(inflight')
    BY <1>1, <2>1, <2>4, MsgsIs
  <2>6. ASSUME ~reissued, NEW f \in inflight'
        PROVE  \E e \in inflight : /\ e.msg = f.msg /\ e.pid = f.pid
                                   /\ f.stage = e.stage \/ e.msg \in Ended'
    BY <1>1, <2>1, <2>2, <2>3, <2>4, <2>6
  <2> QED BY <1>1, <2>5, <2>6, LostKeeps
<1>5. CASE a.type = "pubcomp"
  <2>1. inflight' = {e \in inflight : ~(e.stage = "Qos2AwaitComp" /\ e.pid = a.pid)}
    BY <1>5 DEF on_ack, on_pubcomp
  <2>2. ~reissued => \A e \in inflight : e.msg \in Ended' \/ e.msg \in MsgsOf(inflight')
    BY <1>1, <1>2, <2>1, MsgsIs DEF Ends
  <2> QED BY <1>1, <2>1, <2>2, LostKeeps
<1> QED BY <1>3, <1>4, <1>5 DEF Ack

LEMMA LostReads ==
  ASSUME BaseInv, LinkInv, LostInv, ReadAck \/ ReadLateAck
  PROVE  LostInv'
<1>1. CASE ReadAck
  <2>1. /\ up # <<>> /\ up' = Tail(up) /\ late' = late /\ on_ack(Head(up))
    BY <1>1 DEF ReadAck
  <2>2. Head(up) \in Ack /\ Head(up) \in Acks /\ Acks' \subseteq Acks
    BY <2>1, LinkTypes, ElementsTail, HeadTail DEF Acks
  <2> QED BY <2>1, <2>2, LostAck
<1>2. CASE ReadLateAck
  <2>1. /\ late # <<>> /\ late' = Tail(late) /\ up' = up /\ on_ack(Head(late))
    BY <1>2 DEF ReadLateAck
  <2>2. Head(late) \in Ack /\ Head(late) \in Acks /\ Acks' \subseteq Acks
    BY <2>1, LinkTypes, ElementsTail, HeadTail DEF Acks
  <2> QED BY <2>1, <2>2, LostAck
<1> QED BY <1>1, <1>2

LEMMA LostTick ==
  ASSUME BaseInv, LostInv, NEW due \in SUBSET inflight, tick_retries(due)
  PROVE  LostInv'
<1> DEFINE gone == {e \in due : Dies(e)}
           again == due \ gone
<1>1. /\ inflight' = (inflight \ due) \cup {Bumped(e) : e \in again}
      /\ dead' = dead \cup MsgsOf(gone)
      /\ UNCHANGED <<msgs, next_id, received, row, reissued, state, up, late, got, dropped>>
  BY Zenon DEF tick_retries, client, store
<1>2. \A e \in due : e \in gone \/ e \in again
  OBVIOUS
<1>3. again \subseteq due /\ inflight \subseteq Entry
  BY DEF BaseInv, QueueBase
<1> HIDE DEF gone, again
<1>4. Acks' = Acks /\ Ended' = Ended \cup MsgsOf(gone)
  BY <1>1, Zenon DEF Acks, Ended, Got
<1>5. \A e \in again : Bumped(e) \in inflight' /\ Bumped(e).msg = e.msg
  BY <1>1, <1>3, BumpedFacts
<1>6. ASSUME NEW e \in inflight PROVE e.msg \in Ended' \/ e.msg \in MsgsOf(inflight')
  <2>1. CASE e \in gone
    BY <1>4, <2>1, MsgsIs
  <2>2. CASE e \in again
    BY <1>5, <2>2, MsgsIs
  <2>3. CASE e \notin due
    BY <1>1, <2>3, MsgsIs
  <2> QED BY <1>2, <2>1, <2>2, <2>3
<1>7. ASSUME NEW f \in inflight'
      PROVE  \E e \in inflight : e.msg = f.msg /\ e.pid = f.pid /\ f.stage = e.stage
  <2>1. CASE f \in inflight
    BY <2>1
  <2>2. ASSUME NEW e \in again, f = Bumped(e)
        PROVE  e \in inflight /\ e.msg = f.msg /\ e.pid = f.pid /\ f.stage = e.stage
    BY <1>3, <2>2, BumpedFacts
  <2> QED BY <1>1, <2>1, <2>2
<1> QED BY <1>1, <1>4, <1>6, <1>7, LostKeeps

LEMMA LostQuiet ==
  ASSUME LostInv, Resume \/ Detach \/ LateEnds \/ UNCHANGED vars
  PROVE  LostInv'
<1>1. /\ UNCHANGED <<msgs, next_id, received, row, reissued, inflight, got, dead, dropped>>
      /\ state' # "gone" => state # "gone"
      /\ up' \in {<<>>, up} /\ late' \in {<<>>, up, late}
  BY DEF Resume, Detach, LateEnds, vars, client, fates, store
<1>2. Acks' \subseteq Acks
  BY <1>1, ElementsNone DEF Acks
<1>3. Ended' = Ended
  BY <1>1 DEF Ended, Got
<1>4. \A e \in inflight : e.msg \in MsgsOf(inflight')
  BY <1>1, MsgsIs
<1> QED BY <1>1, <1>2, <1>3, <1>4, LostKeeps

LEMMA LostForget ==
  ASSUME LostInv, ConnectNew \/ DetachDiscard \/ Expire
  PROVE  LostInv'
<1>1. /\ inflight' = {} /\ UNCHANGED <<msgs, row, reissued, got>>
      /\ state' # "gone" => received' = {}
  BY DEF ConnectNew, DetachDiscard, Expire, Forget, client, store
<1>2. Ended' = Ended \cup MsgsOf(inflight)
  <2>1. CASE ConnectNew \/ DetachDiscard
    BY <2>1 DEF ConnectNew, DetachDiscard, Ended, Got, client
  <2>2. CASE Expire
    <3> DEFINE drained == {e \in inflight : Undelivered(e)}
    <3>1. /\ got' = got /\ dead' = dead \cup MsgsOf(drained)
          /\ dropped' = dropped \cup MsgsOf(inflight \ drained)
      BY <2>2 DEF Expire, client
    <3>2. MsgsOf(inflight) = MsgsOf(drained) \cup MsgsOf(inflight \ drained)
      BY DEF MsgsOf
    <3> HIDE DEF drained
    <3> QED BY <3>1, <3>2 DEF Ended, Got
  <2> QED BY <2>1, <2>2
<1> QED BY <1>1, <1>2, Zenon DEF LostInv

LEMMA LostPersist ==
  ASSUME LostInv, Persist
  PROVE  LostInv'
<1>1. /\ UNCHANGED <<state, next_id, inflight, up, late, msgs, received, got, dead, dropped,
                     reissued>>
      /\ row' = Encoded
  BY DEF Persist, client, fates
<1>2. row' # NoRow => row'.inflight = inflight
  BY <1>1 DEF Encoded
<1>3. Acks' = Acks /\ Ended' = Ended
  BY <1>1 DEF Acks, Ended, Got
<1>4. ~reissued => \A e \in inflight : e.stage = "Qos2AwaitComp" => e.msg \in Ended
  BY DEF LostInv, Ends
<1> QED BY <1>1, <1>2, <1>3, <1>4, Zenon DEF LostInv

\* What the row has, and the queue no longer had, has come to its end.
LEMMA LostCrash ==
  ASSUME BaseInv, LinkInv, LostInv, Crash
  PROVE  LostInv'
<1>1. /\ inflight' = Saved.inflight /\ next_id' = Saved.next_id
      /\ UNCHANGED <<msgs, row, received, got, dead, dropped>>
      /\ up' = <<>> /\ late' = <<>>
      /\ state' = IF row = NoRow THEN "gone" ELSE "offline"
  BY DEF Crash, Decoded, client, fates
<1>2. ~reissued' => /\ ~reissued /\ Saved.next_id = next_id
                    /\ state = "gone" => row = NoRow
                    /\ MsgsOf(inflight) \subseteq MsgsOf(Saved.inflight)
  BY Zenon DEF Crash
<1>3. Acks' = {} /\ Ended' = Ended
  BY <1>1, ElementsNone DEF Acks, Ended, Got
<1> SUFFICES ASSUME ~reissued' PROVE LostInv'
  BY DEF LostInv
<1>4. \A m \in 1..Len(msgs) : msgs[m].qos > 0 => m \in Ended \cup MsgsOf(inflight')
  BY <1>1, <1>2 DEF LostInv
<1>5. state' # "gone" => \A pid \in received : pid < Room(next_id, msgs)
  BY <1>1, <1>2 DEF LostInv
<1>6. ASSUME NEW e \in inflight' PROVE Ends(e, {}, received, Ended)
  <2>1. row # NoRow /\ e \in row.inflight
    BY <1>1 DEF Saved
  <2>2. e.stage = "Qos2AwaitComp" => e.msg \in Ended
    BY <1>2, <2>1 DEF LostInv
  <2>3. ASSUME e.pid \in received PROVE e.msg \in Ended
    <3>1. /\ e.msg \in 1..Len(msgs)
          /\ msgs[e.msg].qos = IF e.stage = "Qos1" THEN 1 ELSE 2
      BY <2>1, Zenon DEF BaseInv, RowBase, QueueBase, LinkInv, RowOK, QueueOK
    <3>3. msgs[e.msg].qos > 0
      BY <3>1
    <3>2. CASE e.msg \in MsgsOf(inflight)
      <4>1. PICK f \in inflight : f.msg = e.msg
        BY <3>2, MsgsIs, Zenon
      <4>2. f.pid = e.pid
        BY <2>1, <4>1 DEF LinkInv, RowOK
      <4> QED BY <1>2, <2>3, <4>1, <4>2, Zenon DEF LostInv, Ends
    <3> QED BY <1>2, <3>1, <3>2, <3>3, Zenon DEF LostInv
  <2> QED BY <2>2, <2>3 DEF Ends
<1> QED BY <1>1, <1>2, <1>3, <1>4, <1>5, <1>6 DEF LostInv

LEMMA LostDeliver ==
  ASSUME NoWrap, BaseInv, LinkInv, LostInv, NEW k \in Kinds, deliver(k)
  PROVE  LostInv'
<1> DEFINE m == Len(msgs) + 1
           e == [msg |-> m, pid |-> next_id, attempts |-> 1,
                 stage |-> IF k.qos = 1 THEN "Qos1" ELSE "Qos2AwaitRec"]
<1>1. /\ state # "gone" /\ m <= MaxMessages /\ msgs' = Append(msgs, k) /\ Len(msgs) \in Nat
      /\ UNCHANGED <<state, up, late, received, got, dead, dropped, row, reissued>>
      /\ IF k.qos = 0 THEN inflight' = inflight ELSE inflight' = inflight \cup {e}
  BY LinkTypes DEF deliver, client, fates, store
<1>2. /\ Len(msgs') = m /\ msgs'[m] = k /\ \A i \in 1..Len(msgs) : msgs'[i] = msgs[i]
  BY <1>1, MsgsGrow, Zenon
<1>3. /\ e.msg = m /\ e.pid = next_id /\ e.stage # "Qos2AwaitComp"
  OBVIOUS
<1> HIDE DEF e
<1>4. Acks' = Acks /\ Ended' = Ended
  BY <1>1 DEF Acks, Ended, Got
<1>5. Room(next_id, msgs) = next_id /\ next_id \in Nat
  BY <1>1, LinkTypes, ConstantsAssumption DEF Room
<1>6. \A a \in Acks : a.pid < next_id
  BY <1>5, LinkTypes DEF Acks, Elements, AcksOK
<1>7. \A i \in 1..Len(msgs') : i \in 1..Len(msgs) \/ i = m
  BY <1>1, <1>2
<1> HIDE DEF m
<1> SUFFICES ASSUME ~reissued PROVE LostInv'
  BY <1>1, Zenon DEF LostInv
<1>8. \A pid \in received : pid < next_id
  BY <1>1, <1>5, Zenon DEF LostInv
<1>9. next_id <= Room(next_id', msgs') /\ Room(next_id', msgs') \in Nat
  BY <1>1, DeliverRoom
<1>10. \A pid \in received : pid < Room(next_id', msgs')
  <2>1. \A pid \in received : pid \in Nat
    BY ConstantsAssumption DEF BaseInv, TypeOK, PacketId
  <2> QED BY <1>5, <1>8, <1>9, <2>1
<1>11. \A i \in 1..Len(msgs') : msgs'[i].qos > 0 => i \in Ended \cup MsgsOf(inflight')
  <2>1. ASSUME NEW i \in 1..Len(msgs), msgs'[i].qos > 0 PROVE i \in Ended \cup MsgsOf(inflight')
    <3>1. i \in Ended \cup MsgsOf(inflight)
      BY <1>2, <2>1 DEF LostInv
    <3> QED BY <1>1, <3>1, MsgsIs
  <2>2. k.qos > 0 => m \in MsgsOf(inflight')
    BY <1>1, <1>3, MsgsIs
  <2> QED BY <1>2, <1>7, <2>1, <2>2
<1>12. Ends(e, Acks, received, Ended)
  <2>1. next_id \notin received /\ \A a \in Acks : a.pid # next_id
    BY <1>5, <1>6, <1>8
  <2> QED BY <1>3, <2>1 DEF Ends, TakesOut
<1>13. \A f \in inflight' : Ends(f, Acks, received, Ended)
  BY <1>1, <1>12 DEF LostInv
<1> QED BY <1>1, <1>4, <1>10, <1>11, <1>13 DEF LostInv

LEMMA LostClient ==
  ASSUME BaseInv, LinkInv, LostInv, ClientReads
  PROVE  LostInv'
<1>1. PICK p : p = Head(down)
  OBVIOUS
<1>2. /\ UNCHANGED <<state, next_id, inflight, late, msgs, dead, dropped, row, reissued>>
      /\ \/ p.type = "publish" /\ ClientPublish(p)
         \/ p.type = "pubrel" /\ ClientPubrel(p)
  BY <1>1 DEF ClientReads, fates, store
<1>3. /\ p \in Packet
      /\ p.type = "publish" => p.msg \in Message
      /\ PacketOK(p, inflight, next_id, msgs) /\ p.pid < Room(next_id, msgs)
      /\ got \in Seq(Message)
  BY <1>1, ClientFacts, Zenon DEF PacketOK, BaseInv, TypeOK
\* The acknowledgement, and what the client has and remembers afterwards.
<1>4. ASSUME NEW a, up' \in {up, Append(up, a)}, Ended \subseteq Ended',
             received' \subseteq received \cup {p.pid},
             p.pid \in received' /\ p.pid \notin received
               => \A e \in inflight : e.pid = p.pid => e.msg \in Ended',
             ~reissued => \A e \in inflight : TakesOut(a, e) => e.msg \in Ended'
      PROVE  LostInv'
  <2> SUFFICES ASSUME ~reissued PROVE LostInv'
    BY <1>2, Zenon DEF LostInv
  <2>1. \A m \in 1..Len(msgs) : msgs[m].qos > 0 => m \in Ended' \cup MsgsOf(inflight)
    BY <1>4, Zenon DEF LostInv
  <2>2. state # "gone" => \A pid \in received' : pid < Room(next_id, msgs)
    BY <1>3, <1>4, Zenon DEF LostInv
  <2>3. ASSUME NEW e \in inflight PROVE Ends(e, Acks', received', Ended')
    <3>1. Ends(e, Acks, received, Ended)
      BY DEF LostInv
    <3>2. ASSUME NEW b, b \in Acks', TakesOut(b, e) PROVE e.msg \in Ended'
      <4>1. Acks' \subseteq Acks \cup {a}
        BY <1>2, <1>4, LinkTypes, ElementsAppend, Zenon DEF Acks
      <4>2. b \in Acks \/ b = a
        BY <3>2, <4>1
      <4> QED BY <1>4, <3>1, <3>2, <4>2 DEF Ends
    <3>3. ASSUME e.pid \in received' PROVE e.msg \in Ended'
      <4>1. e.pid \in received \/ (e.pid = p.pid /\ p.pid \notin received)
        BY <1>4, <3>3
      <4> QED BY <1>4, <3>1, <3>3, <4>1 DEF Ends
    <3> QED BY <1>4, <3>1, <3>2, <3>3 DEF Ends
  <2>4. row # NoRow => \A e \in row.inflight : e.stage = "Qos2AwaitComp" => e.msg \in Ended'
    BY <1>4 DEF LostInv
  <2> QED BY <1>2, <2>1, <2>2, <2>3, <2>4, Zenon DEF LostInv
<1>5. CASE p.type = "publish" /\ Hand(p.msg)
  <2>1. Ended' = Ended \cup {p.msg}
    BY <1>2, <1>3, <1>5, HandGot DEF Ended
  <2>2. CASE msgs[p.msg].qos = 0
    <3>1. UNCHANGED <<received, up>>
      BY <1>2, <1>5, <2>2 DEF ClientPublish
    <3>2. Acks' = Acks
      BY <1>2, <3>1 DEF Acks
    <3> QED BY <1>2, <2>1, <3>1, <3>2, MsgsIs, LostKeeps
  <2>3. CASE msgs[p.msg].qos # 0
    <3>1. PICK a : up' = Append(up, a) /\ a.pid = p.pid
      BY <1>2, <1>5, <2>3 DEF ClientPublish, Answer
    <3>2. received' \subseteq received \cup {p.pid}
      BY <1>2, <1>5, <2>3, Zenon DEF ClientPublish
    <3>3. \A e \in inflight : e.pid = p.pid => e.msg \in Ended'
      BY <1>3, <1>5, <2>1, <2>3 DEF PacketOK
    <3> QED BY <1>4, <2>1, <3>1, <3>2, <3>3 DEF Ends, TakesOut
  <2> QED BY <2>2, <2>3
<1>6. CASE p.type = "publish" /\ ~Hand(p.msg)
  <2>1. /\ p.pid \in received /\ received' = received /\ got' = got
        /\ up' = Append(up, [type |-> "pubrec", pid |-> p.pid])
    BY <1>2, <1>6, Zenon DEF ClientPublish, Answer
  <2> DEFINE a == [type |-> "pubrec", pid |-> p.pid]
  <2>2. Ended' = Ended /\ a.pid = p.pid
    BY <1>2, <2>1 DEF Ended, Got
  <2>3. ~reissued => \A e \in inflight : e.pid = p.pid => e.msg \in Ended'
    BY <2>1, <2>2 DEF LostInv, Ends
  <2>4. CASE reissued
    BY <1>2, <2>4 DEF LostInv
  <2>5. CASE ~reissued
    BY <1>4, <2>1, <2>2, <2>3, <2>5 DEF Ends, TakesOut
  <2> QED BY <2>4, <2>5
<1>7. CASE p.type = "pubrel" /\ ClientPubrel(p)
  <2> DEFINE a == [type |-> "pubcomp", pid |-> p.pid]
  <2>1. /\ received' = received \ {p.pid} /\ got' = got /\ up' = Append(up, a)
    BY <1>7 DEF ClientPubrel, Answer
  <2>2. Ended' = Ended
    BY <1>2, <2>1 DEF Ended, Got
  <2>3. \A e \in inflight : ~TakesOut(a, e)
    BY DEF TakesOut
  <2> HIDE DEF a
  <2> QED BY <1>4, <2>1, <2>2, <2>3
<1> QED BY <1>2, <1>5, <1>6, <1>7

LEMMA LostStep ==
  ASSUME NoWrap
  PROVE  BaseInv /\ LinkInv /\ LostInv /\ [Next]_vars => LostInv'
BY LostDeliver, LostReads, LostQuiet, LostForget, LostTick, LostClient, LostPersist, LostCrash
   DEF Next, Tick

\* A message accepted for the session at QoS 1 or 2 has reached the client, or is in the
\* in-flight queue, or was handed to the dead-letter path, or went with a session that was
\* given up, whatever connections are lost or taken over, acknowledgements read late, and
\* acknowledgements and retries a crash undoes: unless a crash frees ids that had been handed
\* out, and as long as no more messages are delivered than there are packet ids.
THEOREM NothingEverLost ==
  ASSUME MaxMessages <= MAX_PID
  PROVE  Spec => []NothingLost
<1>1. Init => LostInv
  BY DEF Init, LostInv
<1>2. BaseInv /\ LinkInv /\ LostInv /\ [Next]_vars => LostInv'
  BY LostStep DEF NoWrap
<1>3. LostInv => NothingLost
  BY DEF LostInv, NothingLost, Ended
<1>4. Spec => []LinkInv
  BY LinkAlways DEF NoWrap
<1> QED BY <1>1, <1>2, <1>3, <1>4, BaseAlways, PTL DEF Spec
=================================================================================
