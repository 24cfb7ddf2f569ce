------------------------- MODULE InflightWorkerProofs --------------------------
(***************************************************************************)
(* What has to hold of the writes under way is kept by the worker, whether *)
(* it applies a write or fails to, and by a crash.                         *)
(***************************************************************************)
EXTENDS InflightStreamProofs

(***************************************************************************)
(* The worker takes the first write of the stream, and applies it or not.  *)
(***************************************************************************)
Popped(op) ==
  /\ Len(Stream') \in Nat /\ Len(Stream) = Len(Stream') + 1 /\ Stream[1] = op
  /\ \A k \in 1..Len(Stream') : Stream'[k] = Stream[k + 1]
  /\ UNCHANGED <<alive, inflight, past, given_up>>

LEMMA WorkerPops ==
  ASSUME StreamType, Single, pq # <<>>, pq' = Tail(pq),
         UNCHANGED <<alive, inflight, todo, past, given_up>>
  PROVE  Single' /\ Head(pq) \in Op /\ Popped(Head(pq))
<1>1. pq \in Seq(Op) /\ todo \in [Tasks -> Seq(Op)] /\ Alone(todo) /\ todo' = todo
  BY DEF StreamType, Single
<1>2. Head(pq) \in Op
  BY <1>1, HeadTailProperties
<1>3. LET s == StreamOf(pq, todo)
          z == StreamOf(Tail(pq), todo)
      IN /\ Len(z) \in Nat /\ Len(s) = Len(z) + 1
         /\ s[1] = Head(pq)
         /\ \A k \in 1..Len(z) : z[k] = s[k + 1]
  BY <1>1, StreamPops
<1>4. Stream' = StreamOf(Tail(pq), todo)
  BY <1>1 DEF Stream
<1>5. /\ Len(Stream') \in Nat /\ Len(Stream) = Len(Stream') + 1 /\ Stream[1] = Head(pq)
      /\ \A k \in 1..Len(Stream') : Stream'[k] = Stream[k + 1]
  BY <1>3, <1>4, Zenon DEF Stream
<1> QED BY <1>1, <1>2, <1>5 DEF Popped, Single

\* What each write does to the disk.
LEMMA Applied ==
  ASSUME NEW op \in Op, apply_persist_op(op)
  PROVE  /\ op.op = "PutSession" => disk_session' = TRUE
         /\ op.op = "RemoveSession" =>
              disk_session' = FALSE /\ disk_inflight' = NoRow /\ buried' = buried \cup op.gone
         /\ op.op = "PutInflight" => disk_inflight' = op.blob /\ op.blob # NoRow
         /\ op.op = "AppendDeadLetter" => dead_letters' = Append(dead_letters, op.msg)
         /\ op.op = "Flush" =>
              pc' = IF pc[op.ack] = "flushing" THEN [pc EXCEPT ![op.ack] = "flushed"] ELSE pc
         /\ op.op \notin SessionOps => disk_session' = disk_session
         /\ op.op \notin QueueOps => disk_inflight' = disk_inflight
         /\ op.op # "RemoveSession" => buried' = buried
         /\ op.op # "AppendDeadLetter" => dead_letters' = dead_letters
         /\ op.op # "Flush" => pc' = pc
<1>1. op.op = "PutInflight" => op.blob # NoRow
  BY OpFields, StoreAssumption DEF Message
<1>2. CASE op.op = "PutInflight" /\ put_inflight(op.blob)
  BY <1>1, <1>2 DEF put_inflight, SessionOps, QueueOps
<1>3. CASE op.op = "PutSession" /\ put_session
  BY <1>3 DEF put_session, SessionOps, QueueOps
<1>4. CASE op.op = "RemoveSession" /\ remove_session(op.gone)
  BY <1>4 DEF remove_session, InflightAfterRemove, SessionOps, QueueOps
<1>5. CASE op.op = "AppendDeadLetter" /\ append_dead_letter(op.msg)
  BY <1>5 DEF append_dead_letter, SessionOps, QueueOps
<1>6. CASE op.op = "Flush" /\ ack(op.ack)
  BY <1>6 DEF ack, disk, SessionOps, QueueOps
<1> QED BY <1>2, <1>3, <1>4, <1>5, <1>6, Zenon DEF apply_persist_op

\* The last write of a row is followed by the same writes when the first one has gone.
LEMMA PoppedLast ==
  ASSUME NEW op, Popped(op), NEW ops
  PROVE  /\ \A k \in 1..Len(Stream') : Last(k, ops)' => k + 1 \in Positions /\ Last(k + 1, ops)
         /\ None(ops)' /\ op.op \in ops => 1 \in Positions /\ Last(1, ops)
         /\ None(ops)' /\ op.op \notin ops => None(ops)
<1> DEFINE z == Len(Stream')
<1>1. /\ z \in Nat /\ Len(Stream) = z + 1 /\ Stream[1] = op
      /\ \A k \in 1..z : Stream'[k] = Stream[k + 1]
  BY DEF Popped
<1> HIDE DEF z
<1>2. \A j \in 2..(z + 1) : j - 1 \in 1..z /\ Stream[j] = Stream'[j - 1]
  BY <1>1
<1>3. ASSUME NEW k \in 1..z, Last(k, ops)' PROVE k + 1 \in Positions /\ Last(k + 1, ops)
  <2>1. Stream'[k].op \in ops /\ \A j \in (k + 1)..z : Stream'[j].op \notin ops
    BY <1>3 DEF Last, z
  <2>2. k + 1 \in 1..(z + 1) /\ Stream[k + 1].op \in ops
    BY <1>1, <2>1
  <2>3. ASSUME NEW j \in (k + 2)..(z + 1) PROVE Stream[j].op \notin ops
    <3>1. j - 1 \in (k + 1)..z /\ j \in 2..(z + 1)
      BY <1>1
    <3> QED BY <1>2, <2>1, <3>1
  <2> QED BY <1>1, <2>2, <2>3 DEF Last, Positions
<1>4. ASSUME None(ops)' PROVE \A j \in 2..(z + 1) : Stream[j].op \notin ops
  BY <1>2, <1>4 DEF None, Positions, z
<1>5. None(ops)' /\ op.op \in ops => 1 \in Positions /\ Last(1, ops)
  BY <1>1, <1>4 DEF Last, Positions
<1>6. None(ops)' /\ op.op \notin ops => None(ops)
  BY <1>1, <1>4 DEF None, Positions
<1> QED BY <1>3, <1>5, <1>6 DEF z

LEMMA PoppedFollows ==
  ASSUME NEW op \in Op, Popped(op), SessionFollows, QueueFollows,
         \/ apply_persist_op(op) /\ behind' = behind \ RowsOf(op)
         \/ behind' = behind \cup RowsOf(op) /\ UNCHANGED disk
  PROVE  SessionFollows' /\ QueueFollows'
<1>1. /\ alive' = alive /\ inflight' = inflight
      /\ \A k \in 1..Len(Stream') : Stream'[k] = Stream[k + 1]
  BY DEF Popped
<1>2. /\ op.op \in SessionOps => "session" \in RowsOf(op)
      /\ op.op \notin SessionOps => "session" \notin RowsOf(op)
      /\ op.op \in QueueOps => "inflight" \in RowsOf(op)
      /\ op.op \notin QueueOps => "inflight" \notin RowsOf(op)
  BY OpFields DEF RowsOf, SessionOps, QueueOps
<1>3. /\ op.op \notin SessionOps => disk_session' = disk_session
      /\ op.op \notin QueueOps => disk_inflight' = disk_inflight
  BY Applied, Zenon DEF disk
<1>4. SessionFollows'
  <2>1. ASSUME NEW k \in 1..Len(Stream'), Last(k, SessionOps)'
        PROVE  alive' = (Stream'[k].op = "PutSession")
    <3>1. alive = Is(k + 1, "PutSession")
      BY <2>1, PoppedLast DEF SessionFollows
    <3> QED BY <1>1, <3>1 DEF Is
  <2>2. ASSUME None(SessionOps)', "session" \notin behind', op.op \in SessionOps
        PROVE  disk_session' = alive'
    <3>1. alive = Is(1, "PutSession")
      BY <2>2, PoppedLast DEF SessionFollows
    <3>2. apply_persist_op(op)
      BY <1>2, <2>2
    <3>3. op.op = "PutSession" \/ (op.op = "RemoveSession" /\ op.op # "PutSession")
      BY <2>2 DEF SessionOps
    <3>4. disk_session' = (op.op = "PutSession")
      BY <3>2, <3>3, Applied, Zenon
    <3> QED BY <1>1, <3>1, <3>4 DEF Is, Popped
  <2>3. ASSUME None(SessionOps)', "session" \notin behind', op.op \notin SessionOps
        PROVE  disk_session' = alive'
    <3>1. None(SessionOps) /\ "session" \notin behind
      BY <1>2, <2>3, PoppedLast
    <3> QED BY <1>1, <1>3, <2>3, <3>1 DEF SessionFollows
  <2> QED BY <2>1, <2>2, <2>3 DEF SessionFollows, Positions, Is
<1>5. QueueFollows'
  <2>1. ASSUME NEW k \in 1..Len(Stream'), Last(k, QueueOps)'
        PROVE  inflight' = IF Stream'[k].op = "PutInflight" THEN Stream'[k].blob ELSE {}
    <3>1. inflight = IF Is(k + 1, "PutInflight") THEN Stream[k + 1].blob ELSE {}
      BY <2>1, PoppedLast DEF QueueFollows
    <3> QED BY <1>1, <3>1 DEF Is
  <2>2. ASSUME None(QueueOps)', "inflight" \notin behind', op.op \in QueueOps
        PROVE  inflight' = IF disk_inflight' = NoRow THEN {} ELSE disk_inflight'
    <3>1. inflight = IF Is(1, "PutInflight") THEN Stream[1].blob ELSE {}
      BY <2>2, PoppedLast DEF QueueFollows
    <3>2. apply_persist_op(op)
      BY <1>2, <2>2
    <3>3. \/ op.op = "PutInflight" /\ disk_inflight' = op.blob /\ op.blob # NoRow
          \/ op.op = "RemoveSession" /\ op.op # "PutInflight" /\ disk_inflight' = NoRow
      BY <2>2, <3>2, Applied, Zenon DEF QueueOps
    <3> QED BY <1>1, <3>1, <3>3 DEF Is, Popped
  <2>3. ASSUME None(QueueOps)', "inflight" \notin behind', op.op \notin QueueOps
        PROVE  inflight' = IF disk_inflight' = NoRow THEN {} ELSE disk_inflight'
    <3>1. None(QueueOps) /\ "inflight" \notin behind
      BY <1>2, <2>3, PoppedLast
    <3> QED BY <1>1, <1>3, <2>3, <3>1 DEF QueueFollows
  <2> QED BY <2>1, <2>2, <2>3 DEF QueueFollows, Positions, Is
<1> QED BY <1>4, <1>5

LEMMA PoppedOrphan ==
  ASSUME NEW op \in Op, Popped(op), apply_persist_op(op), NoOrphan
  PROVE  NoOrphan'
<1> DEFINE z == Len(Stream')
<1>1. /\ z \in Nat /\ Len(Stream) = z + 1 /\ Stream[1] = op /\ alive' = alive
      /\ \A k \in 1..z : Stream'[k] = Stream[k + 1]
  BY DEF Popped
<1> HIDE DEF z
<1>2. \A j \in 2..(z + 1) : j - 1 \in 1..z /\ Stream[j] = Stream'[j - 1]
  BY <1>1
<1>3. ASSUME NEW k \in 1..(z + 1), Covered(k + 1) PROVE Covered(k)'
  <2>1. /\ \A i \in 1..k : Is(i, "RemoveSession") => \E h \in (i + 1)..k : Is(h, "PutSession")
        /\ disk_session \/ \E h \in 1..k : Is(h, "PutSession")
    BY <1>1, <1>3 DEF Covered
  <2>2. \A h \in 2..k : Is(h, "PutSession") => h - 1 \in 1..(k - 1) /\ Is(h - 1, "PutSession")'
    BY <1>1, <1>2 DEF Is
  <2>3. ASSUME NEW i \in 1..(k - 1), Is(i, "RemoveSession")'
        PROVE  \E h \in (i + 1)..(k - 1) : Is(h, "PutSession")'
    <3>1. i + 1 \in 1..k /\ Is(i + 1, "RemoveSession")
      BY <1>1, <2>3 DEF Is
    <3>2. PICK h \in (i + 2)..k : Is(h, "PutSession")
      BY <1>1, <2>1, <3>1
    <3>3. h - 1 \in (i + 1)..(k - 1) /\ h \in 2..k
      BY <1>1, <3>2
    <3> QED BY <2>2, <3>2, <3>3
  <2>4. disk_session' \/ \E h \in 1..(k - 1) : Is(h, "PutSession")'
    <3>1. CASE op.op = "PutSession"
      BY <3>1, Applied, Zenon
    <3>2. CASE op.op = "RemoveSession"
      <4>1. \E h \in 2..k : Is(h, "PutSession")
        BY <1>1, <2>1, <3>2 DEF Is
      <4> QED BY <2>2, <4>1
    <3>3. CASE op.op \notin SessionOps
      <4>1. disk_session' = disk_session
        BY <3>3, Applied, Zenon
      <4>2. disk_session \/ \E h \in 2..k : Is(h, "PutSession")
        BY <1>1, <2>1, <3>3 DEF Is, SessionOps
      <4> QED BY <2>2, <4>1, <4>2
    <3> QED BY <3>1, <3>2, <3>3 DEF SessionOps
  <2> QED BY <2>3, <2>4 DEF Covered
<1>4. ASSUME NEW k \in 1..z, Is(k, "PutInflight")' PROVE Covered(k)'
  <2>1. k + 1 \in Positions /\ Is(k + 1, "PutInflight")
    BY <1>1, <1>4 DEF Is, Positions
  <2> QED BY <1>1, <1>3, <2>1 DEF NoOrphan
<1>5. alive' => \A k \in 1..(z + 1) : k = z + 1 => Covered(k)'
  BY <1>1, <1>3 DEF NoOrphan
<1>6. alive' => Covered(Len(Stream) + 1)'
  <2> SUFFICES ASSUME alive' PROVE Covered(Len(Stream) + 1)'
    OBVIOUS
  <2>1. PICK k \in 1..(z + 1) : k = z + 1
    BY <1>1
  <2>2. Covered(k)'
    BY <1>5, <2>1
  <2> QED BY <2>1, <2>2 DEF Covered, z
<1>7. ~disk_session' => disk_inflight' = NoRow
  <2>1. CASE op.op = "RemoveSession"
    BY <2>1, Applied, Zenon
  <2>2. CASE op.op = "PutSession"
    BY <2>2, Applied, Zenon
  <2>3. CASE op.op = "PutInflight"
    <3>1. Covered(1)
      BY <1>1, <2>3 DEF NoOrphan, Positions, Is
    <3>2. disk_session
      BY <3>1 DEF Covered
    <3> QED BY <2>3, <3>2, Applied, Zenon DEF SessionOps
  <2>4. CASE op.op \notin SessionOps \cup QueueOps
    BY <2>4, Applied, Zenon DEF NoOrphan
  <2> QED BY <2>1, <2>2, <2>3, <2>4 DEF SessionOps, QueueOps
<1> QED BY <1>4, <1>6, <1>7 DEF NoOrphan, Positions, z

\* Every place of the new stream is one of the old, and so is what is now on disk.
LEMMA PoppedWrites ==
  ASSUME NEW op \in Op, Popped(op), apply_persist_op(op) \/ UNCHANGED <<disk, buried>>
  PROVE  /\ \A k \in 1..Len(Stream') : \A m :
              /\ k + 1 \in Positions
              /\ (Put(k, m)' <=> Put(k + 1, m)) /\ (Letter(k, m)' <=> Letter(k + 1, m))
         /\ \A m : OnDisk(m)' => OnDisk(m) \/ (1 \in Positions /\ Put(1, m))
<1>1. /\ Len(Stream') \in Nat /\ Len(Stream) = Len(Stream') + 1 /\ Stream[1] = op
      /\ \A k \in 1..Len(Stream') : Stream'[k] = Stream[k + 1]
  BY DEF Popped
<1>2. ASSUME NEW k \in 1..Len(Stream'), NEW m
      PROVE  /\ k + 1 \in Positions
             /\ (Put(k, m)' <=> Put(k + 1, m)) /\ (Letter(k, m)' <=> Letter(k + 1, m))
  BY <1>1 DEF Positions, Put, Letter, Is
<1>3. ASSUME NEW m, OnDisk(m)' PROVE OnDisk(m) \/ (1 \in Positions /\ Put(1, m))
  <2>1. CASE op.op = "PutInflight" /\ disk_inflight' = op.blob
    BY <1>1, <1>3, <2>1 DEF OnDisk, Put, Is, Positions
  <2>2. CASE disk_inflight' = disk_inflight
    BY <1>3, <2>2 DEF OnDisk
  <2>3. CASE disk_inflight' = NoRow
    BY <1>3, <2>3 DEF OnDisk
  <2> QED BY <2>1, <2>2, <2>3, Applied, Zenon DEF QueueOps, disk
<1> QED BY <1>2, <1>3

LEMMA PoppedNumbers ==
  ASSUME NEW op \in Op, Popped(op), apply_persist_op(op) \/ UNCHANGED <<disk, buried>>,
         StreamType, StreamType', Numbered
  PROVE  Numbered'
<1>1. /\ Len(Stream') \in Nat /\ Len(Stream) = Len(Stream') + 1 /\ Stream[1] = op
      /\ \A k \in 1..Len(Stream') : Stream'[k] = Stream[k + 1]
      /\ UNCHANGED <<inflight, sent, own, acked, given_up>>
  BY DEF Popped, past
<1>2. 1 \in Positions
  BY <1>1 DEF Positions
<1>3. buried' \subseteq 1..sent
  <2>1. buried' = buried \/ (op.op = "RemoveSession" /\ buried' = buried \cup op.gone)
    BY Applied, Zenon
  <2>2. op.op = "RemoveSession" => op.gone \subseteq 1..sent
    BY <1>1, <1>2 DEF Numbered, Is
  <2> QED BY <2>1, <2>2 DEF Numbered
<1>4. \A m \in Message : OnDisk(m)' => m <= sent
  BY PoppedWrites DEF Numbered
<1>5. \A k \in 1..Len(Stream'), m \in Message : Put(k, m)' \/ Letter(k, m)' => m <= sent
  BY PoppedWrites DEF Numbered
<1>6. \A k \in 1..Len(Stream') : Is(k, "RemoveSession")' => Stream'[k].gone \subseteq 1..sent
  BY <1>1 DEF Numbered, Is, Positions
<1>7. ASSUME NEW i \in 1..Len(dead_letters') PROVE dead_letters'[i] <= sent
  <2>1. CASE dead_letters' = dead_letters
    BY <1>7, <2>1, Zenon DEF Numbered
  <2>2. CASE op.op = "AppendDeadLetter" /\ dead_letters' = Append(dead_letters, op.msg)
    <3>1. op.msg \in Message /\ op.msg <= sent
      BY <1>1, <1>2, <2>2, OpFields DEF Numbered, Letter, Is
    <3>2. dead_letters \in Seq(Message)
      BY DEF StreamType
    <3>3. \/ i \in 1..Len(dead_letters) /\ dead_letters'[i] = dead_letters[i]
          \/ dead_letters'[i] = op.msg
      BY <1>7, <2>2, <3>1, <3>2, AppendProperties
    <3> QED BY <3>1, <3>3 DEF Numbered
  <2> QED BY <2>1, <2>2, Applied, Zenon DEF disk
<1>8. (inflight \cup acked \cup given_up)' \subseteq 1..sent /\ \A t \in Tasks : own'[t] \subseteq 1..sent
  BY <1>1 DEF Numbered
<1> QED BY <1>1, <1>3, <1>4, <1>5, <1>6, <1>7, <1>8, Zenon DEF Numbered, Positions

LEMMA PoppedBuried ==
  ASSUME NEW op \in Op, Popped(op), apply_persist_op(op) \/ UNCHANGED <<disk, buried>>, BuriedInv
  PROVE  BuriedInv'
<1>1. /\ Len(Stream') \in Nat /\ Len(Stream) = Len(Stream') + 1 /\ Stream[1] = op
      /\ \A k \in 1..Len(Stream') : Stream'[k] = Stream[k + 1]
      /\ inflight' = inflight
  BY DEF Popped
<1>2. ASSUME NEW m \in buried'
      PROVE  m \notin inflight' /\ ~OnDisk(m)' /\ \A k \in 1..Len(Stream') : ~Put(k, m)'
  <2>1. CASE m \in buried
    <3>1. m \notin inflight /\ ~OnDisk(m) /\ \A k \in Positions : ~Put(k, m)
      BY <2>1 DEF BuriedInv
    <3> QED BY <1>1, <3>1, PoppedWrites, Zenon
  <2>2. CASE op.op = "RemoveSession" /\ m \in op.gone /\ disk_inflight' = NoRow
    <3>1. m \notin inflight /\ \A k \in 2..Len(Stream) : ~Put(k, m)
      BY <1>1, <2>2 DEF BuriedInv, Is, Positions
    <3>2. \A k \in 1..Len(Stream') : k + 1 \in 2..Len(Stream) /\ (Put(k, m)' <=> Put(k + 1, m))
      BY <1>1, PoppedWrites
    <3> QED BY <1>1, <2>2, <3>1, <3>2 DEF OnDisk
  <2> QED BY <1>2, <2>1, <2>2, Applied, Zenon
<1>3. ASSUME NEW i \in 1..Len(Stream'), Is(i, "RemoveSession")', NEW m \in Stream'[i].gone
      PROVE  m \notin inflight' /\ \A k \in (i + 1)..Len(Stream') : ~Put(k, m)'
  <2>1. i + 1 \in Positions /\ Is(i + 1, "RemoveSession") /\ m \in Stream[i + 1].gone
    BY <1>1, <1>3 DEF Is, Positions
  <2>2. m \notin inflight /\ \A k \in (i + 2)..Len(Stream) : ~Put(k, m)
    BY <1>1, <2>1 DEF BuriedInv
  <2>3. ASSUME NEW k \in (i + 1)..Len(Stream') PROVE ~Put(k, m)'
    <3>1. k \in 1..Len(Stream') /\ k + 1 \in (i + 2)..Len(Stream)
      BY <1>1, <2>3
    <3> QED BY <2>2, <3>1, PoppedWrites, Zenon
  <2> QED BY <1>1, <2>2, <2>3
<1> QED BY <1>2, <1>3 DEF BuriedInv, Positions

\* What is on disk and is not settled stays there, when a write is applied.
LEMMA AppliedKeeps ==
  ASSUME NEW op \in Op, Popped(op), apply_persist_op(op), SafeInv, NEW m \in Open
  PROVE  /\ OnDisk(m) => OnDisk(m)'
         /\ Put(1, m) => OnDisk(m)'
<1>1. 1 \in Positions /\ Stream[1] = op
  BY DEF Popped, Positions
<1>2. OnDisk(m) => /\ op.op = "PutInflight" => m \in op.blob
                   /\ op.op # "RemoveSession"
  <2>1. OnDisk(m) => Stays(m, 0)
    BY Zenon DEF SafeInv
  <2> QED BY <1>1, <2>1 DEF Stays, Is, Positions
<1>3. CASE op.op = "PutInflight"
  BY <1>1, <1>2, <1>3, Applied, Zenon DEF OnDisk, Put
<1>4. CASE op.op # "PutInflight"
  BY <1>1, <1>2, <1>4, Applied, Zenon DEF OnDisk, Put, Is, QueueOps
<1> QED BY <1>3, <1>4

LEMMA PoppedSafe ==
  ASSUME NEW op \in Op, Popped(op), apply_persist_op(op), StreamType, Stream \in Seq(Op), SafeInv
  PROVE  SafeInv'
<1> DEFINE z == Len(Stream')
<1>1. /\ z \in Nat /\ Len(Stream) = z + 1 /\ Stream[1] = op
      /\ \A k \in 1..z : Stream'[k] = Stream[k + 1]
      /\ UNCHANGED <<inflight, own, safe, acked, given_up>>
  BY DEF Popped, past
<1>2. Open' = Open
  BY <1>1 DEF Open
<1>3. \A k \in 1..z : Is(k, "Flush")' => /\ k + 1 \in Positions /\ Is(k + 1, "Flush")
                                         /\ Stream'[k].ack = Stream[k + 1].ack
                                         /\ Stream[k + 1].ack \in Tasks
  BY <1>1, OpFields DEF Is, Positions
<1> HIDE DEF z
<1>4. ASSUME NEW m, NEW k \in 0..z, NEW j \in {0, k + 1}, Stays(m, j), j = 0 => k = 0
      PROVE  Stays(m, k)'
  <2>1. \A h \in (k + 1)..z : h \in 1..z /\ h + 1 \in (j + 1)..Len(Stream) /\ Stream'[h] = Stream[h + 1]
    BY <1>1, <1>4
  <2> QED BY <1>1, <1>4, <2>1 DEF Stays, Is, z
<1>5. ASSUME NEW m \in Open, OnDisk(m)' PROVE Stays(m, 0)'
  <2>1. OnDisk(m) \/ (1 \in Positions /\ Put(1, m))
    BY <1>5, PoppedWrites
  <2>2. Stays(m, 0) \/ Stays(m, 1)
    BY <2>1 DEF SafeInv
  <2> QED BY <1>1, <1>4, <2>2
<1>6. ASSUME NEW m \in Open, NEW k \in 1..z, Put(k, m)' PROVE Stays(m, k)'
  <2>1. k + 1 \in Positions /\ Put(k + 1, m)
    BY <1>6, PoppedWrites DEF z
  <2>2. Stays(m, k + 1)
    BY <2>1 DEF SafeInv
  <2> QED BY <1>1, <1>4, <2>2
<1>7. ASSUME NEW m \in Open, NEW k \in 1..(z + 1), Written(m, k + 1)
      PROVE  OnDisk(m)' \/ \E j \in 1..(k - 1) : Put(j, m)'
  <2>1. OnDisk(m) \/ \E j \in 1..k : Put(j, m)
    BY <1>1, <1>7 DEF Written
  <2>2. OnDisk(m) \/ Put(1, m) \/ \E j \in 2..k : Put(j, m)
    BY <1>1, <2>1
  <2>3. CASE OnDisk(m) \/ Put(1, m)
    BY <2>3, AppliedKeeps
  <2>4. ASSUME NEW j \in 2..k, Put(j, m) PROVE \E h \in 1..(k - 1) : Put(h, m)'
    <3>1. j - 1 \in 1..(k - 1) /\ j - 1 \in 1..z /\ (j - 1) + 1 = j
      BY <1>1, <2>4
    <3> DEFINE h == j - 1
    <3>2. Put(h, m)' <=> Put(h + 1, m)
      BY <3>1, PoppedWrites DEF z
    <3> QED BY <2>4, <3>1, <3>2
  <2> QED BY <2>2, <2>3, <2>4
<1>8. /\ \A t \in Tasks : pc'[t] = "flushing" => pc[t] = "flushing"
      /\ \A t \in Tasks : pc'[t] = "flushed" =>
           pc[t] = "flushed" \/ (op.op = "Flush" /\ op.ack = t /\ pc[t] = "flushing")
      /\ \A t \in Tasks : pc[t] = "flushing" =>
           pc'[t] = "flushing" \/ (op.op = "Flush" /\ op.ack = t)
  BY Applied, OpFields, Zenon DEF StreamType
<1>9. ASSUME NEW t \in Tasks, NEW m \in Open, m \in own'[t]
      PROVE  /\ OnDisk(m)' \/ \E j \in 1..z : Put(j, m)'
             /\ pc'[t] = "flushing" =>
                  \A k \in 1..z : Is(k, "Flush")' /\ Stream'[k].ack = t => Written(m, k)'
             /\ pc'[t] = "flushed" => OnDisk(m)'
  <2>1. /\ Written(m, z + 2)
        /\ pc[t] = "flushing" =>
             \A k \in Positions : Is(k, "Flush") /\ Stream[k].ack = t => Written(m, k)
        /\ pc[t] = "flushed" => OnDisk(m)
    BY <1>1, <1>9 DEF SafeInv
  <2>2. OnDisk(m)' \/ \E j \in 1..z : Put(j, m)'
    <3>1. PICK k \in 1..(z + 1) : k + 1 = z + 2 /\ k - 1 = z
      BY <1>1
    <3>2. Written(m, k + 1)
      BY <2>1, <3>1
    <3> QED BY <1>7, <3>1, <3>2
  <2>3. ASSUME pc'[t] = "flushing", NEW k \in 1..z, Is(k, "Flush")', Stream'[k].ack = t
        PROVE  Written(m, k)'
    <3>1. Written(m, k + 1)
      BY <1>3, <1>8, <2>1, <2>3
    <3>2. k \in 1..(z + 1)
      BY <1>1
    <3>3. OnDisk(m)' \/ \E j \in 1..(k - 1) : Put(j, m)'
      BY <1>7, <3>1, <3>2
    <3> QED BY <3>3 DEF Written
  <2>4. ASSUME pc'[t] = "flushed" PROVE OnDisk(m)'
    <3>1. CASE pc[t] = "flushed"
      BY <2>1, <3>1, AppliedKeeps
    <3>2. CASE op.op = "Flush" /\ op.ack = t /\ pc[t] = "flushing"
      <4>1. Written(m, 1)
        BY <1>1, <2>1, <3>2 DEF Is, Positions
      <4>2. OnDisk(m)
        BY <4>1 DEF Written
      <4> QED BY <4>2, AppliedKeeps
    <3> QED BY <1>8, <2>4, <3>1, <3>2
  <2> QED BY <2>2, <2>3, <2>4, Zenon
<1>10. \A m \in Open : m \in safe' => OnDisk(m)'
  BY <1>1, AppliedKeeps, Zenon DEF SafeInv
<1>11. ASSUME NEW k \in 1..z, Is(k, "Flush")' PROVE pc'[Stream'[k].ack] = "flushing"
  <2>1. /\ k + 1 \in Positions /\ Is(k + 1, "Flush") /\ Stream'[k].ack = Stream[k + 1].ack
        /\ Stream[k + 1].ack \in Tasks
    BY <1>3, <1>11
  <2>2. pc[Stream[k + 1].ack] = "flushing"
    BY <2>1 DEF SafeInv
  <2>3. ~(op.op = "Flush" /\ op.ack = Stream[k + 1].ack)
    BY <1>1, <2>1 DEF SafeInv, Is, Positions
  <2> QED BY <1>8, <2>1, <2>2, <2>3
<1>12. \A j, k \in 1..z : Is(j, "Flush")' /\ Is(k, "Flush")' /\ Stream'[j].ack = Stream'[k].ack => j = k
  <2> SUFFICES ASSUME NEW j \in 1..z, NEW k \in 1..z, Is(j, "Flush")', Is(k, "Flush")',
                      Stream'[j].ack = Stream'[k].ack
               PROVE  j = k
    OBVIOUS
  <2>1. \A a, b \in Positions : Is(a, "Flush") /\ Is(b, "Flush") /\ Stream[a].ack = Stream[b].ack
                                 => a = b
    BY Zenon DEF SafeInv
  <2>2. j + 1 = k + 1
    BY <1>3, <2>1
  <2> QED BY <1>1, <2>2
<1>13. \A m : Written(m, Len(Stream) + 1)' <=> OnDisk(m)' \/ \E j \in 1..z : Put(j, m)'
  <2>1. (Len(Stream') + 1) - 1 = z
    BY <1>1 DEF z
  <2> QED BY <2>1, Zenon DEF Written
<1> QED BY <1>2, <1>5, <1>6, <1>9, <1>10, <1>11, <1>12, <1>13, Zenon DEF SafeInv, Positions, z

LEMMA PoppedLetters ==
  ASSUME NEW op \in Op, Popped(op), apply_persist_op(op), StreamType, LetterInv
  PROVE  LetterInv'
<1> DEFINE z == Len(Stream')
           d == Len(dead_letters)
<1>1. /\ z \in Nat /\ Len(Stream) = z + 1 /\ Stream[1] = op /\ inflight' = inflight
      /\ \A k \in 1..z : Stream'[k] = Stream[k + 1]
  BY DEF Popped
<1>2. dead_letters \in Seq(Message) /\ d \in Nat
  BY LenProperties DEF StreamType
<1>3. \/ dead_letters' = dead_letters
      \/ /\ op.op = "AppendDeadLetter" /\ op.msg \in Message
         /\ dead_letters' = Append(dead_letters, op.msg)
  BY Applied, OpFields, Zenon
<1>4. ASSUME NEW i \in 1..Len(dead_letters')
      PROVE  \/ i \in 1..d /\ dead_letters'[i] = dead_letters[i]
             \/ /\ i = d + 1 /\ dead_letters'[i] = op.msg
                /\ op.op = "AppendDeadLetter" /\ op.msg \in Message
  BY <1>2, <1>3, <1>4, AppendProperties
<1> HIDE DEF z, d
<1>5. \A k \in 1..z : \A m :
        /\ k + 1 \in Positions
        /\ (Put(k, m)' <=> Put(k + 1, m)) /\ (Letter(k, m)' <=> Letter(k + 1, m))
  BY PoppedWrites DEF z
\* What the disk lacks after the write.
<1>6. ASSUME NEW m, (Clears(0, m) /\ ~Put(1, m)) \/ Clears(1, m) PROVE Clears(0, m)'
  <2>1. CASE op.op = "PutInflight"
    <3>1. m \notin op.blob
      BY <1>1, <1>6, <2>1 DEF Clears, Put, Is
    <3>2. disk_inflight' = op.blob
      BY <2>1, Applied, Zenon
    <3> QED BY <3>1, <3>2 DEF Clears, OnDisk
  <2>2. CASE op.op = "RemoveSession"
    BY <2>2, Applied, Zenon DEF Clears, OnDisk
  <2>3. CASE op.op \notin QueueOps
    BY <1>1, <1>6, <2>3, Applied, Zenon DEF Clears, OnDisk
  <2> QED BY <2>1, <2>2, <2>3 DEF QueueOps
<1>7. ASSUME NEW i \in 1..d, NEW m, m = dead_letters[i]
      PROVE  m \notin inflight' /\ ~OnDisk(m)' /\ \A k \in 1..z : ~Put(k, m)' /\ ~Letter(k, m)'
  <2>1. m \notin inflight /\ ~OnDisk(m) /\ \A k \in Positions : ~Put(k, m) /\ ~Letter(k, m)
    BY <1>7 DEF LetterInv, d
  <2>2. Clears(0, m) /\ ~Put(1, m)
    BY <1>1, <2>1 DEF Clears, Positions
  <2>3. ~OnDisk(m)'
    BY <1>6, <2>2 DEF Clears
  <2> QED BY <1>1, <1>5, <2>1, <2>3
<1>8. ASSUME op.op = "AppendDeadLetter", NEW m \in Message, m = op.msg
      PROVE  /\ m \notin inflight' /\ ~OnDisk(m)' /\ \A k \in 1..z : ~Put(k, m)' /\ ~Letter(k, m)'
             /\ \A i \in 1..d : dead_letters[i] # m
  <2>1. 1 \in Positions /\ Letter(1, m)
    BY <1>1, <1>8 DEF Positions, Letter, Is
  <2>2. m \notin inflight /\ ClearedBefore(1, m) /\ \A j \in Positions : Letter(j, m) => j = 1
    BY <2>1 DEF LetterInv
  <2>3. ~OnDisk(m) /\ \A j \in Positions : ~Put(j, m)
    BY <2>2 DEF ClearedBefore, Clears, Positions
  <2>4. ~OnDisk(m)'
    <3>1. Clears(0, m) /\ ~Put(1, m)
      BY <2>1, <2>3 DEF Clears
    <3> QED BY <1>6, <3>1 DEF Clears
  <2>5. \A k \in 1..z : ~Put(k, m)' /\ ~Letter(k, m)'
    BY <1>1, <1>5, <2>2, <2>3
  <2>6. \A i \in 1..d : dead_letters[i] # m
    BY <2>1 DEF LetterInv, d
  <2> QED BY <1>1, <2>2, <2>4, <2>5, <2>6, Zenon
<1>9. ASSUME NEW i \in 1..Len(dead_letters'), NEW m, m = dead_letters'[i]
      PROVE  m \notin inflight' /\ ~OnDisk(m)' /\ \A k \in 1..z : ~Put(k, m)' /\ ~Letter(k, m)'
  BY <1>4, <1>7, <1>8, <1>9
<1>10. ASSUME NEW i \in 1..Len(dead_letters'), NEW j \in 1..Len(dead_letters'),
              dead_letters'[i] = dead_letters'[j]
       PROVE  i = j
  <2>1. CASE i \in 1..d /\ dead_letters'[i] = dead_letters[i] /\ j \in 1..d /\ dead_letters'[j] = dead_letters[j]
    BY <1>10, <2>1, Zenon DEF LetterInv, d
  <2>2. CASE ~(i \in 1..d /\ dead_letters'[i] = dead_letters[i] /\ j \in 1..d /\ dead_letters'[j] = dead_letters[j])
    BY <1>4, <1>8, <1>10, <2>2
  <2> QED BY <2>1, <2>2
<1>11. ASSUME NEW k \in 1..z, NEW m \in Message, Letter(k, m)'
       PROVE  /\ m \notin inflight' /\ ClearedBefore(k, m)'
              /\ \A j \in 1..z : Letter(j, m)' => j = k
  <2>1. k + 1 \in Positions /\ Letter(k + 1, m)
    BY <1>5, <1>11
  <2>2. /\ m \notin inflight /\ ClearedBefore(k + 1, m)
        /\ \A j \in Positions : Letter(j, m) => j = k + 1
    BY <2>1 DEF LetterInv
  <2>3. PICK h \in 0..k : Clears(h, m) /\ \A j \in (h + 1)..(z + 1) : ~Put(j, m)
    BY <1>1, <2>2 DEF ClearedBefore
  <2>4. ASSUME h \in {0, 1} PROVE ClearedBefore(k, m)'
    <3>1. (Clears(0, m) /\ ~Put(1, m)) \/ Clears(1, m)
      BY <1>1, <2>3, <2>4
    <3>2. Clears(0, m)'
      BY <1>6, <3>1, Zenon
    <3>3. ASSUME NEW j \in 1..z PROVE ~Put(j, m)'
      <4>1. j + 1 \in (h + 1)..(z + 1)
        BY <1>1, <2>4
      <4> QED BY <1>5, <2>3, <4>1
    <3> QED BY <3>2, <3>3 DEF ClearedBefore, z
  <2>5. ASSUME h \in 2..k PROVE ClearedBefore(k, m)'
    <3>1. h - 1 \in 1..z /\ h - 1 \in 0..(k - 1) /\ (h - 1) + 1 = h /\ h - 1 # 0
      BY <1>1, <2>5
    <3>2. Clears(h - 1, m)'
      BY <1>1, <2>3, <2>5, <3>1 DEF Clears, Put, Is
    <3>3. ASSUME NEW j \in h..z PROVE ~Put(j, m)'
      <4>1. j \in 1..z /\ j + 1 \in (h + 1)..(z + 1)
        BY <1>1, <2>5
      <4> QED BY <1>5, <2>3, <4>1
    <3> QED BY <3>1, <3>2, <3>3 DEF ClearedBefore, z
  <2>6. ClearedBefore(k, m)'
    BY <2>3, <2>4, <2>5
  <2>7. ASSUME NEW j \in 1..z, Letter(j, m)' PROVE j = k
    <3>1. j + 1 = k + 1
      BY <1>5, <2>2, <2>7
    <3> QED BY <1>1, <3>1
  <2> QED BY <1>1, <2>2, <2>6, <2>7
<1> QED BY <1>9, <1>10, <1>11 DEF LetterInv, Positions, z

LEMMA StoreWorker ==
  ASSUME StoreInv, StreamType', run_persist_worker
  PROVE  StoreInv'
<1> DEFINE op == Head(pq)
<1>1. /\ pq # <<>> /\ pq' = Tail(pq) /\ apply_persist_op(op) /\ behind' = behind \ RowsOf(op)
      /\ UNCHANGED <<overlapped, alive, inflight, todo, past, given_up, failures>>
  BY DEF run_persist_worker
<1> HIDE DEF op
<1>2. CASE overlapped
  BY <1>1, <1>2 DEF StoreInv
<1>3. CASE ~overlapped
  <2>1. /\ StreamType /\ Single /\ CatchUpInv /\ Numbered /\ BuriedInv
        /\ failures = 0 => SafeInv /\ LetterInv
    BY <1>3 DEF StoreInv
  <2>2. Single' /\ op \in Op /\ Popped(op)
    BY <1>1, <2>1, WorkerPops DEF op
  <2>3. Stream \in Seq(Op)
    BY <2>1, StreamShape DEF Stream, StreamType, Single
  <2>4. SessionFollows' /\ QueueFollows'
    BY <1>1, <2>1, <2>2, PoppedFollows DEF CatchUpInv
  <2>5. failures' = 0 => NoOrphan' /\ behind' = {}
    BY <1>1, <2>1, <2>2, PoppedOrphan DEF CatchUpInv
  <2>6. CatchUpInv'
    BY <1>1, <2>1, <2>4, <2>5 DEF CatchUpInv
  <2>7. Numbered' /\ BuriedInv'
    BY <1>1, <2>1, <2>2, PoppedNumbers, PoppedBuried
  <2>8. failures' = 0 => SafeInv' /\ LetterInv'
    BY <1>1, <2>1, <2>2, <2>3, PoppedSafe, PoppedLetters
  <2> QED BY <2>2, <2>6, <2>7, <2>8 DEF StoreInv
<1> QED BY <1>2, <1>3

LEMMA StoreFails ==
  ASSUME StoreInv, StreamType', WriteFails
  PROVE  StoreInv'
<1> DEFINE op == Head(pq)
<1>1. /\ pq # <<>> /\ pq' = Tail(pq) /\ behind' = behind \cup RowsOf(op) /\ failures' = failures + 1
      /\ UNCHANGED <<overlapped, alive, inflight, pc, todo, disk, past, given_up, buried>>
  BY DEF WriteFails
<1> HIDE DEF op
<1>2. CASE overlapped
  BY <1>1, <1>2 DEF StoreInv
<1>3. CASE ~overlapped
  <2>1. StreamType /\ Single /\ CatchUpInv /\ Numbered /\ BuriedInv /\ failures \in Nat
    BY <1>3 DEF StoreInv, StreamType
  <2>2. Single' /\ op \in Op /\ Popped(op)
    BY <1>1, <2>1, WorkerPops DEF op
  <2>3. SessionFollows' /\ QueueFollows'
    BY <1>1, <2>1, <2>2, PoppedFollows DEF CatchUpInv
  <2>4. failures' # 0
    BY <1>1, <2>1
  <2>5. CatchUpInv'
    BY <1>1, <2>1, <2>3, <2>4 DEF CatchUpInv
  <2>6. Numbered' /\ BuriedInv'
    BY <1>1, <2>1, <2>2, PoppedNumbers, PoppedBuried
  <2> QED BY <2>2, <2>4, <2>5, <2>6 DEF StoreInv
<1> QED BY <1>2, <1>3

-------------------------------------------------------------------------------
(***************************************************************************)
(* A crash: nothing is left of the stream, and the queue is what the disk  *)
(* had.                                                                    *)
(***************************************************************************)
LEMMA EmptyStream ==
  ASSUME NEW q, NEW w, q = <<>>, w = [t \in Tasks |-> <<>>]
  PROVE  Alone(w) /\ StreamOf(q, w) = <<>> /\ Len(StreamOf(q, w)) = 0
<1>1. q \in Seq(Op) /\ w \in [Tasks -> Seq(Op)] /\ \A t \in Tasks : w[t] = <<>>
  BY EmptySeq
<1>2. Alone(w)
  BY <1>1 DEF Alone
<1>3. StreamOf(q, w) = <<>>
  BY <1>1, <1>2, StreamShape, Zenon
<1> QED BY <1>2, <1>3, EmptySeq

LEMMA StoreCrash ==
  ASSUME StoreInv, StreamType', Crash
  PROVE  StoreInv'
<1>1. /\ alive' = disk_session /\ inflight' = Loaded /\ own' = [t \in Tasks |-> {}]
      /\ behind' = IF Orphan THEN {"inflight"} ELSE {}
      /\ UNCHANGED <<overlapped, disk_session, disk_inflight, dead_letters,
                     sent, safe, acked, given_up, buried, failures>>
  BY DEF Crash, disk
<1>2. CASE overlapped
  BY <1>1, <1>2 DEF StoreInv
<1>3. CASE ~overlapped
  <2>1. /\ StreamType /\ CatchUpInv /\ Numbered /\ BuriedInv /\ failures \in Nat
        /\ failures = 0 => SafeInv /\ LetterInv
    BY <1>3 DEF StoreInv, StreamType
  <2>2. Single' /\ Len(Stream') = 0
    <3>1. pq' = <<>> /\ todo' = [t \in Tasks |-> <<>>]
      BY DEF Crash
    <3> QED BY <3>1, EmptyStream DEF Single, Stream
  <2>3. Positions' = {}
    BY <2>2 DEF Positions
  <2>4. failures = 0 => NoOrphan
    BY <2>1 DEF CatchUpInv
  <2>5. SessionFollows'
    BY <1>1, <2>3 DEF SessionFollows
  <2>6. QueueFollows'
    <3>1. "inflight" \notin behind' => ~Orphan
      BY <1>1
    <3>2. ~Orphan => disk_session \/ disk_inflight = NoRow
      BY <2>1, <2>4 DEF Orphan, NoOrphan
    <3> QED BY <1>1, <2>3, <3>1, <3>2 DEF QueueFollows, Loaded
  <2>7. failures' = 0 => NoOrphan' /\ behind' = {}
    <3> SUFFICES ASSUME failures = 0 PROVE NoOrphan' /\ behind' = {}
      BY <1>1
    <3>1. ~disk_session => disk_inflight = NoRow
      BY <2>4 DEF NoOrphan
    <3>2. alive' => Covered(Len(Stream) + 1)'
      BY <1>1, <2>2 DEF Covered
    <3> QED BY <1>1, <2>3, <3>1, <3>2 DEF NoOrphan, Orphan
  <2>8. CatchUpInv'
    BY <1>1, <2>5, <2>6, <2>7 DEF CatchUpInv, Loaded
  <2>9. \A m \in inflight' : OnDisk(m) /\ m \in Message
    BY <1>1, <2>1 DEF Loaded, OnDisk, StreamType
  <2>10. \A m : OnDisk(m)' <=> OnDisk(m)
    BY <1>1 DEF OnDisk
  <2>11. Numbered'
    <3>1. inflight' \subseteq 1..sent
      BY <2>1, <2>9, MessageNumbers DEF Numbered, StreamType
    <3>2. \A t \in Tasks : own'[t] = {}
      BY <1>1
    <3> QED BY <1>1, <2>1, <2>3, <2>10, <3>1, <3>2, Zenon DEF Numbered
  <2>12. BuriedInv'
    BY <1>1, <2>1, <2>3, <2>9, <2>10, Zenon DEF BuriedInv
  <2>13. ASSUME failures = 0 PROVE SafeInv' /\ LetterInv'
    <3>1. SafeInv /\ LetterInv /\ NoOrphan
      BY <2>1, <2>4, <2>13
    <3>2. \A m : OnDisk(m) => m \in inflight'
      BY <1>1, <3>1 DEF OnDisk, Loaded, NoOrphan
    <3>3. \A m : OnDisk(m) => Stays(m, 0)'
      BY <2>2, <3>2 DEF Stays
    <3>4. Open' = Open /\ \A t \in Tasks : own'[t] = {}
      BY <1>1 DEF Open
    <3>5. SafeInv'
      BY <1>1, <2>3, <2>10, <3>1, <3>3, <3>4, Zenon DEF SafeInv
    <3>6. LetterInv'
      BY <1>1, <2>3, <2>9, <2>10, <3>1 DEF LetterInv
    <3> QED BY <3>5, <3>6
  <2> QED BY <1>1, <2>2, <2>8, <2>11, <2>12, <2>13 DEF StoreInv
<1> QED BY <1>2, <1>3
===============================================================================
