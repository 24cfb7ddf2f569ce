------------------------- MODULE InflightStreamProofs --------------------------
(***************************************************************************)
(* The writes that the worker of the in-flight store has still to apply,   *)
(* seen as one stream: what has to hold of it for a restart to find what   *)
(* it should, what one handler adds to it, what a clean start does to it,  *)
(* and the steps that leave it as it is.                                   *)
(***************************************************************************)
EXTENDS InflightStore, SequenceTheorems, TLAPS

(***************************************************************************)
(* As long as no two tasks have run at once, the writes that the worker    *)
(* has still to apply are one stream: those in its channel, and after them *)
(* those of the one task that is between its unlock and its last enqueue.  *)
(***************************************************************************)
StreamOf(q, w) ==
  LET run == {t \in Tasks : w[t] # <<>>}
  IN IF run = {} THEN q ELSE q \o w[CHOOSE t \in run : TRUE]

Stream == StreamOf(pq, todo)

Alone(w) == \A t, u \in Tasks : w[t] # <<>> /\ w[u] # <<>> => t = u

Single == Alone(todo)

\* The k-th write of the stream.
Is(k, op) == Stream[k].op = op
Put(k, m) == Is(k, "PutInflight") /\ m \in Stream[k].blob
Letter(k, m) == Is(k, "AppendDeadLetter") /\ Stream[k].msg = m
Positions == 1..Len(Stream)

OnDisk(m) == disk_inflight # NoRow /\ m \in disk_inflight

StreamType ==
  /\ pc \in [Tasks -> {"idle", "flushing", "flushed"}]
  /\ todo \in [Tasks -> Seq(Op)]
  /\ pq \in Seq(Op)
  /\ own \in [Tasks -> SUBSET Message]
  /\ dead_letters \in Seq(Message)
  /\ sent \in 0..MaxMessages
  /\ failures \in Nat
  /\ inflight \subseteq Message
  /\ disk_inflight # NoRow => disk_inflight \subseteq Message
  /\ safe \subseteq Message

-------------------------------------------------------------------------------
(***************************************************************************)
(* DiskCatchesUp.  The last write of a row in the stream is of what the    *)
(* broker holds; when there is none, the row itself is, unless its last    *)
(* write failed.                                                           *)
(***************************************************************************)
Last(k, ops) == Stream[k].op \in ops /\ \A j \in (k + 1)..Len(Stream) : Stream[j].op \notin ops
None(ops) == \A j \in Positions : Stream[j].op \notin ops

SessionOps == {"PutSession", "RemoveSession"}
QueueOps == {"PutInflight", "RemoveSession"}

SessionFollows ==
  /\ \A k \in Positions : Last(k, SessionOps) => alive = Is(k, "PutSession")
  /\ None(SessionOps) /\ "session" \notin behind => disk_session = alive

QueueFollows ==
  /\ \A k \in Positions :
       Last(k, QueueOps) => inflight = IF Is(k, "PutInflight") THEN Stream[k].blob ELSE {}
  /\ None(QueueOps) /\ "inflight" \notin behind =>
       inflight = IF disk_inflight = NoRow THEN {} ELSE disk_inflight

\* The row of the session is there before the k-th write of the stream.
Covered(k) ==
  /\ \A i \in 1..(k - 1) : Is(i, "RemoveSession") => \E h \in (i + 1)..(k - 1) : Is(h, "PutSession")
  /\ disk_session \/ \E h \in 1..(k - 1) : Is(h, "PutSession")

\* A queue is never written without its session, unless a write failed.
NoOrphan ==
  /\ \A k \in Positions : Is(k, "PutInflight") => Covered(k)
  /\ alive => Covered(Len(Stream) + 1)
  /\ ~disk_session => disk_inflight = NoRow

CatchUpInv ==
  /\ ~alive => inflight = {}
  /\ SessionFollows /\ QueueFollows
  /\ failures = 0 => NoOrphan /\ behind = {}

-------------------------------------------------------------------------------
(***************************************************************************)
(* NoResurrection.  No write after the removal of a session, and nothing   *)
(* in memory, has a message of it.                                         *)
(***************************************************************************)
Numbered ==
  /\ inflight \cup buried \cup acked \cup given_up \subseteq 1..sent
  /\ \A t \in Tasks : own[t] \subseteq 1..sent
  /\ \A m \in Message : OnDisk(m) => m <= sent
  /\ \A k \in Positions, m \in Message : Put(k, m) \/ Letter(k, m) => m <= sent
  /\ \A k \in Positions : Is(k, "RemoveSession") => Stream[k].gone \subseteq 1..sent
  /\ \A i \in 1..Len(dead_letters) : dead_letters[i] <= sent

BuriedInv ==
  /\ \A m \in buried : m \notin inflight /\ ~OnDisk(m) /\ \A k \in Positions : ~Put(k, m)
  /\ \A i \in Positions : Is(i, "RemoveSession") =>
       \A m \in Stream[i].gone :
         m \notin inflight /\ \A k \in (i + 1)..Len(Stream) : ~Put(k, m)

-------------------------------------------------------------------------------
(***************************************************************************)
(* SafeSurvives.  Once written, a message is in every later write of the   *)
(* queue, until it is acknowledged or given up.                            *)
(***************************************************************************)
Stays(m, k) ==
  /\ m \in inflight
  /\ \A j \in (k + 1)..Len(Stream) : /\ Is(j, "PutInflight") => m \in Stream[j].blob
                                     /\ ~Is(j, "RemoveSession")

Written(m, k) == OnDisk(m) \/ \E j \in 1..(k - 1) : Put(j, m)

Open == Message \ (acked \cup given_up)

SafeInv ==
  /\ \A m \in Open : /\ OnDisk(m) => Stays(m, 0)
                     /\ \A k \in Positions : Put(k, m) => Stays(m, k)
  /\ \A t \in Tasks, m \in Open : m \in own[t] =>
       /\ Written(m, Len(Stream) + 1)
       /\ pc[t] = "flushing" =>
            \A k \in Positions : Is(k, "Flush") /\ Stream[k].ack = t => Written(m, k)
       /\ pc[t] = "flushed" => OnDisk(m)
  /\ \A m \in Open : m \in safe => OnDisk(m)
  /\ \A k \in Positions : Is(k, "Flush") => pc[Stream[k].ack] = "flushing"
  /\ \A j, k \in Positions : Is(j, "Flush") /\ Is(k, "Flush") /\ Stream[j].ack = Stream[k].ack
                               => j = k

-------------------------------------------------------------------------------
(***************************************************************************)
(* DeadLetterOnce.  When the worker comes to a dead letter, the queue on   *)
(* disk has not got the message any more, and never will again.            *)
(***************************************************************************)
Clears(k, m) ==
  IF k = 0 THEN ~OnDisk(m) ELSE Stream[k].op \in QueueOps /\ ~Put(k, m)

ClearedBefore(i, m) ==
  \E k \in 0..(i - 1) : Clears(k, m) /\ \A j \in (k + 1)..Len(Stream) : ~Put(j, m)

LetterInv ==
  /\ \A i, j \in 1..Len(dead_letters) : dead_letters[i] = dead_letters[j] => i = j
  /\ \A i \in 1..Len(dead_letters) :
       LET m == dead_letters[i]
       IN /\ m \notin inflight /\ ~OnDisk(m)
          /\ \A k \in Positions : ~Put(k, m) /\ ~Letter(k, m)
  /\ \A k \in Positions, m \in Message : Letter(k, m) =>
       /\ m \notin inflight
       /\ ClearedBefore(k, m)
       /\ \A j \in Positions : Letter(j, m) => j = k

StoreInv ==
  /\ StreamType
  /\ ~overlapped =>
       /\ Single /\ CatchUpInv /\ Numbered /\ BuriedInv
       /\ failures = 0 => SafeInv /\ LetterInv

-------------------------------------------------------------------------------
LEMMA MessageNumbers ==
  MaxMessages \in Nat /\ Message \subseteq Nat /\ \A m \in Message : m > 0 /\ m <= MaxMessages
BY StoreAssumption DEF Message

LEMMA OpTypes ==
  /\ \A b \in SUBSET Message : PutInflight(b) \in Op /\ RemoveSession(b) \in Op
  /\ PutSession \in Op
  /\ \A t \in Tasks : Flush(t) \in Op
BY DEF PutInflight, PutSession, RemoveSession, Flush, Op

(***************************************************************************)
(* What a step does to the stream.                                         *)
(***************************************************************************)
LEMMA StreamShape ==
  ASSUME NEW q \in Seq(Op), NEW w \in [Tasks -> Seq(Op)], Alone(w)
  PROVE  /\ StreamOf(q, w) \in Seq(Op)
         /\ (\A t \in Tasks : w[t] = <<>>) => StreamOf(q, w) = q
         /\ \A t \in Tasks : w[t] # <<>> => StreamOf(q, w) = q \o w[t]
<1> DEFINE run == {t \in Tasks : w[t] # <<>>}
<1>1. CASE run = {}
  BY <1>1 DEF StreamOf
<1>2. CASE run # {}
  <2> DEFINE u == CHOOSE t \in run : TRUE
  <2>1. u \in Tasks /\ w[u] # <<>>
    BY <1>2
  <2> HIDE DEF u
  <2>2. StreamOf(q, w) = q \o w[u]
    BY <1>2 DEF StreamOf, u
  <2>3. \A t \in Tasks : w[t] # <<>> => t = u
    BY <2>1 DEF Alone
  <2>4. q \o w[u] \in Seq(Op)
    BY <2>1, ConcatProperties
  <2> QED BY <2>1, <2>2, <2>3, <2>4, Zenon
<1> QED BY <1>1, <1>2

\* When one task at most has a thread, its writes follow those of the channel.
LEMMA StreamOfOne ==
  ASSUME NEW q \in Seq(Op), NEW w \in [Tasks -> Seq(Op)], NEW t \in Tasks,
         \A u \in Tasks : u # t => w[u] = <<>>
  PROVE  Alone(w) /\ StreamOf(q, w) = q \o w[t]
<1>1. Alone(w)
  BY DEF Alone
<1>2. CASE w[t] = <<>>
  <2>1. \A u \in Tasks : w[u] = <<>>
    BY <1>2
  <2>2. StreamOf(q, w) = q
    BY <1>1, <2>1, StreamShape
  <2>3. q \o w[t] = q
    BY <1>2, ConcatEmptySeq
  <2> QED BY <1>1, <2>2, <2>3
<1>3. CASE w[t] # <<>>
  BY <1>1, <1>3, StreamShape
<1> QED BY <1>2, <1>3

LEMMA Associative ==
  ASSUME NEW s \in Seq(Op), NEW t \in Seq(Op), NEW u \in Seq(Op)
  PROVE  (s \o t) \o u = s \o (t \o u)
BY ConcatAssociative

\* A write that goes from its task to the channel keeps its place.
LEMMA StreamMoves ==
  ASSUME NEW q \in Seq(Op), NEW w \in [Tasks -> Seq(Op)], Alone(w),
         NEW t \in Tasks, w[t] # <<>>
  PROVE  /\ Alone([w EXCEPT ![t] = Tail(w[t])])
         /\ StreamOf(q \o <<Head(w[t])>>, [w EXCEPT ![t] = Tail(w[t])]) = StreamOf(q, w)
<1> DEFINE v == w[t]
           r == q \o <<Head(v)>>
           x == [w EXCEPT ![t] = Tail(v)]
<1>1. v \in Seq(Op) /\ v # <<>>
  OBVIOUS
<1> HIDE DEF v
<1>2. /\ Head(v) \in Op /\ Tail(v) \in Seq(Op) /\ <<Head(v)>> \in Seq(Op)
      /\ v = <<Head(v)>> \o Tail(v)
  <2>1. Head(v) \in Op /\ Tail(v) \in Seq(Op)
    BY <1>1, HeadTailProperties
  <2>2. <<Head(v)>> \in Seq(Op)
    BY <2>1
  <2> DEFINE z == <<Head(v)>> \o Tail(v)
  <2>3. z \in Seq(Op)
    BY <2>1, <2>2, ConcatProperties
  <2>4. Len(z) = Len(v) /\ \A k \in 1..Len(v) : z[k] = v[k]
    BY <1>1, <2>1
  <2> HIDE DEF z
  <2>5. z = v
    BY <1>1, <2>3, <2>4, SeqEqual
  <2> QED BY <2>1, <2>2, <2>5 DEF z
<1>3. r \in Seq(Op) /\ r \o Tail(v) = q \o v
  <2> DEFINE a == <<Head(v)>>
             b == Tail(v)
  <2>1. a \in Seq(Op) /\ b \in Seq(Op)
    BY <1>2
  <2>2. v = a \o b
    BY <1>2
  <2> HIDE DEF a, b
  <2>3. (q \o a) \o b = q \o (a \o b)
    BY <2>1, Associative, Zenon
  <2>4. q \o a \in Seq(Op)
    BY <2>1, ConcatProperties
  <2> QED BY <2>2, <2>3, <2>4, Zenon DEF a, b
<1> HIDE DEF r
<1>4. \A u \in Tasks : u # t => w[u] = <<>>
  BY DEF Alone
<1>5. x \in [Tasks -> Seq(Op)] /\ x[t] = Tail(v) /\ \A u \in Tasks : u # t => x[u] = <<>>
  BY <1>2, <1>4
<1> HIDE DEF x
<1>6. Alone(x) /\ StreamOf(r, x) = r \o Tail(v)
  BY <1>3, <1>5, StreamOfOne, Zenon
<1>7. StreamOf(q, w) = q \o v
  BY <1>1, StreamShape, Zenon DEF v
<1> QED BY <1>3, <1>6, <1>7, Zenon DEF v, r, x

\* The worker takes the first write.
LEMMA StreamPops ==
  ASSUME NEW q \in Seq(Op), q # <<>>, NEW w \in [Tasks -> Seq(Op)], Alone(w)
  PROVE  LET s == StreamOf(q, w)
             z == StreamOf(Tail(q), w)
         IN /\ Len(z) \in Nat /\ Len(s) = Len(z) + 1
            /\ s[1] = Head(q)
            /\ \A k \in 1..Len(z) : z[k] = s[k + 1]
<1>1. /\ Tail(q) \in Seq(Op) /\ Len(Tail(q)) = Len(q) - 1 /\ Len(q) \in Nat \ {0}
      /\ \A k \in 1..Len(Tail(q)) : Tail(q)[k] = q[k + 1]
  BY HeadTailProperties, EmptySeq
<1>2. CASE \A t \in Tasks : w[t] = <<>>
  <2>1. StreamOf(q, w) = q /\ StreamOf(Tail(q), w) = Tail(q)
    BY <1>1, <1>2, StreamShape, Zenon
  <2> DEFINE p == Tail(q)
  <2>2. q[1] = Head(q) /\ Len(p) \in Nat /\ Len(q) = Len(p) + 1
    BY <1>1
  <2>3. \A k \in 1..Len(p) : p[k] = q[k + 1]
    BY <1>1
  <2> HIDE DEF p
  <2> QED BY <2>1, <2>2, <2>3, Zenon DEF p
<1>3. CASE \E t \in Tasks : w[t] # <<>>
  <2> PICK t \in Tasks : w[t] # <<>>
    BY <1>3
  <2>1. StreamOf(q, w) = q \o w[t] /\ StreamOf(Tail(q), w) = Tail(q) \o w[t]
    BY <1>1, StreamShape, Zenon
  <2> DEFINE v == w[t]
             p == Tail(q)
  <2>2. v \in Seq(Op) /\ p \in Seq(Op)
    BY <1>1
  <2> HIDE DEF v, p
  <2>3. /\ Len(q \o v) = Len(q) + Len(v) /\ Len(v) \in Nat
        /\ \A k \in 1..(Len(q) + Len(v)) :
             (q \o v)[k] = IF k <= Len(q) THEN q[k] ELSE v[k - Len(q)]
    BY <2>2, ConcatProperties
  <2>4. /\ Len(p \o v) = Len(p) + Len(v)
        /\ \A k \in 1..(Len(p) + Len(v)) :
             (p \o v)[k] = IF k <= Len(p) THEN p[k] ELSE v[k - Len(p)]
    BY <2>2, ConcatProperties
  <2>5. Len(p) = Len(q) - 1 /\ \A k \in 1..Len(p) : p[k] = q[k + 1]
    BY <1>1 DEF p
  <2>6. Len(p \o v) \in Nat /\ Len(q \o v) = Len(p \o v) + 1 /\ (q \o v)[1] = Head(q)
    BY <1>1, <2>3, <2>4, <2>5
  <2>7. \A k \in 1..Len(p \o v) : (p \o v)[k] = (q \o v)[k + 1]
    BY <1>1, <2>3, <2>4, <2>5
  <2> QED BY <2>1, <2>6, <2>7, Zenon DEF v, p
<1> QED BY <1>2, <1>3

LEMMA Concat ==
  ASSUME NEW s \in Seq(Op), NEW t \in Seq(Op)
  PROVE  /\ s \o t \in Seq(Op)
         /\ Len(s) \in Nat /\ Len(t) \in Nat /\ Len(s \o t) = Len(s) + Len(t)
         /\ \A k \in 1..Len(s) : (s \o t)[k] = s[k]
         /\ \A k \in 1..Len(t) : (s \o t)[Len(s) + k] = t[k]
<1>1. /\ s \o t \in Seq(Op)
      /\ Len(s) \in Nat /\ Len(t) \in Nat /\ Len(s \o t) = Len(s) + Len(t)
      /\ \A k \in 1..(Len(s) + Len(t)) : (s \o t)[k] = IF k <= Len(s) THEN s[k] ELSE t[k - Len(s)]
  BY ConcatProperties, LenProperties
<1>2. ASSUME NEW k \in 1..Len(t) PROVE (s \o t)[Len(s) + k] = t[k]
  BY <1>1
<1> QED BY <1>1, <1>2

\* A handler adds one write, and after it the dead letters of `gone`.
Adds(op, gone) ==
  LET n == Len(Stream)
  IN /\ n \in Nat /\ Len(Stream') \in Nat /\ Len(Stream') > n
     /\ \A k \in 1..n : Stream'[k] = Stream[k]
     /\ Stream'[n + 1] = op
     /\ \A k \in (n + 2)..Len(Stream') :
          Stream'[k].op = "AppendDeadLetter" /\ Stream'[k].msg \in gone
     /\ \A j, k \in (n + 2)..Len(Stream') : Stream'[j].msg = Stream'[k].msg => j = k

-------------------------------------------------------------------------------
(***************************************************************************)
(* What the handlers have in common, a clean start apart: one write `op`,  *)
(* the dead letters of `gone` after it, and the state that goes with them. *)
(***************************************************************************)
HandledRows(op) ==
  /\ op.op # "AppendDeadLetter"
  /\ op.op = "PutSession" => alive' = TRUE
  /\ op.op = "RemoveSession" => alive' = FALSE /\ op.gone = inflight /\ inflight' = {}
  /\ op.op = "PutInflight" => alive /\ op.blob = inflight'
  /\ op.op \notin SessionOps => alive' = alive
  /\ op.op \notin QueueOps => inflight' = inflight
  /\ UNCHANGED <<disk_session, disk_inflight, dead_letters, buried, behind, failures, safe>>

HandledPast(op, gone) ==
  /\ gone \subseteq inflight /\ gone \cap inflight' = {}
  /\ gone # {} => op.op \in QueueOps
  /\ sent' \in 0..MaxMessages /\ sent <= sent'
  /\ \A m \in inflight' : m \in inflight \/ (m \in Nat /\ m > sent /\ m <= sent')
  /\ acked \subseteq acked' /\ acked' \subseteq acked \cup inflight
  /\ given_up \subseteq given_up' /\ given_up' \subseteq given_up \cup inflight
  /\ inflight \subseteq inflight' \cup acked' \cup given_up'
  /\ \A t \in Tasks : \A m \in own'[t] :
       m \in own[t] \/ (pc[t] = "idle" /\ op.op = "PutInflight" /\ m \in inflight')

HandledWait(op) ==
  \A t \in Tasks : IF op.op = "Flush" /\ op.ack = t THEN pc[t] = "idle" /\ pc'[t] = "flushing"
                                                    ELSE pc'[t] = pc[t]

Handled(op, gone) == Adds(op, gone) /\ HandledRows(op) /\ HandledPast(op, gone) /\ HandledWait(op)

LEMMA OpFields ==
  ASSUME NEW op \in Op
  PROVE  /\ op.op \in {"PutInflight", "PutSession", "RemoveSession", "AppendDeadLetter", "Flush"}
         /\ op.op = "PutInflight" => op.blob \subseteq Message
         /\ op.op = "RemoveSession" => op.gone \subseteq Message
         /\ op.op = "AppendDeadLetter" => op.msg \in Message
         /\ op.op = "Flush" => op.ack \in Tasks
BY DEF Op

\* The places of the new stream: an old one, the write's, or a dead letter's.
LEMMA AddsPlaces ==
  ASSUME NEW op, NEW gone, Adds(op, gone), NEW k \in 1..Len(Stream')
  PROVE  \/ k \in 1..Len(Stream) /\ Stream'[k] = Stream[k]
         \/ k = Len(Stream) + 1 /\ Stream'[k] = op
         \/ k > Len(Stream) + 1 /\ Stream'[k].op = "AppendDeadLetter" /\ Stream'[k].msg \in gone
BY DEF Adds

LEMMA AddsShape ==
  ASSUME NEW op, NEW gone, Adds(op, gone)
  PROVE  /\ Len(Stream) \in Nat /\ Len(Stream') \in Nat /\ Len(Stream') > Len(Stream)
         /\ Len(Stream) + 1 \in 1..Len(Stream') /\ Stream'[Len(Stream) + 1] = op
         /\ \A k \in 1..Len(Stream) : k \in 1..Len(Stream') /\ Stream'[k] = Stream[k]
         /\ \A k \in (Len(Stream) + 2)..Len(Stream') :
              Stream'[k].op = "AppendDeadLetter" /\ Stream'[k].msg \in gone
BY DEF Adds

LEMMA HandledSession ==
  ASSUME NEW op, NEW gone, Adds(op, gone), HandledRows(op), SessionFollows
  PROVE  SessionFollows'
<1> DEFINE n == Len(Stream)
<1>1. /\ n \in Nat /\ n + 1 \in 1..Len(Stream') /\ Stream'[n + 1] = op
      /\ \A k \in 1..n : k \in 1..Len(Stream') /\ Stream'[k] = Stream[k]
  BY AddsShape
<1>2. ASSUME NEW k \in 1..Len(Stream'), Last(k, SessionOps)'
      PROVE  alive' = (Stream'[k].op = "PutSession")
  <2>1. CASE k \in 1..n
    <3>1. op.op \notin SessionOps
      BY <1>1, <1>2, <2>1 DEF Last
    <3>2. Last(k, SessionOps)
      BY <1>1, <1>2, <2>1 DEF Last
    <3>3. alive = Is(k, "PutSession")
      BY <2>1, <3>2 DEF SessionFollows, Positions
    <3> QED BY <1>1, <2>1, <3>1, <3>3 DEF HandledRows, Is
  <2>2. CASE k = n + 1
    <3>1. op.op \in SessionOps
      BY <1>1, <1>2, <2>2 DEF Last
    <3> QED BY <1>1, <2>2, <3>1, Zenon DEF HandledRows, SessionOps
  <2>3. CASE k > n + 1
    <3>1. Stream'[k].op = "AppendDeadLetter"
      BY <1>1, <2>3, AddsPlaces
    <3> QED BY <1>2, <3>1 DEF Last, SessionOps
  <2> QED BY <1>1, <2>1, <2>2, <2>3
<1>3. ASSUME None(SessionOps)', "session" \notin behind' PROVE disk_session' = alive'
  <2>1. op.op \notin SessionOps
    BY <1>1, <1>3 DEF None, Positions
  <2>2. None(SessionOps)
    BY <1>1, <1>3 DEF None, Positions
  <2> QED BY <1>3, <2>1, <2>2 DEF HandledRows, SessionFollows
<1> QED BY <1>2, <1>3 DEF SessionFollows, Is, Positions

LEMMA HandledQueue ==
  ASSUME NEW op, NEW gone, Adds(op, gone), HandledRows(op), QueueFollows
  PROVE  QueueFollows'
<1> DEFINE n == Len(Stream)
<1>1. /\ n \in Nat /\ n + 1 \in 1..Len(Stream') /\ Stream'[n + 1] = op
      /\ \A k \in 1..n : k \in 1..Len(Stream') /\ Stream'[k] = Stream[k]
  BY AddsShape
<1>2. ASSUME NEW k \in 1..Len(Stream'), Last(k, QueueOps)'
      PROVE  inflight' = IF Stream'[k].op = "PutInflight" THEN Stream'[k].blob ELSE {}
  <2>1. CASE k \in 1..n
    <3>1. op.op \notin QueueOps
      BY <1>1, <1>2, <2>1 DEF Last
    <3>2. Last(k, QueueOps)
      BY <1>1, <1>2, <2>1 DEF Last
    <3>3. inflight = IF Is(k, "PutInflight") THEN Stream[k].blob ELSE {}
      BY <2>1, <3>2 DEF QueueFollows, Positions
    <3> QED BY <1>1, <2>1, <3>1, <3>3 DEF HandledRows, Is
  <2>2. CASE k = n + 1
    <3>1. op.op \in QueueOps
      BY <1>1, <1>2, <2>2 DEF Last
    <3> QED BY <1>1, <2>2, <3>1 DEF HandledRows, QueueOps
  <2>3. CASE k > n + 1
    <3>1. Stream'[k].op = "AppendDeadLetter"
      BY <1>1, <2>3, AddsPlaces
    <3> QED BY <1>2, <3>1 DEF Last, QueueOps
  <2> QED BY <1>1, <2>1, <2>2, <2>3
<1>3. ASSUME None(QueueOps)', "inflight" \notin behind'
      PROVE  inflight' = IF disk_inflight' = NoRow THEN {} ELSE disk_inflight'
  <2>1. op.op \notin QueueOps
    BY <1>1, <1>3 DEF None, Positions
  <2>2. None(QueueOps)
    BY <1>1, <1>3 DEF None, Positions
  <2> QED BY <1>3, <2>1, <2>2 DEF HandledRows, QueueFollows
<1> QED BY <1>2, <1>3 DEF QueueFollows, Is, Positions

LEMMA HandledOrphan ==
  ASSUME NEW op, NEW gone, Adds(op, gone), HandledRows(op), NoOrphan
  PROVE  NoOrphan'
<1> DEFINE n == Len(Stream)
           z == Len(Stream')
<1>1. /\ n \in Nat /\ z \in Nat /\ z > n /\ n + 1 \in 1..z /\ Stream'[n + 1] = op
      /\ \A k \in 1..n : k \in 1..z /\ Stream'[k] = Stream[k]
  BY AddsShape
<1>2. \A k \in (n + 2)..z : Stream'[k].op = "AppendDeadLetter"
  BY AddsShape
<1>3. disk_session' = disk_session /\ disk_inflight' = disk_inflight
  BY DEF HandledRows
<1> HIDE DEF n, z
<1>4. ASSUME NEW k \in 1..(n + 1), Covered(k) PROVE Covered(k)'
  BY <1>1, <1>3, <1>4 DEF Covered, Is
<1>5. ASSUME NEW k \in 1..z, Is(k, "PutInflight")' PROVE Covered(k)'
  <2>1. CASE k \in 1..n
    <3>1. Is(k, "PutInflight")
      BY <1>1, <1>5, <2>1 DEF Is
    <3>2. Covered(k)
      BY <2>1, <3>1 DEF NoOrphan, Positions, n
    <3> QED BY <1>1, <1>4, <2>1, <3>2
  <2>2. CASE k = n + 1
    <3>1. alive
      BY <1>1, <1>5, <2>2 DEF Is, HandledRows
    <3>2. Covered(n + 1)
      BY <3>1 DEF NoOrphan, n
    <3> QED BY <1>1, <1>4, <2>2, <3>2
  <2>3. CASE k \in (n + 2)..z
    BY <1>2, <1>5, <2>3 DEF Is
  <2> QED BY <1>1, <2>1, <2>2, <2>3
<1>6. ASSUME alive'
      PROVE  /\ \A i \in 1..z : Is(i, "RemoveSession")' => \E h \in (i + 1)..z : Is(h, "PutSession")'
             /\ disk_session' \/ \E h \in 1..z : Is(h, "PutSession")'
  <2>1. op.op # "RemoveSession"
    BY <1>6 DEF HandledRows
  <2>2. \A i \in 1..z : Is(i, "RemoveSession")' => i \in 1..n /\ Is(i, "RemoveSession")
    BY <1>1, <1>2, <2>1 DEF Is
  <2>3. CASE op.op = "PutSession"
    BY <1>1, <2>2, <2>3 DEF Is
  <2>4. CASE op.op # "PutSession"
    <3>1. alive
      BY <1>6, <2>1, <2>4, Zenon DEF HandledRows, SessionOps
    <3>2. Covered(n + 1)
      BY <3>1 DEF NoOrphan, n
    <3>3. /\ \A i \in 1..n : Is(i, "RemoveSession") => \E h \in (i + 1)..n : Is(h, "PutSession")
          /\ disk_session \/ \E h \in 1..n : Is(h, "PutSession")
      BY <1>1, <3>2 DEF Covered
    <3>4. \A h \in 1..n : Is(h, "PutSession") => Is(h, "PutSession")'
      BY <1>1 DEF Is
    <3> QED BY <1>1, <1>3, <2>2, <3>3, <3>4
  <2> QED BY <2>3, <2>4
<1>7. ~disk_session' => disk_inflight' = NoRow
  BY <1>3 DEF NoOrphan
<1>8. alive' => Covered(Len(Stream) + 1)'
  BY <1>1, <1>6 DEF Covered, z
<1> QED BY <1>5, <1>7, <1>8 DEF NoOrphan, Positions, z

LEMMA HandledNumbers ==
  ASSUME NEW op, NEW gone, Adds(op, gone), HandledRows(op), HandledPast(op, gone),
         StreamType, Numbered
  PROVE  Numbered'
<1> DEFINE n == Len(Stream)
           z == Len(Stream')
<1>1. /\ n \in Nat /\ z \in Nat /\ z > n /\ n + 1 \in 1..z /\ Stream'[n + 1] = op
      /\ \A k \in 1..n : k \in 1..z /\ Stream'[k] = Stream[k]
      /\ \A k \in (n + 2)..z : Stream'[k].op = "AppendDeadLetter" /\ Stream'[k].msg \in gone
  BY AddsShape
<1>2. /\ sent \in Nat /\ sent' \in Nat /\ sent <= sent'
      /\ disk_inflight' = disk_inflight /\ dead_letters' = dead_letters /\ buried' = buried
  BY MessageNumbers DEF StreamType, HandledPast, HandledRows
<1>3. \A m \in 1..sent : m \in 1..sent'
  BY <1>2
<1>4. inflight' \subseteq 1..sent'
  <2> SUFFICES ASSUME NEW m \in inflight' PROVE m \in 1..sent'
    OBVIOUS
  <2>1. m \in inflight \/ (m \in Nat /\ m > sent /\ m <= sent')
    BY DEF HandledPast
  <2> QED BY <1>2, <1>3, <2>1 DEF Numbered
<1>5. (buried \cup acked \cup given_up)' \subseteq 1..sent'
  BY <1>2, <1>3 DEF HandledPast, Numbered
<1>6. \A t \in Tasks : own'[t] \subseteq 1..sent'
  BY <1>3, <1>4, Zenon DEF HandledPast, Numbered
<1>7. \A m \in Message : OnDisk(m)' => m <= sent'
  BY <1>2, <1>3, MessageNumbers DEF Numbered, OnDisk
<1>8. ASSUME NEW k \in 1..z, NEW m \in Message, Put(k, m)' \/ Letter(k, m)' PROVE m <= sent'
  <2>1. CASE k \in 1..n
    <3>1. Put(k, m) \/ Letter(k, m)
      BY <1>1, <1>8, <2>1 DEF Put, Letter, Is
    <3>2. m <= sent
      BY <2>1, <3>1 DEF Numbered, Positions, n
    <3> QED BY <1>2, <3>2, MessageNumbers
  <2>2. CASE k = n + 1
    <3>1. m \in inflight'
      BY <1>1, <1>8, <2>2 DEF Put, Letter, Is, HandledRows
    <3> QED BY <1>2, <1>4, <3>1
  <2>3. CASE k \in (n + 2)..z
    <3>1. m \in inflight
      BY <1>1, <1>8, <2>3 DEF Put, Letter, Is, HandledPast
    <3>2. m \in 1..sent
      BY <3>1 DEF Numbered
    <3> QED BY <1>2, <1>3, <3>2
  <2> QED BY <1>1, <2>1, <2>2, <2>3
<1>9. ASSUME NEW k \in 1..z, Is(k, "RemoveSession")' PROVE Stream'[k].gone \subseteq 1..sent'
  <2>1. CASE k \in 1..n
    <3>1. Stream[k].gone \subseteq 1..sent
      BY <1>1, <1>9, <2>1 DEF Is, Numbered, Positions, n
    <3> QED BY <1>1, <1>3, <2>1, <3>1
  <2>2. CASE k = n + 1
    <3>1. Stream'[k].gone = inflight
      BY <1>1, <1>9, <2>2 DEF Is, HandledRows
    <3> QED BY <1>3, <3>1 DEF Numbered
  <2>3. CASE k \in (n + 2)..z
    BY <1>1, <1>9, <2>3 DEF Is
  <2> QED BY <1>1, <2>1, <2>2, <2>3
<1>10. ASSUME NEW i \in 1..Len(dead_letters') PROVE dead_letters'[i] <= sent'
  <2>1. dead_letters[i] \in Message /\ dead_letters[i] <= sent
    BY <1>2 DEF StreamType, Numbered
  <2>2. dead_letters'[i] = dead_letters[i] /\ dead_letters[i] \in Nat
    BY <1>2, <2>1, MessageNumbers, Zenon
  <2> QED BY <1>2, <2>1, <2>2
<1> QED BY <1>4, <1>5, <1>6, <1>7, <1>8, <1>9, <1>10, Zenon DEF Numbered, Positions, z

\* A message of before that is not queued is not written again.
LEMMA HandledGone ==
  ASSUME NEW op, NEW gone, Adds(op, gone), HandledRows(op), HandledPast(op, gone),
         StreamType, NEW m \in 1..sent, m \notin inflight
  PROVE  /\ m \notin inflight'
         /\ \A k \in (Len(Stream) + 1)..Len(Stream') : ~Put(k, m)' /\ ~Letter(k, m)'
         /\ \A k \in 1..Len(Stream) : (Put(k, m)' => Put(k, m)) /\ (Letter(k, m)' => Letter(k, m))
<1>1. sent \in Nat
  BY MessageNumbers DEF StreamType
<1>2. m \notin inflight'
  BY <1>1 DEF HandledPast
<1>3. ASSUME NEW k \in (Len(Stream) + 1)..Len(Stream') PROVE ~Put(k, m)' /\ ~Letter(k, m)'
  <2>1. CASE k = Len(Stream) + 1
    BY <1>2, <2>1 DEF Adds, HandledRows, Put, Letter, Is
  <2>2. CASE k \in (Len(Stream) + 2)..Len(Stream')
    BY <2>2 DEF Adds, HandledPast, Put, Letter, Is
  <2> QED BY <2>1, <2>2 DEF Adds
<1>4. ASSUME NEW k \in 1..Len(Stream)
      PROVE  (Put(k, m)' => Put(k, m)) /\ (Letter(k, m)' => Letter(k, m))
  BY DEF Adds, Put, Letter, Is
<1> QED BY <1>2, <1>3, <1>4

LEMMA HandledBuried ==
  ASSUME NEW op, NEW gone, Adds(op, gone), HandledRows(op), HandledPast(op, gone),
         StreamType, Numbered, BuriedInv
  PROVE  BuriedInv'
<1> DEFINE n == Len(Stream)
           z == Len(Stream')
<1>1. /\ n \in Nat /\ z \in Nat /\ z > n /\ n + 1 \in 1..z /\ Stream'[n + 1] = op
      /\ \A k \in 1..n : k \in 1..z /\ Stream'[k] = Stream[k]
      /\ \A k \in (n + 2)..z : Stream'[k].op = "AppendDeadLetter" /\ Stream'[k].msg \in gone
  BY AddsShape
<1>2. ASSUME NEW m \in buried'
      PROVE  m \notin inflight' /\ ~OnDisk(m)' /\ \A k \in 1..z : ~Put(k, m)'
  <2>1. m \in buried /\ m \in 1..sent
    BY <1>2 DEF HandledRows, Numbered
  <2>2. m \notin inflight /\ ~OnDisk(m) /\ \A k \in 1..n : ~Put(k, m)
    BY <2>1 DEF BuriedInv, Positions
  <2>3. ~OnDisk(m)'
    BY <2>2 DEF OnDisk, HandledRows
  <2>4. m \notin inflight' /\ \A k \in (n + 1)..z : ~Put(k, m)'
    BY <2>1, <2>2, HandledGone
  <2>5. \A k \in 1..n : ~Put(k, m)'
    BY <2>1, <2>2, HandledGone
  <2> QED BY <1>1, <2>3, <2>4, <2>5
<1>3. ASSUME NEW i \in 1..z, Is(i, "RemoveSession")', NEW m \in Stream'[i].gone
      PROVE  m \notin inflight' /\ \A k \in (i + 1)..z : ~Put(k, m)'
  <2>1. CASE i \in 1..n
    <3>1. Is(i, "RemoveSession") /\ m \in Stream[i].gone /\ m \in 1..sent
      BY <1>1, <1>3, <2>1 DEF Is, Numbered, Positions
    <3>2. m \notin inflight /\ \A k \in (i + 1)..n : ~Put(k, m)
      BY <2>1, <3>1 DEF BuriedInv, Positions
    <3>3. m \notin inflight' /\ \A k \in (n + 1)..z : ~Put(k, m)'
      BY <3>1, <3>2, HandledGone
    <3>4. \A k \in (i + 1)..n : ~Put(k, m)'
      BY <1>1, <2>1, <3>1, <3>2, HandledGone
    <3> QED BY <1>1, <2>1, <3>3, <3>4
  <2>2. CASE i = n + 1
    <3>1. inflight' = {}
      BY <1>1, <1>3, <2>2 DEF Is, HandledRows
    <3>2. \A k \in (n + 2)..z : ~Put(k, m)'
      BY <1>1 DEF Put, Is
    <3> QED BY <1>1, <2>2, <3>1, <3>2
  <2>3. CASE i \in (n + 2)..z
    BY <1>1, <1>3, <2>3 DEF Is
  <2> QED BY <1>1, <2>1, <2>2, <2>3
<1> QED BY <1>2, <1>3 DEF BuriedInv, Positions

LEMMA HandledSafe ==
  ASSUME NEW op \in Op, NEW gone, Adds(op, gone), HandledRows(op), HandledPast(op, gone),
         HandledWait(op), Stream \in Seq(Op), SafeInv
  PROVE  SafeInv'
<1> DEFINE n == Len(Stream)
           z == Len(Stream')
<1>1. /\ n \in Nat /\ z \in Nat /\ z > n /\ n + 1 \in 1..z /\ Stream'[n + 1] = op
      /\ \A k \in 1..n : k \in 1..z /\ Stream'[k] = Stream[k]
      /\ \A k \in (n + 2)..z : Stream'[k].op = "AppendDeadLetter"
  BY AddsShape
<1>2. \A m : OnDisk(m)' <=> OnDisk(m)
  BY DEF OnDisk, HandledRows
<1>3. ASSUME NEW m \in Open' PROVE m \in Open /\ (m \in inflight => m \in inflight')
  BY <1>3 DEF Open, HandledPast
<1>4. \A k \in 1..n : Is(k, "Flush") => Stream[k].ack \in Tasks /\ pc[Stream[k].ack] = "flushing"
  BY OpFields DEF SafeInv, Positions, Is
<1>5. ASSUME NEW k \in 1..z, Is(k, "Flush")'
      PROVE  \/ k \in 1..n /\ Is(k, "Flush") /\ Stream'[k] = Stream[k]
             \/ k = n + 1 /\ Stream'[k] = op /\ op.op = "Flush" /\ op.ack \in Tasks
  BY <1>1, <1>5, OpFields DEF Is
<1> HIDE DEF n, z
<1>6. ASSUME NEW m \in Open', NEW k \in 0..n, Stays(m, k) PROVE Stays(m, k)'
  <2>1. m \in inflight'
    BY <1>3, <1>6 DEF Stays
  <2>2. ASSUME NEW j \in (k + 1)..z
        PROVE  (Is(j, "PutInflight")' => m \in Stream'[j].blob) /\ ~Is(j, "RemoveSession")'
    <3>1. CASE j \in 1..n
      BY <1>1, <1>6, <2>2, <3>1 DEF Stays, Is, n
    <3>2. CASE j = n + 1
      BY <1>1, <2>1, <3>2 DEF Is, HandledRows
    <3>3. CASE j \in (n + 2)..z
      BY <1>1, <3>3 DEF Is
    <3> QED BY <1>1, <2>2, <3>1, <3>2, <3>3
  <2> QED BY <2>1, <2>2 DEF Stays, z
<1>7. ASSUME NEW m \in Open', OnDisk(m)' PROVE Stays(m, 0)'
  BY <1>1, <1>2, <1>3, <1>6, <1>7 DEF SafeInv
<1>8. ASSUME NEW m \in Open', NEW k \in 1..z, Put(k, m)' PROVE Stays(m, k)'
  <2>1. CASE k \in 1..n
    <3>1. Put(k, m)
      BY <1>1, <1>8, <2>1 DEF Put, Is
    <3> QED BY <1>1, <1>3, <1>6, <2>1, <3>1 DEF SafeInv, Positions, n
  <2>2. CASE k = n + 1
    <3>1. m \in inflight'
      BY <1>1, <1>8, <2>2 DEF Put, Is, HandledRows
    <3>2. \A j \in (n + 2)..z : ~Is(j, "PutInflight")' /\ ~Is(j, "RemoveSession")'
      BY <1>1 DEF Is
    <3> QED BY <1>1, <2>2, <3>1, <3>2 DEF Stays, z
  <2>3. CASE k \in (n + 2)..z
    BY <1>1, <1>8, <2>3 DEF Put, Is
  <2> QED BY <1>1, <2>1, <2>2, <2>3
<1>9. ASSUME NEW m, NEW k \in 1..(n + 1), Written(m, k) PROVE Written(m, k)'
  BY <1>1, <1>2, <1>9 DEF Written, Put, Is
<1>10. ASSUME NEW t \in Tasks, NEW m \in Open', m \in own'[t]
       PROVE  /\ OnDisk(m)' \/ \E j \in 1..z : Put(j, m)'
              /\ pc'[t] = "flushing" =>
                   \A k \in 1..z : Is(k, "Flush")' /\ Stream'[k].ack = t => Written(m, k)'
              /\ pc'[t] = "flushed" => OnDisk(m)'
  <2>1. CASE m \in own[t]
    <3>1. /\ Written(m, n + 1)
          /\ pc[t] = "flushing" =>
               \A k \in 1..n : Is(k, "Flush") /\ Stream[k].ack = t => Written(m, k)
          /\ pc[t] = "flushed" => OnDisk(m)
      BY <1>3, <2>1 DEF SafeInv, Positions, n
    <3>2. OnDisk(m)' \/ \E j \in 1..z : Put(j, m)'
      BY <1>1, <1>2, <3>1 DEF Written, Put, Is
    <3>3. ASSUME NEW k \in 1..z, Is(k, "Flush")', Stream'[k].ack = t PROVE Written(m, k)'
      <4>1. CASE k \in 1..n /\ Is(k, "Flush") /\ Stream'[k] = Stream[k]
        BY <1>1, <1>4, <1>9, <3>1, <3>3, <4>1
      <4>2. CASE k = n + 1
        BY <1>1, <1>9, <3>1, <4>2
      <4> QED BY <1>5, <3>3, <4>1, <4>2
    <3>4. pc'[t] = "flushed" => OnDisk(m)'
      BY <1>2, <3>1 DEF HandledWait
    <3> QED BY <3>2, <3>3, <3>4
  <2>2. CASE m \notin own[t]
    <3>1. pc[t] = "idle" /\ op.op = "PutInflight" /\ m \in inflight'
      BY <1>10, <2>2 DEF HandledPast
    <3>2. \E j \in 1..z : Put(j, m)'
      BY <1>1, <3>1 DEF Put, Is, HandledRows
    <3>3. pc'[t] = "idle"
      BY <3>1 DEF HandledWait
    <3> QED BY <1>1, <3>2, <3>3
  <2> QED BY <2>1, <2>2
<1>11. \A m \in Open' : m \in safe' => OnDisk(m)'
  BY <1>2, <1>3, Zenon DEF SafeInv, HandledRows
<1>12. ASSUME NEW k \in 1..z, Is(k, "Flush")' PROVE pc'[Stream'[k].ack] = "flushing"
  BY <1>4, <1>5, <1>12 DEF HandledWait
<1>13. ASSUME NEW j \in 1..z, NEW k \in 1..z, Is(j, "Flush")', Is(k, "Flush")',
              Stream'[j].ack = Stream'[k].ack
       PROVE  j = k
  <2>1. CASE j \in 1..n /\ k \in 1..n
    BY <1>1, <1>13, <2>1 DEF SafeInv, Positions, Is, n
  <2>2. CASE ~(j \in 1..n /\ k \in 1..n)
    BY <1>1, <1>4, <1>5, <1>13, <2>2 DEF HandledWait
  <2> QED BY <2>1, <2>2
<1> QED BY <1>7, <1>8, <1>10, <1>11, <1>12, <1>13 DEF SafeInv, Positions, Written, z

LEMMA HandledLetters ==
  ASSUME NEW op, NEW gone, Adds(op, gone), HandledRows(op), HandledPast(op, gone),
         StreamType, Numbered, LetterInv
  PROVE  LetterInv'
<1> DEFINE n == Len(Stream)
           z == Len(Stream')
<1>1. /\ n \in Nat /\ z \in Nat /\ z > n /\ n + 1 \in 1..z /\ Stream'[n + 1] = op
      /\ \A k \in 1..n : k \in 1..z /\ Stream'[k] = Stream[k]
      /\ \A k \in (n + 2)..z : Stream'[k].op = "AppendDeadLetter" /\ Stream'[k].msg \in gone
  BY AddsShape
<1>2. dead_letters' = dead_letters
  BY DEF HandledRows
<1>3. \A m : OnDisk(m)' <=> OnDisk(m)
  BY DEF OnDisk, HandledRows
<1> HIDE DEF n, z
<1>4. ASSUME NEW i \in 1..Len(dead_letters), NEW m, m = dead_letters[i]
      PROVE  m \notin inflight' /\ ~OnDisk(m)' /\ \A k \in 1..z : ~Put(k, m)' /\ ~Letter(k, m)'
  <2>1. m \in Message /\ m <= sent
    BY <1>4 DEF Numbered, StreamType
  <2>2. m \in 1..sent
    BY <2>1, MessageNumbers DEF StreamType
  <2>3. m \notin inflight /\ ~OnDisk(m) /\ \A k \in 1..n : ~Put(k, m) /\ ~Letter(k, m)
    BY <1>4 DEF LetterInv, Positions, n
  <2>4. m \notin inflight' /\ \A k \in (n + 1)..z : ~Put(k, m)' /\ ~Letter(k, m)'
    BY <2>2, <2>3, HandledGone DEF n, z
  <2>5. \A k \in 1..n : ~Put(k, m)' /\ ~Letter(k, m)'
    BY <2>2, <2>3, HandledGone DEF n
  <2> QED BY <1>1, <1>3, <2>3, <2>4, <2>5
<1>5. ASSUME NEW k \in 1..z, NEW m \in Message, Letter(k, m)'
      PROVE  /\ m \notin inflight'
             /\ ClearedBefore(k, m)'
             /\ \A j \in 1..z : Letter(j, m)' => j = k
  <2>1. CASE k \in 1..n
    <3>1. Letter(k, m) /\ m \in 1..sent
      <4>1. Letter(k, m)
        BY <1>1, <1>5, <2>1 DEF Letter, Is
      <4>2. m <= sent
        BY <2>1, <4>1 DEF Numbered, Positions, n
      <4> QED BY <4>1, <4>2, MessageNumbers DEF StreamType
    <3>2. m \notin inflight /\ ClearedBefore(k, m) /\ \A j \in 1..n : Letter(j, m) => j = k
      BY <2>1, <3>1 DEF LetterInv, Positions, n
    <3>3. /\ m \notin inflight'
          /\ \A j \in (n + 1)..z : ~Put(j, m)' /\ ~Letter(j, m)'
          /\ \A j \in 1..n : (Put(j, m)' => Put(j, m)) /\ (Letter(j, m)' => Letter(j, m))
      BY <3>1, <3>2, HandledGone DEF n, z
    <3>4. PICK h \in 0..(k - 1) : Clears(h, m) /\ \A j \in (h + 1)..n : ~Put(j, m)
      BY <3>2 DEF ClearedBefore, n
    <3>5. Clears(h, m)'
      BY <1>1, <1>3, <2>1, <3>4 DEF Clears, Put, Is
    <3>6. \A j \in (h + 1)..z : ~Put(j, m)'
      BY <1>1, <2>1, <3>3, <3>4
    <3>7. ClearedBefore(k, m)'
      BY <3>5, <3>6 DEF ClearedBefore, z
    <3> QED BY <1>1, <3>2, <3>3, <3>7
  <2>2. CASE k = n + 1
    BY <1>1, <1>5, <2>2 DEF Letter, Is, HandledRows
  <2>3. CASE k \in (n + 2)..z
    <3>1. m \in gone /\ m \in inflight /\ m \notin inflight' /\ op.op \in QueueOps
      BY <1>1, <1>5, <2>3 DEF Letter, Is, HandledPast
    <3>2. ~(Stream'[n + 1].op = "PutInflight" /\ m \in Stream'[n + 1].blob)
      BY <1>1, <3>1 DEF HandledRows
    <3>3. \A h \in 1..z : h = n + 1 => Clears(h, m)'
      BY <1>1, <3>1, <3>2 DEF Clears, Put, Is
    <3>4. \A j \in (n + 2)..z : ~Put(j, m)'
      BY <1>1 DEF Put, Is
    <3>5. ClearedBefore(k, m)'
      BY <1>1, <2>3, <3>3, <3>4 DEF ClearedBefore, z
    <3>6. ASSUME NEW j \in 1..z, Letter(j, m)' PROVE j = k
      <4>1. CASE j \in 1..n
        <5>1. Letter(j, m)
          BY <1>1, <3>6, <4>1 DEF Letter, Is
        <5> QED BY <3>1, <4>1, <5>1 DEF LetterInv, Positions, n
      <4>2. CASE j = n + 1
        BY <1>1, <3>6, <4>2 DEF Letter, Is, HandledRows
      <4>3. CASE j \in (n + 2)..z
        BY <1>5, <2>3, <3>6, <4>3 DEF Adds, Letter, n, z
      <4> QED BY <1>1, <4>1, <4>2, <4>3
    <3> QED BY <3>1, <3>5, <3>6
  <2> QED BY <1>1, <2>1, <2>2, <2>3
<1>6. \A i, j \in 1..Len(dead_letters') : dead_letters'[i] = dead_letters'[j] => i = j
  BY <1>2 DEF LetterInv
<1> QED BY <1>2, <1>4, <1>5, <1>6 DEF LetterInv, Positions, z

-------------------------------------------------------------------------------
LEMMA Scheduling ==
  ASSUME Scheduled, ~overlapped'
  PROVE  ~overlapped /\ \A t \in Tasks : todo[t] = <<>>
BY Zenon DEF Scheduled, Running

-------------------------------------------------------------------------------
(***************************************************************************)
(* Steps that leave the stream as it is.                                   *)
(***************************************************************************)
LEMMA SameRows ==
  ASSUME Stream' = Stream,
         UNCHANGED <<alive, inflight, disk, buried, faults, sent, acked, given_up>>
  PROVE  /\ (CatchUpInv => CatchUpInv') /\ (BuriedInv => BuriedInv') /\ (LetterInv => LetterInv')
         /\ \A m, k : (Stays(m, k)' <=> Stays(m, k)) /\ (Put(k, m)' <=> Put(k, m))
         /\ \A m : OnDisk(m)' <=> OnDisk(m)
         /\ Open' = Open /\ Positions' = Positions
<1>1. CatchUpInv => CatchUpInv'
  <2>1. SessionFollows => SessionFollows'
    BY DEF SessionFollows, Last, None, Is, Positions, disk, faults
  <2>2. QueueFollows => QueueFollows'
    BY DEF QueueFollows, Last, None, Is, Positions, disk, faults
  <2>3. NoOrphan => NoOrphan'
    BY DEF NoOrphan, Covered, Is, Positions, disk
  <2> QED BY <2>1, <2>2, <2>3 DEF CatchUpInv, faults
<1>2. BuriedInv => BuriedInv'
  BY DEF BuriedInv, OnDisk, Put, Is, Positions, disk
<1>3. LetterInv => LetterInv'
  <2>1. /\ \A k, m : (Put(k, m)' <=> Put(k, m)) /\ (Letter(k, m)' <=> Letter(k, m))
        /\ \A m : OnDisk(m)' <=> OnDisk(m)
    BY DEF OnDisk, Put, Letter, Is, disk
  <2>2. \A k, m : Clears(k, m)' <=> Clears(k, m)
    BY <2>1 DEF Clears
  <2>3. \A k, m : ClearedBefore(k, m)' <=> ClearedBefore(k, m)
    BY <2>1, <2>2 DEF ClearedBefore
  <2> QED BY <2>1, <2>3 DEF LetterInv, Positions, disk
<1>4. /\ \A m, k : (Stays(m, k)' <=> Stays(m, k)) /\ (Put(k, m)' <=> Put(k, m))
      /\ \A m : OnDisk(m)' <=> OnDisk(m)
      /\ Open' = Open /\ Positions' = Positions
  BY DEF Stays, Put, OnDisk, Open, Is, Positions, disk
<1> QED BY <1>1, <1>2, <1>3, <1>4

LEMMA StoreWriteNext ==
  ASSUME StoreInv, StreamType', NEW t \in Tasks, write_next(t)
  PROVE  StoreInv'
<1>1. UNCHANGED <<overlapped, alive, inflight, pc, disk, past, given_up, buried, faults>>
  BY DEF write_next
<1>2. CASE overlapped
  BY <1>1, <1>2 DEF StoreInv
<1>3. CASE ~overlapped
  <2>1. StreamType /\ Alone(todo)
    BY <1>3 DEF StoreInv, Single
  <2>2. /\ todo[t] # <<>> /\ pq' = pq \o <<Head(todo[t])>>
        /\ todo' = [todo EXCEPT ![t] = Tail(todo[t])]
    BY DEF write_next, enqueue
  <2>3. Alone(todo') /\ StreamOf(pq', todo') = StreamOf(pq, todo)
    <3>1. pq \in Seq(Op) /\ todo \in [Tasks -> Seq(Op)]
      BY <2>1 DEF StreamType
    <3>2. /\ Alone([todo EXCEPT ![t] = Tail(todo[t])])
          /\ StreamOf(pq \o <<Head(todo[t])>>, [todo EXCEPT ![t] = Tail(todo[t])])
               = StreamOf(pq, todo)
      BY <2>1, <2>2, <3>1, StreamMoves, Zenon
    <3> QED BY <2>2, <3>2, Zenon
  <2>4. Single' /\ Stream' = Stream
    BY <2>3 DEF Single, Stream
  <2>5. CatchUpInv' /\ BuriedInv' /\ (LetterInv => LetterInv')
    BY <1>1, <1>3, <2>4, SameRows DEF StoreInv, past
  <2>6. Numbered'
    <3>1. Numbered
      BY <1>3 DEF StoreInv
    <3> QED BY <1>1, <2>4, <3>1 DEF Numbered, OnDisk, Put, Letter, Is, Positions, disk, past
  <2>7. SafeInv => SafeInv'
    BY <1>1, <2>4 DEF SafeInv, Stays, Written, Open, OnDisk, Put, Is, Positions, disk, past
  <2>8. failures' = failures
    BY <1>1 DEF faults
  <2> QED BY <1>3, <2>4, <2>5, <2>6, <2>7, <2>8 DEF StoreInv
<1> QED BY <1>2, <1>3

LEMMA StorePing ==
  ASSUME StoreInv, StreamType', NEW t \in Tasks, PingResponse(t)
  PROVE  StoreInv'
<1>1. UNCHANGED <<alive, inflight, todo, pq, disk, sent, acked, given_up, buried, faults>>
  BY DEF PingResponse
<1>2. CASE overlapped'
  BY <1>2 DEF StoreInv
<1>3. CASE ~overlapped'
  <2>1. ~overlapped
    BY <1>3, Scheduling DEF PingResponse
  <2>2. Single' /\ Stream' = Stream
    BY <1>1, <2>1 DEF StoreInv, Single, Stream
  <2>3. CatchUpInv' /\ BuriedInv' /\ (LetterInv => LetterInv')
    BY <1>1, <2>1, <2>2, SameRows DEF StoreInv
  <2>4. /\ pc[t] = "flushed" /\ safe' = safe \cup own[t]
        /\ \A u \in Tasks : u # t => pc'[u] = pc[u] /\ own'[u] = own[u]
        /\ pc'[t] = "idle" /\ own'[t] = {}
    BY DEF PingResponse, StoreInv, StreamType
  <2>5. Numbered'
    <3>1. Numbered
      BY <2>1 DEF StoreInv
    <3>2. \A u \in Tasks : own'[u] \subseteq 1..sent
      BY <2>4, <3>1 DEF Numbered
    <3> QED BY <1>1, <2>2, <3>1, <3>2, Zenon DEF Numbered, OnDisk, Put, Letter, Is, Positions, disk
  <2>6. ASSUME SafeInv PROVE SafeInv'
    <3>1. /\ \A m, k : (Stays(m, k)' <=> Stays(m, k)) /\ (Put(k, m)' <=> Put(k, m))
          /\ \A m : OnDisk(m)' <=> OnDisk(m)
          /\ Open' = Open /\ Positions' = Positions
      BY <1>1, <2>2, SameRows
    <3>2. \A m \in Open : /\ OnDisk(m) => Stays(m, 0)
                          /\ \A k \in Positions : Put(k, m) => Stays(m, k)
      BY <2>6 DEF SafeInv
    <3>3. \A u \in Tasks, m \in Open : m \in own'[u] =>
            /\ Written(m, Len(Stream) + 1)
            /\ pc'[u] = "flushing" =>
                 \A k \in Positions : Is(k, "Flush") /\ Stream[k].ack = u => Written(m, k)
            /\ pc'[u] = "flushed" => OnDisk(m)
      BY <2>4, <2>6 DEF SafeInv
    <3>4. \A m \in Open : m \in safe' => OnDisk(m)
      BY <2>4, <2>6 DEF SafeInv
    <3>5. \A k \in Positions : Is(k, "Flush") => Stream[k].ack \in Tasks
      <4>1. Stream \in Seq(Op)
        BY <2>1, StreamShape DEF Stream, StoreInv, StreamType, Single
      <4> QED BY <4>1, OpFields DEF Is, Positions
    <3>6. \A k \in Positions : Is(k, "Flush") => pc'[Stream[k].ack] = "flushing"
      BY <2>4, <2>6, <3>5 DEF SafeInv
    <3>7. \A j, k \in Positions : Is(j, "Flush") /\ Is(k, "Flush") /\ Stream[j].ack = Stream[k].ack
                                    => j = k
      BY <2>6 DEF SafeInv
    <3> QED BY <2>2, <3>1, <3>2, <3>3, <3>4, <3>6, <3>7 DEF SafeInv, Written, Is
  <2>7. failures' = failures
    BY <1>1 DEF faults
  <2> QED BY <2>1, <2>2, <2>3, <2>5, <2>6, <2>7 DEF StoreInv
<1> QED BY <1>2, <1>3

-------------------------------------------------------------------------------
(***************************************************************************)
(* A clean start: the session is removed, and written anew.                *)
(***************************************************************************)
Flags == alive \in BOOLEAN /\ disk_session \in BOOLEAN

Cleaned ==
  LET n == Len(Stream)
  IN /\ n \in Nat /\ Len(Stream') = n + 2
     /\ \A k \in 1..n : Stream'[k] = Stream[k]
     /\ Stream'[n + 1] = RemoveSession(inflight) /\ Stream'[n + 2] = PutSession
     /\ alive' = TRUE /\ inflight' = {}
     /\ given_up' = given_up \cup inflight
     /\ UNCHANGED <<pc, disk, past, buried, faults>>

LEMMA CleanedByConnect ==
  ASSUME StreamType, Flags, ConnectClean, ~overlapped'
  PROVE  ~overlapped /\ Single' /\ Stream \in Seq(Op) /\ Cleaned
<1> DEFINE o == <<RemoveSession(inflight), PutSession>>
<1>1. ~overlapped /\ \A u \in Tasks : todo[u] = <<>>
  BY Scheduling DEF ConnectClean
<1>2. Alone(todo) /\ todo \in [Tasks -> Seq(Op)] /\ pq \in Seq(Op) /\ inflight \in SUBSET Message
  BY <1>1 DEF Alone, StreamType
<1>3. o \in Seq(Op) /\ Len(o) = 2 /\ o[1] = RemoveSession(inflight) /\ o[2] = PutSession
  <2>1. RemoveSession(inflight) \in Op /\ PutSession \in Op
    BY <1>2, OpTypes
  <2> QED BY <2>1
<1>4. pq' = pq \o o /\ todo' = todo
  BY DEF ConnectClean, enqueue
<1> HIDE DEF o
<1>5. /\ pq \o o \in Seq(Op) /\ Len(pq) \in Nat /\ Len(pq \o o) = Len(pq) + Len(o)
      /\ \A k \in 1..Len(pq) : (pq \o o)[k] = pq[k]
      /\ \A k \in 1..Len(o) : (pq \o o)[Len(pq) + k] = o[k]
  BY <1>2, <1>3, Concat, Zenon
<1>6. StreamOf(pq, todo) = pq /\ StreamOf(pq \o o, todo) = pq \o o
  BY <1>1, <1>2, <1>5, StreamShape, Zenon
<1>7. Stream = pq /\ Stream' = pq \o o
  BY <1>4, <1>6 DEF Stream
<1>8. 1 \in 1..Len(o) /\ 2 \in 1..Len(o)
  BY <1>3
<1>9. /\ Len(Stream) \in Nat /\ Len(Stream') = Len(Stream) + 2
      /\ \A k \in 1..Len(Stream) : Stream'[k] = Stream[k]
      /\ Stream'[Len(Stream) + 1] = RemoveSession(inflight) /\ Stream'[Len(Stream) + 2] = PutSession
  BY <1>3, <1>5, <1>7, <1>8
<1>10. alive' = TRUE
  BY DEF ConnectClean, Flags
<1>11. Cleaned
  BY <1>9, <1>10 DEF Cleaned, ConnectClean
<1> QED BY <1>1, <1>2, <1>4, <1>7, <1>11 DEF Single

\* The two new places.
LEMMA CleanedPlaces ==
  ASSUME Cleaned
  PROVE  LET n == Len(Stream)
         IN /\ n \in Nat /\ Len(Stream') = n + 2
            /\ \A k \in 1..n : Stream'[k] = Stream[k]
            /\ Stream'[n + 1].op = "RemoveSession" /\ Stream'[n + 1].gone = inflight
            /\ Stream'[n + 2].op = "PutSession"
BY DEF Cleaned, RemoveSession, PutSession

LEMMA CleanedFollows ==
  ASSUME Cleaned
  PROVE  SessionFollows' /\ QueueFollows' /\ (NoOrphan => NoOrphan')
<1> DEFINE n == Len(Stream)
<1>1. /\ n \in Nat /\ Len(Stream') = n + 2
      /\ \A k \in 1..n : Stream'[k] = Stream[k]
      /\ Stream'[n + 1].op = "RemoveSession" /\ Stream'[n + 2].op = "PutSession"
  BY CleanedPlaces
<1>2. alive' = TRUE /\ inflight' = {} /\ disk_session' = disk_session /\ disk_inflight' = disk_inflight
  BY DEF Cleaned, disk
<1> HIDE DEF n
<1>3. SessionFollows'
  <2>1. ASSUME NEW k \in 1..(n + 2), Last(k, SessionOps)' PROVE Stream'[k].op = "PutSession"
    BY <1>1, <2>1 DEF Last, SessionOps
  <2>2. ~None(SessionOps)'
    BY <1>1 DEF None, SessionOps, Positions
  <2>3. \A k \in 1..(n + 2) : Last(k, SessionOps)' => alive' = (Stream'[k].op = "PutSession")
    BY <1>2, <2>1, Zenon
  <2> QED BY <1>1, <2>2, <2>3 DEF SessionFollows, Positions, Is
<1>4. QueueFollows'
  <2>1. ASSUME NEW k \in 1..(n + 2), Last(k, QueueOps)' PROVE Stream'[k].op # "PutInflight"
    <3>1. CASE k \in 1..n
      BY <1>1, <2>1, <3>1 DEF Last, QueueOps
    <3>2. CASE k \notin 1..n
      BY <1>1, <3>2
    <3> QED BY <3>1, <3>2
  <2>2. ~None(QueueOps)'
    BY <1>1 DEF None, QueueOps, Positions
  <2> QED BY <1>1, <1>2, <2>1, <2>2 DEF QueueFollows, Positions, Is
<1>5. ASSUME NoOrphan PROVE NoOrphan'
  <2>1. ASSUME NEW k \in 1..(n + 2), Is(k, "PutInflight")' PROVE Covered(k)'
    <3>1. k \in 1..n /\ Is(k, "PutInflight")
      BY <1>1, <2>1 DEF Is
    <3>2. Covered(k)
      BY <1>5, <3>1 DEF NoOrphan, Positions, n
    <3> QED BY <1>1, <1>2, <3>1, <3>2 DEF Covered, Is
  <2>2. Covered(Len(Stream) + 1)'
    <3>1. \A i \in 1..(n + 2) : Is(i, "RemoveSession")' => i < n + 2
      BY <1>1 DEF Is
    <3>2. n + 2 \in 1..(n + 2) /\ \A h \in 1..(n + 2) : h = n + 2 => Is(h, "PutSession")'
      BY <1>1 DEF Is
    <3> QED BY <1>1, <3>1, <3>2 DEF Covered
  <2>3. ~disk_session' => disk_inflight' = NoRow
    BY <1>2, <1>5 DEF NoOrphan
  <2> QED BY <1>1, <2>1, <2>2, <2>3 DEF NoOrphan, Positions
<1> QED BY <1>3, <1>4, <1>5

\* No new place is a write of the queue or a dead letter.
LEMMA CleanedWrites ==
  ASSUME Cleaned
  PROVE  /\ \A m : OnDisk(m)' <=> OnDisk(m)
         /\ \A k \in 1..Len(Stream') : \A m :
              /\ Put(k, m)' => k \in 1..Len(Stream) /\ Put(k, m)
              /\ Letter(k, m)' => k \in 1..Len(Stream) /\ Letter(k, m)
         /\ \A k \in 1..Len(Stream') :
              Is(k, "Flush")' => k \in 1..Len(Stream) /\ Is(k, "Flush") /\ Stream'[k] = Stream[k]
<1>1. \A m : OnDisk(m)' <=> OnDisk(m)
  BY DEF Cleaned, OnDisk, disk
<1>2. ASSUME NEW k \in 1..Len(Stream')
      PROVE  \/ k \in 1..Len(Stream) /\ Stream'[k] = Stream[k]
             \/ Stream'[k].op \in {"RemoveSession", "PutSession"}
  BY CleanedPlaces
<1> QED BY <1>1, <1>2 DEF Put, Letter, Is

LEMMA CleanedBuried ==
  ASSUME Cleaned, StreamType, Numbered, BuriedInv
  PROVE  Numbered' /\ BuriedInv'
<1> DEFINE n == Len(Stream)
<1>1. /\ n \in Nat /\ Len(Stream') = n + 2
      /\ \A k \in 1..n : Stream'[k] = Stream[k]
      /\ Stream'[n + 1].op = "RemoveSession" /\ Stream'[n + 1].gone = inflight
      /\ Stream'[n + 2].op = "PutSession"
  BY CleanedPlaces
<1>2. /\ inflight' = {} /\ given_up' = given_up \cup inflight
      /\ UNCHANGED <<dead_letters, sent, own, acked, buried>>
  BY DEF Cleaned, disk, past
<1>3. ASSUME NEW k \in 1..(n + 2), Is(k, "RemoveSession")'
      PROVE  \/ k \in 1..n /\ Is(k, "RemoveSession") /\ Stream'[k].gone = Stream[k].gone
             \/ k = n + 1 /\ Stream'[k].gone = inflight
  BY <1>1, <1>3 DEF Is
<1>4. Numbered'
  <2>1. \A k \in 1..(n + 2) : Is(k, "RemoveSession")' => Stream'[k].gone \subseteq 1..sent
    BY <1>3 DEF Numbered, Positions
  <2>2. \A k \in 1..(n + 2), m \in Message : Put(k, m)' \/ Letter(k, m)' => m <= sent
    BY <1>1, CleanedWrites DEF Numbered, Positions
  <2>3. \A m \in Message : OnDisk(m)' => m <= sent
    BY CleanedWrites DEF Numbered
  <2>4. /\ (inflight \cup buried \cup acked \cup given_up)' \subseteq 1..sent
        /\ \A t \in Tasks : own'[t] \subseteq 1..sent
        /\ \A i \in 1..Len(dead_letters') : dead_letters'[i] <= sent
    BY <1>2 DEF Numbered
  <2> QED BY <1>1, <1>2, <2>1, <2>2, <2>3, <2>4 DEF Numbered, Positions
<1>5. ASSUME NEW m \in buried'
      PROVE  m \notin inflight' /\ ~OnDisk(m)' /\ \A k \in 1..(n + 2) : ~Put(k, m)'
  BY <1>1, <1>2, <1>5, CleanedWrites DEF BuriedInv, Positions
<1>6. ASSUME NEW i \in 1..(n + 2), Is(i, "RemoveSession")', NEW m \in Stream'[i].gone
      PROVE  m \notin inflight' /\ \A k \in (i + 1)..(n + 2) : ~Put(k, m)'
  <2>1. ASSUME NEW k \in (i + 1)..(n + 2), Put(k, m)' PROVE FALSE
    <3>1. k \in 1..n /\ Put(k, m) /\ k > i
      BY <1>1, <2>1, CleanedWrites
    <3>2. i # n + 1 /\ k \in (i + 1)..n
      BY <3>1
    <3>3. i \in 1..n /\ Is(i, "RemoveSession") /\ m \in Stream[i].gone
      BY <1>3, <1>6, <3>2, Zenon
    <3>4. \A j \in (i + 1)..n : ~Put(j, m)
      BY <3>3 DEF BuriedInv, Positions
    <3> QED BY <3>1, <3>2, <3>4, Zenon
  <2> QED BY <1>2, <2>1
<1>7. BuriedInv'
  BY <1>1, <1>5, <1>6, Zenon DEF BuriedInv, Positions
<1> QED BY <1>4, <1>7

LEMMA CleanedSafe ==
  ASSUME Cleaned, SafeInv
  PROVE  SafeInv'
<1>1. /\ inflight' = {} /\ given_up' = given_up \cup inflight
      /\ UNCHANGED <<pc, own, safe, acked>>
  BY DEF Cleaned, past
<1>2. Len(Stream) \in Nat
  BY DEF Cleaned
<1>3. ASSUME NEW m \in Open' PROVE m \in Open /\ ~OnDisk(m) /\ \A k \in Positions : ~Put(k, m)
  BY <1>1, <1>3 DEF Open, SafeInv, Stays
<1>4. ASSUME NEW m \in Open' PROVE ~OnDisk(m)' /\ \A k \in 1..Len(Stream') : ~Put(k, m)'
  BY <1>3, CleanedWrites, Zenon DEF Positions
<1>5. ASSUME NEW m \in Open', NEW t \in Tasks PROVE m \notin own'[t]
  <2>1. ~Written(m, Len(Stream) + 1)
    BY <1>2, <1>3 DEF Written, Positions
  <2> QED BY <1>1, <1>3, <2>1, Zenon DEF SafeInv
<1>6. ASSUME NEW m \in Open' PROVE m \notin safe'
  BY <1>1, <1>3 DEF SafeInv
<1>7. \A k \in 1..Len(Stream') : Is(k, "Flush")' => pc'[Stream'[k].ack] = "flushing"
  BY <1>1, CleanedWrites DEF SafeInv, Positions
<1>8. \A j, k \in 1..Len(Stream') :
        Is(j, "Flush")' /\ Is(k, "Flush")' /\ Stream'[j].ack = Stream'[k].ack => j = k
  BY CleanedWrites DEF SafeInv, Positions
<1> QED BY <1>4, <1>5, <1>6, <1>7, <1>8, Zenon DEF SafeInv, Positions

LEMMA CleanedLetters ==
  ASSUME Cleaned, LetterInv
  PROVE  LetterInv'
<1> DEFINE n == Len(Stream)
<1>1. /\ n \in Nat /\ Len(Stream') = n + 2
      /\ \A k \in 1..n : Stream'[k] = Stream[k]
  BY CleanedPlaces
<1>2. inflight' = {} /\ dead_letters' = dead_letters
  BY DEF Cleaned, disk
<1>3. \A i, j \in 1..Len(dead_letters') : dead_letters'[i] = dead_letters'[j] => i = j
  BY <1>2 DEF LetterInv
<1>4. ASSUME NEW i \in 1..Len(dead_letters), NEW m, m = dead_letters[i]
      PROVE  m \notin inflight' /\ ~OnDisk(m)' /\ \A k \in 1..(n + 2) : ~Put(k, m)' /\ ~Letter(k, m)'
  <2>1. ~OnDisk(m) /\ \A k \in 1..n : ~Put(k, m) /\ ~Letter(k, m)
    BY <1>4 DEF LetterInv, Positions
  <2> QED BY <1>1, <1>2, <2>1, CleanedWrites, Zenon
<1>5. ASSUME NEW k \in 1..(n + 2), NEW m \in Message, Letter(k, m)'
      PROVE  /\ m \notin inflight' /\ ClearedBefore(k, m)'
             /\ \A j \in 1..(n + 2) : Letter(j, m)' => j = k
  <2>1. k \in 1..n /\ Letter(k, m)
    BY <1>1, <1>5, CleanedWrites
  <2>2. PICK h \in 0..(k - 1) : Clears(h, m) /\ \A j \in (h + 1)..n : ~Put(j, m)
    BY <2>1 DEF LetterInv, Positions, ClearedBefore
  <2>3. Clears(h, m)'
    <3>1. (~OnDisk(m))' <=> ~OnDisk(m)
      BY CleanedWrites, Zenon
    <3>2. h = 0 \/ (h \in 1..n /\ Stream'[h] = Stream[h])
      BY <1>1, <2>1, <2>2
    <3> QED BY <2>2, <3>1, <3>2 DEF Clears, Put, Is
  <2>4. ASSUME NEW j \in (h + 1)..(n + 2), Put(j, m)' PROVE FALSE
    <3>1. j \in 1..Len(Stream')
      BY <1>1, <2>2
    <3>2. j \in 1..n /\ Put(j, m)
      BY <2>4, <3>1, CleanedWrites, Zenon
    <3>3. j \in (h + 1)..n
      BY <2>2, <3>2
    <3> QED BY <2>2, <3>2, <3>3, Zenon
  <2>5. ClearedBefore(k, m)'
    BY <1>1, <2>3, <2>4 DEF ClearedBefore
  <2>6. \A j \in 1..(n + 2) : Letter(j, m)' => j = k
    BY <1>1, <2>1, CleanedWrites DEF LetterInv, Positions
  <2> QED BY <1>2, <2>5, <2>6
<1> QED BY <1>1, <1>2, <1>3, <1>4, <1>5, Zenon DEF LetterInv, Positions

LEMMA StoreConnectClean ==
  ASSUME StoreInv, Flags, StreamType', ConnectClean
  PROVE  StoreInv'
<1>1. CASE overlapped'
  BY <1>1 DEF StoreInv
<1>2. CASE ~overlapped'
  <2>1. ~overlapped /\ Single' /\ Cleaned
    BY <1>2, CleanedByConnect DEF StoreInv
  <2>2. /\ StreamType /\ CatchUpInv /\ Numbered /\ BuriedInv
        /\ failures = 0 => SafeInv /\ LetterInv
    BY <2>1 DEF StoreInv
  <2>3. failures' = failures /\ behind' = behind /\ alive' = TRUE
    BY <2>1 DEF Cleaned, faults
  <2>4. CatchUpInv'
    BY <2>1, <2>2, <2>3, CleanedFollows DEF CatchUpInv
  <2>5. Numbered' /\ BuriedInv'
    BY <2>1, <2>2, CleanedBuried
  <2>6. failures' = 0 => SafeInv' /\ LetterInv'
    BY <2>1, <2>2, <2>3, CleanedSafe, CleanedLetters
  <2> QED BY <2>1, <2>4, <2>5, <2>6 DEF StoreInv
<1> QED BY <1>1, <1>2
===============================================================================
