-------------------------- MODULE InflightStoreProofs --------------------------
(***************************************************************************)
(* The in-flight queue on disk, for any number of tasks, messages, crashes *)
(* and failed writes: what a restart finds, as long as no two tasks have   *)
(* run at once.                                                            *)
(***************************************************************************)
EXTENDS InflightWorkerProofs, FiniteSetTheorems, WellFoundedInduction

(***************************************************************************)
(* The dead letters of a set of messages: one for each, in order.          *)
(***************************************************************************)
Increasing(S) ==
  {q \in [1..Cardinality(S) -> S] : \A i, j \in DOMAIN q : i < j => q[i] < q[j]}

\* A set of natural numbers has a least element.
LEMMA Least ==
  ASSUME NEW S \in SUBSET Nat, S # {}
  PROVE  \E n \in S : \A m \in S : n <= m
<1>1. IsWellFoundedOn(OpToRel(<, Nat), Nat)
  BY NatLessThanWellFounded, Zenon
<1>2. PICK n \in S : \A m \in S : ~(<<m, n>> \in OpToRel(<, Nat))
  <2> DEFINE R == OpToRel(<, Nat)
  <2>1. IsWellFoundedOn(R, Nat)
    BY <1>1, Zenon
  <2> HIDE DEF R
  <2>2. \E n \in S : \A m \in S : ~(<<m, n>> \in R)
    BY <2>1, WFMin, Zenon
  <2> QED BY <2>2, Zenon DEF R
<1>3. \A m \in S : ~(m < n)
  BY <1>2, Zenon DEF OpToRel
<1> QED BY <1>3

\* Induction on the largest number of the set, by way of a smallest counterexample.
LEMMA Enumeration ==
  ASSUME NEW N \in Nat, NEW S \in SUBSET (1..N)
  PROVE  Increasing(S) # {}
<1> DEFINE Bad == {n \in Nat : \E T \in SUBSET (1..n) : Increasing(T) = {}}
<1> SUFFICES ASSUME Increasing(S) = {} PROVE FALSE
  OBVIOUS
<1>1. Bad # {} /\ Bad \subseteq Nat
  OBVIOUS
<1>2. PICK n \in Bad : \A m \in Bad : n <= m
  BY <1>1, Least, Zenon
<1>3. PICK T \in SUBSET (1..n) : Increasing(T) = {}
  BY <1>2
<1>4. n \in Nat /\ IsFiniteSet(T)
  <2>1. n \in Nat /\ n \in Int /\ 1 \in Int
    BY <1>1, <1>2
  <2> HIDE DEF Bad
  <2>2. IsFiniteSet(1..n)
    BY <2>1, FS_Interval
  <2> QED BY <1>3, <2>1, <2>2, FS_Subset, Zenon
<1>5. CASE n = 0
  <2>1. T = {}
    BY <1>3, <1>5
  <2>2. Cardinality(T) = 0
    BY <2>1, FS_EmptySet
  <2>3. [i \in 1..0 |-> i] \in Increasing(T)
    BY <2>1, <2>2 DEF Increasing
  <2> QED BY <1>3, <2>3
<1>6. CASE n # 0
  <2> DEFINE U == T \ {n}
  <2>1. U \in SUBSET (1..(n - 1)) /\ n - 1 \in Nat /\ n - 1 \notin Bad
    BY <1>2, <1>3, <1>4, <1>6
  <2>2. PICK q \in Increasing(U) : TRUE
    BY <2>1
  <2>3. CASE n \notin T
    BY <1>3, <2>2, <2>3
  <2>4. CASE n \in T
    <3> DEFINE c == Cardinality(U)
               r == [i \in 1..(c + 1) |-> IF i = c + 1 THEN n ELSE q[i]]
    <3>1. Cardinality(T) = c + 1 /\ c \in Nat
      BY <1>4, <2>4, FS_RemoveElement, FS_CardinalityType, FS_Subset
    <3>2. q \in [1..c -> U] /\ \A i, j \in 1..c : i < j => q[i] < q[j]
      BY <2>2, Zenon DEF Increasing
    <3>3. \A i \in 1..c : q[i] \in T /\ q[i] \in 1..(n - 1)
      BY <2>1, <3>2, Zenon
    <3> HIDE DEF c, U
    <3>4. r \in [1..(c + 1) -> T]
      <4>1. \A i \in 1..(c + 1) : r[i] \in T
        BY <2>4, <3>1, <3>3
      <4> QED BY <4>1
    <3>5. ASSUME NEW i \in 1..(c + 1), NEW j \in 1..(c + 1), i < j PROVE r[i] < r[j]
      BY <1>4, <3>1, <3>2, <3>3, <3>5
    <3>6. r \in Increasing(T)
      BY <3>1, <3>4, <3>5 DEF Increasing
    <3> QED BY <1>3, <3>6
  <2> QED BY <2>3, <2>4
<1> QED BY <1>5, <1>6

LEMMA LettersFacts ==
  ASSUME NEW gone \in SUBSET Message
  PROVE  /\ Letters(gone) \in Seq(Op)
         /\ \A k \in 1..Len(Letters(gone)) : /\ Letters(gone)[k].op = "AppendDeadLetter"
                                             /\ Letters(gone)[k].msg \in gone
         /\ \A j, k \in 1..Len(Letters(gone)) :
              Letters(gone)[j].msg = Letters(gone)[k].msg => j = k
<1> DEFINE ms == CHOOSE q \in [1..Cardinality(gone) -> gone] :
                   \A i, j \in DOMAIN q : i < j => q[i] < q[j]
           n == Cardinality(gone)
<1>1. Increasing(gone) # {}
  BY Enumeration, StoreAssumption DEF Message
<1>2. ms \in [1..n -> gone] /\ \A i, j \in 1..n : i < j => ms[i] < ms[j]
  BY <1>1, Zenon DEF Increasing
<1>3. n \in Nat
  <2>1. IsFiniteSet(1..MaxMessages)
    BY StoreAssumption, FS_Interval
  <2>2. IsFiniteSet(gone)
    BY <2>1, FS_Subset, Zenon DEF Message
  <2> QED BY <2>2, FS_CardinalityType
<1> HIDE DEF ms
<1>4. Letters(gone) = [i \in 1..n |-> AppendDeadLetter(ms[i])]
  BY <1>2 DEF Letters, ms
<1>5. \A m \in gone : AppendDeadLetter(m) \in Op
  BY DEF AppendDeadLetter, Op
<1>6. Letters(gone) \in Seq(Op) /\ Len(Letters(gone)) = n
  BY <1>2, <1>3, <1>4, <1>5
<1>7. \A k \in 1..n : Letters(gone)[k].op = "AppendDeadLetter" /\ Letters(gone)[k].msg = ms[k]
  BY <1>4 DEF AppendDeadLetter
<1>8. \A j, k \in 1..n : ms[j] = ms[k] => j = k
  <2> HIDE DEF n
  <2>1. \A j \in 1..n : ms[j] \in Nat
    BY <1>2, MessageNumbers, Zenon
  <2> QED BY <1>2, <1>3, <2>1
<1> QED BY <1>2, <1>6, <1>7, <1>8

LEMMA NoLetters == Letters({}) = <<>>
<1>1. Letters({}) \in Seq(Op) /\ ~(1 \in 1..Len(Letters({})))
  BY LettersFacts
<1> QED BY <1>1, EmptySeq

LEMMA AddsLetters ==
  ASSUME NEW op \in Op, NEW gone \in SUBSET Message, Stream \in Seq(Op),
         Stream' = (Stream \o <<op>>) \o Letters(gone)
  PROVE  Adds(op, gone)
<1> DEFINE l == Letters(gone)
           s == Stream \o <<op>>
           n == Len(Stream)
<1>1. /\ l \in Seq(Op) /\ Len(l) \in Nat
      /\ \A k \in 1..Len(l) : l[k].op = "AppendDeadLetter" /\ l[k].msg \in gone
      /\ \A j, k \in 1..Len(l) : l[j].msg = l[k].msg => j = k
  BY LettersFacts
<1>2. s \in Seq(Op) /\ n \in Nat /\ Len(s) = n + 1 /\ s[n + 1] = op /\ \A k \in 1..n : s[k] = Stream[k]
  <2> DEFINE o == <<op>>
  <2>1. o \in Seq(Op) /\ Len(o) = 1 /\ o[1] = op
    OBVIOUS
  <2> HIDE DEF o
  <2>2. /\ Stream \o o \in Seq(Op) /\ n \in Nat /\ Len(Stream \o o) = n + Len(o)
        /\ \A k \in 1..n : (Stream \o o)[k] = Stream[k]
        /\ \A k \in 1..Len(o) : (Stream \o o)[n + k] = o[k]
    BY <2>1, Concat, Zenon
  <2>3. Len(Stream \o o) = n + 1 /\ (Stream \o o)[n + 1] = o[1]
    BY <2>1, <2>2
  <2> QED BY <2>1, <2>2, <2>3 DEF o
<1> HIDE DEF l, s, n
<1>3. /\ Len(s \o l) = n + 1 + Len(l)
      /\ \A k \in 1..(n + 1) : (s \o l)[k] = s[k]
      /\ \A k \in 1..Len(l) : (s \o l)[n + 1 + k] = l[k]
  <2>1. /\ Len(s \o l) = Len(s) + Len(l)
        /\ \A k \in 1..Len(s) : (s \o l)[k] = s[k]
        /\ \A k \in 1..Len(l) : (s \o l)[Len(s) + k] = l[k]
    <3>1. l \in Seq(Op) /\ s \in Seq(Op)
      BY <1>1, <1>2
    <3> QED BY <3>1, Concat
  <2>2. Len(s) = n + 1
    BY <1>2
  <2> QED BY <2>1, <2>2
<1>4. Stream' = s \o l
  BY DEF s, l
<1>5. Len(Stream') = n + 1 + Len(l) /\ \A k \in 1..(n + 1) : Stream'[k] = s[k]
  BY <1>3, <1>4, Zenon
<1>6. \A k \in (n + 2)..Len(Stream') : k - (n + 1) \in 1..Len(l) /\ Stream'[k] = l[k - (n + 1)]
  <2> TAKE k \in (n + 2)..Len(Stream')
  <2> DEFINE h == k - (n + 1)
  <2>1. h \in 1..Len(l) /\ n + 1 + h = k
    BY <1>1, <1>2, <1>5
  <2>2. (s \o l)[n + 1 + h] = l[h]
    BY <1>3, <2>1, Zenon
  <2> QED BY <1>4, <2>1, <2>2, Zenon
<1>7. \A j, k \in (n + 2)..Len(Stream') : Stream'[j].msg = Stream'[k].msg => j = k
  <2> TAKE j, k \in (n + 2)..Len(Stream')
  <2>1. /\ j - (n + 1) \in 1..Len(l) /\ Stream'[j] = l[j - (n + 1)]
        /\ k - (n + 1) \in 1..Len(l) /\ Stream'[k] = l[k - (n + 1)]
    BY <1>6, Zenon
  <2>2. Stream'[j].msg = Stream'[k].msg => j - (n + 1) = k - (n + 1)
    BY <1>1, <2>1, Zenon
  <2> QED BY <1>2, <2>2
<1>8. \A k \in (n + 2)..Len(Stream') :
        Stream'[k].op = "AppendDeadLetter" /\ Stream'[k].msg \in gone
  BY <1>1, <1>6, Zenon
<1> QED BY <1>1, <1>2, <1>5, <1>7, <1>8 DEF Adds, n

-------------------------------------------------------------------------------

(***************************************************************************)
(* The types, whatever the tasks do.                                       *)
(***************************************************************************)
LEMMA WritesType ==
  ASSUME NEW queue \in SUBSET Message, NEW gone \in SUBSET Message
  PROVE  Writes(queue, gone) \in Seq(Op)
<1>1. <<PutInflight(queue)>> \in Seq(Op)
  BY OpTypes
<1>2. Letters(gone) \in Seq(Op)
  BY LettersFacts
<1> QED BY <1>1, <1>2, ConcatProperties DEF Writes, snapshot_inflight

\* The part of the types that a handler leaves to the queue and the histories.
LEMMA TypeLocked ==
  ASSUME StreamType, NEW t \in Tasks, NEW queue \in SUBSET Message, NEW gone \in SUBSET Message,
         Locked(t, queue, gone), sent' \in 0..MaxMessages, own' \in [Tasks -> SUBSET Message],
         safe' \subseteq Message
  PROVE  StreamType'
<1>1. todo' \in [Tasks -> Seq(Op)]
  BY WritesType, Zenon DEF StreamType, Locked
<1>2. /\ pc' \in [Tasks -> {"idle", "flushing", "flushed"}] /\ pq' \in Seq(Op)
      /\ dead_letters' \in Seq(Message) /\ failures' \in Nat /\ inflight' \subseteq Message
      /\ disk_inflight' # NoRow => disk_inflight' \subseteq Message
  BY DEF StreamType, Locked, disk, faults
<1> QED BY <1>1, <1>2 DEF StreamType

LEMMA TypeTask ==
  ASSUME StreamType, NEW t \in Tasks, TaskStep(t)
  PROVE  StreamType'
<1>1. /\ sent \in 0..MaxMessages /\ own \in [Tasks -> SUBSET Message] /\ inflight \in SUBSET Message
      /\ safe \subseteq Message /\ todo \in [Tasks -> Seq(Op)] /\ pq \in Seq(Op)
      /\ MaxMessages \in Nat
  BY MessageNumbers DEF StreamType
<1>2. CASE publish(t)
  <2>1. sent + 1 \in Message /\ sent' \in 0..MaxMessages
    BY <1>1, <1>2 DEF publish, Message
  <2>2. own' \in [Tasks -> SUBSET Message] /\ safe' \subseteq Message
    BY <1>1, <1>2, <2>1 DEF publish
  <2>3. Locked(t, inflight \cup {sent + 1}, {})
    BY <1>2 DEF publish
  <2> QED BY <1>1, <2>1, <2>2, <2>3, TypeLocked
<1>3. ASSUME NEW m \in 1..sent, on_ack(t, m) PROVE StreamType'
  <2>1. Locked(t, inflight \ {m}, {}) /\ sent' = sent /\ own' = own /\ safe' = safe
    BY <1>3 DEF on_ack
  <2> QED BY <1>1, <2>1, TypeLocked
<1>4. ASSUME NEW gone \in SUBSET inflight, run_retries(t, gone) PROVE StreamType'
  <2>1. Locked(t, inflight \ gone, gone) /\ sent' = sent /\ own' = own /\ safe' = safe
    BY <1>4 DEF run_retries, past
  <2> QED BY <1>1, <1>4, <2>1, TypeLocked
<1>5. ASSUME NEW gone \in SUBSET inflight, purge_if_idle(t, gone) PROVE StreamType'
  <2>1. <<RemoveSession(inflight)>> \in Seq(Op) /\ Letters(gone) \in Seq(Op)
    BY <1>1, OpTypes, LettersFacts
  <2>2. todo' \in [Tasks -> Seq(Op)]
    BY <1>1, <1>5, <2>1 DEF purge_if_idle
  <2>3. pq' \in Seq(Op)
    BY <1>1, <1>5, <2>1, ConcatProperties DEF purge_if_idle, enqueue
  <2>4. inflight' = {} /\ UNCHANGED <<pc, disk, past, faults>>
    BY <1>5 DEF purge_if_idle
  <2> QED BY <2>2, <2>3, <2>4 DEF StreamType, disk, past, faults
<1>6. CASE write_next(t)
  <2>1. Head(todo[t]) \in Op /\ Tail(todo[t]) \in Seq(Op)
    BY <1>1, <1>6, HeadTailProperties DEF write_next
  <2>2. <<Head(todo[t])>> \in Seq(Op)
    BY <2>1
  <2>3. todo' \in [Tasks -> Seq(Op)]
    BY <1>1, <1>6, <2>1 DEF write_next
  <2>4. pq' \in Seq(Op)
    BY <1>1, <1>6, <2>2, ConcatProperties DEF write_next, enqueue
  <2>5. UNCHANGED <<inflight, pc, disk, past, faults>>
    BY <1>6 DEF write_next
  <2> QED BY <2>3, <2>4, <2>5 DEF StreamType, disk, past, faults
<1>7. CASE flush(t)
  <2>1. <<Flush(t)>> \in Seq(Op)
    BY OpTypes
  <2>2. pq' \in Seq(Op)
    BY <1>1, <1>7, <2>1, ConcatProperties DEF flush, enqueue
  <2>3. pc' \in [Tasks -> {"idle", "flushing", "flushed"}]
    BY <1>7 DEF flush, AfterFlushSent, StreamType
  <2>4. UNCHANGED <<inflight, todo, disk, past, faults>>
    BY <1>7 DEF flush
  <2> QED BY <2>2, <2>3, <2>4 DEF StreamType, disk, past, faults
<1>8. CASE PingResponse(t)
  <2>1. pc' \in [Tasks -> {"idle", "flushing", "flushed"}]
    BY <1>8 DEF PingResponse, StreamType
  <2>2. own' \in [Tasks -> SUBSET Message] /\ safe' \subseteq Message
    BY <1>1, <1>8 DEF PingResponse
  <2>3. UNCHANGED <<inflight, todo, pq, disk, sent, faults>>
    BY <1>8 DEF PingResponse
  <2> QED BY <2>1, <2>2, <2>3 DEF StreamType, disk, faults
<1> QED BY <1>2, <1>3, <1>4, <1>5, <1>6, <1>7, <1>8 DEF TaskStep

LEMMA TypeStep ==
  ASSUME StreamType, [Next]_vars
  PROVE  StreamType'
<1>1. /\ sent \in 0..MaxMessages /\ own \in [Tasks -> SUBSET Message] /\ inflight \in SUBSET Message
      /\ safe \subseteq Message /\ todo \in [Tasks -> Seq(Op)] /\ pq \in Seq(Op)
      /\ dead_letters \in Seq(Message) /\ failures \in Nat
      /\ pc \in [Tasks -> {"idle", "flushing", "flushed"}]
      /\ disk_inflight # NoRow => disk_inflight \subseteq Message
  BY DEF StreamType
<1>2. CASE \E t \in Tasks : TaskStep(t)
  BY <1>2, TypeTask
<1>3. CASE ConnectNew
  <2>1. <<PutSession>> \in Seq(Op)
    BY OpTypes
  <2>2. pq' \in Seq(Op)
    BY <1>1, <1>3, <2>1, ConcatProperties DEF ConnectNew, enqueue
  <2>3. UNCHANGED <<inflight, pc, todo, disk, past, faults>>
    BY <1>3 DEF ConnectNew
  <2> QED BY <2>2, <2>3 DEF StreamType, disk, past, faults
<1>4. CASE ConnectClean
  <2>1. <<RemoveSession(inflight), PutSession>> \in Seq(Op)
    BY <1>1, OpTypes
  <2>2. pq' \in Seq(Op)
    BY <1>1, <1>4, <2>1, ConcatProperties DEF ConnectClean, enqueue
  <2>3. inflight' = {} /\ UNCHANGED <<pc, todo, disk, past, faults>>
    BY <1>4 DEF ConnectClean
  <2> QED BY <2>2, <2>3 DEF StreamType, disk, past, faults
<1>5. CASE run_persist_worker
  <2>1. pq' \in Seq(Op) /\ Head(pq) \in Op
    BY <1>1, <1>5, HeadTailProperties DEF run_persist_worker
  <2>2. UNCHANGED <<inflight, todo, past, failures>>
    BY <1>5 DEF run_persist_worker
  <2>3. apply_persist_op(Head(pq))
    BY <1>5 DEF run_persist_worker
  <2>4. dead_letters' \in Seq(Message)
    <3>1. dead_letters' = dead_letters \/ \E m \in Message : dead_letters' = Append(dead_letters, m)
      BY <2>1, <2>3, OpFields
        DEF apply_persist_op, put_inflight, put_session, remove_session, append_dead_letter, ack, disk
    <3>2. \A m \in Message : Append(dead_letters, m) \in Seq(Message)
      BY <1>1, AppendProperties
    <3> QED BY <1>1, <3>1, <3>2, Zenon
  <2>5. pc' \in [Tasks -> {"idle", "flushing", "flushed"}]
    BY <1>1, <2>3
      DEF apply_persist_op, put_inflight, put_session, remove_session, append_dead_letter, ack
  <2>6. disk_inflight' # NoRow => disk_inflight' \subseteq Message
    BY <1>1, <2>1, <2>3, OpFields
      DEF apply_persist_op, put_inflight, put_session, remove_session, append_dead_letter, ack, disk,
          InflightAfterRemove
  <2> QED BY <2>1, <2>2, <2>4, <2>5, <2>6 DEF StreamType, past
<1>6. CASE WriteFails
  <2>1. pq' \in Seq(Op)
    BY <1>1, <1>6, HeadTailProperties DEF WriteFails
  <2>2. failures' \in Nat /\ UNCHANGED <<inflight, pc, todo, disk, past>>
    BY <1>1, <1>6 DEF WriteFails
  <2> QED BY <2>1, <2>2 DEF StreamType, disk, past
<1>7. CASE Crash
  <2>1. pq' \in Seq(Op) /\ todo' \in [Tasks -> Seq(Op)] /\ own' \in [Tasks -> SUBSET Message]
    BY <1>7, EmptySeq DEF Crash
  <2>2. inflight' \subseteq Message
    BY <1>1, <1>7 DEF Crash, Loaded
  <2>3. pc' \in [Tasks -> {"idle", "flushing", "flushed"}]
    BY <1>7 DEF Crash
  <2>4. UNCHANGED <<disk, sent, safe, failures>>
    BY <1>7 DEF Crash
  <2> QED BY <2>1, <2>2, <2>3, <2>4 DEF StreamType, disk
<1>8. CASE UNCHANGED vars
  BY <1>8 DEF StreamType, vars, disk, past, faults
<1> QED BY <1>2, <1>3, <1>4, <1>5, <1>6, <1>7, <1>8 DEF Next

-------------------------------------------------------------------------------
(***************************************************************************)
(* The handlers, each alone on its thread.                                 *)
(***************************************************************************)
\* What a handler without dead letters leaves in the channel.
LEMMA EnqueueAdds ==
  ASSUME StreamType, \A t \in Tasks : todo[t] = <<>>, NEW op \in Op,
         pq' = pq \o <<op>>, todo' = todo
  PROVE  Single' /\ Stream \in Seq(Op) /\ Adds(op, {})
<1>1. Alone(todo)
  BY DEF Alone
<1>2. Stream = pq /\ Stream \in Seq(Op)
  BY <1>1, StreamShape DEF Stream, StreamType
<1>3. pq' \in Seq(Op)
  <2>1. <<op>> \in Seq(Op)
    OBVIOUS
  <2> QED BY <2>1, ConcatProperties DEF StreamType
<1>4. StreamOf(pq', todo') = pq'
  BY <1>1, <1>3, StreamShape, Zenon DEF StreamType
<1>5. Stream' = pq \o <<op>>
  BY <1>4 DEF Stream
<1>6. (pq \o <<op>>) \o <<>> = pq \o <<op>>
  BY <1>3, ConcatEmptySeq
<1>7. (Stream \o <<op>>) \o Letters({}) = pq \o <<op>>
  BY <1>2, <1>6, NoLetters, Zenon
<1>8. Stream' = (Stream \o <<op>>) \o Letters({})
  BY <1>5, <1>7, Zenon
<1>9. Adds(op, {})
  <2>1. {} \in SUBSET Message
    OBVIOUS
  <2> QED BY <1>2, <1>8, <2>1, AddsLetters, Zenon
<1> QED BY <1>1, <1>2, <1>9 DEF Single

\* What a task that is alone adds, wherever its writes are.
LEMMA TaskAdds ==
  ASSUME StreamType, StreamType', \A u \in Tasks : todo[u] = <<>>, NEW t \in Tasks,
         \A u \in Tasks : u # t => todo'[u] = <<>>, NEW op \in Op, NEW gone \in SUBSET Message,
         pq' \o todo'[t] = (pq \o <<op>>) \o Letters(gone)
  PROVE  Single' /\ Stream \in Seq(Op) /\ Adds(op, gone)
<1>1. Stream = pq /\ Stream \in Seq(Op)
  <2>1. Alone(todo)
    BY DEF Alone
  <2> QED BY <2>1, StreamShape DEF Stream, StreamType
<1>2. Alone(todo') /\ StreamOf(pq', todo') = pq' \o todo'[t]
  BY StreamOfOne, Zenon DEF StreamType
<1>3. Stream' = (Stream \o <<op>>) \o Letters(gone)
  <2>1. Stream' = pq' \o todo'[t]
    BY <1>2, Zenon DEF Stream
  <2> QED BY <1>1, <2>1, Zenon
<1>4. Adds(op, gone)
  BY <1>1, <1>3, AddsLetters
<1> QED BY <1>1, <1>2, <1>4 DEF Single

LEMMA LockedAdds ==
  ASSUME StreamType, StreamType', ~overlapped', NEW t \in Tasks,
         NEW queue \in SUBSET Message, NEW gone \in SUBSET Message, Locked(t, queue, gone)
  PROVE  Single' /\ Stream \in Seq(Op) /\ Adds(PutInflight(queue), gone)
<1> DEFINE o == <<PutInflight(queue)>>
           l == Letters(gone)
<1>1. \A u \in Tasks : todo[u] = <<>>
  BY Scheduling DEF Locked
<1>2. pq' = pq /\ todo'[t] = o \o l /\ \A u \in Tasks : u # t => todo'[u] = <<>>
  BY <1>1 DEF Locked, Writes, snapshot_inflight, StreamType
<1>3. PutInflight(queue) \in Op /\ o \in Seq(Op) /\ l \in Seq(Op) /\ pq \in Seq(Op)
  BY OpTypes, LettersFacts DEF StreamType
<1> HIDE DEF o, l
<1>4. pq \o (o \o l) = (pq \o o) \o l
  BY <1>3, ConcatAssociative
<1>5. pq' \o todo'[t] = (pq \o <<PutInflight(queue)>>) \o Letters(gone)
  BY <1>2, <1>4 DEF o, l
<1> QED BY <1>1, <1>2, <1>3, <1>5, TaskAdds, Zenon

LEMMA HandledStep ==
  ASSUME StoreInv, ~overlapped, StreamType', Single', Stream \in Seq(Op),
         NEW op \in Op, NEW gone, Handled(op, gone)
  PROVE  StoreInv'
<1>1. /\ StreamType /\ CatchUpInv /\ Numbered /\ BuriedInv
      /\ failures = 0 => SafeInv /\ LetterInv
  BY DEF StoreInv
<1>2. Adds(op, gone) /\ HandledRows(op) /\ HandledPast(op, gone) /\ HandledWait(op)
  BY DEF Handled
<1>3. SessionFollows' /\ QueueFollows'
  BY <1>1, <1>2, HandledSession, HandledQueue DEF CatchUpInv
<1>4. ~alive' => inflight' = {}
  <2>1. CASE op.op = "PutInflight"
    BY <1>2, <2>1 DEF HandledRows, SessionOps
  <2>2. CASE op.op = "PutSession"
    BY <1>2, <2>2 DEF HandledRows
  <2>3. CASE op.op = "RemoveSession"
    BY <1>2, <2>3 DEF HandledRows
  <2>4. CASE op.op \notin {"PutInflight", "PutSession", "RemoveSession"}
    BY <1>1, <1>2, <2>4 DEF HandledRows, SessionOps, QueueOps, CatchUpInv
  <2> QED BY <2>1, <2>2, <2>3, <2>4
<1>5. failures' = failures /\ behind' = behind
  BY <1>2 DEF HandledRows
<1>6. failures' = 0 => NoOrphan' /\ behind' = {}
  BY <1>1, <1>2, <1>5, HandledOrphan DEF CatchUpInv
<1>7. Numbered' /\ BuriedInv'
  BY <1>1, <1>2, HandledNumbers, HandledBuried
<1>8. failures' = 0 => SafeInv' /\ LetterInv'
  BY <1>1, <1>2, <1>5, HandledSafe, HandledLetters
<1>9. CatchUpInv'
  BY <1>3, <1>4, <1>6 DEF CatchUpInv
<1> QED BY <1>7, <1>8, <1>9 DEF StoreInv

LEMMA LockedStep ==
  ASSUME StoreInv, StreamType', NEW t \in Tasks,
         NEW queue \in SUBSET Message, NEW gone \in SUBSET Message, Locked(t, queue, gone),
         ~overlapped => HandledPast(PutInflight(queue), gone), safe' = safe
  PROVE  StoreInv'
<1> DEFINE op == PutInflight(queue)
<1>1. CASE overlapped'
  BY <1>1 DEF StoreInv
<1>2. CASE ~overlapped'
  <2>1. ~overlapped /\ StreamType
    BY <1>2, Scheduling DEF Locked, StoreInv
  <2>2. Single' /\ Stream \in Seq(Op) /\ Adds(op, gone)
    BY <1>2, <2>1, LockedAdds
  <2>3. op \in Op /\ op.op = "PutInflight" /\ op.blob = queue
    BY OpTypes DEF PutInflight
  <2> HIDE DEF op
  <2>4. HandledRows(op)
    BY <2>3 DEF HandledRows, Locked, disk, faults, SessionOps, QueueOps
  <2>5. HandledWait(op)
    BY <2>3 DEF HandledWait, Locked
  <2>6. HandledPast(op, gone)
    BY <2>1 DEF op
  <2> QED BY <2>1, <2>2, <2>3, <2>4, <2>5, <2>6, HandledStep DEF Handled
<1> QED BY <1>1, <1>2

LEMMA StorePublish ==
  ASSUME StoreInv, StreamType', NEW t \in Tasks, publish(t)
  PROVE  StoreInv'
<1> DEFINE queue == inflight \cup {sent + 1}
           op == PutInflight(queue)
<1>1. StreamType /\ sent \in Nat /\ MaxMessages \in Nat
  BY MessageNumbers DEF StoreInv, StreamType
<1>2. /\ sent < MaxMessages /\ sent' = sent + 1 /\ Locked(t, queue, {})
      /\ own' = [own EXCEPT ![t] = @ \cup {sent + 1}] /\ safe' = safe /\ acked' = acked
  BY DEF publish
<1>3. queue \in SUBSET Message
  BY <1>1, <1>2 DEF StreamType, Message
<1>4. inflight' = queue /\ given_up' = given_up /\ pc[t] = "idle"
  BY <1>2 DEF Locked
<1>5. op.op = "PutInflight"
  BY DEF PutInflight
<1> HIDE DEF op
<1>6. \A u \in Tasks : \A m \in own'[u] :
        m \in own[u] \/ (pc[u] = "idle" /\ op.op = "PutInflight" /\ m \in inflight')
  BY <1>1, <1>2, <1>4, <1>5 DEF StreamType
<1>7. sent' \in 0..MaxMessages /\ sent <= sent' /\ sent' \in Nat /\ sent' > sent
  BY <1>1, <1>2
<1>8. HandledPast(op, {})
  BY <1>2, <1>4, <1>6, <1>7 DEF HandledPast
<1> QED BY <1>2, <1>3, <1>8, LockedStep DEF op

LEMMA StoreAck ==
  ASSUME StoreInv, StreamType', NEW t \in Tasks, NEW m \in 1..sent, on_ack(t, m)
  PROVE  StoreInv'
<1> DEFINE queue == inflight \ {m}
           op == PutInflight(queue)
<1>1. sent \in 0..MaxMessages /\ inflight \subseteq Message /\ MaxMessages \in Nat
  BY MessageNumbers DEF StoreInv, StreamType
<1>2. /\ Locked(t, queue, {}) /\ acked' = acked \cup ({m} \cap inflight)
      /\ sent' = sent /\ own' = own /\ safe' = safe
  BY DEF on_ack
<1>3. inflight' = queue /\ given_up' = given_up
  BY <1>2 DEF Locked
<1>4. HandledPast(op, {})
  BY <1>1, <1>2, <1>3 DEF HandledPast
<1>5. queue \in SUBSET Message
  BY <1>1
<1> QED BY <1>2, <1>4, <1>5, LockedStep

LEMMA StoreRetries ==
  ASSUME StoreInv, StreamType', NEW t \in Tasks, NEW gone \in SUBSET inflight, run_retries(t, gone)
  PROVE  StoreInv'
<1> DEFINE queue == inflight \ gone
           op == PutInflight(queue)
<1>1. sent \in 0..MaxMessages /\ inflight \subseteq Message /\ MaxMessages \in Nat
  BY MessageNumbers DEF StoreInv, StreamType
<1>2. /\ Locked(t, queue, gone) /\ acked' = acked
      /\ sent' = sent /\ own' = own /\ safe' = safe
  BY DEF run_retries, past
<1>3. inflight' = queue /\ given_up' = given_up \cup gone
  BY <1>2 DEF Locked
<1>4. op.op \in QueueOps
  BY DEF PutInflight, QueueOps
<1> HIDE DEF op
<1>5. HandledPast(op, gone)
  BY <1>1, <1>2, <1>3, <1>4 DEF HandledPast
<1>6. queue \in SUBSET Message /\ gone \in SUBSET Message
  BY <1>1
<1> QED BY <1>2, <1>5, <1>6, LockedStep DEF op

LEMMA StorePurge ==
  ASSUME StoreInv, StreamType', NEW t \in Tasks, NEW gone \in SUBSET inflight,
         purge_if_idle(t, gone)
  PROVE  StoreInv'
<1> DEFINE op == RemoveSession(inflight)
<1>1. CASE overlapped'
  BY <1>1 DEF StoreInv
<1>2. CASE ~overlapped'
  <2>1. ~overlapped /\ StreamType /\ \A u \in Tasks : todo[u] = <<>>
    BY <1>2, Scheduling DEF purge_if_idle, StoreInv
  <2>2. /\ sent \in 0..MaxMessages /\ MaxMessages \in Nat /\ gone \in SUBSET Message
        /\ inflight \in SUBSET Message
    BY <2>1, MessageNumbers DEF StreamType
  <2>3. op \in Op /\ op.op = "RemoveSession" /\ op.gone = inflight
    BY <2>2, OpTypes DEF RemoveSession
  <2>4. /\ pq' = pq \o <<op>> /\ todo'[t] = Letters(gone)
        /\ \A u \in Tasks : u # t => todo'[u] = <<>>
    BY <2>1 DEF purge_if_idle, enqueue, StreamType
  <2> HIDE DEF op
  <2>5. pq' \o todo'[t] = (pq \o <<op>>) \o Letters(gone)
    BY <2>4, Zenon
  <2>6. Single' /\ Stream \in Seq(Op) /\ Adds(op, gone)
    BY <2>1, <2>2, <2>3, <2>4, <2>5, TaskAdds, Zenon
  <2>7. HandledRows(op)
    BY <2>3 DEF HandledRows, purge_if_idle, disk, past, faults, SessionOps, QueueOps
  <2>8. HandledWait(op)
    BY <2>3 DEF HandledWait, purge_if_idle
  <2>9. HandledPast(op, gone)
    BY <2>2, <2>3 DEF HandledPast, purge_if_idle, past, QueueOps
  <2> QED BY <2>1, <2>3, <2>6, <2>7, <2>8, <2>9, HandledStep, Zenon DEF Handled
<1> QED BY <1>1, <1>2

LEMMA StoreFlush ==
  ASSUME StoreInv, StreamType', NEW t \in Tasks, flush(t)
  PROVE  StoreInv'
<1> DEFINE op == Flush(t)
<1>1. CASE overlapped'
  BY <1>1 DEF StoreInv
<1>2. CASE ~overlapped'
  <2>1. ~overlapped /\ StreamType /\ \A u \in Tasks : todo[u] = <<>>
    BY <1>2, Scheduling DEF flush, StoreInv
  <2>2. sent \in 0..MaxMessages /\ MaxMessages \in Nat
    BY <2>1, MessageNumbers DEF StreamType
  <2>3. op \in Op /\ op.op = "Flush" /\ op.ack = t
    BY OpTypes DEF Flush
  <2>4. pq' = pq \o <<op>> /\ todo' = todo
    BY DEF flush, enqueue
  <2> HIDE DEF op
  <2>5. Single' /\ Stream \in Seq(Op) /\ Adds(op, {})
    BY <2>1, <2>3, <2>4, EnqueueAdds
  <2>6. HandledRows(op)
    BY <2>3 DEF HandledRows, flush, disk, past, faults, SessionOps, QueueOps
  <2>7. HandledWait(op)
    BY <2>1, <2>3 DEF HandledWait, flush, AfterFlushSent, StreamType
  <2>8. HandledPast(op, {})
    BY <2>2, <2>3 DEF HandledPast, flush, past
  <2> QED BY <2>1, <2>3, <2>5, <2>6, <2>7, <2>8, HandledStep DEF Handled
<1> QED BY <1>1, <1>2

LEMMA StoreConnectNew ==
  ASSUME StoreInv, StreamType', ConnectNew
  PROVE  StoreInv'
<1> DEFINE op == PutSession
<1>1. CASE overlapped'
  BY <1>1 DEF StoreInv
<1>2. CASE ~overlapped'
  <2>1. ~overlapped /\ StreamType /\ \A u \in Tasks : todo[u] = <<>>
    BY <1>2, Scheduling DEF ConnectNew, StoreInv
  <2>2. sent \in 0..MaxMessages /\ MaxMessages \in Nat
    BY <2>1, MessageNumbers DEF StreamType
  <2>3. op \in Op /\ op.op = "PutSession"
    BY OpTypes DEF PutSession
  <2>4. pq' = pq \o <<op>> /\ todo' = todo
    BY DEF ConnectNew, enqueue
  <2> HIDE DEF op
  <2>5. Single' /\ Stream \in Seq(Op) /\ Adds(op, {})
    BY <2>1, <2>3, <2>4, EnqueueAdds
  <2>6. HandledRows(op)
    BY <2>3 DEF HandledRows, ConnectNew, disk, past, faults, SessionOps, QueueOps
  <2>7. HandledWait(op)
    BY <2>3 DEF HandledWait, ConnectNew
  <2>8. HandledPast(op, {})
    BY <2>2, <2>3 DEF HandledPast, ConnectNew, past
  <2> QED BY <2>1, <2>3, <2>5, <2>6, <2>7, <2>8, HandledStep DEF Handled
<1> QED BY <1>1, <1>2

-------------------------------------------------------------------------------
(***************************************************************************)
(* The theorems.                                                           *)
(***************************************************************************)
LEMMA FlagsStep ==
  ASSUME Flags, [Next]_vars
  PROVE  Flags'
<1>1. ASSUME NEW t \in Tasks, TaskStep(t) PROVE Flags'
  <2>1. disk_session' = disk_session
    BY <1>1, Zenon DEF TaskStep, publish, on_ack, run_retries, purge_if_idle, write_next, flush, PingResponse,
                Locked, disk
  <2>2. alive' = alive \/ alive' = FALSE
    BY <1>1, Zenon DEF TaskStep, publish, on_ack, run_retries, purge_if_idle, write_next, flush, PingResponse,
                Locked
  <2> QED BY <2>1, <2>2, Zenon DEF Flags
<1>2. CASE ConnectNew
  BY <1>2 DEF Flags, ConnectNew, disk
<1>3. CASE ConnectClean
  BY <1>3 DEF Flags, ConnectClean, disk
<1>4. CASE run_persist_worker
  <2>1. alive' = alive /\ apply_persist_op(Head(pq))
    BY <1>4 DEF run_persist_worker
  <2>2. disk_session' \in {disk_session, TRUE, FALSE}
    BY <2>1, Zenon DEF apply_persist_op, put_inflight, put_session, remove_session, append_dead_letter, ack, disk
  <2> QED BY <2>1, <2>2, Zenon DEF Flags
<1>5. CASE WriteFails
  BY <1>5 DEF Flags, WriteFails, disk
<1>6. CASE Crash
  BY <1>6 DEF Flags, Crash, disk
<1>7. CASE UNCHANGED vars
  BY <1>7 DEF Flags, vars, disk
<1> QED BY <1>1, <1>2, <1>3, <1>4, <1>5, <1>6, <1>7 DEF Next

LEMMA StoreInit ==
  ASSUME Init
  PROVE  StoreInv /\ Flags
<1>1. /\ alive = FALSE /\ inflight = {} /\ disk_session = FALSE /\ disk_inflight = NoRow
      /\ dead_letters = <<>> /\ sent = 0 /\ own = [t \in Tasks |-> {}]
      /\ safe = {} /\ acked = {} /\ given_up = {} /\ buried = {} /\ behind = {} /\ failures = 0
  BY DEF Init
<1>2. Single /\ Len(Stream) = 0
  BY EmptyStream DEF Init, Single, Stream
<1>3. Positions = {}
  BY <1>2 DEF Positions
<1>4. \A m : ~OnDisk(m)
  BY <1>1 DEF OnDisk
<1>5. StreamType
  <2>1. pq \in Seq(Op) /\ todo \in [Tasks -> Seq(Op)] /\ dead_letters \in Seq(Message)
    BY EmptySeq DEF Init
  <2>2. sent \in 0..MaxMessages
    BY <1>1, MessageNumbers
  <2>3. pc \in [Tasks -> {"idle", "flushing", "flushed"}] /\ own \in [Tasks -> SUBSET Message]
    BY DEF Init
  <2> QED BY <1>1, <2>1, <2>2, <2>3 DEF StreamType
<1>6. CatchUpInv
  BY <1>1, <1>3, Zenon DEF CatchUpInv, SessionFollows, QueueFollows, NoOrphan
<1>7. Len(dead_letters) = 0
  BY <1>1, EmptySeq
<1>8. Numbered
  BY <1>1, <1>3, <1>4, <1>7 DEF Numbered
<1>9. BuriedInv
  BY <1>1, <1>3 DEF BuriedInv
<1>10. SafeInv
  BY <1>1, <1>3, <1>4 DEF SafeInv
<1>11. LetterInv
  BY <1>3, <1>7 DEF LetterInv
<1> QED BY <1>1, <1>2, <1>5, <1>6, <1>8, <1>9, <1>10, <1>11, Zenon DEF StoreInv, Flags

LEMMA StoreStep ==
  ASSUME StoreInv, Flags, [Next]_vars
  PROVE  StoreInv'
<1>1. StreamType'
  BY TypeStep DEF StoreInv
<1>2. ASSUME NEW t \in Tasks, TaskStep(t) PROVE StoreInv'
  BY <1>1, <1>2, StorePublish, StoreAck, StoreRetries, StorePurge, StoreWriteNext, StoreFlush, StorePing
    DEF TaskStep
<1>3. CASE ConnectNew
  BY <1>1, <1>3, StoreConnectNew
<1>4. CASE ConnectClean
  BY <1>1, <1>4, StoreConnectClean
<1>5. CASE run_persist_worker
  BY <1>1, <1>5, StoreWorker
<1>6. CASE WriteFails
  BY <1>1, <1>6, StoreFails
<1>7. CASE Crash
  BY <1>1, <1>7, StoreCrash
<1>8. CASE UNCHANGED vars
  <2>1. /\ Stream' = Stream /\ (Single' <=> Single)
        /\ UNCHANGED <<alive, inflight, disk, buried, faults, sent, acked, given_up, own, safe, pc, overlapped>>
    BY <1>8 DEF vars, past, Stream, Single
  <2>2. /\ (CatchUpInv => CatchUpInv') /\ (BuriedInv => BuriedInv') /\ (LetterInv => LetterInv')
    BY <2>1, SameRows
  <2>3. Numbered => Numbered'
    BY <2>1, Zenon DEF Numbered, OnDisk, Put, Letter, Is, Positions, disk
  <2>4. SafeInv => SafeInv'
    <3>1. /\ Positions' = Positions /\ Open' = Open /\ \A m : OnDisk(m)' <=> OnDisk(m)
          /\ \A k : \A o : Is(k, o)' <=> Is(k, o)
      BY <2>1 DEF Positions, Open, OnDisk, Is, disk
    <3>2. \A k : \A m : /\ Put(k, m)' <=> Put(k, m)
                        /\ Stays(m, k)' <=> Stays(m, k)
      BY <2>1, <3>1 DEF Put, Stays
    <3>3. \A k : \A m : Written(m, k)' <=> Written(m, k)
      BY <3>1, <3>2 DEF Written
    <3> QED BY <2>1, <3>1, <3>2, <3>3 DEF SafeInv
  <2> QED BY <1>1, <2>1, <2>2, <2>3, <2>4 DEF StoreInv, faults
<1> QED BY <1>2, <1>3, <1>4, <1>5, <1>6, <1>7, <1>8 DEF Next

LEMMA StoreAlways == Spec => [](StoreInv /\ Flags)
<1>1. Init => StoreInv /\ Flags
  BY StoreInit
<1>2. StoreInv /\ Flags /\ [Next]_vars => (StoreInv /\ Flags)'
  BY StoreStep, FlagsStep
<1> QED BY <1>1, <1>2, PTL DEF Spec

\* Once every write has been applied, the disk has the session and the queue that the
\* broker has, failed writes apart that no later one has made good.
THEOREM DiskAlwaysCatchesUp == Spec => []DiskCatchesUp
<1>1. StoreInv /\ Flags => DiskCatchesUp
  <2> SUFFICES ASSUME StoreInv, ~overlapped, Quiescent PROVE
                 /\ "session" \notin behind => disk_session = alive
                 /\ behind = {} => QueueSurvives
    BY DEF DiskCatchesUp
  <2>1. SessionFollows /\ QueueFollows /\ Positions = {}
    <3>1. StreamType /\ Alone(todo) /\ \A t \in Tasks : todo[t] = <<>>
      BY DEF StoreInv, Single, Quiescent, Running
    <3>2. Stream = <<>>
      BY <3>1, StreamShape DEF Stream, StreamType, Quiescent
    <3>3. Len(Stream) = 0
      BY <3>2, EmptySeq
    <3> QED BY <3>3 DEF Positions, StoreInv, CatchUpInv
  <2>2. "session" \notin behind => disk_session = alive
    BY <2>1 DEF SessionFollows, None
  <2>3. "inflight" \notin behind => inflight = IF disk_inflight = NoRow THEN {} ELSE disk_inflight
    BY <2>1 DEF QueueFollows, None
  <2>4. behind = {} => QueueSurvives
    BY <2>2, <2>3 DEF QueueSurvives, Loaded
  <2> QED BY <2>2, <2>4
<1> QED BY <1>1, StoreAlways, PTL

\* The messages of a session that has been removed from the disk do not come back.
THEOREM NeverResurrected == Spec => []NoResurrection
<1>1. StoreInv => NoResurrection
  BY DEF StoreInv, BuriedInv, NoResurrection
<1> QED BY <1>1, StoreAlways, PTL

\* What was published before a ping was answered survives every crash.
THEOREM SafeAlwaysSurvives == Spec => []SafeSurvives
<1>1. StoreInv => SafeSurvives
  <2> SUFFICES ASSUME StoreInv, ~overlapped, failures = 0, NEW m \in safe \ (acked \cup given_up)
               PROVE  m \in inflight
    BY DEF SafeSurvives
  <2>1. SafeInv /\ m \in Open
    BY DEF StoreInv, StreamType, Open
  <2> QED BY <2>1 DEF SafeInv, Stays
<1> QED BY <1>1, StoreAlways, PTL

\* A message is dead-lettered once at most, and never delivered after that.
THEOREM DeadLetteredOnce == Spec => []DeadLetterOnce
<1>1. StoreInv => DeadLetterOnce
  <2> SUFFICES ASSUME StoreInv, ~overlapped, failures = 0
               PROVE /\ \A i, j \in DOMAIN dead_letters : dead_letters[i] = dead_letters[j] => i = j
                     /\ \A i \in DOMAIN dead_letters : dead_letters[i] \notin inflight
    BY DEF DeadLetterOnce
  <2>1. DOMAIN dead_letters = 1..Len(dead_letters)
    BY LenProperties DEF StoreInv, StreamType
  <2> QED BY <2>1 DEF StoreInv, LetterInv
<1> QED BY <1>1, StoreAlways, PTL
===============================================================================
