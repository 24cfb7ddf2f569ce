------------------------------ MODULE InflightStore ------------------------------
(***************************************************************************)
(* The in-flight queue of one durable session on disk, and the dead        *)
(* letters.  A handler of hub.rs (publish, deliver_retained, run_retries,  *)
(* on_puback, on_pubrec, on_pubcomp) changes the queue and takes a         *)
(* snapshot of it under the sessions lock, and enqueues the snapshot for   *)
(* the persistence worker after it has released the lock; run_retries and  *)
(* purge_if_idle then enqueue the dead letters.  There is no await in      *)
(* between: on a runtime with one thread nothing else runs between the     *)
(* two, on one with several threads another handler may.                   *)
(*                                                                         *)
(* The queue is the set of its messages; how it changes is in Outbound.    *)
(***************************************************************************)
EXTENDS Integers, Sequences, FiniteSets

CONSTANTS
  Tasks,         \* connection tasks and timers
  Threads,       \* threads of the runtime
  MaxMessages,   \* bound: messages given to the session
  MaxQueue,      \* bound: writes waiting for the persistence worker
  MaxCrashes,    \* bound: crashes of the broker
  MaxFailures,   \* bound: writes that fail
  NoRow          \* no row in the table INFLIGHT

ASSUME StoreAssumption ==
  /\ IsFiniteSet(Tasks)
  /\ Threads \in Nat \ {0}
  /\ MaxMessages \in Nat /\ MaxQueue \in Nat /\ MaxCrashes \in Nat /\ MaxFailures \in Nat
  /\ \A b \in SUBSET (1..MaxMessages) : NoRow # b

VARIABLES
  alive,          \* the session is in the table (with expiry_secs > 0)
  inflight,       \* Session.inflight
  pc,             \* whether each task waits for a flush
  todo,           \* the writes that a task has still to enqueue, its lock released
  pq,             \* writes waiting for the persistence worker
  disk_session,   \* the row of SESSIONS exists
  disk_inflight,  \* the row of INFLIGHT
  dead_letters,   \* the rows of DEAD_LETTERS
  sent,           \* history: number of messages given to the session
  own,            \* history: the messages each task gave it since its last ping
  safe,           \* history: messages whose publisher has since had a PINGRESP
  acked,          \* history: messages the client has acknowledged
  given_up,       \* history: messages dead-lettered, or of a session discarded
  buried,         \* history: those of a session whose RemoveSession was applied
  behind,         \* history: the rows whose last write failed
  failures,       \* history: the writes that failed
  overlapped,     \* history: two tasks have been between their locks at once
  crashes         \* history: the crashes so far

disk   == <<disk_session, disk_inflight, dead_letters>>
past   == <<sent, own, safe, acked>>
faults == <<behind, failures, crashes>>

vars == <<alive, inflight, pc, todo, pq, disk, past, given_up, buried, faults, overlapped>>

Message == 1..MaxMessages
Op == [op : {"PutInflight"}, blob : SUBSET Message]
        \cup [op : {"PutSession"}]
        \cup [op : {"RemoveSession"}, gone : SUBSET Message]
        \cup [op : {"AppendDeadLetter"}, msg : Message]
        \cup [op : {"Flush"}, ack : Tasks]

PutInflight(b) == [op |-> "PutInflight", blob |-> b]
PutSession == [op |-> "PutSession"]

\* `gone` (history): the messages of the session that is removed.
RemoveSession(gone) == [op |-> "RemoveSession", gone |-> gone]
AppendDeadLetter(m) == [op |-> "AppendDeadLetter", msg |-> m]
Flush(t) == [op |-> "Flush", ack |-> t]

Init ==
  /\ alive = FALSE
  /\ inflight = {}
  /\ pc = [t \in Tasks |-> "idle"]
  /\ todo = [t \in Tasks |-> <<>>]
  /\ pq = <<>>
  /\ disk_session = FALSE
  /\ disk_inflight = NoRow
  /\ dead_letters = <<>>
  /\ sent = 0
  /\ own = [t \in Tasks |-> {}]
  /\ safe = {} /\ acked = {} /\ given_up = {} /\ buried = {}
  /\ behind = {} /\ failures = 0 /\ crashes = 0
  /\ overlapped = FALSE

-------------------------------------------------------------------------------
\* The tasks that hold a thread between the unlock and their last enqueue.
Running == {t \in Tasks : todo[t] # <<>>}

\* A task is given a thread.  From then on two tasks have run at once, if another had
\* one already.
Scheduled ==
  /\ Cardinality(Running) < Threads
  /\ overlapped' = (overlapped \/ Running # {})

enqueue(ops) ==
  /\ Len(pq) + Len(ops) <= MaxQueue
  /\ pq' = pq \o ops

(***************************************************************************)
(* One critical section of a handler: the queue becomes `queue`, of which  *)
(* snapshot_inflight takes a copy, and the messages `gone` are given up.   *)
(***************************************************************************)
\* (Mutant: the copy is taken before the change.)
snapshot_inflight_Before(queue) == inflight
snapshot_inflight(queue) == queue

\* Hub::dead_letter, for each message in the order of the queue.
Letters(gone) ==
  LET ms == CHOOSE q \in [1..Cardinality(gone) -> gone] :
              \A i, j \in DOMAIN q : i < j => q[i] < q[j]
  IN [i \in DOMAIN ms |-> AppendDeadLetter(ms[i])]

\* What is enqueued after the unlock, in this order.  (Mutant: the dead letters first.)
Writes_LettersFirst(queue, gone) ==
  Letters(gone) \o <<PutInflight(snapshot_inflight(queue))>>
Writes(queue, gone) ==
  <<PutInflight(snapshot_inflight(queue))>> \o Letters(gone)

Locked(t, queue, gone) ==
  /\ Scheduled
  /\ pc[t] = "idle" /\ todo[t] = <<>>
  /\ alive
  /\ inflight' = queue
  /\ todo' = [todo EXCEPT ![t] = Writes(queue, gone)]
  /\ given_up' = given_up \cup gone
  /\ UNCHANGED <<alive, pc, pq, disk, buried, faults>>

\* publish and deliver_retained, with an effective QoS above 0.
publish(t) ==
  /\ sent < MaxMessages
  /\ sent' = sent + 1
  /\ Locked(t, inflight \cup {sent + 1}, {})
  /\ own' = [own EXCEPT ![t] = @ \cup {sent + 1}]
  /\ UNCHANGED <<safe, acked>>

\* An acknowledgement, of an entry or of an unknown id.
on_ack(t, m) ==
  /\ Locked(t, inflight \ {m}, {})
  /\ acked' = acked \cup ({m} \cap inflight)
  /\ UNCHANGED <<sent, own, safe>>

\* The retry timer: tick_retries has given up some of the messages.
run_retries(t, gone) ==
  /\ Locked(t, inflight \ gone, gone)
  /\ UNCHANGED past

write_next(t) ==
  /\ todo[t] # <<>>
  /\ enqueue(<<Head(todo[t])>>)
  /\ todo' = [todo EXCEPT ![t] = Tail(@)]
  /\ UNCHANGED <<overlapped, alive, inflight, pc, disk, past, given_up, buried, faults>>

-------------------------------------------------------------------------------
(***************************************************************************)
(* Hub::connect and Hub::discard, whose writes are enqueued under the lock. *)
(***************************************************************************)
ConnectNew ==
  /\ Scheduled
  /\ ~alive
  /\ alive' = TRUE
  /\ enqueue(<<PutSession>>)
  /\ UNCHANGED <<inflight, pc, todo, disk, past, given_up, buried, faults>>

ConnectClean ==
  /\ Scheduled
  /\ alive
  /\ inflight' = {}
  /\ given_up' = given_up \cup inflight
  /\ enqueue(<<RemoveSession(inflight), PutSession>>)
  /\ UNCHANGED <<alive, pc, todo, disk, past, buried, faults>>

\* The session goes; those of its messages that were never delivered are dead-lettered
\* after the unlock.
purge_if_idle(t, drained) ==
  /\ Scheduled
  /\ pc[t] = "idle" /\ todo[t] = <<>>
  /\ alive
  /\ alive' = FALSE
  /\ inflight' = {}
  /\ given_up' = given_up \cup inflight
  /\ enqueue(<<RemoveSession(inflight)>>)
  /\ todo' = [todo EXCEPT ![t] = Letters(drained)]
  /\ UNCHANGED <<pc, disk, past, buried, faults>>

(***************************************************************************)
(* PINGREQ: Hub::flush, then PINGRESP.                                     *)
(***************************************************************************)
\* (Mutant: the answer does not wait for the worker.)
AfterFlushSent_NoWait == "flushed"
AfterFlushSent == "flushing"

flush(t) ==
  /\ Scheduled
  /\ pc[t] = "idle" /\ todo[t] = <<>>
  /\ enqueue(<<Flush(t)>>)
  /\ pc' = [pc EXCEPT ![t] = AfterFlushSent]
  /\ UNCHANGED <<alive, inflight, todo, disk, past, given_up, buried, faults>>

PingResponse(t) ==
  /\ Scheduled
  /\ pc[t] = "flushed"
  /\ pc' = [pc EXCEPT ![t] = "idle"]
  /\ safe' = safe \cup own[t]
  /\ own' = [own EXCEPT ![t] = {}]
  /\ UNCHANGED <<alive, inflight, todo, pq, disk, sent, acked, given_up, buried, faults>>

-------------------------------------------------------------------------------
(***************************************************************************)
(* The persistence worker (run_persist_worker, apply_persist_op).          *)
(***************************************************************************)
\* (Mutant: remove_session leaves the in-flight row.)
InflightAfterRemove_Kept == disk_inflight
InflightAfterRemove == NoRow

\* The rows that an operation writes.
RowsOf(op) ==
  CASE op.op = "PutInflight" -> {"inflight"}
    [] op.op = "PutSession" -> {"session"}
    [] op.op = "RemoveSession" -> {"session", "inflight"}
    [] OTHER -> {}

put_inflight(blob) ==
  /\ disk_inflight' = blob
  /\ UNCHANGED <<disk_session, dead_letters, pc, buried>>

put_session ==
  /\ disk_session' = TRUE
  /\ UNCHANGED <<disk_inflight, dead_letters, pc, buried>>

remove_session(gone) ==
  /\ disk_session' = FALSE
  /\ disk_inflight' = InflightAfterRemove
  /\ buried' = buried \cup gone
  /\ UNCHANGED <<dead_letters, pc>>

append_dead_letter(m) ==
  /\ dead_letters' = Append(dead_letters, m)
  /\ UNCHANGED <<disk_session, disk_inflight, pc, buried>>

\* The task that waits for this Flush goes on.
ack(t) ==
  /\ pc' = IF pc[t] = "flushing" THEN [pc EXCEPT ![t] = "flushed"] ELSE pc
  /\ UNCHANGED <<disk, buried>>

apply_persist_op(op) ==
  \/ op.op = "PutInflight" /\ put_inflight(op.blob)
  \/ op.op = "PutSession" /\ put_session
  \/ op.op = "RemoveSession" /\ remove_session(op.gone)
  \/ op.op = "AppendDeadLetter" /\ append_dead_letter(op.msg)
  \/ op.op = "Flush" /\ ack(op.ack)

run_persist_worker ==
  /\ pq # <<>>
  /\ pq' = Tail(pq)
  /\ apply_persist_op(Head(pq))
  /\ behind' = behind \ RowsOf(Head(pq))
  /\ UNCHANGED <<overlapped, alive, inflight, todo, past, given_up, failures, crashes>>

\* A write fails: the transaction is not committed, the worker logs it and goes on.
WriteFails ==
  /\ pq # <<>> /\ Head(pq).op # "Flush"
  /\ failures < MaxFailures
  /\ failures' = failures + 1
  /\ pq' = Tail(pq)
  /\ behind' = behind \cup RowsOf(Head(pq))
  /\ UNCHANGED <<overlapped, alive, inflight, pc, todo, disk, past, given_up, buried, crashes>>

(***************************************************************************)
(* A crash loses all but the disk; Hub::new loads the queue of a session   *)
(* whose row is there.                                                     *)
(***************************************************************************)
Loaded == IF disk_session /\ disk_inflight # NoRow THEN disk_inflight ELSE {}

\* After a failed write a restart may find a queue without its session.  It is passed
\* over, and stays on disk.
Orphan == failures > 0 /\ ~disk_session /\ disk_inflight # NoRow

Crash ==
  /\ crashes < MaxCrashes
  /\ crashes' = crashes + 1
  /\ alive' = disk_session
  /\ inflight' = Loaded
  /\ pc' = [t \in Tasks |-> "idle"]
  /\ todo' = [t \in Tasks |-> <<>>]
  /\ pq' = <<>>
  /\ own' = [t \in Tasks |-> {}]
  /\ behind' = IF Orphan THEN {"inflight"} ELSE {}
  /\ UNCHANGED <<overlapped, disk, sent, safe, acked, given_up, buried, failures>>

-------------------------------------------------------------------------------
TaskStep(t) ==
  \/ publish(t)
  \/ \E m \in 1..sent : on_ack(t, m)
  \/ \E gone \in SUBSET inflight : run_retries(t, gone) \/ purge_if_idle(t, gone)
  \/ write_next(t)
  \/ flush(t)
  \/ PingResponse(t)

Next ==
  \/ \E t \in Tasks : TaskStep(t)
  \/ ConnectNew
  \/ ConnectClean
  \/ run_persist_worker
  \/ WriteFails
  \/ Crash

Spec == Init /\ [][Next]_vars

-------------------------------------------------------------------------------
(***************************************************************************)
(* Properties                                                              *)
(***************************************************************************)
\* The variables have their types.
TypeOK ==
  /\ alive \in BOOLEAN
  /\ inflight # NoRow /\ inflight \subseteq Message
  /\ pc \in [Tasks -> {"idle", "flushing", "flushed"}]
  /\ todo \in [Tasks -> Seq(Op)]
  /\ pq \in Seq(Op)
  /\ disk_session \in BOOLEAN
  /\ disk_inflight \in SUBSET Message \cup {NoRow}
  /\ dead_letters \in Seq(Message)
  /\ sent \in 0..MaxMessages
  /\ own \in [Tasks -> SUBSET Message]
  /\ safe \subseteq Message /\ acked \subseteq Message
  /\ given_up \subseteq Message /\ buried \subseteq Message
  /\ behind \subseteq {"session", "inflight"}
  /\ failures \in 0..MaxFailures /\ crashes \in 0..MaxCrashes
  /\ overlapped \in BOOLEAN

Quiescent == pq = <<>> /\ Running = {}

\* "durable sessions [...] and in-flight queues all survive a restart": once every
\* snapshot has been written, the disk holds the queue of the session, so that a crash
\* from then on loses nothing and brings nothing back.
QueueSurvives == Quiescent => disk_session = alive /\ (alive => Loaded = inflight)

\* The same, as long as no two tasks have run at once, one between the unlock and the
\* enqueue of its snapshot; and a write that failed is made good by the next one of its
\* row, because every write holds the whole of it (in a restart before that, a queue may
\* be left without its session, until the next write of a queue for the same client).
DiskCatchesUp ==
  ~overlapped /\ Quiescent =>
    /\ "session" \notin behind => disk_session = alive
    /\ behind = {} => QueueSurvives

\* As long as no two tasks have run at once: once a discarded session has been removed
\* from the disk, none of its messages comes back in a later session with the same
\* client id, through a restart from what was written for the old one.
NoResurrection == ~overlapped => inflight \cap buried = {}

\* A message whose publisher has had a PINGRESP since stays queued until it is
\* acknowledged, dead-lettered or its session discarded, crashes included, unless a
\* write failed: the ping waits for the writes before it.
SafeSurvives ==
  ~overlapped /\ failures = 0 => safe \ (acked \cup given_up) \subseteq inflight

\* A message has one dead letter at most, and is not delivered again once it has one,
\* wherever a crash falls (as long as no two tasks have run at once and no write has
\* failed): the queue without the message is on disk before its dead letter is.  A
\* crash between the two leaves it in neither.
DeadLetterOnce ==
  ~overlapped /\ failures = 0 =>
    /\ \A i, j \in DOMAIN dead_letters : dead_letters[i] = dead_letters[j] => i = j
    /\ \A i \in DOMAIN dead_letters : dead_letters[i] \notin inflight
=================================================================================
