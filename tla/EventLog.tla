-------------------------------- MODULE EventLog --------------------------------
(***************************************************************************)
(* The event log: Hub::publish journals every application message through  *)
(* the persistence worker (append_event), and a PUBLISH on $replay/...     *)
(* reads the log back, after a flush (Hub::flush, Hub::replay).  The       *)
(* dashboard reports how far the log has come (Hub::stats).                *)
(***************************************************************************)
EXTENDS Integers, SequencesExt, FiniteSetsExt

CONSTANTS
  Tasks,         \* connections, which publish and ask for replays
  Retentions,    \* the values that event_log_max has, one at each start
  MaxEvents,     \* bound: messages published
  MaxQueue,      \* bound: operations waiting for the persistence worker
  MaxCrashes,    \* bound: restarts
  MaxFailures    \* bound: writes that fail

ASSUME LogAssumption ==
  /\ IsFiniteSet(Tasks)
  /\ Retentions \subseteq Nat /\ Retentions # {}
  /\ MaxEvents \in Nat /\ MaxQueue \in Nat /\ MaxCrashes \in Nat /\ MaxFailures \in Nat

VARIABLES
  event_log_max,  \* Inner.event_log_max
  pq,             \* operations waiting for the persistence worker
  events,         \* the rows of EVENTS: a function from offsets to messages
  pc,             \* what each task is doing
  from,           \* a replay: the first offset asked for
  own,            \* history: the journalled messages each task published
  replayed,       \* history: the rows each task was sent by its last replay
  published,      \* history: the number of messages published
  assigned,       \* history: every row there ever was
  failed,         \* history: the messages whose write failed
  crashes,        \* history: the restarts so far
  stats           \* the figures of Stats that the dashboard has read so far

tasks == <<pc, from, own, replayed>>
log   == <<events, assigned, failed>>

vars == <<event_log_max, pq, log, tasks, published, crashes, stats>>

Message == 1..MaxEvents
Row == Nat \X Message

Init ==
  /\ event_log_max \in Retentions
  /\ pq = <<>>
  /\ events = [o \in {} |-> 0]
  /\ pc = [t \in Tasks |-> "idle"]
  /\ from = [t \in Tasks |-> 0]
  /\ own = [t \in Tasks |-> <<>>]
  /\ replayed = [t \in Tasks |-> {}]
  /\ published = 0
  /\ assigned = {} /\ failed = {}
  /\ crashes = 0
  /\ stats = <<>>

Offsets == DOMAIN events
Rows(f) == {<<o, f[o]>> : o \in DOMAIN f}

enqueue(op) == Len(pq) < MaxQueue /\ pq' = Append(pq, op)

-------------------------------------------------------------------------------
\* Hub::publish; topics that begin with '$' are not journalled.
publish(t) ==
  /\ pc[t] = "idle"
  /\ published < MaxEvents
  /\ published' = published + 1
  /\ \/ /\ event_log_max > 0
        /\ enqueue([op |-> "AppendEvent", msg |-> published + 1, retention |-> event_log_max])
        /\ own' = [own EXCEPT ![t] = Append(@, published + 1)]
     \/ UNCHANGED <<pq, own>>
  /\ UNCHANGED <<event_log_max, log, pc, from, replayed, crashes, stats>>

\* $replay/{from}/{filter}: the connection waits until the worker has come to its
\* Flush, then reads the log.  (Mutant: it does not wait.)
AfterFlushSent_NoWait == "replay"
AfterFlushSent == "flushing"

RequestReplay(t, n) ==
  /\ pc[t] = "idle"
  /\ enqueue([op |-> "Flush", ack |-> t])
  /\ pc' = [pc EXCEPT ![t] = AfterFlushSent]
  /\ from' = [from EXCEPT ![t] = n]
  /\ UNCHANGED <<event_log_max, log, own, replayed, published, crashes, stats>>

\* load_events: the rows from an offset on.
load_events(n) == {r \in Rows(events) : r[1] >= n}

replay(t) ==
  /\ pc[t] = "replay"
  /\ pc' = [pc EXCEPT ![t] = "checked"]
  /\ replayed' = [replayed EXCEPT ![t] = load_events(from[t])]
  /\ UNCHANGED <<event_log_max, pq, log, from, own, published, crashes, stats>>

\* The connection acknowledges the request and goes on.
Acknowledge(t) ==
  /\ pc[t] = "checked"
  /\ pc' = [pc EXCEPT ![t] = "idle"]
  /\ UNCHANGED <<event_log_max, pq, log, from, own, replayed, published, crashes, stats>>

-------------------------------------------------------------------------------
(***************************************************************************)
(* The worker: append_event gives the message the offset after the last    *)
(* one and removes the oldest rows beyond the retention.                   *)
(***************************************************************************)
\* (Mutant: the number of rows.)
NextOffset_Count == Cardinality(Offsets)
NextOffset == IF Offsets = {} THEN 0 ELSE Max(Offsets) + 1

\* (Mutant: the newest rows go.)
Kept_KeepsOldest(rows, retention) ==
  {o \in rows : retention = 0 \/ Cardinality({p \in rows : p < o}) < retention}
Kept(rows, retention) ==
  {o \in rows : retention = 0 \/ Cardinality({p \in rows : p > o}) < retention}

append_event(m, retention) ==
  LET o == NextOffset
      rows == Kept(Offsets \cup {o}, retention)
  IN /\ events' = [x \in rows |-> IF x = o THEN m ELSE events[x]]
     /\ assigned' = assigned \cup {<<o, m>>}

run_persist_worker ==
  /\ pq # <<>>
  /\ pq' = Tail(pq)
  /\ \/ /\ Head(pq).op = "AppendEvent"
        /\ append_event(Head(pq).msg, Head(pq).retention)
        /\ UNCHANGED pc
     \/ /\ Head(pq).op = "Flush"
        /\ pc' = IF pc[Head(pq).ack] = "flushing"
                   THEN [pc EXCEPT ![Head(pq).ack] = "replay"] ELSE pc
        /\ UNCHANGED <<events, assigned>>
  /\ UNCHANGED <<event_log_max, from, own, replayed, published, failed, crashes, stats>>

\* append_event fails: the worker logs it and goes on.
WriteFails ==
  /\ pq # <<>> /\ Head(pq).op = "AppendEvent"
  /\ Cardinality(failed) < MaxFailures
  /\ pq' = Tail(pq)
  /\ failed' = failed \cup {Head(pq).msg}
  /\ UNCHANGED <<event_log_max, events, assigned, tasks, published, crashes, stats>>

\* A crash and the next start, with another setting perhaps.
Restart ==
  /\ crashes < MaxCrashes
  /\ crashes' = crashes + 1
  /\ event_log_max' \in Retentions
  /\ pq' = <<>>
  /\ pc' = [t \in Tasks |-> "idle"]
  /\ from' = [t \in Tasks |-> 0]
  /\ own' = [t \in Tasks |-> <<>>]
  /\ replayed' = [t \in Tasks |-> {}]
  /\ stats' = <<>>
  /\ UNCHANGED <<log, published>>

-------------------------------------------------------------------------------
(***************************************************************************)
(* GET /stats: event_count and then next_offset, each in a transaction of  *)
(* its own, while the worker goes on.                                      *)
(***************************************************************************)
\* (Mutant: the other way round.)
Figures_OffsetFirst == <<"next_offset", "events">>
Figures == <<"events", "next_offset">>

Reading(figure) == IF figure = "events" THEN Cardinality(Offsets) ELSE NextOffset

ReadFigure ==
  /\ Len(stats) < Len(Figures)
  /\ stats' = Append(stats, Reading(Figures[Len(stats) + 1]))
  /\ UNCHANGED <<event_log_max, pq, log, tasks, published, crashes>>

\* The answer is sent.
Respond ==
  /\ Len(stats) = Len(Figures)
  /\ stats' = <<>>
  /\ UNCHANGED <<event_log_max, pq, log, tasks, published, crashes>>

Figure(name) == stats[CHOOSE i \in DOMAIN Figures : Figures[i] = name]

-------------------------------------------------------------------------------

TaskStep(t) ==
  \/ publish(t)
  \/ \E n \in 0..MaxEvents : RequestReplay(t, n)
  \/ replay(t)
  \/ Acknowledge(t)

Next ==
  \/ \E t \in Tasks : TaskStep(t)
  \/ run_persist_worker
  \/ WriteFails
  \/ Restart
  \/ ReadFigure
  \/ Respond

Spec == Init /\ [][Next]_vars

-------------------------------------------------------------------------------
(***************************************************************************)
(* Properties                                                              *)
(***************************************************************************)
\* "Offsets are never reused": no two messages are ever given the same offset, and
\* no message two, whatever is pruned and however often the broker restarts with
\* another retention.
OffsetsUnique ==
  \A r, s \in assigned : r[1] = s[1] \/ r[2] = s[2] => r = s

\* "a global, monotonically increasing offset": the log is a gapless stretch that ends
\* with the last offset that was given out, so pruning takes only the oldest.
NewestKept ==
  assigned # {} =>
    LET last == Max({r[1] : r \in assigned})
    IN \E first \in 0..last : Offsets = first..last

\* A connection that asks for a replay is sent everything that it has itself
\* published before, in the order in which it did, unless it was pruned, lies before
\* the offset asked for, or could not be written.
ReadsOwnWrites ==
  \A t \in Tasks : pc[t] = "checked" =>
    LET mine == {r \in assigned : \E i \in DOMAIN own[t] : own[t][i] = r[2]}
    IN /\ \A i \in DOMAIN own[t] : own[t][i] \in failed \cup {r[2] : r \in mine}
       /\ \A r \in mine : r \in replayed[t] \/ r[1] < from[t] \/ r[1] \notin Offsets
       /\ \A r, q \in mine : q[2] < r[2] => q[1] < r[1]

\* The dashboard never reports more events in the log than offsets given out ("the
\* log's high-water mark"), although it reads the two at different times.
StatsAgree ==
  Len(stats) = Len(Figures) => Figure("events") <= Figure("next_offset")
=================================================================================
