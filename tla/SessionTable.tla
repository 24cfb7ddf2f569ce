----------------------------- MODULE SessionTable -----------------------------
(***************************************************************************)
(* The session table of the hub (relay-server/src/hub.rs), the connection  *)
(* tasks that use it (connection.rs), the subscriptions kept for it by the *)
(* router, and the rows the persistence worker (storage.rs) keeps so that  *)
(* a durable session survives a restart.                                   *)
(*                                                                         *)
(* A step is what the code does under one lock, or one call on the         *)
(* persistence channel.  connect, detach and purge_if_idle enqueue their   *)
(* rows while they hold the sessions lock, so each is one step;  subscribe *)
(* and unsubscribe take the router lock, then the sessions lock, and then  *)
(* enqueue with no lock held, so each is three steps that other tasks, the *)
(* worker and a crash may separate.                                        *)
(*                                                                         *)
(* Time is not modelled: an expiry timer may fire at any moment after it   *)
(* has been started.                                                       *)
(***************************************************************************)
EXTENDS Integers, Sequences, FiniteSets

CONSTANTS
  Clients,        \* MQTT client identifiers
  Conns,          \* connection tasks; a finished task's name is used again
  Filters,        \* subscription strings, `$share/...` ones included
  ExpirySecs,     \* for each client, the expiry intervals it may ask for
  NO_EXPIRY,      \* the interval that means "keep for ever"
  Takeover,       \* may a client connect while its old connection is open?
  SecondConnect,  \* may a connection send CONNECT more than once?
  WriteFailures,  \* may a write to the store fail?
  MaxGeneration,  \* bound: connects in one run of the process
  MaxQueue,       \* bound: operations waiting for the worker
  MaxRestarts     \* bound: crashes

ASSUME ConstantsAssumption ==
  /\ IsFiniteSet(Clients)
  /\ "none" \notin Clients \cup Filters
  /\ ExpirySecs \in [Clients -> SUBSET Nat]
  /\ NO_EXPIRY \in Nat \ {0}
  /\ {Takeover, SecondConnect, WriteFailures} \subseteq BOOLEAN
  /\ MaxGeneration \in Nat
  /\ MaxQueue \in Nat
  /\ MaxRestarts \in Nat

VARIABLES
  by_id,          \* SessionTable.by_id: routing id -> session
  id_of,          \* SessionTable.id_of: client_id -> routing id
  generation,     \* SessionTable.generation
  next_id,        \* Inner.next_id, the next routing id
  subs,           \* the router's entries, as pairs <<routing id, filter>>
  timers,         \* purge tasks that sleep, as pairs <<routing id, generation>>
  conn,           \* the connection tasks
  queue,          \* operations on the persistence channel, oldest first
  disk_sessions,  \* the `sessions` table; 0 means that there is no row
  disk_subs,      \* the `subscriptions` table
  failed,         \* history: clients with a failed write since the start
  restarts        \* history: the crashes so far

vars == <<by_id, id_of, generation, next_id, subs, timers, conn, queue,
          disk_sessions, disk_subs, failed, restarts>>

table  == <<by_id, id_of, generation, next_id>>
disk   == <<disk_sessions, disk_subs, failed>>

(***************************************************************************)
(* Sessions and connection tasks.  Every connect makes a channel of its    *)
(* own, and a generation of its own: the channel is named by the           *)
(* generation, and tx = 0 is None.  session_id = 0 is None too.  In a      *)
(* connection task, `client` (a history value) is the client it last       *)
(* connected as, `raw` and `op` are what a subscribe or unsubscribe call   *)
(* is about, and `key` is the client_id that call has read from the table. *)
(***************************************************************************)
Session == [client_id : Clients, tx : Nat, expiry_secs : Nat, generation : Nat]

Pcs == {"closed", "open", "lookup", "enqueue"}

SubOps == {"PutSubscription", "RemoveSubscription"}

Conn == [pc : Pcs, session_id : Nat, generation : Nat,
         client : Clients \cup {"none"}, raw : Filters \cup {"none"},
         op : SubOps, key : Clients \cup {"none"}]

NoConn == [pc |-> "closed", session_id |-> 0, generation |-> 0,
           client |-> "none", raw |-> "none", op |-> "PutSubscription",
           key |-> "none"]

\* The operations on the persistence channel that concern sessions.
PutSession(cl, secs) ==
  [op |-> "PutSession", client_id |-> cl, expiry_secs |-> secs]
RemoveSession(cl) == [op |-> "RemoveSession", client_id |-> cl]
SubscriptionOp(op, cl, raw) == [op |-> op, client_id |-> cl, raw |-> raw]

PersistOp ==
  [op : {"PutSession"}, client_id : Clients, expiry_secs : Nat]
    \cup [op : {"RemoveSession"}, client_id : Clients]
    \cup [op : SubOps, client_id : Clients, raw : Filters]

\* persist_meta: the operation that makes the row follow the interval.
persist_meta(cl, secs) ==
  IF secs > 0 THEN PutSession(cl, secs) ELSE RemoveSession(cl)

\* The first routing id that Hub::new hands out.
FirstId == 1

Init ==
  /\ by_id = [i \in {} |-> 0]
  /\ id_of = [cl \in {} |-> 0]
  /\ generation = 0
  /\ next_id = FirstId
  /\ subs = {}
  /\ timers = {}
  /\ conn = [c \in Conns |-> NoConn]
  /\ queue = <<>>
  /\ disk_sessions = [cl \in Clients |-> 0]
  /\ disk_subs = {}
  /\ failed = {}
  /\ restarts = 0

-------------------------------------------------------------------------------
(***************************************************************************)
(* Maps as the code uses them: insert and remove on a HashMap, and         *)
(* Router::remove_client.                                                  *)
(***************************************************************************)
Insert(f, k, v) == [x \in DOMAIN f \cup {k} |-> IF x = k THEN v ELSE f[x]]

Without(f, k) == [x \in DOMAIN f \ {k} |-> f[x]]

remove_client_Forgotten(id) == subs
remove_client(id) == {s \in subs : s[1] # id}

\* Is the sending half of this connection's channel still in the table?
ChannelOpen(c) ==
  /\ conn[c].session_id # 0
  /\ \E i \in DOMAIN by_id : by_id[i].tx = conn[c].generation

-------------------------------------------------------------------------------
(***************************************************************************)
(* A connection is accepted;  it ends without ever having sent CONNECT     *)
(* (timeout, protocol error, closed by the peer, or refused by             *)
(* authentication or by the will's ACL).                                   *)
(***************************************************************************)
Accept(c) ==
  /\ conn[c].pc = "closed"
  /\ conn' = [conn EXCEPT ![c] = [NoConn EXCEPT !.pc = "open"]]
  /\ UNCHANGED <<table, subs, timers, queue, disk, restarts>>

DropBeforeConnect(c) ==
  /\ conn[c].pc = "open"
  /\ conn[c].session_id = 0
  /\ conn' = [conn EXCEPT ![c] = NoConn]
  /\ UNCHANGED <<table, subs, timers, queue, disk, restarts>>

(***************************************************************************)
(* Hub::connect, in its three outcomes.  MayConnect holds the bounds and   *)
(* what is assumed of the clients.                                         *)
(***************************************************************************)
MayConnect(c, cl, ops) ==
  /\ conn[c].pc = "open"
  /\ conn[c].session_id = 0 \/ SecondConnect
  /\ Takeover \/ \A d \in Conns \ {c} : conn[d].client # cl
  /\ generation < MaxGeneration
  /\ Len(queue) + Len(ops) <= MaxQueue

\* The handler's session_id, generation and rx are overwritten, whatever an
\* earlier CONNECT on the same connection left there.
\* (Mutant: the generation is not bumped.)
Attach_SameGeneration(c, cl, id) ==
  /\ generation' = generation
  /\ conn' = [conn EXCEPT ![c] = [@ EXCEPT !.session_id = id,
                                           !.generation = generation + 1,
                                           !.client = cl]]

Attach(c, cl, id) ==
  /\ generation' = generation + 1
  /\ conn' = [conn EXCEPT ![c] = [@ EXCEPT !.session_id = id,
                                           !.generation = generation + 1,
                                           !.client = cl]]

NewSession(cl, secs) ==
  [client_id |-> cl, tx |-> generation + 1, expiry_secs |-> secs,
   generation |-> generation + 1]

\* forget_persisted before persist_meta (mutant: the other way round).
CleanStartOps_Swapped(cl, secs) == <<persist_meta(cl, secs), RemoveSession(cl)>>
CleanStartOps(cl, secs) == <<RemoveSession(cl), persist_meta(cl, secs)>>

\* An existing session, clean_start: it is dropped and a new id is taken.
ConnectClean(c, cl, secs) ==
  LET ops == CleanStartOps(cl, secs)
      old == id_of[cl]
  IN /\ cl \in DOMAIN id_of
     /\ MayConnect(c, cl, ops)
     /\ by_id' = Insert(Without(by_id, old), next_id, NewSession(cl, secs))
     /\ id_of' = Insert(id_of, cl, next_id)
     /\ next_id' = next_id + 1
     /\ subs' = remove_client(old)
     /\ queue' = queue \o ops
     /\ Attach(c, cl, next_id)
     /\ UNCHANGED <<timers, disk, restarts>>

\* An existing session, resumed: channel, interval and generation are replaced.
ConnectResume(c, cl, secs) ==
  LET ops == <<persist_meta(cl, secs)>>
      id  == id_of[cl]
  IN /\ cl \in DOMAIN id_of
     /\ MayConnect(c, cl, ops)
     /\ by_id' = [by_id EXCEPT ![id] = [@ EXCEPT !.tx = generation + 1,
                                                 !.expiry_secs = secs,
                                                 !.generation = generation + 1]]
     /\ queue' = queue \o ops
     /\ Attach(c, cl, id)
     /\ UNCHANGED <<id_of, next_id, subs, timers, disk, restarts>>

\* No session of that client, whatever clean_start says.
\* (Mutant: the counter of routing ids is not advanced.)
ConnectNew_SameId(c, cl, secs) ==
  LET ops == <<persist_meta(cl, secs)>>
  IN /\ cl \notin DOMAIN id_of
     /\ MayConnect(c, cl, ops)
     /\ by_id' = Insert(by_id, next_id, NewSession(cl, secs))
     /\ id_of' = Insert(id_of, cl, next_id)
     /\ next_id' = next_id
     /\ queue' = queue \o ops
     /\ Attach(c, cl, next_id)
     /\ UNCHANGED <<subs, timers, disk, restarts>>

ConnectNew(c, cl, secs) ==
  LET ops == <<persist_meta(cl, secs)>>
  IN /\ cl \notin DOMAIN id_of
     /\ MayConnect(c, cl, ops)
     /\ by_id' = Insert(by_id, next_id, NewSession(cl, secs))
     /\ id_of' = Insert(id_of, cl, next_id)
     /\ next_id' = next_id + 1
     /\ queue' = queue \o ops
     /\ Attach(c, cl, next_id)
     /\ UNCHANGED <<subs, timers, disk, restarts>>

Connect(c) ==
  \E cl \in Clients : \E secs \in ExpirySecs[cl] :
    \/ ConnectClean(c, cl, secs)
    \/ ConnectResume(c, cl, secs)
    \/ ConnectNew(c, cl, secs)

-------------------------------------------------------------------------------
(***************************************************************************)
(* discard: remove the session, every index entry that names it, and its   *)
(* subscriptions, and enqueue the removal of its rows.  (Mutant: the index *)
(* keeps its entry.)                                                       *)
(***************************************************************************)
discard_KeepsIndex(id) ==
  /\ Len(queue) + 1 <= MaxQueue
  /\ by_id' = Without(by_id, id)
  /\ id_of' = id_of
  /\ subs' = remove_client(id)
  /\ queue' = Append(queue, RemoveSession(by_id[id].client_id))

discard(id) ==
  /\ Len(queue) + 1 <= MaxQueue
  /\ by_id' = Without(by_id, id)
  /\ id_of' = [cl \in {x \in DOMAIN id_of : id_of[x] # id} |-> id_of[cl]]
  /\ subs' = remove_client(id)
  /\ queue' = Append(queue, RemoveSession(by_id[id].client_id))

(***************************************************************************)
(* The connection's loop ends (DISCONNECT, an error, or the sending half   *)
(* of its channel is gone) and the handler calls Hub::detach with the id   *)
(* and the generation of its last CONNECT.                                 *)
(***************************************************************************)
Current_AnyGeneration(id, gen) == id \in DOMAIN by_id
Current(id, gen) == id \in DOMAIN by_id /\ by_id[id].generation = gen

\* The session stays in the table without a channel.
Offline_KeepsChannel(id) == by_id
Offline(id) == [by_id EXCEPT ![id] = [@ EXCEPT !.tx = 0]]

\* The purge task that is started, if the interval is finite.
PurgeTask_OldGeneration(id, gen, secs) ==
  IF secs # NO_EXPIRY THEN {<<id, gen - 1>>} ELSE {}
PurgeTask(id, gen, secs) == IF secs # NO_EXPIRY THEN {<<id, gen>>} ELSE {}

Superseded(id, gen) ==
  ~Current(id, gen) /\ UNCHANGED <<by_id, id_of, subs, queue, timers>>

detach(id, gen) ==
  \/ Superseded(id, gen)
  \/ /\ Current(id, gen)
     /\ by_id[id].expiry_secs = 0
     /\ discard(id)
     /\ UNCHANGED timers
  \/ /\ Current(id, gen)
     /\ by_id[id].expiry_secs # 0
     /\ by_id' = Offline(id)
     /\ timers' = timers \cup PurgeTask(id, gen, by_id[id].expiry_secs)
     /\ UNCHANGED <<id_of, subs, queue>>

Detach(c) ==
  /\ conn[c].pc = "open"
  /\ conn[c].session_id # 0
  /\ conn' = [conn EXCEPT ![c] = NoConn]
  /\ detach(conn[c].session_id, conn[c].generation)
  /\ UNCHANGED <<generation, next_id, disk, restarts>>

(***************************************************************************)
(* A purge task wakes up: Hub::purge_if_idle drops the session only if it  *)
(* is offline and still at the generation the task was started for.        *)
(***************************************************************************)
Idle_AnyGeneration(id, gen) == id \in DOMAIN by_id /\ by_id[id].tx = 0
Idle(id, gen) == Current(id, gen) /\ by_id[id].tx = 0

purge_if_idle(t) ==
  /\ timers' = timers \ {t}
  /\ \/ ~Idle(t[1], t[2]) /\ UNCHANGED <<by_id, id_of, subs, queue>>
     \/ Idle(t[1], t[2]) /\ discard(t[1])
  /\ UNCHANGED <<generation, next_id, conn, disk, restarts>>

-------------------------------------------------------------------------------
(***************************************************************************)
(* Hub::subscribe, subscribe_shared and unsubscribe: the router's entry    *)
(* first, then persist_subscription reads the client_id of a durable       *)
(* session under the sessions lock, then the operation is enqueued with    *)
(* no lock held.  Nothing checks that the session is still in the table.   *)
(***************************************************************************)
BeginSubscription(c, raw, op) ==
  /\ conn[c].pc = "open"
  /\ conn[c].session_id # 0
  /\ conn' = [conn EXCEPT ![c] = [@ EXCEPT !.pc = "lookup",
                                           !.raw = raw, !.op = op]]
  /\ UNCHANGED <<table, timers, queue, disk, restarts>>

Subscribe(c, raw) ==
  /\ BeginSubscription(c, raw, "PutSubscription")
  /\ subs' = subs \cup {<<conn[c].session_id, raw>>}

Unsubscribe(c, raw) ==
  /\ BeginSubscription(c, raw, "RemoveSubscription")
  /\ subs' = subs \ {<<conn[c].session_id, raw>>}

Finished(c) ==
  [conn EXCEPT ![c] = [@ EXCEPT !.pc = "open", !.raw = "none",
                                !.op = "PutSubscription", !.key = "none"]]

LookupClient(c) ==
  LET id == conn[c].session_id
  IN /\ conn[c].pc = "lookup"
     /\ conn' = IF id \in DOMAIN by_id /\ by_id[id].expiry_secs > 0
                  THEN [conn EXCEPT ![c] = [@ EXCEPT !.pc = "enqueue",
                                                     !.key = by_id[id].client_id]]
                  ELSE Finished(c)
     /\ UNCHANGED <<table, subs, timers, queue, disk, restarts>>

EnqueueSubscription(c) ==
  /\ conn[c].pc = "enqueue"
  /\ Len(queue) + 1 <= MaxQueue
  /\ queue' = Append(queue,
                     SubscriptionOp(conn[c].op, conn[c].key, conn[c].raw))
  /\ conn' = Finished(c)
  /\ UNCHANGED <<table, subs, timers, disk, restarts>>

-------------------------------------------------------------------------------
(***************************************************************************)
(* The persistence worker takes the oldest operation and commits it as one *)
(* transaction.  If the write fails the worker logs it and goes on with    *)
(* the next one: the operation is lost.                                    *)
(***************************************************************************)
put_session(cl, secs) ==
  /\ disk_sessions' = [disk_sessions EXCEPT ![cl] = secs]
  /\ disk_subs' = disk_subs

\* (Mutant: the subscriptions stay.)
RowsOfOthers_All(cl) == disk_subs
RowsOfOthers(cl) == {s \in disk_subs : s[1] # cl}

remove_session(cl) ==
  /\ disk_sessions' = [disk_sessions EXCEPT ![cl] = 0]
  /\ disk_subs' = RowsOfOthers(cl)

put_subscription(cl, raw) ==
  /\ disk_subs' = disk_subs \cup {<<cl, raw>>}
  /\ disk_sessions' = disk_sessions

remove_subscription(cl, raw) ==
  /\ disk_subs' = disk_subs \ {<<cl, raw>>}
  /\ disk_sessions' = disk_sessions

apply_persist_op(op) ==
  CASE op.op = "PutSession" -> put_session(op.client_id, op.expiry_secs)
    [] op.op = "RemoveSession" -> remove_session(op.client_id)
    [] op.op = "PutSubscription" -> put_subscription(op.client_id, op.raw)
    [] op.op = "RemoveSubscription" -> remove_subscription(op.client_id, op.raw)

WorkerApply ==
  /\ queue # <<>>
  /\ queue' = Tail(queue)
  /\ apply_persist_op(Head(queue))
  /\ UNCHANGED <<table, subs, timers, conn, failed, restarts>>

WorkerFails ==
  /\ WriteFailures
  /\ queue # <<>>
  /\ queue' = Tail(queue)
  /\ failed' = failed \cup {Head(queue).client_id}
  /\ UNCHANGED <<table, subs, timers, conn, disk_sessions, disk_subs, restarts>>

(***************************************************************************)
(* The process dies at any point, with whatever is still on the channel,   *)
(* and starts again: Hub::new gives every session row a routing id from 1  *)
(* on (in some order of the rows), rebuilds its subscriptions, leaves it   *)
(* offline at generation 0, and starts the clock of a finite expiry.       *)
(***************************************************************************)
Durable == {cl \in Clients : disk_sessions[cl] # 0}

Loaded(cl) == [client_id |-> cl, tx |-> 0, expiry_secs |-> disk_sessions[cl],
               generation |-> 0]

Reload(n, row) ==
  /\ {row[i] : i \in 1..n} = Durable
  /\ \A i, j \in 1..n : row[i] = row[j] => i = j
  /\ by_id' = [i \in 1..n |-> Loaded(row[i])]
  /\ id_of' = [cl \in Durable |-> CHOOSE i \in 1..n : row[i] = cl]
  /\ next_id' = n + 1
  /\ subs' = {s \in (1..n) \X Filters : <<row[s[1]], s[2]>> \in disk_subs}
  /\ timers' = {t \in (1..n) \X {0} : disk_sessions[row[t[1]]] # NO_EXPIRY}

Restart ==
  /\ restarts < MaxRestarts
  /\ restarts' = restarts + 1
  /\ \E n \in 0..Cardinality(Clients) :
       \E row \in [1..n -> Clients] : Reload(n, row)
  /\ generation' = 0
  /\ conn' = [c \in Conns |-> NoConn]
  /\ queue' = <<>>
  /\ failed' = {}
  /\ UNCHANGED <<disk_sessions, disk_subs>>

-------------------------------------------------------------------------------
ConnStep(c) ==
  \/ Accept(c)
  \/ DropBeforeConnect(c)
  \/ Connect(c)
  \/ Detach(c)
  \/ \E raw \in Filters : Subscribe(c, raw) \/ Unsubscribe(c, raw)
  \/ LookupClient(c)
  \/ EnqueueSubscription(c)

Next ==
  \/ \E c \in Conns : ConnStep(c)
  \/ \E t \in timers : purge_if_idle(t)
  \/ WorkerApply
  \/ WorkerFails
  \/ Restart

Spec == Init /\ [][Next]_vars

(***************************************************************************)
(* Fairness.  The runtime wakes a purge task whose time has come, and the  *)
(* worker thread drains its channel.  The bound MaxQueue, which the code   *)
(* does not have, may disable the purge for as long as the worker is       *)
(* behind: it is given strong fairness.  Nothing is assumed of the         *)
(* clients, of their connections or of the failures.                       *)
(***************************************************************************)
Fairness ==
  /\ SF_vars(\E t \in timers : purge_if_idle(t))
  /\ WF_vars(WorkerApply \/ WorkerFails)

FairSpec == Spec /\ Fairness

-------------------------------------------------------------------------------
\* Every variable has its type (the fields of the structs in hub.rs and
\* storage.rs, the locals of connection.rs).
TypeOK ==
  /\ DOMAIN by_id \subseteq Nat \ {0}
  /\ \A i \in DOMAIN by_id : by_id[i] \in Session
  /\ DOMAIN id_of \subseteq Clients
  /\ \A cl \in DOMAIN id_of : id_of[cl] \in Nat \ {0}
  /\ generation \in Nat
  /\ next_id \in Nat \ {0}
  /\ subs \subseteq (Nat \ {0}) \X Filters
  /\ timers \subseteq (Nat \ {0}) \X Nat
  /\ conn \in [Conns -> Conn]
  /\ queue \in Seq(PersistOp)
  /\ disk_sessions \in [Clients -> Nat]
  /\ disk_subs \subseteq Clients \X Filters
  /\ failed \subseteq Clients
  /\ restarts \in Nat

\* The two indexes of the table agree: `id_of` and `by_id` describe the same
\* sessions.  It is why the expect("index/table consistency") of a resuming
\* connect never panics, and why no session is left that nobody can resume.
TableConsistent ==
  /\ \A cl \in DOMAIN id_of : /\ id_of[cl] \in DOMAIN by_id
                              /\ by_id[id_of[cl]].client_id = cl
  /\ \A i \in DOMAIN by_id : /\ by_id[i].client_id \in DOMAIN id_of
                             /\ id_of[by_id[i].client_id] = i

\* A connection, even one that was taken over long ago, acts on no session but
\* its own client's: the routing id it holds is never given to another client.
OwnSession ==
  \A c \in Conns :
    conn[c].session_id \in DOMAIN by_id =>
      by_id[conn[c].session_id].client_id = conn[c].client

\* After any sequence of takeovers at most one connection of a client is still
\* fed by the hub.
OneReceiver ==
  \A c, d \in Conns :
    /\ ChannelOpen(c)
    /\ ChannelOpen(d)
    /\ conn[c].client = conn[d].client
    => c = d

\* `tx` is None while the client is disconnected (the comment on Session.tx): a
\* session that is online belongs to a connection that will detach it.
OnlineHasConnection ==
  \A i \in DOMAIN by_id :
    by_id[i].tx # 0 =>
      \E c \in Conns : /\ conn[c].session_id = i
                       /\ conn[c].generation = by_id[i].tx

\* The `sessions` table follows the session table, with the delay of the queue:
\* for a client whose writes have not failed, the last row operation queued for
\* it - or its row, when none is queued - says what the table says.  A crash
\* then loses the newest changes of a client but never leaves a row that a later
\* operation had undone.
IsRowOp(op, cl) ==
  op.op \in {"PutSession", "RemoveSession"} /\ op.client_id = cl

RowOf(op) == IF op.op = "PutSession" THEN op.expiry_secs ELSE 0

ExpiryOf(cl) ==
  IF cl \in DOMAIN id_of THEN by_id[id_of[cl]].expiry_secs ELSE 0

Follows(q, row, secs, cl) ==
  /\ (\A i \in 1..Len(q) : ~IsRowOp(q[i], cl)) => row = secs
  /\ \A i \in 1..Len(q) :
       /\ IsRowOp(q[i], cl)
       /\ \A j \in (i + 1)..Len(q) : ~IsRowOp(q[j], cl)
       => RowOf(q[i]) = secs

SessionRowsFollow ==
  \A cl \in Clients \ failed :
    Follows(queue, disk_sessions[cl], ExpiryOf(cl), cl)

\* remove_client is called for every session that goes: the router holds no
\* entry for an id that is not in the table.
NoOrphanRoute == \A s \in subs : s[1] \in DOMAIN by_id

\* Subscriptions of durable sessions survive a restart: when every call has
\* finished and the queue is drained, the `subscriptions` table holds exactly
\* the subscriptions of the durable sessions.
Quiescent == queue = <<>> /\ \A c \in Conns : conn[c].pc \in {"closed", "open"}

SubscriptionsOnDisk ==
  Quiescent =>
    disk_subs = {s \in Clients \X Filters : /\ ExpiryOf(s[1]) > 0
                                            /\ <<id_of[s[1]], s[2]>> \in subs}

-------------------------------------------------------------------------------
\* A session that is online is put offline, dropped or moved to another channel
\* only by the end of its own connection, by a newer connection of the same
\* client, or by a crash.  No stale detach and no purge task does it.
TakenOver(cl) ==
  /\ generation' > generation
  /\ cl \in DOMAIN id_of'
  /\ by_id'[id_of'[cl]].tx = generation'

Ends(i) ==
  \E c \in Conns : /\ conn[c].session_id = i
                   /\ conn[c].generation = by_id[i].generation
                   /\ conn[c].pc # "closed"
                   /\ conn'[c].pc = "closed"

OnlineUntilOwnEnd ==
  [][ \/ restarts' # restarts
      \/ \A i \in DOMAIN by_id :
           \/ by_id[i].tx = 0
           \/ i \in DOMAIN by_id' /\ by_id'[i].tx = by_id[i].tx
           \/ TakenOver(by_id[i].client_id)
           \/ Ends(i) ]_vars

\* A session whose last CONNECT asked never to expire is dropped only by a clean
\* start of the same client - in particular not by a purge task left over from
\* an earlier connection that had asked for a finite interval.
KeptForEver ==
  [][ \/ restarts' # restarts
      \/ \A i \in DOMAIN by_id :
           \/ by_id[i].expiry_secs # NO_EXPIRY
           \/ i \in DOMAIN by_id'
           \/ TakenOver(by_id[i].client_id) ]_vars

\* A session with a finite expiry does not stay offline for ever: it is purged,
\* or its client comes back.
OfflineFinite(cl) ==
  /\ cl \in DOMAIN id_of
  /\ by_id[id_of[cl]].tx = 0
  /\ by_id[id_of[cl]].expiry_secs # NO_EXPIRY

ExpiryComes == \A cl \in Clients : OfflineFinite(cl) ~> ~OfflineFinite(cl)
===============================================================================
