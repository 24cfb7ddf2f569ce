-------------------------- MODULE SessionTableProofs --------------------------
(***************************************************************************)
(* The session table, for every number of clients and connections and      *)
(* every value of the bounds: its types, its inductive invariant, what     *)
(* follows from it for the connections, what a step may do to a session,   *)
(* and the rows that the persistence worker keeps for it.                  *)
(***************************************************************************)
EXTENDS SessionTable, SequenceTheorems, TLAPS

(***************************************************************************)
(* What a subscribe or unsubscribe call carries between its steps.         *)
(***************************************************************************)
CallInv ==
  \A c \in Conns :
    /\ conn[c].pc \in {"lookup", "enqueue"} => conn[c].raw \in Filters
    /\ conn[c].pc = "enqueue" => conn[c].key \in Clients

-------------------------------------------------------------------------------
(***************************************************************************)
(* Lemmas about the queue.                                                 *)
(***************************************************************************)

\* The operations that the code enqueues are operations of the channel.
LEMMA OpTypes ==
  ASSUME NEW cl \in Clients, NEW secs \in Nat
  PROVE  /\ PutSession(cl, secs) \in PersistOp
         /\ RemoveSession(cl) \in PersistOp
         /\ persist_meta(cl, secs) \in PersistOp
         /\ \A op \in SubOps, raw \in Filters :
              SubscriptionOp(op, cl, raw) \in PersistOp
  BY DEF PutSession, RemoveSession, persist_meta, SubscriptionOp, PersistOp

\* Sending one operation is Append, sending two is Append twice.
LEMMA SendOne ==
  ASSUME NEW S, NEW q \in Seq(S), NEW a \in S
  PROVE  q \o <<a>> = Append(q, a)
  BY AppendIsConcat

LEMMA SendTwo ==
  ASSUME NEW S, NEW q \in Seq(S), NEW a \in S, NEW b \in S
  PROVE  q \o <<a, b>> = Append(Append(q, a), b)
  <1>1. q \o <<a, b>> \in Seq(S) /\ Append(Append(q, a), b) \in Seq(S)
    OBVIOUS
  <1>2. Len(q \o <<a, b>>) = Len(Append(Append(q, a), b))
    OBVIOUS
  <1>3. \A i \in 1..Len(q \o <<a, b>>) :
          (q \o <<a, b>>)[i] = Append(Append(q, a), b)[i]
    OBVIOUS
  <1> QED  BY <1>1, <1>2, <1>3, SeqEqual

\* An operation on the client's row is, once sent, the last one.
LEMMA FollowsLast ==
  ASSUME NEW q \in Seq(PersistOp), NEW op \in PersistOp, NEW cl, NEW row,
         IsRowOp(op, cl)
  PROVE  Follows(Append(q, op), row, RowOf(op), cl)
  BY AppendProperties DEF Follows

\* Any other operation leaves the last one what it was.
LEMMA FollowsOther ==
  ASSUME NEW q \in Seq(PersistOp), NEW op \in PersistOp, NEW cl, NEW row,
         NEW secs, ~IsRowOp(op, cl), Follows(q, row, secs, cl)
  PROVE  Follows(Append(q, op), row, secs, cl)
  <1> DEFINE r == Append(q, op)
  <1>1. /\ Len(r) = Len(q) + 1 /\ Len(q) \in Nat
        /\ \A i \in 1..Len(q) : r[i] = q[i]
        /\ r[Len(q) + 1] = op
    BY AppendProperties, LenProperties
  <1> HIDE DEF r
  <1>2. (\A i \in 1..Len(r) : ~IsRowOp(r[i], cl)) => row = secs
    BY <1>1 DEF Follows
  <1>3. ASSUME NEW i \in 1..Len(r), IsRowOp(r[i], cl),
               \A j \in (i + 1)..Len(r) : ~IsRowOp(r[j], cl)
        PROVE  RowOf(r[i]) = secs
    <2>1. i \in 1..Len(q) /\ r[i] = q[i]
      BY <1>1, <1>3
    <2>2. \A j \in (i + 1)..Len(q) : ~IsRowOp(q[j], cl)
      BY <1>1, <1>3, <2>1
    <2> QED  BY <1>3, <2>1, <2>2 DEF Follows
  <1>4. Follows(r, row, secs, cl)
    BY <1>2, <1>3, Zenon DEF Follows
  <1> QED  BY <1>4 DEF r

\* The worker takes the oldest operation: either it is on this client's row and
\* the row becomes what it says, or the row does not matter to it.
LEMMA FollowsTail ==
  ASSUME NEW q \in Seq(PersistOp), q # <<>>, NEW cl, NEW row, NEW secs,
         Follows(q, row, secs, cl)
  PROVE  /\ IsRowOp(Head(q), cl) => Follows(Tail(q), RowOf(Head(q)), secs, cl)
         /\ ~IsRowOp(Head(q), cl) => Follows(Tail(q), row, secs, cl)
  <1> DEFINE r == Tail(q)
  <1>1. /\ Len(r) = Len(q) - 1 /\ Len(q) \in Nat \ {0}
        /\ \A i \in 1..Len(r) : r[i] = q[i + 1]
        /\ Head(q) = q[1]
    BY HeadTailProperties, LenProperties, EmptySeq
  <1> HIDE DEF r
  <1>2. ASSUME NEW i \in 1..Len(r), IsRowOp(r[i], cl),
               \A j \in (i + 1)..Len(r) : ~IsRowOp(r[j], cl)
        PROVE  RowOf(r[i]) = secs
    <2>1. i + 1 \in 1..Len(q) /\ r[i] = q[i + 1]
      BY <1>1
    <2>2. ASSUME NEW j \in (i + 2)..Len(q)
          PROVE  ~IsRowOp(q[j], cl)
      <3>1. j - 1 \in (i + 1)..Len(r) /\ r[j - 1] = q[j]
        BY <1>1
      <3> QED  BY <1>2, <3>1
    <2> QED  BY <1>2, <2>1, <2>2 DEF Follows
  <1>3. CASE IsRowOp(Head(q), cl)
    <2>1. (\A i \in 1..Len(r) : ~IsRowOp(r[i], cl)) => RowOf(Head(q)) = secs
      <3> SUFFICES ASSUME \A i \in 1..Len(r) : ~IsRowOp(r[i], cl)
                   PROVE  RowOf(q[1]) = secs
        BY <1>1
      <3>1. ASSUME NEW j \in 2..Len(q)
            PROVE  ~IsRowOp(q[j], cl)
        <4>1. j - 1 \in 1..Len(r) /\ r[j - 1] = q[j]
          BY <1>1
        <4> QED  BY <4>1
      <3> QED  BY <1>1, <1>3, <3>1 DEF Follows
    <2> QED  BY <1>2, <1>3, <2>1 DEF Follows, r
  <1>4. CASE ~IsRowOp(Head(q), cl)
    <2>1. (\A i \in 1..Len(r) : ~IsRowOp(r[i], cl)) => row = secs
      <3> SUFFICES ASSUME \A i \in 1..Len(r) : ~IsRowOp(r[i], cl)
                   PROVE  row = secs
        OBVIOUS
      <3>1. ASSUME NEW j \in 1..Len(q)
            PROVE  ~IsRowOp(q[j], cl)
        <4>1. CASE j = 1
          BY <1>1, <1>4, <4>1
        <4>2. CASE j # 1
          <5>1. j - 1 \in 1..Len(r) /\ r[j - 1] = q[j]
            BY <1>1, <4>2
          <5> QED  BY <5>1
        <4> QED  BY <4>1, <4>2
      <3> QED  BY <3>1 DEF Follows
    <2> QED  BY <1>2, <1>4, <2>1 DEF Follows, r
  <1> QED  BY <1>3, <1>4

-------------------------------------------------------------------------------
(***************************************************************************)
(* Types.                                                                  *)
(***************************************************************************)
Typed == TypeOK /\ CallInv

\* A session that connect makes is well formed.
LEMMA NewSessionType ==
  ASSUME Typed, NEW cl \in Clients, NEW secs \in Nat
  PROVE  NewSession(cl, secs) \in Session
  BY DEF Typed, TypeOK, NewSession, Session

\* A session that connect resumes is well formed, and still its client's.
LEMMA ResumedSession ==
  ASSUME NEW s \in Session, NEW gen \in Nat, NEW secs \in Nat
  PROVE  LET r == [s EXCEPT !.tx = gen, !.expiry_secs = secs,
                            !.generation = gen]
         IN /\ r \in Session
            /\ r.client_id = s.client_id
            /\ r.tx = gen
            /\ r.expiry_secs = secs
            /\ r.generation = gen
  BY ZenonT(30) DEF Session

\* A connection task replaced by a well-formed one.
LEMMA ConnTyped ==
  ASSUME Typed, NEW c \in Conns, NEW r \in Conn,
         conn' = [conn EXCEPT ![c] = r],
         r.pc \in {"lookup", "enqueue"} => r.raw \in Filters,
         r.pc = "enqueue" => r.key \in Clients
  PROVE  conn' \in [Conns -> Conn] /\ CallInv'
  BY DEF Typed, TypeOK, CallInv

\* Attach keeps the connection well formed.
LEMMA AttachTyped ==
  ASSUME Typed, NEW c \in Conns, NEW cl \in Clients, NEW id \in Nat,
         conn[c].pc = "open", Attach(c, cl, id)
  PROVE  /\ generation' \in Nat
         /\ conn' \in [Conns -> Conn]
         /\ CallInv'
  <1> DEFINE r == [conn[c] EXCEPT !.session_id = id,
                                  !.generation = generation + 1,
                                  !.client = cl]
  <1>1. conn[c] \in Conn /\ generation + 1 \in Nat
    BY DEF Typed, TypeOK
  <1>2. r \in Conn /\ r.pc = "open"
    BY ZenonT(30), <1>1 DEF Conn
  <1>3. conn' = [conn EXCEPT ![c] = r] /\ generation' = generation + 1
    BY DEF Attach
  <1> QED  BY ZenonT(30), <1>1, <1>2, <1>3, ConnTyped

\* The table without one session, and with one more, is well formed.
LEMMA DiscardTyped ==
  ASSUME Typed, NEW id \in DOMAIN by_id, discard(id)
  PROVE  /\ DOMAIN by_id' \subseteq Nat \ {0}
         /\ \A i \in DOMAIN by_id' : by_id'[i] \in Session
         /\ DOMAIN id_of' \subseteq Clients
         /\ \A cl \in DOMAIN id_of' : id_of'[cl] \in Nat \ {0}
         /\ subs' \subseteq (Nat \ {0}) \X Filters
         /\ queue' \in Seq(PersistOp)
  <1>1. by_id[id].client_id \in Clients
    BY DEF Typed, TypeOK, Session
  <1>2. RemoveSession(by_id[id].client_id) \in PersistOp
    BY <1>1 DEF RemoveSession, PersistOp
  <1>3. queue' \in Seq(PersistOp)
    BY <1>2, AppendProperties DEF Typed, TypeOK, discard
  <1> QED  BY <1>3 DEF Typed, TypeOK, discard, Without, remove_client

\* Init establishes the types.
LEMMA InitTyped == Init => Typed
  <1> SUFFICES ASSUME Init PROVE Typed
    OBVIOUS
  <1>1. NoConn \in Conn
    BY DEF NoConn, Conn, Pcs, SubOps
  <1>2. queue \in Seq(PersistOp)
    BY EmptySeq DEF Init
  <1> QED  BY <1>1, <1>2 DEF Init, FirstId, Typed, TypeOK, CallInv, NoConn

\* The three outcomes of connect keep the types.
LEMMA ConnectTyped ==
  ASSUME Typed, NEW c \in Conns, Connect(c)
  PROVE  Typed'
  <1>0. PICK cl \in Clients : \E secs \in ExpirySecs[cl] :
               \/ ConnectClean(c, cl, secs)
               \/ ConnectResume(c, cl, secs)
               \/ ConnectNew(c, cl, secs)
    BY DEF Connect
  <1>1. PICK secs \in ExpirySecs[cl] :
               \/ ConnectClean(c, cl, secs)
               \/ ConnectResume(c, cl, secs)
               \/ ConnectNew(c, cl, secs)
    BY <1>0
  <1>2. secs \in Nat
    BY ConstantsAssumption
  <1>3. /\ NewSession(cl, secs) \in Session
        /\ RemoveSession(cl) \in PersistOp
        /\ persist_meta(cl, secs) \in PersistOp
    BY <1>2, NewSessionType, OpTypes
  <1>4. CASE ConnectClean(c, cl, secs)
    <2>1. /\ Attach(c, cl, next_id)
          /\ conn[c].pc = "open"
      BY <1>4 DEF ConnectClean, MayConnect
    <2>2. queue' \in Seq(PersistOp)
      BY <1>3, <1>4, SendTwo, AppendProperties
      DEF ConnectClean, CleanStartOps, Typed, TypeOK
    <2>3. /\ DOMAIN by_id' \subseteq Nat \ {0}
          /\ \A i \in DOMAIN by_id' : by_id'[i] \in Session
          /\ DOMAIN id_of' \subseteq Clients
          /\ \A x \in DOMAIN id_of' : id_of'[x] \in Nat \ {0}
          /\ subs' \subseteq (Nat \ {0}) \X Filters
      BY <1>3, <1>4
      DEF ConnectClean, Insert, Without, remove_client, Typed, TypeOK
    <2>4. generation' \in Nat /\ conn' \in [Conns -> Conn] /\ CallInv'
      BY <2>1, AttachTyped DEF Typed, TypeOK
    <2>5. /\ next_id' \in Nat \ {0}
          /\ UNCHANGED <<timers, disk_sessions, disk_subs, failed, restarts>>
      BY <1>4 DEF ConnectClean, disk, Typed, TypeOK
    <2> QED
      BY <1>4, <2>2, <2>3, <2>4, <2>5 DEF ConnectClean, Typed, TypeOK
  <1>5. CASE ConnectResume(c, cl, secs)
    <2>1. /\ Attach(c, cl, id_of[cl])
          /\ conn[c].pc = "open"
          /\ id_of[cl] \in Nat
      BY <1>5 DEF ConnectResume, MayConnect, Typed, TypeOK
    <2>2. queue' \in Seq(PersistOp)
      BY <1>3, <1>5, SendOne, AppendProperties
      DEF ConnectResume, Typed, TypeOK
    <2>3. /\ DOMAIN by_id' \subseteq Nat \ {0}
          /\ \A i \in DOMAIN by_id' : by_id'[i] \in Session
      <3> DEFINE r == [by_id[id_of[cl]] EXCEPT !.tx = generation + 1,
                                               !.expiry_secs = secs,
                                               !.generation = generation + 1]
      <3>1. by_id' = [by_id EXCEPT ![id_of[cl]] = r]
        BY <1>5 DEF ConnectResume
      <3>2. ASSUME by_id[id_of[cl]] \in Session PROVE r \in Session
        <4>1. generation + 1 \in Nat
          BY DEF Typed, TypeOK
        <4> QED  BY ZenonT(30), <1>2, <3>2, <4>1, ResumedSession
      <3> HIDE DEF r
      <3>3. /\ DOMAIN by_id' = DOMAIN by_id
            /\ \A i \in DOMAIN by_id :
                 by_id'[i] = IF i = id_of[cl] THEN r ELSE by_id[i]
        BY <3>1
      <3> QED  BY <3>2, <3>3 DEF Typed, TypeOK
    <2>4. generation' \in Nat /\ conn' \in [Conns -> Conn] /\ CallInv'
      BY <2>1, AttachTyped DEF Typed, TypeOK
    <2>5. /\ next_id' \in Nat \ {0}
          /\ UNCHANGED <<timers, disk_sessions, disk_subs, failed, restarts>>
      BY <1>5 DEF ConnectResume, disk, Typed, TypeOK
    <2> QED
      BY <1>5, <2>2, <2>3, <2>4, <2>5 DEF ConnectResume, Typed, TypeOK
  <1>6. CASE ConnectNew(c, cl, secs)
    <2>1. /\ Attach(c, cl, next_id)
          /\ conn[c].pc = "open"
      BY <1>6 DEF ConnectNew, MayConnect
    <2>2. queue' \in Seq(PersistOp)
      BY <1>3, <1>6, SendOne, AppendProperties
      DEF ConnectNew, Typed, TypeOK
    <2>3. /\ DOMAIN by_id' \subseteq Nat \ {0}
          /\ \A i \in DOMAIN by_id' : by_id'[i] \in Session
          /\ DOMAIN id_of' \subseteq Clients
          /\ \A x \in DOMAIN id_of' : id_of'[x] \in Nat \ {0}
      BY <1>3, <1>6 DEF ConnectNew, Insert, Typed, TypeOK
    <2>4. generation' \in Nat /\ conn' \in [Conns -> Conn] /\ CallInv'
      BY <2>1, AttachTyped DEF Typed, TypeOK
    <2>5. /\ next_id' \in Nat \ {0}
          /\ UNCHANGED <<timers, disk_sessions, disk_subs, failed, restarts>>
      BY <1>6 DEF ConnectNew, disk, Typed, TypeOK
    <2> QED
      BY <1>6, <2>2, <2>3, <2>4, <2>5 DEF ConnectNew, Typed, TypeOK
  <1> QED  BY <1>1, <1>4, <1>5, <1>6

\* A closed connection is well formed, and so is an accepted one.
LEMMA NoConnType ==
  /\ NoConn \in Conn
  /\ NoConn.pc = "closed"
  /\ [NoConn EXCEPT !.pc = "open"] \in Conn
  /\ [NoConn EXCEPT !.pc = "open"].pc = "open"
  BY DEF NoConn, Conn, Pcs, SubOps

\* The steps of a connection other than connect keep the types.
LEMMA AcceptTyped ==
  ASSUME Typed, NEW c \in Conns, Accept(c) \/ DropBeforeConnect(c)
  PROVE  Typed'
  <1>1. conn' \in [Conns -> Conn] /\ CallInv'
    BY ZenonT(30), NoConnType, ConnTyped DEF Accept, DropBeforeConnect
  <1>2. UNCHANGED <<by_id, id_of, generation, next_id, subs, timers, queue,
                    disk_sessions, disk_subs, failed, restarts>>
    BY DEF Accept, DropBeforeConnect, table, disk
  <1> QED  BY <1>1, <1>2 DEF Typed, TypeOK

LEMMA DetachTyped ==
  ASSUME Typed, NEW c \in Conns, Detach(c)
  PROVE  Typed'
  <1> DEFINE id == conn[c].session_id
             gen == conn[c].generation
  <1>1. id \in Nat \ {0} /\ gen \in Nat
    BY DEF Detach, Typed, TypeOK, Conn
  <1>2. conn' \in [Conns -> Conn] /\ CallInv'
    BY ZenonT(30), NoConnType, ConnTyped DEF Detach
  <1>3. UNCHANGED <<generation, next_id, disk_sessions, disk_subs, failed,
                    restarts>>
    BY DEF Detach, disk
  <1>4. detach(id, gen)
    BY DEF Detach
  <1> HIDE DEF id, gen
  <1>5. CASE Superseded(id, gen)
    BY <1>2, <1>3, <1>5 DEF Superseded, Typed, TypeOK
  <1>6. CASE Current(id, gen) /\ discard(id) /\ UNCHANGED timers
    <2>1. id \in DOMAIN by_id
      BY <1>6 DEF Current
    <2> QED  BY <1>2, <1>3, <1>6, <2>1, DiscardTyped DEF Typed, TypeOK
  <1>7. CASE /\ Current(id, gen)
             /\ by_id' = Offline(id)
             /\ timers' = timers \cup PurgeTask(id, gen, by_id[id].expiry_secs)
             /\ UNCHANGED <<id_of, subs, queue>>
    <2>1. /\ DOMAIN by_id' = DOMAIN by_id
          /\ \A i \in DOMAIN by_id' : by_id'[i] \in Session
      BY ZenonT(30), <1>7 DEF Offline, Session, Typed, TypeOK
    <2>2. timers' \subseteq (Nat \ {0}) \X Nat
      BY <1>1, <1>7 DEF PurgeTask, Typed, TypeOK
    <2> QED  BY <1>2, <1>3, <1>7, <2>1, <2>2 DEF Typed, TypeOK
  <1> QED  BY <1>4, <1>5, <1>6, <1>7 DEF detach

LEMMA SubscriptionTyped ==
  ASSUME Typed, NEW c \in Conns, NEW raw \in Filters,
         Subscribe(c, raw) \/ Unsubscribe(c, raw)
  PROVE  Typed'
  <1>1. PICK op \in SubOps : BeginSubscription(c, raw, op)
    BY DEF Subscribe, Unsubscribe, SubOps
  <1> DEFINE r == [conn[c] EXCEPT !.pc = "lookup", !.raw = raw, !.op = op]
  <1>2. r \in Conn /\ r.raw = raw /\ r.pc = "lookup"
    BY ZenonT(30) DEF Typed, TypeOK, Conn, Pcs
  <1>3. conn' = [conn EXCEPT ![c] = r]
    BY <1>1 DEF BeginSubscription
  <1> HIDE DEF r
  <1>4. conn' \in [Conns -> Conn] /\ CallInv'
    BY ZenonT(30), <1>2, <1>3, ConnTyped
  <1>5. UNCHANGED <<by_id, id_of, generation, next_id, timers, queue,
                    disk_sessions, disk_subs, failed, restarts>>
    BY <1>1 DEF BeginSubscription, table, disk
  <1>6. subs' \subseteq (Nat \ {0}) \X Filters
    <2>1. conn[c].session_id \in Nat \ {0}
      BY <1>1 DEF BeginSubscription, Typed, TypeOK, Conn
    <2> QED  BY <2>1 DEF Subscribe, Unsubscribe, Typed, TypeOK
  <1> QED  BY <1>4, <1>5, <1>6 DEF Typed, TypeOK

LEMMA FinishedTyped ==
  ASSUME Typed, NEW c \in Conns, conn' = Finished(c)
  PROVE  conn' \in [Conns -> Conn] /\ CallInv'
  <1> DEFINE r == [conn[c] EXCEPT !.pc = "open", !.raw = "none",
                                  !.op = "PutSubscription", !.key = "none"]
  <1>1. r \in Conn /\ r.pc = "open"
    BY ZenonT(30) DEF Typed, TypeOK, Conn, Pcs, SubOps
  <1>2. conn' = [conn EXCEPT ![c] = r]
    BY DEF Finished
  <1> QED  BY ZenonT(30), <1>1, <1>2, ConnTyped

LEMMA LookupTyped ==
  ASSUME Typed, NEW c \in Conns, LookupClient(c)
  PROVE  Typed'
  <1> DEFINE id == conn[c].session_id
             r  == [conn[c] EXCEPT !.pc = "enqueue", !.key = by_id[id].client_id]
  <1>1. CASE id \in DOMAIN by_id /\ by_id[id].expiry_secs > 0
    <2>1. by_id[id].client_id \in Clients
      BY <1>1 DEF Typed, TypeOK, Session
    <2>2. r \in Conn /\ r.raw = conn[c].raw /\ r.key = by_id[id].client_id
      BY ZenonT(30), <2>1 DEF Typed, TypeOK, Conn, Pcs
    <2>3. conn[c].raw \in Filters
      BY DEF LookupClient, Typed, CallInv
    <2>4. conn' = [conn EXCEPT ![c] = r]
      BY <1>1 DEF LookupClient
    <2> QED  BY ZenonT(30), <2>1, <2>2, <2>3, <2>4, ConnTyped DEF LookupClient, table, disk,
                Typed, TypeOK
  <1>2. CASE ~(id \in DOMAIN by_id /\ by_id[id].expiry_secs > 0)
    <2>1. conn' = Finished(c)
      BY <1>2 DEF LookupClient
    <2> QED  BY <2>1, FinishedTyped DEF LookupClient, table, disk, Typed, TypeOK
  <1> QED  BY <1>1, <1>2

LEMMA EnqueueTyped ==
  ASSUME Typed, NEW c \in Conns, EnqueueSubscription(c)
  PROVE  Typed'
  <1>1. /\ conn[c].op \in SubOps
        /\ conn[c].key \in Clients
        /\ conn[c].raw \in Filters
    BY DEF EnqueueSubscription, Typed, TypeOK, CallInv, Conn
  <1>2. SubscriptionOp(conn[c].op, conn[c].key, conn[c].raw) \in PersistOp
    BY <1>1 DEF SubscriptionOp, PersistOp
  <1>3. queue' \in Seq(PersistOp)
    BY <1>2, AppendProperties DEF EnqueueSubscription, Typed, TypeOK
  <1> QED  BY <1>3, FinishedTyped DEF EnqueueSubscription, table, disk, Typed,
              TypeOK

\* The purge tasks and the worker keep the types.
LEMMA PurgeTyped ==
  ASSUME Typed, NEW t \in timers, purge_if_idle(t)
  PROVE  Typed'
  <1>1. UNCHANGED <<generation, next_id, conn, disk_sessions, disk_subs, failed,
                    restarts>> /\ timers' \subseteq timers
    BY DEF purge_if_idle, disk
  <1>2. CallInv'
    BY <1>1 DEF Typed, CallInv
  <1>3. CASE UNCHANGED <<by_id, id_of, subs, queue>>
    BY <1>1, <1>2, <1>3 DEF Typed, TypeOK
  <1>4. CASE Idle(t[1], t[2]) /\ discard(t[1])
    <2>1. t[1] \in DOMAIN by_id
      BY <1>4 DEF Idle, Current
    <2> QED  BY <1>1, <1>2, <1>4, <2>1, DiscardTyped DEF Typed, TypeOK
  <1> QED  BY <1>3, <1>4 DEF purge_if_idle

\* What the worker writes for the four kinds of operation.
LEMMA RowsTyped ==
  ASSUME Typed, NEW op \in PersistOp, apply_persist_op(op)
  PROVE  /\ disk_sessions' \in [Clients -> Nat]
         /\ disk_subs' \subseteq Clients \X Filters
  <1>0. disk_sessions \in [Clients -> Nat] /\ disk_subs \subseteq Clients \X Filters
    BY DEF Typed, TypeOK
  <1>1. CASE op.op = "PutSession"
    <2>1. op.client_id \in Clients /\ op.expiry_secs \in Nat
      BY <1>1 DEF PersistOp, SubOps
    <2> QED  BY <1>0, <1>1, <2>1 DEF apply_persist_op, put_session
  <1>2. CASE op.op = "RemoveSession"
    <2>1. op.client_id \in Clients
      BY <1>2 DEF PersistOp, SubOps
    <2> QED  BY <1>0, <1>2, <2>1 DEF apply_persist_op, remove_session, RowsOfOthers
  <1>3. CASE op.op = "PutSubscription"
    <2>1. op.client_id \in Clients /\ op.raw \in Filters
      BY <1>3 DEF PersistOp, SubOps
    <2> QED  BY <1>0, <1>3, <2>1 DEF apply_persist_op, put_subscription
  <1>4. CASE op.op = "RemoveSubscription"
    BY <1>0, <1>4 DEF apply_persist_op, remove_subscription
  <1> QED  BY <1>1, <1>2, <1>3, <1>4 DEF PersistOp, SubOps

LEMMA WorkerTyped ==
  ASSUME Typed, WorkerApply \/ WorkerFails
  PROVE  Typed'
  <1>1. /\ Head(queue) \in PersistOp
        /\ queue' \in Seq(PersistOp)
    <2>1. queue \in Seq(PersistOp) /\ queue # <<>> /\ queue' = Tail(queue)
      BY DEF WorkerApply, WorkerFails, Typed, TypeOK
    <2> QED  BY <2>1, HeadTailProperties
  <1>2. CallInv'
    BY DEF WorkerApply, WorkerFails, Typed, CallInv
  <1>3. CASE WorkerApply
    BY <1>1, <1>2, <1>3, RowsTyped DEF WorkerApply, table, Typed, TypeOK
  <1>4. CASE WorkerFails
    <2>1. Head(queue).client_id \in Clients
      BY <1>1 DEF PersistOp
    <2> QED  BY <1>1, <1>2, <1>4, <2>1 DEF WorkerFails, table, Typed, TypeOK
  <1> QED  BY <1>3, <1>4

\* What Hub::new leaves: which ids it gives, and to whom.
LEMMA ReloadFacts ==
  ASSUME Typed, NEW n \in Nat, NEW row \in [1..n -> Clients], Reload(n, row)
  PROVE  /\ DOMAIN by_id' = 1..n
         /\ DOMAIN id_of' = Durable
         /\ Durable \subseteq Clients
         /\ \A i \in 1..n : /\ by_id'[i] = Loaded(row[i])
                            /\ by_id'[i] \in Session
                            /\ row[i] \in Durable
                            /\ id_of'[row[i]] = i
         /\ \A cl \in Durable : id_of'[cl] \in 1..n /\ row[id_of'[cl]] = cl
  <1>1. /\ by_id' = [i \in 1..n |-> Loaded(row[i])]
        /\ id_of' = [cl \in Durable |-> CHOOSE i \in 1..n : row[i] = cl]
        /\ {row[i] : i \in 1..n} = Durable
        /\ \A i, j \in 1..n : row[i] = row[j] => i = j
    BY DEF Reload
  <1>2. Durable \subseteq Clients
    BY DEF Durable
  <1>3. \A cl \in Durable : id_of'[cl] \in 1..n /\ row[id_of'[cl]] = cl
    <2> SUFFICES ASSUME NEW cl \in Durable
                 PROVE  id_of'[cl] \in 1..n /\ row[id_of'[cl]] = cl
      OBVIOUS
    <2>1. \E i \in 1..n : row[i] = cl
      BY <1>1
    <2>2. id_of'[cl] = CHOOSE i \in 1..n : row[i] = cl
      BY <1>1
    <2> QED  BY <2>1, <2>2
  <1>4. \A i \in 1..n : row[i] \in Durable
    BY <1>1
  <1>5. \A i \in 1..n : id_of'[row[i]] = i
    BY <1>1, <1>3, <1>4
  <1>6. \A i \in 1..n : Loaded(row[i]) \in Session
    BY ZenonT(30) DEF Loaded, Session, Typed, TypeOK
  <1> QED  BY <1>1, <1>2, <1>3, <1>4, <1>5, <1>6

\* The number of rows that Hub::new reads is a number.
LEMMA RestartPick ==
  ASSUME Restart
  PROVE  \E n \in Nat : \E row \in [1..n -> Clients] : Reload(n, row)
  <1>1. \A n \in 0..Cardinality(Clients) : n \in Nat
    OBVIOUS
  <1> QED  BY <1>1 DEF Restart

LEMMA RestartTyped ==
  ASSUME Typed, Restart
  PROVE  Typed'
  <1>1. PICK n \in Nat : \E row \in [1..n -> Clients] : Reload(n, row)
    BY RestartPick
  <1>2. PICK row \in [1..n -> Clients] : Reload(n, row)
    BY <1>1
  <1>3. /\ DOMAIN by_id' \subseteq Nat \ {0}
        /\ \A i \in DOMAIN by_id' : by_id'[i] \in Session
        /\ DOMAIN id_of' \subseteq Clients
        /\ \A cl \in DOMAIN id_of' : id_of'[cl] \in Nat \ {0}
    BY <1>2, ReloadFacts
  <1>4. /\ next_id' \in Nat \ {0}
        /\ subs' \subseteq (Nat \ {0}) \X Filters
        /\ timers' \subseteq (Nat \ {0}) \X Nat
    BY <1>2 DEF Reload
  <1>5. conn' \in [Conns -> Conn] /\ CallInv'
    BY NoConnType DEF Restart, CallInv
  <1>6. queue' \in Seq(PersistOp)
    BY EmptySeq DEF Restart
  <1> QED  BY <1>3, <1>4, <1>5, <1>6 DEF Restart, Typed, TypeOK

\* One step keeps the types: one case per action.
LEMMA NextTyped == Typed /\ [Next]_vars => Typed'
  <1> SUFFICES ASSUME Typed, [Next]_vars PROVE Typed'
    OBVIOUS
  <1>1. ASSUME NEW c \in Conns, ConnStep(c) PROVE Typed'
    BY <1>1, AcceptTyped, ConnectTyped, DetachTyped, SubscriptionTyped,
       LookupTyped, EnqueueTyped DEF ConnStep
  <1>2. ASSUME NEW t \in timers, purge_if_idle(t) PROVE Typed'
    BY <1>2, PurgeTyped
  <1>3. CASE UNCHANGED vars
    BY <1>3 DEF vars, Typed, TypeOK, CallInv
  <1> QED  BY <1>1, <1>2, <1>3, WorkerTyped, RestartTyped DEF Next

\* Every reachable state is well typed: the maps, the connection tasks, the
\* queue and the tables of hub.rs and storage.rs hold what they are declared to.
THEOREM TypeCorrect == Spec => []TypeOK
  <1>1. Typed => TypeOK
    BY DEF Typed
  <1> QED  BY <1>1, InitTyped, NextTyped, PTL DEF Spec

-------------------------------------------------------------------------------
(***************************************************************************)
(* The inductive invariant of the table.  What makes the two indexes agree *)
(* is that routing ids and generations are never used twice in one run of  *)
(* the process: a connection or a purge task that is out of date holds an  *)
(* id and a generation that nobody else will get.                          *)
(***************************************************************************)
IdsFresh ==
  /\ \A i \in DOMAIN by_id : i < next_id
  /\ \A c \in Conns : conn[c].session_id < next_id
  /\ \A t \in timers : t[1] < next_id

GenerationsFresh ==
  /\ \A i \in DOMAIN by_id : /\ by_id[i].generation <= generation
                             /\ by_id[i].tx \in {0, by_id[i].generation}
  /\ \A c \in Conns : /\ conn[c].generation <= generation
                      /\ conn[c].session_id # 0 => conn[c].generation # 0
  /\ \A t \in timers : t[2] <= generation

\* A channel has one receiver, and feeds it from the session it holds.
ChannelsDistinct ==
  \A c \in Conns : conn[c].session_id # 0 =>
    /\ \A d \in Conns : /\ conn[d].session_id # 0
                        /\ conn[d].generation = conn[c].generation
                        => d = c
    /\ \A i \in DOMAIN by_id :
         by_id[i].tx = conn[c].generation => i = conn[c].session_id

\* A purge task that is still up to date is one for a session that may expire.
TimersFinite ==
  \A t \in timers : Current(t[1], t[2]) => by_id[t[1]].expiry_secs # NO_EXPIRY

TableInv ==
  /\ Typed
  /\ TableConsistent
  /\ OwnSession
  /\ IdsFresh
  /\ GenerationsFresh
  /\ ChannelsDistinct
  /\ TimersFinite

\* The table and its indexes, as TableInv without the types.
IndexInv == /\ TableConsistent /\ OwnSession /\ IdsFresh
            /\ GenerationsFresh /\ ChannelsDistinct /\ TimersFinite

LEMMA InitTable == Init => TableInv
  <1> SUFFICES ASSUME Init PROVE TableInv
    OBVIOUS
  <1>1. Typed
    BY InitTyped
  <1>2. /\ DOMAIN by_id = {} /\ DOMAIN id_of = {} /\ timers = {}
        /\ generation = 0 /\ next_id = 1
        /\ \A c \in Conns : conn[c].session_id = 0 /\ conn[c].generation = 0
    BY DEF Init, FirstId, NoConn
  <1> QED  BY <1>1, <1>2 DEF TableInv, TableConsistent, OwnSession, IdsFresh,
              GenerationsFresh, ChannelsDistinct, TimersFinite

\* What Attach does to the connections.
LEMMA AttachFacts ==
  ASSUME Typed, NEW c \in Conns, NEW cl, NEW id, Attach(c, cl, id)
  PROVE  /\ generation' = generation + 1
         /\ conn'[c].session_id = id
         /\ conn'[c].generation = generation + 1
         /\ conn'[c].client = cl
         /\ \A d \in Conns \ {c} : conn'[d] = conn[d]
  BY DEF Attach, Typed, TypeOK, Conn

\* A connection at a new routing id: a clean start, or the first connect.
LEMMA NewIdTable ==
  ASSUME TableInv, NEW c \in Conns, NEW cl \in Clients, NEW secs \in Nat,
         NEW old,
         cl \in DOMAIN id_of => old = id_of[cl],
         cl \notin DOMAIN id_of => old \notin DOMAIN by_id,
         by_id' = Insert(Without(by_id, old), next_id, NewSession(cl, secs)),
         id_of' = Insert(id_of, cl, next_id),
         next_id' = next_id + 1,
         timers' = timers,
         Attach(c, cl, next_id)
  PROVE  IndexInv'
  <1> DEFINE new == NewSession(cl, secs)
  <1>1. /\ new.client_id = cl /\ new.tx = generation + 1
        /\ new.expiry_secs = secs /\ new.generation = generation + 1
    BY DEF NewSession
  <1>2. /\ DOMAIN by_id' = (DOMAIN by_id \ {old}) \cup {next_id}
        /\ by_id'[next_id] = new
        /\ \A i \in DOMAIN by_id \ {old} : i # next_id /\ by_id'[i] = by_id[i]
    BY DEF Insert, Without, TableInv, IdsFresh, Typed, TypeOK
  <1>3. /\ DOMAIN id_of' = DOMAIN id_of \cup {cl}
        /\ id_of'[cl] = next_id
        /\ \A x \in DOMAIN id_of \ {cl} : id_of'[x] = id_of[x]
    BY DEF Insert
  <1>4. /\ generation' = generation + 1
        /\ conn'[c].session_id = next_id
        /\ conn'[c].generation = generation + 1
        /\ conn'[c].client = cl
        /\ \A d \in Conns \ {c} : conn'[d] = conn[d]
    BY AttachFacts DEF TableInv
  <1>5. /\ next_id \in Nat \ {0} /\ generation \in Nat
        /\ \A i \in DOMAIN by_id : /\ i \in Nat /\ by_id[i].generation \in Nat
                                   /\ by_id[i].tx \in Nat
        /\ \A d \in Conns : conn[d].session_id \in Nat /\ conn[d].generation \in Nat
        /\ \A t \in timers : t[1] \in Nat /\ t[2] \in Nat
    BY DEF TableInv, Typed, TypeOK, Session, Conn
  <1> HIDE DEF new
  <1>6. TableConsistent'
    BY <1>1, <1>2, <1>3 DEF TableInv, TableConsistent
  <1>7. OwnSession'
    <2> SUFFICES ASSUME NEW d \in Conns, conn'[d].session_id \in DOMAIN by_id'
                 PROVE  by_id'[conn'[d].session_id].client_id = conn'[d].client
      BY DEF OwnSession
    <2>1. CASE d = c
      BY <1>1, <1>2, <1>4, <2>1
    <2>2. CASE d # c
      BY <1>2, <1>4, <1>5, <2>2 DEF TableInv, OwnSession, IdsFresh
    <2> QED  BY <2>1, <2>2
  <1>8. IdsFresh'
    BY <1>2, <1>4, <1>5 DEF TableInv, IdsFresh
  <1>9. GenerationsFresh'
    <2>1. \A i \in DOMAIN by_id' : /\ by_id'[i].generation <= generation'
                                   /\ by_id'[i].tx \in {0, by_id'[i].generation}
      BY <1>1, <1>2, <1>4, <1>5 DEF TableInv, GenerationsFresh
    <2>2. \A d \in Conns : /\ conn'[d].generation <= generation'
                           /\ conn'[d].session_id # 0 => conn'[d].generation # 0
      BY <1>4, <1>5 DEF TableInv, GenerationsFresh
    <2>3. \A t \in timers' : t[2] <= generation'
      BY <1>4, <1>5 DEF TableInv, GenerationsFresh
    <2> QED  BY <2>1, <2>2, <2>3 DEF GenerationsFresh
  <1>10. ChannelsDistinct'
    <2> SUFFICES ASSUME NEW d \in Conns, conn'[d].session_id # 0
                 PROVE  /\ \A e \in Conns :
                              /\ conn'[e].session_id # 0
                              /\ conn'[e].generation = conn'[d].generation
                              => e = d
                        /\ \A i \in DOMAIN by_id' :
                             by_id'[i].tx = conn'[d].generation
                               => i = conn'[d].session_id
      BY DEF ChannelsDistinct
    <2>1. CASE d = c
      BY <1>1, <1>2, <1>4, <1>5, <2>1 DEF TableInv, GenerationsFresh
    <2>2. CASE d # c
      BY <1>1, <1>2, <1>4, <1>5, <2>2
      DEF TableInv, GenerationsFresh, ChannelsDistinct
    <2> QED  BY <2>1, <2>2
  <1>11. TimersFinite'
    BY <1>1, <1>2, <1>4, <1>5 DEF TableInv, TimersFinite, Current, IdsFresh
  <1> QED  BY <1>6, <1>7, <1>8, <1>9, <1>10, <1>11 DEF IndexInv

\* The same id with a new channel and a new generation: a resumed session.
LEMMA ResumeTable ==
  ASSUME TableInv, NEW c \in Conns, NEW cl \in DOMAIN id_of, NEW secs \in Nat,
         ConnectResume(c, cl, secs)
  PROVE  IndexInv'
  <1> DEFINE id == id_of[cl]
             r  == [by_id[id] EXCEPT !.tx = generation + 1,
                                     !.expiry_secs = secs,
                                     !.generation = generation + 1]
  <1>1. /\ id \in DOMAIN by_id /\ by_id[id].client_id = cl
        /\ by_id[id] \in Session /\ generation + 1 \in Nat
    BY DEF TableInv, TableConsistent, Typed, TypeOK
  <1>2. /\ r.client_id = cl /\ r.tx = generation + 1
        /\ r.expiry_secs = secs /\ r.generation = generation + 1
    <2> HIDE DEF id
    <2> QED  BY <1>1 DEF Session
  <1>3. /\ by_id' = [by_id EXCEPT ![id] = r]
        /\ Attach(c, cl, id)
        /\ UNCHANGED <<id_of, next_id, timers>>
    BY DEF ConnectResume
  <1> HIDE DEF r
  <1>4. /\ DOMAIN by_id' = DOMAIN by_id
        /\ by_id'[id] = r
        /\ \A i \in DOMAIN by_id \ {id} : by_id'[i] = by_id[i]
    BY <1>1, <1>3
  <1>5. /\ generation' = generation + 1
        /\ conn'[c].session_id = id
        /\ conn'[c].generation = generation + 1
        /\ conn'[c].client = cl
        /\ \A d \in Conns \ {c} : conn'[d] = conn[d]
    BY <1>3, AttachFacts DEF TableInv
  <1>6. /\ next_id \in Nat \ {0} /\ generation \in Nat
        /\ \A i \in DOMAIN by_id : /\ i \in Nat \ {0}
                                   /\ by_id[i].generation \in Nat
                                   /\ by_id[i].tx \in Nat
        /\ \A d \in Conns : conn[d].session_id \in Nat /\ conn[d].generation \in Nat
        /\ \A t \in timers : t[1] \in Nat /\ t[2] \in Nat
    BY DEF TableInv, Typed, TypeOK, Session, Conn
  <1> HIDE DEF id
  <1>7. TableConsistent'
    BY <1>1, <1>2, <1>3, <1>4 DEF TableInv, TableConsistent
  <1>8. OwnSession'
    BY <1>1, <1>2, <1>4, <1>5 DEF TableInv, OwnSession
  <1>9. IdsFresh'
    BY <1>1, <1>3, <1>4, <1>5, <1>6 DEF TableInv, IdsFresh
  <1>10. GenerationsFresh'
    <2>1. \A i \in DOMAIN by_id' : /\ by_id'[i].generation <= generation'
                                   /\ by_id'[i].tx \in {0, by_id'[i].generation}
      BY <1>1, <1>2, <1>4, <1>5, <1>6 DEF TableInv, GenerationsFresh
    <2>2. \A d \in Conns : /\ conn'[d].generation <= generation'
                           /\ conn'[d].session_id # 0 => conn'[d].generation # 0
      BY <1>5, <1>6 DEF TableInv, GenerationsFresh
    <2>3. \A t \in timers' : t[2] <= generation'
      BY <1>3, <1>5, <1>6 DEF TableInv, GenerationsFresh
    <2> QED  BY <2>1, <2>2, <2>3 DEF GenerationsFresh
  <1>11. ChannelsDistinct'
    <2> SUFFICES ASSUME NEW d \in Conns, conn'[d].session_id # 0
                 PROVE  /\ \A e \in Conns :
                              /\ conn'[e].session_id # 0
                              /\ conn'[e].generation = conn'[d].generation
                              => e = d
                        /\ \A i \in DOMAIN by_id' :
                             by_id'[i].tx = conn'[d].generation
                               => i = conn'[d].session_id
      BY DEF ChannelsDistinct
    <2>1. CASE d = c
      BY <1>1, <1>2, <1>4, <1>5, <1>6, <2>1 DEF TableInv, GenerationsFresh
    <2>2. CASE d # c
      BY <1>1, <1>2, <1>4, <1>5, <1>6, <2>2
      DEF TableInv, GenerationsFresh, ChannelsDistinct
    <2> QED  BY <2>1, <2>2
  <1>12. TimersFinite'
    BY <1>1, <1>2, <1>3, <1>4, <1>5, <1>6
    DEF TableInv, TimersFinite, Current, GenerationsFresh
  <1> QED  BY <1>7, <1>8, <1>9, <1>10, <1>11, <1>12 DEF IndexInv

\* The steps that connect nobody: sessions go or lose their channel, connections
\* end, and a purge task is started only for a session that may expire.
LEMMA QuietTable ==
  ASSUME TableInv, TableConsistent',
         UNCHANGED <<generation, next_id>>,
         DOMAIN by_id' \subseteq DOMAIN by_id,
         \A i \in DOMAIN by_id' : /\ by_id'[i].client_id = by_id[i].client_id
                                  /\ by_id'[i].generation = by_id[i].generation
                                  /\ by_id'[i].expiry_secs = by_id[i].expiry_secs
                                  /\ by_id'[i].tx \in {0, by_id[i].tx},
         \A d \in Conns : \/ conn'[d] = NoConn
                          \/ /\ conn'[d].session_id = conn[d].session_id
                             /\ conn'[d].generation = conn[d].generation
                             /\ conn'[d].client = conn[d].client
                          \/ conn'[d].session_id = 0 /\ conn'[d].generation = 0,
         \A t \in timers' : \/ t \in timers
                            \/ /\ t[1] \in DOMAIN by_id
                               /\ t[2] <= generation
                               /\ by_id[t[1]].expiry_secs # NO_EXPIRY
  PROVE  IndexInv'
  <1>1. NoConn.session_id = 0 /\ NoConn.generation = 0
    BY Zenon DEF NoConn
  <1>2. \A d \in Conns : \/ /\ conn'[d].session_id = conn[d].session_id
                            /\ conn'[d].generation = conn[d].generation
                            /\ conn'[d].client = conn[d].client
                         \/ conn'[d].session_id = 0 /\ conn'[d].generation = 0
    BY <1>1
  <1>3. /\ next_id \in Nat \ {0} /\ generation \in Nat
        /\ \A i \in DOMAIN by_id : i \in Nat \ {0} /\ by_id[i].generation \in Nat
    BY DEF TableInv, Typed, TypeOK, Session
  <1>4. OwnSession'
    BY <1>2, <1>3 DEF TableInv, OwnSession
  <1>5. IdsFresh'
    BY <1>2, <1>3 DEF TableInv, IdsFresh
  <1>6. GenerationsFresh'
    BY <1>2, <1>3 DEF TableInv, GenerationsFresh
  <1>7. ChannelsDistinct'
    <2> SUFFICES ASSUME NEW d \in Conns, conn'[d].session_id # 0
                 PROVE  /\ \A e \in Conns :
                              /\ conn'[e].session_id # 0
                              /\ conn'[e].generation = conn'[d].generation
                              => e = d
                        /\ \A i \in DOMAIN by_id' :
                             by_id'[i].tx = conn'[d].generation
                               => i = conn'[d].session_id
      BY DEF ChannelsDistinct
    <2> QED  BY <1>2, <1>3 DEF TableInv, GenerationsFresh, ChannelsDistinct
  <1>8. TimersFinite'
    BY DEF TableInv, TimersFinite, Current
  <1> QED  BY <1>4, <1>5, <1>6, <1>7, <1>8, Zenon DEF IndexInv

\* discard keeps the two indexes in step.
LEMMA DiscardIndexes ==
  ASSUME TableInv, NEW id \in DOMAIN by_id, discard(id)
  PROVE  /\ TableConsistent'
         /\ DOMAIN by_id' = DOMAIN by_id \ {id}
         /\ \A i \in DOMAIN by_id' : by_id'[i] = by_id[i]
         /\ DOMAIN id_of' = DOMAIN id_of \ {by_id[id].client_id}
         /\ \A cl \in DOMAIN id_of' : id_of'[cl] = id_of[cl]
  <1>1. /\ DOMAIN by_id' = DOMAIN by_id \ {id}
        /\ \A i \in DOMAIN by_id' : by_id'[i] = by_id[i]
    BY DEF discard, Without
  <1>2. /\ DOMAIN id_of' = {x \in DOMAIN id_of : id_of[x] # id}
        /\ \A cl \in DOMAIN id_of' : id_of'[cl] = id_of[cl]
    BY DEF discard
  <1>3. DOMAIN id_of' = DOMAIN id_of \ {by_id[id].client_id}
    BY <1>2 DEF TableInv, TableConsistent
  <1> QED  BY <1>1, <1>2, <1>3 DEF TableInv, TableConsistent

\* The three outcomes of connect.
LEMMA ConnectTable ==
  ASSUME TableInv, NEW c \in Conns, Connect(c)
  PROVE  IndexInv'
  <1>0. PICK cl \in Clients : \E secs \in ExpirySecs[cl] :
               \/ ConnectClean(c, cl, secs)
               \/ ConnectResume(c, cl, secs)
               \/ ConnectNew(c, cl, secs)
    BY DEF Connect
  <1>1. PICK secs \in ExpirySecs[cl] :
               \/ ConnectClean(c, cl, secs)
               \/ ConnectResume(c, cl, secs)
               \/ ConnectNew(c, cl, secs)
    BY <1>0
  <1>2. secs \in Nat
    BY ConstantsAssumption
  <1>3. CASE ConnectClean(c, cl, secs)
    <2>1. /\ cl \in DOMAIN id_of
          /\ by_id' = Insert(Without(by_id, id_of[cl]), next_id,
                             NewSession(cl, secs))
          /\ id_of' = Insert(id_of, cl, next_id)
          /\ next_id' = next_id + 1
          /\ timers' = timers
          /\ Attach(c, cl, next_id)
      BY <1>3 DEF ConnectClean
    <2> QED  BY <1>2, <2>1, NewIdTable
  <1>4. CASE ConnectResume(c, cl, secs)
    BY ZenonT(30), <1>2, <1>4, ResumeTable DEF ConnectResume
  <1>5. CASE ConnectNew(c, cl, secs)
    <2>1. /\ cl \notin DOMAIN id_of
          /\ by_id' = Insert(by_id, next_id, NewSession(cl, secs))
          /\ id_of' = Insert(id_of, cl, next_id)
          /\ next_id' = next_id + 1
          /\ timers' = timers
          /\ Attach(c, cl, next_id)
      BY <1>5 DEF ConnectNew
    <2>2. next_id \notin DOMAIN by_id
      BY DEF TableInv, IdsFresh, Typed, TypeOK
    <2>3. by_id' = Insert(Without(by_id, next_id), next_id, NewSession(cl, secs))
      BY <2>1, <2>2 DEF Insert, Without
    <2> QED  BY <1>2, <2>1, <2>2, <2>3, NewIdTable
  <1> QED  BY <1>1, <1>3, <1>4, <1>5

\* The steps of a connection that leave the table alone.
LEMMA ConnOnlyTable ==
  ASSUME TableInv, NEW c \in Conns,
         \/ Accept(c)
         \/ DropBeforeConnect(c)
         \/ \E raw \in Filters : Subscribe(c, raw) \/ Unsubscribe(c, raw)
         \/ LookupClient(c)
         \/ EnqueueSubscription(c)
  PROVE  IndexInv'
  <1>1. UNCHANGED <<by_id, id_of, generation, next_id, timers>>
    BY ZenonT(30) DEF Accept, DropBeforeConnect, Subscribe, Unsubscribe, BeginSubscription,
           LookupClient, EnqueueSubscription, table
  <1>2. \A d \in Conns \ {c} : conn'[d] = conn[d]
    BY ZenonT(30) DEF Accept, DropBeforeConnect, Subscribe, Unsubscribe, BeginSubscription,
           LookupClient, EnqueueSubscription, Finished, TableInv, Typed, TypeOK
  <1>3. \/ /\ conn'[c].session_id = conn[c].session_id
           /\ conn'[c].generation = conn[c].generation
           /\ conn'[c].client = conn[c].client
        \/ conn'[c].session_id = 0 /\ conn'[c].generation = 0
    <2>1. CASE Accept(c) \/ DropBeforeConnect(c)
      BY <2>1 DEF Accept, DropBeforeConnect, NoConn, TableInv, Typed, TypeOK
    <2>2. CASE \E raw \in Filters : Subscribe(c, raw) \/ Unsubscribe(c, raw)
      <3>1. PICK raw \in Filters : \E op \in SubOps : BeginSubscription(c, raw, op)
        BY <2>2 DEF Subscribe, Unsubscribe, SubOps
      <3>2. PICK op \in SubOps : BeginSubscription(c, raw, op)
        BY <3>1
      <3> QED  BY <3>2 DEF BeginSubscription, TableInv, Typed, TypeOK, Conn
    <2>3. CASE LookupClient(c)
      BY <2>3 DEF LookupClient, Finished, TableInv, Typed, TypeOK, Conn
    <2>4. CASE EnqueueSubscription(c)
      BY <2>4 DEF EnqueueSubscription, Finished, TableInv, Typed, TypeOK, Conn
    <2> QED  BY <2>1, <2>2, <2>3, <2>4
  <1>4. TableConsistent'
    BY <1>1 DEF TableInv, TableConsistent
  <1>5. \A d \in Conns : \/ /\ conn'[d].session_id = conn[d].session_id
                            /\ conn'[d].generation = conn[d].generation
                            /\ conn'[d].client = conn[d].client
                         \/ conn'[d].session_id = 0 /\ conn'[d].generation = 0
    BY <1>2, <1>3
  <1> QED  BY <1>1, <1>4, <1>5, QuietTable, Zenon

\* The end of a connection.
LEMMA DetachTable ==
  ASSUME TableInv, NEW c \in Conns, Detach(c)
  PROVE  IndexInv'
  <1> DEFINE id  == conn[c].session_id
             gen == conn[c].generation
  <1>1. /\ detach(id, gen)
        /\ conn' = [conn EXCEPT ![c] = NoConn]
        /\ UNCHANGED <<generation, next_id>>
    BY DEF Detach
  <1>2. /\ \A d \in Conns : conn'[d] = NoConn \/ conn'[d] = conn[d]
        /\ gen \in Nat /\ gen <= generation
    BY <1>1 DEF TableInv, Typed, TypeOK, Conn, GenerationsFresh
  <1> HIDE DEF id, gen
  <1>3. CASE Superseded(id, gen)
    <2>1. UNCHANGED <<by_id, id_of, timers>>
      BY <1>3 DEF Superseded
    <2>2. TableConsistent'
      BY <2>1 DEF TableInv, TableConsistent
    <2> QED  BY <1>1, <1>2, <2>1, <2>2, QuietTable
  <1>4. CASE Current(id, gen) /\ discard(id) /\ UNCHANGED timers
    <2>1. id \in DOMAIN by_id
      BY <1>4 DEF Current
    <2> QED  BY ZenonT(30), <1>1, <1>2, <1>4, <2>1, DiscardIndexes, QuietTable
  <1>5. CASE /\ Current(id, gen)
             /\ by_id' = Offline(id)
             /\ timers' = timers \cup PurgeTask(id, gen, by_id[id].expiry_secs)
             /\ UNCHANGED <<id_of, subs, queue>>
    <2>1. id \in DOMAIN by_id
      BY <1>5 DEF Current
    <2>2. /\ DOMAIN by_id' = DOMAIN by_id
          /\ \A i \in DOMAIN by_id' :
               /\ by_id'[i].client_id = by_id[i].client_id
               /\ by_id'[i].generation = by_id[i].generation
               /\ by_id'[i].expiry_secs = by_id[i].expiry_secs
               /\ by_id'[i].tx \in {0, by_id[i].tx}
      BY <1>5 DEF Offline, TableInv, Typed, TypeOK, Session
    <2>3. \A t \in timers' : \/ t \in timers
                             \/ /\ t[1] \in DOMAIN by_id
                                /\ t[2] <= generation
                                /\ by_id[t[1]].expiry_secs # NO_EXPIRY
      BY <1>2, <1>5, <2>1 DEF PurgeTask
    <2>4. TableConsistent'
      BY <1>5, <2>2 DEF TableInv, TableConsistent
    <2> QED  BY <1>1, <1>2, <2>2, <2>3, <2>4, QuietTable, Zenon
  <1> QED  BY <1>1, <1>3, <1>4, <1>5, Zenon DEF detach

\* A purge task wakes up.
LEMMA PurgeTable ==
  ASSUME TableInv, NEW t \in timers, purge_if_idle(t)
  PROVE  IndexInv'
  <1>1. UNCHANGED <<generation, next_id, conn>> /\ timers' \subseteq timers
    BY DEF purge_if_idle
  <1>2. CASE UNCHANGED <<by_id, id_of>>
    <2>1. TableConsistent'
      BY <1>2 DEF TableInv, TableConsistent
    <2> QED  BY <1>1, <1>2, <2>1, QuietTable
  <1>3. CASE Idle(t[1], t[2]) /\ discard(t[1])
    <2>1. t[1] \in DOMAIN by_id
      BY <1>3 DEF Idle, Current
    <2> QED  BY ZenonT(30), <1>1, <1>3, <2>1, DiscardIndexes, QuietTable
  <1> QED  BY <1>2, <1>3 DEF purge_if_idle

\* The worker does not touch the table.
LEMMA SameTable ==
  ASSUME TableInv, UNCHANGED <<by_id, id_of, generation, next_id, timers, conn>>
  PROVE  IndexInv'
  BY DEF TableInv, IndexInv, TableConsistent, OwnSession, IdsFresh,
         GenerationsFresh, ChannelsDistinct, TimersFinite, Current

\* A restart builds a table of its own.
LEMMA RestartTable ==
  ASSUME TableInv, Restart
  PROVE  IndexInv'
  <1>1. PICK n \in Nat : \E row \in [1..n -> Clients] : Reload(n, row)
    BY RestartPick
  <1>2. PICK row \in [1..n -> Clients] : Reload(n, row)
    BY <1>1
  <1>3. Typed
    BY DEF TableInv
  <1>4. /\ DOMAIN by_id' = 1..n
        /\ DOMAIN id_of' = Durable
        /\ \A i \in 1..n : /\ by_id'[i] = Loaded(row[i])
                           /\ row[i] \in Durable
                           /\ id_of'[row[i]] = i
        /\ \A cl \in Durable : id_of'[cl] \in 1..n /\ row[id_of'[cl]] = cl
    BY <1>2, <1>3, ReloadFacts
  <1>5. \A i \in 1..n : /\ by_id'[i].client_id = row[i]
                        /\ by_id'[i].tx = 0
                        /\ by_id'[i].generation = 0
                        /\ by_id'[i].expiry_secs = disk_sessions[row[i]]
    BY <1>4 DEF Loaded
  <1>6. /\ next_id' = n + 1 /\ generation' = 0
        /\ \A d \in Conns : conn'[d].session_id = 0 /\ conn'[d].generation = 0
    BY <1>2 DEF Reload, Restart, NoConn
  <1>7. \A t \in timers' : /\ t[1] \in 1..n /\ t[2] = 0
                           /\ disk_sessions[row[t[1]]] # NO_EXPIRY
    BY <1>2 DEF Reload
  <1>8. TableConsistent'
    BY <1>4, <1>5 DEF TableConsistent
  <1>9. OwnSession' /\ IdsFresh'
    BY <1>4, <1>6, <1>7 DEF OwnSession, IdsFresh
  <1>10. GenerationsFresh' /\ ChannelsDistinct'
    BY <1>4, <1>5, <1>6, <1>7 DEF GenerationsFresh, ChannelsDistinct
  <1>11. TimersFinite'
    BY <1>4, <1>5, <1>7 DEF TimersFinite, Current
  <1> QED  BY <1>8, <1>9, <1>10, <1>11 DEF IndexInv

\* One step keeps the table: one case per action.
LEMMA NextTable == TableInv /\ [Next]_vars => TableInv'
  <1> SUFFICES ASSUME TableInv, [Next]_vars PROVE IndexInv'
    BY NextTyped DEF TableInv, IndexInv
  <1>1. ASSUME NEW c \in Conns, ConnStep(c) PROVE IndexInv'
    BY <1>1, ConnOnlyTable, ConnectTable, DetachTable DEF ConnStep
  <1>2. ASSUME NEW t \in timers, purge_if_idle(t) PROVE IndexInv'
    BY <1>2, PurgeTable
  <1>3. CASE WorkerApply \/ WorkerFails \/ UNCHANGED vars
    <2>1. UNCHANGED <<by_id, id_of, generation, next_id, timers, conn>>
      BY <1>3 DEF vars, WorkerApply, WorkerFails, table
    <2> QED  BY <2>1, SameTable
  <1>4. CASE Restart
    BY <1>4, RestartTable
  <1> QED  BY <1>1, <1>2, <1>3, <1>4 DEF Next

\* TableInv holds in every reachable state.
THEOREM TableInvariant == Spec => []TableInv
  BY InitTable, NextTable, PTL DEF Spec

\* The two indexes of the session table agree in every reachable state: the
\* expect("index/table consistency") of Hub::connect cannot fail.
THEOREM IndexesAgree == Spec => []TableConsistent
  <1>1. TableInv => TableConsistent
    BY DEF TableInv
  <1> QED  BY <1>1, TableInvariant, PTL

\* A connection only ever acts on a session of its own client, however many
\* takeovers and restarts there have been.
THEOREM ActsOnOwnSession == Spec => []OwnSession
  <1>1. TableInv => OwnSession
    BY DEF TableInv
  <1> QED  BY <1>1, TableInvariant, PTL

\* At most one connection of a client is fed by the hub.
THEOREM SingleReceiver == Spec => []OneReceiver
  <1>1. TableInv => OneReceiver
    <2> SUFFICES ASSUME TableInv, NEW c \in Conns, NEW d \in Conns,
                        ChannelOpen(c), ChannelOpen(d),
                        conn[c].client = conn[d].client
                 PROVE  c = d
      BY DEF OneReceiver
    <2>1. PICK i \in DOMAIN by_id : by_id[i].tx = conn[c].generation
      BY DEF ChannelOpen
    <2>2. PICK j \in DOMAIN by_id : by_id[j].tx = conn[d].generation
      BY DEF ChannelOpen
    <2>3. conn[c].session_id # 0 /\ conn[d].session_id # 0
      BY DEF ChannelOpen
    <2>4. i = conn[c].session_id /\ j = conn[d].session_id
      BY <2>1, <2>2, <2>3 DEF TableInv, ChannelsDistinct
    <2>5. by_id[i].client_id = conn[c].client /\ by_id[j].client_id = conn[d].client
      BY <2>4 DEF TableInv, OwnSession
    <2>6. i = j
      BY <2>5 DEF TableInv, TableConsistent
    <2> QED  BY <2>1, <2>2, <2>3, <2>6 DEF TableInv, ChannelsDistinct
  <1> QED  BY <1>1, TableInvariant, PTL

-------------------------------------------------------------------------------
(***************************************************************************)
(* The effect of each kind of step on one session.                         *)
(***************************************************************************)

\* A connect touches no session but its client's, and leaves that one online at
\* the newest generation.
LEMMA ConnectEffect ==
  ASSUME TableInv, NEW c \in Conns, NEW cl \in Clients,
         NEW secs \in ExpirySecs[cl],
         \/ ConnectClean(c, cl, secs)
         \/ ConnectResume(c, cl, secs)
         \/ ConnectNew(c, cl, secs)
  PROVE  /\ cl \in DOMAIN id_of'
         /\ by_id'[id_of'[cl]].tx = generation'
         /\ by_id'[id_of'[cl]].expiry_secs = secs
         /\ generation' = generation + 1
         /\ \A i \in DOMAIN by_id : by_id[i].client_id # cl =>
              i \in DOMAIN by_id' /\ by_id'[i] = by_id[i]
         /\ DOMAIN id_of' = DOMAIN id_of \cup {cl}
         /\ \A x \in DOMAIN id_of \ {cl} : id_of'[x] = id_of[x]
  <1>1. /\ next_id \notin DOMAIN by_id
        /\ generation \in Nat
        /\ cl \in DOMAIN id_of => id_of[cl] \in DOMAIN by_id
        /\ cl \in DOMAIN id_of => by_id[id_of[cl]].client_id = cl
        /\ cl \in DOMAIN id_of => by_id[id_of[cl]] \in Session
    <2>1. Typed /\ IdsFresh /\ TableConsistent
      BY DEF TableInv
    <2>2. next_id \notin DOMAIN by_id /\ generation \in Nat
      BY <2>1 DEF IdsFresh, Typed, TypeOK
    <2>3. cl \in DOMAIN id_of => id_of[cl] \in DOMAIN by_id /\ by_id[id_of[cl]].client_id = cl
      BY <2>1, Zenon DEF TableConsistent
    <2>4. \A i \in DOMAIN by_id : by_id[i] \in Session
      BY <2>1, Zenon DEF Typed, TypeOK
    <2> QED  BY <2>2, <2>3, <2>4
  <1> DEFINE new == NewSession(cl, secs)
  <1>2. new.tx = generation + 1 /\ new.expiry_secs = secs
    BY Zenon DEF NewSession
  <1> HIDE DEF new
  <1>3. CASE ConnectClean(c, cl, secs)
    <2>1. /\ cl \in DOMAIN id_of
          /\ by_id' = Insert(Without(by_id, id_of[cl]), next_id, new)
          /\ id_of' = Insert(id_of, cl, next_id)
          /\ generation' = generation + 1
      BY <1>3 DEF ConnectClean, Attach, new
    <2> QED  BY <1>1, <1>2, <2>1, Zenon DEF Insert, Without
  <1>4. CASE ConnectResume(c, cl, secs)
    <2> DEFINE r == [by_id[id_of[cl]] EXCEPT !.tx = generation + 1,
                                             !.expiry_secs = secs,
                                             !.generation = generation + 1]
    <2>1. /\ cl \in DOMAIN id_of
          /\ by_id' = [by_id EXCEPT ![id_of[cl]] = r]
          /\ id_of' = id_of
          /\ generation' = generation + 1
      BY <1>4 DEF ConnectResume, Attach
    <2>2. r.tx = generation + 1 /\ r.expiry_secs = secs
      BY <1>1, <2>1 DEF Session
    <2> HIDE DEF r
    <2> QED  BY ZenonT(30), <1>1, <2>1, <2>2
  <1>5. CASE ConnectNew(c, cl, secs)
    <2>1. /\ cl \notin DOMAIN id_of
          /\ by_id' = Insert(by_id, next_id, new)
          /\ id_of' = Insert(id_of, cl, next_id)
          /\ generation' = generation + 1
      BY <1>5 DEF ConnectNew, Attach, new
    <2> QED  BY <1>1, <1>2, <2>1 DEF Insert
  <1> QED  BY <1>3, <1>4, <1>5, Zenon

\* The steps that touch neither the sessions nor the index of client ids.
LEMMA OtherEffect ==
  ASSUME \/ \E c \in Conns :
              \/ Accept(c)
              \/ DropBeforeConnect(c)
              \/ \E raw \in Filters : Subscribe(c, raw) \/ Unsubscribe(c, raw)
              \/ LookupClient(c)
              \/ EnqueueSubscription(c)
         \/ WorkerApply
         \/ WorkerFails
         \/ UNCHANGED vars
  PROVE  UNCHANGED <<by_id, id_of>>
  BY ZenonT(30) DEF Accept, DropBeforeConnect, Subscribe, Unsubscribe, BeginSubscription,
         LookupClient, EnqueueSubscription, WorkerApply, WorkerFails, table, vars

\* The end of a connection: nothing, or the session it is current for goes or
\* loses its channel.
LEMMA DetachEffect ==
  ASSUME TableInv, NEW c \in Conns, Detach(c)
  PROVE  \/ UNCHANGED <<by_id, id_of>>
         \/ /\ Current(conn[c].session_id, conn[c].generation)
            /\ by_id[conn[c].session_id].expiry_secs = 0
            /\ discard(conn[c].session_id)
         \/ /\ Current(conn[c].session_id, conn[c].generation)
            /\ by_id' = Offline(conn[c].session_id)
            /\ id_of' = id_of
            /\ queue' = queue
  BY Zenon DEF Detach, detach, Superseded

\* Putting a session offline changes its channel and nothing else.
LEMMA OfflineEffect ==
  ASSUME TableInv, NEW id \in DOMAIN by_id, by_id' = Offline(id)
  PROVE  /\ DOMAIN by_id' = DOMAIN by_id
         /\ \A i \in DOMAIN by_id \ {id} : by_id'[i] = by_id[i]
         /\ by_id'[id].expiry_secs = by_id[id].expiry_secs
  BY DEF Offline, TableInv, Typed, TypeOK, Session

-------------------------------------------------------------------------------
\* A session that is online is disturbed only by the end of its own connection,
\* by a newer connection of its client, or by a crash: neither the detach of a
\* connection that was taken over nor a purge task does it.
THEOREM OnlySelfEnds == Spec => OnlineUntilOwnEnd
  <1> DEFINE A == \/ restarts' # restarts
                  \/ \A i \in DOMAIN by_id :
                       \/ by_id[i].tx = 0
                       \/ i \in DOMAIN by_id' /\ by_id'[i].tx = by_id[i].tx
                       \/ TakenOver(by_id[i].client_id)
                       \/ Ends(i)
  <1>1. TableInv /\ [Next]_vars => [A]_vars
    <2> SUFFICES ASSUME TableInv, Next, NEW i \in DOMAIN by_id, by_id[i].tx # 0,
                        restarts' = restarts
                 PROVE  \/ i \in DOMAIN by_id' /\ by_id'[i].tx = by_id[i].tx
                        \/ TakenOver(by_id[i].client_id)
                        \/ Ends(i)
      OBVIOUS
    <2>1. CASE UNCHANGED <<by_id, id_of>>
      BY <2>1
    <2>2. ASSUME NEW c \in Conns, Connect(c)
          PROVE  \/ i \in DOMAIN by_id' /\ by_id'[i].tx = by_id[i].tx
                 \/ TakenOver(by_id[i].client_id)
      <3>1. PICK cl \in Clients : \E secs \in ExpirySecs[cl] :
                   \/ ConnectClean(c, cl, secs)
                   \/ ConnectResume(c, cl, secs)
                   \/ ConnectNew(c, cl, secs)
        BY <2>2 DEF Connect
      <3>2. /\ cl \in DOMAIN id_of'
            /\ by_id'[id_of'[cl]].tx = generation'
            /\ generation' = generation + 1
            /\ by_id[i].client_id # cl => i \in DOMAIN by_id' /\ by_id'[i] = by_id[i]
        BY ZenonT(30), <3>1, ConnectEffect
      <3>3. generation \in Nat
        BY DEF TableInv, Typed, TypeOK
      <3> QED  BY <3>2, <3>3 DEF TakenOver
    <2>3. ASSUME NEW c \in Conns, Detach(c)
          PROVE  \/ i \in DOMAIN by_id' /\ by_id'[i].tx = by_id[i].tx
                 \/ Ends(i)
      <3>1. CASE UNCHANGED <<by_id, id_of>>
        BY <3>1
      <3>2. CASE Current(conn[c].session_id, conn[c].generation)
        <4>1. CASE i = conn[c].session_id
          <5>1. conn[c].generation = by_id[i].generation /\ conn[c].pc = "open"
            BY <2>3, <3>2, <4>1 DEF Current, Detach
          <5>2. conn'[c].pc = "closed"
            BY <2>3, NoConnType DEF Detach, TableInv, Typed, TypeOK
          <5> QED  BY <4>1, <5>1, <5>2 DEF Ends
        <4>2. CASE i # conn[c].session_id
          <5>1. conn[c].session_id \in DOMAIN by_id
            BY <3>2 DEF Current
          <5> QED  BY ZenonT(30), <2>3, <4>2, <5>1, DetachEffect, DiscardIndexes, OfflineEffect
        <4> QED  BY <4>1, <4>2
      <3> QED  BY <2>3, <3>1, <3>2, DetachEffect
    <2>4. ASSUME NEW t \in timers, purge_if_idle(t)
          PROVE  i \in DOMAIN by_id' /\ by_id'[i].tx = by_id[i].tx
      <3>1. CASE UNCHANGED <<by_id, id_of>>
        BY <3>1
      <3>2. CASE Idle(t[1], t[2]) /\ discard(t[1])
        <4>1. t[1] \in DOMAIN by_id /\ i # t[1]
          BY <3>2 DEF Idle, Current
        <4> QED  BY ZenonT(30), <3>2, <4>1, DiscardIndexes
      <3> QED  BY <2>4, <3>1, <3>2 DEF purge_if_idle
    <2>5. ~Restart
      BY DEF Restart, TableInv, Typed, TypeOK
    <2> QED  BY <2>1, <2>2, <2>3, <2>4, <2>5, OtherEffect, Zenon DEF Next, ConnStep
  <1> QED  BY <1>1, TableInvariant, PTL DEF Spec, OnlineUntilOwnEnd

\* A session that never expires is dropped only by a clean start of its client,
\* or by a crash: a purge task left over from an earlier, finite interval finds
\* that the generation has moved on.
THEOREM NeverPurged == Spec => KeptForEver
  <1> DEFINE A == \/ restarts' # restarts
                  \/ \A i \in DOMAIN by_id :
                       \/ by_id[i].expiry_secs # NO_EXPIRY
                       \/ i \in DOMAIN by_id'
                       \/ TakenOver(by_id[i].client_id)
  <1>1. TableInv /\ [Next]_vars => [A]_vars
    <2> SUFFICES ASSUME TableInv, Next, NEW i \in DOMAIN by_id,
                        by_id[i].expiry_secs = NO_EXPIRY, restarts' = restarts
                 PROVE  i \in DOMAIN by_id' \/ TakenOver(by_id[i].client_id)
      OBVIOUS
    <2>1. CASE UNCHANGED <<by_id, id_of>>
      BY <2>1
    <2>2. ASSUME NEW c \in Conns, Connect(c)
          PROVE  i \in DOMAIN by_id' \/ TakenOver(by_id[i].client_id)
      <3>1. PICK cl \in Clients : \E secs \in ExpirySecs[cl] :
                   \/ ConnectClean(c, cl, secs)
                   \/ ConnectResume(c, cl, secs)
                   \/ ConnectNew(c, cl, secs)
        BY <2>2 DEF Connect
      <3>2. /\ cl \in DOMAIN id_of'
            /\ by_id'[id_of'[cl]].tx = generation'
            /\ generation' = generation + 1
            /\ by_id[i].client_id # cl => i \in DOMAIN by_id'
        BY ZenonT(30), <3>1, ConnectEffect
      <3>3. generation \in Nat
        BY DEF TableInv, Typed, TypeOK
      <3> QED  BY <3>2, <3>3 DEF TakenOver
    <2>3. ASSUME NEW c \in Conns, Detach(c)
          PROVE  i \in DOMAIN by_id'
      <3>1. CASE UNCHANGED <<by_id, id_of>>
        BY <3>1
      <3>2. CASE Current(conn[c].session_id, conn[c].generation)
        <4>1. conn[c].session_id \in DOMAIN by_id
          BY <3>2 DEF Current
        <4>2. NO_EXPIRY # 0
          BY ConstantsAssumption
        <4>3. CASE by_id' = Offline(conn[c].session_id)
          BY <4>1, <4>3, OfflineEffect
        <4>4. CASE /\ by_id[conn[c].session_id].expiry_secs = 0
                   /\ discard(conn[c].session_id)
          <5>1. i # conn[c].session_id
            BY <4>2, <4>4
          <5>2. DOMAIN by_id' = DOMAIN by_id \ {conn[c].session_id}
            BY ZenonT(30), <4>1, <4>4, DiscardIndexes
          <5> QED  BY <5>1, <5>2
        <4> QED  BY <2>3, <3>1, <4>3, <4>4, DetachEffect
      <3> QED  BY <2>3, <3>1, <3>2, DetachEffect
    <2>4. ASSUME NEW t \in timers, purge_if_idle(t)
          PROVE  i \in DOMAIN by_id'
      <3>1. CASE UNCHANGED <<by_id, id_of>>
        BY <3>1
      <3>2. CASE Idle(t[1], t[2]) /\ discard(t[1])
        <4>1. Current(t[1], t[2])
          BY <3>2 DEF Idle
        <4>2. t[1] \in DOMAIN by_id /\ i # t[1]
          BY <4>1 DEF Current, TableInv, TimersFinite
        <4> QED  BY ZenonT(30), <3>2, <4>2, DiscardIndexes
      <3> QED  BY <2>4, <3>1, <3>2 DEF purge_if_idle
    <2>5. ~Restart
      BY DEF Restart, TableInv, Typed, TypeOK
    <2> QED  BY <2>1, <2>2, <2>3, <2>4, <2>5, OtherEffect DEF Next, ConnStep
  <1> QED  BY <1>1, TableInvariant, PTL DEF Spec, KeptForEver

-------------------------------------------------------------------------------
(***************************************************************************)
(* The rows.  Whatever changes a client's interval in the table sends the  *)
(* operation that says so in the same step, so that the last one queued is *)
(* right; the worker takes the oldest, which the last one outlives.        *)
(***************************************************************************)

\* What the row operations say.
LEMMA RowOps ==
  ASSUME NEW cl \in Clients, NEW secs \in Nat
  PROVE  /\ IsRowOp(persist_meta(cl, secs), cl)
         /\ RowOf(persist_meta(cl, secs)) = secs
         /\ IsRowOp(RemoveSession(cl), cl)
         /\ RowOf(RemoveSession(cl)) = 0
         /\ \A x : x # cl => /\ ~IsRowOp(persist_meta(cl, secs), x)
                             /\ ~IsRowOp(RemoveSession(cl), x)
         /\ \A op \in SubOps : \A raw, x : ~IsRowOp(SubscriptionOp(op, cl, raw), x)
  BY DEF persist_meta, PutSession, RemoveSession, SubscriptionOp, IsRowOp, RowOf,
         SubOps

RowsInv == TableInv /\ SessionRowsFollow

\* Nothing queued, and nothing about the sessions changed.
LEMMA RowsSame ==
  ASSUME RowsInv, UNCHANGED <<by_id, id_of, queue, disk_sessions>>, failed' = failed
  PROVE  SessionRowsFollow'
  <1>1. \A cl \in Clients : ExpiryOf(cl)' = ExpiryOf(cl)
    BY DEF ExpiryOf
  <1> QED  BY <1>1 DEF RowsInv, SessionRowsFollow, Follows

\* A connect sends the new interval last.
LEMMA RowsConnect ==
  ASSUME RowsInv, NEW c \in Conns, Connect(c)
  PROVE  SessionRowsFollow'
  <1>0. PICK cl \in Clients : \E secs \in ExpirySecs[cl] :
               \/ ConnectClean(c, cl, secs)
               \/ ConnectResume(c, cl, secs)
               \/ ConnectNew(c, cl, secs)
    BY DEF Connect
  <1>1. PICK secs \in ExpirySecs[cl] :
               \/ ConnectClean(c, cl, secs)
               \/ ConnectResume(c, cl, secs)
               \/ ConnectNew(c, cl, secs)
    BY <1>0
  <1> DEFINE meta == persist_meta(cl, secs)
             gone == RemoveSession(cl)
  <1>2. secs \in Nat /\ TableInv /\ queue \in Seq(PersistOp)
    BY ConstantsAssumption DEF RowsInv, TableInv, Typed, TypeOK
  <1>3. meta \in PersistOp /\ gone \in PersistOp
    BY <1>2, OpTypes
  <1>4. /\ queue' \in {Append(queue, meta), Append(Append(queue, gone), meta)}
        /\ disk_sessions' = disk_sessions /\ failed' = failed
    <2>1. CASE ConnectClean(c, cl, secs)
      <3>1. queue' = queue \o <<gone, meta>> /\ UNCHANGED disk
        BY <2>1, Zenon DEF ConnectClean, CleanStartOps
      <3> HIDE DEF meta, gone
      <3>2. queue \o <<gone, meta>> = Append(Append(queue, gone), meta)
        BY <1>2, <1>3, SendTwo
      <3> QED  BY <3>1, <3>2 DEF disk
    <2>2. CASE ConnectResume(c, cl, secs) \/ ConnectNew(c, cl, secs)
      <3>1. queue' = queue \o <<meta>> /\ UNCHANGED disk
        BY <2>2, Zenon DEF ConnectResume, ConnectNew
      <3>2. queue \o <<meta>> = Append(queue, meta)
        BY <1>2, <1>3, SendOne, Zenon
      <3> QED  BY <3>1, <3>2 DEF disk
    <2> QED  BY <1>1, <2>1, <2>2, Zenon
  <1>5. /\ IsRowOp(meta, cl) /\ RowOf(meta) = secs
        /\ \A x : x # cl => ~IsRowOp(meta, x) /\ ~IsRowOp(gone, x)
    BY <1>2, RowOps
  <1>6. /\ ExpiryOf(cl)' = secs
        /\ \A x \in Clients \ {cl} : ExpiryOf(x)' = ExpiryOf(x)
    <2>1. /\ cl \in DOMAIN id_of'
          /\ by_id'[id_of'[cl]].expiry_secs = secs
          /\ \A i \in DOMAIN by_id : by_id[i].client_id # cl =>
               i \in DOMAIN by_id' /\ by_id'[i] = by_id[i]
          /\ DOMAIN id_of' = DOMAIN id_of \cup {cl}
          /\ \A x \in DOMAIN id_of \ {cl} : id_of'[x] = id_of[x]
      BY ZenonT(30), <1>1, <1>2, ConnectEffect
    <2>2. \A x \in DOMAIN id_of : /\ id_of[x] \in DOMAIN by_id
                                  /\ by_id[id_of[x]].client_id = x
      BY <1>2 DEF TableInv, TableConsistent
    <2> QED  BY <2>1, <2>2 DEF ExpiryOf
  <1> HIDE DEF meta, gone
  <1> SUFFICES ASSUME NEW x \in Clients \ failed
               PROVE  Follows(queue', disk_sessions[x], ExpiryOf(x)', x)
    BY <1>4, Zenon DEF SessionRowsFollow
  <1>7. Append(queue, gone) \in Seq(PersistOp)
    BY <1>2, <1>3, AppendProperties
  <1>8. CASE x = cl
    BY ZenonT(30), <1>2, <1>3, <1>4, <1>5, <1>6, <1>7, <1>8, FollowsLast
  <1>9. CASE x # cl
    <2>1. Follows(queue, disk_sessions[x], ExpiryOf(x), x)
      BY DEF RowsInv, SessionRowsFollow
    <2>2. /\ Follows(Append(queue, gone), disk_sessions[x], ExpiryOf(x), x)
          /\ Follows(Append(queue, meta), disk_sessions[x], ExpiryOf(x), x)
      BY <1>2, <1>3, <1>5, <1>9, <2>1, FollowsOther
    <2>3. Follows(Append(Append(queue, gone), meta), disk_sessions[x],
                  ExpiryOf(x), x)
      BY ZenonT(30), <1>3, <1>5, <1>7, <1>9, <2>2, FollowsOther
    <2> QED  BY ZenonT(30), <1>4, <1>6, <1>9, <2>2, <2>3
  <1> QED  BY <1>8, <1>9

\* discard sends the removal last.
LEMMA RowsDiscard ==
  ASSUME RowsInv, NEW id \in DOMAIN by_id, discard(id),
         UNCHANGED <<disk_sessions, failed>>
  PROVE  SessionRowsFollow'
  <1>1. TableInv /\ by_id[id].client_id \in Clients /\ queue \in Seq(PersistOp)
    BY DEF RowsInv, TableInv, Typed, TypeOK, Session
  <1>0. PICK cl \in Clients : cl = by_id[id].client_id
    BY <1>1
  <1> DEFINE gone == RemoveSession(cl)
  <1>2. queue' = Append(queue, gone)
    BY <1>0 DEF discard
  <1>3. /\ ExpiryOf(cl)' = 0
        /\ \A x \in Clients \ {cl} : ExpiryOf(x)' = ExpiryOf(x)
    <2>1. /\ DOMAIN by_id' = DOMAIN by_id \ {id}
          /\ \A i \in DOMAIN by_id' : by_id'[i] = by_id[i]
          /\ DOMAIN id_of' = DOMAIN id_of \ {cl}
          /\ \A x \in DOMAIN id_of' : id_of'[x] = id_of[x]
      BY ZenonT(30), <1>0, <1>1, DiscardIndexes
    <2>2. \A x \in DOMAIN id_of : /\ id_of[x] \in DOMAIN by_id
                                  /\ by_id[id_of[x]].client_id = x
      BY <1>1 DEF TableInv, TableConsistent
    <2> QED  BY <1>0, <2>1, <2>2 DEF ExpiryOf
  <1>4. /\ gone \in PersistOp /\ IsRowOp(gone, cl) /\ RowOf(gone) = 0
        /\ \A x : x # cl => ~IsRowOp(gone, x)
    BY <1>1, OpTypes, RowOps
  <1> HIDE DEF gone
  <1> SUFFICES ASSUME NEW x \in Clients \ failed
               PROVE  Follows(queue', disk_sessions[x], ExpiryOf(x)', x)
    BY DEF SessionRowsFollow
  <1>5. CASE x = cl
    BY <1>1, <1>2, <1>3, <1>4, <1>5, FollowsLast
  <1>6. CASE x # cl
    <2>1. Follows(queue, disk_sessions[x], ExpiryOf(x), x)
      BY DEF RowsInv, SessionRowsFollow
    <2> QED  BY <1>1, <1>2, <1>3, <1>4, <1>6, <2>1, FollowsOther
  <1> QED  BY <1>5, <1>6

\* A subscription operation is on nobody's row.
LEMMA RowsEnqueue ==
  ASSUME RowsInv, NEW c \in Conns, EnqueueSubscription(c)
  PROVE  SessionRowsFollow'
  <1> DEFINE op == SubscriptionOp(conn[c].op, conn[c].key, conn[c].raw)
  <1>1. /\ conn[c].op \in SubOps /\ conn[c].key \in Clients
        /\ conn[c].raw \in Filters /\ queue \in Seq(PersistOp)
    BY DEF EnqueueSubscription, RowsInv, TableInv, Typed, TypeOK, CallInv, Conn
  <1>2. op \in PersistOp
    BY <1>1, OpTypes, 0 \in Nat
  <1>3. \A x : ~IsRowOp(op, x)
    BY <1>1, RowOps, 0 \in Nat
  <1>4. /\ queue' = Append(queue, op)
        /\ UNCHANGED <<by_id, id_of, disk_sessions, failed>>
    BY DEF EnqueueSubscription, table, disk
  <1>5. \A x \in Clients : ExpiryOf(x)' = ExpiryOf(x)
    BY <1>4 DEF ExpiryOf
  <1> HIDE DEF op
  <1> SUFFICES ASSUME NEW x \in Clients \ failed
               PROVE  Follows(queue', disk_sessions[x], ExpiryOf(x)', x)
    BY <1>4 DEF SessionRowsFollow
  <1>6. Follows(queue, disk_sessions[x], ExpiryOf(x), x)
    BY DEF RowsInv, SessionRowsFollow
  <1> QED  BY <1>1, <1>2, <1>3, <1>4, <1>5, <1>6, FollowsOther

\* The worker: the row becomes what the oldest operation says, or that operation
\* is not on the row, or the write has failed and nothing is claimed any more.
LEMMA RowsWorker ==
  ASSUME RowsInv, WorkerApply \/ WorkerFails
  PROVE  SessionRowsFollow'
  <1> DEFINE op == Head(queue)
  <1>1. /\ queue \in Seq(PersistOp) /\ queue # <<>> /\ queue' = Tail(queue)
        /\ UNCHANGED <<by_id, id_of>>
    BY DEF WorkerApply, WorkerFails, table, RowsInv, TableInv, Typed, TypeOK
  <1>2. op \in PersistOp
    BY <1>1, HeadTailProperties
  <1>3. \A x \in Clients : ExpiryOf(x)' = ExpiryOf(x)
    BY <1>1 DEF ExpiryOf
  <1>4. /\ failed \subseteq failed'
        /\ WorkerFails => failed' = failed \cup {op.client_id}
        /\ WorkerFails => disk_sessions' = disk_sessions
        /\ WorkerApply => apply_persist_op(op)
    BY Zenon DEF WorkerApply, WorkerFails
  <1> HIDE DEF op
  <1> SUFFICES ASSUME NEW x \in Clients \ failed'
               PROVE  Follows(Tail(queue), disk_sessions'[x], ExpiryOf(x), x)
    BY <1>1, <1>3 DEF SessionRowsFollow
  <1>5. Follows(queue, disk_sessions[x], ExpiryOf(x), x)
    BY <1>4 DEF RowsInv, SessionRowsFollow
  <1>6. /\ IsRowOp(op, x) => Follows(Tail(queue), RowOf(op), ExpiryOf(x), x)
        /\ ~IsRowOp(op, x) => Follows(Tail(queue), disk_sessions[x], ExpiryOf(x), x)
    BY <1>1, <1>5, FollowsTail DEF op
  <1>7. CASE WorkerFails
    <2>1. ~IsRowOp(op, x)
      BY <1>4, <1>7 DEF IsRowOp
    <2> QED  BY <1>4, <1>6, <1>7, <2>1, Zenon
  <1>8. CASE WorkerApply
    <2>1. disk_sessions'[x] = IF IsRowOp(op, x) THEN RowOf(op) ELSE disk_sessions[x]
      <3>1. disk_sessions \in [Clients -> Nat]
        BY DEF RowsInv, TableInv, Typed, TypeOK
      <3>2. apply_persist_op(op)
        BY <1>4, <1>8
      <3> QED  BY ZenonT(30), <1>2, <3>1, <3>2 DEF apply_persist_op, put_session, remove_session,
                  put_subscription, remove_subscription, IsRowOp, RowOf, PersistOp, SubOps
    <2> QED  BY <1>6, <2>1, Zenon
  <1> QED  BY <1>7, <1>8

\* After a restart the table is what the rows say, and nothing is queued.
LEMMA RowsRestart ==
  ASSUME RowsInv, Restart
  PROVE  SessionRowsFollow'
  <1>1. PICK n \in Nat : \E row \in [1..n -> Clients] : Reload(n, row)
    BY RestartPick
  <1>2. PICK row \in [1..n -> Clients] : Reload(n, row)
    BY <1>1
  <1>3. /\ DOMAIN id_of' = Durable
        /\ \A i \in 1..n : by_id'[i] = Loaded(row[i])
        /\ \A cl \in Durable : id_of'[cl] \in 1..n /\ row[id_of'[cl]] = cl
    BY <1>2, ReloadFacts DEF RowsInv, TableInv
  <1>4. \A cl \in Clients : ExpiryOf(cl)' = disk_sessions[cl]
    <2> SUFFICES ASSUME NEW cl \in Clients
                 PROVE  ExpiryOf(cl)' = disk_sessions[cl]
      OBVIOUS
    <2>1. CASE cl \in Durable
      <3>1. by_id'[id_of'[cl]] = Loaded(cl)
        BY <1>3, <2>1
      <3>2. Loaded(cl).expiry_secs = disk_sessions[cl]
        BY DEF Loaded
      <3> QED  BY <1>3, <2>1, <3>1, <3>2 DEF ExpiryOf
    <2>2. CASE cl \notin Durable
      BY <1>3, <2>2 DEF ExpiryOf, Durable
    <2> QED  BY <2>1, <2>2
  <1>5. queue' = <<>> /\ disk_sessions' = disk_sessions
    BY DEF Restart
  <1> QED  BY <1>4, <1>5 DEF SessionRowsFollow, Follows

\* One step keeps the rows in line: one case per action.
LEMMA NextRows == RowsInv /\ [Next]_vars => RowsInv'
  <1> SUFFICES ASSUME RowsInv, [Next]_vars PROVE SessionRowsFollow'
    BY NextTable DEF RowsInv
  <1>1. ASSUME NEW c \in Conns, Detach(c) PROVE SessionRowsFollow'
    <2>1. TableInv /\ UNCHANGED <<disk_sessions, failed>>
      BY <1>1 DEF RowsInv, Detach, disk
    <2>2. CASE Superseded(conn[c].session_id, conn[c].generation)
      BY <2>1, <2>2, RowsSame DEF Superseded
    <2>3. CASE /\ Current(conn[c].session_id, conn[c].generation)
               /\ discard(conn[c].session_id)
      BY <2>1, <2>3, RowsDiscard DEF Current
    <2>4. CASE /\ Current(conn[c].session_id, conn[c].generation)
               /\ by_id' = Offline(conn[c].session_id)
               /\ id_of' = id_of
               /\ queue' = queue
      <3>1. conn[c].session_id \in DOMAIN by_id
        BY <2>4 DEF Current
      <3>2. \A i \in DOMAIN by_id : by_id'[i].expiry_secs = by_id[i].expiry_secs
        BY <2>1, <2>4, <3>1, OfflineEffect
      <3>3. \A cl \in Clients : ExpiryOf(cl)' = ExpiryOf(cl)
        BY <2>1, <2>4, <3>2 DEF ExpiryOf, TableInv, TableConsistent
      <3> QED  BY <2>1, <2>4, <3>3 DEF RowsInv, SessionRowsFollow, Follows
    <2> QED  BY <1>1, <2>2, <2>3, <2>4, Zenon DEF Detach, detach
  <1>2. ASSUME NEW t \in timers, purge_if_idle(t) PROVE SessionRowsFollow'
    <2>1. UNCHANGED <<disk_sessions, failed>>
      BY <1>2 DEF purge_if_idle, disk
    <2>2. CASE UNCHANGED <<by_id, id_of, queue>>
      BY <2>1, <2>2, RowsSame
    <2>3. CASE Idle(t[1], t[2]) /\ discard(t[1])
      BY <2>1, <2>3, RowsDiscard DEF Idle, Current
    <2> QED  BY <1>2, <2>2, <2>3 DEF purge_if_idle
  <1>3. ASSUME NEW c \in Conns,
               \/ Accept(c)
               \/ DropBeforeConnect(c)
               \/ \E raw \in Filters : Subscribe(c, raw) \/ Unsubscribe(c, raw)
               \/ LookupClient(c)
        PROVE  SessionRowsFollow'
    <2>1. UNCHANGED <<by_id, id_of, queue, disk_sessions, failed>>
      BY ZenonT(30), <1>3 DEF Accept, DropBeforeConnect, Subscribe, Unsubscribe,
                  BeginSubscription, LookupClient, table, disk
    <2> QED  BY <2>1, RowsSame
  <1>4. CASE UNCHANGED vars
    BY <1>4, RowsSame DEF vars
  <1>5. ASSUME NEW c \in Conns, ConnStep(c) PROVE SessionRowsFollow'
    BY <1>1, <1>3, <1>5, RowsConnect, RowsEnqueue DEF ConnStep
  <1> QED  BY <1>2, <1>4, <1>5, RowsWorker, RowsRestart DEF Next

\* A client's row on disk and the operations queued for it always amount to what
\* the session table says of the client: whatever the interleaving of connects,
\* detaches and purges, the rows are never written out of order.
THEOREM RowsFollow == Spec => []SessionRowsFollow
  <1>1. Init => RowsInv
    <2>1. Init => SessionRowsFollow
      BY DEF Init, SessionRowsFollow, Follows, ExpiryOf
    <2> QED  BY <2>1, InitTable DEF RowsInv
  <1>2. RowsInv => SessionRowsFollow
    BY DEF RowsInv
  <1> QED  BY <1>1, <1>2, NextRows, PTL DEF Spec
===============================================================================
