-------------------------------- MODULE Retained --------------------------------
(***************************************************************************)
(* The retained message of one topic: Hub::publish with the retain flag,   *)
(* SUBSCRIBE with Hub::deliver_retained, and the row on disk.  Each takes  *)
(* several locks one after the other (retained, router, sessions) and      *)
(* holds none of them in between.                                          *)
(*                                                                         *)
(* A message is its number; those in Empty have an empty payload, which    *)
(* clears the topic.                                                       *)
(***************************************************************************)
EXTENDS Integers, Sequences, FiniteSets

CONSTANTS
  Publishers,    \* tasks that publish to the topic
  Subscribers,   \* tasks that subscribe to it
  Threads,       \* threads of the runtime
  MaxMessages,   \* bound: messages published
  Empty,         \* those with an empty payload
  MaxCrashes     \* bound: crashes of the broker

ASSUME RetainedAssumption ==
  /\ IsFiniteSet(Publishers) /\ IsFiniteSet(Subscribers)
  /\ Publishers \cap Subscribers = {}
  /\ Threads \in Nat \ {0}
  /\ MaxMessages \in Nat /\ MaxCrashes \in Nat
  /\ Empty \subseteq 1..MaxMessages

None == 0
Message == 1..MaxMessages
Tasks == Publishers \cup Subscribers

VARIABLES
  retained,       \* RetainedStore.by_topic, for the topic
  subscribed,     \* Router: who is subscribed to the topic
  pc,             \* where each task is
  msg,            \* the message a task works with
  targets,        \* a publisher: the recipients that route returned
  pq,             \* PutRetained writes waiting for the persistence worker
  disk_retained,  \* the row of RETAINED
  seen,           \* history: what each subscriber has been delivered
  sent,           \* history: the number of messages published
  overlapped,     \* history: two tasks have been between their locks at once
  crashes         \* history: the crashes so far

vars == <<retained, subscribed, pc, msg, targets, pq, disk_retained, seen, sent,
          overlapped, crashes>>

Init ==
  /\ retained = None
  /\ subscribed = {}
  /\ pc = [t \in Tasks |-> "idle"]
  /\ msg = [t \in Tasks |-> None]
  /\ targets = [t \in Publishers |-> {}]
  /\ pq = <<>>
  /\ disk_retained = None
  /\ seen = [s \in Subscribers |-> <<>>]
  /\ sent = 0
  /\ overlapped = FALSE
  /\ crashes = 0

\* A task that is between two locks holds a thread; one that is idle, or that waits
\* for its SUBACK to be written, does not.
Running == {t \in Tasks : pc[t] \notin {"idle", "suback", "done"}}

\* A task is given a thread.  From then on two tasks have run at once, if another had
\* one already.
Scheduled ==
  /\ Cardinality(Running) < Threads
  /\ overlapped' = (overlapped \/ Running # {})

Goto(t, label) == pc' = [pc EXCEPT ![t] = label]

-------------------------------------------------------------------------------
(***************************************************************************)
(* Hub::publish: RetainedStore::apply, enqueue, route, deliver.            *)
(***************************************************************************)
\* What the topic holds after a retained PUBLISH: an empty payload clears it.
Applied(m) == IF m \in Empty THEN None ELSE m

apply(p) ==
  /\ Scheduled
  /\ pc[p] = "idle"
  /\ sent < MaxMessages
  /\ sent' = sent + 1
  /\ msg' = [msg EXCEPT ![p] = sent + 1]
  /\ retained' = Applied(sent + 1)
  /\ Goto(p, "persist")
  /\ UNCHANGED <<subscribed, targets, pq, disk_retained, seen, crashes>>

\* (Mutant: a cleared topic is not persisted.)
enqueue_NotCleared(p) ==
  /\ pc[p] = "persist"
  /\ pq' = IF msg[p] \in Empty THEN pq ELSE Append(pq, msg[p])
  /\ Goto(p, "route")
  /\ UNCHANGED <<overlapped, retained, subscribed, msg, targets, disk_retained,
                 seen, sent, crashes>>

enqueue(p) ==
  /\ pc[p] = "persist"
  /\ pq' = Append(pq, msg[p])
  /\ Goto(p, "route")
  /\ UNCHANGED <<overlapped, retained, subscribed, msg, targets, disk_retained,
                 seen, sent, crashes>>

route(p) ==
  /\ pc[p] = "route"
  /\ targets' = [targets EXCEPT ![p] = subscribed]
  /\ Goto(p, "deliver")
  /\ UNCHANGED <<overlapped, retained, subscribed, msg, pq, disk_retained, seen, sent, crashes>>

deliver(p) ==
  /\ pc[p] = "deliver"
  /\ seen' = [s \in Subscribers |-> IF s \in targets[p] THEN Append(seen[s], msg[p])
                                                        ELSE seen[s]]
  /\ targets' = [targets EXCEPT ![p] = {}]
  /\ msg' = [msg EXCEPT ![p] = None]
  /\ Goto(p, "idle")
  /\ UNCHANGED <<overlapped, retained, subscribed, pq, disk_retained, sent, crashes>>

-------------------------------------------------------------------------------
(***************************************************************************)
(* SUBSCRIBE: Router::subscribe, the SUBACK, and then deliver_retained,    *)
(* which reads the store and delivers what it found.                       *)
(***************************************************************************)
subscribe(s) ==
  /\ Scheduled
  /\ pc[s] = "idle"
  /\ subscribed' = subscribed \cup {s}
  /\ Goto(s, "suback")
  /\ UNCHANGED <<retained, msg, targets, pq, disk_retained, seen, sent, crashes>>

\* (Mutant: the store is asked for what it holds on disk.)
matching_Disk == disk_retained
matching == retained

match(s) ==
  /\ Scheduled
  /\ pc[s] = "suback"
  /\ msg' = [msg EXCEPT ![s] = matching]
  /\ Goto(s, IF matching = None THEN "done" ELSE "deliver")
  /\ UNCHANGED <<retained, subscribed, targets, pq, disk_retained, seen, sent, crashes>>

deliver_retained(s) ==
  /\ pc[s] = "deliver"
  /\ seen' = [seen EXCEPT ![s] = Append(@, msg[s])]
  /\ msg' = [msg EXCEPT ![s] = None]
  /\ Goto(s, "done")
  /\ UNCHANGED <<overlapped, retained, subscribed, targets, pq, disk_retained, sent, crashes>>

-------------------------------------------------------------------------------
\* The persistence worker: put_retained.
put_retained ==
  /\ pq # <<>>
  /\ pq' = Tail(pq)
  /\ disk_retained' = Applied(Head(pq))
  /\ UNCHANGED <<overlapped, retained, subscribed, pc, msg, targets, seen, sent, crashes>>

\* Hub::new after a crash: the connections are gone, the store is what was on disk.
Crash ==
  /\ crashes < MaxCrashes
  /\ crashes' = crashes + 1
  /\ retained' = disk_retained
  /\ subscribed' = {}
  /\ pc' = [t \in Tasks |-> "idle"]
  /\ msg' = [t \in Tasks |-> None]
  /\ targets' = [t \in Publishers |-> {}]
  /\ pq' = <<>>
  /\ seen' = [s \in Subscribers |-> <<>>]
  /\ UNCHANGED <<overlapped, disk_retained, sent>>

PublisherStep(p) == apply(p) \/ enqueue(p) \/ route(p) \/ deliver(p)
SubscriberStep(s) == subscribe(s) \/ match(s) \/ deliver_retained(s)

Next ==
  \/ \E p \in Publishers : PublisherStep(p)
  \/ \E s \in Subscribers : SubscriberStep(s)
  \/ put_retained
  \/ Crash

Spec == Init /\ [][Next]_vars

-------------------------------------------------------------------------------
(***************************************************************************)
(* Properties                                                              *)
(***************************************************************************)
\* The variables have their types.
TypeOK ==
  /\ retained \in {None} \cup (Message \ Empty)
  /\ subscribed \subseteq Subscribers
  /\ pc \in [Tasks -> {"idle", "persist", "route", "deliver", "suback", "done"}]
  /\ msg \in [Tasks -> {None} \cup Message]
  /\ targets \in [Publishers -> SUBSET Subscribers]
  /\ pq \in Seq(Message)
  /\ disk_retained \in {None} \cup (Message \ Empty)
  /\ seen \in [Subscribers -> Seq(Message)]
  /\ sent \in 0..MaxMessages
  /\ overlapped \in BOOLEAN
  /\ crashes \in 0..MaxCrashes

SeenBy(s) == {seen[s][i] : i \in 1..Len(seen[s])}
Settled == \A t \in Tasks : pc[t] \in {"idle", "done"}

\* A subscriber never misses the value that the topic ends up with: whichever way a
\* SUBSCRIBE and the publishers interleave, the retained message has been delivered
\* to every subscriber, live or from the store, because a publisher updates the store
\* before it asks the router and a subscriber registers before it asks the store.
NoneMissed ==
  Settled => \A s \in subscribed : retained # None => retained \in SeenBy(s)

\* As long as no two tasks have run at once, the disk holds the retained message once
\* the queue of writes is empty, so that it survives a restart.  (Two publishers that
\* update the store in one order may enqueue their writes in the other.)
OnDisk == (~overlapped /\ Settled /\ pq = <<>>) => disk_retained = retained

\* "a late joiner immediately learns the topic's current value": as long as no two tasks
\* have run at once, the last thing a subscriber was delivered is the retained message.
\* (Two publishers that update the store in one order may deliver in the other.)
LastIsCurrent ==
  (~overlapped /\ Settled) =>
    \A s \in subscribed :
      retained # None => seen[s] # <<>> /\ seen[s][Len(seen[s])] = retained
=================================================================================
