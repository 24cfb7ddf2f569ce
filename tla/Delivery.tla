-------------------------------- MODULE Delivery --------------------------------
(***************************************************************************)
(* What a session promises for its messages, without packet ids, queues,   *)
(* connections or timers: each message of QoS 1 or 2 is owed to the client *)
(* from its acceptance until it has been handed over or settled otherwise, *)
(* messages are first handed over in the order of their acceptance, and    *)
(* only those of QoS 1 more than once.                                     *)
(*                                                                         *)
(* The promise is void once a crash of the broker has lost a write.        *)
(***************************************************************************)
EXTENDS Integers, Sequences

CONSTANTS Kinds   \* kinds of messages, records with a qos

VARIABLES
  msgs,      \* the messages accepted, by number
  owed,      \* messages still to be handed over
  got,       \* messages handed over, in the order of their first time
  twice,     \* messages handed over more than once
  settled,   \* messages dead-lettered, or gone with their session
  void       \* a write was lost in a crash

vars == <<msgs, owed, got, twice, settled, void>>

Init ==
  /\ msgs = <<>> /\ owed = {} /\ got = <<>> /\ twice = {} /\ settled = {}
  /\ void = FALSE

Accept(k) ==
  /\ msgs' = Append(msgs, k)
  /\ owed' = IF k.qos > 0 THEN owed \cup {Len(msgs) + 1} ELSE owed
  /\ UNCHANGED <<got, twice, settled, void>>

HandOver(m) ==
  /\ \A i \in 1..Len(got) : got[i] < m
  /\ got' = Append(got, m)
  /\ owed' = owed \ {m}
  /\ UNCHANGED <<msgs, twice, settled, void>>

HandOverAgain(m) ==
  /\ msgs[m].qos = 1
  /\ \E i \in 1..Len(got) : got[i] = m
  /\ twice' = twice \cup {m}
  /\ UNCHANGED <<msgs, owed, got, settled, void>>

\* Dead letters, or the end of the session: what is no longer owed is settled.
Settle ==
  /\ settled \subseteq settled'
  /\ settled' \subseteq 1..Len(msgs)
  /\ owed' = owed \ settled'
  /\ UNCHANGED <<msgs, got, twice, void>>

Void == void'

Next ==
  \/ \E k \in Kinds : Accept(k)
  \/ \E m \in 1..Len(msgs) : HandOver(m) \/ HandOverAgain(m)
  \/ Settle
  \/ Void

Spec == Init /\ [][Next]_vars
=================================================================================
