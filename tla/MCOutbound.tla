------------------------------- MODULE MCOutbound -------------------------------
(* An instance of Outbound for TLC. *)
EXTENDS Outbound

\* Messages of each QoS, and a dead letter.
MCKinds == {[qos |-> 0, dlq |-> FALSE], [qos |-> 1, dlq |-> FALSE],
            [qos |-> 2, dlq |-> FALSE], [qos |-> 1, dlq |-> TRUE]}
=================================================================================
