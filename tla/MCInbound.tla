------------------------------- MODULE MCInbound --------------------------------
(* An instance of Inbound for TLC. *)
EXTENDS Inbound

Mixed == <<2, 1, 2, 2>>
=================================================================================
