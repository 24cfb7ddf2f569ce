------------------------------- MODULE ByteStream -------------------------------
(***************************************************************************)
(* What the MQTT codec needs of a transport: the bytes that the peer sends *)
(* arrive in order, each once, and the end of the stream is reported after *)
(* the last of them and not before.  Bytes are numbered as they are sent.  *)
(***************************************************************************)
EXTENDS Integers, Sequences

VARIABLES
  sent,     \* number of bytes the peer has sent
  closed,   \* the peer has closed the stream
  given,    \* bytes handed to the reader
  reader    \* what the reader was told last: "open", "eof" or "error"

vars == <<sent, closed, given, reader>>

Init == sent = 0 /\ closed = FALSE /\ given = <<>> /\ reader = "open"

Put ==
  /\ ~closed
  /\ sent' \in Nat /\ sent' > sent
  /\ UNCHANGED <<closed, given, reader>>

Close ==
  /\ closed' = TRUE
  /\ UNCHANGED <<sent, given, reader>>

\* The reader is handed the next bytes, at least one of them.
Get ==
  /\ reader = "open"
  /\ given' \in Seq(Nat)
  /\ Len(given) < Len(given') /\ Len(given') <= sent
  /\ \A i \in 1..Len(given') : given'[i] = i
  /\ UNCHANGED <<sent, closed, reader>>

End ==
  /\ reader = "open"
  /\ closed /\ Len(given) = sent
  /\ reader' = "eof"
  /\ UNCHANGED <<sent, closed, given>>

Fail ==
  /\ reader = "open"
  /\ reader' = "error"
  /\ UNCHANGED <<sent, closed, given>>

Next == Put \/ Close \/ Get \/ End \/ Fail

Spec == Init /\ [][Next]_vars
=================================================================================
