-------------------------------- MODULE WsStream --------------------------------
(***************************************************************************)
(* MQTT over WebSocket (WsByteStream of ws.rs): a stream of frames made    *)
(* into the stream of bytes that the MQTT codec reads.  A binary frame, or *)
(* what is left of it in read_buf, is an interval of the bytes sent.  The  *)
(* other direction, where each write becomes a frame, is the same with the *)
(* parts exchanged, and trivial.                                           *)
(***************************************************************************)
EXTENDS Integers, Sequences

VARIABLES
  ws,         \* frames under way, oldest first
  read_buf,   \* WsByteStream.read_buf
  sent,       \* history: number of bytes the peer has put in binary frames
  closed,     \* the peer has sent a Close frame, or ended the connection
  given,      \* bytes handed to the codec
  reader,     \* what the codec was told last: "open", "eof" or "error"
  polling     \* poll_read is running

vars == <<ws, read_buf, sent, closed, given, reader, polling>>

\* Frames of other kinds have no bytes, at their place in the stream.
Bytes == [first : Nat \ {0}, last : Nat]
Frame == [kind : {"Binary", "Close", "Other"}, first : Nat \ {0}, last : Nat]

len(data) == data.last - data.first + 1
is_empty(data) == len(data) = 0

Init ==
  /\ ws = <<>>
  /\ read_buf = [first |-> 1, last |-> 0]
  /\ sent = 0
  /\ closed = FALSE
  /\ given = <<>>
  /\ reader = "open"
  /\ polling = FALSE

-------------------------------------------------------------------------------
(***************************************************************************)
(* The peer, behind the library that makes frames of what arrives.         *)
(***************************************************************************)
FrameOf(kind, k) == [kind |-> kind, first |-> sent + 1, last |-> sent + k]

SendBinary(k) ==
  /\ ~closed
  /\ sent' = sent + k
  /\ ws' = Append(ws, FrameOf("Binary", k))
  /\ UNCHANGED <<read_buf, closed, given, reader, polling>>

SendOther ==
  /\ ~closed
  /\ ws' = Append(ws, FrameOf("Other", 0))
  /\ UNCHANGED <<read_buf, sent, closed, given, reader, polling>>

\* A Close frame, or (after it, or instead of it) the end of the connection.
SendClose ==
  /\ ~closed
  /\ closed' = TRUE
  /\ ws' \in {Append(ws, FrameOf("Close", 0)), ws}
  /\ UNCHANGED <<read_buf, sent, given, reader, polling>>

-------------------------------------------------------------------------------
(***************************************************************************)
(* poll_read, one turn of its loop at a time.  The codec has room for at   *)
(* least a byte, and does not read on after the end or an error.           *)
(***************************************************************************)
poll_read ==
  /\ ~polling /\ reader = "open"
  /\ polling' = TRUE
  /\ UNCHANGED <<ws, read_buf, sent, closed, given, reader>>

Copy(remaining) ==
  LET n == IF len(read_buf) < remaining THEN len(read_buf) ELSE remaining
  IN /\ polling
     /\ ~is_empty(read_buf)
     /\ given' = given \o [i \in 1..n |-> read_buf.first + i - 1]
     /\ read_buf' = [first |-> read_buf.first + n, last |-> read_buf.last]
     /\ polling' = FALSE
     /\ UNCHANGED <<ws, sent, closed, reader>>

Fetch ==
  /\ polling
  /\ is_empty(read_buf)
  /\ ws # <<>>
  /\ ws' = Tail(ws)
  /\ \/ /\ Head(ws).kind = "Binary"
        /\ read_buf' = [first |-> Head(ws).first, last |-> Head(ws).last]
        /\ UNCHANGED <<reader, polling>>
     \/ /\ Head(ws).kind = "Close"
        /\ reader' = "eof"
        /\ polling' = FALSE
        /\ UNCHANGED read_buf
     \/ /\ Head(ws).kind = "Other"
        /\ UNCHANGED <<read_buf, reader, polling>>
  /\ UNCHANGED <<sent, closed, given>>

\* Nothing comes any more, or not now, or the library reports an error.
Ended ==
  /\ polling /\ is_empty(read_buf) /\ ws = <<>>
  /\ closed
  /\ reader' = "eof"
  /\ polling' = FALSE
  /\ UNCHANGED <<ws, read_buf, sent, closed, given>>

Pending ==
  /\ polling /\ is_empty(read_buf) /\ ws = <<>>
  /\ ~closed
  /\ polling' = FALSE
  /\ UNCHANGED <<ws, read_buf, sent, closed, given, reader>>

Error ==
  /\ polling /\ is_empty(read_buf)
  /\ reader' = "error"
  /\ polling' = FALSE
  /\ UNCHANGED <<ws, read_buf, sent, closed, given>>

-------------------------------------------------------------------------------
Peer == (\E k \in Nat : SendBinary(k)) \/ SendOther \/ SendClose

Next ==
  \/ Peer
  \/ poll_read
  \/ \E remaining \in Nat \ {0} : Copy(remaining)
  \/ Fetch
  \/ Ended
  \/ Pending
  \/ Error

Spec == Init /\ [][Next]_vars

-------------------------------------------------------------------------------
\* "We therefore treat the concatenation of all binary-frame payloads as one continuous
\* byte stream": the adapter is a byte stream, whatever the sizes of frames and of the
\* reader's buffers, with empty frames and others in between; above all an empty frame
\* is not taken for the end, and a Close frame does not overtake the bytes before it.
Stream == INSTANCE ByteStream

IsByteStream == Stream!Spec
=================================================================================
