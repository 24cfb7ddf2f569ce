----------------------------- MODULE WsStreamProofs -----------------------------
(***************************************************************************)
(* The WebSocket adapter is a byte stream: WsStream implements ByteStream. *)
(***************************************************************************)
EXTENDS WsStream, TLAPS

TypeOK ==
  /\ ws \in Seq(Frame)
  /\ read_buf \in Bytes
  /\ sent \in Nat
  /\ given \in Seq(Nat)
  /\ reader \in {"open", "eof", "error"}

\* The bytes given are the first ones, in order, and read_buf goes on from there.
Contiguous ==
  /\ \A i \in 1..Len(given) : given[i] = i
  /\ read_buf.first = Len(given) + 1
  /\ Len(given) <= read_buf.last /\ read_buf.last <= sent

\* The frames go on from read_buf, each from the one before, up to the last byte sent.
Linked(f, from) ==
  /\ f.first = from + 1
  /\ from <= f.last /\ f.last <= sent
  /\ f.kind # "Binary" => f.last = from

Before(j) == IF j = 1 THEN read_buf.last ELSE ws[j - 1].last

Chained ==
  /\ \A j \in 1..Len(ws) : Linked(ws[j], Before(j))
  /\ \A j \in 1..Len(ws) : ws[j].kind = "Close" => j = Len(ws) /\ closed
  /\ sent = Before(Len(ws) + 1)

IInv == TypeOK /\ Contiguous /\ Chained

\* The first bytes followed by the next k are the first ones again.
LEMMA FirstBytes ==
  ASSUME NEW s \in Seq(Nat), \A i \in 1..Len(s) : s[i] = i, NEW k \in Nat,
         NEW t, t = s \o [i \in 1..k |-> Len(s) + 1 + i - 1]
  PROVE  t \in Seq(Nat) /\ Len(t) = Len(s) + k /\ \A i \in 1..Len(t) : t[i] = i
<1> DEFINE u == [i \in 1..k |-> Len(s) + 1 + i - 1]
<1>1. u \in Seq(Nat) /\ Len(u) = k /\ \A i \in 1..k : u[i] = Len(s) + i
  OBVIOUS
<1>2. t \in Seq(Nat) /\ Len(t) = Len(s) + k
  BY <1>1
<1>3. ASSUME NEW i \in 1..Len(t) PROVE t[i] = i
  <2> HIDE DEF u
  <2>1. CASE i <= Len(s)
    BY <1>1, <1>2, <2>1
  <2>2. CASE i > Len(s)
    BY <1>1, <1>2, <2>2
  <2> QED BY <1>2, <2>1, <2>2
<1> QED BY <1>2, <1>3

LEMMA InitInv == Init => IInv
<1> SUFFICES ASSUME Init PROVE IInv
  OBVIOUS
<1> USE DEF Init
<1>1. TypeOK
  BY DEF TypeOK, Bytes
<1>2. Contiguous
  BY DEF Contiguous
<1>3. Chained
  BY DEF Chained, Before
<1> QED BY <1>1, <1>2, <1>3 DEF IInv

\* A frame behind the others.
LEMMA AppendInv ==
  ASSUME IInv, ~closed,
         NEW kind \in {"Binary", "Close", "Other"}, NEW k \in Nat,
         kind # "Binary" => k = 0, kind = "Close" => closed',
         ws' = Append(ws, FrameOf(kind, k)), sent' = sent + k,
         UNCHANGED <<read_buf, given, reader>>
  PROVE  IInv'
<1> DEFINE f == FrameOf(kind, k)
           n == Len(ws)
<1>1. f \in Frame /\ f.kind = kind /\ f.first = sent + 1 /\ f.last = sent + k
  BY DEF IInv, TypeOK, Frame, FrameOf
<1>2. /\ ws' \in Seq(Frame) /\ n \in Nat /\ Len(ws') = n + 1
      /\ ws'[n + 1] = f
      /\ \A j \in 1..n : ws'[j] = ws[j]
  BY <1>1 DEF IInv, TypeOK
<1>3. TypeOK'
  BY <1>2 DEF IInv, TypeOK
<1>4. Contiguous'
  BY DEF IInv, TypeOK, Contiguous, Bytes
<1>5. \A j \in 1..(n + 1) : Before(j)' = Before(j)
  BY <1>2 DEF Before
<1>6. \A j \in 1..n : ws[j] \in Frame
  BY DEF IInv, TypeOK
<1>7. ASSUME NEW j \in 1..n PROVE Linked(ws[j], Before(j))'
  <2>1. Linked(ws[j], Before(j)) /\ ws'[j] = ws[j] /\ Before(j)' = Before(j)
    BY <1>2, <1>5 DEF IInv, Chained
  <2>2. sent \in Nat /\ sent' >= sent /\ ws[j].last \in Nat
    BY <1>6 DEF IInv, TypeOK, Frame
  <2> QED BY <2>1, <2>2 DEF Linked
<1>8. ASSUME NEW j, j = n + 1 PROVE Linked(ws[j], Before(j))'
  <2>1. Before(j)' = sent /\ sent \in Nat
    BY <1>2, <1>5, <1>8 DEF IInv, TypeOK, Chained
  <2> QED BY <1>1, <1>2, <1>8, <2>1 DEF Linked
<1>9. sent' = Before(Len(ws) + 1)'
  <2>1. Len(ws') + 1 # 1 /\ Len(ws') + 1 - 1 = n + 1
    BY <1>2
  <2> QED BY <1>1, <1>2, <2>1 DEF Before
<1>10. \A j \in 1..Len(ws') : ws'[j].kind = "Close" => j = Len(ws') /\ closed'
  BY <1>1, <1>2 DEF IInv, Chained
<1>11. Chained'
  BY <1>2, <1>7, <1>8, <1>9, <1>10 DEF Chained
<1> QED BY <1>3, <1>4, <1>11 DEF IInv

\* Nothing but read_buf, given and the state of the reader changes.
LEMMA SameInv ==
  ASSUME IInv, UNCHANGED <<ws, read_buf, sent, given>>, closed => closed',
         reader' \in {"open", "eof", "error"}
  PROVE  IInv'
<1>1. TypeOK'
  BY DEF IInv, TypeOK
<1>2. Contiguous'
  BY DEF IInv, Contiguous
<1>3. \A j \in 1..Len(ws) : Linked(ws[j], Before(j))'
  BY DEF IInv, Chained, Linked, Before
<1>4. Chained'
  BY <1>3 DEF IInv, Chained, Before
<1> QED BY <1>1, <1>2, <1>4 DEF IInv

LEMMA CopyInv ==
  ASSUME IInv, NEW remaining \in Nat \ {0}, Copy(remaining)
  PROVE  /\ IInv'
         /\ Len(given) < Len(given') /\ Len(given') <= sent
<1> DEFINE n == IF len(read_buf) < remaining THEN len(read_buf) ELSE remaining
<1>1. /\ read_buf.first \in Nat /\ read_buf.last \in Nat /\ Len(given) \in Nat /\ sent \in Nat
      /\ read_buf.first = Len(given) + 1
      /\ Len(given) <= read_buf.last /\ read_buf.last <= sent
      /\ len(read_buf) = read_buf.last - Len(given) /\ len(read_buf) # 0
  BY DEF IInv, TypeOK, Contiguous, Bytes, Copy, len, is_empty
<1>2. n \in Nat /\ 0 < n /\ Len(given) + n <= read_buf.last
  BY <1>1
<1>3. /\ given' = given \o [i \in 1..n |-> read_buf.first + i - 1]
      /\ read_buf' = [first |-> read_buf.first + n, last |-> read_buf.last]
      /\ UNCHANGED <<ws, sent, closed, reader>>
  BY DEF Copy
<1> HIDE DEF n
<1>4. given' = given \o [i \in 1..n |-> Len(given) + 1 + i - 1]
  BY <1>1, <1>3
<1>5. /\ given' \in Seq(Nat) /\ Len(given') = Len(given) + n
      /\ \A i \in 1..Len(given') : given'[i] = i
  BY <1>2, <1>4, FirstBytes DEF IInv, TypeOK, Contiguous
<1>6. read_buf' \in Bytes /\ read_buf'.first = read_buf.first + n /\ read_buf'.last = read_buf.last
  BY <1>1, <1>2, <1>3 DEF Bytes
<1>7. TypeOK'
  BY <1>3, <1>5, <1>6 DEF IInv, TypeOK
<1>8. Contiguous'
  BY <1>1, <1>2, <1>3, <1>5, <1>6 DEF Contiguous
<1>9. \A j \in 1..(Len(ws) + 1) : Before(j)' = Before(j)
  BY <1>3, <1>6 DEF Before
<1>10. \A j \in 1..Len(ws) : Linked(ws[j], Before(j))'
  BY <1>3, <1>9 DEF IInv, TypeOK, Chained, Linked
<1>11. Chained'
  BY <1>3, <1>9, <1>10 DEF IInv, TypeOK, Chained
<1> QED BY <1>1, <1>2, <1>5, <1>7, <1>8, <1>11 DEF IInv

\* The first frame is taken; it begins where read_buf has ended.
LEMMA FetchInv == ASSUME IInv, Fetch PROVE IInv'
<1> DEFINE f == ws[1]
           n == Len(ws) - 1
<1>1. /\ ws # <<>> /\ Head(ws) = f /\ f \in Frame
      /\ ws' \in Seq(Frame) /\ n \in Nat /\ Len(ws') = n
      /\ \A j \in 1..n : ws'[j] = ws[j + 1]
  BY DEF IInv, TypeOK, Fetch
<1>2. Linked(f, read_buf.last)
  BY <1>1 DEF IInv, Chained, Before
<1>3. read_buf.last = Len(given) /\ Len(given) \in Nat /\ read_buf.first = Len(given) + 1
  BY DEF IInv, TypeOK, Contiguous, Bytes, Fetch, len, is_empty
<1>4. f.first \in Nat /\ f.last \in Nat /\ f.first # 0 /\ f.kind \in {"Binary", "Close", "Other"}
  BY <1>1 DEF Frame
<1>5. read_buf' \in Bytes /\ read_buf'.first = Len(given) + 1 /\ read_buf'.last = f.last
  <2>1. CASE f.kind = "Binary"
    <3>1. read_buf' = [first |-> f.first, last |-> f.last]
      BY <1>1, <2>1, Zenon DEF Fetch
    <3>2. f.first = Len(given) + 1
      BY <1>2, <1>3 DEF Linked
    <3> QED BY <1>4, <3>1, <3>2 DEF Bytes
  <2>2. CASE f.kind # "Binary"
    BY <1>1, <1>2, <1>3, <1>4, <2>2, Zenon DEF IInv, TypeOK, Fetch, Linked
  <2> QED BY <2>1, <2>2
<1>6. UNCHANGED <<sent, closed, given>> /\ reader' \in {"open", "eof", "error"}
  BY Zenon DEF IInv, TypeOK, Fetch
<1>7. TypeOK'
  BY <1>1, <1>5, <1>6 DEF IInv, TypeOK
<1>8. Contiguous'
  BY <1>2, <1>3, <1>4, <1>5, <1>6 DEF IInv, Contiguous, Linked
<1>9. \A j \in 1..(n + 1) : Before(j)' = Before(j + 1)
  BY <1>1, <1>5 DEF Before
<1>10. ASSUME NEW j \in 1..n PROVE Linked(ws[j], Before(j))'
  <2>1. Linked(ws[j + 1], Before(j + 1)) /\ ws'[j] = ws[j + 1] /\ Before(j)' = Before(j + 1)
    BY <1>1, <1>9 DEF IInv, TypeOK, Chained
  <2> QED BY <1>6, <2>1 DEF Linked
<1>11. Chained'
  BY <1>1, <1>6, <1>9, <1>10 DEF IInv, Chained
<1> QED BY <1>7, <1>8, <1>11 DEF IInv

LEMMA StepInv == IInv /\ [Next]_vars => IInv'
<1> SUFFICES ASSUME IInv, [Next]_vars PROVE IInv'
  OBVIOUS
<1>1. ASSUME NEW k \in Nat, SendBinary(k) PROVE IInv'
  BY <1>1, AppendInv DEF SendBinary
<1>2. CASE SendOther
  BY <1>2, AppendInv DEF SendOther, IInv, TypeOK
<1>3. CASE SendClose
  <2>1. CASE ws' = ws
    BY <1>3, <2>1, SameInv DEF SendClose, IInv, TypeOK
  <2>2. CASE ws' = Append(ws, FrameOf("Close", 0))
    BY <1>3, <2>2, AppendInv DEF SendClose, IInv, TypeOK
  <2> QED BY <1>3, <2>1, <2>2 DEF SendClose
<1>4. ASSUME NEW remaining \in Nat \ {0}, Copy(remaining) PROVE IInv'
  BY <1>4, CopyInv
<1>5. CASE Fetch
  BY <1>5, FetchInv
<1>6. CASE poll_read \/ Ended \/ Pending \/ Error
  BY <1>6, SameInv DEF poll_read, Ended, Pending, Error, IInv, TypeOK
<1>7. CASE UNCHANGED vars
  BY <1>7, SameInv DEF vars, IInv, TypeOK
<1> QED BY <1>1, <1>2, <1>3, <1>4, <1>5, <1>6, <1>7 DEF Next, Peer

-------------------------------------------------------------------------------
\* The codec is told nothing outside of a poll, and does not poll again after the end.
PollOpen == polling => reader = "open"

LEMMA PollOpenInv == (Init => PollOpen) /\ (PollOpen /\ [Next]_vars => PollOpen')
<1>1. Init => PollOpen
  BY DEF Init, PollOpen
<1>2. ASSUME PollOpen, [Next]_vars PROVE PollOpen'
  <2>1. CASE Peer
    BY <1>2, <2>1, Zenon DEF PollOpen, Peer, SendBinary, SendOther, SendClose
  <2>2. ASSUME NEW remaining \in Nat \ {0}, Copy(remaining) PROVE PollOpen'
    BY <2>2 DEF PollOpen, Copy
  <2>3. CASE Fetch
    BY <1>2, <2>3 DEF PollOpen, Fetch
  <2>4. CASE poll_read \/ Ended \/ Pending \/ Error
    BY <1>2, <2>4 DEF PollOpen, poll_read, Ended, Pending, Error
  <2>5. CASE UNCHANGED vars
    BY <1>2, <2>5 DEF PollOpen, vars
  <2> QED BY <1>2, <2>1, <2>2, <2>3, <2>4, <2>5 DEF Next
<1> QED BY <1>1, <1>2

\* Where there are no bytes in read_buf, and the frames are used up but for a Close, all
\* that was sent has been given.
LEMMA AllGiven ==
  ASSUME IInv, is_empty(read_buf), ws = <<>> \/ ws[1].kind = "Close"
  PROVE  Len(given) = sent
<1>1. read_buf.last = Len(given)
  BY DEF IInv, TypeOK, Contiguous, Bytes, len, is_empty
<1>2. CASE ws = <<>>
  BY <1>1, <1>2 DEF IInv, Chained, Before
<1>3. CASE ws # <<>> /\ ws[1].kind = "Close"
  <2>1. 1 \in 1..Len(ws)
    BY <1>3 DEF IInv, TypeOK
  <2>2. Len(ws) = 1 /\ Linked(ws[1], read_buf.last)
    BY <1>3, <2>1, Zenon DEF IInv, Chained, Before
  <2>3. sent = ws[1].last
    BY <2>2 DEF IInv, Chained, Before
  <2> QED BY <1>1, <1>3, <2>2, <2>3 DEF Linked
<1> QED BY <1>2, <1>3

LEMMA StepRefines ==
  ASSUME IInv, PollOpen, [Next]_vars
  PROVE  [Stream!Next]_(Stream!vars)
<1> USE DEF Stream!vars, Stream!Next
<1>1. ASSUME NEW k \in Nat, SendBinary(k) PROVE Stream!Put \/ UNCHANGED Stream!vars
  BY <1>1 DEF SendBinary, Stream!Put, IInv, TypeOK
<1>2. CASE SendOther \/ poll_read \/ Pending \/ UNCHANGED vars
  BY <1>2 DEF SendOther, poll_read, Pending, vars
<1>3. CASE SendClose
  BY <1>3 DEF SendClose, Stream!Close
<1>4. ASSUME NEW remaining \in Nat \ {0}, Copy(remaining) PROVE Stream!Get
  <2>1. IInv' /\ Len(given) < Len(given') /\ Len(given') <= sent
    BY <1>4, CopyInv
  <2>2. given' \in Seq(Nat) /\ \A i \in 1..Len(given') : given'[i] = i
    BY <2>1 DEF IInv, TypeOK, Contiguous
  <2>3. reader = "open" /\ UNCHANGED <<sent, closed, reader>>
    BY <1>4 DEF Copy, PollOpen
  <2> QED BY <2>1, <2>2, <2>3 DEF Stream!Get
<1>5. CASE Fetch
  <2>1. CASE Head(ws).kind = "Close"
    <3>1. ws # <<>> /\ ws[1].kind = "Close" /\ is_empty(read_buf)
      BY <1>5, <2>1 DEF Fetch, IInv, TypeOK
    <3>2. Len(given) = sent
      BY <3>1, AllGiven
    <3>3. closed
      BY <3>1 DEF IInv, TypeOK, Chained
    <3>4. reader = "open" /\ reader' = "eof" /\ UNCHANGED <<sent, closed, given>>
      BY <1>5, <2>1, Zenon DEF Fetch, PollOpen
    <3> QED BY <3>2, <3>3, <3>4 DEF Stream!End
  <2>2. CASE Head(ws).kind # "Close"
    BY <1>5, <2>2, Zenon DEF Fetch
  <2> QED BY <2>1, <2>2
<1>6. CASE Ended
  <2>1. Len(given) = sent
    BY <1>6, AllGiven DEF Ended
  <2> QED BY <1>6, <2>1 DEF Ended, PollOpen, Stream!End
<1>7. CASE Error
  BY <1>7 DEF Error, PollOpen, Stream!Fail
<1> QED BY <1>1, <1>2, <1>3, <1>4, <1>5, <1>6, <1>7 DEF Next, Peer

\* The concatenated payloads of the binary frames are one continuous byte stream, for
\* frames and read buffers of any sizes: each byte is given once and in its place, an
\* empty frame is no end, and the end comes after the last byte.
THEOREM WsIsByteStream == Spec => IsByteStream
<1>1. Init => Stream!Init
  BY DEF Init, Stream!Init
<1>2. Init => IInv /\ PollOpen
  BY InitInv, PollOpenInv
<1>3. IInv /\ PollOpen /\ [Next]_vars => IInv' /\ PollOpen'
  BY StepInv, PollOpenInv
<1>4. IInv /\ PollOpen /\ [Next]_vars => [Stream!Next]_(Stream!vars)
  BY StepRefines
<1> QED BY <1>1, <1>2, <1>3, <1>4, PTL DEF Spec, IsByteStream, Stream!Spec
=================================================================================
