------------------------------ MODULE ReadFrom ------------------------------
(***************************************************************************)
(* client_ops::sync_read_from: a message is its length in decimal, ':' and *)
(* that many bytes.  The length and the colon are one token each, a byte   *)
(* of the payload is the pair of its message and its position.  The socket *)
(* hands the stream over in pieces of any size and may fail at any read.   *)
(* When it can fail is said by the caller, ClientCall.                     *)
(***************************************************************************)
EXTENDS Integers, Sequences

CONSTANTS
  Lens,       \* lengths of the messages the other side sends
  BuffSize,   \* size of the caller's read_buff
  Slack       \* what resize adds to the length (256 in the code)

VARIABLES
  stream,      \* what the socket will still deliver
  read_buff,   \* the bytes read, after the erase without the head
  buff_size,   \* read_buff.size()
  pc, len, real_len, actual_len,
  ec, ret      \* the error code and the value returned

vars == <<stream, read_buff, buff_size, pc, len, real_len, actual_len, ec, ret>>

LenToken(n) == <<"len", n>>
Colon == <<"colon", 0>>
Payload(m, n) == [k \in 1..n |-> <<m, k>>]
Message(m, n) == <<LenToken(n), Colon>> \o Payload(m, n)

Min2(a, b) == IF a < b THEN a ELSE b

\* sock.read_some into the bytes of read_buff behind the first "at"
ReadSome(at) ==
  \E k \in 1..Min2(Len(stream), buff_size - at) :
    /\ len' = k
    /\ read_buff' = SubSeq(read_buff, 1, at) \o SubSeq(stream, 1, k)
    /\ stream' = SubSeq(stream, k + 1, Len(stream))

Init ==
  /\ stream = <<>> /\ read_buff = <<>> /\ buff_size = BuffSize
  /\ pc = "first" /\ len = 0 /\ real_len = 0 /\ actual_len = 0 /\ ret = 0

\* The frame of the call, left behind
Reset ==
  /\ stream' = <<>> /\ read_buff' = <<>> /\ buff_size' = BuffSize
  /\ pc' = "first" /\ len' = 0 /\ real_len' = 0 /\ actual_len' = 0 /\ ret' = 0

\* The other side sends its messages one behind the other.
Send ==
  /\ stream = <<>> /\ pc = "first"
  /\ \E n1, n2 \in Lens : stream' = Message("m1", n1) \o Message("m2", n2)
  /\ UNCHANGED <<read_buff, buff_size, pc, len, real_len, actual_len, ec, ret>>

Return(value, error) == pc' = "returned" /\ ret' = value /\ ec' = error

FirstRead ==
  /\ pc = "first"
  /\ ReadSome(0)
  /\ pc' = "head" /\ ec' = FALSE
  /\ UNCHANGED <<buff_size, real_len, actual_len, ret>>

FirstReadFailed ==
  /\ pc = "first"
  /\ Return(0, TRUE)
  /\ UNCHANGED <<stream, read_buff, buff_size, len, real_len, actual_len>>

\* No ':' in what has arrived, or a length of 0
HeadFailed ==
  /\ pc = "head"
  /\ Len(read_buff) < 2 \/ read_buff[1][2] = 0
  /\ Return(0, ec)
  /\ UNCHANGED <<stream, read_buff, buff_size, len, real_len, actual_len>>

\* The buffer is made larger when the message does not fit.
relarged_never(size, n) == size
relarged(size, n) == IF n > size THEN n + Slack ELSE size

\* read_buff.erase(begin, begin + pos + 1) with pos = 1
erase_front(s) == SubSeq(s, 3, Len(s))

HeadParsed ==
  /\ pc = "head"
  /\ Len(read_buff) >= 2 /\ read_buff[1][2] # 0
  /\ real_len' = read_buff[1][2]
  /\ read_buff' = erase_front(read_buff)
  /\ buff_size' = relarged(buff_size - 2, read_buff[1][2])
  /\ actual_len' = len - 2
  /\ pc' = "loop"
  /\ UNCHANGED <<stream, len, ec, ret>>

\* while (actual_len < real_len)
incomplete_off_by_one == actual_len + 1 < real_len
incomplete == actual_len < real_len

SubRead ==
  /\ pc = "loop" /\ incomplete
  /\ ReadSome(actual_len)
  /\ actual_len' = actual_len + len'
  /\ UNCHANGED <<buff_size, pc, real_len, ec, ret>>

SubReadFailed ==
  /\ pc = "loop" /\ incomplete
  /\ Return(actual_len, TRUE)
  /\ UNCHANGED <<stream, read_buff, buff_size, len, real_len, actual_len>>

Complete ==
  /\ pc = "loop" /\ ~incomplete
  /\ Return(actual_len, ec)
  /\ UNCHANGED <<stream, read_buff, buff_size, len, real_len, actual_len>>

\* The reads, which need the other side, and what needs nobody
Receive == FirstRead \/ SubRead
Fail    == FirstReadFailed \/ SubReadFailed
Local   == HeadFailed \/ HeadParsed \/ Complete

\* The loop never calls read_some with an empty buffer (which returns 0 and
\* looks like an error) and never reads past the end of read_buff, whatever
\* the length and the pieces.
ReadHasRoom ==
  pc = "loop" =>
    /\ actual_len <= buff_size
    /\ actual_len < real_len => actual_len < buff_size

\* What the caller gets at the start of read_buff is the payload of the first
\* message, without head and gaps, and actual_len counts it.
PayloadInPlace ==
  pc = "loop" =>
    /\ Len(read_buff) = actual_len
    /\ \A k \in 1..Min2(actual_len, real_len) : read_buff[k] = <<"m1", k>>

\* A caller that looks at ec is never taken in by a stream that ended in the
\* middle of a message (client_ops.cpp:79): a result without error is the whole
\* message.
WholeWithoutError ==
  pc = "returned" /\ ~ec /\ ret # 0 => real_len > 0 /\ ret >= real_len
=============================================================================
