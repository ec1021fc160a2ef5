----------------------------- MODULE FrontConn -----------------------------
(***************************************************************************)
(* One life of a front_conn, from start() to the first error: how requests *)
(* are cut out of the byte stream and how replies get back into it.        *)
(*                                                                         *)
(* The stream is a sequence of tokens: a head, up to its empty line, is    *)
(* one token (pos = 0), a unit of a body or of a reply is one token.  All  *)
(* handlers run in the connection's strand, so each is one step; the       *)
(* reactor moves tokens between the steps.  ConnPool shows that a life     *)
(* begins with no handler of an earlier one left.                          *)
(***************************************************************************)
EXTENDS Integers, Sequences, SequencesExt

CONSTANTS
  MaxRequests,   \* bound on the requests a client sends
  Outstanding,   \* bound on the requests without a reply (1: it always waits)
  BodyLens,      \* values of Content-Length
  FixedReply,    \* length of the reply to /aa and /cc
  BbReplies,     \* lengths of replies to /bb
  ErrorReply,    \* length of a reply with an error status
  BufferSize,    \* size p_write_ is constructed with (16K in the code)
  Writes         \* identities of write operations (bound: |Writes| at once)

ASSUME FrontConnAssumption ==
  /\ MaxRequests \in Nat /\ Outstanding \in Nat \ {0}
  /\ BodyLens \subseteq Nat
  /\ {FixedReply, ErrorReply, BufferSize} \cup BbReplies \subseteq Nat \ {0}

VARIABLES
  reqs,        \* what the client has sent; "ahead": before the earlier replies came
  inbox,       \* tokens in the socket's receive buffer
  request_,    \* the streambuf of async_read_until
  parser_,     \* the request whose head was parsed last
  p_buffer_, r_size_,
  reading,     \* the read operation or its handler
  p_write_, w_size_, w_pos_,
  writing,     \* per write operation
  stats_,
  out, due,    \* what the client has received; what the replies add up to
  aborted

readVars  == <<inbox, request_, parser_, p_buffer_, r_size_, reading>>
bufVars   == <<p_write_, w_size_, w_pos_>>
writeVars == <<bufVars, writing, out, due>>
vars == <<reqs, readVars, writeVars, stats_, aborted>>

\* The requests a client can make: /aa or /cc (answered at once), /bb
\* (answered by another server, or not at all), one refused for its method or
\* its uri, one whose head parse_request rejects, and one to a served uri with a
\* Content-Length that atoi does not give back: below 0 or above INT_MAX.
Served == {"aa", "bb"}
Kinds  == Served \cup {"refused", "garbled", "misread"}

Working == stats_ = "conn_working"
Token(i, k) == [req |-> i, pos |-> k]
Nul     == Token(0, 0)
Garbage == Token(0, -1)
HeadAndBody(i, len) == [k \in 1..(len + 1) |-> Token(i, k - 1)]
Units(i, n) == [k \in 1..n |-> Token(i, k)]

NoWrite == [pc |-> "free", from |-> 0, size |-> 0, done |-> 0, freed |-> FALSE]

-----------------------------------------------------------------------------
(***************************************************************************)
(* The client and the network                                              *)
(***************************************************************************)

\* The last token of the reply to request i has arrived.
Answered(i) ==
  \E k \in DOMAIN out :
    out[k].req = i /\ \A j \in DOMAIN due : due[j].req = i => due[j].pos <= out[k].pos

Send ==
  /\ Len(reqs) < MaxRequests
  /\ \A i \in 1..(Len(reqs) + 1 - Outstanding) : Answered(i)
  /\ \E kind \in Kinds, len \in BodyLens :
       /\ reqs' = Append(reqs, [kind |-> kind, len |-> len,
                                ahead |-> ~\A i \in DOMAIN reqs : Answered(i)])
       /\ inbox' = inbox \o HeadAndBody(Len(reqs) + 1, len)
  /\ UNCHANGED <<request_, parser_, p_buffer_, r_size_, reading, writeVars, stats_,
                 aborted>>

\* async_read_until takes what one read of the socket gives, k tokens.
\* request_ is empty when the operation starts and the first token is a head.
ReadUntil ==
  /\ reading = "head"
  /\ \E k \in 1..Len(inbox) :
       /\ request_' = request_ \o SubSeq(inbox, 1, k)
       /\ inbox' = SubSeq(inbox, k + 1, Len(inbox))
  /\ reading' = "head_ok"
  /\ UNCHANGED <<reqs, parser_, p_buffer_, r_size_, writeVars, stats_, aborted>>

\* What Content-Length says of the request being read; for a value that an int
\* holds and that is not negative, atoi and size_t leave it as it is.
content_length == reqs[parser_].len

\* async_read of exactly len - r_size_ bytes, stored behind the first r_size_
ReadExactly ==
  /\ reading = "body"
  /\ LET missing == content_length - r_size_ IN
     /\ Len(inbox) >= missing
     /\ p_buffer_' = SubSeq(p_buffer_, 1, r_size_) \o SubSeq(inbox, 1, missing)
     /\ inbox' = SubSeq(inbox, missing + 1, Len(inbox))
  /\ reading' = "body_ok"
  /\ UNCHANGED <<reqs, request_, parser_, r_size_, writeVars, stats_, aborted>>

\* The socket takes one more token of a write.
Transfer(w) ==
  /\ writing[w].pc = "wait"
  /\ LET done == writing[w].done + 1 IN
     /\ out' = Append(out, IF writing[w].freed THEN Garbage
                           ELSE p_write_[writing[w].from + done])
     /\ writing' = [writing EXCEPT ![w].done = done,
                      ![w].pc = IF done = writing[w].size THEN "ok" ELSE "wait"]
  /\ UNCHANGED <<reqs, readVars, bufVars, due, stats_, aborted>>

Waiting == {"head", "body"}
ended_read(r) == IF reading \in Waiting THEN r ELSE reading
ended_writes(r) ==
  [w \in Writes |-> IF writing[w].pc = "wait" THEN [writing[w] EXCEPT !.pc = r]
                    ELSE writing[w]]

\* The client closes its side or resets the connection: the read ends, and
\* so may the writes.
PeerGone ==
  /\ reading' = ended_read("error")
  /\ writing' \in {writing, ended_writes("error")}
  /\ UNCHANGED <<reqs, inbox, request_, parser_, p_buffer_, r_size_, bufVars, out, due,
                 stats_, aborted>>

\* timing_wheel_check finds the connection idle: sock_shutdown, set_stats.
Expire ==
  /\ Working
  /\ stats_' = "conn_error"
  /\ reading' = ended_read("error")
  /\ writing' = ended_writes("error")
  /\ UNCHANGED <<reqs, inbox, request_, parser_, p_buffer_, r_size_, bufVars, out, due,
                 aborted>>

-----------------------------------------------------------------------------
(***************************************************************************)
(* fill_for_http, do_write, do_read_head, do_read_body                     *)
(***************************************************************************)

\* The reply with its final '\0' is copied over the buffer.  A buffer that is
\* too small is replaced under the writes that use it.
fill_for_http(i, n) ==
  /\ p_write_' = [k \in DOMAIN p_write_ \cup 1..(n + 1) |->
                    IF k <= n THEN Token(i, k) ELSE IF k = n + 1 THEN Nul ELSE p_write_[k]]
  /\ w_size_' = n
  /\ w_pos_' = 0

\* The writes in flight while the buffer is resized for a reply of length n
resized(n) ==
  [w \in Writes |-> [writing[w] EXCEPT !.freed =
                       @ \/ (writing[w].pc = "wait" /\ n + 1 > Len(p_write_))]]

\* async_write of [from, from + size) in slot w of ws
started(ws, w, from, size) ==
  [ws EXCEPT ![w] = [NoWrite EXCEPT !.pc = "wait", !.from = from, !.size = size]]

\* fill_for_http, then do_write with its two asserts
reply(i, n) ==
  /\ fill_for_http(i, n)
  /\ \/ /\ Working
        /\ \E w \in Writes :
             /\ writing[w].pc = "free"
             /\ writing' = started(resized(n), w, 0, n)
        /\ due' = due \o Units(i, n)
     \/ /\ ~Working
        /\ writing' = resized(n)
        /\ UNCHANGED due
  /\ UNCHANGED out

do_read(what) == reading' = IF Working THEN what ELSE "none"

\* shutdown and cancel of the socket, then notify_conn_error
fail ==
  /\ r_size_' = 0
  /\ w_size_' = 0
  /\ stats_' = "conn_error"

-----------------------------------------------------------------------------
(***************************************************************************)
(* read_head_handler                                                       *)
(***************************************************************************)

Current    == request_[1].req
Additional == Tail(request_)

\* error_return after parse_request has failed: a reply and no further read
HeadGarbled ==
  /\ reading = "head_ok" /\ reqs[Current].kind = "garbled"
  /\ request_' = <<>>
  /\ r_size_' = 0
  /\ reply(Current, ErrorReply)
  /\ reading' = "none"
  /\ UNCHANGED <<reqs, inbox, parser_, p_buffer_, stats_, aborted>>

\* Method or uri: a reply, no further read, and request_ keeps what follows
HeadRefused ==
  /\ reading = "head_ok" /\ reqs[Current].kind = "refused"
  /\ parser_' = Current
  /\ request_' = Additional
  /\ reply(Current, ErrorReply)
  /\ reading' = "none"
  /\ UNCHANGED <<reqs, inbox, p_buffer_, r_size_, stats_, aborted>>

\* size_t len = atoi(...) is another number than Content-Length: of -1 it makes
\* len + 1 = 0, which leaves p_buffer_ as it is for a body without end, of other
\* negative numbers a wrong or impossible size, of large ones what is left in an
\* int.  The model ends here.
HeadMisread ==
  /\ reading = "head_ok" /\ reqs[Current].kind = "misread"
  /\ aborted' = "content_length"
  /\ UNCHANGED <<reqs, readVars, writeVars, stats_>>

\* assert( additional_size <= len )
HeadOverrun ==
  /\ reading = "head_ok" /\ reqs[Current].kind \in Served
  /\ Len(Additional) > reqs[Current].len
  /\ aborted' = "additional_size"
  /\ UNCHANGED <<reqs, readVars, writeVars, stats_>>

\* Part of the body came with the head; do_read_body gets the rest.
body_start_forgotten(a) == p_buffer_' = a /\ r_size_' = 0 /\ request_' = <<>>
body_start_kept(a) == p_buffer_' = a /\ r_size_' = Len(a) /\ request_' = a
body_start(a) == p_buffer_' = a /\ r_size_' = Len(a) /\ request_' = <<>>

HeadMore ==
  /\ reading = "head_ok" /\ reqs[Current].kind \in Served
  /\ Len(Additional) < reqs[Current].len
  /\ parser_' = Current
  /\ body_start(Additional)
  /\ do_read("body")
  /\ UNCHANGED <<reqs, inbox, writeVars, stats_, aborted>>

\* No body: read_body_handler is called with 0 bytes and takes the error
\* branch.
HeadEmpty ==
  /\ reading = "head_ok" /\ reqs[Current].kind \in Served
  /\ Additional = <<>> /\ reqs[Current].len = 0
  /\ parser_' = Current
  /\ request_' = <<>>
  /\ fail
  /\ reading' = "none"
  /\ writing' = ended_writes("operation_aborted")
  /\ UNCHANGED <<reqs, inbox, p_buffer_, p_write_, w_pos_, out, due, aborted>>

\* The body of read_body_handler when all of request i is there: a reply and
\* do_read_head for /aa and /cc, and for /bb when the body is not JSON or the
\* other server has answered.  When that server cannot be reached or stays
\* silent, /bb returns without a reply and without a read.
process_reads_on(i) ==
  \/ /\ \E n \in (IF reqs[i].kind = "bb" THEN BbReplies ELSE {FixedReply}) : reply(i, n)
     /\ do_read("head")
  \/ /\ reqs[i].kind = "bb"
     /\ do_read("head")
     /\ UNCHANGED writeVars
process(i) ==
  \/ /\ \E n \in (IF reqs[i].kind = "bb" THEN BbReplies ELSE {FixedReply}) : reply(i, n)
     /\ do_read("head")
  \/ /\ reqs[i].kind = "bb"
     /\ reading' = "none"
     /\ UNCHANGED writeVars

\* The whole body came with the head: read_body_handler is called directly.
HeadWhole ==
  /\ reading = "head_ok" /\ reqs[Current].kind \in Served
  /\ Len(Additional) = reqs[Current].len /\ Additional # <<>>
  /\ parser_' = Current
  /\ body_start(Additional)
  /\ process(Current)
  /\ UNCHANGED <<reqs, inbox, stats_, aborted>>

\* read_body_handler as the handler of async_read
BodyHandler ==
  /\ reading = "body_ok"
  /\ r_size_' = content_length
  /\ process(parser_)
  /\ UNCHANGED <<reqs, inbox, request_, parser_, p_buffer_, stats_, aborted>>

-----------------------------------------------------------------------------
(***************************************************************************)
(* Errors, and write_handler                                               *)
(***************************************************************************)

ReadError ==
  /\ reading = "error"
  /\ fail
  /\ reading' = "none"
  /\ writing' = ended_writes("operation_aborted")
  /\ UNCHANGED <<reqs, inbox, request_, parser_, p_buffer_, p_write_, w_pos_, out, due,
                 aborted>>

\* The read was cancelled by a failed write: the error reply is put into the
\* buffer and do_write returns at once.
ReadAborted ==
  /\ reading = "operation_aborted"
  /\ reply(0, ErrorReply)
  /\ reading' = "none"
  /\ UNCHANGED <<reqs, inbox, request_, parser_, p_buffer_, r_size_, stats_, aborted>>

\* w_pos_ += bytes_transferred, and what is left is written.
bytes_left_off_by_one(pos) == pos <= w_size_
bytes_left(pos) == pos < w_size_

WriteHandlerOk(w) ==
  /\ writing[w].pc = "ok"
  /\ LET pos == w_pos_ + writing[w].size IN
     IF bytes_left(pos)
     THEN /\ w_pos_' = pos
          /\ writing' = IF Working THEN started(writing, w, pos, w_size_ - pos)
                        ELSE [writing EXCEPT ![w] = NoWrite]
          /\ UNCHANGED w_size_
     ELSE /\ w_pos_' = 0
          /\ w_size_' = 0
          /\ writing' = [writing EXCEPT ![w] = NoWrite]
  /\ UNCHANGED <<reqs, readVars, p_write_, out, due, stats_, aborted>>

WriteHandlerError(w) ==
  /\ writing[w].pc = "error"
  /\ fail
  /\ reading' = ended_read("operation_aborted")
  /\ writing' = [ended_writes("operation_aborted") EXCEPT ![w] = NoWrite]
  /\ UNCHANGED <<reqs, inbox, request_, parser_, p_buffer_, p_write_, w_pos_, out, due,
                 aborted>>

WriteHandlerAborted(w) ==
  /\ writing[w].pc = "operation_aborted"
  /\ writing' = [writing EXCEPT ![w] = NoWrite]
  /\ UNCHANGED <<reqs, readVars, bufVars, out, due, stats_, aborted>>

-----------------------------------------------------------------------------

\* start(): the state is conn_working and the first read has begun.
Init ==
  /\ reqs = <<>> /\ inbox = <<>>
  /\ request_ = <<>> /\ parser_ = 0 /\ p_buffer_ = <<>> /\ r_size_ = 0
  /\ reading = "head"
  /\ p_write_ = [k \in 1..BufferSize |-> Nul] /\ w_size_ = 0 /\ w_pos_ = 0
  /\ writing = [w \in Writes |-> NoWrite]
  /\ stats_ = "conn_working"
  /\ out = <<>> /\ due = <<>>
  /\ aborted = "no"

Running == aborted = "no"
Dead == ~Running /\ UNCHANGED vars

\* The life is over: nothing is left in flight or queued.
LifeOver ==
  /\ ~Working /\ reading = "none" /\ \A w \in Writes : writing[w].pc = "free"
  /\ UNCHANGED vars

ReadHandler ==
  \/ HeadGarbled \/ HeadRefused \/ HeadMisread \/ HeadOverrun
  \/ HeadMore \/ HeadEmpty \/ HeadWhole
  \/ BodyHandler \/ ReadError \/ ReadAborted

WriteHandler(w) == WriteHandlerOk(w) \/ WriteHandlerError(w) \/ WriteHandlerAborted(w)

Next ==
  \/ Running /\ (Send \/ ReadUntil \/ ReadExactly \/ PeerGone \/ Expire)
  \/ Running /\ ReadHandler
  \/ Running /\ \E w \in Writes : Transfer(w) \/ WriteHandler(w)
  \/ LifeOver
  \/ Dead

Spec == Init /\ [][Next]_vars

-----------------------------------------------------------------------------

Tokens == [req : Nat, pos : Nat \cup {-1}]

\* The types of the variables; a write in flight has something to write.
TypeOK ==
  /\ reqs \in Seq([kind : Kinds, len : BodyLens, ahead : BOOLEAN])
  /\ inbox \in Seq(Tokens) /\ request_ \in Seq(Tokens) /\ p_buffer_ \in Seq(Tokens)
  /\ parser_ \in 0..Len(reqs) /\ r_size_ \in Nat
  /\ reading \in Waiting \cup {"none", "head_ok", "body_ok", "error", "operation_aborted"}
  /\ p_write_ \in Seq(Tokens) /\ w_size_ \in Nat /\ w_pos_ \in Nat
  /\ writing \in [Writes -> [pc : {"free", "wait", "ok", "error", "operation_aborted"},
                             from : Nat, size : Nat, done : Nat, freed : BOOLEAN]]
  /\ \A w \in Writes : writing[w].pc # "free" => writing[w].size > 0
  /\ stats_ \in {"conn_working", "conn_error"}
  /\ out \in Seq(Tokens) /\ due \in Seq(Tokens)
  /\ aborted \in {"no", "additional_size", "content_length"}

\* Whenever the connection waits for a head, request_ is empty and the next
\* token of the stream is the head of the next request, however the network
\* cuts the stream and whatever was answered before.
FramesAligned ==
  reading = "head" =>
    /\ request_ = <<>>
    /\ inbox # <<>> => inbox[1] = Token(parser_ + 1, 0)

\* The body a request is processed with is its own, whole and in order, in
\* whatever pieces it came with the head and after it.
BodyIntact ==
  (reading \in {"head", "body_ok"} /\ parser_ # 0 /\ Working) =>
    p_buffer_ = Units(parser_, content_length)

Polite == \A i \in DOMAIN reqs : ~reqs[i].ahead

\* A reply has a unit behind the end of the reply to the request before.
Grown ==
  \E j, k \in DOMAIN due :
    /\ due[j].req = due[k].req + 1
    /\ \A m \in DOMAIN due : due[m].req = due[k].req => due[m].pos < due[j].pos

\* A client that sends a request when it has the reply to the one before
\* receives the replies and nothing else, although the handler of a finished
\* write may run after the next reply was put into the same buffer.  A reply
\* longer than the one before is excepted (see WritePosition).
RepliesIntact == (Polite /\ ~Grown) => IsPrefix(out, due)

-----------------------------------------------------------------------------
(***************************************************************************)
(* A life of a front_conn implements Answers, with a connection open as    *)
(* long as it has a read operation or a handler of one.                    *)
(***************************************************************************)

ReplyLength(kind) ==
  CASE kind = "aa" -> {FixedReply} [] kind = "bb" -> BbReplies [] OTHER -> {ErrorReply}

Promise == INSTANCE Answers WITH
             asked <- [i \in DOMAIN reqs |-> reqs[i].kind],
             open <- reading # "none",
             Lengths <- [kind \in Kinds |-> ReplyLength(kind)]

\* read_head_handler and read_body_handler (front_conn.cpp:112-315) owe the client
\* one reply for each request, in the order of the requests, however these were
\* cut and sent ahead: a connection that goes on to a further request has replied
\* to every one before, nothing follows a reply that refuses a request, and a
\* connection that ends without a reply to a request replies to none after it.
ImplementsAnswers == Promise!Spec

-----------------------------------------------------------------------------
(***************************************************************************)
(* Fairness: queued handlers run, the network moves what was sent and the  *)
(* client reads.  Nothing makes a client send or the wheel expire.         *)
(***************************************************************************)
Fairness ==
  /\ WF_vars(Running /\ (ReadUntil \/ ReadExactly))
  /\ WF_vars(Running /\ ReadHandler)
  /\ \A w \in Writes : WF_vars(Running /\ (Transfer(w) \/ WriteHandler(w)))

FairSpec == Spec /\ Fairness

\* Requests after which the connection goes on reading for sure.
GoesOn(i) == reqs[i].kind = "aa" /\ reqs[i].len > 0

\* A POST to /aa or /cc with a body is answered, unless the connection fails,
\* an earlier request made it stop reading, or the client sends ahead and the
\* next reply overwrites this one in the buffer.
AaAnswered ==
  \A i \in 1..MaxRequests :
    (i \in DOMAIN reqs /\ \A j \in 1..i : GoesOn(j))
      ~> (Answered(i) \/ ~Polite \/ ~Working \/ ~Running)

-----------------------------------------------------------------------------
(***************************************************************************)
(* What a comment of the code says and the code does not keep.             *)
(***************************************************************************)

\* "a write may not succeed at once, this keeps the position already written"
\* (connection.hpp:67): the first w_pos_ units of the buffer have been sent.
WritePosition ==
  \A k \in 1..w_pos_ : \E j \in DOMAIN out : out[j] = p_write_[k]
=============================================================================
