------------------------------ MODULE Routing ------------------------------
(***************************************************************************)
(* The way of a backend's answer to the client that holds the session:     *)
(* backend_conn::read_handler, backend_server::push_front and the session  *)
(* ids of http_server::front_conns_.  Nothing in the repository calls      *)
(* set_session_id yet; it is modelled as the operation http_server offers. *)
(*                                                                         *)
(* A text is a sequence of cells.  An answer starts with the cell "open",  *)
(* which carries its session id, and ends with the cell "close", with white *)
(* space around it; NUL is what a text in p_buffer_ ends with.  The backend *)
(* thread runs its handlers one after the other, beside the threads of the *)
(* front side.                                                             *)
(***************************************************************************)
EXTENDS Integers, Sequences, FiniteSets

CONSTANTS
  Conns,       \* front_conn objects
  NoConn,      \* a null front_conn_ptr
  Sessions,    \* session ids, other than 0 and -1
  BodyLens,    \* cells between "open" and "close"
  Spaces,      \* cells of white space before "open" and behind "close"
  BufferSize,  \* size of p_buffer_
  MaxSends,    \* bound: answers the backend sends
  MaxClients   \* bound: clients accepted

ASSUME RoutingAssumption ==
  /\ NoConn \notin Conns
  /\ Sessions \subseteq Nat \ {0}
  /\ BodyLens \subseteq Nat /\ Spaces \subseteq Nat
  /\ BufferSize \in Nat
  /\ MaxSends \in Nat /\ MaxClients \in Nat

VARIABLES
  front_conns_,  \* object -> session id, for the objects in the view
  cached_conns_, \* objects of the cache (all are conn_pending, without socket)
  client,        \* object -> the client it was last given to (0: none)
  clients,       \* clients accepted so far
  stream,        \* what the backend has sent and the kernel still holds
  sends,         \* answers sent
  p_buffer_,     \* of the backend_conn; starts with zeros
  aligned,       \* every read so far brought one text
  got,           \* what the last read brought
  pc, session_id, ptr, asked,  \* read_handler and push_front
  aborted

frontVars == <<front_conns_, cached_conns_, client, clients>>
readVars  == <<stream, sends, p_buffer_, aligned, got>>
pushVars  == <<pc, session_id, ptr, asked>>
vars == <<frontVars, readVars, pushVars, aborted>>

Nul == <<"nul", 0>>
Space == <<"space", 0>>
IsOpen(cell)  == cell[1] = "open"
IsClose(cell) == cell[1] = "close"
IsSpace(cell) == cell = Space

Copies(cell, n) == [k \in 1..n |-> cell]
Answer(m, s, n) == <<<<"open", s>>>> \o Copies(<<"body", m>>, n) \o <<<<"close", m>>>>

\* A JSON text: one value, and white space around it.
JsonText(t) ==
  \E i, j \in DOMAIN t :
    /\ i < j /\ IsOpen(t[i]) /\ IsClose(t[j])
    /\ \A k \in DOMAIN t :
         /\ k < i \/ j < k => IsSpace(t[k])
         /\ i < k /\ k < j => t[k][1] = "body" \/ IsSpace(t[k])

Init ==
  /\ front_conns_ = <<>> /\ cached_conns_ = {}
  /\ client = [c \in Conns |-> 0] /\ clients = 0
  /\ stream = <<>> /\ sends = 0
  /\ p_buffer_ = [k \in 1..BufferSize |-> Nul] /\ aligned = TRUE /\ got = <<>>
  /\ pc = "read" /\ session_id = 0 /\ ptr = NoConn /\ asked = 0
  /\ aborted = "no"

-----------------------------------------------------------------------------
(***************************************************************************)
(* The front side                                                          *)
(***************************************************************************)

InView(c) == c \in DOMAIN front_conns_

\* assert(new_c.use_count() == 1): the backend thread may hold the object
recyclable_unchecked(c) == TRUE
recyclable(c) == ptr # c

\* The object is copied and not popped.
taken_kept(c) == cached_conns_
\* *cached_conns_.begin(), and erase(begin())
taken(c) == cached_conns_ \ {c}

\* accept_handler: front_conns_.left.insert(make_pair(new_c, 0))
Accept(c) ==
  /\ clients < MaxClients
  /\ ~InView(c) /\ (cached_conns_ # {} => c \in cached_conns_)
  /\ c \notin cached_conns_ => ptr # c
  /\ \/ /\ ~recyclable(c)
        /\ aborted' = "use_count"
        /\ UNCHANGED frontVars
     \/ /\ recyclable(c)
        /\ front_conns_' = [d \in DOMAIN front_conns_ \cup {c} |->
                              IF d = c THEN 0 ELSE front_conns_[d]]
        /\ cached_conns_' = taken(c)
        /\ clients' = clients + 1
        /\ client' = [client EXCEPT ![c] = clients']
        /\ UNCHANGED aborted
  /\ UNCHANGED <<readVars, pushVars>>

\* replace_data: the right view is a multiset, another connection may have the
\* same id.  A connection that is not in the view is left alone.
set_session_id(c, id) ==
  /\ InView(c)
  /\ front_conns_' = [front_conns_ EXCEPT ![c] = id]
  /\ UNCHANGED <<cached_conns_, client, clients, readVars, pushVars, aborted>>

\* manage_thread takes a failed connection out of the view and washes it into
\* the cache, or lets it go.
Retire(c) ==
  /\ InView(c)
  /\ front_conns_' = [d \in DOMAIN front_conns_ \ {c} |-> front_conns_[d]]
  /\ cached_conns_' \in {cached_conns_, cached_conns_ \cup {c}}
  /\ UNCHANGED <<client, clients, readVars, pushVars, aborted>>

-----------------------------------------------------------------------------
(***************************************************************************)
(* The backend side                                                        *)
(***************************************************************************)

\* The backend answers, with or without white space around the text and a NUL
\* at its end.  The text has a session id and a site id, not both of them (0),
\* or the session id -1.
Send ==
  /\ sends < MaxSends
  /\ sends' = sends + 1
  /\ \E s \in Sessions \cup {0, -1}, n \in BodyLens,
        before, behind \in Spaces, end \in {<<>>, <<Nul>>} :
       stream' = stream \o Copies(Space, before) \o Answer(sends', s, n)
                        \o Copies(Space, behind) \o end
  /\ UNCHANGED <<p_buffer_, aligned, got, frontVars, pushVars, aborted>>

\* What was read, without the NUL it may end with
WithoutNul(s) == IF s[Len(s)] = Nul THEN SubSeq(s, 1, Len(s) - 1) ELSE s

\* async_read_some: some of what is there, over the start of p_buffer_; the
\* bytes behind it stay as they were.
Read ==
  /\ pc = "read" /\ stream # <<>>
  /\ \E k \in 1..Len(stream) :
       /\ k <= BufferSize
       /\ got' = SubSeq(stream, 1, k)
       /\ stream' = SubSeq(stream, k + 1, Len(stream))
  /\ p_buffer_' = [j \in 1..BufferSize |-> IF j <= Len(got') THEN got'[j] ELSE p_buffer_[j]]
  /\ aligned' = (aligned /\ JsonText(WithoutNul(got')))
  /\ pc' = "parse"
  /\ UNCHANGED <<sends, session_id, ptr, asked, frontVars, aborted>>

\* p_buffer_->data() as a C string
Text(buffer) ==
  LET ends == {k \in DOMAIN buffer : buffer[k] = Nul} IN
  IF ends = {} THEN buffer
  ELSE SubSeq(buffer, 1, (CHOOSE k \in ends : \A j \in ends : k <= j) - 1)

\* Json::parse that is content with a value at the start
is_json_prefix(t) == \E i \in DOMAIN t : IsOpen(t[i]) /\ \E k \in DOMAIN t : IsClose(t[k])
\* Json::parse skips white space before the value (get_next_token) and behind it
\* (consume_garbage), and accepts nothing else behind it.
is_json(t) == JsonText(t)

\* json_parsed["session_id"]
id_in(t) == IF is_json(t) THEN t[CHOOSE k \in DOMAIN t : IsOpen(t[k])][2] ELSE 0

\* read_handler: json_parsed["session_id"] is 0 when the text could not be
\* parsed, and then, or when there is no site_id, nothing is forwarded.  A text
\* that fills p_buffer_ goes on behind it, with a NUL or with anything else.
Parse ==
  /\ pc = "parse"
  /\ LET t == Text(p_buffer_) IN
     session_id' \in IF Len(t) = BufferSize THEN {id_in(t), 0} ELSE {id_in(t)}
  /\ pc' = IF session_id' = 0 THEN "read" ELSE "request_connection"
  /\ UNCHANGED <<readVars, ptr, asked, frontVars, aborted>>

Holders(id) == {c \in DOMAIN front_conns_ : front_conns_[c] = id}

\* request_connection with its assertions, under the mutex
request_connection ==
  /\ pc = "request_connection"
  /\ LET h == Holders(session_id) IN
     \/ /\ session_id = -1
        /\ aborted' = "minus_one"
        /\ UNCHANGED pushVars
     \/ /\ session_id # -1 /\ Cardinality(h) > 1
        /\ aborted' = "count"
        /\ UNCHANGED pushVars
     \/ /\ session_id # -1 /\ h = {}
        /\ pc' = "read"
        /\ UNCHANGED <<session_id, ptr, asked, aborted>>
     \/ /\ session_id # -1
        /\ \E c \in h : h = {c} /\ ptr' = c /\ asked' = client[c]
        /\ pc' = "do_write"
        /\ UNCHANGED <<session_id, aborted>>
  /\ UNCHANGED <<readVars, frontVars>>

\* fill_for_http and the get_stats() test of do_write: only an object of the view
\* is conn_working, and not when it has failed and waits to be retired.
do_write ==
  /\ pc = "do_write"
  /\ pc' \in IF InView(ptr) THEN {"async_write", "return"} ELSE {"return"}
  /\ UNCHANGED <<readVars, session_id, ptr, asked, frontVars, aborted>>

\* The write is started on *p_sock_, which the wash has reset.
AsyncWrite ==
  /\ pc = "async_write"
  /\ \/ ptr \in cached_conns_ /\ aborted' = "null_socket" /\ UNCHANGED pc
     \/ ptr \notin cached_conns_ /\ pc' = "return" /\ UNCHANGED aborted
  /\ UNCHANGED <<readVars, session_id, ptr, asked, frontVars>>

\* The return from push_front drops the pointer; read_handler calls do_read.
Return ==
  /\ pc = "return"
  /\ pc' = "read" /\ ptr' = NoConn /\ asked' = 0 /\ session_id' = 0
  /\ UNCHANGED <<readVars, frontVars, aborted>>

Running == aborted = "no"

Next ==
  \/ Running /\ \E c \in Conns : Accept(c) \/ Retire(c)
  \/ Running /\ \E c \in Conns, id \in Sessions : set_session_id(c, id)
  \/ Running /\ Send
  \/ Running /\ (Read \/ Parse)
  \/ Running /\ (request_connection \/ do_write \/ AsyncWrite \/ Return)

Spec == Init /\ [][Next]_vars

-----------------------------------------------------------------------------

TypeOK ==
  /\ DOMAIN front_conns_ \subseteq Conns
  /\ \A c \in DOMAIN front_conns_ : front_conns_[c] \in Sessions \cup {0}
  /\ cached_conns_ \subseteq Conns \ DOMAIN front_conns_
  /\ client \in [Conns -> 0..MaxClients] /\ clients \in 0..MaxClients
  /\ sends \in 0..MaxSends /\ aligned \in BOOLEAN
  /\ DOMAIN p_buffer_ = 1..BufferSize
  /\ pc \in {"read", "parse", "request_connection", "do_write", "async_write", "return"}
  /\ session_id \in Sessions \cup {0, -1}
  /\ ptr \in Conns \cup {NoConn} /\ asked \in 0..MaxClients
  /\ aborted \in {"no", "use_count", "minus_one", "count", "null_socket"}

\* As long as the kernel hands the answers over one by one, push_front is given
\* an answer as its backend sent it, at most with white space behind it.  The
\* rest of an earlier, longer answer is still in p_buffer_ (backend_conn.cpp:32)
\* and nothing clears it; but nothing of its value becomes part of the later
\* answer, only white space that stood behind it, and not even that when the
\* later answer brings its NUL.  At worst an answer is not forwarded.
ForwardedWhole ==
  aligned /\ pc \in {"request_connection", "do_write", "async_write"} =>
    LET t == Text(p_buffer_)
        s == WithoutNul(got) IN
    /\ Len(s) <= Len(t) /\ s = SubSeq(t, 1, Len(s))
    /\ \A k \in Len(s) + 1..Len(t) : IsSpace(t[k])
    /\ got # s => t = s

\* The answer goes to the client whose session was looked up and never to a
\* later client of the same object (backend_server.cpp:75-81 uses the pointer
\* after the mutex was released): while push_front holds the object nobody
\* else is given it.
AnswerToHolder ==
  pc \in {"do_write", "async_write"} => client[ptr] = asked
=============================================================================
