---------------------------- MODULE BackendPool ----------------------------
(***************************************************************************)
(* The pool of backend connections: backend_server and backend_conn, with  *)
(* the part of connection they inherit, and http_server::push_backend,     *)
(* which threads of the front pool call while the one backend thread       *)
(* accepts, reads, writes and, every five seconds, removes what failed.    *)
(*                                                                         *)
(* No lock protects backend_conns_.  A step of a caller is one look at the *)
(* vector; "disturbed" records that the vector was modified since the call *)
(* began, from when on a look may also read freed memory.  A message is    *)
(* named by the caller that sends it.                                      *)
(***************************************************************************)
EXTENDS Integers, Sequences, FiniteSets

CONSTANTS
  Conns,      \* backend_conn objects the allocator can hand out
  Callers,    \* front pool threads; each has at most one write in flight
  Sites,      \* values of site_id
  NoConn,     \* a null backend_conn_ptr
  NoCaller    \* an empty write buffer

ASSUME BackendAssumption ==
  /\ IsFiniteSet(Conns) /\ IsFiniteSet(Callers)
  /\ Sites \subseteq Nat
  /\ NoConn \notin Conns
  /\ NoCaller \notin Callers

VARIABLES
  backend_conns_,
  new_store, chk_pc,   \* on_check_timeout
  acc_pc, new_c,       \* accept_handler
  stats_, is_open,     \* per object: state, and whether p_sock_ is open
  reading,             \* per object: its read operation
  p_write_,            \* per object: whose message is in the write buffer
  writing,             \* per caller: the write operation it started
  call,                \* per caller: where it is in push_backend
  aborted

accVars  == <<acc_pc, new_c>>
chkVars  == <<new_store, chk_pc>>
objVars  == <<stats_, is_open, reading>>
vars == <<backend_conns_, chkVars, accVars, objVars, p_write_, writing, call, aborted>>

Completed == {"ok", "error", "operation_aborted"}
NoWrite == [conn |-> NoConn, pc |-> "free", sent |-> NoCaller]
NoCall  == [pc |-> "idle", ptr |-> NoConn, index |-> 0, flag |-> 0,
            disturbed |-> FALSE, seen |-> {}]

\* Points of require_backend_conn
Searching == {"modulo", "first", "next", "look", "copy", "nullptr"}

Elements(s) == {s[i] : i \in DOMAIN s}

\* Owned by a shared_ptr; the handlers bind a plain this.
Alive(c) ==
  \/ c \in Elements(backend_conns_) \cup Elements(new_store)
  \/ c = new_c
  \/ \E f \in Callers : call[f].ptr = c

\* The backend thread runs one handler at a time.
BackendIdle == acc_pc \in {"idle", "stopped"} /\ chk_pc = "idle"

\* The vector is modified under the callers that are searching it.
disturb ==
  call' = [f \in Callers |-> IF call[f].pc \in Searching
                             THEN [call[f] EXCEPT !.disturbed = TRUE] ELSE call[f]]

-----------------------------------------------------------------------------
(***************************************************************************)
(* backend_server::accept_handler                                          *)
(***************************************************************************)

AcceptFailed ==
  /\ BackendIdle /\ acc_pc = "idle"
  /\ acc_pc' = "stopped"
  /\ UNCHANGED <<backend_conns_, chkVars, new_c, objVars, p_write_, writing, call,
                 aborted>>

AcceptPeerGone ==
  /\ BackendIdle /\ acc_pc = "idle"
  /\ aborted' = "remote_endpoint"
  /\ UNCHANGED <<backend_conns_, chkVars, accVars, objVars, p_write_, writing, call>>

\* make_shared<backend_conn> and push_back
AcceptPush(c) ==
  /\ BackendIdle /\ acc_pc = "idle"
  /\ ~Alive(c) /\ reading[c] = "none" /\ \A f \in Callers : writing[f].conn # c
  /\ backend_conns_' = Append(backend_conns_, c)
  /\ new_c' = c
  /\ acc_pc' = "start"
  /\ stats_' = [stats_ EXCEPT ![c] = "conn_pending"]
  /\ is_open' = [is_open EXCEPT ![c] = TRUE]
  /\ p_write_' = [p_write_ EXCEPT ![c] = NoCaller]
  /\ disturb
  /\ UNCHANGED <<chkVars, reading, writing, aborted>>

\* connection::start with its do_read, then do_accept
AcceptStart ==
  /\ acc_pc = "start"
  /\ stats_' = [stats_ EXCEPT ![new_c] = "conn_working"]
  /\ reading' = [reading EXCEPT ![new_c] = "wait"]
  /\ new_c' = NoConn
  /\ acc_pc' = "idle"
  /\ UNCHANGED <<backend_conns_, chkVars, is_open, p_write_, writing, call, aborted>>

-----------------------------------------------------------------------------
(***************************************************************************)
(* Completion of operations, and the handlers of backend_conn              *)
(***************************************************************************)

\* What the reactor can report for an operation waiting on c's socket: the
\* socket is destroyed with the object.
Results(c) == IF Alive(c) THEN {"ok", "error"} ELSE {"operation_aborted"}

ReadComplete(c) ==
  /\ reading[c] = "wait"
  /\ \E r \in Results(c) : reading' = [reading EXCEPT ![c] = r]
  /\ UNCHANGED <<backend_conns_, chkVars, accVars, stats_, is_open, p_write_, writing,
                 call, aborted>>

\* async_write_some sends the buffer as it is when the socket takes it.
WriteComplete(f) ==
  /\ writing[f].pc = "wait"
  /\ \E r \in Results(writing[f].conn) :
       writing' = [writing EXCEPT ![f].pc = r,
                     ![f].sent = IF r = "ok" THEN p_write_[writing[f].conn] ELSE NoCaller]
  /\ UNCHANGED <<backend_conns_, chkVars, accVars, objVars, p_write_, call, aborted>>

\* p_sock_->close() ends the operations waiting on the socket.
writes_cancelled(c) ==
  [f \in Callers |-> IF writing[f].conn = c /\ writing[f].pc = "wait"
                     THEN [writing[f] EXCEPT !.pc = "operation_aborted"] ELSE writing[f]]

\* connection::do_read: another read unless the state has changed
do_read(c) == IF stats_[c] = "conn_working" THEN "wait" ELSE "none"

\* read_handler.  push_front finds no front connection for a session id,
\* because every session id in front_conns_ is 0.
ReadHandlerOk(c) ==
  /\ BackendIdle /\ Alive(c)
  /\ reading[c] \in {"ok", "operation_aborted"}
  /\ reading' = [reading EXCEPT ![c] = do_read(c)]
  /\ UNCHANGED <<backend_conns_, chkVars, accVars, stats_, is_open, p_write_, writing,
                 call, aborted>>

\* A message whose session_id is -1: the assert of request_connection
ReadHandlerBadSession(c) ==
  /\ BackendIdle /\ Alive(c)
  /\ reading[c] = "ok"
  /\ aborted' = "session_id"
  /\ UNCHANGED <<backend_conns_, chkVars, accVars, objVars, p_write_, writing, call>>

\* The state is left as it was.
ReadHandlerError_unmarked(c) ==
  /\ BackendIdle /\ Alive(c)
  /\ reading[c] = "error"
  /\ is_open' = [is_open EXCEPT ![c] = FALSE]
  /\ reading' = [reading EXCEPT ![c] = "none"]
  /\ writing' = writes_cancelled(c)
  /\ UNCHANGED <<backend_conns_, chkVars, accVars, stats_, p_write_, call, aborted>>

\* close, set_stats(conn_error), and a do_read that returns at once
ReadHandlerError(c) ==
  /\ BackendIdle /\ Alive(c)
  /\ reading[c] = "error"
  /\ is_open' = [is_open EXCEPT ![c] = FALSE]
  /\ stats_' = [stats_ EXCEPT ![c] = "conn_error"]
  /\ reading' = [reading EXCEPT ![c] = "none"]
  /\ writing' = writes_cancelled(c)
  /\ UNCHANGED <<backend_conns_, chkVars, accVars, p_write_, call, aborted>>

\* write_handler without error, or cancelled: nothing to do
WriteHandlerOk(f) ==
  /\ BackendIdle /\ Alive(writing[f].conn)
  /\ writing[f].pc \in {"ok", "operation_aborted"}
  /\ writing' = [writing EXCEPT ![f] = NoWrite]
  /\ UNCHANGED <<backend_conns_, chkVars, accVars, objVars, p_write_, call, aborted>>

WriteHandlerError(f) ==
  /\ BackendIdle /\ Alive(writing[f].conn)
  /\ writing[f].pc = "error"
  /\ LET c == writing[f].conn IN
     /\ is_open' = [is_open EXCEPT ![c] = FALSE]
     /\ stats_' = [stats_ EXCEPT ![c] = "conn_error"]
     /\ reading' = [reading EXCEPT ![c] = IF @ = "wait" THEN "operation_aborted" ELSE @]
     /\ writing' = [writes_cancelled(c) EXCEPT ![f] = NoWrite]
  /\ UNCHANGED <<backend_conns_, chkVars, accVars, p_write_, call, aborted>>

\* A handler bound to an object that is gone: a virtual call through freed
\* memory ends the process, or goes by unnoticed.
HandlerAfterFree(c) ==
  /\ BackendIdle /\ ~Alive(c)
  /\ \/ reading[c] \in Completed
     \/ \E f \in Callers : writing[f].conn = c /\ writing[f].pc \in Completed
  /\ \/ /\ aborted' = "use_after_free"
        /\ UNCHANGED <<reading, writing>>
     \/ /\ reading' = [reading EXCEPT ![c] = IF @ \in Completed THEN "none" ELSE @]
        /\ writing' = [f \in Callers |->
                         IF writing[f].conn = c /\ writing[f].pc \in Completed
                         THEN NoWrite ELSE writing[f]]
        /\ UNCHANGED aborted
  /\ UNCHANGED <<backend_conns_, chkVars, accVars, stats_, is_open, p_write_, call>>

-----------------------------------------------------------------------------
(***************************************************************************)
(* backend_server::on_check_timeout                                        *)
(***************************************************************************)

Failed(c) == stats_[c] = "conn_error"

\* Empty, or all_ok: the timer is set again.
CheckAllOk ==
  /\ BackendIdle
  /\ ~\E c \in Elements(backend_conns_) : Failed(c)
  /\ UNCHANGED vars

\* new_store after i connections of s: the loop pushes back what is not conn_error
pushed_back(s) ==
  LET store[i \in 0..Len(s)] ==
        IF i = 0 THEN <<>>
        ELSE IF Failed(s[i]) THEN store[i - 1] ELSE Append(store[i - 1], s[i])
  IN  store

\* The connections that stay
Kept_inverted(s) == SelectSeq(s, LAMBDA c : Failed(c))
Kept_all(s) == s
Kept(s) == pushed_back(s)[Len(s)]

\* new_store is filled, then the vector is cleared, which destroys the rest.
CheckClear ==
  /\ BackendIdle
  /\ \E c \in Elements(backend_conns_) : Failed(c)
  /\ new_store' = Kept(backend_conns_)
  /\ backend_conns_' = <<>>
  /\ chk_pc' = "cleared"
  /\ disturb
  /\ UNCHANGED <<accVars, objVars, p_write_, writing, aborted>>

CheckAssign ==
  /\ chk_pc = "cleared"
  /\ backend_conns_' = new_store
  /\ new_store' = <<>>
  /\ chk_pc' = "idle"
  /\ disturb
  /\ UNCHANGED <<accVars, objVars, p_write_, writing, aborted>>

Backend ==
  \/ AcceptStart
  \/ \E c \in Conns : \/ ReadHandlerOk(c) \/ ReadHandlerBadSession(c)
                      \/ ReadHandlerError(c) \/ HandlerAfterFree(c)
  \/ \E f \in Callers : WriteHandlerOk(f) \/ WriteHandlerError(f)
  \/ CheckAllOk \/ CheckClear \/ CheckAssign

-----------------------------------------------------------------------------
(***************************************************************************)
(* http_server::push_backend, in it backend_server::require_backend_conn   *)
(* and connection::fill_and_send                                           *)
(***************************************************************************)

size == Len(backend_conns_)
At(i) == backend_conns_[i + 1]          \* backend_conns_[i] of the code
StatsAt(f) == stats_[At(call[f].index)]

callerFrame == UNCHANGED <<backend_conns_, chkVars, accVars, objVars>>

\* if (!backend_conns_.size()) return nullptr;
PushNobody(f) ==
  /\ call[f].pc = "idle" /\ size = 0
  /\ UNCHANGED vars

PushBackend(f) ==
  /\ call[f].pc = "idle" /\ writing[f].pc = "free"
  /\ size # 0
  /\ \E site \in Sites :
       call' = [call EXCEPT ![f] = [NoCall EXCEPT !.pc = "modulo", !.index = site]]
  /\ callerFrame /\ UNCHANGED <<p_write_, writing, aborted>>

\* index = site_id % backend_conns_.size()
Modulo(f) ==
  /\ call[f].pc = "modulo" /\ size # 0
  /\ call' = [call EXCEPT ![f].index = @ % size, ![f].pc = "first"]
  /\ callerFrame /\ UNCHANGED <<p_write_, writing, aborted>>

\* The index runs on past the end of the vector.
NextIndex_unbounded(f) ==
  /\ call[f].pc = "next" /\ size # 0
  /\ call' = [call EXCEPT ![f].index = @ + 1, ![f].pc = "look"]
  /\ callerFrame /\ UNCHANGED <<p_write_, writing, aborted>>

\* index = (index+1)%backend_conns_.size()
NextIndex(f) ==
  /\ call[f].pc = "next" /\ size # 0
  /\ call' = [call EXCEPT ![f].index = (@ + 1) % size, ![f].pc = "look"]
  /\ callerFrame /\ UNCHANGED <<p_write_, writing, aborted>>

\* The vector was emptied in between: an integer division by zero.
DivideByZero(f) ==
  /\ call[f].pc \in {"modulo", "next"} /\ size = 0
  /\ aborted' = "divide_by_zero"
  /\ callerFrame /\ UNCHANGED <<p_write_, writing, call>>

\* The first look: the connection the site id names.
LookFirst(f) ==
  /\ call[f].pc = "first" /\ call[f].index < size
  /\ call' = [call EXCEPT
       ![f].pc   = IF StatsAt(f) = "conn_working" THEN "copy" ELSE "next",
       ![f].flag = call[f].index,
       ![f].seen = {call[f].index}]
  /\ callerFrame /\ UNCHANGED <<p_write_, writing, aborted>>

\* while (index != flag)
last_look(f) == call[f].index = call[f].flag

Look(f) ==
  /\ call[f].pc = "look" /\ call[f].index < size
  /\ call' = [call EXCEPT
       ![f].pc = CASE StatsAt(f) = "conn_working" -> "copy"
                   [] StatsAt(f) # "conn_working" /\ ~last_look(f) -> "next"
                   [] OTHER -> "nullptr",
       ![f].seen = @ \cup {call[f].index}]
  /\ callerFrame /\ UNCHANGED <<p_write_, writing, aborted>>

\* return backend_conns_[index], which reads the vector again
Copy(f) ==
  /\ call[f].pc = "copy" /\ call[f].index < size
  /\ call' = [call EXCEPT ![f].pc = "fill", ![f].ptr = At(call[f].index)]
  /\ callerFrame /\ UNCHANGED <<p_write_, writing, aborted>>

\* An element is read while the vector is being, or after it was, modified.
VectorRace(f) ==
  /\ call[f].pc \in {"first", "look", "copy"} /\ call[f].disturbed
  /\ aborted' = "vector_race"
  /\ callerFrame /\ UNCHANGED <<p_write_, writing, call>>

\* Behind the new end of the vector lies what was there before, an object whose
\* destructor has set conn_error: the search goes on.
StaleLook(f) ==
  /\ call[f].pc \in {"first", "look"} /\ call[f].disturbed
  /\ call[f].index >= size
  /\ call' = [call EXCEPT
       ![f].pc   = IF call[f].pc = "look" /\ last_look(f) THEN "nullptr" ELSE "next",
       ![f].flag = IF call[f].pc = "first" THEN call[f].index ELSE @]
  /\ callerFrame /\ UNCHANGED <<p_write_, writing, aborted>>

\* The result is used without the test for nullptr.
NotFound_unchecked(f) ==
  /\ call[f].pc = "nullptr"
  /\ call' = [call EXCEPT ![f].pc = "fill"]
  /\ callerFrame /\ UNCHANGED <<p_write_, writing, aborted>>

\* "Backend server not found!"
NotFound(f) ==
  /\ call[f].pc = "nullptr"
  /\ call' = [call EXCEPT ![f] = NoCall]
  /\ callerFrame /\ UNCHANGED <<p_write_, writing, aborted>>

\* fill_and_send: the buffer is overwritten, whatever is still being sent.
Fill(f) ==
  /\ call[f].pc = "fill"
  /\ p_write_' = [p_write_ EXCEPT ![call[f].ptr] = f]
  /\ call' = [call EXCEPT ![f].pc = "do_write"]
  /\ callerFrame /\ UNCHANGED <<writing, aborted>>

\* connection::do_write, and the end of push_backend
DoWrite(f) ==
  /\ call[f].pc = "do_write"
  /\ \/ /\ stats_[call[f].ptr] = "conn_working"
        /\ call' = [call EXCEPT ![f].pc = "async_write_some"]
     \/ /\ stats_[call[f].ptr] # "conn_working"
        /\ call' = [call EXCEPT ![f] = NoCall]
  /\ callerFrame /\ UNCHANGED <<p_write_, writing, aborted>>

AsyncWriteSome(f) ==
  /\ call[f].pc = "async_write_some"
  /\ LET c == call[f].ptr IN
       writing' = [writing EXCEPT ![f] = [conn |-> c, sent |-> NoCaller,
                     pc |-> IF is_open[c] THEN "wait" ELSE "error"]]
  /\ call' = [call EXCEPT ![f] = NoCall]
  /\ callerFrame /\ UNCHANGED <<p_write_, aborted>>

\* What a started call goes on with.
PushGoesOn(f) ==
  \/ Modulo(f) \/ NextIndex(f) \/ DivideByZero(f) \/ LookFirst(f) \/ Look(f) \/ Copy(f)
  \/ VectorRace(f) \/ StaleLook(f) \/ NotFound(f) \/ Fill(f) \/ DoWrite(f) \/ AsyncWriteSome(f)

-----------------------------------------------------------------------------

Init ==
  /\ backend_conns_ = <<>> /\ new_store = <<>> /\ chk_pc = "idle"
  /\ acc_pc = "idle" /\ new_c = NoConn
  /\ stats_ = [c \in Conns |-> "conn_pending"]
  /\ is_open = [c \in Conns |-> FALSE]
  /\ reading = [c \in Conns |-> "none"]
  /\ p_write_ = [c \in Conns |-> NoCaller]
  /\ writing = [f \in Callers |-> NoWrite]
  /\ call = [f \in Callers |-> NoCall]
  /\ aborted = "no"

Running == aborted = "no"
Dead == ~Running /\ UNCHANGED vars

Next ==
  \/ Running /\ Backend
  \/ Running /\ (AcceptFailed \/ AcceptPeerGone \/ \E c \in Conns : AcceptPush(c))
  \/ Running /\ \E c \in Conns : ReadComplete(c)
  \/ Running /\ \E f \in Callers :
       WriteComplete(f) \/ PushNobody(f) \/ PushBackend(f) \/ PushGoesOn(f)
  \/ Dead

Spec == Init /\ [][Next]_vars

-----------------------------------------------------------------------------

AbortReasons == {"no", "remote_endpoint", "session_id", "use_after_free",
                 "divide_by_zero", "vector_race"}

\* The types of the variables.  A caller past the search has a connection.
TypeOK ==
  /\ backend_conns_ \in Seq(Conns) /\ new_store \in Seq(Conns)
  /\ chk_pc \in {"idle", "cleared"}
  /\ acc_pc \in {"idle", "start", "stopped"}
  /\ new_c \in Conns \cup {NoConn}
  /\ stats_ \in [Conns -> {"conn_working", "conn_pending", "conn_error"}]
  /\ is_open \in [Conns -> BOOLEAN]
  /\ reading \in [Conns -> {"none", "wait"} \cup Completed]
  /\ p_write_ \in [Conns -> Callers \cup {NoCaller}]
  /\ writing \in [Callers -> [conn : Conns \cup {NoConn}, sent : Callers \cup {NoCaller},
                              pc : {"free", "wait"} \cup Completed]]
  /\ call \in [Callers -> [pc : {"idle", "fill", "do_write",
                                "async_write_some"} \cup Searching,
                           ptr : Conns \cup {NoConn}, index : Nat, flag : Nat,
                           disturbed : BOOLEAN, seen : SUBSET Nat]]
  /\ \A f \in Callers : call[f].ptr = NoConn <=> call[f].pc \in {"idle"} \cup Searching
  /\ aborted \in AbortReasons

Listed == Elements(backend_conns_) \cup Elements(new_store)

\* A connection in state conn_working is listed, once: neither the removal
\* round nor an accept between two rounds loses a backend that works.
WorkingListed ==
  /\ \A c \in Conns : stats_[c] = "conn_working" => c \in Listed
  /\ \A i, j \in DOMAIN backend_conns_ :
       backend_conns_[i] = backend_conns_[j] => i = j

\* A working backend connection always has its read in flight or the handler
\* of it queued (read_handler ends in do_read on every path), and a read in
\* flight is on an open socket: no answer of a backend is left unread.
StillListening ==
  \A c \in Conns :
    /\ stats_[c] = "conn_working" => reading[c] # "none"
    /\ reading[c] = "wait" /\ Alive(c) => is_open[c]

\* Handlers bind a plain this (connection.cpp:49), so a removal round can leave
\* one behind whose object is gone, but only one of a connection that had
\* failed: no operation of a working backend ever outlives its object.
DanglingHadFailed ==
  \A c \in Conns :
    /\ ~Alive(c)
    /\ reading[c] # "none" \/ \E f \in Callers : writing[f].conn = c
    => stats_[c] = "conn_error"

\* While nobody modifies the vector require_backend_conn stays inside it and
\* returns nullptr only after it has found every connection in it, the one it
\* began with included, not working.
SearchIsComplete ==
  \A f \in Callers : ~call[f].disturbed =>
    /\ call[f].pc \in {"first", "next", "look", "copy"} => call[f].index < size
    /\ call[f].pc \in {"next", "look"} => call[f].flag < size
    /\ call[f].pc = "nullptr" => 0..(size - 1) \subseteq call[f].seen

-----------------------------------------------------------------------------
(***************************************************************************)
(* Fairness.  The threads run; the io_service of the backend thread gets   *)
(* to the expired check timer between two handlers, whence strong fairness *)
(* for the removal round.  Nothing is asked of the reactor and of clients. *)
(***************************************************************************)
Fairness ==
  /\ WF_vars(Running /\ AcceptStart)
  /\ SF_vars(Running /\ CheckClear)
  /\ WF_vars(Running /\ CheckAssign)
  /\ \A f \in Callers : WF_vars(Running /\ PushGoesOn(f))

FairSpec == Spec /\ Fairness

\* "can atomatic destroy bad connections to avoid resource leakage"
\* (README.md:11): a failed connection leaves the pool.
FailedIsRemoved ==
  \A c \in Conns : (c \in Listed /\ Failed(c)) ~> (c \notin Listed \/ ~Running)

\* The search ends once no backend connects any more, although the loop
\* compares the index with a flag taken from a vector that may since have
\* shrunk below it: a round of looks always meets a connection that works, the
\* flag, or a vector that is empty (the process then dies).
SearchEnds ==
  \A f \in Callers :
    <>[][~\E c \in Conns : AcceptPush(c)]_vars
      => (call[f].pc \in Searching ~> (call[f].pc \notin Searching \/ ~Running))

\* "collect all requests( in json format), and then distributes them to
\* backend workers" (README.md:10): what a completed write has sent is the
\* message it was started for.
SentIsOwn == \A f \in Callers : writing[f].pc = "ok" => writing[f].sent = f
=============================================================================
