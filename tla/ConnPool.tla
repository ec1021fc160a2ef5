------------------------------ MODULE ConnPool ------------------------------
(***************************************************************************)
(* The pool of front connections: what http_server, manage_thread,         *)
(* co_worker::timing_wheel_check and the completion handlers of front_conn *)
(* do to the shared containers of http_server and to the life of the       *)
(* front_conn objects.                                                     *)
(*                                                                         *)
(* Four kinds of threads run here.  The acceptor (accept_handler runs on a *)
(* thread of the front pool, one at a time, since do_accept is its last    *)
(* call), the handlers of asynchronous reads and writes (front pool, one   *)
(* strand per life of a connection), manage_thread and the co_worker       *)
(* thread.  A step of the model ends where another thread can get in: at a *)
(* lock, at an unlock, and between two unprotected accesses to the same    *)
(* object.                                                                 *)
(*                                                                         *)
(* Time is left out: whether touch_time_ is too old when the wheel looks   *)
(* at a connection is a free choice, because any thread may be delayed by  *)
(* any amount between a touch and the look.                                *)
(***************************************************************************)
EXTENDS Integers, Sequences, FiniteSets

CONSTANTS
  Conns,         \* front_conn objects the allocator can hand out
  Ops,           \* identities of asynchronous operations (bound: |Ops| at once)
  NoConn,        \* a null front_conn_ptr
  MaxConns,      \* max_serve_conns_cnt_ (main sets 100)
  CachePercent,  \* share of MaxConns kept in cached_conns_ (30 in the code)
  WheelSize      \* timing_wheel_.capacity() (10 in the code)

ASSUME ConstantsAssumption ==
  /\ IsFiniteSet(Conns)
  /\ IsFiniteSet(Ops)
  /\ NoConn \notin Conns
  /\ MaxConns \in Nat \ {0}
  /\ CachePercent \in Nat
  /\ WheelSize \in Nat /\ WheelSize >= 2

VARIABLES
  front_conns_,         \* left view of the bimap (every session id is 0)
  current_conns_cnt_,
  cached_conns_,
  pending_to_remove_,
  timing_wheel_,        \* sequence of sets of weak pointers, [1] is the oldest
  stats_,               \* per object
  p_sock_,              \* per object: does p_sock_ point to a socket
  op,                   \* asynchronous operations and their handlers
  acc_pc, new_c,                                        \* accept_handler
  mng_pc, mng_todo, mng_item,                           \* manage_thread
  cow_pc, cow_todo, front_modi, cow_conn, notify_flag,  \* timing_wheel_check
  aborted               \* "no", or what brought the process down

accVars  == <<acc_pc, new_c>>
mngVars  == <<mng_pc, mng_todo, mng_item>>
cowVars  == <<cow_pc, cow_todo, front_modi, cow_conn, notify_flag>>
objVars  == <<stats_, p_sock_>>
viewVars == <<front_conns_, current_conns_cnt_>>
poolVars == <<viewVars, cached_conns_, pending_to_remove_, timing_wheel_>>
vars == <<poolVars, objVars, op, accVars, mngVars, cowVars, aborted>>

(***************************************************************************)
(* The two mutexes.  A critical section that waits for nothing inside is   *)
(* one step (accept_handler, push_to_remove, push_back, show_conns_info);  *)
(* only manage_thread keeps a mutex from one step to another.              *)
(***************************************************************************)
front_conns_locked == mng_pc \in {"loop", "cache"}
conn_notify_locked == mng_pc \in {"show", "lock", "loop", "cache"}

(***************************************************************************)
(* An asynchronous operation holds the shared_from_this() pointer bound    *)
(* into its handler.  "wait": the operation is with the reactor.  "ok",    *)
(* "error", "operation_aborted": it is over and the handler is queued.     *)
(* The other values are points inside a running handler.  "old" says that  *)
(* the object was given a new socket after the operation was started.      *)
(***************************************************************************)
Completed  == {"ok", "error", "operation_aborted"}
IssuePoint == {"async_read", "async_write"}
ErrorPoint == {"set_stats", "push_to_remove", "notify_one"}
InHandler  == IssuePoint \cup ErrorPoint

NoOp == [conn |-> NoConn, kind |-> "none", pc |-> "free", old |-> FALSE]
StartedOp(c, kind, pc) == [conn |-> c, kind |-> kind, pc |-> pc, old |-> FALSE]

One(b) == IF b THEN 1 ELSE 0

\* shared_ptr::use_count() of the object c
use_count(c) ==
  One(c \in front_conns_) + One(c \in pending_to_remove_)
  + One(new_c = c) + One(cow_conn = c)
  + Cardinality({i \in DOMAIN cached_conns_ : cached_conns_[i] = c})
  + Cardinality({o \in Ops : op[o].conn = c})

CachedSet == {cached_conns_[i] : i \in DOMAIN cached_conns_}

InWheel(c) == \E i \in 1..WheelSize : c \in timing_wheel_[i]

\* An address the allocator can return: nobody points to it, and no weak
\* pointer of the wheel refers to its control block.
Unreferenced(c) ==
  /\ use_count(c) = 0
  /\ ~InWheel(c) /\ c \notin front_modi \cup cow_todo

\* timing_wheel_.back().insert(front_conn_weak(c))
wheel_insert(c) == [timing_wheel_ EXCEPT ![WheelSize] = @ \cup {c}]

\* The operations waiting on c's socket end with the result r: with
\* operation_aborted after cancel() or the destruction of the socket, with
\* end of file or a broken pipe after shutdown(shutdown_both).
socket_ended(c, r) ==
  [o \in Ops |->
     IF op[o].conn = c /\ ~op[o].old /\ op[o].pc = "wait"
     THEN [op[o] EXCEPT !.pc = r] ELSE op[o]]

\* conn_notify.notify_one(): lost unless manage_thread is in its wait
notify_one == mng_pc' = IF mng_pc = "waiting" THEN "notified" ELSE mng_pc

-----------------------------------------------------------------------------
(***************************************************************************)
(* http_server::accept_handler                                             *)
(***************************************************************************)

\* The accept failed: the handler returns without calling do_accept again.
AcceptFailed ==
  /\ acc_pc = "idle"
  /\ acc_pc' = "stopped"
  /\ UNCHANGED <<poolVars, objVars, op, new_c, mngVars, cowVars, aborted>>

\* The peer is gone before remote_endpoint() is asked for, which throws, and
\* nothing on the pool thread catches it.
AcceptPeerGone ==
  /\ acc_pc = "idle"
  /\ aborted' = "remote_endpoint"
  /\ UNCHANGED <<poolVars, objVars, op, accVars, mngVars, cowVars>>

\* The test of current_conns_cnt_, made without the mutex.
may_admit_off_by_one == current_conns_cnt_ <= MaxConns
may_admit == current_conns_cnt_ < MaxConns

\* Over the limit: the socket is closed and do_accept is called again.
AcceptRefuse ==
  /\ acc_pc = "idle"
  /\ ~may_admit
  /\ UNCHANGED vars

AcceptAdmit ==
  /\ acc_pc = "idle"
  /\ may_admit
  /\ acc_pc' = "take"
  /\ UNCHANGED <<poolVars, objVars, op, new_c, mngVars, cowVars, aborted>>

\* p_sock_ as it is after p_sock_ = p_sock in the constructor and in
\* conn_reset_network (b is TRUE), and after p_sock_.reset() (FALSE).
with_socket_never_reset(c, b) == [p_sock_ EXCEPT ![c] = @ \/ b]
with_socket_never_set(c, b) == [p_sock_ EXCEPT ![c] = @ /\ b]
with_socket(c, b) == [p_sock_ EXCEPT ![c] = b]

\* What both branches of the critical section end with.
front_insert(c) ==
  /\ new_c' = c
  /\ p_sock_' = with_socket(c, TRUE)
  /\ front_conns_' = front_conns_ \cup {c}
  /\ current_conns_cnt_' = current_conns_cnt_ + 1
  /\ timing_wheel_' = wheel_insert(c)
  /\ acc_pc' = "start"

\* assert(new_c.use_count() == 1), made when the only count known to the
\* caller has moved from cached_conns_ to new_c
recyclable_unchecked(c) == TRUE
recyclable(c) == use_count(c) = 1

\* front_conn::conn_reset_network: the socket is set in front_insert; with a new
\* strand, the handlers of the old one are no longer serialised with the new.
conn_reset_network(c) ==
  [o \in Ops |-> IF op[o].conn = c THEN [op[o] EXCEPT !.old = TRUE] ELSE op[o]]

AcceptTakeCached ==
  /\ acc_pc = "take"
  /\ ~front_conns_locked
  /\ cached_conns_ # <<>>
  /\ LET c == Head(cached_conns_) IN
     \/ /\ ~recyclable(c)
        /\ aborted' = "use_count"
        /\ UNCHANGED <<viewVars, cached_conns_, timing_wheel_, p_sock_, op, accVars>>
     \/ /\ recyclable(c)
        /\ cached_conns_' = Tail(cached_conns_)
        /\ op' = conn_reset_network(c)
        /\ front_insert(c)
        /\ UNCHANGED aborted
  /\ UNCHANGED <<pending_to_remove_, stats_, mngVars, cowVars>>

\* make_shared<front_conn>: the constructor leaves the state conn_pending.
AcceptTakeNew(c) ==
  /\ acc_pc = "take"
  /\ ~front_conns_locked
  /\ cached_conns_ = <<>>
  /\ Unreferenced(c)
  /\ stats_' = [stats_ EXCEPT ![c] = "conn_pending"]
  /\ front_insert(c)
  /\ UNCHANGED <<cached_conns_, pending_to_remove_, op, mngVars, cowVars, aborted>>

\* The state is left as it was.
AcceptStart_pending ==
  /\ acc_pc = "start"
  /\ acc_pc' = "read"
  /\ UNCHANGED <<poolVars, objVars, op, new_c, mngVars, cowVars, aborted>>

\* front_conn::start: set_stats(conn_working)
AcceptStart ==
  /\ acc_pc = "start"
  /\ stats_' = [stats_ EXCEPT ![new_c] = "conn_working"]
  /\ acc_pc' = "read"
  /\ UNCHANGED <<poolVars, p_sock_, op, new_c, mngVars, cowVars, aborted>>

\* The rest of start(): the get_stats() test of do_read_head; the operation
\* itself is started by Issue.  Then do_accept and the return.
AcceptRead ==
  /\ acc_pc = "read"
  /\ \/ /\ stats_[new_c] = "conn_working"
        /\ \E o \in Ops :
             /\ op[o].pc = "free"
             /\ op' = [op EXCEPT ![o] = StartedOp(new_c, "read", "async_read")]
     \/ /\ stats_[new_c] # "conn_working"
        /\ UNCHANGED op
  /\ acc_pc' = "idle"
  /\ new_c' = NoConn
  /\ UNCHANGED <<poolVars, objVars, mngVars, cowVars, aborted>>

Accept ==
  \/ AcceptFailed \/ AcceptPeerGone \/ AcceptRefuse \/ AcceptAdmit
  \/ AcceptTakeCached \/ (\E c \in Conns : AcceptTakeNew(c))
  \/ AcceptStart \/ AcceptRead

-----------------------------------------------------------------------------
(***************************************************************************)
(* The completion handlers of front_conn                                   *)
(***************************************************************************)

\* Handlers wrapped by the same strand do not overlap.
StrandFree(o) ==
  \A p \in Ops \ {o} :
    op[p].conn = op[o].conn /\ op[p].old = op[o].old => op[p].pc \notin InHandler

HandlerAt(o, pc) == op[o].pc = pc /\ (pc \in Completed => StrandFree(o))
Working(o) == stats_[op[o].conn] = "conn_working"
Goto(o, pc) == op' = [op EXCEPT ![o].pc = pc]
Return(o)   == op' = [op EXCEPT ![o] = NoOp]

\* The reactor ends an operation.  "error" stands for every ec other than
\* operation_aborted, and for a completion that transferred no byte.
Complete(o) ==
  /\ op[o].pc = "wait"
  /\ \E r \in {"ok", "error"} : Goto(o, r)
  /\ UNCHANGED <<poolVars, objVars, accVars, mngVars, cowVars, aborted>>

\* do_write, then do_read_head: o goes on as the read, a free operation as the
\* write.  A state change between the two leaves the write only.
WriteAndRead(o) ==
  \E w \in Ops :
    /\ op[w].pc = "free"
    /\ op' = [op EXCEPT ![o].pc = "async_read",
                        ![w] = StartedOp(op[o].conn, "write", "async_write")]

\* read_head_handler, read_body_handler without error: a reply, a further
\* read or both, each behind the get_stats() test of do_read_head,
\* do_read_body and do_write, or nothing (the /bb request that got no answer).
ReadOk(o) ==
  /\ op[o].kind = "read" /\ HandlerAt(o, "ok")
  /\ \/ Working(o) /\ \E pc \in IssuePoint : Goto(o, pc)
     \/ Working(o) /\ WriteAndRead(o)
     \/ Return(o)
  /\ UNCHANGED <<poolVars, objVars, accVars, mngVars, cowVars, aborted>>

\* The same handlers with operation_aborted: the error reply is written, and
\* read_body_handler reads on.
ReadAborted(o) ==
  /\ op[o].kind = "read" /\ HandlerAt(o, "operation_aborted")
  /\ \/ Working(o) /\ Goto(o, "async_write")
     \/ Working(o) /\ WriteAndRead(o)
     \/ ~Working(o) /\ Return(o)
  /\ UNCHANGED <<poolVars, objVars, accVars, mngVars, cowVars, aborted>>

\* write_handler: everything sent, or w_size_ grew and the rest is sent.
WriteOk(o) ==
  /\ op[o].kind = "write" /\ HandlerAt(o, "ok")
  /\ \/ Working(o) /\ Goto(o, "async_write")
     \/ Return(o)
  /\ UNCHANGED <<poolVars, objVars, accVars, mngVars, cowVars, aborted>>

WriteAborted(o) ==
  /\ op[o].kind = "write" /\ HandlerAt(o, "operation_aborted")
  /\ Return(o)
  /\ UNCHANGED <<poolVars, objVars, accVars, mngVars, cowVars, aborted>>

\* async_read_until, async_read, async_write on *p_sock_, after get_stats()
\* was looked at.
Issue(o) ==
  /\ op[o].pc \in IssuePoint
  /\ LET c == op[o].conn
         kind == IF op[o].pc = "async_read" THEN "read" ELSE "write" IN
     \/ /\ ~p_sock_[c]
        /\ aborted' = "null_socket"
        /\ UNCHANGED op
     \/ /\ p_sock_[c]
        /\ op' = [op EXCEPT ![o] = StartedOp(c, kind, "wait")]
        /\ UNCHANGED aborted
  /\ UNCHANGED <<poolVars, objVars, accVars, mngVars, cowVars>>

\* The error branch of the three handlers: shutdown and cancel of *p_sock_.
HandlerError(o) ==
  /\ HandlerAt(o, "error")
  /\ LET c == op[o].conn IN
     \/ /\ ~p_sock_[c]
        /\ aborted' = "null_socket"
        /\ UNCHANGED op
     \/ /\ p_sock_[c]
        /\ op' = [socket_ended(c, "operation_aborted") EXCEPT ![o].pc = "set_stats"]
        /\ UNCHANGED aborted
  /\ UNCHANGED <<poolVars, objVars, accVars, mngVars, cowVars>>

\* front_conn::notify_conn_error, in its three steps
NotifyConnErrorStats(o) ==
  /\ op[o].pc = "set_stats"
  /\ stats_' = [stats_ EXCEPT ![op[o].conn] = "conn_error"]
  /\ Goto(o, "push_to_remove")
  /\ UNCHANGED <<poolVars, p_sock_, accVars, mngVars, cowVars, aborted>>

NotifyConnErrorPush(o) ==
  /\ op[o].pc = "push_to_remove"
  /\ ~conn_notify_locked
  /\ pending_to_remove_' = pending_to_remove_ \cup {op[o].conn}
  /\ Goto(o, "notify_one")
  /\ UNCHANGED <<viewVars, cached_conns_, timing_wheel_, objVars,
                 accVars, mngVars, cowVars, aborted>>

NotifyConnErrorNotify(o) ==
  /\ op[o].pc = "notify_one"
  /\ notify_one
  /\ Return(o)
  /\ UNCHANGED <<poolVars, objVars, accVars, mng_todo, mng_item,
                 cowVars, aborted>>

Handler(o) ==
  \/ ReadOk(o) \/ ReadAborted(o) \/ WriteOk(o) \/ WriteAborted(o) \/ Issue(o)
  \/ HandlerError(o) \/ NotifyConnErrorStats(o) \/ NotifyConnErrorPush(o)
  \/ NotifyConnErrorNotify(o)

-----------------------------------------------------------------------------
(***************************************************************************)
(* manage_thread                                                           *)
(***************************************************************************)

\* Top of the loop: conn_notify_mutex is taken and given back by the wait.
ManageWait ==
  /\ mng_pc = "top"
  /\ mng_pc' = "waiting"
  /\ UNCHANGED <<poolVars, objVars, op, accVars, mng_todo, mng_item, cowVars, aborted>>

\* timed_wait returns true, after a notification or spuriously, and the set
\* is looked at with conn_notify_mutex held again.
ManageWake ==
  /\ mng_pc \in {"waiting", "notified"}
  /\ mng_pc' = IF pending_to_remove_ = {} THEN "top" ELSE "lock"
  /\ UNCHANGED <<poolVars, objVars, op, accVars, mng_todo, mng_item, cowVars, aborted>>

\* timed_wait returns false: the 45 seconds are over, nothing is removed and
\* show_conns_info runs with conn_notify_mutex held.
ManageTimeout ==
  /\ mng_pc = "waiting"
  /\ mng_pc' = "show"
  /\ UNCHANGED <<poolVars, objVars, op, accVars, mng_todo, mng_item, cowVars, aborted>>

\* The report waits for a handler that waits for conn_notify_mutex.
ManageShow_inverted ==
  /\ mng_pc = "show"
  /\ \A o \in Ops : op[o].pc # "push_to_remove"
  /\ mng_pc' = "top"
  /\ UNCHANGED <<poolVars, objVars, op, accVars, mng_todo, mng_item, cowVars, aborted>>

\* show_conns_info takes front_conns_mutex_ for a while and changes nothing.
ManageShow ==
  /\ mng_pc = "show"
  /\ mng_pc' = "top"
  /\ UNCHANGED <<poolVars, objVars, op, accVars, mng_todo, mng_item, cowVars, aborted>>

\* front_conns_mutex_ is taken as well.
ManageLock ==
  /\ mng_pc = "lock"
  /\ mng_todo' = pending_to_remove_
  /\ mng_pc' = "loop"
  /\ UNCHANGED <<poolVars, objVars, op, accVars, mng_item, cowVars, aborted>>

\* cached_conns_.size() < static_cast<size_t>(max_serve_conns_cnt_ * 0.3)
CacheLimit == (MaxConns * CachePercent) \div 100
cache_has_room_off_by_one == Len(cached_conns_) <= CacheLimit
cache_has_room == Len(cached_conns_) < CacheLimit

\* A turn of the loop whose item is not in the view: nothing to do.
ManageGone(c) ==
  /\ mng_pc = "loop" /\ c \in mng_todo
  /\ c \notin front_conns_
  /\ mng_todo' = mng_todo \ {c}
  /\ UNCHANGED <<poolVars, objVars, op, accVars, mng_pc, mng_item, cowVars, aborted>>

\* A turn that erases: an object somebody else still uses goes back into the
\* wheel.
erase_from_view(c) ==
  /\ mng_todo' = mng_todo \ {c}
  /\ timing_wheel_' = IF use_count(c) > 2 THEN wheel_insert(c) ELSE timing_wheel_
  /\ front_conns_' = front_conns_ \ {c}
  /\ current_conns_cnt_' = current_conns_cnt_ - 1

ManageErase(c) ==
  /\ mng_pc = "loop" /\ c \in mng_todo \cap front_conns_
  /\ ~cache_has_room
  /\ erase_from_view(c)
  /\ UNCHANGED <<cached_conns_, pending_to_remove_, objVars, op, accVars, mng_pc,
                 mng_item, cowVars, aborted>>

\* The cache has room: conn_wash_white() with its assert and its reset of
\* p_sock_, which destroys the socket.
ManageWash(c) ==
  /\ mng_pc = "loop" /\ c \in mng_todo \cap front_conns_
  /\ cache_has_room
  /\ erase_from_view(c)
  /\ mng_pc' = "cache" /\ mng_item' = c
  /\ \/ /\ stats_[c] = "conn_working"
        /\ aborted' = "wash_working"
        /\ UNCHANGED <<objVars, op>>
     \/ /\ stats_[c] # "conn_working"
        /\ stats_' = [stats_ EXCEPT ![c] = "conn_pending"]
        /\ p_sock_' = with_socket(c, FALSE)
        /\ op' = socket_ended(c, "operation_aborted")
        /\ UNCHANGED aborted
  /\ UNCHANGED <<cached_conns_, pending_to_remove_, accVars, cowVars>>

\* cached_conns_.push_back(item)
ManageCache ==
  /\ mng_pc = "cache"
  /\ cached_conns_' = Append(cached_conns_, mng_item)
  /\ mng_item' = NoConn
  /\ mng_pc' = "loop"
  /\ UNCHANGED <<viewVars, pending_to_remove_, timing_wheel_, objVars, op, accVars,
                 mng_todo, cowVars, aborted>>

\* The set is not cleared.
ManageDone_kept ==
  /\ mng_pc = "loop" /\ mng_todo = {}
  /\ mng_pc' = "top"
  /\ UNCHANGED <<poolVars, objVars, op, accVars, mng_todo, mng_item, cowVars, aborted>>

\* pending_to_remove_.clear() and the final assert; both locks are released.
ManageDone ==
  /\ mng_pc = "loop" /\ mng_todo = {}
  /\ pending_to_remove_' = {}
  /\ aborted' = IF Cardinality(front_conns_) = current_conns_cnt_
                THEN aborted ELSE "size_mismatch"
  /\ mng_pc' = "top"
  /\ UNCHANGED <<viewVars, cached_conns_, timing_wheel_, objVars, op, accVars,
                 mng_todo, mng_item, cowVars>>

Manage ==
  \/ ManageWait \/ ManageWake \/ ManageTimeout \/ ManageShow \/ ManageLock
  \/ (\E c \in Conns : ManageGone(c) \/ ManageErase(c) \/ ManageWash(c))
  \/ ManageCache \/ ManageDone

-----------------------------------------------------------------------------
(***************************************************************************)
(* co_worker::timing_wheel_check                                           *)
(***************************************************************************)

\* The timer fires: the oldest bucket is copied, without any lock.
WheelBegin ==
  /\ cow_pc = "idle"
  /\ front_modi' = timing_wheel_[1]
  /\ cow_todo' = timing_wheel_[1]
  /\ notify_flag' = FALSE
  /\ cow_pc' = "scan"
  /\ UNCHANGED <<poolVars, objVars, op, accVars, mngVars, cow_conn,
                 aborted>>

\* One weak pointer of the bucket: item.lock(), then get_stats() and
\* touch_time_.
WheelItem(c) ==
  /\ cow_pc = "scan" /\ c \in cow_todo
  /\ cow_todo' = cow_todo \ {c}
  /\ \/ /\ use_count(c) = 0                            \* expired weak pointer
        /\ front_modi' = front_modi \ {c}
        /\ UNCHANGED <<cow_conn, cow_pc>>
     \/ /\ use_count(c) > 0
        /\ stats_[c] = "conn_pending"
        /\ cow_conn' = c
        /\ cow_pc' = "assert_cached"
        /\ UNCHANGED front_modi
     \/ /\ use_count(c) > 0
        /\ stats_[c] # "conn_pending"
        /\ \/ /\ front_modi' = front_modi \ {c}        \* idle for too long
              /\ cow_conn' = c
              /\ cow_pc' = "sock_shutdown"
           \/ UNCHANGED <<front_modi, cow_conn, cow_pc>>
  /\ UNCHANGED <<poolVars, objVars, op, accVars, mngVars, notify_flag,
                 aborted>>

\* assert(std::find(cached_conns_..., conn) != end()), front_modi.erase(item).
\* The vector is read without front_conns_mutex_: while manage_thread may be
\* at push_back the search may also miss what is there.
WheelCached ==
  /\ cow_pc = "assert_cached"
  /\ \/ /\ cow_conn \in CachedSet
        /\ front_modi' = front_modi \ {cow_conn}
        /\ cow_conn' = NoConn
        /\ cow_pc' = "scan"
        /\ UNCHANGED aborted
     \/ /\ cow_conn \notin CachedSet \/ front_conns_locked
        /\ aborted' = "not_cached"
        /\ UNCHANGED <<front_modi, cow_conn, cow_pc>>
  /\ UNCHANGED <<poolVars, objVars, op, accVars, mngVars, cow_todo, notify_flag>>

\* conn->sock_shutdown(shutdown_both)
WheelShutdown ==
  /\ cow_pc = "sock_shutdown"
  /\ \/ /\ p_sock_[cow_conn]
        /\ op' = socket_ended(cow_conn, "error")
        /\ cow_pc' = "set_stats"
        /\ UNCHANGED aborted
     \/ /\ ~p_sock_[cow_conn]
        /\ aborted' = "null_socket"
        /\ UNCHANGED <<op, cow_pc>>
  /\ UNCHANGED <<poolVars, objVars, accVars, mngVars, cow_todo, front_modi, cow_conn,
                 notify_flag>>

\* conn->set_stats(conn_error)
WheelSetStats ==
  /\ cow_pc = "set_stats"
  /\ stats_' = [stats_ EXCEPT ![cow_conn] = "conn_error"]
  /\ cow_pc' = "push_to_remove"
  /\ UNCHANGED <<poolVars, p_sock_, op, accVars, mngVars, cow_todo,
                 front_modi, cow_conn, notify_flag, aborted>>

\* http_->push_to_remove(conn); conn goes out of scope
WheelPush ==
  /\ cow_pc = "push_to_remove"
  /\ ~conn_notify_locked
  /\ pending_to_remove_' = pending_to_remove_ \cup {cow_conn}
  /\ notify_flag' = TRUE
  /\ cow_conn' = NoConn
  /\ cow_pc' = "scan"
  /\ UNCHANGED <<viewVars, cached_conns_, timing_wheel_, objVars, op,
                 accVars, mngVars, cow_todo, front_modi, aborted>>

WheelNotify ==
  /\ cow_pc = "scan" /\ cow_todo = {}
  /\ IF notify_flag THEN notify_one ELSE UNCHANGED mng_pc
  /\ cow_pc' = "push_back"
  /\ UNCHANGED <<poolVars, objVars, op, accVars, mng_todo, mng_item,
                 cow_todo, front_modi, cow_conn, notify_flag, aborted>>

\* timing_wheel_.push_back(front_modi): the oldest bucket drops out
rotated_lossy(modi) ==
  [i \in 1..WheelSize |-> IF i = WheelSize THEN {} ELSE timing_wheel_[i + 1]]
rotated(modi) ==
  [i \in 1..WheelSize |-> IF i = WheelSize THEN modi ELSE timing_wheel_[i + 1]]

\* The timer is not set again.
WheelPushBack_once ==
  /\ cow_pc = "push_back"
  /\ ~front_conns_locked
  /\ timing_wheel_' = rotated(front_modi)
  /\ front_modi' = {}
  /\ cow_pc' = "stopped"
  /\ UNCHANGED <<viewVars, cached_conns_, pending_to_remove_, objVars, op, accVars,
                 mngVars, cow_todo, cow_conn, notify_flag, aborted>>

\* The push under front_conns_mutex_, and the timer is set again.
WheelPushBack ==
  /\ cow_pc = "push_back"
  /\ ~front_conns_locked
  /\ timing_wheel_' = rotated(front_modi)
  /\ front_modi' = {}
  /\ notify_flag' = FALSE
  /\ cow_pc' = "idle"
  /\ UNCHANGED <<viewVars, cached_conns_, pending_to_remove_, objVars, op,
                 accVars, mngVars, cow_todo, cow_conn, aborted>>

CoWorker ==
  \/ WheelBegin \/ (\E c \in Conns : WheelItem(c)) \/ WheelCached
  \/ WheelShutdown \/ WheelSetStats \/ WheelPush \/ WheelNotify \/ WheelPushBack

-----------------------------------------------------------------------------

\* The state main leaves: run() has filled the wheel with empty buckets.
Init ==
  /\ front_conns_ = {} /\ current_conns_cnt_ = 0
  /\ cached_conns_ = <<>> /\ pending_to_remove_ = {}
  /\ timing_wheel_ = [i \in 1..WheelSize |-> {}]
  /\ stats_ = [c \in Conns |-> "conn_pending"]
  /\ p_sock_ = [c \in Conns |-> FALSE]
  /\ op = [o \in Ops |-> NoOp]
  /\ acc_pc = "idle" /\ new_c = NoConn
  /\ mng_pc = "top" /\ mng_todo = {} /\ mng_item = NoConn
  /\ cow_pc = "idle" /\ cow_todo = {} /\ front_modi = {}
  /\ cow_conn = NoConn /\ notify_flag = FALSE
  /\ aborted = "no"

Running == aborted = "no"

\* A failed assert, an uncaught exception or a null dereference ends the
\* process.
Dead == ~Running /\ UNCHANGED vars

Next ==
  \/ Running /\ Accept
  \/ Running /\ Manage
  \/ Running /\ CoWorker
  \/ Running /\ \E o \in Ops : Complete(o) \/ Handler(o)
  \/ Dead

Spec == Init /\ [][Next]_vars

-----------------------------------------------------------------------------

AbortReasons == {"no", "remote_endpoint", "use_count", "not_cached",
                 "wash_working", "size_mismatch", "null_socket"}

\* An operation in use has an object.
OpRecord ==
  {r \in [conn : Conns \cup {NoConn}, kind : {"none", "read", "write"},
          pc : {"free", "wait"} \cup Completed \cup InHandler, old : BOOLEAN] :
     r.pc # "free" => r.conn \in Conns}

\* The types of the variables.  A thread that works on an object has one.
TypeOK ==
  /\ front_conns_ \subseteq Conns
  /\ current_conns_cnt_ \in Int
  /\ cached_conns_ \in Seq(Conns)
  /\ pending_to_remove_ \subseteq Conns
  /\ timing_wheel_ \in [1..WheelSize -> SUBSET Conns]
  /\ stats_ \in [Conns -> {"conn_working", "conn_pending", "conn_error"}]
  /\ p_sock_ \in [Conns -> BOOLEAN]
  /\ op \in [Ops -> OpRecord]
  /\ acc_pc \in {"idle", "stopped", "take", "start", "read"}
  /\ new_c \in IF acc_pc \in {"start", "read"} THEN Conns ELSE {NoConn}
  /\ mng_pc \in {"top", "waiting", "notified", "show", "lock", "loop", "cache"}
  /\ mng_todo \subseteq Conns
  /\ mng_item \in IF mng_pc = "cache" THEN Conns ELSE {NoConn}
  /\ cow_pc \in {"idle", "scan", "assert_cached", "sock_shutdown", "set_stats",
                 "push_to_remove", "push_back"}
  /\ cow_todo \subseteq Conns /\ front_modi \subseteq Conns
  /\ cow_conn \in IF cow_pc \in {"idle", "scan", "push_back"} THEN {NoConn} ELSE Conns
  /\ notify_flag \in BOOLEAN
  /\ aborted \in AbortReasons

\* current_conns_cnt_, read without a lock by accept_handler, is the size of
\* front_conns_ in every state, so the assert at the end of a removal round
\* (manage.cpp:182) never fails, whatever accept_handler does meanwhile.
CountMatches ==
  /\ current_conns_cnt_ = Cardinality(front_conns_)
  /\ aborted # "size_mismatch"

\* Never more than max_serve_conns_cnt_ connections are served, although
\* accept_handler tests the counter before it takes front_conns_mutex_.
ServeLimit == Cardinality(front_conns_) <= MaxConns

\* An object is served, or cached once, or on its way into the cache, and
\* never two of these: a connection pushed for removal by an error handler
\* and by the timing wheel is still retired once.
SingleOwner ==
  /\ front_conns_ \cap CachedSet = {}
  /\ \A i, j \in DOMAIN cached_conns_ :
       cached_conns_[i] = cached_conns_[j] => i = j
  /\ mng_item \notin front_conns_ \cup CachedSet

\* No handler of an earlier life of a recycled object is left when the object
\* gets its new socket: what accept_handler's assert (http_server.cpp:116)
\* buys.  The handler would shut the new client's socket down.
NoStaleHandler == \A o \in Ops : ~op[o].old

\* The bucket under inspection counts as what timing_wheel_check has kept.
Watched(c) ==
  \/ \E i \in 2..WheelSize : c \in timing_wheel_[i]
  \/ c \in (IF cow_pc = "idle" THEN timing_wheel_[1] ELSE front_modi)

\* Every served connection is in the timing wheel, or waits in
\* pending_to_remove_, or is being pushed there by the wheel: no rotation,
\* recycling or removal round makes the idle check lose one.
StillWatched ==
  \A c \in front_conns_ :
    \/ Watched(c)
    \/ c \in pending_to_remove_
    \/ cow_conn = c /\ cow_pc \in {"sock_shutdown", "set_stats", "push_to_remove"}

\* "The maximum size is 30% of max_serve_conns_cnt_" (http_server.hpp:105).
CacheBounded == Len(cached_conns_) <= CacheLimit

\* A served connection has its socket: the window between a get_stats() test
\* and the use of *p_sock_ (front_conn.cpp:57) is open to a connection that
\* was retired meanwhile, never to one in the view.
ServedHasSocket == \A c \in front_conns_ : p_sock_[c]

\* What timing_wheel_check concludes from conn_pending (co_worker.cpp:71): an
\* object somebody holds is pending because it is cached, or on its way into
\* the cache, or accept_handler has not come to start() yet.
PendingExplained ==
  \A c \in Conns :
    stats_[c] = "conn_pending" /\ use_count(c) > 0
      => c \in CachedSet \cup {mng_item, new_c}

\* An object that only the cache holds is fit for its next client: it has no
\* socket left and no late start() or handler has set it working.
RecycledClean ==
  \A c \in CachedSet :
    use_count(c) = 1 => ~p_sock_[c] /\ stats_[c] # "conn_working"

(***************************************************************************)
(* The inductive invariant behind these: what the threads know between two *)
(* steps.                                                                  *)
(***************************************************************************)

\* Only the acceptor raises the counter, so its test still holds when it
\* inserts.
AdmittedFits == acc_pc = "take" => current_conns_cnt_ < MaxConns

\* During a removal round the set is frozen, and what the loop has passed is
\* out of the view.
RoundProgress ==
  front_conns_locked =>
    /\ mng_todo \subseteq pending_to_remove_
    /\ \A c \in pending_to_remove_ \ mng_todo : c \notin front_conns_

\* The room found before the wash is there at the push_back.
RoomKept == mng_pc = "cache" => Len(cached_conns_) < CacheLimit

\* The invariants above and what makes them inductive: the two asserts on the
\* containers hold, the limits are kept, no object has two owners and no
\* served connection escapes the idle check, in every reachable state.
PoolInv ==
  /\ CountMatches /\ ServeLimit /\ SingleOwner /\ NoStaleHandler
  /\ StillWatched /\ CacheBounded
  /\ AdmittedFits /\ RoundProgress /\ RoomKept

-----------------------------------------------------------------------------
(***************************************************************************)
(* Fairness.  manage_thread and the co_worker thread keep running, and so  *)
(* do the pool threads: a queued handler and a started accept_handler go   *)
(* on.  The mutexes are given strong fairness because manage_thread lets   *)
(* go of both for up to 45 seconds in every turn.  The reactor may leave   *)
(* an operation open for ever and no client need ever connect.             *)
(***************************************************************************)
AcceptGoesOn ==
  AcceptTakeCached \/ (\E c \in Conns : AcceptTakeNew(c)) \/ AcceptStart \/ AcceptRead

Fairness ==
  /\ WF_vars(Running /\ Manage)
  /\ SF_vars(Running /\ CoWorker)
  /\ \A o \in Ops : SF_vars(Running /\ Handler(o))
  /\ SF_vars(Running /\ AcceptGoesOn)

FairSpec == Spec /\ Fairness

\* A round of the timing wheel always ends and the timer is set again, in
\* spite of the two mutexes it needs on the way (or the process is dead).
WheelTurns == cow_pc # "idle" ~> (cow_pc = "idle" \/ ~Running)

\* A notification that does reach manage_thread empties the set it was sent
\* for.
NotifiedDrains ==
  \A c \in Conns :
    (mng_pc = "notified" /\ c \in pending_to_remove_)
      ~> (c \notin pending_to_remove_ \/ ~Running)

\* A queued completion handler comes to its end: nothing it waits for (its
\* strand, conn_notify_mutex) is kept for ever.
HandlerReturns ==
  \A o \in Ops :
    (op[o].pc \in Completed \cup InHandler)
      ~> (op[o].pc \in {"free", "wait"} \/ ~Running)

-----------------------------------------------------------------------------
(***************************************************************************)
(* What a comment of the code says and the code does not keep.             *)
(***************************************************************************)

\* "it must be enforced here that the connection gets cleaned up"
\* (co_worker.cpp:89): a connection the wheel or a handler has pushed for
\* removal leaves the view.
PushedIsRemoved ==
  \A c \in Conns :
    (c \in pending_to_remove_ \cap front_conns_)
      ~> (c \notin front_conns_ \/ ~Running)

-----------------------------------------------------------------------------
(***************************************************************************)
(* The pool implements Admission: threads, handlers and the wheel are      *)
(* hidden, an object being washed counts as cached.                        *)
(***************************************************************************)
spare_conns == CachedSet \cup (IF mng_item = NoConn THEN {} ELSE {mng_item})

Abstract == INSTANCE Admission
  WITH served <- front_conns_, spare <- spare_conns,
       accepting <- acc_pc # "stopped", up <- Running

\* Whatever the threads do in between, the containers go through the steps of
\* Admission only: accept_handler and manage_thread move one object at a time,
\* a client is admitted below the limit and gets a cached object when there is
\* one, and no object leaves the cache but for a client.
ImplementsAdmission == Abstract!Spec
=============================================================================
