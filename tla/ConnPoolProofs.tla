--------------------------- MODULE ConnPoolProofs ---------------------------
(***************************************************************************)
(* Proofs about ConnPool, for any number of objects, operations, served    *)
(* connections and buckets, in three parts: the types; the safety          *)
(* invariants, proved together as PoolInv; the refinement of Admission,    *)
(* and what threads may conclude from the state and the socket of an       *)
(* object.                                                                 *)
(***************************************************************************)
EXTENDS ConnPool, FiniteSetTheorems, TLAPS

(***************************************************************************)
(* Lemmas about the operators of the model.                                *)
(***************************************************************************)

Points == {"wait"} \cup Completed \cup InHandler

\* An operation in use stays one when it moves to another point.
LEMMA OpGoto ==
  ASSUME NEW r \in OpRecord, r.pc # "free", NEW pc \in Points
  PROVE  [r EXCEPT !.pc = pc] \in OpRecord
BY DEF OpRecord, Points

\* An operation stays one when its object is recycled.
LEMMA OpRecycled ==
  ASSUME NEW r \in OpRecord
  PROVE  [r EXCEPT !.old = TRUE] \in OpRecord
BY DEF OpRecord

\* A started operation is an operation of the object's present life.
LEMMA OpStarted ==
  ASSUME NEW c \in Conns, NEW kind \in {"read", "write"}, NEW pc \in Points
  PROVE  StartedOp(c, kind, pc) \in OpRecord /\ ~StartedOp(c, kind, pc).old
BY DEF OpRecord, StartedOp, Points

\* A free slot is an operation.
LEMMA OpFree == NoOp \in OpRecord /\ ~NoOp.old
BY DEF OpRecord, NoOp, Completed, InHandler, IssuePoint, ErrorPoint

\* An operation in use has an object.
LEMMA OpConn ==
  ASSUME op \in [Ops -> OpRecord], NEW o \in Ops, op[o].pc # "free"
  PROVE  op[o].conn \in Conns
BY DEF OpRecord

\* socket_ended yields operations again and changes nothing but their points.
LEMMA SocketEnded ==
  ASSUME op \in [Ops -> OpRecord], NEW c, NEW r \in Completed
  PROVE  /\ socket_ended(c, r) \in [Ops -> OpRecord]
         /\ \A o \in Ops : /\ socket_ended(c, r)[o].conn = op[o].conn
                           /\ socket_ended(c, r)[o].old = op[o].old
                           /\ socket_ended(c, r)[o].pc = "free" <=> op[o].pc = "free"
<1>1. ASSUME NEW o \in Ops
      PROVE  /\ socket_ended(c, r)[o] \in OpRecord
             /\ socket_ended(c, r)[o].conn = op[o].conn
             /\ socket_ended(c, r)[o].old = op[o].old
             /\ socket_ended(c, r)[o].pc = "free" <=> op[o].pc = "free"
  <2>1. op[o] \in OpRecord
    OBVIOUS
  <2>2. op[o].pc = "wait" => [op[o] EXCEPT !.pc = r] \in OpRecord
    BY <2>1, OpGoto DEF Points
  <2>3. /\ [op[o] EXCEPT !.pc = r].conn = op[o].conn
        /\ [op[o] EXCEPT !.pc = r].old = op[o].old
        /\ [op[o] EXCEPT !.pc = r].pc = r
    BY <2>1 DEF OpRecord
  <2>4. r # "free"
    BY DEF Completed
  <2> QED
    BY <2>1, <2>2, <2>3, <2>4 DEF socket_ended
<1> QED
  BY <1>1 DEF socket_ended

\* An insertion into the youngest bucket, and a rotation, keep the wheel a
\* sequence of sets of objects.
LEMMA WheelType ==
  ASSUME timing_wheel_ \in [1..WheelSize -> SUBSET Conns], NEW c \in Conns,
         NEW modi \in SUBSET Conns
  PROVE  /\ wheel_insert(c) \in [1..WheelSize -> SUBSET Conns]
         /\ rotated(modi) \in [1..WheelSize -> SUBSET Conns]
<1>1. WheelSize \in Nat /\ WheelSize >= 2
  BY ConstantsAssumption
<1>2. wheel_insert(c) \in [1..WheelSize -> SUBSET Conns]
  BY <1>1 DEF wheel_insert
<1>3. rotated(modi) \in [1..WheelSize -> SUBSET Conns]
  BY <1>1 DEF rotated
<1> QED
  BY <1>2, <1>3

\* Moving one operation on, or ending it, keeps the operations operations.
LEMMA GotoReturn ==
  ASSUME op \in [Ops -> OpRecord], NEW o \in Ops, op[o].pc # "free"
  PROVE  /\ \A pc \in Points : Goto(o, pc) => op' \in [Ops -> OpRecord]
         /\ Return(o) => op' \in [Ops -> OpRecord]
         /\ WriteAndRead(o) => op' \in [Ops -> OpRecord]
<1>1. ASSUME NEW pc \in Points, Goto(o, pc)
      PROVE  op' \in [Ops -> OpRecord]
  BY <1>1, OpGoto DEF Goto
<1>2. ASSUME Return(o)
      PROVE  op' \in [Ops -> OpRecord]
  BY <1>2, OpFree DEF Return
<1>3. ASSUME WriteAndRead(o)
      PROVE  op' \in [Ops -> OpRecord]
  <2>1. PICK w \in Ops :
          op' = [op EXCEPT ![o].pc = "async_read",
                           ![w] = StartedOp(op[o].conn, "write", "async_write")]
    BY <1>3 DEF WriteAndRead
  <2>2. StartedOp(op[o].conn, "write", "async_write") \in OpRecord
    BY OpStarted, OpConn DEF Points, InHandler, IssuePoint
  <2>3. [op[o] EXCEPT !.pc = "async_read"] \in OpRecord
    BY OpGoto DEF Points, InHandler, IssuePoint
  <2> QED
    BY <2>1, <2>2, <2>3
<1> QED
  BY <1>1, <1>2, <1>3

-----------------------------------------------------------------------------
(***************************************************************************)
(* Type correctness, one lemma for each kind of thread.                    *)
(***************************************************************************)

\* accept_handler keeps the types.
LEMMA TypeAccept ==
  ASSUME TypeOK, Accept
  PROVE  TypeOK'
<1> USE DEF poolVars, viewVars, objVars, accVars, mngVars, cowVars
<1>a. NoConn \notin Conns /\ WheelSize \in Nat /\ WheelSize >= 2
  BY ConstantsAssumption
<1>1. CASE AcceptFailed
  BY <1>a, <1>1 DEF AcceptFailed, TypeOK
<1>2. CASE AcceptPeerGone
  BY <1>a, <1>2 DEF AcceptPeerGone, TypeOK, AbortReasons
<1>3. CASE AcceptRefuse
  BY <1>a, <1>3 DEF AcceptRefuse, TypeOK, vars
<1>4. CASE AcceptAdmit
  BY <1>a, <1>4 DEF AcceptAdmit, TypeOK
<1>5. CASE AcceptTakeCached
  <2>1. CASE ~recyclable(Head(cached_conns_))
    BY <1>5, <2>1 DEF AcceptTakeCached, conn_reset_network, TypeOK, AbortReasons
  <2>2. CASE recyclable(Head(cached_conns_))
    <3>1. Head(cached_conns_) \in Conns /\ Tail(cached_conns_) \in Seq(Conns)
      BY <1>5 DEF AcceptTakeCached, conn_reset_network, TypeOK
    <3>2. /\ front_insert(Head(cached_conns_))
          /\ cached_conns_' = Tail(cached_conns_)
          /\ op' = [o \in Ops |-> IF op[o].conn = Head(cached_conns_)
                                  THEN [op[o] EXCEPT !.old = TRUE] ELSE op[o]]
          /\ UNCHANGED <<aborted, pending_to_remove_, stats_, mngVars, cowVars>>
      BY <1>5, <2>2, Zenon DEF AcceptTakeCached, conn_reset_network
    <3>3. op' \in [Ops -> OpRecord]
      BY <3>2, OpRecycled DEF TypeOK
    <3>4. timing_wheel_' \in [1..WheelSize -> SUBSET Conns]
      BY <3>1, <3>2, WheelType DEF TypeOK, front_insert, with_socket
    <3> QED
      BY <3>1, <3>2, <3>3, <3>4 DEF TypeOK, front_insert, with_socket
  <2> QED
    BY <2>1, <2>2
<1>6. ASSUME NEW c \in Conns, AcceptTakeNew(c)
      PROVE  TypeOK'
  <2>1. timing_wheel_' \in [1..WheelSize -> SUBSET Conns]
    BY <1>6, WheelType DEF AcceptTakeNew, TypeOK, front_insert, with_socket
  <2> QED
    BY <1>6, <2>1 DEF AcceptTakeNew, TypeOK, front_insert, with_socket
<1>7. CASE AcceptStart
  BY <1>a, <1>7 DEF AcceptStart, TypeOK
<1>8. CASE AcceptRead
  <2>1. new_c \in Conns
    BY <1>8 DEF AcceptRead, TypeOK
  <2>2. StartedOp(new_c, "read", "async_read") \in OpRecord
    BY <2>1, OpStarted DEF Points, InHandler, IssuePoint
  <2>3. op' \in [Ops -> OpRecord]
    BY <1>8, <2>2 DEF AcceptRead, TypeOK
  <2> QED
    BY <1>8, <2>3 DEF AcceptRead, TypeOK
<1> QED
  BY <1>1, <1>2, <1>3, <1>4, <1>5, <1>6, <1>7, <1>8 DEF Accept

\* The completion of an operation and its handler keep the types.
LEMMA TypeHandler ==
  ASSUME TypeOK, NEW o \in Ops, Complete(o) \/ Handler(o)
  PROVE  TypeOK'
<1> USE DEF poolVars, viewVars, objVars, accVars, mngVars, cowVars
<1>a. NoConn \notin Conns /\ WheelSize \in Nat /\ WheelSize >= 2
  BY ConstantsAssumption
<1>1. CASE Complete(o)
  <2>1. op[o].pc # "free"
    BY <1>1 DEF Complete, HandlerAt
  <2>2. op' \in [Ops -> OpRecord]
    BY <1>1, <2>1, GotoReturn DEF Complete, TypeOK, Points, Completed, InHandler, IssuePoint, ErrorPoint
  <2> QED
    BY <1>1, <2>2 DEF Complete, TypeOK
<1>2. CASE ReadOk(o)
  <2>1. op[o].pc # "free"
    BY <1>2 DEF ReadOk, HandlerAt
  <2>2. op' \in [Ops -> OpRecord]
    BY <1>2, <2>1, GotoReturn DEF ReadOk, TypeOK, Points, Completed, InHandler, IssuePoint, ErrorPoint
  <2> QED
    BY <1>2, <2>2 DEF ReadOk, TypeOK
<1>3. CASE ReadAborted(o)
  <2>1. op[o].pc # "free"
    BY <1>3 DEF ReadAborted, HandlerAt
  <2>2. op' \in [Ops -> OpRecord]
    BY <1>3, <2>1, GotoReturn DEF ReadAborted, TypeOK, Points, Completed, InHandler, IssuePoint, ErrorPoint
  <2> QED
    BY <1>3, <2>2 DEF ReadAborted, TypeOK
<1>4. CASE WriteOk(o)
  <2>1. op[o].pc # "free"
    BY <1>4 DEF WriteOk, HandlerAt
  <2>2. op' \in [Ops -> OpRecord]
    BY <1>4, <2>1, GotoReturn DEF WriteOk, TypeOK, Points, Completed, InHandler, IssuePoint, ErrorPoint
  <2> QED
    BY <1>4, <2>2 DEF WriteOk, TypeOK
<1>5. CASE WriteAborted(o)
  <2>1. op[o].pc # "free"
    BY <1>5 DEF WriteAborted, HandlerAt
  <2>2. op' \in [Ops -> OpRecord]
    BY <1>5, <2>1, GotoReturn DEF WriteAborted, TypeOK, Points, Completed, InHandler, IssuePoint, ErrorPoint
  <2> QED
    BY <1>5, <2>2 DEF WriteAborted, TypeOK
<1>6. CASE Issue(o)
  <2>1. op[o].pc # "free"
    BY <1>6 DEF Issue, IssuePoint
  <2>2. /\ StartedOp(op[o].conn, "read", "wait") \in OpRecord
        /\ StartedOp(op[o].conn, "write", "wait") \in OpRecord
    BY <2>1, OpStarted, OpConn DEF TypeOK, Points
  <2>3. op' \in [Ops -> OpRecord]
    BY <1>6, <2>2 DEF Issue, TypeOK
  <2> QED
    BY <1>6, <2>3 DEF Issue, TypeOK, AbortReasons
<1>7. CASE HandlerError(o)
  <2>1. CASE ~p_sock_[op[o].conn]
    BY <1>7, <2>1 DEF HandlerError, TypeOK, AbortReasons
  <2>2. CASE p_sock_[op[o].conn]
    <3> DEFINE ended == socket_ended(op[o].conn, "operation_aborted")
    <3>1. ended \in [Ops -> OpRecord] /\ ended[o].pc # "free"
      BY <1>7, SocketEnded DEF HandlerError, HandlerAt, TypeOK, Completed
    <3>2. op' = [ended EXCEPT ![o].pc = "set_stats"]
      BY <1>7, <2>2 DEF HandlerError
    <3>3. op' \in [Ops -> OpRecord]
      <4> HIDE DEF ended
      <4>1. [ended[o] EXCEPT !.pc = "set_stats"] \in OpRecord
        BY <3>1, OpGoto DEF Points, InHandler, ErrorPoint
      <4> QED
        BY <3>1, <3>2, <4>1
    <3> QED
      BY <1>7, <2>2, <3>3 DEF HandlerError, TypeOK
  <2> QED
    BY <2>1, <2>2
<1>8. CASE NotifyConnErrorStats(o)
  <2>1. op[o].pc # "free"
    BY <1>8 DEF NotifyConnErrorStats, HandlerAt
  <2>2. op' \in [Ops -> OpRecord]
    BY <1>8, <2>1, GotoReturn DEF NotifyConnErrorStats, TypeOK, Points, Completed, InHandler, IssuePoint, ErrorPoint
  <2> QED
    BY <1>8, <2>2 DEF NotifyConnErrorStats, TypeOK
<1>9. CASE NotifyConnErrorPush(o)
  <2>1. op[o].pc # "free"
    BY <1>9 DEF NotifyConnErrorPush
  <2>2. op' \in [Ops -> OpRecord]
    BY <1>9, <2>1, GotoReturn DEF NotifyConnErrorPush, TypeOK, Points, InHandler, ErrorPoint
  <2>3. op[o].conn \in Conns
    BY <2>1, OpConn DEF TypeOK
  <2> QED
    BY <1>9, <2>2, <2>3 DEF NotifyConnErrorPush, TypeOK
<1>10. CASE NotifyConnErrorNotify(o)
  <2>1. op[o].pc # "free"
    BY <1>10 DEF NotifyConnErrorNotify, HandlerAt
  <2>2. op' \in [Ops -> OpRecord]
    BY <1>10, <2>1, GotoReturn DEF NotifyConnErrorNotify, TypeOK, Points, Completed, InHandler, IssuePoint, ErrorPoint
  <2> QED
    BY <1>10, <2>2 DEF NotifyConnErrorNotify, TypeOK, notify_one
<1> QED
  BY <1>1, <1>2, <1>3, <1>4, <1>5, <1>6, <1>7, <1>8, <1>9, <1>10 DEF Handler

\* A step that changes nothing keeps the types.
LEMMA TypeStutter ==
  ASSUME TypeOK, UNCHANGED vars
  PROVE  TypeOK'
BY DEF TypeOK, vars, poolVars, viewVars, objVars, accVars, mngVars, cowVars

\* manage_thread keeps the types.
LEMMA TypeManage ==
  ASSUME TypeOK, Manage
  PROVE  TypeOK'
<1> USE DEF poolVars, viewVars, objVars, accVars, mngVars, cowVars
<1>a. NoConn \notin Conns /\ WheelSize \in Nat /\ WheelSize >= 2
  BY ConstantsAssumption
<1>1. CASE ManageWait
  BY <1>a, <1>1 DEF ManageWait, TypeOK
<1>2. CASE ManageWake
  BY <1>a, <1>2 DEF ManageWake, TypeOK
<1>3. CASE ManageTimeout
  BY <1>a, <1>3 DEF ManageTimeout, TypeOK
<1>4. CASE ManageShow
  BY <1>a, <1>4 DEF ManageShow, TypeOK
<1>5. CASE ManageLock
  BY <1>a, <1>5 DEF ManageLock, TypeOK
<1>6. ASSUME NEW c \in Conns, ManageGone(c)
      PROVE  TypeOK'
  BY <1>a, <1>6 DEF ManageGone, TypeOK
<1>7. ASSUME NEW c \in Conns, ManageErase(c)
      PROVE  TypeOK'
  <2>1. timing_wheel_' \in [1..WheelSize -> SUBSET Conns]
    BY <1>7, WheelType DEF ManageErase, erase_from_view, TypeOK
  <2> QED
    BY <1>7, <2>1 DEF ManageErase, erase_from_view, TypeOK
<1>8. ASSUME NEW c \in Conns, ManageWash(c)
      PROVE  TypeOK'
  <2>1. timing_wheel_' \in [1..WheelSize -> SUBSET Conns]
    BY <1>8, WheelType DEF ManageWash, erase_from_view, TypeOK, with_socket
  <2>2. op' \in [Ops -> OpRecord]
    BY <1>8, SocketEnded DEF ManageWash, TypeOK, Completed, with_socket
  <2> QED
    <3>1. CASE stats_[c] = "conn_working"
      BY <1>8, <2>1, <3>1 DEF ManageWash, erase_from_view, TypeOK, AbortReasons, with_socket
    <3>2. CASE stats_[c] # "conn_working"
      <4>1. /\ stats_' = [stats_ EXCEPT ![c] = "conn_pending"]
            /\ p_sock_' = [p_sock_ EXCEPT ![c] = FALSE]
            /\ UNCHANGED aborted
        BY <1>8, <3>2 DEF ManageWash, with_socket
      <4>2. /\ stats_' \in [Conns -> {"conn_working", "conn_pending", "conn_error"}]
            /\ p_sock_' \in [Conns -> BOOLEAN]
        BY <4>1 DEF TypeOK
      <4>3. /\ front_conns_' \subseteq Conns
            /\ current_conns_cnt_' \in Int
            /\ mng_todo' \subseteq Conns
            /\ mng_pc' = "cache" /\ mng_item' = c
            /\ UNCHANGED <<cached_conns_, pending_to_remove_, accVars, cowVars>>
        BY <1>8 DEF ManageWash, erase_from_view, TypeOK, with_socket
      <4> QED
        BY <2>1, <2>2, <4>1, <4>2, <4>3 DEF TypeOK
    <3> QED
      BY <3>1, <3>2
<1>9. CASE ManageCache
  BY <1>a, <1>9 DEF ManageCache, TypeOK
<1>10. CASE ManageDone
  BY <1>a, <1>10 DEF ManageDone, TypeOK, AbortReasons
<1> QED
  BY <1>1, <1>2, <1>3, <1>4, <1>5, <1>6, <1>7, <1>8, <1>9, <1>10 DEF Manage

\* The co_worker thread keeps the types.
LEMMA TypeCoWorker ==
  ASSUME TypeOK, CoWorker
  PROVE  TypeOK'
<1> USE DEF poolVars, viewVars, objVars, accVars, mngVars, cowVars
<1>a. NoConn \notin Conns /\ WheelSize \in Nat /\ WheelSize >= 2
  BY ConstantsAssumption
<1>1. CASE WheelBegin
  <2>1. 1 \in 1..WheelSize
    BY <1>a
  <2>2. timing_wheel_[1] \subseteq Conns
    BY <2>1 DEF TypeOK
  <2> QED
    BY <1>1, <2>2 DEF WheelBegin, TypeOK
<1>2. ASSUME NEW c \in Conns, WheelItem(c)
      PROVE  TypeOK'
  BY <1>a, <1>2 DEF WheelItem, TypeOK
<1>3. CASE WheelCached
  BY <1>a, <1>3 DEF WheelCached, TypeOK, AbortReasons
<1>4. CASE WheelShutdown
  <2>1. op' \in [Ops -> OpRecord]
    BY <1>4, SocketEnded DEF WheelShutdown, TypeOK, Completed
  <2> QED
    BY <1>4, <2>1 DEF WheelShutdown, TypeOK, AbortReasons
<1>5. CASE WheelSetStats
  BY <1>a, <1>5 DEF WheelSetStats, TypeOK
<1>6. CASE WheelPush
  BY <1>a, <1>6 DEF WheelPush, TypeOK
<1>7. CASE WheelNotify
  BY <1>a, <1>7 DEF WheelNotify, TypeOK, notify_one
<1>8. CASE WheelPushBack
  <2>1. timing_wheel_' \in [1..WheelSize -> SUBSET Conns]
    BY <1>a, <1>8 DEF WheelPushBack, rotated, TypeOK
  <2> QED
    BY <1>a, <1>8, <2>1 DEF WheelPushBack, TypeOK
<1> QED
  BY <1>1, <1>2, <1>3, <1>4, <1>5, <1>6, <1>7, <1>8 DEF CoWorker

\* Every step of the system keeps the types.
LEMMA TypeStep ==
  ASSUME TypeOK, [Next]_vars
  PROVE  TypeOK'
<1>1. CASE Next
  BY <1>1, TypeAccept, TypeManage, TypeCoWorker, TypeHandler, TypeStutter
     DEF Next, Dead
<1>2. CASE UNCHANGED vars
  BY <1>2, TypeStutter
<1> QED
  BY <1>1, <1>2

\* The state main leaves has the types.
LEMMA TypeInit == Init => TypeOK
<1>1. NoOp \in OpRecord
  BY OpFree
<1>2. SUFFICES ASSUME Init
               PROVE  TypeOK
  OBVIOUS
<1>3. op \in [Ops -> OpRecord]
  BY <1>1, <1>2 DEF Init
<1>4. timing_wheel_ \in [1..WheelSize -> SUBSET Conns]
  BY <1>2 DEF Init
<1>5. stats_ \in [Conns -> {"conn_working", "conn_pending", "conn_error"}]
  BY <1>2 DEF Init
<1>6. p_sock_ \in [Conns -> BOOLEAN]
  BY <1>2 DEF Init
<1>7. cached_conns_ \in Seq(Conns)
  BY <1>2 DEF Init
<1>8. /\ front_conns_ = {} /\ current_conns_cnt_ = 0 /\ pending_to_remove_ = {}
      /\ acc_pc = "idle" /\ new_c = NoConn
      /\ mng_pc = "top" /\ mng_todo = {} /\ mng_item = NoConn
      /\ cow_pc = "idle" /\ cow_todo = {} /\ front_modi = {}
      /\ cow_conn = NoConn /\ notify_flag = FALSE /\ aborted = "no"
  BY <1>2 DEF Init
<1>9. notify_flag \in BOOLEAN /\ aborted \in AbortReasons
  BY <1>8 DEF AbortReasons
<1>10. /\ new_c \in IF acc_pc \in {"start", "read"} THEN Conns ELSE {NoConn}
       /\ mng_item \in IF mng_pc = "cache" THEN Conns ELSE {NoConn}
       /\ cow_conn \in IF cow_pc \in {"idle", "scan", "push_back"} THEN {NoConn} ELSE Conns
  BY <1>8
<1>11. /\ acc_pc \in {"idle", "stopped", "take", "start", "read"}
       /\ mng_pc \in {"top", "waiting", "notified", "show", "lock", "loop", "cache"}
       /\ cow_pc \in {"idle", "scan", "assert_cached", "sock_shutdown", "set_stats",
                     "push_to_remove", "push_back"}
  BY <1>8
<1>12. /\ front_conns_ \subseteq Conns /\ current_conns_cnt_ \in Int
       /\ pending_to_remove_ \subseteq Conns /\ mng_todo \subseteq Conns
       /\ cow_todo \subseteq Conns /\ front_modi \subseteq Conns
  BY <1>8
<1> QED
  BY <1>3, <1>4, <1>5, <1>6, <1>7, <1>9, <1>10, <1>11, <1>12 DEF TypeOK

\* The variables have their types in every reachable state, and a thread that
\* works on an object has one.
THEOREM TypeCorrect == Spec => []TypeOK
<1>1. Init => TypeOK
  BY TypeInit
<1>2. TypeOK /\ [Next]_vars => TypeOK'
  BY TypeStep
<1> QED
  BY <1>1, <1>2, PTL DEF Spec

-----------------------------------------------------------------------------
(***************************************************************************)
(* The safety invariants, proved together as PoolInv                       *)
(***************************************************************************)

(***************************************************************************)
(* What shared_ptr::use_count tells.                                       *)
(***************************************************************************)

\* The positions of the cache, and the operations, that hold an object are
\* finitely many.
LEMMA HolderSets ==
  ASSUME TypeOK, NEW c \in Conns
  PROVE  LET P == {i \in DOMAIN cached_conns_ : cached_conns_[i] = c}
             O == {o \in Ops : op[o].conn = c}
         IN  /\ IsFiniteSet(P) /\ Cardinality(P) \in Nat
             /\ IsFiniteSet(O) /\ Cardinality(O) \in Nat
<1> DEFINE P == {i \in DOMAIN cached_conns_ : cached_conns_[i] = c}
           O == {o \in Ops : op[o].conn = c}
<1>1. Len(cached_conns_) \in Nat /\ DOMAIN cached_conns_ = 1..Len(cached_conns_)
  BY DEF TypeOK
<1>2. IsFiniteSet(1..Len(cached_conns_))
  BY <1>1, FS_Interval
<1>3. IsFiniteSet(P)
  BY <1>1, <1>2, FS_Subset
<1>4. IsFiniteSet(O)
  BY ConstantsAssumption, FS_Subset
<1> QED
  BY <1>3, <1>4, FS_CardinalityType

\* An expired weak pointer's object is in no container.
LEMMA CountZero ==
  ASSUME TypeOK, NEW c \in Conns, use_count(c) = 0
  PROVE  c \notin front_conns_ /\ c \notin CachedSet
<1> DEFINE P == {i \in DOMAIN cached_conns_ : cached_conns_[i] = c}
           O == {o \in Ops : op[o].conn = c}
<1>1. IsFiniteSet(P) /\ Cardinality(P) \in Nat /\ Cardinality(O) \in Nat
  BY HolderSets
<1>2. use_count(c) = One(c \in front_conns_) + One(c \in pending_to_remove_)
                     + One(new_c = c) + One(cow_conn = c)
                     + Cardinality(P) + Cardinality(O)
  BY DEF use_count
<1>3. /\ One(c \in front_conns_) \in {0, 1} /\ One(c \in pending_to_remove_) \in {0, 1}
      /\ One(new_c = c) \in {0, 1} /\ One(cow_conn = c) \in {0, 1}
  BY DEF One
<1>4. One(c \in front_conns_) = 0 /\ Cardinality(P) = 0
  <2> HIDE DEF P, O
  <2> QED BY <1>1, <1>2, <1>3
<1>5. c \notin front_conns_
  BY <1>4 DEF One
<1>6. P = {}
  BY <1>1, <1>4, FS_EmptySet
<1> QED
  BY <1>5, <1>6 DEF CachedSet

\* A cached object with one reference is held by no operation.
LEMMA CountOne ==
  ASSUME TypeOK, NEW c \in Conns, c \in CachedSet, use_count(c) = 1
  PROVE  \A o \in Ops : op[o].conn # c
<1> DEFINE P == {i \in DOMAIN cached_conns_ : cached_conns_[i] = c}
           O == {o \in Ops : op[o].conn = c}
<1>1. /\ IsFiniteSet(P) /\ Cardinality(P) \in Nat
      /\ IsFiniteSet(O) /\ Cardinality(O) \in Nat
  BY HolderSets
<1>2. use_count(c) = One(c \in front_conns_) + One(c \in pending_to_remove_)
                     + One(new_c = c) + One(cow_conn = c)
                     + Cardinality(P) + Cardinality(O)
  BY DEF use_count
<1>3. /\ One(c \in front_conns_) \in {0, 1} /\ One(c \in pending_to_remove_) \in {0, 1}
      /\ One(new_c = c) \in {0, 1} /\ One(cow_conn = c) \in {0, 1}
  BY DEF One
<1>4. P # {}
  BY DEF CachedSet
<1>5. Cardinality(P) # 0
  BY <1>1, <1>4, FS_EmptySet
<1>6. Cardinality(O) = 0
  <2> HIDE DEF P, O
  <2> QED BY <1>1, <1>2, <1>3, <1>5
<1>7. O = {}
  BY <1>1, <1>6, FS_EmptySet
<1> QED
  BY <1>7

(***************************************************************************)
(* The cache as a sequence without repetition.                             *)
(***************************************************************************)

Distinct(s) == \A i, j \in DOMAIN s : s[i] = s[j] => i = j
Members(s) == {s[i] : i \in DOMAIN s}

\* Taking the first element leaves a repetition-free sequence without it.
LEMMA TailMembers ==
  ASSUME NEW s \in Seq(Conns), s # <<>>, Distinct(s)
  PROVE  /\ Distinct(Tail(s))
         /\ Members(Tail(s)) \subseteq Members(s) \ {Head(s)}
         /\ Head(s) \in Members(s)
         /\ Len(Tail(s)) = Len(s) - 1 /\ Len(s) \in Nat
<1>1. /\ Len(s) \in Nat /\ Len(s) > 0 /\ DOMAIN s = 1..Len(s)
      /\ Tail(s) \in Seq(Conns) /\ Len(Tail(s)) = Len(s) - 1
      /\ DOMAIN Tail(s) = 1..(Len(s) - 1)
      /\ \A i \in 1..(Len(s) - 1) : Tail(s)[i] = s[i + 1]
      /\ Head(s) = s[1]
  OBVIOUS
<1>2. Distinct(Tail(s))
  BY <1>1 DEF Distinct
<1>3. ASSUME NEW i \in 1..(Len(s) - 1)
      PROVE  Tail(s)[i] \in Members(s) \ {Head(s)}
  BY <1>1 DEF Distinct, Members
<1> QED
  BY <1>1, <1>2, <1>3 DEF Members

\* Appending a new element keeps the sequence repetition-free.
LEMMA AppendMembers ==
  ASSUME NEW s \in Seq(Conns), Distinct(s), NEW e \in Conns, e \notin Members(s)
  PROVE  /\ Distinct(Append(s, e))
         /\ Members(Append(s, e)) = Members(s) \cup {e}
         /\ Len(Append(s, e)) = Len(s) + 1 /\ Len(s) \in Nat
<1>1. /\ Len(s) \in Nat /\ DOMAIN s = 1..Len(s)
      /\ Len(Append(s, e)) = Len(s) + 1
      /\ DOMAIN Append(s, e) = 1..(Len(s) + 1)
      /\ \A i \in 1..Len(s) : Append(s, e)[i] = s[i]
      /\ Append(s, e)[Len(s) + 1] = e
  OBVIOUS
<1>2. \A i \in 1..(Len(s) + 1) : i \in 1..Len(s) \/ i = Len(s) + 1
  BY <1>1
<1>3. Distinct(Append(s, e))
  BY <1>1, <1>2 DEF Distinct, Members
<1>4. Members(Append(s, e)) = Members(s) \cup {e}
  BY <1>1, <1>2 DEF Members
<1> QED
  BY <1>1, <1>3, <1>4

-----------------------------------------------------------------------------
(***************************************************************************)
(* What each kind of thread does to the containers.                        *)
(***************************************************************************)

\* A step that leaves the view, the counter and the cache alone, neither takes
\* nor gives back a mutex, and adds to pending_to_remove_ only while
\* conn_notify_mutex is free.
Bystander ==
  /\ UNCHANGED <<front_conns_, current_conns_cnt_, cached_conns_, mng_todo, mng_item>>
  /\ mng_pc' = mng_pc \/ (mng_pc = "waiting" /\ mng_pc' = "notified")
  /\ pending_to_remove_ \subseteq pending_to_remove_'
  /\ front_conns_locked => pending_to_remove_' = pending_to_remove_
  /\ acc_pc' = "take" => acc_pc = "take" \/ may_admit
  /\ aborted' = aborted \/ aborted' \in {"remote_endpoint", "use_count", "not_cached",
                                         "null_socket"}

\* Completions and their handlers are bystanders of the containers.
LEMMA HandlerFrame ==
  ASSUME NEW o \in Ops, Complete(o) \/ Handler(o)
  PROVE  Bystander /\ UNCHANGED <<timing_wheel_, accVars, cowVars>>
<1> USE DEF Bystander, poolVars, viewVars, objVars, accVars, mngVars, cowVars,
            front_conns_locked, conn_notify_locked
<1>1. CASE Complete(o)
  BY <1>1 DEF Complete
<1>2. CASE ReadOk(o)
  BY <1>2 DEF ReadOk
<1>3. CASE ReadAborted(o)
  BY <1>3 DEF ReadAborted
<1>4. CASE WriteOk(o)
  BY <1>4 DEF WriteOk
<1>5. CASE WriteAborted(o)
  BY <1>5 DEF WriteAborted
<1>6. CASE Issue(o)
  BY <1>6 DEF Issue
<1>7. CASE HandlerError(o)
  BY <1>7 DEF HandlerError
<1>8. CASE NotifyConnErrorStats(o)
  BY <1>8 DEF NotifyConnErrorStats
<1>9. CASE NotifyConnErrorPush(o)
  BY <1>9 DEF NotifyConnErrorPush
<1>10. CASE NotifyConnErrorNotify(o)
  BY <1>10 DEF NotifyConnErrorNotify, notify_one
<1> QED
  BY <1>1, <1>2, <1>3, <1>4, <1>5, <1>6, <1>7, <1>8, <1>9, <1>10 DEF Handler

\* So is the co_worker thread.
LEMMA CoWorkerFrame ==
  ASSUME CoWorker
  PROVE  Bystander /\ UNCHANGED accVars
<1> USE DEF Bystander, poolVars, viewVars, objVars, accVars, mngVars, cowVars,
            front_conns_locked, conn_notify_locked
<1>1. CASE WheelBegin
  BY <1>1 DEF WheelBegin
<1>2. ASSUME NEW c \in Conns, WheelItem(c)
      PROVE  Bystander /\ UNCHANGED accVars
  BY <1>2 DEF WheelItem
<1>3. CASE WheelCached
  BY <1>3 DEF WheelCached
<1>4. CASE WheelShutdown
  BY <1>4 DEF WheelShutdown
<1>5. CASE WheelSetStats
  BY <1>5 DEF WheelSetStats
<1>6. CASE WheelPush
  BY <1>6 DEF WheelPush
<1>7. CASE WheelNotify
  BY <1>7 DEF WheelNotify, notify_one
<1>8. CASE WheelPushBack
  BY <1>8 DEF WheelPushBack
<1> QED
  BY <1>1, <1>2, <1>3, <1>4, <1>5, <1>6, <1>7, <1>8 DEF CoWorker

\* The critical section of accept_handler moves an object that has no owner,
\* or the first of the cache, into the view and the wheel.
Inserts(c) ==
  /\ acc_pc = "take" /\ ~front_conns_locked
  /\ \/ c \notin CachedSet /\ cached_conns_' = cached_conns_
     \/ /\ cached_conns_ # <<>> /\ c = Head(cached_conns_)
        /\ cached_conns_' = Tail(cached_conns_)
        /\ use_count(c) = 1
  /\ front_conns_' = front_conns_ \cup {c}
  /\ current_conns_cnt_' = current_conns_cnt_ + 1
  /\ timing_wheel_' = wheel_insert(c)
  /\ acc_pc' = "start"
  /\ UNCHANGED <<pending_to_remove_, mngVars, cowVars, aborted>>

\* Everything else in accept_handler leaves the containers alone.
LEMMA AcceptFrame ==
  ASSUME TypeOK, SingleOwner, Accept
  PROVE  \/ Bystander /\ UNCHANGED <<timing_wheel_, cowVars>>
         \/ \E c \in Conns \ front_conns_ : Inserts(c)
<1> USE DEF Bystander, poolVars, viewVars, objVars, accVars, mngVars, cowVars
<1>1. CASE AcceptFailed
  BY <1>1 DEF AcceptFailed
<1>2. CASE AcceptPeerGone
  BY <1>2 DEF AcceptPeerGone
<1>3. CASE AcceptRefuse
  BY <1>3 DEF AcceptRefuse, vars
<1>4. CASE AcceptAdmit
  BY <1>4 DEF AcceptAdmit
<1>5. CASE AcceptTakeCached
  <2> DEFINE h == Head(cached_conns_)
  <2>1. /\ acc_pc = "take" /\ ~front_conns_locked /\ cached_conns_ # <<>>
        /\ UNCHANGED <<pending_to_remove_, stats_, mngVars, cowVars>>
    BY <1>5 DEF AcceptTakeCached, conn_reset_network
  <2>2. CASE ~recyclable(h)
    <3>1. /\ aborted' = "use_count"
          /\ UNCHANGED <<viewVars, cached_conns_, timing_wheel_, p_sock_, op, accVars>>
      BY <1>5, <2>2, Zenon DEF AcceptTakeCached, conn_reset_network
    <3> QED
      BY <2>1, <3>1
  <2>3. CASE recyclable(h)
    <3>1. /\ front_insert(h) /\ cached_conns_' = Tail(cached_conns_)
          /\ UNCHANGED aborted
      BY <1>5, <2>3, Zenon DEF AcceptTakeCached, conn_reset_network
    <3>2. h \in Conns /\ h \in CachedSet
      BY <2>1 DEF TypeOK, CachedSet
    <3>3. h \notin front_conns_
      BY <3>2 DEF SingleOwner
    <3>4. use_count(h) = 1
      BY <2>3 DEF recyclable
    <3>5. Inserts(h)
      BY <2>1, <3>1, <3>4 DEF Inserts, front_insert
    <3> QED
      BY <3>2, <3>3, <3>5
  <2> QED
    BY <2>2, <2>3
<1>6. ASSUME NEW c \in Conns, AcceptTakeNew(c)
      PROVE  c \notin front_conns_ /\ Inserts(c)
  <2>1. use_count(c) = 0
    BY <1>6 DEF AcceptTakeNew, Unreferenced
  <2>2. c \notin front_conns_ /\ c \notin CachedSet
    BY <2>1, CountZero
  <2> QED
    BY <1>6, <2>2 DEF AcceptTakeNew, front_insert, Inserts
<1>7. CASE AcceptStart
  BY <1>7 DEF AcceptStart
<1>8. CASE AcceptRead
  BY <1>8 DEF AcceptRead
<1> QED
  BY <1>1, <1>2, <1>3, <1>4, <1>5, <1>6, <1>7, <1>8 DEF Accept

\* manage_thread between its rounds.
ManageQuiet ==
  ManageWait \/ ManageWake \/ ManageTimeout \/ ManageShow \/ ManageLock

\* Between its rounds manage_thread leaves the containers alone, and a round
\* begins with the whole set to do.
LEMMA ManageFrame ==
  ASSUME ManageQuiet
  PROVE  /\ UNCHANGED <<poolVars, accVars, cowVars, mng_item, op, aborted>>
         /\ ~front_conns_locked
         /\ mng_pc' # "cache"
         /\ mng_pc' = "loop" => mng_todo' = pending_to_remove_
<1> USE DEF poolVars, viewVars, objVars, accVars, mngVars, cowVars, front_conns_locked
<1>1. CASE ManageWait
  BY <1>1 DEF ManageWait
<1>2. CASE ManageWake
  BY <1>2 DEF ManageWake
<1>3. CASE ManageTimeout
  BY <1>3 DEF ManageTimeout
<1>4. CASE ManageShow
  BY <1>4 DEF ManageShow
<1>5. CASE ManageLock
  BY <1>5 DEF ManageLock
<1> QED
  BY <1>1, <1>2, <1>3, <1>4, <1>5 DEF ManageQuiet

-----------------------------------------------------------------------------
(***************************************************************************)
(* The containers and the counter.                                         *)
(***************************************************************************)

\* The parts of PoolInv that speak of the view, the counter and the cache.
ContainerInv ==
  /\ CountMatches /\ ServeLimit /\ SingleOwner /\ CacheBounded
  /\ AdmittedFits /\ RoundProgress /\ RoomKept

\* The limit of the cache is a number.
LEMMA LimitNat == CacheLimit \in Nat
<1>1. MaxConns \in Nat /\ CachePercent \in Nat
  BY ConstantsAssumption
<1>2. MaxConns * CachePercent \in Nat
  BY <1>1
<1> QED
  BY <1>2 DEF CacheLimit

\* The view is finite; one object more or less changes its size by one.
LEMMA ViewSize ==
  ASSUME TypeOK
  PROVE  /\ Cardinality(front_conns_) \in Nat
         /\ \A c \in Conns \ front_conns_ :
              Cardinality(front_conns_ \cup {c}) = Cardinality(front_conns_) + 1
         /\ \A c \in front_conns_ :
              Cardinality(front_conns_ \ {c}) = Cardinality(front_conns_) - 1
<1>1. IsFiniteSet(front_conns_)
  BY ConstantsAssumption, FS_Subset DEF TypeOK
<1> QED
  BY <1>1, FS_CardinalityType, FS_AddElement, FS_RemoveElement

\* A bystander's step keeps the parts about the containers.
LEMMA ContainerBystander ==
  ASSUME TypeOK, ContainerInv, Bystander
  PROVE  ContainerInv'
<1> USE DEF Bystander
<1>1. CountMatches' /\ ServeLimit' /\ CacheBounded' /\ RoomKept'
  BY DEF ContainerInv, CountMatches, ServeLimit, CacheBounded, RoomKept, CacheLimit
<1>2. SingleOwner'
  BY DEF ContainerInv, SingleOwner, CachedSet
<1>3. AdmittedFits'
  BY DEF ContainerInv, AdmittedFits, may_admit
<1>4. RoundProgress'
  BY DEF ContainerInv, RoundProgress, front_conns_locked
<1> QED
  BY <1>1, <1>2, <1>3, <1>4 DEF ContainerInv

\* So does the insertion of accept_handler: the test of the counter, made
\* before the mutex was taken, still holds.
LEMMA ContainerInsert ==
  ASSUME TypeOK, ContainerInv, NEW c \in Conns \ front_conns_, Inserts(c)
  PROVE  ContainerInv'
<1> USE DEF mngVars, cowVars
<1>1. CountMatches' /\ ServeLimit' /\ AdmittedFits'
  <2>1. /\ current_conns_cnt_ \in Int /\ current_conns_cnt_ < MaxConns
        /\ current_conns_cnt_ = Cardinality(front_conns_)
        /\ aborted # "size_mismatch"
    BY DEF Inserts, TypeOK, ContainerInv, CountMatches, AdmittedFits
  <2>2. /\ Cardinality(front_conns_)' = Cardinality(front_conns_) + 1
        /\ current_conns_cnt_' = current_conns_cnt_ + 1
        /\ acc_pc' = "start" /\ aborted' = aborted
    BY ViewSize DEF Inserts
  <2>3. MaxConns \in Nat
    BY ConstantsAssumption
  <2> QED
    BY <2>1, <2>2, <2>3 DEF CountMatches, ServeLimit, AdmittedFits
<1>2. /\ cached_conns_ \in Seq(Conns) /\ Distinct(cached_conns_)
      /\ front_conns_ \cap Members(cached_conns_) = {}
      /\ mng_item = NoConn /\ NoConn \notin Conns
      /\ front_conns_ \subseteq Conns
      /\ Members(cached_conns_) \subseteq Conns
  BY ConstantsAssumption DEF Inserts, TypeOK, ContainerInv, SingleOwner, CachedSet,
     Members, Distinct, front_conns_locked
<1>3. /\ Distinct(cached_conns_')
      /\ Members(cached_conns_') \subseteq Members(cached_conns_) \ {c}
      /\ Len(cached_conns_') <= Len(cached_conns_)
      /\ Len(cached_conns_) \in Nat /\ Len(cached_conns_') \in Nat
  <2>1. CASE c \notin CachedSet /\ cached_conns_' = cached_conns_
    BY <1>2, <2>1 DEF CachedSet, Members
  <2>2. CASE /\ cached_conns_ # <<>> /\ c = Head(cached_conns_)
             /\ cached_conns_' = Tail(cached_conns_)
    <3>1. Len(cached_conns_) > 0
      BY <1>2, <2>2
    <3> QED
      BY <1>2, <2>2, <3>1, TailMembers
  <2> QED
    BY <2>1, <2>2 DEF Inserts
<1>4. SingleOwner'
  BY <1>2, <1>3 DEF Inserts, SingleOwner, CachedSet, Members, Distinct
<1>5. CacheBounded' /\ RoomKept'
  BY <1>3, LimitNat DEF Inserts, ContainerInv, CacheBounded, RoomKept,
     front_conns_locked, CacheLimit
<1>6. RoundProgress'
  BY DEF Inserts, RoundProgress, front_conns_locked
<1> QED
  BY <1>1, <1>4, <1>5, <1>6 DEF ContainerInv

\* What ManageErase and ManageWash share keeps the count and the limits.
LEMMA ContainerErase ==
  ASSUME TypeOK, ContainerInv, NEW c \in Conns, c \in mng_todo \cap front_conns_,
         mng_pc = "loop", erase_from_view(c),
         UNCHANGED <<cached_conns_, pending_to_remove_, acc_pc>>,
         aborted' = aborted \/ aborted' = "wash_working"
  PROVE  CountMatches' /\ ServeLimit' /\ AdmittedFits' /\ CacheBounded' /\ RoundProgress'
<1>1. CountMatches' /\ ServeLimit' /\ AdmittedFits'
  <2>1. /\ current_conns_cnt_ \in Int
        /\ current_conns_cnt_ = Cardinality(front_conns_)
        /\ Cardinality(front_conns_) <= MaxConns
        /\ acc_pc = "take" => current_conns_cnt_ < MaxConns
        /\ aborted # "size_mismatch"
    BY DEF TypeOK, ContainerInv, CountMatches, ServeLimit, AdmittedFits
  <2>2. /\ Cardinality(front_conns_)' = Cardinality(front_conns_) - 1
        /\ current_conns_cnt_' = current_conns_cnt_ - 1
    BY ViewSize DEF erase_from_view
  <2>3. MaxConns \in Nat
    BY ConstantsAssumption
  <2> QED
    BY <2>1, <2>2, <2>3 DEF CountMatches, ServeLimit, AdmittedFits
<1>2. CacheBounded'
  BY DEF ContainerInv, CacheBounded, CacheLimit
<1>3. RoundProgress'
  BY DEF ContainerInv, RoundProgress, front_conns_locked, erase_from_view
<1> QED
  BY <1>1, <1>2, <1>3

\* manage_thread keeps the parts about the containers.
LEMMA ContainerManage ==
  ASSUME TypeOK, ContainerInv, Manage
  PROVE  ContainerInv'
<1> USE DEF poolVars, viewVars, accVars, mngVars, cowVars
<1>a. /\ CountMatches /\ ServeLimit /\ SingleOwner /\ CacheBounded
      /\ AdmittedFits /\ RoundProgress /\ RoomKept
  BY DEF ContainerInv
<1>1. CASE ManageQuiet
  <2>1. /\ UNCHANGED <<poolVars, accVars, cowVars, mng_item, op, aborted>>
        /\ mng_pc' # "cache"
        /\ mng_pc' = "loop" => mng_todo' = pending_to_remove_
    BY <1>1, ManageFrame
  <2>2. CountMatches' /\ ServeLimit' /\ CacheBounded' /\ AdmittedFits' /\ RoomKept'
    BY <1>a, <2>1 DEF CountMatches, ServeLimit, CacheBounded, AdmittedFits, RoomKept,
       CacheLimit
  <2>3. SingleOwner'
    BY <1>a, <2>1 DEF SingleOwner, CachedSet
  <2>4. RoundProgress'
    BY <2>1 DEF RoundProgress, front_conns_locked
  <2> QED
    BY <2>2, <2>3, <2>4 DEF ContainerInv
<1>2. ASSUME NEW c \in Conns, ManageGone(c)
      PROVE  ContainerInv'
  <2>1. CountMatches' /\ ServeLimit' /\ CacheBounded' /\ AdmittedFits' /\ RoomKept'
    BY <1>a, <1>2 DEF ManageGone, CountMatches, ServeLimit, CacheBounded, AdmittedFits,
       RoomKept, CacheLimit
  <2>2. SingleOwner'
    BY <1>a, <1>2 DEF ManageGone, SingleOwner, CachedSet
  <2>3. RoundProgress'
    BY <1>a, <1>2 DEF ManageGone, RoundProgress, front_conns_locked
  <2> QED
    BY <2>1, <2>2, <2>3 DEF ContainerInv
<1>3. ASSUME NEW c \in Conns, ManageErase(c)
      PROVE  ContainerInv'
  <2>1. /\ CountMatches' /\ ServeLimit' /\ AdmittedFits' /\ CacheBounded'
        /\ RoundProgress'
    BY <1>3, ContainerErase DEF ManageErase
  <2>2. SingleOwner'
    BY <1>a, <1>3 DEF ManageErase, erase_from_view, SingleOwner, CachedSet
  <2>3. RoomKept'
    BY <1>3 DEF ManageErase, RoomKept
  <2> QED
    BY <2>1, <2>2, <2>3 DEF ContainerInv
<1>4. ASSUME NEW c \in Conns, ManageWash(c)
      PROVE  ContainerInv'
  <2>1. /\ mng_pc = "loop" /\ c \in mng_todo \cap front_conns_
        /\ cache_has_room /\ erase_from_view(c)
        /\ mng_pc' = "cache" /\ mng_item' = c
        /\ UNCHANGED <<cached_conns_, pending_to_remove_, accVars, cowVars>>
        /\ aborted' = aborted \/ aborted' = "wash_working"
    BY <1>4, Zenon DEF ManageWash
  <2>2. /\ CountMatches' /\ ServeLimit' /\ AdmittedFits' /\ CacheBounded'
        /\ RoundProgress'
    BY <2>1, ContainerErase
  <2>3. SingleOwner'
    BY <1>a, <2>1 DEF erase_from_view, SingleOwner, CachedSet
  <2>4. RoomKept'
    BY <2>1 DEF RoomKept, cache_has_room, CacheLimit
  <2> QED
    BY <2>2, <2>3, <2>4 DEF ContainerInv
<1>5. CASE ManageCache
  <2>1. /\ cached_conns_ \in Seq(Conns) /\ mng_item \in Conns
        /\ NoConn \notin Conns /\ front_conns_ \subseteq Conns
    BY <1>5, ConstantsAssumption DEF ManageCache, TypeOK
  <2>2. /\ Distinct(cached_conns_) /\ mng_item \notin Members(cached_conns_)
        /\ front_conns_ \cap Members(cached_conns_) = {}
        /\ mng_item \notin front_conns_
    BY <1>a DEF SingleOwner, CachedSet, Members, Distinct
  <2>3. /\ Distinct(cached_conns_')
        /\ Members(cached_conns_') = Members(cached_conns_) \cup {mng_item}
        /\ Len(cached_conns_') = Len(cached_conns_) + 1
        /\ Len(cached_conns_) \in Nat
    BY <1>5, <2>1, <2>2, AppendMembers DEF ManageCache
  <2>4. Members(cached_conns_) \subseteq Conns
    BY <2>1 DEF Members
  <2>5. SingleOwner'
    <3>1. front_conns_' = front_conns_ /\ mng_item' = NoConn
      BY <1>5 DEF ManageCache
    <3> QED
      BY <2>1, <2>2, <2>3, <2>4, <3>1 DEF SingleOwner, CachedSet, Members, Distinct
  <2>6. CacheBounded'
    BY <1>5, <1>a, <2>3, LimitNat DEF ManageCache, RoomKept, CacheBounded, CacheLimit
  <2>7. CountMatches' /\ ServeLimit' /\ AdmittedFits' /\ RoundProgress' /\ RoomKept'
    BY <1>5, <1>a DEF ManageCache, CountMatches, ServeLimit, AdmittedFits, RoundProgress,
       RoomKept, front_conns_locked
  <2> QED
    BY <2>5, <2>6, <2>7 DEF ContainerInv
<1>6. CASE ManageDone
  <2>1. CountMatches' /\ ServeLimit' /\ CacheBounded' /\ AdmittedFits'
    BY <1>a, <1>6 DEF ManageDone, CountMatches, ServeLimit, CacheBounded, AdmittedFits,
       CacheLimit
  <2>2. SingleOwner'
    BY <1>a, <1>6 DEF ManageDone, SingleOwner, CachedSet
  <2>3. RoundProgress' /\ RoomKept'
    BY <1>6 DEF ManageDone, RoundProgress, RoomKept, front_conns_locked
  <2> QED
    BY <2>1, <2>2, <2>3 DEF ContainerInv
<1> QED
  BY <1>1, <1>2, <1>3, <1>4, <1>5, <1>6 DEF Manage, ManageQuiet

-----------------------------------------------------------------------------
(***************************************************************************)
(* Handlers of an earlier life.                                            *)
(***************************************************************************)

\* A recycled object is held by no operation, so accept_handler makes none old.
LEMMA StaleAccept ==
  ASSUME TypeOK, NoStaleHandler, Accept
  PROVE  NoStaleHandler'
<1> USE DEF poolVars, viewVars, objVars, accVars, mngVars, cowVars
<1>1. CASE AcceptFailed \/ AcceptPeerGone \/ AcceptAdmit \/ AcceptStart
  BY <1>1 DEF AcceptFailed, AcceptPeerGone, AcceptAdmit, AcceptStart, NoStaleHandler
<1>2. CASE AcceptRefuse
  BY <1>2 DEF AcceptRefuse, vars, NoStaleHandler
<1>3. CASE AcceptTakeCached
  <2> DEFINE h == Head(cached_conns_)
  <2>1. CASE ~recyclable(h)
    <3>1. op' = op
      BY <1>3, <2>1, Zenon DEF AcceptTakeCached, conn_reset_network
    <3> QED
      BY <3>1 DEF NoStaleHandler
  <2>2. CASE recyclable(h)
    <3>1. /\ cached_conns_ # <<>>
          /\ op' = [o \in Ops |-> IF op[o].conn = h
                                  THEN [op[o] EXCEPT !.old = TRUE] ELSE op[o]]
      BY <1>3, <2>2, Zenon DEF AcceptTakeCached, conn_reset_network
    <3>2. h \in Conns /\ h \in CachedSet
      BY <3>1 DEF TypeOK, CachedSet
    <3>3. \A o \in Ops : op[o].conn # h
      BY <2>2, <3>2, CountOne DEF recyclable
    <3>4. \A o \in Ops : op'[o] = op[o]
      BY <3>1, <3>3
    <3> QED
      BY <3>4 DEF NoStaleHandler
  <2> QED
    BY <2>1, <2>2
<1>4. ASSUME NEW c \in Conns, AcceptTakeNew(c)
      PROVE  NoStaleHandler'
  BY <1>4 DEF AcceptTakeNew, NoStaleHandler
<1>5. CASE AcceptRead
  <2>1. CASE op' = op
    BY <2>1 DEF NoStaleHandler
  <2>2. CASE \E o \in Ops : op' = [op EXCEPT ![o] = StartedOp(new_c, "read", "async_read")]
    <3>1. ~StartedOp(new_c, "read", "async_read").old
      BY DEF StartedOp
    <3> QED
      BY <2>2, <3>1 DEF NoStaleHandler, TypeOK
  <2> QED
    BY <1>5, <2>1, <2>2 DEF AcceptRead
<1> QED
  BY <1>1, <1>2, <1>3, <1>4, <1>5 DEF Accept

\* No completion and no handler makes an operation old.
LEMMA StaleHandler ==
  ASSUME TypeOK, NoStaleHandler, NEW o \in Ops, Complete(o) \/ Handler(o)
  PROVE  NoStaleHandler'
<1>a. op \in [Ops -> OpRecord]
  BY DEF TypeOK
<1>b. \A pc : [op[o] EXCEPT !.pc = pc].old = op[o].old
  BY <1>a DEF OpRecord
<1>c. \A c, kind, pc : ~StartedOp(c, kind, pc).old
  BY DEF StartedOp
<1>1. ASSUME NEW pc, Goto(o, pc)
      PROVE  NoStaleHandler'
  BY <1>a, <1>b, <1>1 DEF Goto, NoStaleHandler
<1>2. CASE Return(o)
  BY <1>a, <1>2, OpFree DEF Return, NoStaleHandler
<1>3. CASE WriteAndRead(o)
  <2>1. PICK w \in Ops :
          op' = [op EXCEPT ![o].pc = "async_read",
                           ![w] = StartedOp(op[o].conn, "write", "async_write")]
    BY <1>3 DEF WriteAndRead
  <2> QED
    BY <1>a, <1>b, <1>c, <2>1 DEF NoStaleHandler
<1>4. CASE op' = op
  BY <1>4 DEF NoStaleHandler
<1>5. CASE Issue(o)
  <2>1. \/ op' = op
        \/ \E kind : op' = [op EXCEPT ![o] = StartedOp(op[o].conn, kind, "wait")]
    BY <1>5 DEF Issue
  <2> QED
    BY <1>a, <1>c, <2>1 DEF NoStaleHandler
<1>6. CASE HandlerError(o)
  <2> DEFINE ended == socket_ended(op[o].conn, "operation_aborted")
  <2>1. op' = op \/ op' = [ended EXCEPT ![o].pc = "set_stats"]
    BY <1>6, Zenon DEF HandlerError
  <2>2. /\ ended \in [Ops -> OpRecord]
        /\ \A p \in Ops : ended[p].old = op[p].old
    BY <1>a, SocketEnded DEF Completed
  <2> HIDE DEF ended
  <2>3. [ended[o] EXCEPT !.pc = "set_stats"].old = ended[o].old
    BY <2>2 DEF OpRecord
  <2>4. CASE op' = [ended EXCEPT ![o].pc = "set_stats"]
    BY <2>2, <2>3, <2>4 DEF NoStaleHandler
  <2> QED
    BY <1>4, <2>1, <2>4
<1>7. CASE Complete(o)
  BY <1>1, <1>7 DEF Complete
<1>8. CASE ReadOk(o) \/ ReadAborted(o) \/ WriteOk(o) \/ WriteAborted(o)
  BY <1>1, <1>2, <1>3, <1>8 DEF ReadOk, ReadAborted, WriteOk, WriteAborted
<1>9. CASE \/ NotifyConnErrorStats(o) \/ NotifyConnErrorPush(o)
           \/ NotifyConnErrorNotify(o)
  BY <1>1, <1>2, <1>9 DEF NotifyConnErrorStats, NotifyConnErrorPush, NotifyConnErrorNotify
<1> QED
  BY <1>5, <1>6, <1>7, <1>8, <1>9 DEF Handler

\* manage_thread and the co_worker thread only end operations.
LEMMA StaleOthers ==
  ASSUME TypeOK, NoStaleHandler, Manage \/ CoWorker
  PROVE  NoStaleHandler'
<1> USE DEF poolVars, viewVars, objVars, accVars, mngVars, cowVars
<1>1. \/ op' = op
      \/ \E c \in Conns, r \in Completed : op' = socket_ended(c, r)
  <2>1. CASE Manage
    <3>1. ASSUME NEW c \in Conns, ManageWash(c)
          PROVE  op' = op \/ op' = socket_ended(c, "operation_aborted")
      BY <3>1, Zenon DEF ManageWash
    <3>2. CASE ManageQuiet
      BY <3>2, ManageFrame
    <3>3. CASE ManageCache \/ ManageDone
      BY <3>3 DEF ManageCache, ManageDone
    <3>4. ASSUME NEW c \in Conns, ManageGone(c) \/ ManageErase(c)
          PROVE  op' = op
      BY <3>4 DEF ManageGone, ManageErase
    <3> QED
      BY <2>1, <3>1, <3>2, <3>3, <3>4 DEF Manage, ManageQuiet, Completed
  <2>2. CASE CoWorker
    <3>1. CASE WheelShutdown
      <4>1. cow_conn \in Conns
        BY <3>1 DEF WheelShutdown, TypeOK
      <4> QED
        BY <3>1, <4>1 DEF WheelShutdown, Completed
    <3>2. CASE \/ WheelBegin \/ WheelCached \/ WheelSetStats \/ WheelPush
               \/ WheelNotify \/ WheelPushBack
      BY <3>2 DEF WheelBegin, WheelCached, WheelSetStats, WheelPush, WheelNotify,
         WheelPushBack
    <3>3. ASSUME NEW c \in Conns, WheelItem(c)
          PROVE  op' = op
      BY <3>3 DEF WheelItem
    <3> QED
      BY <2>2, <3>1, <3>2, <3>3 DEF CoWorker
  <2> QED
    BY <2>1, <2>2
<1> QED
  BY <1>1, SocketEnded DEF NoStaleHandler, TypeOK

-----------------------------------------------------------------------------
(***************************************************************************)
(* The idle check.                                                         *)
(***************************************************************************)

\* c is where StillWatched allows a served connection to be.
Tracked(c) ==
  \/ Watched(c)
  \/ c \in pending_to_remove_
  \/ cow_conn = c /\ cow_pc \in {"sock_shutdown", "set_stats", "push_to_remove"}

\* Larger buckets and a larger pending_to_remove_ lose nobody.
LEMMA TrackedGrows ==
  ASSUME UNCHANGED cowVars, WheelSize \in Nat, WheelSize >= 2,
         \A i \in 1..WheelSize : timing_wheel_[i] \subseteq timing_wheel_'[i],
         pending_to_remove_ \subseteq pending_to_remove_',
         NEW c, Tracked(c)
  PROVE  Tracked(c)'
<1>1. Watched(c) => Watched(c)'
  BY DEF Watched, cowVars
<1> QED
  BY <1>1 DEF Tracked, cowVars

\* Insertion into the youngest bucket adds, and the object is watched then.
LEMMA InsertWatches ==
  ASSUME TypeOK, NEW c \in Conns, timing_wheel_' = wheel_insert(c)
  PROVE  /\ \A i \in 1..WheelSize : timing_wheel_[i] \subseteq timing_wheel_'[i]
         /\ Watched(c)'
<1>1. WheelSize \in Nat /\ WheelSize >= 2
  BY ConstantsAssumption
<1>2. timing_wheel_'[WheelSize] = timing_wheel_[WheelSize] \cup {c}
  BY <1>1 DEF TypeOK, wheel_insert
<1>3. \A i \in 1..WheelSize : timing_wheel_[i] \subseteq timing_wheel_'[i]
  BY <1>1, <1>2 DEF TypeOK, wheel_insert
<1> QED
  BY <1>1, <1>2, <1>3 DEF Watched

\* Inspection and rotation of the wheel lose nobody who is served.
LEMMA TrackedCoWorker ==
  ASSUME TypeOK, SingleOwner, CoWorker, NEW d \in front_conns_, Tracked(d)
  PROVE  Tracked(d)'
<1> USE DEF poolVars, viewVars, objVars, accVars, mngVars, cowVars
<1>a. WheelSize \in Nat /\ WheelSize >= 2 /\ NoConn \notin Conns
  BY ConstantsAssumption
<1>b. d \in Conns
  BY DEF TypeOK
<1>1. CASE WheelBegin
  BY <1>1 DEF WheelBegin, Tracked, Watched
<1>2. ASSUME NEW c \in Conns, WheelItem(c)
      PROVE  Tracked(d)'
  <2>1. cow_pc = "scan" /\ UNCHANGED <<timing_wheel_, pending_to_remove_>>
    BY <1>2 DEF WheelItem
  <2>2. Watched(d) \/ d \in pending_to_remove_
    BY <2>1 DEF Tracked
  <2>3. \/ /\ d \in front_modi => d \in front_modi'
           /\ cow_pc' \in {"scan", "assert_cached", "sock_shutdown"}
        \/ cow_conn' = d /\ cow_pc' = "sock_shutdown"
    BY <1>2, <2>1, CountZero DEF WheelItem
  <2> QED
    BY <2>1, <2>2, <2>3 DEF Tracked, Watched
<1>3. CASE WheelCached
  <2>1. d \in front_modi => d \in front_modi'
    BY <1>3 DEF WheelCached, SingleOwner
  <2> QED
    BY <1>3, <2>1 DEF WheelCached, Tracked, Watched
<1>4. CASE WheelShutdown
  BY <1>4 DEF WheelShutdown, Tracked, Watched
<1>5. CASE WheelSetStats
  BY <1>5 DEF WheelSetStats, Tracked, Watched
<1>6. CASE WheelPush
  BY <1>6 DEF WheelPush, Tracked, Watched
<1>7. CASE WheelNotify
  BY <1>7 DEF WheelNotify, Tracked, Watched
<1>8. CASE WheelPushBack
  <2>1. /\ cow_pc = "push_back" /\ cow_pc' = "idle"
        /\ timing_wheel_' = rotated(front_modi)
        /\ UNCHANGED pending_to_remove_
    BY <1>8 DEF WheelPushBack
  <2>2. /\ timing_wheel_'[WheelSize] = front_modi
        /\ \A i \in 2..WheelSize : timing_wheel_'[i - 1] = timing_wheel_[i]
    BY <1>a, <2>1 DEF rotated
  <2>3. CASE d \in front_modi
    BY <1>a, <2>2, <2>3 DEF Tracked, Watched
  <2>4. ASSUME NEW i \in 2..WheelSize, d \in timing_wheel_[i]
        PROVE  Watched(d)'
    <3>1. d \in timing_wheel_'[i - 1]
      BY <2>2, <2>4
    <3>2. i - 1 = 1 \/ i - 1 \in 2..WheelSize
      BY <1>a, <2>4
    <3> QED
      BY <2>1, <3>1, <3>2 DEF Watched
  <2> QED
    BY <2>1, <2>3, <2>4 DEF Tracked, Watched
<1> QED
  BY <1>1, <1>2, <1>3, <1>4, <1>5, <1>6, <1>7, <1>8 DEF CoWorker

\* manage_thread clears pending_to_remove_ only when nobody in it is served.
LEMMA WatchedManage ==
  ASSUME TypeOK, StillWatched, RoundProgress, Manage
  PROVE  StillWatched'
<1> USE DEF poolVars, viewVars, objVars, accVars, mngVars
<1>a. WheelSize \in Nat /\ WheelSize >= 2
  BY ConstantsAssumption
<1>b. \A c \in front_conns_ : Tracked(c)
  BY DEF StillWatched, Tracked
<1>1. ASSUME UNCHANGED <<cowVars, pending_to_remove_>>, front_conns_' \subseteq front_conns_,
             \A i \in 1..WheelSize : timing_wheel_[i] \subseteq timing_wheel_'[i]
      PROVE  StillWatched'
  <2>1. \A c \in front_conns_' : Tracked(c)'
    BY <1>a, <1>b, <1>1, TrackedGrows
  <2> QED
    BY <2>1 DEF StillWatched, Tracked
<1>2. CASE ManageQuiet
  BY <1>1, <1>2, ManageFrame
<1>3. ASSUME NEW c \in Conns, ManageGone(c)
      PROVE  StillWatched'
  BY <1>1, <1>3 DEF ManageGone
<1>4. ASSUME NEW c \in Conns, ManageErase(c) \/ ManageWash(c)
      PROVE  StillWatched'
  <2>1. erase_from_view(c) /\ UNCHANGED <<cowVars, pending_to_remove_>>
    BY <1>4 DEF ManageErase, ManageWash
  <2>2. timing_wheel_' = wheel_insert(c) \/ timing_wheel_' = timing_wheel_
    BY <2>1 DEF erase_from_view
  <2> QED
    BY <1>1, <2>1, <2>2, InsertWatches DEF erase_from_view
<1>5. CASE ManageCache
  BY <1>1, <1>5 DEF ManageCache
<1>6. CASE ManageDone
  <2>1. \A c \in front_conns_ : c \notin pending_to_remove_
    BY <1>6 DEF ManageDone, RoundProgress, front_conns_locked
  <2> QED
    BY <1>6, <2>1 DEF ManageDone, StillWatched, Watched, cowVars
<1> QED
  BY <1>2, <1>3, <1>4, <1>5, <1>6 DEF Manage, ManageQuiet

-----------------------------------------------------------------------------
(***************************************************************************)
(* All parts together.                                                     *)
(***************************************************************************)

\* The empty pool satisfies the invariant.
LEMMA PoolInit == Init => PoolInv
<1> SUFFICES ASSUME Init
             PROVE  PoolInv
  OBVIOUS
<1>1. /\ front_conns_ = {} /\ current_conns_cnt_ = 0 /\ cached_conns_ = <<>>
      /\ acc_pc = "idle" /\ mng_pc = "top" /\ mng_item = NoConn /\ aborted = "no"
      /\ op = [o \in Ops |-> NoOp]
  BY DEF Init
<1>2. Cardinality({}) = 0 /\ MaxConns \in Nat
  BY FS_EmptySet, ConstantsAssumption
<1>3. CountMatches /\ ServeLimit
  BY <1>1, <1>2 DEF CountMatches, ServeLimit
<1>4. SingleOwner
  BY <1>1 DEF SingleOwner, CachedSet
<1>5. NoStaleHandler
  BY <1>1, OpFree DEF NoStaleHandler
<1>6. StillWatched
  BY <1>1 DEF StillWatched
<1>7. CacheBounded
  BY <1>1, LimitNat DEF CacheBounded
<1>8. AdmittedFits /\ RoundProgress /\ RoomKept
  BY <1>1 DEF AdmittedFits, RoundProgress, RoomKept, front_conns_locked
<1> QED
  BY <1>3, <1>4, <1>5, <1>6, <1>7, <1>8 DEF PoolInv

\* Every step of every thread keeps the invariant.
LEMMA PoolStep ==
  ASSUME TypeOK, PoolInv, [Next]_vars
  PROVE  PoolInv'
<1>a. ContainerInv /\ NoStaleHandler /\ StillWatched /\ SingleOwner /\ RoundProgress
  BY DEF PoolInv, ContainerInv
<1>b. \A c \in front_conns_ : Tracked(c)
  BY <1>a DEF StillWatched, Tracked
<1>c. WheelSize \in Nat /\ WheelSize >= 2
  BY ConstantsAssumption
<1>d. ASSUME ContainerInv', NoStaleHandler', \A c \in front_conns_' : Tracked(c)'
      PROVE  PoolInv'
  BY <1>d DEF PoolInv, ContainerInv, StillWatched, Tracked
<1>e. ASSUME Bystander, UNCHANGED <<timing_wheel_, cowVars>>
      PROVE  \A c \in front_conns_' : Tracked(c)'
  BY <1>b, <1>c, <1>e, TrackedGrows DEF Bystander
<1>1. CASE Accept
  <2>1. NoStaleHandler'
    BY <1>a, <1>1, StaleAccept
  <2>2. CASE Bystander /\ UNCHANGED <<timing_wheel_, cowVars>>
    BY <1>a, <1>d, <1>e, <2>1, <2>2, ContainerBystander
  <2>3. ASSUME NEW c \in Conns \ front_conns_, Inserts(c)
        PROVE  PoolInv'
    <3>1. ContainerInv'
      BY <1>a, <2>3, ContainerInsert
    <3>2. /\ UNCHANGED <<cowVars, pending_to_remove_>>
          /\ timing_wheel_' = wheel_insert(c)
          /\ front_conns_' = front_conns_ \cup {c}
      BY <2>3 DEF Inserts
    <3>3. \A d \in front_conns_ : Tracked(d)'
      BY <1>b, <1>c, <3>2, InsertWatches, TrackedGrows
    <3>4. Tracked(c)'
      BY <3>2, InsertWatches DEF Tracked
    <3> QED
      BY <1>d, <2>1, <3>1, <3>2, <3>3, <3>4
  <2> QED
    BY <1>1, <1>a, <2>2, <2>3, AcceptFrame
<1>2. CASE Manage
  <2>1. StillWatched'
    BY <1>2, <1>a, WatchedManage
  <2>2. ContainerInv' /\ NoStaleHandler'
    BY <1>2, <1>a, ContainerManage, StaleOthers
  <2> QED
    BY <2>1, <2>2 DEF PoolInv, ContainerInv
<1>3. CASE CoWorker
  <2>1. Bystander
    BY <1>3, CoWorkerFrame
  <2>2. ContainerInv' /\ NoStaleHandler'
    BY <1>3, <1>a, <2>1, ContainerBystander, StaleOthers
  <2>3. \A c \in front_conns_' : Tracked(c)'
    BY <1>3, <1>a, <1>b, <2>1, TrackedCoWorker DEF Bystander
  <2> QED
    BY <1>d, <2>2, <2>3
<1>4. ASSUME NEW o \in Ops, Complete(o) \/ Handler(o)
      PROVE  PoolInv'
  <2>1. Bystander /\ UNCHANGED <<timing_wheel_, cowVars>>
    BY <1>4, HandlerFrame
  <2>2. ContainerInv' /\ NoStaleHandler'
    BY <1>4, <1>a, <2>1, ContainerBystander, StaleHandler
  <2> QED
    BY <1>d, <1>e, <2>1, <2>2
<1>5. CASE UNCHANGED vars
  <2>1. Bystander /\ UNCHANGED <<timing_wheel_, cowVars, op>>
    BY <1>5 DEF Bystander, vars, poolVars, viewVars, accVars, mngVars
  <2>2. ContainerInv' /\ NoStaleHandler'
    BY <1>a, <2>1, ContainerBystander DEF NoStaleHandler
  <2> QED
    BY <1>d, <1>e, <2>1, <2>2
<1> QED
  BY <1>1, <1>2, <1>3, <1>4, <1>5 DEF Next, Dead

\* In every reachable state, whatever the number of connections, operations
\* and buckets: the counter is exact, the limits are kept, no object has two
\* owners, no handler of an earlier life is left and no served connection
\* escapes the idle check.
THEOREM PoolSafe == Spec => []PoolInv
<1>1. Init => TypeOK /\ PoolInv
  BY TypeInit, PoolInit
<1>2. TypeOK /\ PoolInv /\ [Next]_vars => TypeOK' /\ PoolInv'
  BY TypeStep, PoolStep
<1> QED
  BY <1>1, <1>2, PTL DEF Spec

\* accept_handler's unlocked test of current_conns_cnt_ never lets more than
\* max_serve_conns_cnt_ connections in, and the assert on the counter at the
\* end of a removal round holds.
THEOREM CounterSafe == Spec => [](CountMatches /\ ServeLimit)
<1>1. PoolInv => CountMatches /\ ServeLimit
  BY DEF PoolInv
<1> QED
  BY <1>1, PoolSafe, PTL

\* However often an object is pushed for removal it is retired once: it is in
\* the view, in the cache or between them, never in two places, and the cache
\* stays within its limit.
THEOREM OwnerSafe == Spec => [](SingleOwner /\ CacheBounded)
<1>1. PoolInv => SingleOwner /\ CacheBounded
  BY DEF PoolInv
<1> QED
  BY <1>1, PoolSafe, PTL

\* An object gets a new socket only when no handler of its earlier life is
\* left, so no client is cut off by its predecessor's handler.
THEOREM RecycleSafe == Spec => []NoStaleHandler
<1>1. PoolInv => NoStaleHandler
  BY DEF PoolInv
<1> QED
  BY <1>1, PoolSafe, PTL

\* No rotation of the wheel, recycling or removal round lets a served
\* connection escape the idle check.
THEOREM WatchSafe == Spec => []StillWatched
<1>1. PoolInv => StillWatched
  BY DEF PoolInv
<1> QED
  BY <1>1, PoolSafe, PTL

-----------------------------------------------------------------------------
(***************************************************************************)
(* The pool implements Admission; what the threads may conclude from the   *)
(* state and the socket of an object                                       *)
(***************************************************************************)

(***************************************************************************)
(* The refinement                                                          *)
(***************************************************************************)

\* Taking the first element of a repetition-free sequence takes just that one.
LEMMA TailExact ==
  ASSUME NEW s \in Seq(Conns), s # <<>>, Distinct(s)
  PROVE  Members(Tail(s)) = Members(s) \ {Head(s)}
<1>1. Members(Tail(s)) \subseteq Members(s) \ {Head(s)}
  BY TailMembers
<1>2. /\ Len(s) \in Nat /\ DOMAIN s = 1..Len(s) /\ Head(s) = s[1]
      /\ DOMAIN Tail(s) = 1..(Len(s) - 1)
      /\ \A i \in 1..(Len(s) - 1) : Tail(s)[i] = s[i + 1]
  OBVIOUS
<1>3. ASSUME NEW i \in 1..Len(s), s[i] # Head(s)
      PROVE  s[i] \in Members(Tail(s))
  <2>1. i # 1
    BY <1>2, <1>3
  <2>2. i - 1 \in 1..(Len(s) - 1) /\ (i - 1) + 1 = i
    BY <1>2, <2>1
  <2>3. Tail(s)[i - 1] = s[i]
    BY <1>2, <2>2
  <2> QED
    BY <1>2, <2>2, <2>3 DEF Members
<1>4. Members(s) = {s[i] : i \in 1..Len(s)}
  BY <1>2 DEF Members
<1> QED
  BY <1>1, <1>3, <1>4

\* A repetition-free sequence has as many members as places.
LEMMA DistinctSize ==
  ASSUME NEW s \in Seq(Conns), Distinct(s)
  PROVE  Cardinality(Members(s)) = Len(s)
<1>1. Len(s) \in Nat /\ DOMAIN s = 1..Len(s)
  OBVIOUS
<1>2. IsFiniteSet(1..Len(s)) /\ Cardinality(1..Len(s)) = Len(s)
  BY <1>1, FS_Interval, SMTT(30)
<1>3. s \in Bijection(1..Len(s), Members(s))
  BY <1>1 DEF Distinct, Members, Bijection, Injection, Surjection, IsInjective
<1>4. ExistsBijection(1..Len(s), Members(s))
  BY <1>3 DEF ExistsBijection
<1> QED
  BY <1>2, <1>4, FS_Bijection

\* Admission counts as the pool does.
LEMMA SameSize == \A S : Abstract!Cardinality(S) = Cardinality(S)
BY Zenon DEF Abstract!Cardinality, Cardinality

\* While no object is being washed the spare ones are the cached ones.
LEMMA SpareIsCached ==
  ASSUME TypeOK, mng_pc # "cache"
  PROVE  spare_conns = CachedSet
BY DEF TypeOK, spare_conns

\* accept_handler's critical section is a step of Admission.
LEMMA InsertAdmits ==
  ASSUME TypeOK, PoolInv, Running, Accept, NEW c \in Conns \ front_conns_, Inserts(c)
  PROVE  Abstract!Admit(c)
<1> USE DEF mngVars
<1>1. mng_pc \notin {"loop", "cache"} /\ mng_pc' = mng_pc /\ mng_item' = mng_item
  BY DEF Inserts, front_conns_locked
<1>2. spare_conns = CachedSet /\ spare_conns' = CachedSet'
  BY <1>1, SpareIsCached DEF spare_conns, TypeOK
<1>3. Cardinality(front_conns_) < MaxConns
  BY DEF PoolInv, AdmittedFits, CountMatches, Inserts
<1>4. /\ cached_conns_ \in Seq(Conns) /\ Distinct(cached_conns_)
      /\ Members(cached_conns_) = CachedSet /\ Members(cached_conns_') = CachedSet'
  BY DEF TypeOK, PoolInv, SingleOwner, CachedSet, Members, Distinct
<1>5. CASE c \notin CachedSet /\ cached_conns_' = cached_conns_
  <2>1. cached_conns_ = <<>>
    <3>1. CASE AcceptTakeCached
      <4>1. CASE recyclable(Head(cached_conns_))
        <5>1. cached_conns_ # <<>> /\ cached_conns_' = Tail(cached_conns_)
          BY <3>1, <4>1, Zenon DEF AcceptTakeCached
        <5> QED
          BY <1>4, <1>5, <5>1
      <4>2. CASE ~recyclable(Head(cached_conns_))
        <5>1. acc_pc' = acc_pc
          BY <3>1, <4>2, Zenon DEF AcceptTakeCached, accVars
        <5> QED
          BY <5>1 DEF Inserts
      <4> QED
        BY <4>1, <4>2
    <3>2. ASSUME NEW d \in Conns, AcceptTakeNew(d)
          PROVE  cached_conns_ = <<>>
      BY <3>2 DEF AcceptTakeNew
    <3>3. CASE \/ AcceptFailed \/ AcceptPeerGone \/ AcceptRefuse \/ AcceptAdmit
               \/ AcceptStart \/ AcceptRead
      BY <3>3 DEF Inserts, AcceptFailed, AcceptPeerGone, AcceptRefuse, AcceptAdmit,
         AcceptStart, AcceptRead, vars, accVars
    <3> QED
      BY <3>1, <3>2, <3>3 DEF Accept
  <2>2. CachedSet = {}
    BY <2>1 DEF CachedSet
  <2>3. spare_conns = {} /\ spare_conns' = {}
    BY <1>2, <1>5, <2>2 DEF CachedSet
  <2> QED
    BY <1>3, <2>3, SameSize DEF Inserts, Abstract!Admit, Running
<1>6. CASE /\ cached_conns_ # <<>> /\ c = Head(cached_conns_)
           /\ cached_conns_' = Tail(cached_conns_)
  <2>1. CachedSet' = CachedSet \ {c} /\ c \in CachedSet
    BY <1>4, <1>6, TailExact, TailMembers
  <2> QED
    BY <1>2, <1>3, <2>1, SameSize DEF Inserts, Abstract!Admit, Running
<1> QED
  BY <1>5, <1>6 DEF Inserts

\* A turn of the removal loop that erases is a step of Admission.
LEMMA EraseRetires ==
  ASSUME TypeOK, PoolInv, Running, NEW c \in Conns, ManageErase(c) \/ ManageWash(c)
  PROVE  Abstract!Retire(c)
<1> USE DEF mngVars, accVars
<1>1. /\ mng_pc = "loop" /\ c \in front_conns_
      /\ front_conns_' = front_conns_ \ {c}
      /\ cached_conns_' = cached_conns_ /\ acc_pc' = acc_pc
  BY DEF ManageErase, ManageWash, erase_from_view
<1>2. spare_conns = CachedSet
  BY <1>1, SpareIsCached
<1>3. Cardinality(CachedSet) = Len(cached_conns_)
  <2>1. /\ cached_conns_ \in Seq(Conns) /\ Distinct(cached_conns_)
        /\ Members(cached_conns_) = CachedSet
    BY DEF TypeOK, PoolInv, SingleOwner, CachedSet, Members, Distinct
  <2> QED
    BY <2>1, DistinctSize
<1>4. CachedSet' = CachedSet
  BY <1>1 DEF CachedSet
<1>5. spare_conns' = IF Cardinality(spare_conns) < CacheLimit
                     THEN spare_conns \cup {c} ELSE spare_conns
  <2>1. CASE ManageErase(c)
    <3>1. ~cache_has_room /\ mng_item' = mng_item
      BY <2>1 DEF ManageErase
    <3>2. spare_conns' = spare_conns
      BY <1>4, <3>1 DEF spare_conns
    <3> QED
      BY <1>2, <1>3, <3>1, <3>2 DEF cache_has_room
  <2>2. CASE ManageWash(c)
    <3>1. cache_has_room /\ mng_item' = c /\ c # NoConn
      BY <2>2, ConstantsAssumption DEF ManageWash
    <3>2. spare_conns' = CachedSet \cup {c}
      BY <1>4, <3>1 DEF spare_conns
    <3> QED
      BY <1>2, <1>3, <3>1, <3>2 DEF cache_has_room
  <2> QED
    BY <2>1, <2>2
<1> QED
  BY <1>1, <1>5, SameSize DEF Abstract!Retire, Running

\* A step that moves no object is a stutter of Admission, or the end of the
\* acceptor or of the process.
LEMMA QuietStep ==
  ASSUME Running, UNCHANGED <<front_conns_, spare_conns>>,
         \/ aborted' = aborted /\ (acc_pc' = "stopped" => acc_pc = "stopped")
                              /\ (acc_pc = "stopped" => acc_pc' = "stopped")
         \/ aborted' = aborted /\ acc_pc # "stopped"
         \/ acc_pc' = acc_pc
  PROVE  [Abstract!Next]_(Abstract!vars)
BY DEF Running, Abstract!Next, Abstract!vars, Abstract!StopAccepting, Abstract!End

\* Every step of the pool is a step of Admission or changes nothing of it.
LEMMA StepImplements ==
  ASSUME TypeOK, PoolInv, [Next]_vars
  PROVE  [Abstract!Next]_(Abstract!vars)
<1>a. ASSUME Running, Bystander,
             \/ aborted' = aborted /\ acc_pc # "stopped"
             \/ acc_pc' = acc_pc
      PROVE  [Abstract!Next]_(Abstract!vars)
  <2>1. UNCHANGED <<front_conns_, spare_conns>>
    BY <1>a DEF Bystander, spare_conns, CachedSet
  <2> QED
    BY <1>a, <2>1, QuietStep
<1>1. CASE Running /\ Accept
  <2>1. CASE Bystander
    <3>1. \/ aborted' = aborted /\ acc_pc # "stopped"
          \/ acc_pc' = acc_pc
      <4>1. CASE AcceptTakeCached
        BY <4>1, Zenon DEF AcceptTakeCached, accVars
      <4>2. ASSUME NEW c \in Conns, AcceptTakeNew(c)
            PROVE  aborted' = aborted /\ acc_pc # "stopped"
        BY <4>2 DEF AcceptTakeNew
      <4>3. CASE \/ AcceptFailed \/ AcceptPeerGone \/ AcceptRefuse \/ AcceptAdmit
                 \/ AcceptStart \/ AcceptRead
        BY <4>3 DEF AcceptFailed, AcceptPeerGone, AcceptRefuse, AcceptAdmit,
           AcceptStart, AcceptRead, vars, accVars
      <4> QED
        BY <1>1, <4>1, <4>2, <4>3 DEF Accept
    <3> QED
      BY <1>1, <1>a, <2>1, <3>1
  <2>2. ASSUME NEW c \in Conns \ front_conns_, Inserts(c)
        PROVE  [Abstract!Next]_(Abstract!vars)
    BY <1>1, <2>2, InsertAdmits DEF Abstract!Next
  <2> QED
    BY <1>1, <2>1, <2>2, AcceptFrame DEF PoolInv
<1>2. CASE Running /\ Manage
  <2>1. CASE ManageQuiet
    <3>1. UNCHANGED <<poolVars, accVars, mng_item, aborted>>
      BY <2>1, ManageFrame
    <3>2. UNCHANGED <<front_conns_, spare_conns>>
      BY <3>1 DEF poolVars, viewVars, spare_conns, CachedSet
    <3> QED
      BY <1>2, <3>1, <3>2, QuietStep DEF accVars
  <2>2. ASSUME NEW c \in Conns, ManageGone(c)
        PROVE  [Abstract!Next]_(Abstract!vars)
    <3>1. UNCHANGED <<poolVars, accVars, mng_item, aborted>>
      BY <2>2 DEF ManageGone
    <3>2. UNCHANGED <<front_conns_, spare_conns>>
      BY <3>1 DEF poolVars, viewVars, spare_conns, CachedSet
    <3> QED
      BY <1>2, <3>1, <3>2, QuietStep DEF accVars
  <2>3. ASSUME NEW c \in Conns, ManageErase(c) \/ ManageWash(c)
        PROVE  [Abstract!Next]_(Abstract!vars)
    BY <1>2, <2>3, EraseRetires DEF Abstract!Next
  <2>4. CASE ManageCache
    <3>1. /\ front_conns_' = front_conns_ /\ acc_pc' = acc_pc
          /\ cached_conns_' = Append(cached_conns_, mng_item) /\ mng_item' = NoConn
          /\ mng_item \in Conns
      BY <2>4 DEF ManageCache, viewVars, accVars, TypeOK
    <3>2. /\ cached_conns_ \in Seq(Conns) /\ Distinct(cached_conns_)
          /\ mng_item \notin Members(cached_conns_)
      BY DEF TypeOK, PoolInv, SingleOwner, CachedSet, Members, Distinct
    <3>3. Members(cached_conns_') = Members(cached_conns_) \cup {mng_item}
      BY <3>1, <3>2, AppendMembers
    <3>4. spare_conns' = spare_conns
      BY <3>1, <3>3, ConstantsAssumption DEF spare_conns, CachedSet, Members
    <3> QED
      BY <1>2, <3>1, <3>4, QuietStep
  <2>5. CASE ManageDone
    <3>1. UNCHANGED <<front_conns_, cached_conns_, mng_item, acc_pc>>
      BY <2>5 DEF ManageDone, viewVars, accVars
    <3>2. spare_conns' = spare_conns
      BY <3>1 DEF spare_conns, CachedSet
    <3> QED
      BY <1>2, <3>1, <3>2, QuietStep
  <2> QED
    BY <1>2, <2>1, <2>2, <2>3, <2>4, <2>5 DEF Manage, ManageQuiet
<1>3. CASE Running /\ CoWorker
  BY <1>3, <1>a, CoWorkerFrame DEF accVars
<1>4. ASSUME Running, NEW o \in Ops, Complete(o) \/ Handler(o)
      PROVE  [Abstract!Next]_(Abstract!vars)
  BY <1>4, <1>a, HandlerFrame DEF accVars
<1>5. CASE UNCHANGED vars
  <2>1. UNCHANGED <<front_conns_, cached_conns_, mng_item, acc_pc, aborted>>
    BY <1>5 DEF vars, poolVars, viewVars, accVars, mngVars
  <2>2. UNCHANGED <<front_conns_, spare_conns, acc_pc, aborted>>
    BY <2>1 DEF spare_conns, CachedSet
  <2> QED
    BY <2>2 DEF Abstract!vars, Running
<1> QED
  BY <1>1, <1>2, <1>3, <1>4, <1>5 DEF Next, Dead

\* The empty pool is an initial state of Admission.
LEMMA InitImplements == Init => Abstract!Init
BY DEF Init, Abstract!Init, spare_conns, CachedSet, Running

\* Whatever accept_handler, manage_thread, the timing wheel and the handlers
\* do, the containers of http_server go through the steps of Admission only:
\* clients are admitted below the limit, on a cached object when there is one,
\* and retired objects go to the cache while it has room.
THEOREM PoolImplementsAdmission == Spec => ImplementsAdmission
<1>1. Init => Abstract!Init
  BY InitImplements
<1>2. TypeOK /\ PoolInv /\ [Next]_vars => [Abstract!Next]_(Abstract!vars)
  BY StepImplements
<1> QED
  BY <1>1, <1>2, TypeCorrect, PoolSafe, PTL DEF Spec, ImplementsAdmission, Abstract!Spec

-----------------------------------------------------------------------------
(***************************************************************************)
(* The objects.  ServedHasSocket and PendingExplained are nearly           *)
(* inductive; RecycledClean needs to know why an object of the cache may   *)
(* be conn_working for a while: start() was late, and then the operation   *)
(* it led to is about to run into the missing socket.                      *)
(***************************************************************************)

\* An object between start() and the return of accept_handler that is pending
\* has been washed meanwhile.
StartedExplained ==
  acc_pc = "read" /\ stats_[new_c] = "conn_pending" => new_c \in CachedSet \cup {mng_item}

\* c is cached, or washed and on its way into the cache.
Spare(c) == c \in CachedSet \/ (c = mng_item /\ Running)

\* The wash takes the socket, and only accept_handler gives a new one.
SpareClosed == \A c \in Conns : Spare(c) => ~p_sock_[c]

\* A spare object was set working by a late start(): accept_handler has not
\* returned, or it has left a read or write to be started.
SpareWorking ==
  \A c \in Conns :
    Spare(c) /\ stats_[c] = "conn_working"
      => new_c = c \/ \E o \in Ops : op[o].conn = c /\ op[o].pc \in IssuePoint

\* What the steps of all threads preserve about the objects.
ObjectInv ==
  /\ ServedHasSocket /\ PendingExplained
  /\ StartedExplained /\ SpareClosed /\ SpareWorking

\* Somebody has a shared_ptr to c.
Held(c) ==
  \/ c \in front_conns_ \/ c \in pending_to_remove_ \/ new_c = c \/ cow_conn = c
  \/ c \in CachedSet \/ \E o \in Ops : op[o].conn = c

\* The count tells whether there is a holder, and a cached object with the
\* count 1 has no other.
LEMMA HeldCount ==
  ASSUME TypeOK, NEW c \in Conns
  PROVE  /\ use_count(c) > 0 <=> Held(c)
         /\ c \in CachedSet /\ use_count(c) = 1
              => /\ c \notin front_conns_ /\ c \notin pending_to_remove_
                 /\ new_c # c /\ cow_conn # c
                 /\ \A o \in Ops : op[o].conn # c
<1> DEFINE P == {i \in DOMAIN cached_conns_ : cached_conns_[i] = c}
           O == {o \in Ops : op[o].conn = c}
<1>1. /\ IsFiniteSet(P) /\ Cardinality(P) \in Nat
      /\ IsFiniteSet(O) /\ Cardinality(O) \in Nat
  BY HolderSets
<1>2. use_count(c) = One(c \in front_conns_) + One(c \in pending_to_remove_)
                     + One(new_c = c) + One(cow_conn = c)
                     + Cardinality(P) + Cardinality(O)
  BY DEF use_count
<1>3. /\ One(c \in front_conns_) = IF c \in front_conns_ THEN 1 ELSE 0
      /\ One(c \in pending_to_remove_) = IF c \in pending_to_remove_ THEN 1 ELSE 0
      /\ One(new_c = c) = IF new_c = c THEN 1 ELSE 0
      /\ One(cow_conn = c) = IF cow_conn = c THEN 1 ELSE 0
  BY DEF One
<1>4. c \in CachedSet <=> P # {}
  BY DEF CachedSet
<1>5. (\E o \in Ops : op[o].conn = c) <=> O # {}
  OBVIOUS
<1>6. (Cardinality(P) = 0 <=> P = {}) /\ (Cardinality(O) = 0 <=> O = {})
  BY <1>1, FS_EmptySet
<1> HIDE DEF P, O
<1>7. use_count(c) > 0 <=> Held(c)
  BY <1>1, <1>2, <1>3, <1>4, <1>5, <1>6 DEF Held
<1>8. c \in CachedSet /\ use_count(c) = 1
        => /\ c \notin front_conns_ /\ c \notin pending_to_remove_
           /\ new_c # c /\ cow_conn # c
           /\ O = {}
  BY <1>1, <1>2, <1>3, <1>4, <1>6
<1> QED
  BY <1>5, <1>7, <1>8

\* PendingExplained in terms of the holders.
HeldExplained ==
  \A c \in Conns :
    stats_[c] = "conn_pending" /\ Held(c) => c \in CachedSet \cup {mng_item, new_c}

\* The two are the same in every state of the right types, and so in the next.
LEMMA PendingHeld ==
  /\ TypeOK => (PendingExplained <=> HeldExplained)
  /\ (TypeOK => (PendingExplained <=> HeldExplained))'
<1>1. TypeOK => (PendingExplained <=> HeldExplained)
  BY HeldCount DEF PendingExplained, HeldExplained
<1> QED
  BY <1>1, PTL

\* A step that gives nobody a new object or socket, sets no state but
\* conn_error and loses no operation that is about to find its socket gone.
Harmless ==
  /\ UNCHANGED <<cached_conns_, mng_item, p_sock_, new_c>>
  /\ front_conns_' \subseteq front_conns_
  /\ acc_pc' = "read" => acc_pc = "read"
  /\ \A c \in Conns : stats_'[c] = stats_[c] \/ stats_'[c] = "conn_error"
  /\ \A c \in Conns : Held(c)' => Held(c)
  /\ \A o \in Ops :
       op[o].pc \in IssuePoint /\ ~p_sock_[op[o].conn]
         => op'[o].pc \in IssuePoint /\ op'[o].conn = op[o].conn

\* Such a step keeps the invariant.
LEMMA ObjectHarmless ==
  ASSUME TypeOK, TypeOK', ObjectInv, Running, Harmless
  PROVE  ObjectInv'
<1>1. /\ front_conns_ \subseteq Conns
      /\ CachedSet' = CachedSet
      /\ new_c' = new_c /\ mng_item' = mng_item /\ p_sock_' = p_sock_
  BY DEF TypeOK, Harmless, CachedSet
<1>2. ServedHasSocket'
  BY <1>1 DEF ObjectInv, ServedHasSocket, Harmless
<1>3. PendingExplained'
  <2>1. HeldExplained
    BY PendingHeld DEF ObjectInv
  <2>2. \A c \in Conns : stats_'[c] = "conn_pending" => stats_[c] = "conn_pending"
    BY DEF Harmless
  <2>3. HeldExplained'
    BY <1>1, <2>1, <2>2 DEF Harmless, HeldExplained
  <2> QED
    BY <2>3, PendingHeld
<1>4. StartedExplained'
  <2>1. SUFFICES ASSUME acc_pc' = "read", stats_'[new_c'] = "conn_pending"
                 PROVE  new_c' \in CachedSet' \cup {mng_item'}
    BY DEF StartedExplained
  <2>2. acc_pc = "read" /\ new_c \in Conns
    BY <2>1 DEF Harmless, TypeOK
  <2>3. stats_[new_c] = "conn_pending"
    BY <1>1, <2>1, <2>2 DEF Harmless
  <2> QED
    BY <1>1, <2>2, <2>3 DEF ObjectInv, StartedExplained
<1>5. \A c \in Conns : Spare(c)' => Spare(c)
  BY <1>1 DEF Spare
<1>6. SpareClosed'
  BY <1>1, <1>5 DEF ObjectInv, SpareClosed
<1>7. SpareWorking'
  <2>1. SUFFICES ASSUME NEW c \in Conns, Spare(c)', stats_'[c] = "conn_working", new_c' # c
                 PROVE  \E o \in Ops : op'[o].conn = c /\ op'[o].pc \in IssuePoint
    BY DEF SpareWorking
  <2>2. Spare(c) /\ stats_[c] = "conn_working" /\ new_c # c
    BY <1>1, <1>5, <2>1 DEF Harmless
  <2>3. PICK o \in Ops : op[o].conn = c /\ op[o].pc \in IssuePoint
    BY <2>2 DEF ObjectInv, SpareWorking
  <2>4. ~p_sock_[c]
    BY <2>2 DEF ObjectInv, SpareClosed
  <2> QED
    BY <2>3, <2>4 DEF Harmless
<1> QED
  BY <1>2, <1>3, <1>4, <1>6, <1>7 DEF ObjectInv

\* One operation moves on, ends, or splits into a read and a write: nothing is
\* said of operations of other objects, and those at an issue point stay.
OpStep(o) ==
  \A p \in Ops :
    \/ op'[p] = op[p]
    \/ /\ op[p].pc \notin IssuePoint
       /\ op'[p].conn \in {op[p].conn, op[o].conn, NoConn}

\* What the handlers do to the operations is of that kind, except that Issue
\* leaves its issue point, with the socket in place.
LEMMA HandlerOps ==
  ASSUME TypeOK, NEW o \in Ops, Complete(o) \/ Handler(o)
  PROVE  /\ op[o].pc # "free"
         /\ OpStep(o) \/ (/\ p_sock_[op[o].conn]
                          /\ \A p \in Ops \ {o} : op'[p] = op[p]
                          /\ op'[o].conn = op[o].conn)
<1>a. op \in [Ops -> OpRecord]
  BY DEF TypeOK
<1>b. \A p \in Ops : \A pc : [op[p] EXCEPT !.pc = pc].conn = op[p].conn
  BY <1>a DEF OpRecord
<1>c. \A c, kind, pc : StartedOp(c, kind, pc).conn = c
  BY DEF StartedOp
<1>d. NoOp.conn = NoConn
  BY DEF NoOp
<1>1. ASSUME NEW pc, Goto(o, pc), op[o].pc \notin IssuePoint
      PROVE  OpStep(o)
  BY <1>a, <1>b, <1>1 DEF Goto, OpStep
<1>2. ASSUME Return(o), op[o].pc \notin IssuePoint
      PROVE  OpStep(o)
  BY <1>a, <1>d, <1>2 DEF Return, OpStep
<1>3. ASSUME WriteAndRead(o), op[o].pc \notin IssuePoint
      PROVE  OpStep(o)
  <2>1. PICK w \in Ops :
          /\ op[w].pc = "free"
          /\ op' = [op EXCEPT ![o].pc = "async_read",
                              ![w] = StartedOp(op[o].conn, "write", "async_write")]
    BY <1>3 DEF WriteAndRead
  <2>2. "free" \notin IssuePoint
    BY DEF IssuePoint
  <2>3. op'[w].conn = op[o].conn
    BY <1>a, <1>c, <2>1
  <2>4. w # o => op'[o] = [op[o] EXCEPT !.pc = "async_read"]
    BY <1>a, <2>1
  <2>5. \A p \in Ops \ {o, w} : op'[p] = op[p]
    BY <1>a, <2>1
  <2>6. w # o => op'[o].conn = op[o].conn
    <3>1. [op[o] EXCEPT !.pc = "async_read"].conn = op[o].conn
      BY <1>b
    <3>2. QED BY <3>1, <2>4, Zenon
  <2> QED
    BY <1>3, <2>1, <2>2, <2>3, <2>5, <2>6 DEF OpStep
<1>4. ASSUME op' = op
      PROVE  OpStep(o)
  BY <1>4 DEF OpStep
<1>e. /\ "free" \notin Completed \cup InHandler \cup {"wait"}
      /\ Completed \cap IssuePoint = {} /\ ErrorPoint \cap IssuePoint = {}
      /\ "wait" \notin IssuePoint
  BY DEF Completed, InHandler, IssuePoint, ErrorPoint
<1>5. CASE Complete(o)
  BY <1>1, <1>5, <1>e DEF Complete
<1>6. CASE ReadOk(o)
  <2>1. op[o].pc \in Completed
    BY <1>6 DEF ReadOk, HandlerAt, Completed
  <2> QED
    BY <1>1, <1>2, <1>3, <1>6, <1>e, <2>1 DEF ReadOk
<1>7. CASE ReadAborted(o)
  <2>1. op[o].pc \in Completed
    BY <1>7 DEF ReadAborted, HandlerAt, Completed
  <2> QED
    BY <1>1, <1>2, <1>3, <1>7, <1>e, <2>1 DEF ReadAborted
<1>8. CASE WriteOk(o) \/ WriteAborted(o)
  <2>1. op[o].pc \in Completed
    BY <1>8 DEF WriteOk, WriteAborted, HandlerAt, Completed
  <2> QED
    BY <1>1, <1>2, <1>8, <1>e, <2>1 DEF WriteOk, WriteAborted
<1>9. CASE Issue(o)
  <2>1. op[o].pc # "free"
    BY <1>9 DEF Issue, IssuePoint
  <2>2. CASE ~p_sock_[op[o].conn]
    BY <1>4, <1>9, <2>1, <2>2 DEF Issue
  <2>3. CASE p_sock_[op[o].conn]
    <3>1. \E kind : op' = [op EXCEPT ![o] = StartedOp(op[o].conn, kind, "wait")]
      BY <1>9, <2>3 DEF Issue
    <3> QED
      BY <1>a, <1>c, <2>1, <2>3, <3>1
  <2> QED
    BY <2>2, <2>3
<1>10. CASE HandlerError(o)
  <2> DEFINE ended == socket_ended(op[o].conn, "operation_aborted")
  <2>1. op[o].pc = "error"
    BY <1>10 DEF HandlerError, HandlerAt
  <2>2. op' = op \/ op' = [ended EXCEPT ![o].pc = "set_stats"]
    BY <1>10, Zenon DEF HandlerError
  <2>3. /\ ended \in [Ops -> OpRecord]
        /\ \A p \in Ops : ended[p].conn = op[p].conn
    BY <1>a, SocketEnded DEF Completed
  <2>4. \A p \in Ops : ended[p] = op[p] \/ op[p].pc = "wait"
    BY DEF socket_ended
  <2> HIDE DEF ended
  <2>5. [ended[o] EXCEPT !.pc = "set_stats"].conn = ended[o].conn
    BY <2>3 DEF OpRecord
  <2>6. CASE op' = [ended EXCEPT ![o].pc = "set_stats"]
    BY <1>e, <2>1, <2>3, <2>4, <2>5, <2>6 DEF OpStep, Completed
  <2> QED
    BY <1>4, <2>1, <2>2, <2>6
<1>11. CASE \/ NotifyConnErrorStats(o) \/ NotifyConnErrorPush(o)
            \/ NotifyConnErrorNotify(o)
  <2>1. op[o].pc \in ErrorPoint
    BY <1>11 DEF NotifyConnErrorStats, NotifyConnErrorPush, NotifyConnErrorNotify,
       ErrorPoint
  <2> QED
    BY <1>1, <1>2, <1>11, <1>e, <2>1 DEF NotifyConnErrorStats, NotifyConnErrorPush,
       NotifyConnErrorNotify, InHandler
<1> QED
  BY <1>5, <1>6, <1>7, <1>8, <1>9, <1>10, <1>11 DEF Handler

\* Completions and their handlers are harmless to the objects.
LEMMA HandlerHarmless ==
  ASSUME TypeOK, NEW o \in Ops, Complete(o) \/ Handler(o)
  PROVE  Harmless
<1> USE DEF poolVars, viewVars, objVars, accVars, mngVars, cowVars
<1>1. /\ UNCHANGED <<front_conns_, cached_conns_, mng_item, accVars, cowVars>>
  BY HandlerFrame DEF Bystander
<1>2. /\ UNCHANGED p_sock_
      /\ \A c \in Conns : stats_'[c] = stats_[c] \/ stats_'[c] = "conn_error"
      /\ pending_to_remove_' \subseteq pending_to_remove_ \cup {op[o].conn}
  <2>1. CASE \/ Complete(o) \/ ReadOk(o) \/ ReadAborted(o) \/ WriteOk(o)
             \/ WriteAborted(o) \/ Issue(o) \/ HandlerError(o)
             \/ NotifyConnErrorNotify(o)
    <3>1. UNCHANGED <<p_sock_, stats_, pending_to_remove_>>
      BY <2>1 DEF Complete, ReadOk, ReadAborted, WriteOk, WriteAborted, Issue,
         HandlerError, NotifyConnErrorNotify
    <3> QED
      BY <3>1
  <2>2. CASE NotifyConnErrorStats(o)
    BY <2>2 DEF NotifyConnErrorStats, TypeOK
  <2>3. CASE NotifyConnErrorPush(o)
    BY <2>3 DEF NotifyConnErrorPush
  <2> QED
    BY <2>1, <2>2, <2>3 DEF Handler
<1>3. /\ op[o].pc # "free"
      /\ OpStep(o) \/ (/\ p_sock_[op[o].conn]
                       /\ \A p \in Ops \ {o} : op'[p] = op[p]
                       /\ op'[o].conn = op[o].conn)
  BY HandlerOps
<1>4. \A p \in Ops : op'[p].conn \in {op[p].conn, op[o].conn, NoConn}
  BY <1>3 DEF OpStep
<1>5. ASSUME NEW c \in Conns, Held(c)'
      PROVE  Held(c)
  <2>1. CachedSet' = CachedSet /\ c # NoConn
    BY <1>1, ConstantsAssumption DEF CachedSet
  <2> QED
    BY <1>1, <1>2, <1>4, <1>5, <2>1 DEF Held
<1>6. ASSUME NEW p \in Ops, op[p].pc \in IssuePoint, ~p_sock_[op[p].conn]
      PROVE  op'[p] = op[p]
  BY <1>3, <1>6 DEF OpStep
<1> QED
  BY <1>1, <1>2, <1>5, <1>6 DEF Harmless

\* A step that leaves the operations alone, or ends those that wait, is
\* harmless when it hands nobody a new object.
LEMMA SocketHarmless ==
  ASSUME TypeOK, op' = op \/ \E c \in Conns, r \in Completed : op' = socket_ended(c, r),
         UNCHANGED <<cached_conns_, mng_item, p_sock_, new_c>>,
         front_conns_' \subseteq front_conns_,
         acc_pc' = "read" => acc_pc = "read",
         \A c \in Conns : stats_'[c] = stats_[c] \/ stats_'[c] = "conn_error",
         \A c \in Conns : c \in pending_to_remove_' \/ cow_conn' = c => Held(c)
  PROVE  Harmless
<1>1. /\ \A o \in Ops : op'[o].conn = op[o].conn
      /\ \A o \in Ops : op[o].pc \in IssuePoint => op'[o] = op[o]
  <2>1. ASSUME NEW c \in Conns, NEW r \in Completed, op' = socket_ended(c, r)
        PROVE  /\ \A o \in Ops : op'[o].conn = op[o].conn
               /\ \A o \in Ops : op[o].pc \in IssuePoint => op'[o] = op[o]
    <3>1. \A o \in Ops : op'[o].conn = op[o].conn
      BY <2>1, SocketEnded DEF TypeOK
    <3>2. \A o \in Ops : op[o].pc # "wait" => op'[o] = op[o]
      BY <2>1 DEF socket_ended
    <3> QED
      BY <3>1, <3>2 DEF IssuePoint
  <2> QED
    BY <2>1
<1>2. CachedSet' = CachedSet
  BY DEF CachedSet
<1>3. \A c \in Conns : Held(c)' => Held(c)
  BY <1>1, <1>2 DEF Held
<1> QED
  BY <1>1, <1>3 DEF Harmless

\* The timing wheel looks at objects somebody holds, and is harmless.
LEMMA CoWorkerHarmless ==
  ASSUME TypeOK, CoWorker
  PROVE  Harmless
<1> USE DEF poolVars, viewVars, objVars, accVars, mngVars, cowVars
<1>a. NoConn \notin Conns
  BY ConstantsAssumption
<1>b. \A c \in Conns : c \in pending_to_remove_ \/ cow_conn = c => Held(c)
  BY DEF Held
<1>1. CASE WheelBegin \/ WheelNotify \/ WheelPushBack
  BY <1>1, <1>b, SocketHarmless DEF WheelBegin, WheelNotify, WheelPushBack
<1>2. ASSUME NEW c \in Conns, WheelItem(c)
      PROVE  Harmless
  <2>1. cow_conn' = cow_conn \/ (cow_conn' = c /\ use_count(c) > 0)
    BY <1>2 DEF WheelItem
  <2>2. \A d \in Conns : d \in pending_to_remove_' \/ cow_conn' = d => Held(d)
    BY <1>2, <1>b, <2>1, HeldCount DEF WheelItem
  <2> QED
    BY <1>2, <2>2, SocketHarmless DEF WheelItem
<1>3. CASE WheelCached
  BY <1>3, <1>a, <1>b, SocketHarmless DEF WheelCached
<1>4. CASE WheelShutdown
  <2>1. cow_conn \in Conns
    BY <1>4 DEF WheelShutdown, TypeOK
  <2>2. op' = op \/ \E c \in Conns, r \in Completed : op' = socket_ended(c, r)
    BY <1>4, <2>1 DEF WheelShutdown, Completed
  <2> QED
    BY <1>4, <1>b, <2>2, SocketHarmless DEF WheelShutdown
<1>5. CASE WheelSetStats
  <2>1. \A c \in Conns : stats_'[c] = stats_[c] \/ stats_'[c] = "conn_error"
    BY <1>5 DEF WheelSetStats, TypeOK
  <2> QED
    BY <1>5, <1>b, <2>1, SocketHarmless DEF WheelSetStats
<1>6. CASE WheelPush
  BY <1>6, <1>a, <1>b, SocketHarmless DEF WheelPush
<1> QED
  BY <1>1, <1>2, <1>3, <1>4, <1>5, <1>6 DEF CoWorker

\* The wash puts an object, closed and pending, on its way into the cache.
LEMMA ObjectWash ==
  ASSUME TypeOK, TypeOK', PoolInv, ObjectInv, Running, NEW c \in Conns, ManageWash(c)
  PROVE  ObjectInv'
<1> USE DEF accVars, cowVars, objVars
<1>1. /\ mng_pc = "loop" /\ c \in front_conns_
      /\ front_conns_' = front_conns_ \ {c} /\ mng_item' = c
      /\ UNCHANGED <<cached_conns_, pending_to_remove_, acc_pc, new_c, cow_conn>>
  BY DEF ManageWash, erase_from_view
<1>2. /\ mng_item = NoConn /\ NoConn \notin Conns
      /\ CachedSet' = CachedSet /\ c \notin CachedSet
      /\ front_conns_ \subseteq Conns
  BY <1>1, ConstantsAssumption DEF TypeOK, PoolInv, SingleOwner, CachedSet
<1>3. /\ \A o \in Ops : op'[o].conn = op[o].conn
      /\ \A o \in Ops : op[o].pc \in IssuePoint => op'[o] = op[o]
  <2>1. op' = op \/ op' = socket_ended(c, "operation_aborted")
    BY Zenon DEF ManageWash
  <2>2. CASE op' = socket_ended(c, "operation_aborted")
    <3>1. \A o \in Ops : op'[o].conn = op[o].conn
      BY <2>2, SocketEnded DEF TypeOK, Completed
    <3>2. \A o \in Ops : op[o].pc # "wait" => op'[o] = op[o]
      BY <2>2 DEF socket_ended
    <3> QED
      BY <3>1, <3>2 DEF IssuePoint
  <2> QED
    BY <2>1, <2>2
<1>4. \A d \in Conns : Held(d)' => Held(d)
  BY <1>1, <1>2, <1>3 DEF Held
<1>5. HeldExplained
  BY PendingHeld DEF ObjectInv
<1>6. CASE stats_[c] = "conn_working"
  <2>1. UNCHANGED <<stats_, p_sock_, op>> /\ ~Running'
    BY <1>6 DEF ManageWash, Running
  <2>2. \A d \in Conns : Spare(d)' => Spare(d)
    BY <1>2, <2>1 DEF Spare
  <2>3. ServedHasSocket'
    BY <1>1, <2>1 DEF ObjectInv, ServedHasSocket
  <2>4. HeldExplained'
    BY <1>1, <1>2, <1>4, <1>5, <1>6, <2>1 DEF HeldExplained
  <2>5. StartedExplained'
    <3>1. acc_pc = "read" => new_c \in Conns
      BY DEF TypeOK
    <3> QED
      BY <1>1, <1>2, <1>6, <2>1, <3>1 DEF ObjectInv, StartedExplained
  <2>6. SpareClosed' /\ SpareWorking'
    BY <1>1, <2>1, <2>2 DEF ObjectInv, SpareClosed, SpareWorking
  <2> QED
    BY <2>3, <2>4, <2>5, <2>6, PendingHeld DEF ObjectInv
<1>7. CASE stats_[c] # "conn_working"
  <2>1. /\ stats_' = [stats_ EXCEPT ![c] = "conn_pending"]
        /\ p_sock_' = [p_sock_ EXCEPT ![c] = FALSE]
    BY <1>7 DEF ManageWash, with_socket
  <2>2. /\ stats_'[c] = "conn_pending" /\ ~p_sock_'[c]
        /\ \A d \in Conns \ {c} : stats_'[d] = stats_[d] /\ p_sock_'[d] = p_sock_[d]
    BY <2>1 DEF TypeOK
  <2>3. ServedHasSocket'
    BY <1>1, <1>2, <2>2 DEF ObjectInv, ServedHasSocket
  <2>4. HeldExplained'
    BY <1>1, <1>2, <1>4, <1>5, <2>2 DEF HeldExplained
  <2>5. StartedExplained'
    <3>1. acc_pc = "read" => new_c \in Conns
      BY DEF TypeOK
    <3> QED
      BY <1>1, <1>2, <2>2, <3>1 DEF ObjectInv, StartedExplained
  <2>6. \A d \in Conns : Spare(d)' => Spare(d) \/ d = c
    BY <1>1, <1>2 DEF Spare
  <2>7. SpareClosed'
    BY <2>2, <2>6 DEF ObjectInv, SpareClosed
  <2>8. SpareWorking'
    BY <1>1, <1>3, <2>2, <2>6 DEF ObjectInv, SpareWorking
  <2> QED
    BY <2>3, <2>4, <2>5, <2>7, <2>8, PendingHeld DEF ObjectInv
<1> QED
  BY <1>6, <1>7

\* manage_thread keeps the invariant.
LEMMA ObjectManage ==
  ASSUME TypeOK, TypeOK', PoolInv, ObjectInv, Running, Manage
  PROVE  ObjectInv'
<1> USE DEF poolVars, viewVars, objVars, accVars, mngVars, cowVars
<1>b. \A c \in Conns : c \in pending_to_remove_ \/ cow_conn = c => Held(c)
  BY DEF Held
<1>1. CASE ManageQuiet
  <2>1. Harmless
    BY <1>1, <1>b, SocketHarmless DEF ManageQuiet, ManageWait, ManageWake,
       ManageTimeout, ManageShow, ManageLock
  <2> QED
    BY <2>1, ObjectHarmless
<1>2. ASSUME NEW c \in Conns, ManageGone(c) \/ ManageErase(c)
      PROVE  ObjectInv'
  <2>1. Harmless
    BY <1>2, <1>b, SocketHarmless DEF ManageGone, ManageErase, erase_from_view
  <2> QED
    BY <2>1, ObjectHarmless
<1>3. ASSUME NEW c \in Conns, ManageWash(c)
      PROVE  ObjectInv'
  BY <1>3, ObjectWash
<1>4. CASE ManageCache
  <2>1. /\ cached_conns_' = Append(cached_conns_, mng_item) /\ mng_item' = NoConn
        /\ UNCHANGED <<front_conns_, pending_to_remove_, stats_, p_sock_, op, acc_pc,
                       new_c, cow_conn, aborted>>
        /\ mng_item \in Conns /\ NoConn \notin Conns
    BY <1>4, ConstantsAssumption DEF ManageCache, TypeOK
  <2>2. CachedSet' = CachedSet \cup {mng_item}
    <3>1. /\ cached_conns_ \in Seq(Conns) /\ Distinct(cached_conns_)
          /\ mng_item \notin Members(cached_conns_)
      BY DEF TypeOK, PoolInv, SingleOwner, CachedSet, Members, Distinct
    <3> QED
      BY <2>1, <3>1, AppendMembers DEF CachedSet, Members
  <2>3. ServedHasSocket'
    BY <2>1 DEF ObjectInv, ServedHasSocket
  <2>4. HeldExplained'
    <3>1. HeldExplained
      BY PendingHeld DEF ObjectInv
    <3>2. ASSUME NEW c \in Conns, stats_'[c] = "conn_pending", Held(c)'
          PROVE  c \in CachedSet' \cup {mng_item', new_c'}
      <4>1. Held(c) \/ c = mng_item
        BY <2>1, <2>2, <3>2 DEF Held
      <4> QED
        BY <2>1, <2>2, <3>1, <3>2, <4>1 DEF HeldExplained
    <3> QED
      BY <3>2 DEF HeldExplained
  <2>5. StartedExplained'
    BY <2>1, <2>2 DEF ObjectInv, StartedExplained
  <2>6. \A c \in Conns : Spare(c)' => Spare(c)
    BY <2>1, <2>2 DEF Spare
  <2>7. SpareClosed' /\ SpareWorking'
    BY <2>1, <2>6 DEF ObjectInv, SpareClosed, SpareWorking
  <2> QED
    BY <2>3, <2>4, <2>5, <2>7, PendingHeld DEF ObjectInv
<1>5. CASE ManageDone
  <2>1. Harmless
    BY <1>5, <1>b, SocketHarmless DEF ManageDone
  <2> QED
    BY <2>1, ObjectHarmless
<1> QED
  BY <1>1, <1>2, <1>3, <1>4, <1>5 DEF Manage, ManageQuiet

\* accept_handler gives an object that nobody else holds a new socket.
LEMMA ObjectTake ==
  ASSUME TypeOK, TypeOK', PoolInv, ObjectInv, Running, acc_pc = "take",
         NEW c \in Conns, front_insert(c), ~front_conns_locked,
         CachedSet' = CachedSet \ {c},
         UNCHANGED <<pending_to_remove_, mngVars, cowVars, aborted>>,
         \A o \in Ops : op'[o].conn = op[o].conn /\ op'[o].pc = op[o].pc,
         \A d \in Conns \ {c} : stats_'[d] = stats_[d]
  PROVE  ObjectInv'
<1> USE DEF mngVars, cowVars
<1>1. /\ new_c' = c /\ acc_pc' = "start" /\ p_sock_' = [p_sock_ EXCEPT ![c] = TRUE]
      /\ front_conns_' = front_conns_ \cup {c}
  BY DEF front_insert, with_socket
<1>2. /\ new_c = NoConn /\ mng_item = NoConn /\ NoConn \notin Conns
      /\ front_conns_ \subseteq Conns /\ p_sock_ \in [Conns -> BOOLEAN]
  BY ConstantsAssumption DEF TypeOK, front_conns_locked
<1>3. p_sock_'[c] /\ \A d \in Conns \ {c} : p_sock_'[d] = p_sock_[d]
  BY <1>1, <1>2
<1>4. ServedHasSocket'
  BY <1>1, <1>2, <1>3 DEF ObjectInv, ServedHasSocket
<1>5. HeldExplained'
  <2>1. HeldExplained
    BY PendingHeld DEF ObjectInv
  <2>2. \A d \in Conns \ {c} : Held(d)' => Held(d)
    BY <1>1, <1>2 DEF Held
  <2> QED
    BY <1>1, <1>2, <2>1, <2>2 DEF HeldExplained
<1>6. StartedExplained'
  BY <1>1 DEF StartedExplained
<1>7. \A d \in Conns : Spare(d)' => Spare(d) /\ d # c
  BY <1>2 DEF Spare
<1>8. SpareClosed'
  BY <1>3, <1>7 DEF ObjectInv, SpareClosed
<1>9. SpareWorking'
  BY <1>2, <1>7 DEF ObjectInv, SpareWorking
<1> QED
  BY <1>4, <1>5, <1>6, <1>8, <1>9, PendingHeld DEF ObjectInv

\* accept_handler keeps the invariant.
LEMMA ObjectAccept ==
  ASSUME TypeOK, TypeOK', PoolInv, ObjectInv, Running, Accept
  PROVE  ObjectInv'
<1> USE DEF poolVars, viewVars, objVars, accVars, mngVars, cowVars
<1>a. NoConn \notin Conns /\ op \in [Ops -> OpRecord]
  BY ConstantsAssumption DEF TypeOK
<1>b. \A c \in Conns : c \in pending_to_remove_ \/ cow_conn = c => Held(c)
  BY DEF Held
<1>1. CASE AcceptFailed \/ AcceptPeerGone \/ AcceptRefuse \/ AcceptAdmit
  <2>1. Harmless
    BY <1>1, <1>b, SocketHarmless DEF AcceptFailed, AcceptPeerGone, AcceptRefuse,
       AcceptAdmit, vars
  <2> QED
    BY <2>1, ObjectHarmless
<1>2. CASE AcceptTakeCached
  <2> DEFINE h == Head(cached_conns_)
  <2>1. /\ acc_pc = "take" /\ ~front_conns_locked /\ cached_conns_ # <<>>
        /\ UNCHANGED <<pending_to_remove_, stats_, mngVars, cowVars>>
    BY <1>2 DEF AcceptTakeCached
  <2>2. CASE ~recyclable(h)
    <3>1. UNCHANGED <<viewVars, cached_conns_, timing_wheel_, p_sock_, op, accVars>>
      BY <1>2, <2>2, Zenon DEF AcceptTakeCached
    <3>2. Harmless
      BY <1>b, <2>1, <3>1, SocketHarmless
    <3> QED
      BY <3>2, ObjectHarmless
  <2>3. CASE recyclable(h)
    <3>1. /\ front_insert(h) /\ cached_conns_' = Tail(cached_conns_)
          /\ op' = conn_reset_network(h) /\ UNCHANGED aborted
      BY <1>2, <2>3, Zenon DEF AcceptTakeCached
    <3>2. /\ cached_conns_ \in Seq(Conns) /\ Distinct(cached_conns_)
          /\ Members(cached_conns_) = CachedSet /\ Members(cached_conns_') = CachedSet'
      BY DEF TypeOK, PoolInv, SingleOwner, CachedSet, Members, Distinct
    <3>3. h \in Conns /\ CachedSet' = CachedSet \ {h}
      BY <2>1, <3>1, <3>2, TailExact
    <3>4. \A o \in Ops : op'[o].conn = op[o].conn /\ op'[o].pc = op[o].pc
      <4>1. \A o \in Ops : /\ [op[o] EXCEPT !.old = TRUE].conn = op[o].conn
                           /\ [op[o] EXCEPT !.old = TRUE].pc = op[o].pc
        BY <1>a DEF OpRecord
      <4> QED
        BY <3>1, <4>1 DEF conn_reset_network
    <3> QED
      BY <2>1, <3>1, <3>3, <3>4, ObjectTake
  <2> QED
    BY <2>2, <2>3
<1>3. ASSUME NEW c \in Conns, AcceptTakeNew(c)
      PROVE  ObjectInv'
  <2>1. c \notin CachedSet
    BY <1>3, CountZero DEF AcceptTakeNew, Unreferenced
  <2>2. CachedSet' = CachedSet \ {c}
    BY <1>3, <2>1 DEF AcceptTakeNew, CachedSet
  <2>3. /\ acc_pc = "take" /\ front_insert(c) /\ ~front_conns_locked
        /\ UNCHANGED <<pending_to_remove_, mngVars, cowVars, aborted, op>>
        /\ \A d \in Conns \ {c} : stats_'[d] = stats_[d]
    BY <1>3 DEF AcceptTakeNew, TypeOK
  <2> QED
    BY <2>2, <2>3, ObjectTake
<1>4. CASE AcceptStart
  <2>1. /\ acc_pc = "start" /\ acc_pc' = "read" /\ new_c \in Conns
        /\ stats_' = [stats_ EXCEPT ![new_c] = "conn_working"]
        /\ UNCHANGED <<poolVars, p_sock_, op, new_c, mngVars, cowVars, aborted>>
    BY <1>4 DEF AcceptStart, TypeOK
  <2>2. /\ stats_'[new_c] = "conn_working"
        /\ \A d \in Conns \ {new_c} : stats_'[d] = stats_[d]
    BY <2>1 DEF TypeOK
  <2>3. CachedSet' = CachedSet /\ \A d \in Conns : Held(d)' => Held(d)
    BY <2>1 DEF CachedSet, Held
  <2>4. ServedHasSocket'
    BY <2>1 DEF ObjectInv, ServedHasSocket
  <2>5. HeldExplained'
    <3>1. HeldExplained
      BY PendingHeld DEF ObjectInv
    <3> QED
      BY <2>1, <2>2, <2>3, <3>1 DEF HeldExplained
  <2>6. StartedExplained'
    BY <2>1, <2>2 DEF StartedExplained
  <2>7. SpareClosed' /\ SpareWorking'
    <3>1. \A d \in Conns : Spare(d)' => Spare(d)
      BY <2>1, <2>3 DEF Spare
    <3> QED
      BY <2>1, <2>2, <3>1 DEF ObjectInv, SpareClosed, SpareWorking
  <2> QED
    BY <2>4, <2>5, <2>6, <2>7, PendingHeld DEF ObjectInv
<1>5. CASE AcceptRead
  <2>1. /\ acc_pc = "read" /\ acc_pc' = "idle" /\ new_c \in Conns /\ new_c' = NoConn
        /\ UNCHANGED <<poolVars, objVars, mngVars, cowVars, aborted>>
    BY <1>5 DEF AcceptRead, TypeOK
  <2>2. CachedSet' = CachedSet /\ \A d \in Conns : Spare(d)' => Spare(d)
    BY <2>1 DEF CachedSet, Spare
  <2>3. \/ stats_[new_c] # "conn_working" /\ op' = op
        \/ /\ stats_[new_c] = "conn_working"
           /\ \E o \in Ops : /\ op[o].pc = "free"
                             /\ op' = [op EXCEPT ![o] = StartedOp(new_c, "read", "async_read")]
    BY <1>5 DEF AcceptRead
  <2>4. /\ \A o \in Ops : op'[o].conn \in {op[o].conn, new_c}
        /\ \A o \in Ops : op[o].pc \in IssuePoint => op'[o] = op[o]
        /\ stats_[new_c] = "conn_working" =>
             \E o \in Ops : op'[o].conn = new_c /\ op'[o].pc \in IssuePoint
    BY <1>a, <2>3 DEF StartedOp, IssuePoint
  <2>5. ServedHasSocket'
    BY <2>1 DEF ObjectInv, ServedHasSocket
  <2>6. HeldExplained'
    <3>1. HeldExplained
      BY PendingHeld DEF ObjectInv
    <3>2. \A d \in Conns : Held(d)' => Held(d)
      BY <1>a, <2>1, <2>2, <2>4 DEF Held
    <3>3. stats_[new_c] = "conn_pending" => new_c \in CachedSet \cup {mng_item}
      BY <2>1 DEF ObjectInv, StartedExplained
    <3> QED
      BY <2>1, <2>2, <3>1, <3>2, <3>3 DEF HeldExplained
  <2>7. StartedExplained'
    BY <2>1 DEF StartedExplained
  <2>8. SpareClosed'
    BY <2>1, <2>2 DEF ObjectInv, SpareClosed
  <2>9. SpareWorking'
    BY <2>1, <2>2, <2>4 DEF ObjectInv, SpareWorking
  <2> QED
    BY <2>5, <2>6, <2>7, <2>8, <2>9, PendingHeld DEF ObjectInv
<1> QED
  BY <1>1, <1>2, <1>3, <1>4, <1>5 DEF Accept

\* The empty pool satisfies the invariant.
LEMMA ObjectInit == Init => ObjectInv
<1> SUFFICES ASSUME Init
             PROVE  ObjectInv
  OBVIOUS
<1>1. TypeOK /\ NoConn \notin Conns
  BY TypeInit, ConstantsAssumption
<1>2. /\ front_conns_ = {} /\ cached_conns_ = <<>> /\ pending_to_remove_ = {}
      /\ new_c = NoConn /\ cow_conn = NoConn /\ mng_item = NoConn /\ acc_pc = "idle"
      /\ op = [o \in Ops |-> NoOp]
  BY DEF Init
<1>3. CachedSet = {}
  BY <1>2 DEF CachedSet
<1>4. \A c \in Conns : ~Held(c)
  BY <1>1, <1>2, <1>3 DEF Held, NoOp
<1>5. PendingExplained
  BY <1>1, <1>4, PendingHeld DEF HeldExplained
<1>6. \A c \in Conns : ~Spare(c)
  BY <1>1, <1>2, <1>3 DEF Spare
<1>7. ServedHasSocket /\ StartedExplained /\ SpareClosed /\ SpareWorking
  BY <1>2, <1>6 DEF ServedHasSocket, StartedExplained, SpareClosed, SpareWorking
<1> QED
  BY <1>5, <1>7 DEF ObjectInv

\* A step that changes nothing keeps the invariant.
LEMMA ObjectStutter ==
  ASSUME TypeOK, TypeOK', ObjectInv, UNCHANGED vars
  PROVE  ObjectInv'
<1>1. UNCHANGED <<front_conns_, cached_conns_, pending_to_remove_, stats_, p_sock_, op,
                  acc_pc, new_c, mng_item, cow_conn, aborted>>
  BY DEF vars, poolVars, viewVars, objVars, accVars, mngVars, cowVars
<1>2. CachedSet' = CachedSet /\ \A c \in Conns : Held(c)' = Held(c)
  BY <1>1 DEF CachedSet, Held
<1>3. HeldExplained'
  <2>1. HeldExplained
    BY PendingHeld DEF ObjectInv
  <2> QED
    BY <1>1, <1>2, <2>1 DEF HeldExplained
<1>4. \A c \in Conns : Spare(c)' = Spare(c)
  BY <1>1, <1>2 DEF Spare, Running
<1>5. ServedHasSocket' /\ StartedExplained' /\ SpareClosed' /\ SpareWorking'
  BY <1>1, <1>2, <1>4 DEF ObjectInv, ServedHasSocket, StartedExplained, SpareClosed,
     SpareWorking
<1> QED
  BY <1>3, <1>5, PendingHeld DEF ObjectInv

\* Every step of every thread keeps the invariant.
LEMMA ObjectStep ==
  ASSUME TypeOK, TypeOK', PoolInv, ObjectInv, [Next]_vars
  PROVE  ObjectInv'
<1>1. CASE Running /\ Accept
  BY <1>1, ObjectAccept
<1>2. CASE Running /\ Manage
  BY <1>2, ObjectManage
<1>3. CASE Running /\ CoWorker
  BY <1>3, CoWorkerHarmless, ObjectHarmless
<1>4. ASSUME Running, NEW o \in Ops, Complete(o) \/ Handler(o)
      PROVE  ObjectInv'
  BY <1>4, HandlerHarmless, ObjectHarmless
<1>5. CASE UNCHANGED vars
  BY <1>5, ObjectStutter
<1> QED
  BY <1>1, <1>2, <1>3, <1>4, <1>5 DEF Next, Dead

\* The invariant implies what accept_handler may assume of a recycled object.
LEMMA ObjectClean ==
  ASSUME TypeOK, ObjectInv
  PROVE  RecycledClean
<1>1. SUFFICES ASSUME NEW c \in CachedSet, use_count(c) = 1
               PROVE  ~p_sock_[c] /\ stats_[c] # "conn_working"
  BY DEF RecycledClean
<1>2. c \in Conns
  BY DEF TypeOK, CachedSet
<1>3. new_c # c /\ \A o \in Ops : op[o].conn # c
  BY <1>1, <1>2, HeldCount
<1> QED
  BY <1>2, <1>3 DEF ObjectInv, Spare, SpareClosed, SpareWorking

\* Whatever the threads do, and however late start() or a handler is: a
\* connection in the view has its socket, an object that is held and pending
\* is cached, being cached or just accepted, and one that only the cache holds
\* has no socket and is not working.
THEOREM ObjectSafe == Spec => [](ServedHasSocket /\ PendingExplained /\ RecycledClean)
<1>1. Init => ObjectInv
  BY ObjectInit
<1>2. TypeOK /\ TypeOK' /\ PoolInv /\ ObjectInv /\ [Next]_vars => ObjectInv'
  BY ObjectStep
<1>3. TypeOK /\ ObjectInv => ServedHasSocket /\ PendingExplained /\ RecycledClean
  BY ObjectClean DEF ObjectInv
<1> QED
  BY <1>1, <1>2, <1>3, TypeCorrect, PoolSafe, PTL DEF Spec

\* A connection in the view has the socket that its handlers use untested.
THEOREM SocketSafe == Spec => []ServedHasSocket
BY ObjectSafe, PTL

\* The assert of the idle check that a pending object is cached fails only while
\* the object is on its way into or out of the cache.
THEOREM PendingSafe == Spec => []PendingExplained
BY ObjectSafe, PTL

\* What the cache alone holds is clean: no socket, not working.
THEOREM CleanSafe == Spec => []RecycledClean
BY ObjectSafe, PTL

=============================================================================
