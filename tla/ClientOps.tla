----------------------------- MODULE ClientOps -----------------------------
(***************************************************************************)
(* The timed synchronous calls of client_ops, as the /bb branch of         *)
(* read_body_handler makes them: sync_timed_connect, write_some,           *)
(* sync_timed_read_some on a socket of the caller's stack frame.  Each     *)
(* timed call arms a deadline_timer of the same frame on the io_service of *)
(* the co_worker thread, whose callback timed_cancel_socket holds a plain  *)
(* pointer to the socket.  In place of sync_timed_read_some the caller may *)
(* use sync_timed_read_from, whose reads are in ReadFrom and put together  *)
(* with the timers in ClientCall.                                          *)
(***************************************************************************)
EXTENDS Integers, FiniteSets

CONSTANTS
  Timers,    \* identities of timer waits (bound: |Timers| callbacks at once)
  NoTimer

ASSUME ClientOpsAssumption == NoTimer \notin Timers

VARIABLES
  pc,        \* where the handler is
  sock,      \* "gone": the frame that held it has been left
  cur,       \* the timer of the running timed call
  ec,        \* the running or last timed call has failed
  timer,     \* per wait: the queue of the co_worker's io_service
  aborted

vars == <<pc, sock, cur, ec, timer, aborted>>

(***************************************************************************)
(* A wait is "armed" in the timer queue, then "queued" with success once   *)
(* its time is over or "cancelled" with operation_aborted.  "due": the     *)
(* deadline has passed.  "left": the timed call has returned.  "late": it  *)
(* returned after the deadline.  "stale": the socket is gone.              *)
(***************************************************************************)
NoWait == [pc |-> "free", due |-> FALSE, left |-> FALSE, late |-> FALSE, stale |-> FALSE]

Step(from, to) == pc = from /\ pc' = to

-----------------------------------------------------------------------------
(***************************************************************************)
(* The handler's thread                                                    *)
(***************************************************************************)

\* ip::tcp::socket sock(...): not open yet
Begin ==
  /\ Step("idle", "arm_connect")
  /\ sock' = "closed"
  /\ ec' = FALSE
  /\ UNCHANGED <<cur, timer, aborted>>

\* deadline_timer timer(...); timer.async_wait(...)
Arm ==
  /\ pc \in {"arm_connect", "arm_read"}
  /\ pc' \in IF pc = "arm_connect" THEN {"connect"} ELSE {"read_some", "read_from"}
  /\ \E t \in Timers :
       /\ timer[t].pc = "free"
       /\ timer' = [timer EXCEPT ![t] = [NoWait EXCEPT !.pc = "armed"]]
       /\ cur' = t
  /\ UNCHANGED <<sock, ec, aborted>>

\* sock.connect(ep, ec) opens the socket, whatever has happened before.
ConnectOpen ==
  /\ Step("connect", "connecting")
  /\ sock' = "connecting"
  /\ UNCHANGED <<cur, ec, timer, aborted>>

\* connect(2) returns: connected, refused, given up, or ended by a shutdown
ConnectDone ==
  /\ Step("connecting", "connect_timer")
  /\ \/ /\ sock = "connecting"
        /\ sock' = "connected"
        /\ UNCHANGED ec
     \/ /\ sock' = "closed"
        /\ ec' = TRUE
  /\ UNCHANGED <<cur, timer, aborted>>

\* timer.cancel() before the deadline, and in any case the timer's destructor,
\* cancel a wait that is still in the timer queue.
drop_leaked(t) == [timer[t] EXCEPT !.left = TRUE, !.late = timer[t].due]
drop(t) ==
  [timer[t] EXCEPT !.left = TRUE, !.late = timer[t].due,
                   !.pc = IF @ = "armed" THEN "cancelled" ELSE @]

\* timer as it is after the running timed call has returned
Dropped == [timer EXCEPT ![cur] = drop(cur)]

\* The frame is left: every wait still to be called back points to nothing.
frame_left(ts) ==
  [t \in Timers |-> IF ts[t].pc = "free" THEN ts[t] ELSE [ts[t] EXCEPT !.stale = TRUE]]

\* Return from sync_timed_connect; after an error the handler returns too.
ConnectReturn ==
  /\ pc = "connect_timer"
  /\ cur' = NoTimer
  /\ \/ /\ ~ec
        /\ pc' = "write_some"
        /\ timer' = Dropped
        /\ UNCHANGED sock
     \/ /\ ec
        /\ pc' = "idle"
        /\ sock' = "gone"
        /\ timer' = frame_left(Dropped)
  /\ UNCHANGED <<ec, aborted>>

\* sock.write_some(buffer(reque)), the overload that throws: the other server
\* has reset the connection, or a late callback has shut the socket down.
WriteSome ==
  /\ pc = "write_some"
  /\ \/ /\ sock = "connected"
        /\ pc' = "arm_read"
        /\ UNCHANGED aborted
     \/ /\ aborted' = "write_some"
        /\ UNCHANGED pc
  /\ UNCHANGED <<sock, cur, ec, timer>>

\* The other server sends or closes; what has arrived before a shutdown can
\* still be read after it.
ReadAnswer ==
  /\ Step("read_some", "read_timer")
  /\ sock \in {"connected", "shut"}
  /\ ec' \in BOOLEAN
  /\ UNCHANGED <<sock, cur, timer, aborted>>

\* read_some on a socket that was shut down: end of file
ReadShut ==
  /\ Step("read_some", "read_timer")
  /\ sock = "shut"
  /\ ec' = TRUE
  /\ UNCHANGED <<sock, cur, timer, aborted>>

\* The timer is not let go of.
ReadReturn_kept ==
  /\ Step("read_timer", "idle")
  /\ timer' = frame_left(Dropped)
  /\ sock' = "gone"
  /\ UNCHANGED <<cur, ec, aborted>>

\* Return from sync_timed_read_some, and from the handler
ReadReturn ==
  /\ Step("read_timer", "idle")
  /\ timer' = frame_left(Dropped)
  /\ cur' = NoTimer
  /\ sock' = "gone"
  /\ UNCHANGED <<ec, aborted>>

-----------------------------------------------------------------------------
(***************************************************************************)
(* The co_worker thread                                                    *)
(***************************************************************************)

\* The deadline passes.
Tick(t) ==
  /\ timer[t].pc = "armed" /\ ~timer[t].due
  /\ timer' = [timer EXCEPT ![t].due = TRUE]
  /\ UNCHANGED <<pc, sock, cur, ec, aborted>>

\* The io_service takes the wait out of the timer queue and posts the callback.
Expire(t) ==
  /\ timer[t].pc = "armed" /\ timer[t].due
  /\ timer' = [timer EXCEPT ![t].pc = "queued"]
  /\ UNCHANGED <<pc, sock, cur, ec, aborted>>

\* sock->shutdown(shutdown_both, ignored_ec) on a socket in state s
after_shutdown(s) ==
  CASE s = "connecting" -> "closed"
    [] s = "connected"  -> "shut"
    [] OTHER            -> s

\* The callback only logs.
TimedCancelSocket_logged(t) ==
  /\ timer[t].pc = "queued"
  /\ timer' = [timer EXCEPT ![t] = NoWait]
  /\ UNCHANGED <<pc, sock, cur, ec, aborted>>

\* timed_cancel_socket after the deadline.  When the frame is gone the pointer
\* hits freed memory, nothing, or the socket of a later call in its place.
TimedCancelSocket(t) ==
  /\ timer[t].pc = "queued"
  /\ \/ /\ timer[t].stale
        /\ aborted' = "dangling"
        /\ UNCHANGED sock
     \/ /\ timer[t].stale
        /\ UNCHANGED <<sock, aborted>>
     \/ /\ sock' = after_shutdown(sock)
        /\ UNCHANGED aborted
  /\ timer' = [timer EXCEPT ![t] = NoWait]
  /\ UNCHANGED <<pc, cur, ec>>

\* timed_cancel_socket with operation_aborted returns at once.
TimedCancelAborted(t) ==
  /\ timer[t].pc = "cancelled"
  /\ timer' = [timer EXCEPT ![t] = NoWait]
  /\ UNCHANGED <<pc, sock, cur, ec, aborted>>

-----------------------------------------------------------------------------

Init ==
  /\ pc = "idle" /\ sock = "gone" /\ cur = NoTimer /\ ec = FALSE
  /\ timer = [t \in Timers |-> NoWait]
  /\ aborted = "no"

Worker(t) == Expire(t) \/ TimedCancelSocket(t) \/ TimedCancelAborted(t)

\* The types of the variables; a timed call that runs has its timer.
TypeOK ==
  /\ pc \in {"idle", "arm_connect", "connect", "connecting", "connect_timer",
             "write_some", "arm_read", "read_some", "read_from", "read_timer"}
  /\ sock \in {"gone", "closed", "connecting", "connected", "shut"}
  /\ cur \in IF pc \in {"idle", "arm_connect", "write_some", "arm_read"}
             THEN {NoTimer} ELSE Timers
  /\ ec \in BOOLEAN
  /\ timer \in [Timers -> [pc : {"free", "armed", "queued", "cancelled"}, due : BOOLEAN,
                           left : BOOLEAN, late : BOOLEAN, stale : BOOLEAN]]
  /\ aborted \in {"no", "write_some", "dangling"}

\* A timed call that returns before its deadline leaves no callback behind
\* that could touch its socket: timed_cancel_socket runs only for a wait whose
\* call is still running or was too late.
InTimeIsOver ==
  \A t \in Timers :
    (timer[t].left /\ ~timer[t].late) => timer[t].pc \notin {"armed", "queued"}
=============================================================================
