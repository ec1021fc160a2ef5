----------------------------- MODULE ClientCall -----------------------------
(***************************************************************************)
(* ClientOps and ReadFrom together: sync_timed_read_from makes several     *)
(* reads under one timer, whose callback shuts the socket down between or  *)
(* during any two of them.  A caller of client_ops connects, writes and    *)
(* reads with one of the two timed reads; its frame holds the socket, the  *)
(* buffer and the timers.                                                  *)
(***************************************************************************)
EXTENDS ClientOps, Sequences

CONSTANTS Lens, BuffSize, Slack   \* see ReadFrom

ASSUME ReadFromAssumption ==
  /\ Lens \subseteq Nat /\ BuffSize \in Nat /\ BuffSize >= 2 /\ Slack \in Nat

VARIABLES stream, read_buff, buff_size, rf_pc, len, real_len, actual_len, ret

rfVars == <<stream, read_buff, buff_size, rf_pc, len, real_len, actual_len, ret>>
callVars == <<vars, rfVars>>

RF == INSTANCE ReadFrom WITH pc <- rf_pc

\* ClientOps while no sync_read_from runs
Outside(A) == A /\ UNCHANGED rfVars

\* A step of sync_read_from; the last one goes on behind the call, in
\* sync_timed_read_from.
Inside(A) ==
  /\ pc = "read_from"
  /\ A
  /\ pc' = IF rf_pc' = "returned" THEN "read_timer" ELSE pc
  /\ UNCHANGED <<sock, cur, timer, aborted>>

\* The frame is left with the buffer in it.
Leave == ReadReturn /\ RF!Reset

\* What the other server does: it may stay silent, send, be slow, or close.
Peer ==
  \/ Outside(ReadAnswer)
  \/ pc = "read_from" /\ sock = "connected" /\ RF!Send /\ UNCHANGED <<pc, sock, cur, timer, aborted>>
  \/ Inside(RF!Receive)
  \/ Inside(RF!Fail) /\ sock = "connected"

\* After a shutdown what has arrived is still read (Receive), then reads fail.
CallerGoesOn ==
  \/ Outside(Arm \/ ConnectOpen \/ ConnectDone \/ ConnectReturn \/ WriteSome \/ ReadShut)
  \/ Inside(RF!Local)
  \/ Inside(RF!Fail) /\ sock = "shut"
  \/ Leave

CoWorker(t) == Outside(Worker(t))

CallInit == Init /\ RF!Init

Running == aborted = "no"
Dead == ~Running /\ UNCHANGED callVars

Next ==
  \/ Running /\ (Outside(Begin) \/ CallerGoesOn)
  \/ Running /\ Peer
  \/ Running /\ \E t \in Timers : Outside(Tick(t)) \/ CoWorker(t)
  \/ Dead

(***************************************************************************)
(* Fairness: the threads run, time passes, and the kernel gives up a       *)
(* connect that is never answered.  The other server need never answer.    *)
(***************************************************************************)
Fairness ==
  /\ WF_callVars(Running /\ CallerGoesOn)
  /\ \A t \in Timers :
       WF_callVars(Running /\ Outside(Tick(t))) /\ WF_callVars(Running /\ CoWorker(t))

FairSpec == CallInit /\ [][Next]_callVars /\ Fairness

-----------------------------------------------------------------------------

\* A silent or slow server cannot keep the caller, and with it a thread of the
\* front pool and the connection's strand, for ever, also not by a message
\* that sync_timed_read_from reads in many pieces under one timer.
CallEnds == pc # "idle" ~> (pc = "idle" \/ ~Running)

\* Whatever the length and the pieces, and with the timer running beside it,
\* sync_read_from has room in read_buff for the read it makes and never reads
\* past its end (client_ops.cpp:74), and the payload of the first message stands
\* at the start of read_buff without gaps (client_ops.cpp:62).
MessageInPlace == RF!ReadHasRoom /\ RF!PayloadInPlace

\* A result without an error code is a whole message: neither the end of the
\* stream nor the timer's shutdown in the middle of one (client_ops.cpp:79)
\* passes for success.
WholeWithoutError == RF!WholeWithoutError
=============================================================================
