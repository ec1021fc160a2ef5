---------------------------- MODULE TimingWheel ----------------------------
(***************************************************************************)
(* The timing wheel in time: how long a silent client is kept.  ConnPool   *)
(* has the interleavings of timing_wheel_check with the other threads and  *)
(* no clock; here a check is one step and seconds are counted, relative to *)
(* now: idle is the age of touch_time_, left the time until the timer of   *)
(* the co_worker expires (negative: the check is late).                    *)
(***************************************************************************)
EXTENDS Integers, Sequences, FiniteSets

CONSTANTS
  Conns,        \* front_conn objects
  WheelSize,    \* timing_wheel_.capacity() (10 in the code)
  ExpiredTime,  \* what main gives to set_conn_expired_time (20 in the code)
  MaxCached,    \* limit of cached_conns_
  Delay         \* seconds by which a check may be late

ASSUME WheelAssumption ==
  /\ WheelSize \in Nat /\ WheelSize >= 2
  /\ ExpiredTime \in Nat /\ ExpiredTime > WheelSize
  /\ MaxCached \in Nat /\ Delay \in Nat

VARIABLES
  timing_wheel_,       \* <<>> until http_server::run has filled it
  conn_expired_time_,  \* not initialised by the constructor
  life,                \* per object: what it is to the server
  idle,                \* per object: now - touch_time_
  left,                \* seconds until the timer expires
  main_pc,             \* "main" before the threads are created
  armed,               \* co_worker::run has started the timer
  waited,              \* seconds the timer has run with no bucket (history)
  aborted

vars == <<timing_wheel_, conn_expired_time_, life, idle, left, main_pc, armed, waited,
          aborted>>

get_conn_check_spare == conn_expired_time_ \div WheelSize

\* The longest a served connection may have been silent (see IdleBound)
LatestIdle ==
  (ExpiredTime - get_conn_check_spare - 1) + WheelSize * (get_conn_check_spare + Delay)

Init ==
  /\ timing_wheel_ = <<>>
  /\ conn_expired_time_ \in 0..ExpiredTime
  /\ life = [c \in Conns |-> "none"]
  /\ idle = [c \in Conns |-> 0]
  /\ left = 0 /\ main_pc = "main" /\ armed = FALSE /\ waited = 0 /\ aborted = FALSE

\* set_conn_expired_time, called by main before the threads are created
set_conn_expired_time(new_time) ==
  conn_expired_time_' = IF new_time > WheelSize THEN new_time ELSE conn_expired_time_

Main ==
  /\ main_pc = "main"
  /\ set_conn_expired_time(ExpiredTime)
  /\ main_pc' = "threads"
  /\ UNCHANGED <<timing_wheel_, life, idle, left, armed, waited, aborted>>

\* http_server::run: the buckets, then the threads that run the handlers
HttpRun ==
  /\ main_pc = "threads" /\ timing_wheel_ = <<>>
  /\ timing_wheel_' = [i \in 1..WheelSize |-> {}]
  /\ UNCHANGED <<conn_expired_time_, life, idle, left, main_pc, armed, waited, aborted>>

\* The timer is made with no time to wait.
CoWorkerRun_at_once ==
  /\ main_pc = "threads" /\ ~armed
  /\ armed' = TRUE /\ left' = 0
  /\ UNCHANGED <<timing_wheel_, conn_expired_time_, life, idle, main_pc, waited, aborted>>

\* co_worker::run, with the assertion of get_conn_check_spare
CoWorkerRun ==
  /\ main_pc = "threads" /\ ~armed
  /\ armed' = TRUE
  /\ left' = get_conn_check_spare
  /\ aborted' = (get_conn_check_spare = 0)
  /\ UNCHANGED <<timing_wheel_, conn_expired_time_, life, idle, main_pc, waited>>

Running == timing_wheel_ # <<>>

\* timing_wheel_.back().insert
back_insert(c) == [timing_wheel_ EXCEPT ![WheelSize] = @ \cup {c}]

Cached == {c \in Conns : life[c] = "cached"}

\* The address of a new object is not that of one the wheel still refers to.
Unwatched(c) == \A i \in 1..WheelSize : c \notin timing_wheel_[i]

\* accept_handler: a cached object if there is one.  Both the constructor and
\* conn_reset_network touch it.
Accept(c) ==
  /\ Running
  /\ life[c] = (IF Cached # {} THEN "cached" ELSE "none")
  /\ life[c] = "none" => Unwatched(c)
  /\ life' = [life EXCEPT ![c] = "served"]
  /\ idle' = [idle EXCEPT ![c] = 0]
  /\ timing_wheel_' = back_insert(c)
  /\ UNCHANGED <<conn_expired_time_, left, main_pc, armed, waited, aborted>>

\* touch_sock_time in do_read_head, do_read_body and do_write
Touch(c) ==
  /\ life[c] = "served"
  /\ idle' = [idle EXCEPT ![c] = 0]
  /\ UNCHANGED <<timing_wheel_, conn_expired_time_, life, left, main_pc, armed, waited, aborted>>

\* notify_conn_error: the object is in pending_to_remove_
Fail(c) ==
  /\ life[c] = "served"
  /\ life' = [life EXCEPT ![c] = "failed"]
  /\ UNCHANGED <<timing_wheel_, conn_expired_time_, idle, left, main_pc, armed, waited, aborted>>

\* manage_thread: out of the view and into the cache if there is room; an
\* object somebody still points to is put into the wheel again.
Retire(c) ==
  /\ life[c] = "failed"
  /\ life' = [life EXCEPT ![c] =
                IF Cardinality(Cached) < MaxCached THEN "cached" ELSE "none"]
  /\ idle' = [idle EXCEPT ![c] = 0]
  /\ timing_wheel_' \in {timing_wheel_, back_insert(c)}
  /\ UNCHANGED <<conn_expired_time_, left, main_pc, armed, waited, aborted>>

\* touch_time_ + (conn_expired_time_ - spare) <= now
expired_late(c) == idle[c] > conn_expired_time_ - get_conn_check_spare
expired(c) == idle[c] >= conn_expired_time_ - get_conn_check_spare

\* push_back drops the front bucket of the full buffer.
rotated(front_modi) == Append(Tail(timing_wheel_), front_modi)

\* timing_wheel_check: objects of the cache and freed ones are dropped from the
\* bucket, silent ones also from the service; the others go to the back.  An
\* object that was retired and not cached counts as freed, also while a handler
\* still holds it: it serves nobody.
Check ==
  /\ armed /\ left <= 0 /\ Running
  /\ LET front == timing_wheel_[1]
         out == {c \in front : life[c] \in {"served", "failed"} /\ expired(c)}
         front_modi == {c \in front : life[c] \in {"served", "failed"}} \ out IN
     /\ life' = [c \in Conns |-> IF c \in out THEN "failed" ELSE life[c]]
     /\ timing_wheel_' = rotated(front_modi)
  /\ left' = get_conn_check_spare
  /\ UNCHANGED <<conn_expired_time_, idle, main_pc, armed, waited, aborted>>

\* timing_wheel_[0] of an empty circular_buffer
CheckEmpty ==
  /\ armed /\ left <= 0 /\ ~Running
  /\ aborted' = TRUE
  /\ UNCHANGED <<timing_wheel_, conn_expired_time_, life, idle, left, main_pc, armed, waited>>

\* A second passes.  A check is at most Delay late; nothing bounds the time
\* http_server::run takes to fill the wheel.
Second ==
  /\ armed /\ left > -Delay
  /\ left' = left - 1
  /\ idle' = [c \in Conns |->
                IF life[c] \in {"served", "failed"} /\ idle[c] <= LatestIdle
                THEN idle[c] + 1 ELSE idle[c]]
  /\ waited' = IF Running THEN waited ELSE waited + 1
  /\ UNCHANGED <<timing_wheel_, conn_expired_time_, life, main_pc, armed, aborted>>

Alive == ~aborted

Next ==
  \/ Alive /\ (Main \/ HttpRun \/ CoWorkerRun)
  \/ Alive /\ \E c \in Conns : Accept(c) \/ Touch(c) \/ Fail(c) \/ Retire(c)
  \/ Alive /\ (Check \/ CheckEmpty)
  \/ Alive /\ Second

Spec == Init /\ [][Next]_vars

-----------------------------------------------------------------------------

TypeOK ==
  /\ timing_wheel_ = <<>> \/ timing_wheel_ \in [1..WheelSize -> SUBSET Conns]
  /\ conn_expired_time_ \in 0..ExpiredTime
  /\ life \in [Conns -> {"none", "served", "failed", "cached"}]
  /\ idle \in [Conns -> 0..(LatestIdle + 1)]
  /\ left \in (-Delay)..ExpiredTime
  /\ main_pc \in {"main", "threads"} /\ armed \in BOOLEAN
  /\ waited \in 0..(ExpiredTime + Delay) /\ aborted \in BOOLEAN

\* timing_wheel_check (co_worker.cpp:80) gets rid of a silent client in bounded
\* time, whatever it did before: accepted on a recycled object that other
\* buckets still refer to, touched just before each look, put back by
\* manage_thread.  The bound is not conn_expired_time_ but nearly twice as much:
\* a look that just finds it young enough, and a turn of the wheel.
IdleBound == \A c \in Conns : life[c] = "served" => idle[c] <= LatestIdle

\* The start-up order of main (main.cpp:56-70).  Nothing makes co_worker::run
\* wait for http_server::run, so the first check may find no bucket
\* (timing_wheel_[0] of an empty buffer, co_worker.cpp:65).  What the code does
\* give is a margin: the settings are made before the threads (main.cpp:58), so
\* the timer is armed with their interval, and the process ends at the start only
\* if the wheel has stayed empty for the whole of it.
StartMargin == aborted => timing_wheel_ = <<>> /\ waited >= ExpiredTime \div WheelSize
=============================================================================
