------------------------- MODULE TimingWheelProofs -------------------------
(***************************************************************************)
(* Proofs about the timing wheel in time, for any number of objects and    *)
(* buckets, any expiry time and any delay of the checks.                   *)
(***************************************************************************)
EXTENDS TimingWheel, TLAPS

\* The interval of the checks once main has set the expiry time, and the time
\* between two checks at most.
Spare == ExpiredTime \div WheelSize
Turn == Spare + Delay

\* How long a client in bucket i may have been silent: a look that found it
\* just young enough, the checks since then, and the time since the last one.
Bound(i) == (WheelSize - i) * Turn
IdleOf(i) == (ExpiredTime - Spare - 1) + Bound(i) + (Spare - left)

StartInv ==
  /\ main_pc = "threads" => conn_expired_time_ = ExpiredTime
  /\ armed \/ Running => main_pc = "threads"
  /\ armed => left <= Spare
  /\ ~Running => waited = IF armed THEN Spare - left ELSE 0
  /\ ~armed => left = 0 /\ \A c \in Conns : idle[c] = 0
  /\ ~Running => \A c \in Conns : life[c] = "none" /\ idle[c] = 0

\* Every served client is in a bucket that comes to the front in time.
InTime(c) == \E i \in 1..WheelSize : c \in timing_wheel_[i] /\ idle[c] <= IdleOf(i)
WheelInv == \A c \in Conns : life[c] = "served" => InTime(c)

TimeInv == TypeOK /\ StartInv /\ WheelInv /\ StartMargin

\* The interval is at least a second, and no longer than the expiry time allows.
LEMMA SpareBounds ==
  /\ Spare \in Nat /\ Spare >= 1 /\ Turn \in Nat
  /\ ExpiredTime - Spare - 1 \in Nat /\ Spare <= ExpiredTime
<1>1. /\ WheelSize \in Nat /\ WheelSize >= 2 /\ ExpiredTime \in Nat /\ ExpiredTime > WheelSize
      /\ Delay \in Nat
  BY WheelAssumption
<1>2. Spare \in Nat /\ Spare >= 1
  BY <1>1 DEF Spare
<1>3. 2 * Spare <= ExpiredTime
  BY <1>1, <1>2 DEF Spare
<1> HIDE DEF Spare
<1>4. QED BY <1>1, <1>2, <1>3 DEF Turn

\* One bucket nearer to the front is one interval more.
LEMMA BoundSteps ==
  /\ Bound(WheelSize) = 0 /\ Bound(1) + Turn = WheelSize * Turn
  /\ \A i \in 1..WheelSize : /\ Bound(i) \in Nat /\ Bound(i) <= Bound(1)
                             /\ Bound(i - 1) = Bound(i) + Turn
<1>1. Turn \in Nat /\ WheelSize \in Nat /\ WheelSize >= 2
  BY SpareBounds, WheelAssumption
<1> HIDE DEF Turn
<1>2. ASSUME NEW i \in 1..WheelSize
      PROVE  Bound(i) \in Nat /\ Bound(i - 1) = Bound(i) + Turn
  BY <1>1, <1>2 DEF Bound
<1>3. ASSUME NEW i \in 1..WheelSize PROVE Bound(i) <= Bound(1)
  BY <1>1 DEF Bound
<1>4. Bound(WheelSize) = 0 /\ Bound(1) + Turn = WheelSize * Turn
  BY <1>1 DEF Bound
<1>5. QED BY <1>2, <1>3, <1>4

Latest == (ExpiredTime - Spare - 1) + WheelSize * Turn

\* Once the threads run the intervals are what main has set.
LEMMA Started ==
  ASSUME StartInv, main_pc = "threads"
  PROVE  get_conn_check_spare = Spare /\ LatestIdle = Latest
BY DEF StartInv, get_conn_check_spare, LatestIdle, Spare, Latest, Turn

\* The bounds are natural numbers, whatever conn_expired_time_ was before main.
LEMMA LatestNat ==
  /\ Latest \in Nat
  /\ TypeOK => LatestIdle \in Nat
<1>1. /\ WheelSize \in Nat /\ WheelSize >= 2 /\ ExpiredTime \in Nat /\ ExpiredTime > WheelSize
      /\ Delay \in Nat
  BY WheelAssumption
<1>2. Latest \in Nat
  <2>1. WheelSize * Turn \in Nat
    BY <1>1, SpareBounds
  <2>2. QED BY <2>1, SpareBounds DEF Latest
<1>3. ASSUME TypeOK PROVE LatestIdle \in Nat
  <2> DEFINE s == get_conn_check_spare
  <2>1. conn_expired_time_ \in Nat /\ conn_expired_time_ <= ExpiredTime
    BY <1>1, <1>3 DEF TypeOK
  <2>2. s \in Nat
    BY <1>1, <2>1 DEF get_conn_check_spare
  <2>3. s <= ExpiredTime \div 2
    BY <1>1, <2>1 DEF get_conn_check_spare
  <2> HIDE DEF s
  <2>4. WheelSize * (s + Delay) \in Nat /\ ExpiredTime - s - 1 \in Nat
    BY <1>1, <2>2, <2>3
  <2>5. QED BY <2>4 DEF LatestIdle, s
<1>4. QED BY <1>2, <1>3

Buckets == [1..WheelSize -> SUBSET Conns]

\* A wheel that runs has its buckets.
LEMMA WheelIsBuckets ==
  /\ TypeOK /\ Running => timing_wheel_ \in Buckets
  /\ \A w \in Buckets : w # <<>>
<1>1. WheelSize \in Nat /\ 1 \in 1..WheelSize
  BY WheelAssumption
<1>2. ASSUME NEW w \in Buckets PROVE w # <<>>
  <2>1. 1 \in DOMAIN w
    BY <1>1 DEF Buckets
  <2>2. QED BY <2>1
<1>3. QED BY <1>2 DEF TypeOK, Running, Buckets

\* A bucket that is filled keeps what it had.
LEMMA BackInsert ==
  ASSUME timing_wheel_ \in Buckets, NEW c \in Conns
  PROVE  /\ back_insert(c) \in Buckets /\ c \in back_insert(c)[WheelSize]
         /\ \A i \in 1..WheelSize : timing_wheel_[i] \subseteq back_insert(c)[i]
BY WheelAssumption DEF Buckets, back_insert

\* A check moves every bucket one place to the front.
LEMMA Rotated ==
  ASSUME timing_wheel_ \in Buckets, NEW b \in SUBSET Conns
  PROVE  /\ rotated(b) \in Buckets /\ rotated(b)[WheelSize] = b
         /\ \A i \in 2..WheelSize : rotated(b)[i - 1] = timing_wheel_[i]
<1>1. WheelSize \in Nat /\ WheelSize >= 2
  BY WheelAssumption
<1>2. timing_wheel_ \in Seq(SUBSET Conns) /\ Len(timing_wheel_) = WheelSize
  BY <1>1 DEF Buckets
<1> DEFINE t == Tail(timing_wheel_)
<1>3. /\ t \in Seq(SUBSET Conns) /\ Len(t) = WheelSize - 1
      /\ \A i \in 1..(WheelSize - 1) : t[i] = timing_wheel_[i + 1]
  BY <1>1, <1>2
<1> HIDE DEF t
<1> DEFINE r == Append(t, b)
<1>4. /\ r \in Seq(SUBSET Conns) /\ Len(r) = WheelSize /\ r[WheelSize] = b
      /\ \A i \in 1..(WheelSize - 1) : r[i] = t[i]
  BY <1>1, <1>3
<1> HIDE DEF r
<1>5. r \in Buckets
  BY <1>4 DEF Buckets
<1>6. \A i \in 2..WheelSize : r[i - 1] = timing_wheel_[i]
  BY <1>1, <1>3, <1>4
<1>7. rotated(b) = r
  BY DEF rotated, r, t
<1>8. QED BY <1>4, <1>5, <1>6, <1>7

-----------------------------------------------------------------------------
(***************************************************************************)
(* The steps                                                               *)
(***************************************************************************)

\* The start: main, http_server::run and co_worker::run.
LEMMA StartStep ==
  ASSUME TimeInv, Alive, Main \/ HttpRun \/ CoWorkerRun
  PROVE  TimeInv'
<1>1. WheelSize \in Nat /\ WheelSize >= 2 /\ ExpiredTime \in Nat /\ ExpiredTime > WheelSize /\ Delay \in Nat
  BY WheelAssumption
<1>2. TypeOK /\ StartInv /\ WheelInv /\ ~aborted
  BY DEF TimeInv, Alive
<1>3. CASE Main
  <2>1. /\ main_pc = "main" /\ conn_expired_time_' = ExpiredTime /\ main_pc' = "threads"
        /\ UNCHANGED <<timing_wheel_, life, idle, left, armed, waited, aborted>>
    BY <1>1, <1>3 DEF Main, set_conn_expired_time
  <2>2. ~armed /\ ~Running /\ left = 0 /\ \A c \in Conns : life[c] = "none" /\ idle[c] = 0
    BY <1>2, <2>1 DEF StartInv
  <2>3. ~Running'
    BY <2>1, <2>2 DEF Running
  <2>4. StartInv'
    BY <1>2, <2>1, <2>2, <2>3 DEF StartInv
  <2>5. LatestIdle' \in Nat
    <3>1. LatestIdle' = Latest
      BY <2>1 DEF LatestIdle, get_conn_check_spare, Latest, Spare, Turn
    <3>2. QED BY <3>1, LatestNat
  <2>6. TypeOK'
    BY <1>1, <1>2, <2>1, <2>2, <2>5 DEF TypeOK
  <2>7. WheelInv' /\ StartMargin'
    BY <1>2, <2>1, <2>2 DEF WheelInv, StartMargin
  <2>8. QED BY <2>4, <2>6, <2>7 DEF TimeInv
<1>4. CASE HttpRun
  <2>1. /\ main_pc = "threads" /\ ~Running /\ timing_wheel_' = [i \in 1..WheelSize |-> {}]
        /\ UNCHANGED <<conn_expired_time_, life, idle, left, main_pc, armed, waited, aborted>>
    BY <1>4 DEF HttpRun, Running
  <2>2. timing_wheel_' \in Buckets /\ Running'
    BY <2>1, WheelIsBuckets DEF Buckets, Running
  <2>3. LatestIdle' = LatestIdle
    BY <2>1 DEF LatestIdle, get_conn_check_spare
  <2>4. TypeOK'
    BY <1>2, <2>1, <2>2, <2>3 DEF TypeOK, Buckets
  <2>5. StartInv' /\ WheelInv' /\ StartMargin'
    BY <1>2, <2>1, <2>2 DEF StartInv, WheelInv, StartMargin
  <2>6. QED BY <2>4, <2>5 DEF TimeInv
<1>5. CASE CoWorkerRun
  <2>1. /\ main_pc = "threads" /\ ~armed /\ armed' = TRUE /\ left' = get_conn_check_spare
        /\ aborted' = (get_conn_check_spare = 0)
        /\ UNCHANGED <<timing_wheel_, conn_expired_time_, life, idle, main_pc, waited>>
    BY <1>5 DEF CoWorkerRun
  <2>2. left' = Spare /\ aborted' = FALSE /\ left = 0
    <3>1. get_conn_check_spare = Spare
      BY <1>2, <2>1, Started
    <3>2. Spare # 0
      BY SpareBounds
    <3>3. aborted' = FALSE
      BY <2>1, <3>1, <3>2, Zenon
    <3>4. QED BY <1>2, <2>1, <3>1, <3>3 DEF StartInv
  <2>3. LatestIdle' = LatestIdle /\ Running' = Running
    BY <2>1 DEF LatestIdle, get_conn_check_spare, Running
  <2>4. left' \in (-Delay)..ExpiredTime
    BY <1>1, <2>2, SpareBounds
  <2>5. TypeOK'
    BY <1>2, <2>1, <2>2, <2>3, <2>4 DEF TypeOK
  <2>6. StartInv'
    <3>1. ~Running' => waited' = Spare - left'
      BY <1>2, <2>1, <2>2, <2>3, SpareBounds DEF StartInv
    <3>2. QED BY <1>2, <2>1, <2>2, <2>3, <3>1, SpareBounds DEF StartInv
  <2>7. WheelInv'
    <3>1. ASSUME NEW c \in Conns, life'[c] = "served"
          PROVE  \E i \in 1..WheelSize : c \in timing_wheel_'[i] /\ idle'[c] <= IdleOf(i)'
      <4>1. PICK i \in 1..WheelSize : c \in timing_wheel_[i]
        BY <1>2, <2>1, <3>1 DEF WheelInv, InTime
      <4>2. idle'[c] = 0
        BY <1>2, <2>1 DEF StartInv
      <4>3. IdleOf(i)' = (ExpiredTime - Spare - 1) + Bound(i) + (Spare - left')
        BY DEF IdleOf, Bound, Turn, Spare
      <4>4. IdleOf(i)' >= 0
        BY <2>2, <4>3, SpareBounds, BoundSteps
      <4>5. QED BY <2>1, <4>1, <4>2, <4>4
    <3>2. QED BY <3>1 DEF WheelInv, InTime
  <2>8. QED BY <2>2, <2>5, <2>6, <2>7 DEF TimeInv, StartMargin
<1>6. QED BY <1>3, <1>4, <1>5

\* The steps of a connection, which leave the clock and the start alone.
ConnFrame == UNCHANGED <<conn_expired_time_, left, main_pc, armed, waited, aborted>>

\* A client that was in time stays in time when buckets are only filled and it
\* is not made to look more silent.
LEMMA ConnStep ==
  ASSUME TimeInv, Alive, NEW c \in Conns, Accept(c) \/ Touch(c) \/ Fail(c) \/ Retire(c)
  PROVE  TimeInv'
<1>1. WheelSize \in Nat /\ WheelSize >= 2 /\ WheelSize \in 1..WheelSize
  BY WheelAssumption
<1>2. TypeOK /\ StartInv /\ WheelInv /\ ~aborted
  BY DEF TimeInv, Alive
<1>3. ConnFrame
  BY DEF ConnFrame, Accept, Touch, Fail, Retire
<1>4. Running
  BY <1>2 DEF Accept, Touch, Fail, Retire, StartInv
<1>5. timing_wheel_ \in Buckets
  BY <1>2, <1>4, WheelIsBuckets
<1>6. /\ timing_wheel_' \in Buckets
      /\ \A i \in 1..WheelSize : timing_wheel_[i] \subseteq timing_wheel_'[i]
  BY <1>5, BackInsert DEF Accept, Touch, Fail, Retire
<1>7. /\ life' \in [Conns -> {"none", "served", "failed", "cached"}]
      /\ \A d \in Conns : d # c => life'[d] = life[d]
      /\ life'[c] = "served" => life[c] = "served" \/ Accept(c)
  BY <1>2 DEF Accept, Touch, Fail, Retire, TypeOK
<1>8. idle' = [idle EXCEPT ![c] = 0] \/ idle' = idle
  BY DEF Accept, Touch, Fail, Retire
<1>9. LatestIdle' = LatestIdle /\ LatestIdle \in Nat
  BY <1>2, <1>3, LatestNat DEF ConnFrame, LatestIdle, get_conn_check_spare
<1>10. idle' \in [Conns -> 0..(LatestIdle + 1)] /\ \A d \in Conns : idle'[d] <= idle[d]
  BY <1>2, <1>8, <1>9 DEF TypeOK
<1>11. Running'
  BY <1>6, WheelIsBuckets DEF Running
<1>12. TypeOK'
  BY <1>2, <1>3, <1>6, <1>7, <1>9, <1>10 DEF TypeOK, ConnFrame, Buckets
<1>13. StartInv'
  BY <1>2, <1>3, <1>4, <1>8, <1>11 DEF StartInv, ConnFrame, TypeOK
<1>14. ASSUME NEW i \in 1..WheelSize PROVE IdleOf(i)' = IdleOf(i) /\ IdleOf(i) \in Int
  <2>1. IdleOf(i)' = IdleOf(i)
    BY <1>3 DEF ConnFrame, IdleOf, Bound, Turn, Spare
  <2>2. QED BY <1>2, <2>1, SpareBounds, BoundSteps DEF TypeOK, IdleOf
<1>15. ASSUME NEW d \in Conns, life'[d] = "served" PROVE InTime(d)'
  <2>1. CASE d = c /\ Accept(c)
    <3>1. idle'[d] = 0 /\ c \in timing_wheel_'[WheelSize]
      BY <1>2, <1>5, <2>1, BackInsert DEF Accept, TypeOK
    <3>2. IdleOf(WheelSize) >= 0
      <4>1. left \in Int /\ left <= Spare
        BY <1>2, SpareBounds, WheelAssumption DEF StartInv, TypeOK
      <4>2. IdleOf(WheelSize) = (ExpiredTime - Spare - 1) + 0 + (Spare - left)
        BY BoundSteps DEF IdleOf
      <4>3. QED BY <4>1, <4>2, SpareBounds
    <3>3. IdleOf(WheelSize)' >= 0
      BY <1>1, <1>14, <3>2
    <3>4. QED BY <1>1, <2>1, <3>1, <3>3 DEF InTime
  <2>2. CASE ~(d = c /\ Accept(c))
    <3>1. life[d] = "served"
      BY <1>7, <1>15, <2>2
    <3>2. PICK i \in 1..WheelSize : d \in timing_wheel_[i] /\ idle[d] <= IdleOf(i)
      BY <1>2, <3>1 DEF WheelInv, InTime
    <3>3. idle'[d] <= IdleOf(i)'
      <4>1. idle[d] \in Int /\ idle'[d] \in Int
        BY <1>2, <1>9, <1>10 DEF TypeOK
      <4>2. QED BY <1>10, <1>14, <3>2, <4>1
    <3>4. QED BY <1>6, <3>2, <3>3 DEF InTime
  <2>3. QED BY <2>1, <2>2
<1>16. WheelInv'
  BY <1>15 DEF WheelInv
<1>17. QED BY <1>2, <1>3, <1>12, <1>13, <1>16 DEF TimeInv, StartMargin, ConnFrame

\* timing_wheel_check: a look at the front bucket and a turn of the wheel.
LEMMA CheckStep ==
  ASSUME TimeInv, Alive, Check \/ CheckEmpty
  PROVE  TimeInv'
<1>1. WheelSize \in Nat /\ WheelSize >= 2 /\ WheelSize \in 1..WheelSize /\ 1 \in 1..WheelSize
      /\ ExpiredTime \in Nat /\ Delay \in Nat
  BY WheelAssumption
<1>2. TypeOK /\ StartInv /\ WheelInv /\ ~aborted
  BY DEF TimeInv, Alive
<1>3. armed /\ left <= 0 /\ left \in Int
  BY <1>1, <1>2 DEF Check, CheckEmpty, TypeOK
<1>4. CASE CheckEmpty
  <2>1. /\ ~Running /\ timing_wheel_ = <<>> /\ aborted' = TRUE
        /\ UNCHANGED <<timing_wheel_, conn_expired_time_, life, idle, left, main_pc, armed,
                       waited>>
    BY <1>4 DEF CheckEmpty, Running
  <2>2. waited' >= Spare
    BY <1>2, <1>3, <2>1, SpareBounds DEF StartInv
  <2>3. StartMargin'
    BY <2>1, <2>2 DEF StartMargin, Spare
  <2>4. LatestIdle' = LatestIdle /\ Running' = Running
    BY <2>1 DEF LatestIdle, get_conn_check_spare, Running
  <2>5. TypeOK' /\ StartInv'
    BY <1>2, <2>1, <2>4 DEF TypeOK, StartInv
  <2>6. WheelInv'
    BY <1>2, <2>1 DEF WheelInv, InTime, IdleOf, Bound, Turn, Spare
  <2>7. QED BY <2>3, <2>5, <2>6 DEF TimeInv
<1>5. SUFFICES ASSUME Check PROVE TimeInv'
  BY <1>4
<1>6. Running /\ timing_wheel_ \in Buckets /\ main_pc = "threads"
  BY <1>2, <1>5, WheelIsBuckets DEF Check, StartInv
<1>7. conn_expired_time_ = ExpiredTime /\ get_conn_check_spare = Spare
  BY <1>2, <1>6, Started DEF StartInv
<1> DEFINE front == timing_wheel_[1]
           out == {c \in front : life[c] \in {"served", "failed"} /\ expired(c)}
           front_modi == {c \in front : life[c] \in {"served", "failed"}} \ out
<1>8. /\ life' = [c \in Conns |-> IF c \in out THEN "failed" ELSE life[c]]
      /\ timing_wheel_' = rotated(front_modi) /\ left' = Spare
      /\ UNCHANGED <<conn_expired_time_, idle, main_pc, armed, waited, aborted>>
  BY <1>5, <1>7 DEF Check
<1>9. front_modi \in SUBSET Conns
  BY <1>1, <1>6 DEF Buckets
<1>10. /\ timing_wheel_' \in Buckets /\ timing_wheel_'[WheelSize] = front_modi
       /\ \A i \in 2..WheelSize : timing_wheel_'[i - 1] = timing_wheel_[i]
  BY <1>6, <1>8, <1>9, Rotated
<1>11. LatestIdle' = LatestIdle
  BY <1>8 DEF LatestIdle, get_conn_check_spare
<1>12. TypeOK'
  <2>1. left' \in (-Delay)..ExpiredTime
    BY <1>1, <1>8, SpareBounds
  <2>2. life' \in [Conns -> {"none", "served", "failed", "cached"}]
    BY <1>2, <1>8 DEF TypeOK
  <2>3. QED BY <1>2, <1>8, <1>10, <1>11, <2>1, <2>2 DEF TypeOK, Buckets
<1>13. StartInv'
  <2>1. Running'
    BY <1>10, WheelIsBuckets DEF Running
  <2>2. QED BY <1>2, <1>3, <1>6, <1>8, <2>1, SpareBounds DEF StartInv
<1>14. ASSUME NEW i \in 1..WheelSize
       PROVE  /\ IdleOf(i)' = (ExpiredTime - Spare - 1) + Bound(i)
              /\ IdleOf(i) = (ExpiredTime - Spare - 1) + Bound(i) + (Spare - left)
              /\ Spare - left <= Turn
  <2>1. IdleOf(i)' = (ExpiredTime - Spare - 1) + Bound(i) + (Spare - left')
    BY DEF IdleOf, Bound, Turn, Spare
  <2>2. Spare - left <= Turn
    BY <1>1, <1>2, SpareBounds DEF TypeOK, Turn
  <2>3. QED BY <1>8, <2>1, <2>2, SpareBounds, BoundSteps DEF IdleOf
<1> HIDE DEF front, out, front_modi
<1>15. ASSUME NEW c \in Conns, life'[c] = "served" PROVE InTime(c)'
  <2>1. life[c] = "served" /\ c \notin out
    BY <1>8, <1>15
  <2>2. PICK i \in 1..WheelSize : c \in timing_wheel_[i] /\ idle[c] <= IdleOf(i)
    BY <1>2, <2>1 DEF WheelInv, InTime
  <2>3. idle[c] \in Nat /\ idle'[c] = idle[c]
    BY <1>2, <1>8, LatestNat DEF TypeOK
  <2>4. CASE i = 1
    <3>1. c \in front /\ ~expired(c)
      BY <2>1, <2>2, <2>4 DEF front, out
    <3>2. c \in timing_wheel_'[WheelSize]
      BY <1>10, <2>1, <3>1 DEF front_modi
    <3>3. idle[c] <= ExpiredTime - Spare - 1
      BY <1>1, <1>7, <2>3, <3>1, SpareBounds DEF expired
    <3>4. idle'[c] <= IdleOf(WheelSize)'
      BY <1>1, <1>14, <2>3, <3>3, BoundSteps, SpareBounds
    <3>5. QED BY <1>1, <3>2, <3>4 DEF InTime
  <2>5. CASE i # 1
    <3>1. i \in 2..WheelSize /\ i - 1 \in 1..WheelSize
      BY <1>1, <2>5
    <3>2. c \in timing_wheel_'[i - 1]
      BY <1>10, <2>2, <3>1
    <3>3. Bound(i - 1) = Bound(i) + Turn /\ Bound(i) \in Nat
      BY BoundSteps
    <3>4. IdleOf(i - 1)' = (ExpiredTime - Spare - 1) + Bound(i - 1)
      BY <1>14, <3>1
    <3>5. idle'[c] <= IdleOf(i - 1)'
      BY <1>3, <1>14, <2>2, <2>3, <3>3, <3>4, SpareBounds
    <3>6. QED BY <3>1, <3>2, <3>5 DEF InTime
  <2>6. QED BY <2>4, <2>5
<1>16. WheelInv'
  BY <1>15 DEF WheelInv
<1>17. QED BY <1>2, <1>8, <1>12, <1>13, <1>16 DEF TimeInv, StartMargin

\* A second passes for the timer and for the clients alike.
LEMMA SecondStep ==
  ASSUME TimeInv, Alive, Second
  PROVE  TimeInv'
<1>1. ExpiredTime \in Nat /\ Delay \in Nat
  BY WheelAssumption
<1>2. TypeOK /\ StartInv /\ WheelInv /\ ~aborted /\ LatestIdle \in Nat
  BY LatestNat DEF TimeInv, Alive
<1>3. /\ armed /\ left > -Delay /\ left' = left - 1 /\ left \in Int
      /\ idle' = [c \in Conns |->
                    IF life[c] \in {"served", "failed"} /\ idle[c] <= LatestIdle
                    THEN idle[c] + 1 ELSE idle[c]]
      /\ waited' = IF Running THEN waited ELSE waited + 1
      /\ UNCHANGED <<timing_wheel_, conn_expired_time_, life, main_pc, armed, aborted>>
  BY <1>1, <1>2 DEF Second, TypeOK
<1>4. LatestIdle' = LatestIdle /\ Running' = Running
  BY <1>3 DEF LatestIdle, get_conn_check_spare, Running
<1>5. idle' \in [Conns -> 0..(LatestIdle + 1)]
  BY <1>2, <1>3 DEF TypeOK
<1>6. TypeOK'
  <2>1. left' \in (-Delay)..ExpiredTime
    BY <1>1, <1>2, <1>3 DEF TypeOK
  <2>2. waited' \in 0..(ExpiredTime + Delay)
    <3>1. CASE Running
      BY <1>2, <1>3, <3>1 DEF TypeOK
    <3>2. CASE ~Running
      BY <1>1, <1>2, <1>3, <3>2, SpareBounds DEF StartInv
    <3>3. QED BY <3>1, <3>2
  <2>3. QED BY <1>2, <1>3, <1>4, <1>5, <2>1, <2>2 DEF TypeOK
<1>7. StartInv'
  <2>1. left' <= Spare /\ (~Running => waited' = Spare - left')
    BY <1>1, <1>2, <1>3, SpareBounds DEF StartInv
  <2>2. ~Running => \A c \in Conns : idle'[c] = idle[c]
    BY <1>2, <1>3 DEF StartInv
  <2>3. QED BY <1>2, <1>3, <1>4, <2>1, <2>2 DEF StartInv
<1>8. ASSUME NEW i \in 1..WheelSize PROVE IdleOf(i)' = IdleOf(i) + 1 /\ IdleOf(i) \in Int
  <2>1. IdleOf(i)' = (ExpiredTime - Spare - 1) + Bound(i) + (Spare - left')
    BY DEF IdleOf, Bound, Turn, Spare
  <2>2. QED BY <1>3, <2>1, SpareBounds, BoundSteps DEF IdleOf
<1>9. ASSUME NEW c \in Conns, life'[c] = "served" PROVE InTime(c)'
  <2>1. PICK i \in 1..WheelSize : c \in timing_wheel_[i] /\ idle[c] <= IdleOf(i)
    BY <1>2, <1>3, <1>9 DEF WheelInv, InTime
  <2>2. idle[c] \in Nat /\ idle'[c] <= idle[c] + 1 /\ idle'[c] \in Nat
    BY <1>2, <1>3, <1>5 DEF TypeOK
  <2>3. idle'[c] <= IdleOf(i)'
    BY <1>8, <2>1, <2>2
  <2>4. QED BY <1>3, <2>1, <2>3 DEF InTime
<1>10. QED BY <1>2, <1>3, <1>6, <1>7, <1>9 DEF TimeInv, StartMargin, WheelInv

\* Nothing changes.
LEMMA TimeStutter == TimeInv /\ UNCHANGED vars => TimeInv'
BY DEF vars, TimeInv, TypeOK, StartInv, WheelInv, StartMargin, InTime, IdleOf, Bound, Turn, Spare,
       Running, LatestIdle, get_conn_check_spare

\* Before main.
LEMMA TimeInit == Init => TimeInv
<1>1. SUFFICES ASSUME Init PROVE TimeInv
  OBVIOUS
<1>2. /\ WheelSize \in Nat /\ WheelSize >= 2 /\ ExpiredTime \in Nat /\ ExpiredTime > WheelSize
      /\ Delay \in Nat
  BY WheelAssumption
<1>3. conn_expired_time_ \in 0..ExpiredTime
  BY <1>1 DEF Init
<1>4. get_conn_check_spare \in Nat /\ get_conn_check_spare <= ExpiredTime \div 2
  BY <1>2, <1>3 DEF get_conn_check_spare
<1>5. LatestIdle \in Nat
  <2> DEFINE s == get_conn_check_spare
  <2> HIDE DEF s
  <2>1. WheelSize * (s + Delay) \in Nat /\ ExpiredTime - s - 1 \in Nat
    BY <1>2, <1>4 DEF s
  <2>2. QED BY <2>1 DEF LatestIdle, s
<1>6. TypeOK
  <2>1. 0 \in 0..(LatestIdle + 1) /\ 0 \in (-Delay)..ExpiredTime /\ 0 \in 0..(ExpiredTime + Delay)
    BY <1>2, <1>5
  <2>2. QED BY <1>1, <2>1 DEF Init, TypeOK
<1>7. StartInv /\ WheelInv /\ StartMargin
  BY <1>1 DEF Init, StartInv, WheelInv, StartMargin, Running
<1>8. QED BY <1>6, <1>7 DEF TimeInv

-----------------------------------------------------------------------------
(***************************************************************************)
(* The theorems                                                            *)
(***************************************************************************)

\* The inductive invariant holds in every reachable state.
THEOREM TimeSafe == Spec => []TimeInv
<1>1. TimeInv /\ [Next]_vars => TimeInv'
  BY StartStep, ConnStep, CheckStep, SecondStep, TimeStutter DEF Next
<1>2. QED BY <1>1, TimeInit, PTL DEF Spec

\* timing_wheel_check gets rid of a silent client in bounded time.
THEOREM IdleSafe == Spec => []IdleBound
<1>1. TimeInv => IdleBound
  <2>1. SUFFICES ASSUME TimeInv, NEW c \in Conns, life[c] = "served" PROVE idle[c] <= LatestIdle
    BY DEF IdleBound
  <2>2. TypeOK /\ StartInv /\ Delay \in Nat /\ ExpiredTime \in Nat
    BY <2>1, WheelAssumption DEF TimeInv
  <2>3. main_pc = "threads"
    BY <2>1, <2>2 DEF StartInv
  <2>4. LatestIdle = Latest
    BY <2>2, <2>3, Started
  <2>5. PICK i \in 1..WheelSize : idle[c] <= IdleOf(i)
    BY <2>1 DEF TimeInv, WheelInv, InTime
  <2>6. idle[c] \in Int /\ left \in Int /\ left >= -Delay
    BY <2>2, LatestNat DEF TypeOK
  <2>7. Spare - left <= Turn
    BY <2>2, <2>6, SpareBounds DEF Turn
  <2>8. IdleOf(i) <= (ExpiredTime - Spare - 1) + Bound(1) + Turn
    <3>1. Bound(i) \in Nat /\ Bound(1) \in Nat /\ Bound(i) <= Bound(1)
      BY BoundSteps, WheelAssumption
    <3>2. QED BY <2>6, <2>7, <3>1, SpareBounds DEF IdleOf
  <2>9. IdleOf(i) \in Int /\ Bound(1) + Turn = WheelSize * Turn /\ Bound(1) \in Nat
    BY <2>6, SpareBounds, BoundSteps, WheelAssumption DEF IdleOf
  <2>10. (ExpiredTime - Spare - 1) + Bound(1) + Turn = Latest
    BY <2>9, SpareBounds DEF Latest
  <2>11. QED BY <2>4, <2>5, <2>6, <2>8, <2>9, <2>10, LatestNat
<1>2. QED BY <1>1, TimeSafe, PTL

\* If the process ends at the start, the wheel was empty for a whole interval.
THEOREM MarginSafe == Spec => []StartMargin
<1>1. TimeInv => StartMargin
  BY DEF TimeInv
<1>2. QED BY <1>1, TimeSafe, PTL
=============================================================================
