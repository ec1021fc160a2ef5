-------------------------- MODULE ClientCallProofs --------------------------
(***************************************************************************)
(* Proofs about the timed calls of client_ops, for any number of timers,   *)
(* any lengths of the messages, any buffer and any slack.                  *)
(***************************************************************************)
EXTENDS ClientCall, SequenceTheorems, TLAPS

\* A callback is posted only after the deadline.
QueuedIsDue == \A t \in Timers : timer[t].pc = "queued" => timer[t].due

\* What the other side sends in one go
Sent(n1, n2) == RF!Message("m1", n1) \o RF!Message("m2", n2)

\* The first j tokens of f have been read, the others are still to come.
HeadCut(f, j) ==
  /\ read_buff = SubSeq(f, 1, j) /\ stream = SubSeq(f, j + 1, Len(f))
  /\ len = j /\ j <= BuffSize /\ buff_size = BuffSize

\* The same behind the erase, which has taken the head out of read_buff.
LoopCut(f, j, n) ==
  /\ read_buff = SubSeq(f, 3, j) /\ stream = SubSeq(f, j + 1, Len(f))
  /\ actual_len = j - 2 /\ real_len = n /\ n > 0
  /\ buff_size = RF!relarged(BuffSize - 2, n) /\ actual_len <= buff_size

\* read_buff and stream are always the two sides of one cut through what was
\* sent; a finished read is still the caller's last one.
FirstInv ==
  rf_pc = "first" =>
    /\ read_buff = <<>> /\ buff_size = BuffSize
    /\ stream = <<>> \/ \E n1, n2 \in Lens : stream = Sent(n1, n2)
HeadInv ==
  rf_pc = "head" =>
    \E n1, n2 \in Lens : \E j \in 1..Len(Sent(n1, n2)) : HeadCut(Sent(n1, n2), j)
LoopInv ==
  rf_pc = "loop" =>
    \E n1, n2 \in Lens : \E j \in 2..Len(Sent(n1, n2)) : LoopCut(Sent(n1, n2), j, n1)
EndInv ==
  /\ rf_pc \in {"first", "head", "loop", "returned"}
  /\ rf_pc = "returned" => pc = "read_timer"

ReadInv == FirstInv /\ HeadInv /\ LoopInv /\ EndInv /\ WholeWithoutError

CallInv == TypeOK /\ InTimeIsOver /\ QueuedIsDue /\ ReadInv

-----------------------------------------------------------------------------
(***************************************************************************)
(* The sequences                                                           *)
(***************************************************************************)

Token == {"len", "colon", "m1", "m2"} \X Nat

\* Two sequences put together, of known lengths
LEMMA Joined ==
  ASSUME NEW S, NEW s \in Seq(S), NEW t \in Seq(S), NEW c, NEW d, Len(s) = c, Len(t) = d
  PROVE  /\ s \o t \in Seq(S) /\ Len(s \o t) = c + d
         /\ \A i \in 1..(c + d) : (s \o t)[i] = IF i <= c THEN s[i] ELSE t[i - c]
BY ConcatProperties

\* A message: its length, a colon, its payload.
LEMMA MessageShape ==
  ASSUME NEW m \in {"m1", "m2"}, NEW n \in Nat
  PROVE  /\ RF!Message(m, n) \in Seq(Token) /\ Len(RF!Message(m, n)) = n + 2
         /\ RF!Message(m, n)[1] = <<"len", n>>
         /\ \A k \in 1..n : RF!Message(m, n)[k + 2] = <<m, k>>
<1> DEFINE h == <<RF!LenToken(n), RF!Colon>>
           p == RF!Payload(m, n)
<1>1. RF!Message(m, n) = h \o p
  BY DEF RF!Message
<1>2. p \in Seq(Token) /\ Len(p) = n /\ \A k \in 1..n : p[k] = <<m, k>>
  <2>1. ASSUME NEW k \in 1..n PROVE <<m, k>> \in Token
    BY DEF Token
  <2> HIDE DEF Token
  <2>2. p = [k \in 1..n |-> <<m, k>>]
    BY DEF RF!Payload
  <2>3. p \in [1..n -> Token]
    BY <2>1, <2>2
  <2>4. p \in Seq(Token) /\ Len(p) = n
    BY <2>3
  <2>5. QED BY <2>2, <2>4
<1>3. h \in Seq(Token) /\ Len(h) = 2 /\ h[1] = <<"len", n>>
  <2>1. <<"len", n>> \in Token /\ <<"colon", 0>> \in Token
    BY DEF Token
  <2> HIDE DEF Token
  <2>2. h = <<<<"len", n>>, <<"colon", 0>>>>
    BY DEF RF!LenToken, RF!Colon
  <2>3. QED BY <2>1, <2>2
<1> HIDE DEF h, p, Token
<1>4. /\ h \o p \in Seq(Token) /\ Len(h \o p) = 2 + n
      /\ \A i \in 1..(2 + n) : (h \o p)[i] = IF i <= 2 THEN h[i] ELSE p[i - 2]
  <2>1. h \in Seq(Token) /\ p \in Seq(Token) /\ Len(h) = 2 /\ Len(p) = n
    BY <1>2, <1>3
  <2>2. ASSUME NEW c, NEW d, c = 2, d = n
        PROVE  /\ h \o p \in Seq(Token) /\ Len(h \o p) = c + d
               /\ \A i \in 1..(c + d) : (h \o p)[i] = IF i <= c THEN h[i] ELSE p[i - c]
    <3>1. Len(h) = c /\ Len(p) = d
      BY <2>1, <2>2
    <3>2. QED BY <2>1, <3>1, Joined
  <2>3. QED BY <2>2
<1>5. (h \o p)[1] = <<"len", n>>
  BY <1>3, <1>4
<1>6. ASSUME NEW k \in 1..n PROVE (h \o p)[k + 2] = <<m, k>>
  <2>1. k + 2 \in 1..(2 + n) /\ ~(k + 2 <= 2) /\ (k + 2) - 2 = k
    OBVIOUS
  <2>2. QED BY <2>1, <1>2, <1>4
<1>7. Len(h \o p) = n + 2
  BY <1>4
<1>8. QED BY <1>1, <1>4, <1>5, <1>6, <1>7, Zenon

\* Two messages one behind the other
LEMMA SentShape ==
  ASSUME NEW n1 \in Lens, NEW n2 \in Lens
  PROVE  /\ n1 \in Nat
         /\ Sent(n1, n2) \in Seq(Token) /\ Len(Sent(n1, n2)) >= n1 + 4
         /\ Sent(n1, n2)[1][2] = n1
         /\ \A k \in 1..n1 : Sent(n1, n2)[k + 2] = <<"m1", k>>
<1>1. n1 \in Nat /\ n2 \in Nat
  BY ReadFromAssumption
<1> DEFINE a == RF!Message("m1", n1)  b == RF!Message("m2", n2)
<1>2. /\ a \in Seq(Token) /\ Len(a) = n1 + 2 /\ a[1] = <<"len", n1>>
      /\ \A k \in 1..n1 : a[k + 2] = <<"m1", k>>
  BY <1>1, MessageShape
<1>3. b \in Seq(Token) /\ Len(b) = n2 + 2
  BY <1>1, MessageShape
<1>4. Sent(n1, n2) = a \o b
  BY DEF Sent
<1> HIDE DEF a, b, Token
<1>5. /\ a \o b \in Seq(Token) /\ Len(a \o b) = (n1 + 2) + (n2 + 2)
      /\ \A i \in 1..((n1 + 2) + (n2 + 2)) :
           (a \o b)[i] = IF i <= n1 + 2 THEN a[i] ELSE b[i - (n1 + 2)]
  BY <1>2, <1>3, Joined
<1>6. ASSUME NEW i \in 1..(n1 + 2) PROVE Sent(n1, n2)[i] = a[i]
  BY <1>1, <1>4, <1>5
<1>7. Sent(n1, n2)[1] = <<"len", n1>>
  BY <1>1, <1>2, <1>6
<1>8. ASSUME NEW k \in 1..n1 PROVE Sent(n1, n2)[k + 2] = <<"m1", k>>
  <2>1. k + 2 \in 1..(n1 + 2)
    BY <1>1
  <2>2. QED BY <2>1, <1>2, <1>6
<1>9. Sent(n1, n2)[1][2] = n1
  BY <1>7
<1>10. Sent(n1, n2) \in Seq(Token) /\ Len(Sent(n1, n2)) >= n1 + 4
  BY <1>1, <1>4, <1>5
<1>11. QED BY <1>1, <1>8, <1>9, <1>10

\* A piece of a sequence, and what it holds
LEMMA Piece ==
  ASSUME NEW S, NEW f \in Seq(S), NEW i \in Nat, i >= 1, NEW j \in Nat, i <= j + 1, j <= Len(f)
  PROVE  /\ SubSeq(f, i, j) \in Seq(S) /\ Len(SubSeq(f, i, j)) = j + 1 - i
         /\ \A x \in 1..(j + 1 - i) : SubSeq(f, i, j)[x] = f[x + i - 1]
<1>1. \A x \in i..j : f[x] \in S
  OBVIOUS
<1>2. /\ SubSeq(f, i, j) \in Seq(S)
      /\ Len(SubSeq(f, i, j)) = IF i <= j THEN j - i + 1 ELSE 0
      /\ \A x \in 1..(j - i + 1) : SubSeq(f, i, j)[x] = f[i + x - 1]
  BY <1>1, SubSeqProperties
<1>3. j + 1 - i = j - i + 1 /\ (~(i <= j) => j + 1 - i = 0)
  OBVIOUS
<1>4. ASSUME NEW x \in 1..(j + 1 - i) PROVE SubSeq(f, i, j)[x] = f[x + i - 1]
  <2>1. i + x - 1 = x + i - 1
    OBVIOUS
  <2>2. QED BY <2>1, <1>2, <1>3
<1>5. QED BY <1>2, <1>3, <1>4

\* A piece of a piece
LEMMA PieceOfPiece ==
  ASSUME NEW S, NEW f \in Seq(S), NEW i \in Nat, i >= 1, NEW j \in Nat, i <= j + 1, j <= Len(f),
         NEW x \in Nat, x >= 1, NEW y \in Nat, x <= y + 1, y <= j + 1 - i
  PROVE  SubSeq(SubSeq(f, i, j), x, y) = SubSeq(f, i + x - 1, i + y - 1)
<1> DEFINE u == SubSeq(f, i, j)
           w == SubSeq(u, x, y)
           z == SubSeq(f, i + x - 1, i + y - 1)
<1>1. /\ u \in Seq(S) /\ Len(u) = j + 1 - i
      /\ \A c \in 1..(j + 1 - i) : u[c] = f[c + i - 1]
  BY Piece
<1> HIDE DEF u
<1>2. /\ w \in Seq(S) /\ Len(w) = y + 1 - x
      /\ \A c \in 1..(y + 1 - x) : w[c] = u[c + x - 1]
  BY <1>1, Piece
<1>3. /\ i + x - 1 \in Nat /\ i + x - 1 >= 1 /\ i + y - 1 \in Nat
      /\ i + x - 1 <= (i + y - 1) + 1 /\ i + y - 1 <= Len(f)
      /\ (i + y - 1) + 1 - (i + x - 1) = y + 1 - x
  OBVIOUS
<1>4. /\ z \in Seq(S) /\ Len(z) = y + 1 - x
      /\ \A c \in 1..(y + 1 - x) : z[c] = f[c + (i + x - 1) - 1]
  BY <1>3, Piece
<1>5. ASSUME NEW c \in 1..(y + 1 - x) PROVE w[c] = z[c]
  <2>1. c + x - 1 \in 1..(j + 1 - i) /\ (c + x - 1) + i - 1 = c + (i + x - 1) - 1
    OBVIOUS
  <2>2. QED BY <2>1, <1>1, <1>2, <1>4
<1> HIDE DEF w, z
<1>6. w = z
  BY <1>2, <1>4, <1>5, SeqEqual
<1>7. QED BY <1>6 DEF w, z, u

\* A read moves the cut forward by what it has read.
LEMMA CutMoves ==
  ASSUME NEW S, NEW f \in Seq(S), NEW i \in Nat, i >= 1, NEW j \in Nat, i <= j + 1,
         NEW k \in Nat, k >= 1, j + k <= Len(f)
  PROVE  /\ SubSeq(SubSeq(f, i, j), 1, j + 1 - i) \o SubSeq(SubSeq(f, j + 1, Len(f)), 1, k)
              = SubSeq(f, i, j + k)
         /\ SubSeq(SubSeq(f, j + 1, Len(f)), k + 1, Len(SubSeq(f, j + 1, Len(f))))
              = SubSeq(f, j + k + 1, Len(f))
<1>1. Len(f) \in Nat
  OBVIOUS
<1>2. Len(SubSeq(f, j + 1, Len(f))) = Len(f) - j
  BY <1>1, Piece
<1>3. SubSeq(SubSeq(f, j + 1, Len(f)), k + 1, Len(f) - j) = SubSeq(f, j + k + 1, Len(f))
  <2>1. /\ Len(f) - j \in Nat /\ k + 1 \in Nat /\ k + 1 >= 1 /\ k + 1 <= (Len(f) - j) + 1
        /\ j + 1 \in Nat /\ j + 1 >= 1 /\ j + 1 <= Len(f) + 1
        /\ Len(f) - j <= Len(f) + 1 - (j + 1)
        /\ (j + 1) + (k + 1) - 1 = j + k + 1 /\ (j + 1) + (Len(f) - j) - 1 = Len(f)
    BY <1>1
  <2>2. SubSeq(SubSeq(f, j + 1, Len(f)), k + 1, Len(f) - j)
          = SubSeq(f, (j + 1) + (k + 1) - 1, (j + 1) + (Len(f) - j) - 1)
    BY <1>1, <2>1, PieceOfPiece
  <2>3. QED BY <2>1, <2>2
<1>4. SubSeq(SubSeq(f, j + 1, Len(f)), 1, k) = SubSeq(f, j + 1, j + k)
  <2>1. /\ j + 1 \in Nat /\ j + 1 >= 1 /\ j + 1 <= Len(f) + 1 /\ 1 <= k + 1
        /\ k <= Len(f) + 1 - (j + 1) /\ (j + 1) + 1 - 1 = j + 1 /\ (j + 1) + k - 1 = j + k
    BY <1>1
  <2>2. SubSeq(SubSeq(f, j + 1, Len(f)), 1, k) = SubSeq(f, (j + 1) + 1 - 1, (j + 1) + k - 1)
    BY <1>1, <2>1, PieceOfPiece
  <2>3. QED BY <2>1, <2>2
<1>5. SubSeq(SubSeq(f, i, j), 1, j + 1 - i) = SubSeq(f, i, j)
  <2>1. /\ j + 1 - i \in Nat /\ 1 <= (j + 1 - i) + 1 /\ j <= Len(f)
        /\ i + 1 - 1 = i /\ i + (j + 1 - i) - 1 = j /\ j + 1 - i <= j + 1 - i
    BY <1>1
  <2>2. SubSeq(SubSeq(f, i, j), 1, j + 1 - i) = SubSeq(f, i + 1 - 1, i + (j + 1 - i) - 1)
    BY <1>1, <2>1, PieceOfPiece
  <2>3. QED BY <2>1, <2>2
<1>6. SubSeq(f, i, j) \o SubSeq(f, j + 1, j + k) = SubSeq(f, i, j + k)
  <2>1. i \in 1..Len(f) + 1 /\ j \in (i - 1)..Len(f) /\ j + k \in j..Len(f)
    BY <1>1
  <2>2. QED BY <2>1, ConcatAdjacentSubSeq
<1>7. QED BY <1>2, <1>3, <1>4, <1>5, <1>6

-----------------------------------------------------------------------------
(***************************************************************************)
(* The timers                                                              *)
(***************************************************************************)

Wait == [pc : {"free", "armed", "queued", "cancelled"}, due : BOOLEAN,
         left : BOOLEAN, late : BOOLEAN, stale : BOOLEAN]

\* What the timers of the running and of the earlier calls look like
WaitOK(w) ==
  /\ w \in Wait
  /\ w.left /\ ~w.late => w.pc \notin {"armed", "queued"}
  /\ w.pc = "queued" => w.due
TimersOK(ts) == ts = [t \in Timers |-> ts[t]] /\ \A t \in Timers : WaitOK(ts[t])

\* TimersOK is what the three parts of the invariant say of the timers.
LEMMA TimersMean ==
  TimersOK(timer) <=> /\ timer \in [Timers -> Wait]
                      /\ InTimeIsOver /\ QueuedIsDue
BY DEF TimersOK, WaitOK, InTimeIsOver, QueuedIsDue

\* The waits that the steps write
LEMMA WaitsOK ==
  /\ WaitOK(NoWait) /\ WaitOK([NoWait EXCEPT !.pc = "armed"])
  /\ \A w : WaitOK(w) =>
       /\ WaitOK([w EXCEPT !.stale = TRUE])
       /\ WaitOK([w EXCEPT !.left = TRUE, !.late = w.due,
                           !.pc = IF @ = "armed" THEN "cancelled" ELSE @])
       /\ w.pc = "armed" => WaitOK([w EXCEPT !.due = TRUE])
       /\ w.pc = "armed" /\ w.due => WaitOK([w EXCEPT !.pc = "queued"])
<1>1. WaitOK(NoWait) /\ WaitOK([NoWait EXCEPT !.pc = "armed"])
  BY DEF WaitOK, Wait, NoWait
<1>2. ASSUME NEW w, WaitOK(w) PROVE WaitOK([w EXCEPT !.stale = TRUE])
  BY <1>2 DEF WaitOK, Wait
<1>3. ASSUME NEW w, WaitOK(w)
      PROVE  WaitOK([w EXCEPT !.left = TRUE, !.late = w.due,
                              !.pc = IF @ = "armed" THEN "cancelled" ELSE @])
  BY <1>3, Zenon DEF WaitOK, Wait
<1>4. ASSUME NEW w, WaitOK(w), w.pc = "armed"
      PROVE  /\ WaitOK([w EXCEPT !.due = TRUE])
             /\ w.due => WaitOK([w EXCEPT !.pc = "queued"])
  BY <1>4, Zenon DEF WaitOK, Wait
<1>5. QED BY <1>1, <1>2, <1>3, <1>4

\* Writing one of the timers
LEMMA TimersExcept ==
  ASSUME NEW ts, TimersOK(ts), NEW t \in Timers, NEW w, WaitOK(w)
  PROVE  TimersOK([ts EXCEPT ![t] = w])
BY DEF TimersOK

\* The return of a timed call, and of the frame around it, keeps the timers.
LEMMA DroppedOK ==
  ASSUME TimersOK(timer), cur \in Timers
  PROVE  TimersOK(Dropped) /\ TimersOK(frame_left(Dropped))
<1>1. WaitOK(drop(cur))
  BY WaitsOK DEF drop, TimersOK
<1>2. TimersOK(Dropped)
  BY <1>1, TimersExcept DEF Dropped
<1>3. ASSUME NEW ts, TimersOK(ts) PROVE TimersOK(frame_left(ts))
  BY <1>3, WaitsOK DEF TimersOK, frame_left
<1>4. QED BY <1>2, <1>3

\* Every step keeps the timers.
LEMMA TimersStep ==
  ASSUME TypeOK, InTimeIsOver, QueuedIsDue, [Next]_callVars
  PROVE  InTimeIsOver' /\ QueuedIsDue' /\ timer' \in [Timers -> Wait]
<1>1. timer \in [Timers -> Wait]
  BY DEF TypeOK, Wait
<1>2. TimersOK(timer)
  BY <1>1, TimersMean
<1>3. (TimersOK(timer) <=> /\ timer \in [Timers -> Wait]
                           /\ InTimeIsOver /\ QueuedIsDue)'
  BY TimersMean, PTL
<1>4. SUFFICES TimersOK(timer')
  <2>1. TimersOK(timer)' <=> TimersOK(timer')
    BY DEF TimersOK
  <2>2. QED BY <2>1, <1>3, <1>4 DEF Wait
<1>5. CASE UNCHANGED timer
  BY <1>2, <1>5
<1>6. CASE \/ ConnectReturn \/ ReadReturn
  <2>1. cur \in Timers
    BY <1>6 DEF TypeOK, ConnectReturn, ReadReturn, Step
  <2>2. timer' = Dropped \/ timer' = frame_left(Dropped)
    BY <1>6 DEF ConnectReturn, ReadReturn
  <2>3. QED BY <2>1, <2>2, <1>2, DroppedOK
<1>7. CASE Arm
  <2>1. PICK t \in Timers : timer' = [timer EXCEPT ![t] = [NoWait EXCEPT !.pc = "armed"]]
    BY <1>7 DEF Arm
  <2>2. WaitOK([NoWait EXCEPT !.pc = "armed"])
    BY WaitsOK, Zenon
  <2>3. QED BY <2>1, <2>2, <1>2, TimersExcept, Zenon
<1>8. ASSUME NEW t \in Timers, Tick(t) \/ Worker(t) PROVE TimersOK(timer')
  <2>1. WaitOK(timer[t])
    BY <1>2 DEF TimersOK
  <2>2. CASE Tick(t)
    <3>1. timer' = [timer EXCEPT ![t] = [timer[t] EXCEPT !.due = TRUE]]
      BY <2>2 DEF Tick
    <3>2. timer[t].pc = "armed"
      BY <2>2, Zenon DEF Tick
    <3>3. WaitOK([timer[t] EXCEPT !.due = TRUE])
      BY <2>1, <3>2, WaitsOK, Zenon
    <3>4. QED BY <3>1, <3>3, <1>2, TimersExcept, Zenon
  <2>3. CASE Expire(t)
    <3>1. timer' = [timer EXCEPT ![t] = [timer[t] EXCEPT !.pc = "queued"]]
      BY <2>3 DEF Expire
    <3>2. timer[t].pc = "armed" /\ timer[t].due
      BY <2>3, Zenon DEF Expire
    <3>3. WaitOK([timer[t] EXCEPT !.pc = "queued"])
      BY <2>1, <3>2, WaitsOK, Zenon
    <3>4. QED BY <3>1, <3>3, <1>2, TimersExcept, Zenon
  <2>4. CASE TimedCancelSocket(t) \/ TimedCancelAborted(t)
    <3>1. timer' = [timer EXCEPT ![t] = NoWait]
      BY <2>4 DEF TimedCancelSocket, TimedCancelAborted
    <3>2. QED BY <3>1, <1>2, TimersExcept, WaitsOK
  <2>5. QED BY <1>8, <2>2, <2>3, <2>4 DEF Worker
<1>9. QED
  <2>1. CASE UNCHANGED callVars
    BY <2>1, <1>5 DEF callVars, vars
  <2>2. CASE Dead
    BY <2>2, <1>5 DEF Dead, callVars, vars
  <2>3. CASE Outside(Begin)
    BY <2>3, <1>5 DEF Outside, Begin
  <2>4. CASE CallerGoesOn
    <3>1. CASE Outside(Arm \/ ConnectOpen \/ ConnectDone \/ ConnectReturn \/ WriteSome \/ ReadShut)
      BY <3>1, <1>5, <1>6, <1>7 DEF Outside, ConnectOpen, ConnectDone, WriteSome, ReadShut
    <3>2. CASE Inside(RF!Local) \/ Inside(RF!Fail)
      BY <3>2, <1>5 DEF Inside
    <3>3. CASE Leave
      BY <3>3, <1>6 DEF Leave
    <3>4. QED BY <2>4, <3>1, <3>2, <3>3 DEF CallerGoesOn
  <2>5. CASE Peer
    BY <2>5, <1>5 DEF Peer, Outside, Inside, ReadAnswer
  <2>6. CASE \E t \in Timers : Outside(Tick(t)) \/ CoWorker(t)
    BY <2>6, <1>8 DEF Outside, CoWorker
  <2>7. QED BY <2>1, <2>2, <2>3, <2>4, <2>5, <2>6 DEF Next

\* Every step keeps the types of the other variables, and a timed call that
\* runs has its timer.
LEMMA TypeStep ==
  ASSUME TypeOK, InTimeIsOver, QueuedIsDue, [Next]_callVars
  PROVE  TypeOK'
<1>1. timer' \in [Timers -> Wait]
  BY TimersStep
<1> USE DEF TypeOK, Wait, callVars, vars
<1>2. CASE UNCHANGED vars
  BY <1>2
<1>3. CASE Begin
  BY <1>1, <1>3 DEF Begin, Step
<1>4. CASE Arm
  BY <1>1, <1>4 DEF Arm
<1>5. CASE ConnectOpen \/ ConnectDone
  BY <1>1, <1>5 DEF ConnectOpen, ConnectDone, Step
<1>6. CASE ConnectReturn
  BY <1>1, <1>6 DEF ConnectReturn
<1>7. CASE WriteSome
  BY <1>1, <1>7 DEF WriteSome
<1>8. CASE ReadAnswer \/ ReadShut \/ ReadReturn
  BY <1>1, <1>8 DEF ReadAnswer, ReadShut, ReadReturn, Step
<1>9. ASSUME NEW t \in Timers, Tick(t) \/ Worker(t) PROVE TypeOK'
  <2>1. CASE Tick(t) \/ Expire(t) \/ TimedCancelAborted(t)
    BY <1>1, <2>1 DEF Tick, Expire, TimedCancelAborted
  <2>2. CASE TimedCancelSocket(t)
    BY <1>1, <2>2 DEF TimedCancelSocket, after_shutdown
  <2>3. QED BY <1>9, <2>1, <2>2 DEF Worker
<1>10. CASE Inside(RF!Receive) \/ Inside(RF!Fail) \/ Inside(RF!Local)
  <2>1. ec' \in BOOLEAN
    BY <1>10 DEF Inside, RF!Receive, RF!Fail, RF!Local, RF!Return, RF!FirstRead, RF!SubRead,
                 RF!FirstReadFailed, RF!SubReadFailed, RF!HeadFailed, RF!HeadParsed, RF!Complete
  <2>2. /\ pc = "read_from" /\ pc' \in {"read_timer", "read_from"}
        /\ UNCHANGED <<sock, cur, timer, aborted>>
    BY <1>10 DEF Inside
  <2>3. QED BY <1>1, <2>1, <2>2
<1>11. CASE CallerGoesOn
  <2>1. CASE Outside(Arm \/ ConnectOpen \/ ConnectDone \/ ConnectReturn \/ WriteSome \/ ReadShut)
    BY <2>1, <1>4, <1>5, <1>6, <1>7, <1>8, Zenon DEF Outside
  <2>2. QED BY <1>11, <2>1, <1>8, <1>10, Zenon DEF CallerGoesOn, Leave
<1>12. CASE Peer
  <2>1. CASE RF!Send /\ UNCHANGED <<pc, sock, cur, timer, aborted>>
    BY <2>1 DEF RF!Send
  <2>2. QED BY <1>12, <2>1, <1>8, <1>10, Zenon DEF Peer, Outside
<1>13. QED
  <2>1. CASE Next
    BY <2>1, <1>2, <1>3, <1>9, <1>11, <1>12 DEF Next, Dead, Outside, CoWorker
  <2>2. QED BY <2>1, <1>2 DEF callVars

-----------------------------------------------------------------------------
(***************************************************************************)
(* sync_read_from                                                          *)
(***************************************************************************)

\* What read_some puts into read_buff and takes from the stream, when both are
\* the two sides of a cut at j through f.
LEMMA ReadSomeCuts ==
  ASSUME NEW f \in Seq(Token), NEW i \in Nat, i >= 1, NEW j \in Nat, i <= j + 1, j <= Len(f),
         read_buff = SubSeq(f, i, j), stream = SubSeq(f, j + 1, Len(f)),
         buff_size \in Nat, NEW at, at = j + 1 - i, RF!ReadSome(at)
  PROVE  \E k \in Nat : /\ k >= 1 /\ j + k <= Len(f) /\ k <= buff_size - at
                        /\ len' = k
                        /\ read_buff' = SubSeq(f, i, j + k)
                        /\ stream' = SubSeq(f, j + k + 1, Len(f))
<1>1. PICK k \in 1..RF!Min2(Len(stream), buff_size - at) :
        /\ len' = k
        /\ read_buff' = SubSeq(read_buff, 1, at) \o SubSeq(stream, 1, k)
        /\ stream' = SubSeq(stream, k + 1, Len(stream))
  BY DEF RF!ReadSome
<1>2. Len(f) \in Nat
  OBVIOUS
<1>3. Len(stream) = Len(f) - j
  BY <1>2, Piece, SMTT(30)
<1>4. k \in Nat /\ k >= 1 /\ k <= Len(f) - j /\ k <= buff_size - at
  BY <1>2, <1>3 DEF RF!Min2
<1>5. j + k <= Len(f)
  BY <1>2, <1>4
<1>6. /\ read_buff' = SubSeq(f, i, j + k)
      /\ stream' = SubSeq(f, j + k + 1, Len(f))
  <2> HIDE DEF Token
  <2>1. /\ SubSeq(SubSeq(f, i, j), 1, j + 1 - i) \o SubSeq(SubSeq(f, j + 1, Len(f)), 1, k)
              = SubSeq(f, i, j + k)
        /\ SubSeq(SubSeq(f, j + 1, Len(f)), k + 1, Len(SubSeq(f, j + 1, Len(f))))
              = SubSeq(f, j + k + 1, Len(f))
    <3>1. k \in Nat /\ k >= 1 /\ j + k <= Len(f)
      BY <1>4, <1>5
    <3>2. QED BY <3>1, CutMoves, SMTT(60)
  <2>2. /\ read_buff' = SubSeq(SubSeq(f, i, j), 1, j + 1 - i) \o SubSeq(SubSeq(f, j + 1, Len(f)), 1, k)
        /\ stream' = SubSeq(SubSeq(f, j + 1, Len(f)), k + 1, Len(SubSeq(f, j + 1, Len(f))))
    BY <1>1, Zenon
  <2>3. QED BY <2>1, <2>2, Zenon
<1>7. QED BY <1>1, <1>4, <1>5, <1>6

\* read_buff is made as large as the message, and never smaller.
LEMMA RelargedFits ==
  ASSUME NEW s \in Nat, NEW n \in Nat
  PROVE  RF!relarged(s, n) \in Nat /\ RF!relarged(s, n) >= n /\ RF!relarged(s, n) >= s
BY ReadFromAssumption DEF RF!relarged

\* The first read
LEMMA FirstReadStep ==
  ASSUME ReadInv, Inside(RF!FirstRead)
  PROVE  ReadInv'
<1>1. /\ rf_pc = "first" /\ RF!ReadSome(0) /\ rf_pc' = "head" /\ UNCHANGED buff_size
  BY DEF Inside, RF!FirstRead
<1>2. /\ read_buff = <<>> /\ buff_size = BuffSize
      /\ stream = <<>> \/ \E n1, n2 \in Lens : stream = Sent(n1, n2)
  BY <1>1 DEF ReadInv, FirstInv
<1>3. BuffSize \in Nat
  BY ReadFromAssumption
<1>4. stream # <<>>
  <2>1. Len(stream) = 0 => RF!Min2(Len(stream), buff_size - 0) <= 0
    BY <1>2, <1>3 DEF RF!Min2
  <2>2. PICK k \in 1..RF!Min2(Len(stream), buff_size - 0) : TRUE
    BY <1>1 DEF RF!ReadSome
  <2>3. QED BY <2>1, <2>2, <1>2, <1>3 DEF RF!Min2
<1>5. PICK n1 \in Lens, n2 \in Lens : stream = Sent(n1, n2)
  BY <1>2, <1>4
<1> DEFINE f == Sent(n1, n2)
<1>6. f \in Seq(Token)
  BY SentShape
<1> HIDE DEF f, Token
<1>7. read_buff = SubSeq(f, 1, 0) /\ stream = SubSeq(f, 0 + 1, Len(f))
  <2>1. SubSeq(f, 1, 0) = <<>>
    BY SubSeqEmpty
  <2>2. SubSeq(f, 1, Len(f)) = f
    BY <1>6, SubSeqFull
  <2>3. QED BY <2>1, <2>2, <1>2, <1>5 DEF f
<1>8. 0 = 0 + 1 - 1 /\ 0 \in Nat /\ 1 \in Nat /\ 1 >= 1 /\ 1 <= 0 + 1
  OBVIOUS
<1>9. 0 <= Len(f) /\ buff_size \in Nat
  BY <1>2, <1>3, <1>6
<1>10. PICK k \in Nat : /\ k >= 1 /\ 0 + k <= Len(f) /\ k <= buff_size - 0
                        /\ len' = k
                        /\ read_buff' = SubSeq(f, 1, 0 + k)
                        /\ stream' = SubSeq(f, 0 + k + 1, Len(f))
  BY <1>1, <1>6, <1>7, <1>8, <1>9, ReadSomeCuts, Zenon
<1>11. /\ 0 + k = k /\ k <= BuffSize /\ k \in 1..Len(f)
  BY <1>2, <1>3, <1>10
<1>12. HeadCut(f, k)'
  BY <1>1, <1>2, <1>10, <1>11 DEF HeadCut
<1>13. HeadInv'
  BY <1>11, <1>12 DEF HeadInv, f
<1>14. QED
  BY <1>1, <1>13 DEF ReadInv, FirstInv, LoopInv, EndInv, WholeWithoutError, RF!WholeWithoutError

\* The head is parsed and erased, and the buffer made large enough.
LEMMA HeadParsedStep ==
  ASSUME ReadInv, Inside(RF!HeadParsed)
  PROVE  ReadInv'
<1>1. /\ rf_pc = "head" /\ Len(read_buff) >= 2 /\ read_buff[1][2] # 0
      /\ real_len' = read_buff[1][2]
      /\ read_buff' = RF!erase_front(read_buff)
      /\ buff_size' = RF!relarged(buff_size - 2, read_buff[1][2])
      /\ actual_len' = len - 2
      /\ rf_pc' = "loop" /\ UNCHANGED stream
  BY DEF Inside, RF!HeadParsed
<1>2. PICK n1 \in Lens, n2 \in Lens : \E j \in 1..Len(Sent(n1, n2)) : HeadCut(Sent(n1, n2), j)
  BY <1>1 DEF ReadInv, HeadInv
<1> DEFINE f == Sent(n1, n2)
<1>3. PICK j \in 1..Len(f) : HeadCut(f, j)
  BY <1>2
<1>4. /\ n1 \in Nat /\ f \in Seq(Token) /\ f[1][2] = n1
  BY SentShape
<1> HIDE DEF f, Token
<1>5. /\ read_buff = SubSeq(f, 1, j) /\ stream = SubSeq(f, j + 1, Len(f))
      /\ len = j /\ j <= BuffSize /\ buff_size = BuffSize
  BY <1>3 DEF HeadCut
<1>6. j \in Nat /\ j >= 1 /\ j <= Len(f) /\ Len(f) \in Nat
  BY <1>4
<1>7. /\ Len(read_buff) = j + 1 - 1
      /\ \A x \in 1..(j + 1 - 1) : read_buff[x] = f[x + 1 - 1]
  BY <1>4, <1>5, <1>6, Piece
<1>8. Len(read_buff) = j /\ j >= 2 /\ read_buff[1] = f[1]
  BY <1>1, <1>6, <1>7
<1>9. read_buff[1][2] = n1 /\ n1 > 0
  BY <1>1, <1>4, <1>8
<1>10. read_buff' = SubSeq(f, 3, j)
  <2>1. read_buff' = SubSeq(SubSeq(f, 1, j), 3, j)
    BY <1>1, <1>5, <1>8 DEF RF!erase_front
  <2>2. j <= j + 1 - 1 /\ 3 <= j + 1 /\ 1 <= j + 1 /\ 1 + 3 - 1 = 3 /\ 1 + j - 1 = j
    BY <1>6, <1>8
  <2>3. SubSeq(SubSeq(f, 1, j), 3, j) = SubSeq(f, 1 + 3 - 1, 1 + j - 1)
    BY <1>4, <1>6, <2>2, PieceOfPiece
  <2>4. QED BY <2>1, <2>2, <2>3
<1>11. BuffSize - 2 \in Nat
  BY ReadFromAssumption
<1>12. /\ buff_size' = RF!relarged(BuffSize - 2, n1)
       /\ buff_size' \in Nat /\ buff_size' >= BuffSize - 2
  BY <1>1, <1>4, <1>5, <1>9, <1>11, RelargedFits
<1>13. actual_len' = j - 2 /\ actual_len' <= buff_size'
  BY <1>1, <1>5, <1>6, <1>11, <1>12, ReadFromAssumption
<1>14. LoopCut(f, j, n1)'
  BY <1>1, <1>5, <1>9, <1>10, <1>12, <1>13 DEF LoopCut
<1>15. j \in 2..Len(f)
  BY <1>6, <1>8
<1>16. LoopInv'
  BY <1>14, <1>15 DEF LoopInv, f
<1>17. QED
  BY <1>1, <1>16 DEF ReadInv, FirstInv, HeadInv, EndInv, WholeWithoutError, RF!WholeWithoutError

\* What the loop of reads rests on
LEMMA LoopMeans ==
  ASSUME LoopInv, rf_pc = "loop"
  PROVE  \E n1, n2 \in Lens : \E j \in Nat :
           LET f == Sent(n1, n2) IN
           /\ j >= 2 /\ j <= Len(f) /\ LoopCut(f, j, n1)
           /\ f \in Seq(Token) /\ n1 \in Nat /\ Len(f) \in Nat
           /\ \A k \in 1..n1 : f[k + 2] = <<"m1", k>>
           /\ buff_size \in Nat /\ buff_size >= n1
<1>1. PICK n1 \in Lens, n2 \in Lens :
        \E j \in 2..Len(Sent(n1, n2)) : LoopCut(Sent(n1, n2), j, n1)
  BY DEF LoopInv
<1>2. PICK j \in 2..Len(Sent(n1, n2)) : LoopCut(Sent(n1, n2), j, n1)
  BY <1>1
<1>3. /\ n1 \in Nat /\ Sent(n1, n2) \in Seq(Token)
      /\ \A k \in 1..n1 : Sent(n1, n2)[k + 2] = <<"m1", k>>
  BY SentShape
<1> HIDE DEF Token
<1>4. Len(Sent(n1, n2)) \in Nat
  BY <1>3
<1>5. j \in Nat /\ j >= 2 /\ j <= Len(Sent(n1, n2))
  BY <1>4
<1>6. buff_size \in Nat /\ buff_size >= n1
  <2>1. buff_size = RF!relarged(BuffSize - 2, n1)
    BY <1>2 DEF LoopCut
  <2>2. BuffSize - 2 \in Nat
    BY ReadFromAssumption
  <2>3. QED BY <2>1, <2>2, <1>3, RelargedFits
<1>7. QED BY <1>2, <1>3, <1>4, <1>5, <1>6, Zenon

\* A further read
LEMMA SubReadStep ==
  ASSUME ReadInv, Inside(RF!SubRead)
  PROVE  ReadInv'
<1>1. /\ rf_pc = "loop" /\ RF!ReadSome(actual_len) /\ actual_len' = actual_len + len'
      /\ UNCHANGED <<buff_size, rf_pc, real_len>>
  BY DEF Inside, RF!SubRead
<1>2. PICK n1 \in Lens, n2 \in Lens : \E j \in Nat :
           LET f == Sent(n1, n2) IN
           /\ j >= 2 /\ j <= Len(f) /\ LoopCut(f, j, n1)
           /\ f \in Seq(Token) /\ n1 \in Nat /\ Len(f) \in Nat
           /\ buff_size \in Nat /\ buff_size >= n1
  BY <1>1, LoopMeans, Zenon DEF ReadInv
<1> DEFINE f == Sent(n1, n2)
<1>3. PICK j \in Nat : /\ j >= 2 /\ j <= Len(f) /\ LoopCut(f, j, n1)
                      /\ f \in Seq(Token) /\ n1 \in Nat /\ Len(f) \in Nat
                      /\ buff_size \in Nat /\ buff_size >= n1
  BY <1>2, Zenon
<1> HIDE DEF f, Token
<1>4. /\ read_buff = SubSeq(f, 3, j) /\ stream = SubSeq(f, j + 1, Len(f))
      /\ actual_len = j - 2 /\ real_len = n1 /\ n1 > 0
      /\ buff_size = RF!relarged(BuffSize - 2, n1) /\ actual_len <= buff_size
  BY <1>3 DEF LoopCut
<1>5. actual_len = j + 1 - 3 /\ 3 <= j + 1 /\ 3 \in Nat /\ 3 >= 1
  BY <1>3, <1>4
<1>6. PICK k \in Nat : /\ k >= 1 /\ j + k <= Len(f) /\ k <= buff_size - actual_len
                       /\ len' = k
                       /\ read_buff' = SubSeq(f, 3, j + k)
                       /\ stream' = SubSeq(f, j + k + 1, Len(f))
  <2>1. j \in Nat /\ j <= Len(f) /\ f \in Seq(Token) /\ buff_size \in Nat
    BY <1>3
  <2>2. read_buff = SubSeq(f, 3, j) /\ stream = SubSeq(f, j + 1, Len(f))
    BY <1>4, Zenon
  <2>3. RF!ReadSome(actual_len)
    BY <1>1, Zenon
  <2>4. QED BY <2>1, <2>2, <2>3, <1>5, ReadSomeCuts, Zenon
<1>7. actual_len' = (j + k) - 2 /\ actual_len' <= buff_size /\ j + k \in 2..Len(f)
  BY <1>1, <1>3, <1>4, <1>6
<1>8. LoopCut(f, j + k, n1)'
  BY <1>1, <1>4, <1>6, <1>7 DEF LoopCut
<1>9. LoopInv'
  BY <1>7, <1>8 DEF LoopInv, f
<1>10. QED
  BY <1>1, <1>9 DEF ReadInv, FirstInv, HeadInv, EndInv, WholeWithoutError, RF!WholeWithoutError

\* The return with an error, without a message, or with all of it
LEMMA ReturnStep ==
  ASSUME ReadInv,
         \/ Inside(RF!Fail) \/ Inside(RF!HeadFailed) \/ Inside(RF!Complete)
  PROVE  ReadInv'
<1>1. rf_pc' = "returned" /\ pc' = "read_timer"
  BY DEF Inside, RF!Fail, RF!FirstReadFailed, RF!SubReadFailed, RF!HeadFailed, RF!Complete, RF!Return
<1>2. RF!WholeWithoutError'
  <2>1. CASE Inside(RF!Fail)
    BY <2>1 DEF Inside, RF!Fail, RF!FirstReadFailed, RF!SubReadFailed, RF!Return, RF!WholeWithoutError
  <2>2. CASE Inside(RF!HeadFailed)
    BY <2>2 DEF Inside, RF!HeadFailed, RF!Return, RF!WholeWithoutError
  <2>3. CASE Inside(RF!Complete)
    <3>1. /\ rf_pc = "loop" /\ ~(actual_len < real_len) /\ ret' = actual_len
          /\ UNCHANGED real_len
      BY <2>3 DEF Inside, RF!Complete, RF!incomplete, RF!Return
    <3>2. PICK n1 \in Lens, n2 \in Lens : \E j \in 2..Len(Sent(n1, n2)) : LoopCut(Sent(n1, n2), j, n1)
      BY <3>1 DEF ReadInv, LoopInv
    <3>3. n1 \in Nat /\ Sent(n1, n2) \in Seq(Token)
      BY SentShape
    <3>4. \E j \in Nat : actual_len = j - 2 /\ real_len = n1 /\ n1 > 0
      BY <3>2, <3>3 DEF LoopCut
    <3>5. real_len > 0 /\ actual_len >= real_len
      BY <3>1, <3>3, <3>4
    <3>6. QED BY <3>1, <3>5 DEF RF!WholeWithoutError
  <2>4. QED BY <2>1, <2>2, <2>3
<1>3. QED
  BY <1>1, <1>2 DEF ReadInv, FirstInv, HeadInv, LoopInv, EndInv, WholeWithoutError

\* Steps outside of sync_read_from, which leave it where it was
LEMMA ReadOutside ==
  ASSUME ReadInv, UNCHANGED rfVars, rf_pc = "returned" => UNCHANGED <<pc, ec>>
  PROVE  ReadInv'
<1>1. FirstInv' /\ HeadInv' /\ LoopInv' /\ EndInv'
  BY DEF ReadInv, rfVars, FirstInv, HeadInv, HeadCut, LoopInv, LoopCut, EndInv
<1>2. WholeWithoutError'
  BY DEF ReadInv, rfVars, WholeWithoutError, RF!WholeWithoutError
<1>3. QED BY <1>1, <1>2 DEF ReadInv

\* Every step keeps the cut through what was sent.
LEMMA ReadStep ==
  ASSUME ReadInv, [Next]_callVars
  PROVE  ReadInv'
<1>1. rf_pc = "returned" => pc = "read_timer"
  BY DEF ReadInv, EndInv
<1>2. CASE UNCHANGED callVars
  BY <1>2, ReadOutside DEF callVars, vars
<1>3. CASE Outside(Begin)
  BY <1>1, <1>3, ReadOutside DEF Outside, Begin, Step
<1>4. CASE Outside(Arm \/ ConnectOpen \/ ConnectDone \/ ConnectReturn \/ WriteSome \/ ReadShut)
  <2>1. pc # "read_timer" /\ UNCHANGED rfVars
    BY <1>4 DEF Outside, Arm, ConnectOpen, ConnectDone, ConnectReturn, WriteSome, ReadShut, Step
  <2>2. QED BY <2>1, <1>1, ReadOutside
<1>5. CASE Outside(ReadAnswer)
  BY <1>1, <1>5, ReadOutside DEF Outside, ReadAnswer, Step
<1>6. ASSUME NEW t \in Timers, Outside(Tick(t)) \/ CoWorker(t) PROVE ReadInv'
  BY <1>6, ReadOutside DEF Outside, CoWorker, Worker, Tick, Expire, TimedCancelSocket, TimedCancelAborted
<1>7. CASE Inside(RF!Local)
  BY <1>7, HeadParsedStep, ReturnStep DEF Inside, RF!Local
<1>8. CASE Inside(RF!Receive)
  BY <1>8, FirstReadStep, SubReadStep DEF Inside, RF!Receive
<1>9. CASE Inside(RF!Fail)
  BY <1>9, ReturnStep
<1>10. CASE Leave
  BY <1>10 DEF Leave, RF!Reset, ReadInv, FirstInv, HeadInv, LoopInv, EndInv,
               WholeWithoutError, RF!WholeWithoutError
<1>11. CASE RF!Send
  <2>1. \E n1, n2 \in Lens : stream' = Sent(n1, n2)
    BY <1>11 DEF RF!Send, Sent
  <2>2. rf_pc = "first" /\ UNCHANGED <<read_buff, buff_size, rf_pc>>
    BY <1>11 DEF RF!Send
  <2>3. FirstInv'
    BY <2>1, <2>2 DEF ReadInv, FirstInv
  <2>4. QED BY <2>2, <2>3 DEF ReadInv, HeadInv, LoopInv, EndInv, WholeWithoutError, RF!WholeWithoutError
<1>12. CASE CallerGoesOn
  BY <1>12, <1>4, <1>7, <1>9, <1>10, Zenon DEF CallerGoesOn
<1>13. CASE Peer
  BY <1>13, <1>5, <1>8, <1>9, <1>11, Zenon DEF Peer
<1>14. QED BY <1>2, <1>3, <1>6, <1>12, <1>13, Zenon DEF Next, Dead

-----------------------------------------------------------------------------
(***************************************************************************)
(* The theorems                                                            *)
(***************************************************************************)

\* The invariant holds at the start, before anything has been called.
LEMMA CallStarts == CallInit => CallInv
<1> SUFFICES ASSUME CallInit PROVE CallInv
  OBVIOUS
<1>1. TypeOK
  BY DEF CallInit, Init, TypeOK, NoWait
<1>2. InTimeIsOver /\ QueuedIsDue
  BY DEF CallInit, Init, InTimeIsOver, QueuedIsDue, NoWait
<1>3. ReadInv
  BY DEF CallInit, RF!Init, ReadInv, FirstInv, HeadInv, LoopInv, EndInv,
         WholeWithoutError, RF!WholeWithoutError
<1>4. QED BY <1>1, <1>2, <1>3 DEF CallInv

\* Callers, other server and co_worker thread keep the invariant of the timed
\* calls in every order of their steps.
THEOREM CallSafe == FairSpec => []CallInv
<1>1. CallInv /\ [Next]_callVars => CallInv'
  BY TypeStep, TimersStep, ReadStep DEF CallInv
<1>2. QED BY <1>1, CallStarts, PTL DEF FairSpec

\* The types of client_ops' state, and that a timed call that runs has its
\* timer.
THEOREM CallTypeCorrect == FairSpec => []TypeOK
<1>1. CallInv => TypeOK
  BY DEF CallInv
<1>2. QED BY <1>1, CallSafe, PTL

\* A timed call that returns before its deadline leaves no callback behind
\* that could touch its socket.
THEOREM InTimeSafe == FairSpec => []InTimeIsOver
<1>1. CallInv => InTimeIsOver
  BY DEF CallInv
<1>2. QED BY <1>1, CallSafe, PTL

\* Whatever the lengths, the pieces and the size of the buffer, sync_read_from
\* has room for the read it makes, and the payload of the first message stands
\* at the start of read_buff.
THEOREM PayloadSafe == FairSpec => []MessageInPlace
<1>1. CallInv => MessageInPlace
  <2> SUFFICES ASSUME LoopInv, rf_pc = "loop"
               PROVE  /\ actual_len <= buff_size
                      /\ actual_len < real_len => actual_len < buff_size
                      /\ Len(read_buff) = actual_len
                      /\ \A k \in 1..RF!Min2(actual_len, real_len) : read_buff[k] = <<"m1", k>>
    BY DEF CallInv, ReadInv, MessageInPlace, RF!ReadHasRoom, RF!PayloadInPlace
  <2>1. PICK n1 \in Lens, n2 \in Lens : \E j \in Nat :
             LET f == Sent(n1, n2) IN
             /\ j >= 2 /\ j <= Len(f) /\ LoopCut(f, j, n1)
             /\ f \in Seq(Token) /\ n1 \in Nat /\ Len(f) \in Nat
             /\ \A k \in 1..n1 : f[k + 2] = <<"m1", k>>
             /\ buff_size \in Nat /\ buff_size >= n1
    BY LoopMeans, Zenon
  <2> DEFINE f == Sent(n1, n2)
  <2>2. PICK j \in Nat : /\ j >= 2 /\ j <= Len(f) /\ LoopCut(f, j, n1)
                        /\ f \in Seq(Token) /\ n1 \in Nat /\ Len(f) \in Nat
                        /\ \A k \in 1..n1 : f[k + 2] = <<"m1", k>>
                        /\ buff_size \in Nat /\ buff_size >= n1
    BY <2>1, Zenon
  <2> HIDE DEF f, Token
  <2>3. /\ read_buff = SubSeq(f, 3, j) /\ actual_len = j - 2 /\ real_len = n1
        /\ actual_len <= buff_size
    BY <2>2 DEF LoopCut
  <2>4. /\ Len(read_buff) = j + 1 - 3
        /\ \A x \in 1..(j + 1 - 3) : read_buff[x] = f[x + 3 - 1]
    <3>1. 3 <= j + 1 /\ 3 >= 1
      BY <2>2
    <3>2. QED BY <3>1, <2>2, <2>3, Piece
  <2>5. j + 1 - 3 = actual_len
    BY <2>2, <2>3
  <2>6. ASSUME NEW k \in 1..RF!Min2(actual_len, real_len) PROVE read_buff[k] = <<"m1", k>>
    <3>1. k \in 1..n1 /\ k \in 1..(j + 1 - 3) /\ k + 3 - 1 = k + 2
      BY <2>2, <2>3 DEF RF!Min2
    <3>2. read_buff[k] = f[k + 3 - 1] /\ f[k + 2] = <<"m1", k>>
      BY <3>1, <2>2, <2>4
    <3>3. QED BY <3>1, <3>2
  <2>7. actual_len < real_len => actual_len < buff_size
    BY <2>2, <2>3
  <2>8. QED BY <2>3, <2>4, <2>5, <2>6, <2>7
<1>2. QED BY <1>1, CallSafe, PTL

\* Neither the end of the stream nor the timer's shutdown in the middle of a
\* message passes for a whole one.
THEOREM WholeSafe == FairSpec => []WholeWithoutError
<1>1. CallInv => WholeWithoutError
  BY DEF CallInv, ReadInv
<1>2. QED BY <1>1, CallSafe, PTL
=============================================================================
