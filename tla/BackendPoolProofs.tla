------------------------- MODULE BackendPoolProofs -------------------------
(***************************************************************************)
(* Proofs about the pool of backend connections, for any number of         *)
(* connections, callers and site ids.                                      *)
(***************************************************************************)
EXTENDS BackendPool, Induction, TLAPS

Stats == {"conn_working", "conn_pending", "conn_error"}
CallPc == {"idle", "fill", "do_write", "async_write_some"} \cup Searching
CallRecord == [pc : CallPc, ptr : Conns \cup {NoConn}, index : Nat, flag : Nat,
               disturbed : BOOLEAN, seen : SUBSET Nat]
WriteRecord == [conn : Conns \cup {NoConn}, sent : Callers \cup {NoCaller},
                pc : {"free", "wait"} \cup Completed]

\* The loop of on_check_timeout computes what its definition says: the store
\* after i connections comes from the store after i - 1.
LEMMA StoreDefined ==
  ASSUME NEW s \in Seq(Conns)
  PROVE  /\ pushed_back(s)[0] = <<>>
         /\ \A i \in 1..Len(s) : pushed_back(s)[i] =
              IF Failed(s[i]) THEN pushed_back(s)[i - 1]
              ELSE Append(pushed_back(s)[i - 1], s[i])
<1> DEFINE step(v, i) == IF Failed(s[i]) THEN v ELSE Append(v, s[i])
           body(g, i) == IF i = 0 THEN <<>> ELSE step(g[i - 1], i)
           Upto(g, m) == g = [i \in 0..m |-> body(g, i)]
           Good == {m \in 0..Len(s) : \E g : Upto(g, m)}
<1>1. 0 \in Good
  <2> HIDE DEF step
  <2> DEFINE g == [i \in 0..0 |-> <<>>]
  <2>1. \A i \in 0..0 : <<>> = body(g, i)
    OBVIOUS
  <2>2. Upto(g, 0)
    BY <2>1
  <2>3. 0 \in 0..Len(s)
    OBVIOUS
  <2>4. QED BY <2>2, <2>3
<1>2. ASSUME NEW m \in 0..Len(s), m < Len(s), m \in Good
      PROVE  m + 1 \in Good
  <2>1. PICK g : Upto(g, m)
    BY <1>2
  <2> HIDE DEF step
  <2> DEFINE h == [i \in 0..(m + 1) |-> IF i = m + 1 THEN step(g[m], m + 1) ELSE g[i]]
  <2>2. ASSUME NEW i \in 0..(m + 1)
        PROVE  h[i] = body(h, i)
    <3>1. CASE i = m + 1
      BY <3>1
    <3>2. CASE i # m + 1
      <4>1. i \in 0..m /\ h[i] = g[i]
        BY <3>2
      <4>2. g[i] = body(g, i)
        BY <4>1, <2>1
      <4>3. i # 0 => h[i - 1] = g[i - 1]
        BY <4>1
      <4>4. QED BY <4>1, <4>2, <4>3
    <3>3. QED BY <3>1, <3>2
  <2>3. Upto(h, m + 1)
    BY <2>2
  <2>4. m + 1 \in 0..Len(s)
    BY <1>2
  <2>5. QED BY <2>3, <2>4
<1>3. Len(s) \in Good
  <2> HIDE DEF Good
  <2>1. \A m \in 0..Len(s) : m \in Good
    BY <1>1, <1>2, Upward, Len(s) \in Nat
  <2>2. QED BY <2>1
<1>4. PICK g : Upto(g, Len(s))
  BY <1>3
<1>5. Upto(pushed_back(s), Len(s))
  BY <1>4 DEF pushed_back
<1>6. \A i \in 0..Len(s) : pushed_back(s)[i] = body(pushed_back(s), i)
  BY <1>5
<1> HIDE DEF step, Upto, Good
<1>7. 0 \in 0..Len(s) /\ \A i \in 1..Len(s) : i \in 0..Len(s) /\ i # 0
  OBVIOUS
<1>8. pushed_back(s)[0] = <<>>
  BY <1>6, <1>7
<1>9. \A i \in 1..Len(s) : pushed_back(s)[i] = step(pushed_back(s)[i - 1], i)
  BY <1>6, <1>7
<1>10. QED BY <1>8, <1>9 DEF step

Distinct(s) == \A i, j \in DOMAIN s : s[i] = s[j] => i = j

\* push_back adds one element, at the end.
LEMMA PushBack ==
  ASSUME NEW s \in Seq(Conns), NEW c \in Conns
  PROVE  /\ Append(s, c) \in Seq(Conns)
         /\ Elements(Append(s, c)) = Elements(s) \cup {c}
         /\ Distinct(s) /\ c \notin Elements(s) => Distinct(Append(s, c))
<1> DEFINE t == Append(s, c)
<1>1. /\ t \in Seq(Conns) /\ DOMAIN s = 1..Len(s) /\ DOMAIN t = 1..(Len(s) + 1)
      /\ t[Len(s) + 1] = c
      /\ \A i \in DOMAIN s : i \in DOMAIN t /\ t[i] = s[i]
      /\ \A i \in DOMAIN t : i \in DOMAIN s \/ i = Len(s) + 1
      /\ Len(s) + 1 \in DOMAIN t
  OBVIOUS
<1> HIDE DEF t
<1>2. Elements(t) = Elements(s) \cup {c}
  BY <1>1 DEF Elements
<1>3. ASSUME Distinct(s), c \notin Elements(s), NEW i \in DOMAIN t, NEW j \in DOMAIN t,
             t[i] = t[j]
      PROVE  i = j
  BY <1>1, <1>3 DEF Distinct, Elements
<1>4. QED BY <1>1, <1>2, <1>3 DEF t, Distinct

\* A removal round keeps every connection that has not failed, and no other;
\* none of them twice.
LEMMA KeptExact ==
  ASSUME NEW s \in Seq(Conns)
  PROVE  /\ Kept(s) \in Seq(Conns)
         /\ Elements(Kept(s)) = {c \in Elements(s) : ~Failed(c)}
         /\ Distinct(s) => Distinct(Kept(s))
<1> DEFINE K == pushed_back(s)
           First(m) == {c \in Conns : \E i \in 1..m : s[i] = c /\ ~Failed(c)}
           Exact(m) == /\ K[m] \in Seq(Conns) /\ Elements(K[m]) = First(m)
                       /\ Distinct(s) => Distinct(K[m])
           Good == {m \in 0..Len(s) : Exact(m)}
<1>1. /\ K[0] = <<>>
      /\ \A i \in 1..Len(s) : K[i] = IF Failed(s[i]) THEN K[i - 1] ELSE Append(K[i - 1], s[i])
  BY StoreDefined
<1> HIDE DEF K
<1>2. Exact(0)
  <2>1. K[0] \in Seq(Conns) /\ Elements(K[0]) = {} /\ Distinct(K[0])
    BY <1>1 DEF Elements, Distinct
  <2>2. First(0) = {}
    OBVIOUS
  <2>3. QED BY <2>1, <2>2
<1>3. ASSUME NEW m \in 0..Len(s), m < Len(s), Exact(m)
      PROVE  Exact(m + 1)
  <2> DEFINE n == m + 1
             c == s[n]
  <2>1. n \in 1..Len(s) /\ n - 1 = m /\ c \in Conns
    BY <1>3
  <2>2. \A i \in 1..n : i \in 1..m \/ i = n
    OBVIOUS
  <2>3. \A i \in 1..m : i \in 1..n
    OBVIOUS
  <2>4. K[n] = IF Failed(c) THEN K[m] ELSE Append(K[m], c)
    BY <1>1, <2>1
  <2>5. CASE Failed(c)
    <3>1. First(n) = First(m)
      BY <2>1, <2>2, <2>3, <2>5
    <3>2. QED BY <3>1, <2>4, <2>5, <1>3
  <2>6. CASE ~Failed(c)
    <3>1. First(n) = First(m) \cup {c}
      BY <2>1, <2>2, <2>3, <2>6
    <3>2. Distinct(s) => c \notin First(m)
      <4>1. \A i \in 1..m : i \in DOMAIN s /\ i # n
        BY <1>3
      <4>2. QED BY <4>1, <2>1 DEF Distinct
    <3> HIDE DEF First, n, c
    <3>3. /\ Append(K[m], c) \in Seq(Conns)
          /\ Elements(Append(K[m], c)) = Elements(K[m]) \cup {c}
          /\ Distinct(K[m]) /\ c \notin Elements(K[m]) => Distinct(Append(K[m], c))
      BY <1>3, <2>1, PushBack
    <3>4. QED BY <3>1, <3>2, <3>3, <2>4, <2>6, <1>3 DEF n
  <2>7. QED BY <2>5, <2>6
<1> HIDE DEF Exact
<1>4. Exact(Len(s))
  <2>1. 0 \in Good /\ \A m \in 0..Len(s) : m < Len(s) /\ m \in Good => m + 1 \in Good
    BY <1>2, <1>3
  <2> HIDE DEF Good
  <2>2. \A m \in 0..Len(s) : m \in Good
    BY <2>1, Upward, Len(s) \in Nat
  <2>3. QED BY <2>2 DEF Good
<1>5. First(Len(s)) = {c \in Elements(s) : ~Failed(c)}
  BY DEF Elements
<1>6. QED BY <1>4, <1>5 DEF Exact, Kept, K

-----------------------------------------------------------------------------
(***************************************************************************)
(* The inductive invariant.                                                *)
(***************************************************************************)

\* The vector and new_store are never both in use, and have nothing twice.
StoreApart ==
  /\ Distinct(backend_conns_) /\ Distinct(new_store)
  /\ chk_pc = "idle" => new_store = <<>>
  /\ chk_pc = "cleared" => backend_conns_ = <<>> /\ acc_pc # "start"

\* Between push_back and start the new connection is listed and untouched.
NewIsUntouched ==
  /\ new_c = NoConn <=> acc_pc # "start"
  /\ acc_pc = "start" => /\ new_c \in Elements(backend_conns_)
                         /\ stats_[new_c] = "conn_pending"
                         /\ reading[new_c] = "none"
                         /\ is_open[new_c]

WorkingIsListed == \A c \in Conns : stats_[c] = "conn_working" => c \in Listed
WorkingIsOpen == \A c \in Conns : stats_[c] = "conn_working" => is_open[c]

\* What a caller holds is still listed, or has failed.
PtrListedOrFailed ==
  \A f \in Callers : call[f].ptr # NoConn => call[f].ptr \in Listed \/ Failed(call[f].ptr)

WriteHasConn == \A f \in Callers : writing[f].pc # "free" => writing[f].conn \in Conns

ListInv ==
  /\ StoreApart /\ NewIsUntouched /\ WorkingIsListed /\ WorkingIsOpen
  /\ PtrListedOrFailed /\ WriteHasConn

\* The indices from flag to index, going round the vector.
Round(flag, index) == IF flag <= index THEN flag..index ELSE (flag..(size - 1)) \cup (0..index)

\* An undisturbed search has seen every index between its flag and its index.
SeenOf(r) ==
  /\ r.pc \in {"first", "next", "look", "copy"} => r.index < size
  /\ r.pc \in {"next", "look"} => r.flag < size
  /\ r.pc = "next" => Round(r.flag, r.index) \subseteq r.seen
  /\ r.pc = "look" => IF r.index = r.flag THEN 0..(size - 1) \subseteq r.seen
                      ELSE Round(r.flag, r.index) \ {r.index} \subseteq r.seen
  /\ r.pc = "nullptr" => 0..(size - 1) \subseteq r.seen

SearchInv == \A f \in Callers : ~call[f].disturbed => SeenOf(call[f])

BackendInv == TypeOK /\ ListInv /\ StillListening /\ DanglingHadFailed /\ SearchInv

-----------------------------------------------------------------------------
(***************************************************************************)
(* Types                                                                   *)
(***************************************************************************)

CallOK(r) == r \in CallRecord /\ (r.ptr = NoConn <=> r.pc \in {"idle"} \cup Searching)

\* The type invariant part by part
LEMMA TypeParts ==
  TypeOK <=>
    /\ backend_conns_ \in Seq(Conns) /\ new_store \in Seq(Conns)
    /\ chk_pc \in {"idle", "cleared"} /\ acc_pc \in {"idle", "start", "stopped"}
    /\ new_c \in Conns \cup {NoConn}
    /\ stats_ \in [Conns -> Stats] /\ is_open \in [Conns -> BOOLEAN]
    /\ reading \in [Conns -> {"none", "wait"} \cup Completed]
    /\ p_write_ \in [Conns -> Callers \cup {NoCaller}]
    /\ writing \in [Callers -> WriteRecord]
    /\ call \in [Callers -> CallRecord] /\ \A f \in Callers : CallOK(call[f])
    /\ aborted \in AbortReasons
BY DEF TypeOK, CallOK, CallRecord, CallPc, WriteRecord, Stats

\* A call that moves inside the search, or out of it, is a call.
LEMMA CallMoves ==
  ASSUME NEW r, CallOK(r)
  PROVE  /\ \A pc \in Searching, i \in Nat :
              r.pc \in Searching => CallOK([r EXCEPT !.index = i, !.pc = pc])
         /\ \A pc \in Searching, n \in Nat, seen \in SUBSET Nat :
              r.pc \in Searching => CallOK([r EXCEPT !.pc = pc, !.flag = n, !.seen = seen])
         /\ \A pc \in {"fill", "do_write", "async_write_some"} :
              r.pc \notin {"idle"} \cup Searching => CallOK([r EXCEPT !.pc = pc])
         /\ \A c \in Conns : CallOK([r EXCEPT !.pc = "fill", !.ptr = c])
         /\ CallOK([r EXCEPT !.disturbed = TRUE])
<1> USE BackendAssumption DEF CallOK, CallRecord, CallPc, Searching
<1>1. ASSUME NEW pc \in Searching, NEW i \in Nat, r.pc \in Searching
      PROVE  CallOK([r EXCEPT !.index = i, !.pc = pc])
  BY <1>1, Zenon
<1>2. ASSUME NEW pc \in Searching, NEW n \in Nat, NEW seen \in SUBSET Nat, r.pc \in Searching
      PROVE  CallOK([r EXCEPT !.pc = pc, !.flag = n, !.seen = seen])
  BY <1>2, Zenon
<1>3. ASSUME NEW pc \in {"fill", "do_write", "async_write_some"},
             r.pc \notin {"idle"} \cup Searching
      PROVE  CallOK([r EXCEPT !.pc = pc])
  BY <1>3, Zenon
<1>4. ASSUME NEW c \in Conns PROVE CallOK([r EXCEPT !.pc = "fill", !.ptr = c])
  BY <1>4, Zenon
<1>5. CallOK([r EXCEPT !.disturbed = TRUE])
  BY Zenon
<1>6. QED
  <2> HIDE DEF CallOK, Searching
  <2>1. QED BY <1>1, <1>2, <1>3, <1>4, <1>5

\* The records that start a call
LEMMA CallStarts ==
  /\ CallOK(NoCall)
  /\ \A i \in Nat : CallOK([NoCall EXCEPT !.pc = "modulo", !.index = i])
BY BackendAssumption DEF CallOK, CallRecord, CallPc, Searching, NoCall

\* A modification of the vector leaves the calls what they were.
LEMMA DisturbTypes ==
  ASSUME call \in [Callers -> CallRecord], \A f \in Callers : CallOK(call[f]), disturb
  PROVE  call' \in [Callers -> CallRecord] /\ \A f \in Callers : CallOK(call'[f])
<1>1. ASSUME NEW f \in Callers PROVE CallOK(call'[f])
  BY CallMoves DEF disturb
<1>2. QED BY <1>1 DEF disturb, CallOK

CallsOK == call \in [Callers -> CallRecord] /\ \A f \in Callers : CallOK(call[f])

\* One caller goes on.
LEMMA CallGoes ==
  ASSUME CallsOK, NEW f \in Callers, NEW r, CallOK(r), call' = [call EXCEPT ![f] = r]
  PROVE  CallsOK'
BY DEF CallsOK, CallOK

\* The types of what is not in the hands of the callers.
PoolTypes ==
  /\ backend_conns_ \in Seq(Conns) /\ new_store \in Seq(Conns)
  /\ chk_pc \in {"idle", "cleared"} /\ acc_pc \in {"idle", "start", "stopped"}
  /\ new_c \in Conns \cup {NoConn}
  /\ stats_ \in [Conns -> Stats] /\ is_open \in [Conns -> BOOLEAN]
  /\ reading \in [Conns -> {"none", "wait"} \cup Completed]
  /\ p_write_ \in [Conns -> Callers \cup {NoCaller}]
  /\ writing \in [Callers -> WriteRecord]
  /\ aborted \in AbortReasons

\* The types are those of the pool and those of the calls.
LEMMA TypeSplit == TypeOK <=> PoolTypes /\ CallsOK
BY TypeParts DEF PoolTypes, CallsOK

\* The same in the next state
LEMMA TypeSplitNext == TypeOK' <=> PoolTypes' /\ CallsOK'
BY TypeSplit, PTL

\* A modification of the vector keeps the types of the calls.
LEMMA DisturbCalls == CallsOK /\ disturb => CallsOK'
BY DisturbTypes DEF CallsOK

\* One step of a search keeps the types.
LEMMA SearchTypes ==
  ASSUME TypeOK, NEW f \in Callers,
         \/ Modulo(f) \/ NextIndex(f) \/ LookFirst(f) \/ Look(f) \/ Copy(f)
         \/ StaleLook(f) \/ NotFound(f)
  PROVE  TypeOK'
<1> DEFINE r == call[f]
<1>1. PoolTypes /\ CallsOK
  BY TypeSplit
<1>2. CallOK(r) /\ r.index \in Nat /\ r.flag \in Nat /\ r.seen \in SUBSET Nat
  BY <1>1 DEF CallsOK, CallOK, CallRecord
<1>3. PoolTypes'
  BY <1>1 DEF PoolTypes, Modulo, NextIndex, LookFirst, Look, Copy, StaleLook, NotFound,
              callerFrame, chkVars, accVars, objVars
<1>4. size \in Nat
  BY <1>1 DEF PoolTypes, size
<1>5. ASSUME Modulo(f) PROVE CallsOK'
  <2>1. r.index % size \in Nat /\ r.pc \in Searching /\ "first" \in Searching
    BY <1>2, <1>4, <1>5 DEF Modulo, Searching
  <2>2. CallOK([r EXCEPT !.index = r.index % size, !.pc = "first"])
    BY <2>1, <1>2, CallMoves
  <2>3. call' = [call EXCEPT ![f] = [r EXCEPT !.index = r.index % size, !.pc = "first"]]
    BY <1>1, <1>5 DEF Modulo, CallsOK
  <2>4. QED BY <1>1, <2>2, <2>3, CallGoes
<1>6. ASSUME NextIndex(f) PROVE CallsOK'
  <2>1. (r.index + 1) % size \in Nat /\ r.pc \in Searching /\ "look" \in Searching
    BY <1>2, <1>4, <1>6 DEF NextIndex, Searching
  <2>2. CallOK([r EXCEPT !.index = (r.index + 1) % size, !.pc = "look"])
    BY <2>1, <1>2, CallMoves
  <2>3. call' = [call EXCEPT ![f] = [r EXCEPT !.index = (r.index + 1) % size, !.pc = "look"]]
    BY <1>1, <1>6 DEF NextIndex, CallsOK
  <2>4. QED BY <1>1, <2>2, <2>3, CallGoes
<1>7. ASSUME LookFirst(f) PROVE CallsOK'
  <2> DEFINE pc == IF StatsAt(f) = "conn_working" THEN "copy" ELSE "next"
  <2>1. pc \in Searching /\ r.pc \in Searching /\ {r.index} \in SUBSET Nat
    BY <1>2, <1>7 DEF LookFirst, Searching
  <2> HIDE DEF pc
  <2>2. CallOK([r EXCEPT !.pc = pc, !.flag = r.index, !.seen = {r.index}])
    BY <2>1, <1>2, CallMoves
  <2>3. call' = [call EXCEPT ![f] = [r EXCEPT !.pc = pc, !.flag = r.index, !.seen = {r.index}]]
    BY <1>1, <1>7 DEF LookFirst, CallsOK, pc
  <2>4. QED BY <1>1, <2>2, <2>3, CallGoes
<1>8. ASSUME Look(f) PROVE CallsOK'
  <2> DEFINE pc == CASE StatsAt(f) = "conn_working" -> "copy"
                     [] StatsAt(f) # "conn_working" /\ ~last_look(f) -> "next"
                     [] OTHER -> "nullptr"
             seen == r.seen \cup {r.index}
  <2>1. pc \in Searching /\ r.pc \in Searching /\ seen \in SUBSET Nat
    BY <1>2, <1>8 DEF Look, Searching
  <2>2. call' = [call EXCEPT ![f] = [r EXCEPT !.pc = pc, !.seen = seen]]
    BY <1>1, <1>8 DEF Look, CallsOK
  <2> HIDE DEF pc, seen
  <2>3. CallOK([r EXCEPT !.pc = pc, !.flag = r.flag, !.seen = seen])
    BY <2>1, <1>2, CallMoves
  <2>4. [r EXCEPT !.pc = pc, !.flag = r.flag, !.seen = seen]
          = [r EXCEPT !.pc = pc, !.seen = seen]
    BY <1>2 DEF CallOK, CallRecord
  <2>5. QED BY <1>1, <2>2, <2>3, <2>4, CallGoes
<1>9. ASSUME Copy(f) PROVE CallsOK'
  <2>1. At(r.index) \in Conns
    BY <1>1, <1>2, <1>9 DEF Copy, At, size, PoolTypes
  <2>2. CallOK([r EXCEPT !.pc = "fill", !.ptr = At(r.index)])
    BY <2>1, <1>2, CallMoves
  <2>3. call' = [call EXCEPT ![f] = [r EXCEPT !.pc = "fill", !.ptr = At(r.index)]]
    BY <1>1, <1>9 DEF Copy, CallsOK
  <2>4. QED BY <1>1, <2>2, <2>3, CallGoes
<1>10. ASSUME StaleLook(f) PROVE CallsOK'
  <2> DEFINE pc == IF r.pc = "look" /\ last_look(f) THEN "nullptr" ELSE "next"
             flag == IF r.pc = "first" THEN r.index ELSE r.flag
  <2>1. pc \in Searching /\ r.pc \in Searching /\ flag \in Nat
    BY <1>2, <1>10 DEF StaleLook, Searching
  <2>2. call' = [call EXCEPT ![f] = [r EXCEPT !.pc = pc, !.flag = flag]]
    BY <1>1, <1>10 DEF StaleLook, CallsOK
  <2> HIDE DEF pc, flag
  <2>3. CallOK([r EXCEPT !.pc = pc, !.flag = flag, !.seen = r.seen])
    BY <2>1, <1>2, CallMoves
  <2>4. [r EXCEPT !.pc = pc, !.flag = flag, !.seen = r.seen]
          = [r EXCEPT !.pc = pc, !.flag = flag]
    BY <1>2 DEF CallOK, CallRecord
  <2>5. QED BY <1>1, <2>2, <2>3, <2>4, CallGoes
<1>11. ASSUME NotFound(f) PROVE CallsOK'
  BY <1>1, <1>11, CallGoes, CallStarts DEF NotFound
<1>12. QED BY <1>3, <1>5, <1>6, <1>7, <1>8, <1>9, <1>10, <1>11, TypeSplitNext

\* The end of push_backend and its beginning keep the types.
LEMMA SendTypes ==
  ASSUME TypeOK, NEW f \in Callers,
         PushBackend(f) \/ Fill(f) \/ DoWrite(f) \/ AsyncWriteSome(f)
  PROVE  TypeOK'
<1> DEFINE r == call[f]
<1>1. PoolTypes /\ CallsOK
  BY TypeSplit
<1>2. CallOK(r) /\ r.ptr \in Conns \cup {NoConn}
  BY <1>1 DEF CallsOK, CallOK, CallRecord
<1>3. ASSUME PushBackend(f) PROVE TypeOK'
  <2>1. PICK site \in Sites :
          call' = [call EXCEPT ![f] = [NoCall EXCEPT !.pc = "modulo", !.index = site]]
    BY <1>3 DEF PushBackend
  <2>2. CallOK([NoCall EXCEPT !.pc = "modulo", !.index = site])
    BY CallStarts, BackendAssumption
  <2>3. CallsOK'
    BY <1>1, <2>1, <2>2, CallGoes
  <2>4. PoolTypes'
    BY <1>1, <1>3 DEF PoolTypes, PushBackend, callerFrame, chkVars, accVars, objVars
  <2>5. QED BY <2>3, <2>4, TypeSplitNext
<1>4. ASSUME Fill(f) PROVE TypeOK'
  <2>1. r.pc = "fill" /\ r.pc \notin {"idle"} \cup Searching
    BY <1>4 DEF Fill, Searching
  <2>2. r.ptr \in Conns
    BY <1>2, <2>1 DEF CallOK
  <2>3. CallOK([r EXCEPT !.pc = "do_write"])
    BY <1>2, <2>1, CallMoves
  <2>4. call' = [call EXCEPT ![f] = [r EXCEPT !.pc = "do_write"]]
    BY <1>1, <1>4 DEF Fill, CallsOK
  <2>5. CallsOK'
    BY <1>1, <2>3, <2>4, CallGoes
  <2>6. PoolTypes'
    BY <1>1, <1>4, <2>2 DEF PoolTypes, Fill, callerFrame, chkVars, accVars, objVars
  <2>7. QED BY <2>5, <2>6, TypeSplitNext
<1>5. ASSUME DoWrite(f) PROVE TypeOK'
  <2>1. r.pc = "do_write" /\ r.pc \notin {"idle"} \cup Searching
    BY <1>5 DEF DoWrite, Searching
  <2>2. CallOK([r EXCEPT !.pc = "async_write_some"])
    BY <1>2, <2>1, CallMoves
  <2>3. \/ call' = [call EXCEPT ![f] = [r EXCEPT !.pc = "async_write_some"]]
        \/ call' = [call EXCEPT ![f] = NoCall]
    BY <1>1, <1>5 DEF DoWrite, CallsOK
  <2>4. CallsOK'
    BY <1>1, <2>2, <2>3, CallGoes, CallStarts
  <2>5. PoolTypes'
    BY <1>1, <1>5 DEF PoolTypes, DoWrite, callerFrame, chkVars, accVars, objVars
  <2>6. QED BY <2>4, <2>5, TypeSplitNext
<1>6. ASSUME AsyncWriteSome(f) PROVE TypeOK'
  <2> DEFINE w == [conn |-> r.ptr, sent |-> NoCaller,
                   pc |-> IF is_open[r.ptr] THEN "wait" ELSE "error"]
  <2>1. w \in WriteRecord
    BY <1>2 DEF WriteRecord, Completed
  <2>2. writing' = [writing EXCEPT ![f] = w]
    BY <1>6 DEF AsyncWriteSome
  <2> HIDE DEF w
  <2>3. writing' \in [Callers -> WriteRecord]
    BY <1>1, <2>1, <2>2 DEF PoolTypes
  <2>4. CallsOK'
    BY <1>1, <1>6, CallGoes, CallStarts DEF AsyncWriteSome
  <2>5. PoolTypes'
    BY <1>1, <1>6, <2>3 DEF PoolTypes, AsyncWriteSome, callerFrame, chkVars, accVars, objVars
  <2>6. QED BY <2>4, <2>5, TypeSplitNext
<1>7. QED BY <1>3, <1>4, <1>5, <1>6

\* The end of the socket cancels writes, and changes nothing else of them.
LEMMA CancelledTypes ==
  ASSUME writing \in [Callers -> WriteRecord], NEW c
  PROVE  /\ writes_cancelled(c) \in [Callers -> WriteRecord]
         /\ \A f \in Callers :
              /\ writes_cancelled(c)[f].conn = writing[f].conn
              /\ writes_cancelled(c)[f].pc = "free" <=> writing[f].pc = "free"
BY DEF writes_cancelled, WriteRecord, Completed

\* The backend thread and the reactor keep the types.
LEMMA BackendTypes ==
  ASSUME TypeOK, ListInv,
         \/ Backend \/ AcceptFailed \/ AcceptPeerGone \/ \E c \in Conns : AcceptPush(c)
         \/ \E c \in Conns : ReadComplete(c)
         \/ \E f \in Callers : WriteComplete(f)
  PROVE  TypeOK'
<1>1. PoolTypes /\ CallsOK
  BY TypeSplit
<1>2. NoWrite \in WriteRecord
  BY DEF NoWrite, WriteRecord
<1>3. SUFFICES PoolTypes' /\ CallsOK'
  BY TypeSplitNext
<1>4. UNCHANGED call => CallsOK'
  BY <1>1 DEF CallsOK
<1> USE DEF chkVars, accVars, objVars, Stats, Completed
<1>5. CASE AcceptFailed \/ AcceptPeerGone
  BY <1>1, <1>4, <1>5 DEF PoolTypes, AcceptFailed, AcceptPeerGone, AbortReasons
<1>6. CASE AcceptStart
  BY <1>1, <1>4, <1>6 DEF PoolTypes, AcceptStart
<1>7. ASSUME NEW c \in Conns, AcceptPush(c) PROVE PoolTypes' /\ CallsOK'
  <2>1. CallsOK'
    BY <1>1, <1>7, DisturbCalls DEF AcceptPush
  <2>2. Append(backend_conns_, c) \in Seq(Conns)
    BY <1>1 DEF PoolTypes
  <2>3. QED BY <1>1, <1>7, <2>1, <2>2 DEF PoolTypes, AcceptPush
<1>8. ASSUME NEW c \in Conns, ReadHandlerOk(c) \/ ReadHandlerBadSession(c)
      PROVE PoolTypes' /\ CallsOK'
  BY <1>1, <1>4, <1>8 DEF PoolTypes, ReadHandlerOk, ReadHandlerBadSession, do_read, AbortReasons
<1>9. ASSUME NEW c \in Conns, ReadHandlerError(c) PROVE PoolTypes' /\ CallsOK'
  <2>1. writes_cancelled(c) \in [Callers -> WriteRecord]
    BY <1>1, CancelledTypes DEF PoolTypes
  <2>2. QED BY <1>1, <1>4, <1>9, <2>1 DEF PoolTypes, ReadHandlerError
<1>10. ASSUME NEW c \in Conns, HandlerAfterFree(c) PROVE PoolTypes' /\ CallsOK'
  BY <1>1, <1>2, <1>4, <1>10, ZenonT(40) DEF PoolTypes, HandlerAfterFree, AbortReasons
<1>11. ASSUME NEW f \in Callers, WriteHandlerOk(f) PROVE PoolTypes' /\ CallsOK'
  BY <1>1, <1>2, <1>4, <1>11 DEF PoolTypes, WriteHandlerOk
<1>12. ASSUME NEW f \in Callers, WriteHandlerError(f) PROVE PoolTypes' /\ CallsOK'
  <2> DEFINE c == writing[f].conn
  <2>1. c \in Conns
    BY <1>12 DEF WriteHandlerError, ListInv, WriteHasConn
  <2>2. writes_cancelled(c) \in [Callers -> WriteRecord]
    BY <1>1, CancelledTypes DEF PoolTypes
  <2>3. [writes_cancelled(c) EXCEPT ![f] = NoWrite] \in [Callers -> WriteRecord]
    BY <1>2, <2>2
  <2>4. writing' \in [Callers -> WriteRecord]
    BY <1>12, <2>3 DEF WriteHandlerError
  <2>5. reading' \in [Conns -> {"none", "wait"} \cup Completed]
    BY <1>1, <1>12, <2>1 DEF WriteHandlerError, PoolTypes
  <2>6. QED BY <1>1, <1>4, <1>12, <2>1, <2>4, <2>5 DEF PoolTypes, WriteHandlerError
<1>13. CASE CheckAllOk
  BY <1>1, <1>4, <1>13 DEF PoolTypes, CheckAllOk, vars
<1>14. CASE CheckClear
  <2>1. Kept(backend_conns_) \in Seq(Conns) /\ <<>> \in Seq(Conns)
    BY <1>1, KeptExact DEF PoolTypes
  <2>2. CallsOK'
    BY <1>1, <1>14, DisturbCalls DEF CheckClear
  <2>3. QED BY <1>1, <1>14, <2>1, <2>2 DEF PoolTypes, CheckClear
<1>15. CASE CheckAssign
  <2>1. CallsOK'
    BY <1>1, <1>15, DisturbCalls DEF CheckAssign
  <2>2. QED BY <1>1, <1>15, <2>1 DEF PoolTypes, CheckAssign
<1>16. ASSUME NEW c \in Conns, ReadComplete(c) PROVE PoolTypes' /\ CallsOK'
  BY <1>1, <1>4, <1>16 DEF PoolTypes, ReadComplete, Results
<1>17. ASSUME NEW f \in Callers, WriteComplete(f) PROVE PoolTypes' /\ CallsOK'
  <2>1. writing[f].conn \in Conns /\ writing[f] \in WriteRecord
    BY <1>1, <1>17 DEF WriteComplete, ListInv, WriteHasConn, PoolTypes
  <2>2. PICK r \in {"ok", "error", "operation_aborted"} :
          writing' = [writing EXCEPT ![f].pc = r,
                        ![f].sent = IF r = "ok" THEN p_write_[writing[f].conn] ELSE NoCaller]
    BY <1>17 DEF WriteComplete, Results
  <2> DEFINE sent == IF r = "ok" THEN p_write_[writing[f].conn] ELSE NoCaller
  <2>3. sent \in Callers \cup {NoCaller}
    BY <1>1, <2>1 DEF PoolTypes
  <2> HIDE DEF sent
  <2>4. [writing[f] EXCEPT !.pc = r, !.sent = sent] \in WriteRecord
    BY <2>1, <2>3 DEF WriteRecord
  <2>5. writing' = [writing EXCEPT ![f] = [writing[f] EXCEPT !.pc = r, !.sent = sent]]
    BY <1>1, <2>2 DEF PoolTypes, sent
  <2>6. writing' \in [Callers -> WriteRecord]
    BY <1>1, <2>4, <2>5 DEF PoolTypes
  <2>7. QED BY <1>1, <1>4, <1>17, <2>6 DEF PoolTypes, WriteComplete
<1>18. QED
  BY <1>5, <1>6, <1>7, <1>8, <1>9, <1>10, <1>11, <1>12, <1>13, <1>14, <1>15, <1>16, <1>17
     DEF Backend

\* run() establishes the types.
LEMMA TypeInit == Init => TypeOK
<1>1. NoWrite \in WriteRecord
  BY DEF NoWrite, WriteRecord
<1>2. CallOK(NoCall)
  BY CallStarts
<1>3. ASSUME Init PROVE PoolTypes /\ CallsOK
  BY <1>1, <1>2, <1>3 DEF Init, PoolTypes, CallsOK, CallOK, Stats, AbortReasons
<1>4. QED BY <1>3, TypeSplit

\* Every step keeps the types.
LEMMA TypeStep == TypeOK /\ ListInv /\ [Next]_vars => TypeOK'
<1>1. SUFFICES ASSUME TypeOK, ListInv, [Next]_vars PROVE TypeOK'
  OBVIOUS
<1>2. PoolTypes /\ CallsOK
  BY <1>1, TypeSplit
<1>3. ASSUME UNCHANGED vars PROVE TypeOK'
  <2>1. PoolTypes'
    BY <1>2, <1>3 DEF vars, chkVars, accVars, objVars, PoolTypes
  <2>2. CallsOK'
    BY <1>2, <1>3 DEF vars, CallsOK
  <2>3. QED BY <2>1, <2>2, TypeSplitNext
<1>4. ASSUME NEW f \in Callers, PushNobody(f) PROVE TypeOK'
  BY <1>3, <1>4 DEF PushNobody
<1>5. ASSUME NEW f \in Callers, DivideByZero(f) \/ VectorRace(f) PROVE TypeOK'
  <2>1. PoolTypes' /\ CallsOK'
    BY <1>2, <1>5 DEF DivideByZero, VectorRace, callerFrame, PoolTypes, CallsOK, AbortReasons,
                      chkVars, accVars, objVars
  <2>2. QED BY <2>1, TypeSplitNext
<1>6. ASSUME NEW f \in Callers, PushGoesOn(f) PROVE TypeOK'
  BY <1>1, <1>5, <1>6, SearchTypes, SendTypes DEF PushGoesOn
<1>7. ASSUME Next PROVE TypeOK'
  BY <1>1, <1>3, <1>4, <1>6, <1>7, BackendTypes, SendTypes DEF Next, Dead
<1>8. QED BY <1>1, <1>3, <1>7

-----------------------------------------------------------------------------
(***************************************************************************)
(* The lists                                                               *)
(***************************************************************************)

Held(g) == call'[g].ptr \in {NoConn, call[g].ptr} \cup Elements(backend_conns_)

\* What a caller holds after its step it held before, or copies from the vector.
LEMMA CallerHolds ==
  ASSUME TypeOK, NEW f \in Callers, PushBackend(f) \/ PushGoesOn(f)
  PROVE  \A g \in Callers : Held(g)
<1>1. CallsOK /\ PoolTypes
  BY TypeSplit
<1>2. \A g \in Callers : call[g] \in CallRecord
  BY <1>1 DEF CallsOK
<1>3. CASE Copy(f)
  <2>1. At(call[f].index) \in Elements(backend_conns_)
    <3>1. call[f].index \in Nat /\ size = Len(backend_conns_) /\ backend_conns_ \in Seq(Conns)
      BY <1>1, <1>2 DEF CallRecord, size, PoolTypes
    <3>2. call[f].index + 1 \in DOMAIN backend_conns_
      BY <1>3, <3>1 DEF Copy
    <3>3. QED BY <3>2 DEF At, Elements
  <2>2. QED BY <1>1, <1>2, <1>3, <2>1 DEF Copy, Held, CallRecord, CallsOK
<1>4. CASE PushBackend(f)
  <2>1. PICK site \in Sites :
          call' = [call EXCEPT ![f] = [NoCall EXCEPT !.pc = "modulo", !.index = site]]
    BY <1>4 DEF PushBackend
  <2>2. QED BY <2>1, <1>1 DEF NoCall, Held, CallsOK
<1>5. CASE Modulo(f) \/ NextIndex(f) \/ LookFirst(f)
  BY <1>1, <1>2, <1>5 DEF Modulo, NextIndex, LookFirst, Held, CallRecord, CallsOK
<1>6. CASE Look(f)
  BY <1>1, <1>2, <1>6 DEF Look, Held, CallRecord, CallsOK
<1>7. CASE StaleLook(f)
  BY <1>1, <1>2, <1>7 DEF StaleLook, Held, CallRecord, CallsOK
<1>8. CASE NotFound(f) \/ Fill(f) \/ DoWrite(f) \/ AsyncWriteSome(f)
  BY <1>1, <1>2, <1>8 DEF NotFound, Fill, DoWrite, AsyncWriteSome, Held, CallRecord, NoCall,
                          CallsOK
<1>9. CASE DivideByZero(f) \/ VectorRace(f)
  BY <1>9 DEF DivideByZero, VectorRace, Held
<1>10. QED BY <1>3, <1>4, <1>5, <1>6, <1>7, <1>8, <1>9 DEF PushGoesOn

\* A step of a caller starts at most one write, on what it holds.
LEMMA CallerWrites ==
  ASSUME TypeOK, NEW f \in Callers, PushBackend(f) \/ PushGoesOn(f)
  PROVE  /\ callerFrame
         /\ \A g \in Callers :
              \/ writing'[g] = writing[g]
              \/ writing'[g].conn = call[g].ptr /\ call[g].ptr \in Conns
<1>1. callerFrame
  BY Zenon DEF PushBackend, PushGoesOn, Modulo, NextIndex, DivideByZero, LookFirst, Look, Copy,
     VectorRace, StaleLook, NotFound, Fill, DoWrite, AsyncWriteSome
<1>2. CASE AsyncWriteSome(f)
  <2>1. CallsOK /\ PoolTypes
    BY TypeSplit
  <2>2. CallOK(call[f]) /\ call[f].pc = "async_write_some"
    BY <2>1, <1>2 DEF CallsOK, AsyncWriteSome
  <2>3. call[f].ptr \in Conns
    BY <2>2 DEF CallOK, CallRecord, Searching
  <2>4. QED BY <1>1, <1>2, <2>1, <2>3 DEF AsyncWriteSome, PoolTypes
<1>3. CASE ~AsyncWriteSome(f)
  <2>1. writing' = writing
    BY <1>3, Zenon DEF PushBackend, PushGoesOn, Modulo, NextIndex, DivideByZero, LookFirst,
       Look, Copy, VectorRace, StaleLook, NotFound, Fill, DoWrite
  <2>2. QED BY <1>1, <2>1
<1>4. QED BY <1>2, <1>3

\* The callers leave the lists alone.
LEMMA CallerLists ==
  ASSUME TypeOK, ListInv, NEW f \in Callers, PushBackend(f) \/ PushGoesOn(f)
  PROVE  ListInv'
<1>1. callerFrame /\ \A g \in Callers : Held(g)
  BY CallerHolds, CallerWrites
<1>2. /\ UNCHANGED <<backend_conns_, new_store, chk_pc, acc_pc, new_c, stats_, is_open, reading>>
  BY <1>1 DEF callerFrame, chkVars, accVars, objVars
<1>3. StoreApart' /\ NewIsUntouched' /\ WorkingIsListed' /\ WorkingIsOpen'
  BY <1>2 DEF ListInv, StoreApart, NewIsUntouched, WorkingIsListed, WorkingIsOpen, Listed,
              Elements, Distinct
<1>4. PtrListedOrFailed'
  <2>1. Listed' = Listed /\ Elements(backend_conns_) \subseteq Listed
    BY <1>2 DEF Listed, Elements
  <2>2. ASSUME NEW g \in Callers, call'[g].ptr # NoConn
        PROVE  call'[g].ptr \in Listed \/ stats_[call'[g].ptr] = "conn_error"
    BY <1>1, <2>1, <2>2 DEF Held, ListInv, PtrListedOrFailed, Failed
  <2>3. QED BY <1>2, <2>1, <2>2 DEF PtrListedOrFailed, Failed
<1>5. WriteHasConn'
  BY CallerWrites DEF ListInv, WriteHasConn
<1>6. QED BY <1>3, <1>4, <1>5 DEF ListInv

\* ListInv conjunct by conjunct, in the next state
LEMMA ListParts == ListInv' <=>
  /\ StoreApart' /\ NewIsUntouched' /\ WorkingIsListed' /\ WorkingIsOpen'
  /\ PtrListedOrFailed' /\ WriteHasConn'
BY DEF ListInv

\* disturb changes no pointer.
LEMMA DisturbHolds ==
  ASSUME TypeOK, disturb
  PROVE  \A g \in Callers : /\ call'[g].ptr = call[g].ptr /\ call'[g].pc = call[g].pc
                            /\ call[g].pc \in Searching => call'[g].disturbed
                            /\ call[g].pc \notin Searching => call'[g] = call[g]
<1>1. \A g \in Callers : call[g] \in CallRecord
  BY TypeSplit DEF CallsOK
<1>2. QED BY <1>1 DEF disturb, CallRecord

\* The handlers of backend_conn and the reactor: the lists, the new connection
\* and the pointers stay, and what works after the step worked before it.
SameWrite(f) ==
  /\ writing'[f].pc # "free" => writing[f].pc # "free" /\ writing'[f].conn = writing[f].conn
  /\ writing'[f].conn \in {NoConn, writing[f].conn}

HandlerStep ==
  /\ UNCHANGED <<backend_conns_, new_store, chk_pc, acc_pc, new_c, call>>
  /\ \A c \in Conns : stats_'[c] = "conn_working" =>
       stats_[c] = "conn_working" /\ is_open'[c] = is_open[c]
  /\ \A c \in Conns : stats_[c] = "conn_error" => stats_'[c] = "conn_error"
  /\ acc_pc = "start" => /\ stats_'[new_c] = stats_[new_c]
                         /\ reading'[new_c] = reading[new_c]
                         /\ is_open'[new_c] = is_open[new_c]
  /\ \A f \in Callers : SameWrite(f)

Handlers ==
  \/ \E c \in Conns : \/ ReadHandlerOk(c) \/ ReadHandlerBadSession(c) \/ ReadHandlerError(c)
                      \/ HandlerAfterFree(c) \/ ReadComplete(c)
  \/ \E f \in Callers : WriteHandlerOk(f) \/ WriteHandlerError(f) \/ WriteComplete(f)

\* What the handlers of a backend may do, in one formula
LEMMA HandlersStep ==
  ASSUME TypeOK, ListInv, Handlers
  PROVE  HandlerStep
<1>1. PoolTypes
  BY TypeSplit
<1>2. acc_pc = "start" => new_c \in Conns /\ reading[new_c] = "none"
  BY <1>1 DEF ListInv, NewIsUntouched, PoolTypes
<1>3. BackendIdle => acc_pc # "start"
  BY DEF BackendIdle
<1> USE DEF chkVars, accVars, objVars
<1>4. ASSUME NEW c \in Conns, ReadHandlerOk(c) \/ ReadHandlerBadSession(c) PROVE HandlerStep
  BY <1>1, <1>3, <1>4 DEF ReadHandlerOk, ReadHandlerBadSession, HandlerStep, PoolTypes, SameWrite
<1>5. ASSUME NEW c \in Conns, ReadHandlerError(c) PROVE HandlerStep
  <2>1. \A f \in Callers : SameWrite(f)
    BY <1>1, <1>5, CancelledTypes DEF ReadHandlerError, PoolTypes, SameWrite
  <2>2. QED BY <1>1, <1>3, <1>5, <2>1 DEF ReadHandlerError, HandlerStep, PoolTypes
<1>6. ASSUME NEW c \in Conns, HandlerAfterFree(c) PROVE HandlerStep
  BY <1>1, <1>3, <1>6 DEF HandlerAfterFree, HandlerStep, PoolTypes, NoWrite, SameWrite
<1>7. ASSUME NEW c \in Conns, ReadComplete(c) PROVE HandlerStep
  <2>1. acc_pc = "start" => c # new_c
    BY <1>2, <1>7 DEF ReadComplete
  <2>2. QED BY <1>1, <1>2, <1>7, <2>1 DEF ReadComplete, HandlerStep, PoolTypes, SameWrite
<1>8. ASSUME NEW f \in Callers, WriteHandlerOk(f) PROVE HandlerStep
  BY <1>1, <1>3, <1>8 DEF WriteHandlerOk, HandlerStep, PoolTypes, NoWrite, SameWrite
<1>9. ASSUME NEW f \in Callers, WriteHandlerError(f) PROVE HandlerStep
  <2> DEFINE c == writing[f].conn
  <2>1. writing' = [writes_cancelled(c) EXCEPT ![f] = NoWrite]
    BY <1>9 DEF WriteHandlerError
  <2>2. \A g \in Callers : SameWrite(g)
    <3>1. /\ writes_cancelled(c) \in [Callers -> WriteRecord]
          /\ \A g \in Callers :
               /\ writes_cancelled(c)[g].conn = writing[g].conn
               /\ writes_cancelled(c)[g].pc = "free" <=> writing[g].pc = "free"
      BY <1>1, CancelledTypes DEF PoolTypes
    <3>2. QED BY <2>1, <3>1 DEF NoWrite, SameWrite
  <2>3. QED BY <1>1, <1>3, <1>9, <2>2 DEF WriteHandlerError, HandlerStep, PoolTypes
<1>10. ASSUME NEW f \in Callers, WriteComplete(f) PROVE HandlerStep
  <2>1. \A g \in Callers : SameWrite(g)
    <3>1. PICK r : writing' = [writing EXCEPT ![f].pc = r,
                      ![f].sent = IF r = "ok" THEN p_write_[writing[f].conn] ELSE NoCaller]
      BY <1>10 DEF WriteComplete
    <3>2. writing[f].pc = "wait" /\ \A g \in Callers : writing[g] \in WriteRecord
      BY <1>1, <1>10 DEF WriteComplete, PoolTypes
    <3>3. QED BY <1>1, <3>1, <3>2 DEF PoolTypes, WriteRecord, SameWrite
  <2>2. QED BY <1>1, <1>10, <2>1 DEF WriteComplete, HandlerStep, PoolTypes
<1>11. QED BY <1>4, <1>5, <1>6, <1>7, <1>8, <1>9, <1>10 DEF Handlers

\* The handlers keep the facts about the list.
LEMMA HandlerLists ==
  ASSUME TypeOK, ListInv, HandlerStep
  PROVE  ListInv'
<1>1. Listed' = Listed
  BY DEF HandlerStep, Listed, Elements
<1>2. StoreApart' /\ NewIsUntouched'
  BY DEF HandlerStep, ListInv, StoreApart, NewIsUntouched, Distinct, Elements
<1>3. WorkingIsListed' /\ WorkingIsOpen' /\ WriteHasConn'
  BY <1>1 DEF HandlerStep, SameWrite, ListInv, WorkingIsListed, WorkingIsOpen, WriteHasConn
<1>4. PtrListedOrFailed'
  <2>1. \A f \in Callers : call[f].ptr \in Conns \cup {NoConn}
    BY TypeSplit DEF CallsOK, CallRecord
  <2>2. QED BY <1>1, <2>1 DEF HandlerStep, ListInv, PtrListedOrFailed, Failed
<1>5. QED BY <1>2, <1>3, <1>4, ListParts

\* accept_handler
LEMMA AcceptLists ==
  ASSUME TypeOK, ListInv,
         AcceptFailed \/ AcceptPeerGone \/ AcceptStart \/ \E c \in Conns : AcceptPush(c)
  PROVE  ListInv'
<1>1. PoolTypes
  BY TypeSplit
<1> USE DEF chkVars, accVars, objVars
<1>2. CASE AcceptFailed \/ AcceptPeerGone
  <2>1. StoreApart' /\ NewIsUntouched'
    BY <1>2 DEF AcceptFailed, AcceptPeerGone, BackendIdle, ListInv, StoreApart, NewIsUntouched,
                Distinct, Elements
  <2>2. WorkingIsListed' /\ WorkingIsOpen' /\ PtrListedOrFailed' /\ WriteHasConn'
    BY <1>2 DEF AcceptFailed, AcceptPeerGone, ListInv, WorkingIsListed, WorkingIsOpen,
                PtrListedOrFailed, WriteHasConn, Listed, Elements, Failed
  <2>3. QED BY <2>1, <2>2, ListParts
<1>3. CASE AcceptStart
  <2>1. new_c \in Conns /\ new_c \in Elements(backend_conns_) /\ is_open[new_c]
    BY <1>1, <1>3 DEF AcceptStart, ListInv, NewIsUntouched, PoolTypes
  <2>2. StoreApart' /\ NewIsUntouched' /\ WriteHasConn'
    BY <1>3 DEF AcceptStart, ListInv, StoreApart, NewIsUntouched, WriteHasConn, Distinct
  <2>3. Listed' = Listed /\ new_c \in Listed
    BY <1>3, <2>1 DEF AcceptStart, Listed, Elements
  <2>4. WorkingIsListed' /\ WorkingIsOpen'
    BY <1>1, <1>3, <2>1, <2>3 DEF AcceptStart, ListInv, WorkingIsListed, WorkingIsOpen, PoolTypes
  <2>5. PtrListedOrFailed'
    BY <1>1, <1>3, <2>1, <2>3 DEF AcceptStart, ListInv, PtrListedOrFailed, Failed, PoolTypes
  <2>6. QED BY <2>2, <2>4, <2>5, ListParts
<1>4. ASSUME NEW c \in Conns, AcceptPush(c) PROVE ListInv'
  <2>1. /\ chk_pc = "idle" /\ new_store = <<>> /\ ~Alive(c) /\ reading[c] = "none"
        /\ backend_conns_' = Append(backend_conns_, c)
    BY <1>4 DEF AcceptPush, BackendIdle, ListInv, StoreApart
  <2>2. c \notin Elements(backend_conns_) /\ c \notin Listed
    BY <2>1 DEF Alive, Listed
  <2>3. /\ Distinct(Append(backend_conns_, c))
        /\ Elements(Append(backend_conns_, c)) = Elements(backend_conns_) \cup {c}
    BY <1>1, <2>2, PushBack DEF PoolTypes, ListInv, StoreApart
  <2>4. Distinct(backend_conns_)' /\ Elements(backend_conns_)' = Elements(backend_conns_) \cup {c}
    BY <2>1, <2>3 DEF Distinct, Elements
  <2>5. Listed' = Listed \cup {c}
    <3>1. Elements(new_store)' = Elements(new_store)
      BY <1>4 DEF AcceptPush, Elements
    <3>2. QED BY <2>4, <3>1 DEF Listed
  <2>6. StoreApart'
    <3>1. Distinct(new_store)' /\ chk_pc' = "idle" /\ new_store' = <<>>
      BY <1>4, <2>1 DEF AcceptPush, Distinct
    <3>2. QED BY <2>4, <3>1 DEF StoreApart
  <2>7. NewIsUntouched'
    <3>1. /\ new_c' = c /\ acc_pc' = "start" /\ stats_'[c] = "conn_pending"
          /\ reading'[c] = "none" /\ is_open'[c]
      BY <1>1, <1>4, <2>1 DEF AcceptPush, PoolTypes
    <3>2. c # NoConn
      BY BackendAssumption
    <3>3. QED BY <2>4, <3>1, <3>2 DEF NewIsUntouched
  <2>8. WorkingIsListed' /\ WorkingIsOpen'
    BY <1>1, <1>4, <2>5 DEF AcceptPush, ListInv, WorkingIsListed, WorkingIsOpen, PoolTypes
  <2>9. PtrListedOrFailed'
    <3>1. \A g \in Callers : call'[g].ptr = call[g].ptr /\ call[g].ptr # c
      BY <1>4, <2>1, DisturbHolds DEF AcceptPush, Alive
    <3>2. QED BY <1>1, <1>4, <2>5, <3>1 DEF AcceptPush, ListInv, PtrListedOrFailed, Failed,
                                            PoolTypes
  <2>10. WriteHasConn'
    BY <1>4 DEF AcceptPush, ListInv, WriteHasConn
  <2>11. QED BY <2>6, <2>7, <2>8, <2>9, <2>10, ListParts
<1>5. QED BY <1>2, <1>3, <1>4

\* on_check_timeout: what has not failed goes to new_store and back.
LEMMA CheckLists ==
  ASSUME TypeOK, ListInv, CheckClear \/ CheckAssign
  PROVE  ListInv'
<1>1. PoolTypes
  BY TypeSplit
<1> USE DEF chkVars, accVars, objVars
<1>2. /\ UNCHANGED <<acc_pc, new_c, stats_, is_open, reading, writing>>
      /\ disturb
  BY DEF CheckClear, CheckAssign
<1>3. \A g \in Callers : call'[g].ptr = call[g].ptr
  BY <1>2, DisturbHolds
<1>4. CASE CheckClear
  <2>1. /\ chk_pc = "idle" /\ acc_pc # "start" /\ new_store = <<>>
        /\ new_store' = Kept(backend_conns_) /\ backend_conns_' = <<>> /\ chk_pc' = "cleared"
    BY <1>4 DEF CheckClear, BackendIdle, ListInv, StoreApart
  <2>2. /\ Elements(Kept(backend_conns_)) = {c \in Elements(backend_conns_) : ~Failed(c)}
        /\ Distinct(Kept(backend_conns_))
    BY <1>1, KeptExact DEF PoolTypes, ListInv, StoreApart
  <2>3. Distinct(backend_conns_)' /\ Distinct(new_store)'
    BY <2>1, <2>2 DEF Distinct
  <2>4. /\ Listed = Elements(backend_conns_)
        /\ Listed' = {c \in Elements(backend_conns_) : ~Failed(c)}
    BY <2>1, <2>2 DEF Listed, Elements
  <2>5. StoreApart' /\ NewIsUntouched' /\ WriteHasConn'
    BY <1>2, <2>1, <2>3 DEF ListInv, StoreApart, NewIsUntouched, WriteHasConn
  <2>6. WorkingIsListed' /\ WorkingIsOpen'
    BY <1>2, <2>4 DEF ListInv, WorkingIsListed, WorkingIsOpen, Failed
  <2>7. PtrListedOrFailed'
    BY <1>2, <1>3, <2>4 DEF ListInv, PtrListedOrFailed, Failed
  <2>8. QED BY <2>5, <2>6, <2>7, ListParts
<1>5. CASE CheckAssign
  <2>1. /\ backend_conns_ = <<>> /\ acc_pc # "start"
        /\ new_store' = <<>> /\ backend_conns_' = new_store /\ chk_pc' = "idle"
    BY <1>5 DEF CheckAssign, ListInv, StoreApart
  <2>2. Distinct(backend_conns_)' /\ Distinct(new_store)'
    BY <2>1 DEF Distinct, ListInv, StoreApart
  <2>3. Listed' = Listed
    BY <2>1 DEF Listed, Elements
  <2>4. StoreApart' /\ NewIsUntouched' /\ WriteHasConn'
    BY <1>2, <2>1, <2>2 DEF ListInv, StoreApart, NewIsUntouched, WriteHasConn
  <2>5. WorkingIsListed' /\ WorkingIsOpen' /\ PtrListedOrFailed'
    BY <1>2, <1>3, <2>3 DEF ListInv, WorkingIsListed, WorkingIsOpen, PtrListedOrFailed, Failed
  <2>6. QED BY <2>4, <2>5, ListParts
<1>6. QED BY <1>4, <1>5

\* A step that changes nothing keeps the facts about the list.
LEMMA ListStutter == ListInv /\ UNCHANGED vars => ListInv'
BY DEF vars, chkVars, accVars, objVars, ListInv, StoreApart, NewIsUntouched, WorkingIsListed,
       WorkingIsOpen, PtrListedOrFailed, WriteHasConn, Listed, Elements, Distinct, Failed

\* Next, by what its steps have in common.
LEMMA NextKinds ==
  ASSUME Next
  PROVE  \/ Handlers \/ AcceptFailed \/ AcceptPeerGone \/ AcceptStart
         \/ \E c \in Conns : AcceptPush(c)
         \/ CheckClear \/ CheckAssign
         \/ \E f \in Callers : PushBackend(f) \/ PushGoesOn(f)
         \/ UNCHANGED vars
BY Zenon DEF Next, Backend, Handlers, CheckAllOk, PushNobody, Dead

\* Every step keeps the facts about the list.
LEMMA ListStep == TypeOK /\ ListInv /\ [Next]_vars => ListInv'
BY NextKinds, HandlersStep, HandlerLists, AcceptLists, CheckLists, CallerLists, ListStutter

\* run() establishes the facts about the list.
LEMMA ListInit == Init => ListInv
BY BackendAssumption DEF Init, ListInv, StoreApart, NewIsUntouched, WorkingIsListed, WorkingIsOpen,
   PtrListedOrFailed, WriteHasConn, Listed, Elements, Distinct, Failed, NoCall, NoWrite

-----------------------------------------------------------------------------
(***************************************************************************)
(* Reading goes on, and what dangles had failed                            *)
(***************************************************************************)

\* Being alive is being listed, new or held.
LEMMA AliveFrame ==
  ASSUME TypeOK, UNCHANGED <<backend_conns_, new_store, new_c>>, 
         \A g \in Callers : call'[g].ptr = call[g].ptr, NEW c
  PROVE  Alive(c)' <=> Alive(c)
BY DEF Alive, Elements

\* How a handler may change the reads.
ReadStep ==
  \A d \in Conns : /\ reading'[d] # "none" => reading[d] # "none"
                   /\ stats_'[d] = "conn_working" => reading'[d] # "none"
                   /\ reading'[d] = "wait" /\ Alive(d) => is_open'[d]

\* What the handlers do to the reads, in one formula
LEMMA HandlersRead ==
  ASSUME TypeOK, ListInv, StillListening, Handlers
  PROVE  ReadStep
<1>1. PoolTypes
  BY TypeSplit
<1>2. \A d \in Conns : /\ stats_[d] = "conn_working" => reading[d] # "none" /\ Alive(d) /\ is_open[d]
                       /\ reading[d] = "wait" /\ Alive(d) => is_open[d]
  BY DEF StillListening, ListInv, WorkingIsListed, WorkingIsOpen, Listed, Alive
<1>3. UNCHANGED <<stats_, is_open, reading>> => ReadStep
  BY <1>2 DEF ReadStep
<1> USE DEF chkVars, accVars, objVars
<1>4. ASSUME NEW c \in Conns, ReadHandlerOk(c) PROVE ReadStep
  BY <1>1, <1>2, <1>4 DEF ReadHandlerOk, do_read, ReadStep, PoolTypes
<1>5. ASSUME NEW c \in Conns, ReadHandlerError(c) PROVE ReadStep
  BY <1>1, <1>2, <1>5 DEF ReadHandlerError, ReadStep, PoolTypes
<1>6. ASSUME NEW c \in Conns, HandlerAfterFree(c) PROVE ReadStep
  BY <1>1, <1>2, <1>3, <1>6 DEF HandlerAfterFree, ReadStep, PoolTypes
<1>7. ASSUME NEW c \in Conns, ReadComplete(c) PROVE ReadStep
  <2>1. \E r \in {"ok", "error", "operation_aborted"} : reading' = [reading EXCEPT ![c] = r]
    BY <1>7 DEF ReadComplete, Results
  <2>2. QED BY <1>1, <1>2, <1>7, <2>1 DEF ReadComplete, ReadStep, PoolTypes
<1>8. ASSUME NEW f \in Callers, WriteHandlerError(f) PROVE ReadStep
  <2>1. writing[f].conn \in Conns
    BY <1>8 DEF WriteHandlerError, ListInv, WriteHasConn
  <2>2. QED BY <1>1, <1>2, <1>8, <2>1 DEF WriteHandlerError, ReadStep, PoolTypes
<1>9. QED BY <1>3, <1>4, <1>5, <1>6, <1>7, <1>8
          DEF Handlers, ReadHandlerBadSession, WriteHandlerOk, WriteComplete

\* The handlers leave no working backend without a read.
LEMMA HandlerReads ==
  ASSUME TypeOK, ListInv, StillListening, DanglingHadFailed, Handlers
  PROVE  StillListening' /\ DanglingHadFailed'
<1>1. HandlerStep /\ ReadStep
  BY HandlersStep, HandlersRead
<1>2. \A c \in Conns : Alive(c)' <=> Alive(c)
  BY <1>1, AliveFrame DEF HandlerStep
<1>3. StillListening'
  BY <1>1, <1>2 DEF ReadStep, StillListening
<1>4. ASSUME NEW c \in Conns, ~Alive(c)',
             reading'[c] # "none" \/ \E f \in Callers : writing'[f].conn = c
      PROVE  stats_'[c] = "conn_error"
  <2>1. \A f \in Callers : writing'[f].conn = c => writing[f].conn = c
    BY <1>1, BackendAssumption DEF HandlerStep, SameWrite
  <2>2. reading[c] # "none" \/ \E f \in Callers : writing[f].conn = c
    BY <1>1, <1>4, <2>1 DEF ReadStep
  <2>3. stats_[c] = "conn_error"
    BY <1>2, <1>4, <2>2 DEF DanglingHadFailed
  <2>4. QED BY <1>1, <2>3 DEF HandlerStep
<1>5. QED BY <1>3, <1>4 DEF DanglingHadFailed

\* Accepting: only an object without operations is given a new socket.
LEMMA AcceptReads ==
  ASSUME TypeOK, ListInv, StillListening, DanglingHadFailed,
         AcceptFailed \/ AcceptPeerGone \/ AcceptStart \/ \E c \in Conns : AcceptPush(c)
  PROVE  StillListening' /\ DanglingHadFailed'
<1>1. PoolTypes
  BY TypeSplit
<1> USE DEF chkVars, accVars, objVars
<1>2. CASE AcceptFailed \/ AcceptPeerGone
  <2>1. \A c \in Conns : Alive(c)' <=> Alive(c)
    BY <1>2, AliveFrame DEF AcceptFailed, AcceptPeerGone
  <2>2. QED BY <1>2, <2>1 DEF AcceptFailed, AcceptPeerGone, StillListening, DanglingHadFailed
<1>3. CASE AcceptStart
  <2>1. new_c \in Conns /\ new_c \in Elements(backend_conns_) /\ is_open[new_c]
    BY <1>1, <1>3 DEF AcceptStart, ListInv, NewIsUntouched, PoolTypes
  <2>2. \A c \in Conns : Alive(c)' <=> Alive(c)
    BY <1>3, <2>1, BackendAssumption DEF AcceptStart, Alive, Elements
  <2>3. Alive(new_c)
    BY <2>1 DEF Alive
  <2>4. QED BY <1>1, <1>3, <2>1, <2>2, <2>3
            DEF AcceptStart, StillListening, DanglingHadFailed, PoolTypes
<1>4. ASSUME NEW c \in Conns, AcceptPush(c) PROVE StillListening' /\ DanglingHadFailed'
  <2>1. /\ ~Alive(c) /\ reading[c] = "none" /\ \A f \in Callers : writing[f].conn # c
        /\ backend_conns_' = Append(backend_conns_, c) /\ new_c' = c /\ new_c = NoConn
        /\ new_store' = new_store
    BY <1>4 DEF AcceptPush, BackendIdle, ListInv, NewIsUntouched
  <2>2. Elements(backend_conns_)' = Elements(backend_conns_) \cup {c}
    <3>1. Elements(Append(backend_conns_, c)) = Elements(backend_conns_) \cup {c}
      BY <1>1, PushBack DEF PoolTypes
    <3>2. QED BY <2>1, <3>1 DEF Elements
  <2>3. \A g \in Callers : call'[g].ptr = call[g].ptr
    BY <1>4, DisturbHolds DEF AcceptPush
  <2>4. \A d \in Conns : Alive(d)' <=> (Alive(d) \/ d = c)
    BY <2>1, <2>2, <2>3, BackendAssumption DEF Alive, Elements
  <2>5. /\ UNCHANGED <<reading, writing>>
        /\ \A d \in Conns : d # c => stats_'[d] = stats_[d] /\ is_open'[d] = is_open[d]
        /\ stats_'[c] = "conn_pending"
    BY <1>1, <1>4 DEF AcceptPush, PoolTypes
  <2>6. QED BY <2>1, <2>4, <2>5 DEF StillListening, DanglingHadFailed
<1>5. QED BY <1>2, <1>3, <1>4

\* A removal round lets go only of what has failed, or of what is held.
LEMMA CheckReads ==
  ASSUME TypeOK, ListInv, StillListening, DanglingHadFailed, CheckClear \/ CheckAssign
  PROVE  StillListening' /\ DanglingHadFailed'
<1>1. PoolTypes
  BY TypeSplit
<1>2. UNCHANGED <<new_c, stats_, is_open, reading, writing>> /\ disturb
  BY DEF CheckClear, CheckAssign, accVars, objVars
<1>3. \A g \in Callers : call'[g].ptr = call[g].ptr
  BY <1>2, DisturbHolds
<1>4. Listed' \subseteq Listed /\ \A c \in Listed : c \in Listed' \/ Failed(c)
  <2>1. CASE CheckClear
    <3>1. /\ new_store = <<>> /\ new_store' = Kept(backend_conns_) /\ backend_conns_' = <<>>
      BY <2>1 DEF CheckClear, BackendIdle, ListInv, StoreApart
    <3>2. Elements(Kept(backend_conns_)) = {c \in Elements(backend_conns_) : ~Failed(c)}
      BY <1>1, KeptExact DEF PoolTypes
    <3>3. QED BY <3>1, <3>2 DEF Listed, Elements
  <2>2. CASE CheckAssign
    <3>1. /\ backend_conns_ = <<>> /\ new_store' = <<>> /\ backend_conns_' = new_store
      BY <2>2 DEF CheckAssign, ListInv, StoreApart
    <3>2. QED BY <3>1 DEF Listed, Elements
  <2>3. QED BY <2>1, <2>2
<1>5. \A c \in Conns : (Alive(c)' => Alive(c)) /\ (Alive(c) => Alive(c)' \/ Failed(c))
  <2>1. \A c \in Conns : Alive(c) <=> c \in Listed \/ c = new_c \/ \E f \in Callers : call[f].ptr = c
    BY DEF Alive, Listed
  <2>2. \A c \in Conns : Alive(c)' <=> c \in Listed' \/ c = new_c' \/ \E f \in Callers : call'[f].ptr = c
    BY DEF Alive, Listed
  <2>3. QED BY <1>2, <1>3, <1>4, <2>1, <2>2
<1>6. QED BY <1>2, <1>5 DEF StillListening, DanglingHadFailed, Failed

\* A caller lets go only of what is listed, or has failed.
LEMMA CallerReads ==
  ASSUME TypeOK, ListInv, StillListening, DanglingHadFailed,
         NEW f \in Callers, PushBackend(f) \/ PushGoesOn(f)
  PROVE  StillListening' /\ DanglingHadFailed'
<1>1. /\ callerFrame /\ \A g \in Callers : Held(g)
      /\ \A g \in Callers : \/ writing'[g] = writing[g]
                            \/ writing'[g].conn = call[g].ptr /\ call[g].ptr \in Conns
  BY CallerHolds, CallerWrites
<1>2. UNCHANGED <<backend_conns_, new_store, new_c, stats_, is_open, reading>>
  BY <1>1 DEF callerFrame, chkVars, accVars, objVars
<1>3. \A c \in Conns : Alive(c)' => Alive(c)
  BY <1>1, <1>2, BackendAssumption DEF Alive, Held, Elements
<1>4. \A c \in Conns : ~Alive(c)' /\ (\E g \in Callers : call[g].ptr = c) => stats_[c] = "conn_error"
  <2>1. \A c \in Conns : c \in Listed => Alive(c)'
    BY <1>2 DEF Alive, Listed, Elements
  <2>2. QED BY <2>1, BackendAssumption DEF ListInv, PtrListedOrFailed, Failed
<1>5. \A c \in Conns : Alive(c) => Alive(c)' \/ \E g \in Callers : call[g].ptr = c
  BY <1>2 DEF Alive, Elements
<1>6. StillListening'
  BY <1>2, <1>3 DEF StillListening
<1>7. ASSUME NEW c \in Conns, ~Alive(c)',
             reading'[c] # "none" \/ \E g \in Callers : writing'[g].conn = c
      PROVE  stats_'[c] = "conn_error"
  <2>1. CASE \E g \in Callers : call[g].ptr = c
    BY <1>2, <1>4, <1>7, <2>1
  <2>2. CASE ~\E g \in Callers : call[g].ptr = c
    <3>1. ~Alive(c)
      BY <1>5, <1>7, <2>2
    <3>2. \A g \in Callers : writing'[g].conn = c => writing[g].conn = c
      BY <1>1, <2>2
    <3>3. QED BY <1>2, <1>7, <3>1, <3>2 DEF DanglingHadFailed
  <2>3. QED BY <2>1, <2>2
<1>8. QED BY <1>6, <1>7 DEF DanglingHadFailed

\* A step that changes nothing keeps the reads.
LEMMA ReadsStutter ==
  StillListening /\ DanglingHadFailed /\ UNCHANGED vars => StillListening' /\ DanglingHadFailed'
BY DEF vars, chkVars, accVars, objVars, StillListening, DanglingHadFailed, Alive, Elements

\* Every step keeps the facts about reads and handlers.
LEMMA ReadsStep ==
  TypeOK /\ ListInv /\ StillListening /\ DanglingHadFailed /\ [Next]_vars
    => StillListening' /\ DanglingHadFailed'
BY NextKinds, HandlerReads, AcceptReads, CheckReads, CallerReads, ReadsStutter

\* run() establishes the facts about reads and handlers.
LEMMA ReadsInit == Init => StillListening /\ DanglingHadFailed
BY BackendAssumption DEF Init, StillListening, DanglingHadFailed, NoWrite

-----------------------------------------------------------------------------
(***************************************************************************)
(* The search                                                              *)
(***************************************************************************)

\* (index+1)%backend_conns_.size() goes round the vector.
LEMMA WrapsRound ==
  ASSUME NEW n \in Nat \ {0}, NEW i \in 0..(n - 1)
  PROVE  (i + 1) % n = IF i + 1 = n THEN 0 ELSE i + 1
OBVIOUS

\* One index on, the round is longer by that index, or complete.
LEMMA RoundGrows ==
  ASSUME size \in Nat, size # 0, NEW flag \in 0..(size - 1), NEW i \in 0..(size - 1),
         NEW seen, Round(flag, i) \subseteq seen, NEW j, j = (i + 1) % size
  PROVE  /\ j \in 0..(size - 1)
         /\ IF j = flag THEN 0..(size - 1) \subseteq seen
            ELSE Round(flag, j) \ {j} \subseteq seen
<1>1. j = IF i + 1 = size THEN 0 ELSE i + 1
  BY WrapsRound
<1>2. j \in 0..(size - 1)
  BY <1>1
<1>3. CASE j = flag
  <2>1. 0..(size - 1) \subseteq Round(flag, i)
    BY <1>1, <1>3 DEF Round
  <2>2. QED BY <1>2, <1>3, <2>1
<1>4. CASE j # flag
  <2>1. Round(flag, j) \ {j} \subseteq Round(flag, i)
    BY <1>1, <1>4 DEF Round
  <2>2. QED BY <1>2, <1>4, <2>1
<1>5. QED BY <1>3, <1>4

\* A step of a caller's search.
LEMMA CallerSearch ==
  ASSUME TypeOK, SearchInv, NEW f \in Callers, PushBackend(f) \/ PushGoesOn(f)
  PROVE  SearchInv'
<1> DEFINE r == call[f]
           q == call'[f]
<1>1. PoolTypes /\ CallsOK /\ r \in CallRecord /\ size \in Nat
  BY TypeSplit DEF CallsOK, PoolTypes, size
<1>2. size' = size
  BY CallerWrites DEF callerFrame, size
<1>3. \A g \in Callers : g # f => call'[g] = call[g]
  <2>1. \A g \in Callers : g # f =>
          \A x : [call EXCEPT ![f] = x][g] = call[g]
    BY <1>1 DEF CallsOK
  <2>2. CASE PushBackend(f)
    BY <1>1, <2>2 DEF PushBackend, CallsOK
  <2>3. CASE PushGoesOn(f)
    BY <1>1, <2>3 DEF PushGoesOn, Modulo, NextIndex, DivideByZero, LookFirst, Look, Copy,
       VectorRace, StaleLook, NotFound, Fill, DoWrite, AsyncWriteSome, CallsOK
  <2>4. QED BY <2>2, <2>3
<1>4. SUFFICES ASSUME ~q.disturbed PROVE SeenOf(q)
  <2>1. ASSUME NEW x PROVE SeenOf(x)' <=> SeenOf(x)
    BY <1>2 DEF SeenOf, Round
  <2>2. ASSUME NEW g \in Callers, ~call'[g].disturbed PROVE SeenOf(call'[g])
    BY <1>3, <1>4, <2>2 DEF SearchInv
  <2>3. QED BY <1>2, <2>2 DEF SearchInv, SeenOf, Round
<1>5. q.pc \in {"idle", "modulo", "fill", "do_write", "async_write_some"} => SeenOf(q)
  BY DEF SeenOf
<1>6. CASE PushBackend(f)
  BY <1>1, <1>5, <1>6 DEF PushBackend, NoCall, CallsOK
<1>7. CASE Modulo(f)
  <2>1. q = [r EXCEPT !.index = r.index % size, !.pc = "first"]
    BY <1>1, <1>7 DEF Modulo, CallsOK
  <2>2. r.index \in Nat /\ size # 0
    BY <1>1, <1>7 DEF Modulo, CallRecord
  <2>a. ASSUME NEW k PROVE LET p == [r EXCEPT !.index = k, !.pc = "first"]
                           IN  p.pc = "first" /\ p.index = k
    BY <1>1 DEF CallRecord
  <2>3. q.pc = "first" /\ q.index = r.index % size
    BY <2>1, <2>a, Zenon
  <2>4. q.index < size
    BY <1>1, <2>2, <2>3
  <2>5. QED BY <2>3, <2>4 DEF SeenOf
<1>8. CASE NextIndex(f)
  <2>1. q = [r EXCEPT !.index = (r.index + 1) % size, !.pc = "look"]
    BY <1>1, <1>8 DEF NextIndex, CallsOK
  <2>a. r.pc = "next" /\ size # 0
    BY <1>8 DEF NextIndex
  <2>b. ~r.disturbed => SeenOf(r)
    BY DEF SearchInv
  <2> HIDE DEF q, r
  <2>2. /\ q.pc = "look" /\ q.index = (r.index + 1) % size /\ q.flag = r.flag
        /\ q.seen = r.seen /\ q.disturbed = r.disturbed /\ r.pc = "next" /\ size # 0
        /\ r.index \in Nat /\ r.flag \in Nat
    BY <1>1, <2>1, <2>a DEF CallRecord
  <2>3. SeenOf(r)
    BY <1>4, <2>2, <2>b
  <2>4. r.index < size /\ r.flag < size /\ Round(r.flag, r.index) \subseteq r.seen
    BY <2>2, <2>3 DEF SeenOf
  <2>5. r.index \in 0..(size - 1) /\ r.flag \in 0..(size - 1)
    BY <1>1, <2>2, <2>4
  <2>6. /\ q.index \in 0..(size - 1)
        /\ IF q.index = r.flag THEN 0..(size - 1) \subseteq r.seen
           ELSE Round(r.flag, q.index) \ {q.index} \subseteq r.seen
    BY <1>1, <2>2, <2>4, <2>5, RoundGrows
  <2>7. q.index < size
    BY <1>1, <2>6
  <2>8. QED BY <2>2, <2>4, <2>6, <2>7 DEF SeenOf
<1>9. CASE LookFirst(f)
  <2> DEFINE pc == IF StatsAt(f) = "conn_working" THEN "copy" ELSE "next"
  <2>1. q = [r EXCEPT !.pc = pc, !.flag = r.index, !.seen = {r.index}]
    BY <1>1, <1>9 DEF LookFirst, CallsOK
  <2>a. r.index < size /\ pc \in {"copy", "next"}
    BY <1>9 DEF LookFirst
  <2> HIDE DEF q, r, pc
  <2>2. /\ q.pc \in {"copy", "next"} /\ q.index = r.index /\ q.flag = r.index
        /\ q.seen = {r.index} /\ r.index < size /\ r.index \in Nat
    BY <1>1, <2>1, <2>a DEF CallRecord
  <2>3. Round(r.index, r.index) = {r.index}
    BY <2>2 DEF Round
  <2>4. QED BY <2>2, <2>3 DEF SeenOf
<1>10. CASE Look(f)
  <2> DEFINE pc == CASE StatsAt(f) = "conn_working" -> "copy"
                     [] StatsAt(f) # "conn_working" /\ ~last_look(f) -> "next"
                     [] OTHER -> "nullptr"
  <2>1. q = [r EXCEPT !.pc = pc, !.seen = r.seen \cup {r.index}]
    BY <1>1, <1>10 DEF Look, CallsOK
  <2>2. /\ pc \in {"copy", "next", "nullptr"}
        /\ pc = "next" => r.index # r.flag
        /\ pc = "nullptr" => r.index = r.flag
    BY DEF last_look
  <2>a. r.index < size /\ r.pc = "look" /\ (~r.disturbed => SeenOf(r))
    BY <1>10 DEF Look, SearchInv
  <2> HIDE DEF q, r, pc
  <2>3. /\ q.pc = pc /\ q.index = r.index /\ q.flag = r.flag /\ q.disturbed = r.disturbed
        /\ q.seen = r.seen \cup {r.index} /\ r.index < size /\ r.pc = "look"
    BY <1>1, <2>1, <2>a DEF CallRecord
  <2>4. SeenOf(r)
    BY <1>4, <2>3, <2>a
  <2>5. QED BY <2>2, <2>3, <2>4 DEF SeenOf
<1>11. CASE Copy(f) \/ NotFound(f) \/ Fill(f) \/ DoWrite(f) \/ AsyncWriteSome(f)
  BY <1>1, <1>5, <1>11 DEF Copy, NotFound, Fill, DoWrite, AsyncWriteSome, NoCall, CallsOK, CallRecord
<1>12. CASE DivideByZero(f) \/ VectorRace(f)
  BY <1>4, <1>12 DEF DivideByZero, VectorRace, SearchInv
<1>13. CASE StaleLook(f)
  BY <1>1, <1>4, <1>13 DEF StaleLook, CallsOK, CallRecord
<1>14. QED BY <1>6, <1>7, <1>8, <1>9, <1>10, <1>11, <1>12, <1>13 DEF PushGoesOn

\* A modification of the vector disturbs every search; the other steps leave the
\* vector and the calls alone.
LEMMA OthersSearch ==
  ASSUME TypeOK, SearchInv,
         \/ disturb \/ UNCHANGED <<backend_conns_, call>>
  PROVE  SearchInv'
<1>1. CASE UNCHANGED <<backend_conns_, call>>
  BY <1>1 DEF SearchInv, SeenOf, Round, size
<1>2. CASE disturb
  <2>1. ASSUME NEW g \in Callers, ~call'[g].disturbed
        PROVE  call'[g].pc \notin Searching
    BY <1>2, <2>1, DisturbHolds
  <2>2. QED BY <2>1 DEF SearchInv, SeenOf, Searching
<1>3. QED BY <1>1, <1>2

\* Every step keeps what a search knows of the connections it has passed.
LEMMA SearchStep == TypeOK /\ ListInv /\ SearchInv /\ [Next]_vars => SearchInv'
<1>1. SUFFICES ASSUME TypeOK, ListInv, SearchInv, [Next]_vars PROVE SearchInv'
  OBVIOUS
<1>2. CASE UNCHANGED vars
  BY <1>1, <1>2, OthersSearch DEF vars
<1>3. CASE Next
  <2>1. CASE Handlers
    BY <1>1, <2>1, HandlersStep, OthersSearch DEF HandlerStep
  <2>2. CASE AcceptFailed \/ AcceptPeerGone \/ AcceptStart
    BY <1>1, <2>2, OthersSearch DEF AcceptFailed, AcceptPeerGone, AcceptStart
  <2>3. CASE CheckClear \/ CheckAssign \/ \E c \in Conns : AcceptPush(c)
    BY <1>1, <2>3, OthersSearch DEF CheckClear, CheckAssign, AcceptPush
  <2>4. QED BY <1>1, <1>2, <1>3, <2>1, <2>2, <2>3, NextKinds, CallerSearch
<1>4. QED BY <1>1, <1>2, <1>3

-----------------------------------------------------------------------------
(***************************************************************************)
(* The theorems                                                            *)
(***************************************************************************)

\* The inductive invariant holds in every reachable state.
THEOREM BackendSafe == Spec => []BackendInv
<1>1. Init => BackendInv
  <2>1. Init => SearchInv
    BY DEF Init, SearchInv, SeenOf, NoCall
  <2>2. QED BY <2>1, TypeInit, ListInit, ReadsInit DEF BackendInv
<1>2. BackendInv /\ [Next]_vars => BackendInv'
  BY TypeStep, ListStep, ReadsStep, SearchStep DEF BackendInv
<1>3. QED BY <1>1, <1>2, PTL DEF Spec

\* The variables of the backend pool have their types, and a caller past
\* require_backend_conn holds a connection.
THEOREM BackendTypeCorrect == Spec => []TypeOK
<1>1. BackendInv => TypeOK
  BY DEF BackendInv
<1>2. QED BY <1>1, BackendSafe, PTL

\* No removal round of on_check_timeout and no accept loses a backend that
\* works, or lists one twice.
THEOREM WorkingSafe == Spec => []WorkingListed
<1>1. BackendInv => WorkingListed
  BY DEF BackendInv, ListInv, WorkingIsListed, StoreApart, Distinct, WorkingListed
<1>2. QED BY <1>1, BackendSafe, PTL

\* read_handler keeps the read of a working backend going.
THEOREM ListeningSafe == Spec => []StillListening
<1>1. BackendInv => StillListening
  BY DEF BackendInv
<1>2. QED BY <1>1, BackendSafe, PTL

\* A handler bound to a plain this outlives only an object that had failed.
THEOREM DanglingSafe == Spec => []DanglingHadFailed
<1>1. BackendInv => DanglingHadFailed
  BY DEF BackendInv
<1>2. QED BY <1>1, BackendSafe, PTL

\* Undisturbed, require_backend_conn stays inside the vector and gives up only
\* after a look at every connection.
THEOREM SearchSafe == Spec => []SearchIsComplete
<1>1. BackendInv => SearchIsComplete
  BY DEF BackendInv, SearchInv, SeenOf, SearchIsComplete
<1>2. QED BY <1>1, BackendSafe, PTL
=============================================================================
