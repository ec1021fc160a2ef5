----------------------------- MODULE Induction -----------------------------
(***************************************************************************)
(* Facts about natural numbers by which the proofs reason along a          *)
(* sequence: the loops of the code that go through a vector, the lines of  *)
(* a request, the bytes of a buffer or the digits of a number.             *)
(***************************************************************************)
EXTENDS Integers, WellFoundedInduction, TLAPS

\* A set of natural numbers that is not empty has a least member: what an
\* argument by induction along a sequence needs.
LEMMA LeastMember ==
  ASSUME NEW T \in SUBSET Nat, T # {}
  PROVE  \E x \in T : \A y \in T : x <= y
<1> DEFINE less == {ss \in Nat \X Nat : ss[1] < ss[2]}
<1>1. OpToRel(<, Nat) = less
  BY Zenon DEF OpToRel
<1>2. IsWellFoundedOn(less, Nat)
  BY <1>1, NatLessThanWellFounded, Zenon
<1> HIDE DEF less
<1>3. \E x \in T : \A y \in T : <<y, x>> \notin less
  BY <1>2, WFMin, Zenon
<1>4. ASSUME NEW x \in Nat, NEW y \in Nat, y < x
      PROVE  <<y, x>> \in less
  BY <1>4 DEF less
<1>5. PICK x \in T : \A y \in T : <<y, x>> \notin less
  BY <1>3
<1>6. ASSUME NEW y \in T PROVE x <= y
  <2>1. x \in Nat /\ y \in Nat
    OBVIOUS
  <2>2. ~(y < x)
    BY <2>1, <1>4, <1>5
  <2>3. QED BY <2>1, <2>2
<1>7. QED BY <1>6

\* One that is bounded has a greatest member as well.
LEMMA GreatestMember ==
  ASSUME NEW T \in SUBSET Nat, T # {}, NEW n \in Nat, \A t \in T : t <= n
  PROVE  \E x \in T : \A y \in T : x >= y
<1> DEFINE Bounds == {m \in Nat : \A t \in T : t <= m}
<1>1. Bounds # {} /\ Bounds \in SUBSET Nat
  OBVIOUS
<1>2. PICK m \in Bounds : \A b \in Bounds : m <= b
  BY <1>1, LeastMember
<1>3. CASE m \in T
  BY <1>3
<1>4. CASE m \notin T
  <2>0. PICK u \in T : TRUE
    OBVIOUS
  <2>1. m # 0
    BY <2>0, <1>4
  <2>2. m - 1 \in Nat /\ \A t \in T : t <= m - 1
    BY <2>1, <1>4
  <2>3. m - 1 \in Bounds
    BY <2>2
  <2>4. QED BY <2>3, <1>2
<1>5. QED BY <1>3, <1>4

\* Induction along 0..n: a set that has 0 and, with i, also i + 1, has them all.
LEMMA Upward ==
  ASSUME NEW n \in Nat, NEW S, 0 \in S,
         \A i \in 0..n : i < n /\ i \in S => i + 1 \in S
  PROVE  \A i \in 0..n : i \in S
<1> DEFINE Bad == {i \in 0..n : i \notin S}
<1>1. SUFFICES ASSUME Bad # {} PROVE FALSE
  OBVIOUS
<1>2. Bad \in SUBSET Nat
  OBVIOUS
<1>3. PICK m \in Bad : \A y \in Bad : m <= y
  BY <1>1, <1>2, LeastMember
<1>4. m \in 0..n /\ m # 0
  OBVIOUS
<1>5. m - 1 \in 0..n /\ m - 1 < n
  BY <1>4
<1>6. m - 1 \in S
  BY <1>3, <1>4, <1>5
<1>7. (m - 1) + 1 \in S
  BY <1>5, <1>6
<1>8. QED BY <1>7, <1>4

\* The values of a variable that step changes n times
Iterates(g, v, step, n) ==
  g[0] = v /\ \A i \in 1..n : g[i] = step[<<g[i - 1], i - 1>>]

\* They exist,
LEMMA IteratesExist ==
  ASSUME NEW n \in Nat, NEW S, NEW v \in S, NEW step \in [S \X Nat -> S]
  PROVE  \E g \in [0..n -> S] : Iterates(g, v, step, n)
<1> DEFINE Good == {m \in 0..n : \E g \in [0..m -> S] : Iterates(g, v, step, m)}
<1>1. 0 \in Good
  <2>1. [i \in 0..0 |-> v] \in [0..0 -> S] /\ Iterates([i \in 0..0 |-> v], v, step, 0)
    BY DEF Iterates
  <2>2. QED BY <2>1
<1>2. ASSUME NEW m \in 0..n, m < n, m \in Good
      PROVE  m + 1 \in Good
  <2>1. PICK g \in [0..m -> S] : Iterates(g, v, step, m)
    BY <1>2
  <2> DEFINE h == [i \in 0..(m + 1) |-> IF i = m + 1 THEN step[<<g[m], m>>] ELSE g[i]]
  <2>2. m \in 0..m /\ m + 1 \in Nat /\ g[m] \in S
    BY <2>1
  <2>3. step[<<g[m], m>>] \in S
    BY <2>2
  <2>4. h \in [0..(m + 1) -> S]
    BY <2>3
  <2>5. h[m + 1] = step[<<g[m], m>>] /\ \A i \in 0..m : h[i] = g[i]
    OBVIOUS
  <2> HIDE DEF h
  <2>6. ASSUME NEW i \in 1..(m + 1) PROVE h[i] = step[<<h[i - 1], i - 1>>]
    <3>1. i - 1 \in 0..m /\ h[i - 1] = g[i - 1]
      BY <2>5
    <3>2. CASE i = m + 1
      BY <3>1, <3>2, <2>5
    <3>3. CASE i # m + 1
      <4>1. i \in 1..m /\ i \in 0..m
        BY <3>3
      <4>2. QED BY <4>1, <3>1, <2>1, <2>5 DEF Iterates
    <3>4. QED BY <3>2, <3>3
  <2>7. h[0] = v
    BY <2>1, <2>5, 0 \in 0..m DEF Iterates
  <2>8. QED BY <2>4, <2>6, <2>7, <1>2 DEF Iterates
<1>3. n \in Good
  <2> HIDE DEF Good
  <2>1. \A m \in 0..n : m \in Good
    BY <1>1, <1>2, Upward
  <2>2. QED BY <2>1
<1>4. QED BY <1>3

\* and they are determined.
LEMMA IteratesOnce ==
  ASSUME NEW n \in Nat, NEW v, NEW step, NEW g, NEW h,
         Iterates(g, v, step, n), Iterates(h, v, step, n)
  PROVE  \A i \in 0..n : g[i] = h[i]
<1> DEFINE Good == {i \in 0..n : g[i] = h[i]}
<1>1. 0 \in Good
  BY DEF Iterates
<1>2. ASSUME NEW i \in 0..n, i < n, i \in Good
      PROVE  i + 1 \in Good
  <2>1. i + 1 \in 1..n /\ (i + 1) - 1 = i /\ i + 1 \in 0..n
    BY <1>2
  <2>2. g[i + 1] = step[<<g[i], i>>] /\ h[i + 1] = step[<<h[i], i>>]
    BY <2>1 DEF Iterates
  <2>3. QED BY <1>2, <2>1, <2>2
<1>3. QED
  <2> HIDE DEF Good
  <2>1. \A i \in 0..n : i \in Good
    BY <1>1, <1>2, Upward
  <2>2. QED BY <2>1 DEF Good

=============================================================================
