-------------------------- MODULE FrontConnProofs --------------------------
(***************************************************************************)
(* Proofs about one life of a front_conn, for any number and length of     *)
(* requests and replies, any size of the write buffer, and any number of   *)
(* writes at once.                                                         *)
(***************************************************************************)
EXTENDS FrontConn, SequenceTheorems, TLAPS

-----------------------------------------------------------------------------
(***************************************************************************)
(* The inductive invariant                                                 *)
(***************************************************************************)

\* A write stays inside the buffer, and what is to be sent has its place there.
BufInv ==
  /\ w_size_ <= Len(p_write_)
  /\ \A w \in Writes :
       writing[w].pc = "wait" =>
         /\ writing[w].done < writing[w].size
         /\ writing[w].from + writing[w].size <= Len(p_write_)

\* How much of request i of rs follows its token p
Rest(rs, i, p) == rs[i].len - p

\* s is a piece of the client's stream, up to its end, for the requests rs: a
\* token at k is followed by the rest of its request, and that by the next head.
Unread(rs, s) ==
  \A k \in 1..Len(s) :
    \E i \in 1..Len(rs) : \E p \in 0..rs[i].len :
      /\ \A d \in 0..Rest(rs, i, p) : k + d <= Len(s) /\ s[k + d] = Token(i, p + d)
      /\ i = Len(rs) => k + Rest(rs, i, p) = Len(s)
      /\ i < Len(rs) => /\ k + Rest(rs, i, p) < Len(s)
                        /\ s[k + Rest(rs, i, p) + 1] = Token(i + 1, 0)

\* It begins with token p of request i; only the next head may be missing.
Begins(rs, s, i, p) ==
  IF s = <<>> THEN i = Len(rs) + 1 /\ p = 0 ELSE s[1] = Token(i, p)

From(s, i, p) == Unread(reqs, s) /\ Begins(reqs, s, i, p)

\* Where in the stream the connection is when it reads
HeadInv ==
  reading = "head" =>
    /\ request_ = <<>> /\ From(inbox, parser_ + 1, 0)
    /\ parser_ # 0 => p_buffer_ = Units(parser_, content_length)
HeadOkInv ==
  reading = "head_ok" => request_ # <<>> /\ From(request_ \o inbox, parser_ + 1, 0)
BodyInv ==
  reading = "body" =>
    /\ request_ = <<>> /\ parser_ # 0 /\ r_size_ < content_length
    /\ p_buffer_ = Units(parser_, r_size_) /\ From(inbox, parser_, r_size_ + 1)
BodyOkInv ==
  reading = "body_ok" =>
    /\ request_ = <<>> /\ parser_ # 0
    /\ p_buffer_ = Units(parser_, content_length) /\ From(inbox, parser_ + 1, 0)
ReadInv == HeadInv /\ HeadOkInv /\ BodyInv /\ BodyOkInv

\* Replies go to requests in order and once each: the last token of the last
\* reply is the last of all.
DueOrder ==
  \A k \in DOMAIN due :
    /\ due[k].req \in 1..Len(reqs) /\ due[k].pos > 0
    /\ due[k].req <= due[Len(due)].req
    /\ due[k].req = due[Len(due)].req =>
         due[k].pos <= due[Len(due)].pos /\ (due[k].pos = due[Len(due)].pos => k = Len(due))
DuePlace ==
  \A k \in DOMAIN due :
    /\ reading \in {"head", "head_ok"} => due[k].req <= parser_
    /\ reading \in {"body", "body_ok"} => due[k].req < parser_
\* After the failure nothing is sent.
EndInv ==
  /\ reading = "operation_aborted" => ~Working
  /\ ~Working => \A w \in Writes : writing[w].pc # "wait"
DueInv == DueOrder /\ DuePlace /\ EndInv

\* With a client that waits and replies that do not grow: the one write that
\* is not finished sends the last reply and has sent what the client has of it,
\* and handlers still to run belong to replies that were no shorter.
OutIsPrefix == Len(out) <= Len(due) /\ \A k \in 1..Len(out) : out[k] = due[k]
EarlierReplied == \A i \in 1..(Len(reqs) - 1) : \E k \in DOMAIN due : due[k].req = i
AllReceived == (\A k \in DOMAIN due : due[k].req # Len(reqs)) => Len(out) = Len(due)
WriteIsLast ==
  \A w \in Writes : writing[w].pc = "wait" =>
    /\ ~writing[w].freed /\ writing[w].from = 0
    /\ Len(out) = Len(due) - writing[w].size + writing[w].done
    /\ \A k \in 1..writing[w].size :
         Len(due) - writing[w].size + k > 0 /\ p_write_[k] = due[Len(due) - writing[w].size + k]
    /\ \A v \in Writes : writing[v].pc = "wait" => v = w
HandlersLate ==
  Working =>
    /\ w_pos_ = 0
    /\ \A w \in Writes : writing[w].pc # "free" =>
         due # <<>> /\ due[Len(due)].pos <= writing[w].size
    /\ w_size_ > 0 => due # <<>> /\ w_size_ <= due[Len(due)].pos
PoliteInv ==
  Polite /\ ~Grown =>
    OutIsPrefix /\ EarlierReplied /\ AllReceived /\ WriteIsLast /\ HandlersLate

ConnInv == TypeOK /\ BufInv /\ ReadInv /\ DueInv /\ PoliteInv

-----------------------------------------------------------------------------
(***************************************************************************)
(* Tokens and sequences of them                                            *)
(***************************************************************************)

\* Tokens and their fields
LEMMA TokenType ==
  /\ \A i, k \in Nat : Token(i, k) \in Tokens /\ Token(i, k).req = i /\ Token(i, k).pos = k
  /\ Nul \in Tokens /\ Garbage \in Tokens
BY DEF Token, Tokens, Nul, Garbage

\* Two tokens are the same when they stand at the same place.
LEMMA TokenEqual ==
  ASSUME NEW i \in Nat, NEW j \in Nat, NEW p \in Nat, NEW q \in Nat, Token(i, p) = Token(j, q)
  PROVE  i = j /\ p = q
<1>1. Token(i, p).req = i /\ Token(i, p).pos = p /\ Token(j, q).req = j /\ Token(j, q).pos = q
  BY TokenType
<1>2. QED BY <1>1

\* The units of a body or of a reply
LEMMA UnitsType ==
  ASSUME NEW i \in Nat, NEW n \in Nat
  PROVE  /\ Units(i, n) \in Seq(Tokens) /\ Len(Units(i, n)) = n
         /\ \A k \in 1..n : Units(i, n)[k] = Token(i, k)
<1>1. \A k \in 1..n : Token(i, k) \in Tokens
  BY TokenType
<1>2. Units(i, n) = [k \in 1..n |-> Token(i, k)]
  BY DEF Units
<1> HIDE DEF Token, Tokens, Units
<1>3. Units(i, n) \in [1..n -> Tokens]
  BY <1>1, <1>2
<1>4. QED BY <1>2, <1>3

\* A request as it is sent
LEMMA HeadAndBodyType ==
  ASSUME NEW i \in Nat, NEW n \in Nat
  PROVE  /\ HeadAndBody(i, n) \in Seq(Tokens) /\ Len(HeadAndBody(i, n)) = n + 1
         /\ \A k \in 1..(n + 1) : HeadAndBody(i, n)[k] = Token(i, k - 1)
<1>1. \A k \in 1..(n + 1) : Token(i, k - 1) \in Tokens
  BY TokenType
<1>2. HeadAndBody(i, n) = [k \in 1..(n + 1) |-> Token(i, k - 1)]
  BY DEF HeadAndBody
<1> HIDE DEF Token, Tokens, HeadAndBody
<1>3. HeadAndBody(i, n) \in [1..(n + 1) -> Tokens]
  BY <1>1, <1>2
<1>4. QED BY <1>2, <1>3

\* A piece of a sequence, and what it holds
LEMMA Piece ==
  ASSUME NEW S, NEW s \in Seq(S), NEW i \in Nat, i >= 1, NEW j \in Nat, i <= j + 1, j <= Len(s)
  PROVE  /\ SubSeq(s, i, j) \in Seq(S) /\ Len(SubSeq(s, i, j)) = j + 1 - i
         /\ \A x \in 1..(j + 1 - i) : SubSeq(s, i, j)[x] = s[x + i - 1]
<1>1. \A x \in i..j : s[x] \in S
  OBVIOUS
<1>2. /\ SubSeq(s, i, j) \in Seq(S)
      /\ Len(SubSeq(s, i, j)) = IF i <= j THEN j - i + 1 ELSE 0
      /\ \A x \in 1..(j - i + 1) : SubSeq(s, i, j)[x] = s[i + x - 1]
  BY <1>1, SubSeqProperties
<1>3. j + 1 - i = j - i + 1 /\ (~(i <= j) => j + 1 - i = 0)
  OBVIOUS
<1>4. ASSUME NEW x \in 1..(j + 1 - i) PROVE SubSeq(s, i, j)[x] = s[x + i - 1]
  <2>1. i + x - 1 = x + i - 1
    OBVIOUS
  <2>2. QED BY <2>1, <1>2, <1>3
<1>5. QED BY <1>2, <1>3, <1>4

\* A sequence is its first k elements and the others.
LEMMA CutInTwo ==
  ASSUME NEW S, NEW s \in Seq(S), NEW k \in 0..Len(s)
  PROVE  /\ SubSeq(s, 1, k) \in Seq(S) /\ Len(SubSeq(s, 1, k)) = k
         /\ SubSeq(s, k + 1, Len(s)) \in Seq(S) /\ Len(SubSeq(s, k + 1, Len(s))) = Len(s) - k
         /\ SubSeq(s, 1, k) \o SubSeq(s, k + 1, Len(s)) = s
<1>1. Len(s) \in Nat /\ k \in Nat /\ k <= Len(s)
  OBVIOUS
<1>2. /\ SubSeq(s, 1, k) \in Seq(S) /\ Len(SubSeq(s, 1, k)) = k + 1 - 1
  BY <1>1, Piece
<1>3. /\ SubSeq(s, k + 1, Len(s)) \in Seq(S)
      /\ Len(SubSeq(s, k + 1, Len(s))) = Len(s) + 1 - (k + 1)
  BY <1>1, Piece
<1>4. SubSeq(s, 1, k) \o SubSeq(s, k + 1, Len(s)) = SubSeq(s, 1, Len(s))
  <2>1. 1 \in 1..Len(s) + 1 /\ k \in (1 - 1)..Len(s) /\ Len(s) \in k..Len(s)
    BY <1>1
  <2>2. QED BY <2>1, ConcatAdjacentSubSeq
<1>5. SubSeq(s, 1, Len(s)) = s
  BY SubSeqFull
<1>6. k + 1 - 1 = k /\ Len(s) + 1 - (k + 1) = Len(s) - k
  BY <1>1
<1>7. QED BY <1>2, <1>3, <1>4, <1>5, <1>6, Zenon

\* The two parts of two sequences put together
LEMMA Joined ==
  ASSUME NEW S, NEW s \in Seq(S), NEW t \in Seq(S), NEW c, NEW d, Len(s) = c, Len(t) = d
  PROVE  /\ s \o t \in Seq(S) /\ Len(s \o t) = c + d
         /\ \A i \in 1..c : (s \o t)[i] = s[i]
         /\ \A i \in 1..d : (s \o t)[c + i] = t[i]
<1>1. c \in Nat /\ d \in Nat
  OBVIOUS
<1>2. /\ s \o t \in Seq(S) /\ Len(s \o t) = c + d
      /\ \A i \in 1..(c + d) : (s \o t)[i] = IF i <= c THEN s[i] ELSE t[i - c]
  BY ConcatProperties
<1>3. \A i \in 1..c : (s \o t)[i] = s[i]
  BY <1>1, <1>2
<1>4. ASSUME NEW i \in 1..d PROVE (s \o t)[c + i] = t[i]
  <2>1. c + i \in 1..(c + d) /\ ~(c + i <= c) /\ (c + i) - c = i
    BY <1>1
  <2>2. QED BY <2>1, <1>2
<1>5. QED BY <1>2, <1>3, <1>4

\* The second of two sequences put together
LEMMA SecondPart ==
  ASSUME NEW S, NEW s \in Seq(S), NEW t \in Seq(S)
  PROVE  SubSeq(s \o t, Len(s) + 1, Len(s \o t)) = t
<1> DEFINE u == s \o t
           v == SubSeq(u, Len(s) + 1, Len(u))
<1>1. /\ u \in Seq(S) /\ Len(u) = Len(s) + Len(t)
      /\ \A i \in 1..Len(t) : u[Len(s) + i] = t[i]
  BY Joined
<1>2. Len(s) \in Nat /\ Len(t) \in Nat
  OBVIOUS
<1> HIDE DEF u
<1>3. /\ v \in Seq(S) /\ Len(v) = Len(u) + 1 - (Len(s) + 1)
      /\ \A x \in 1..(Len(u) + 1 - (Len(s) + 1)) : v[x] = u[x + (Len(s) + 1) - 1]
  <2>1. /\ Len(s) + 1 \in Nat /\ Len(s) + 1 >= 1 /\ Len(u) \in Nat
        /\ Len(s) + 1 <= Len(u) + 1 /\ Len(u) <= Len(u)
    BY <1>1, <1>2
  <2>2. QED BY <2>1, <1>1, Piece
<1>4. Len(v) = Len(t)
  BY <1>1, <1>2, <1>3
<1>5. ASSUME NEW x \in 1..Len(t) PROVE v[x] = t[x]
  <2>1. x + (Len(s) + 1) - 1 = Len(s) + x /\ x \in 1..(Len(u) + 1 - (Len(s) + 1))
    BY <1>1, <1>2
  <2>2. QED BY <2>1, <1>1, <1>3
<1> HIDE DEF v
<1>6. v = t
  BY <1>3, <1>4, <1>5, SeqEqual
<1>7. QED BY <1>6 DEF v, u

-----------------------------------------------------------------------------
(***************************************************************************)
(* The client's stream                                                     *)
(***************************************************************************)

Request == [kind : Kinds, len : BodyLens, ahead : BOOLEAN]

\* Lengths of bodies and of what is left of them
LEMMA LenIsNat ==
  ASSUME NEW rs \in Seq(Request), NEW i \in 1..Len(rs)
  PROVE  /\ rs[i].len \in Nat /\ rs[i].len \in BodyLens
         /\ \A p \in 0..rs[i].len : Rest(rs, i, p) \in Nat
<1>1. rs[i] \in Request
  OBVIOUS
<1>2. rs[i].len \in BodyLens
  BY <1>1 DEF Request
<1>3. rs[i].len \in Nat
  BY <1>2, FrontConnAssumption
<1>4. ASSUME NEW p \in 0..rs[i].len PROVE Rest(rs, i, p) \in Nat
  BY <1>3 DEF Rest
<1>5. QED BY <1>2, <1>3, <1>4

\* A sequence with a length is not the empty one.
LEMMA NotEmpty == \A s : Len(s) > 0 => s # <<>>
BY Len(<<>>) = 0

\* What is left of the stream after m tokens is still a piece of it.
LEMMA UnreadSuffix ==
  ASSUME NEW rs \in Seq(Request), NEW s \in Seq(Tokens), Unread(rs, s), NEW m \in 0..Len(s)
  PROVE  Unread(rs, SubSeq(s, m + 1, Len(s)))
<1> DEFINE u == SubSeq(s, m + 1, Len(s))
<1>1. Len(s) \in Nat /\ m \in Nat /\ m <= Len(s)
  OBVIOUS
<1>2. Len(u) = Len(s) - m /\ \A x \in 1..(Len(s) - m) : u[x] = s[x + m]
  <2>1. /\ m + 1 \in Nat /\ m + 1 >= 1 /\ m + 1 <= Len(s) + 1 /\ Len(s) <= Len(s)
        /\ Len(s) + 1 - (m + 1) = Len(s) - m
    BY <1>1
  <2>2. /\ Len(u) = Len(s) + 1 - (m + 1)
        /\ \A x \in 1..(Len(s) + 1 - (m + 1)) : u[x] = s[x + (m + 1) - 1]
    BY <1>1, <2>1, Piece
  <2>3. \A x \in 1..(Len(s) - m) : x + (m + 1) - 1 = x + m
    BY <1>1
  <2>4. QED BY <2>1, <2>2, <2>3
<1> HIDE DEF u
<1>3. ASSUME NEW k \in 1..Len(u)
      PROVE  \E i \in 1..Len(rs) : \E p \in 0..rs[i].len :
               /\ \A d \in 0..Rest(rs, i, p) : k + d <= Len(u) /\ u[k + d] = Token(i, p + d)
               /\ i = Len(rs) => k + Rest(rs, i, p) = Len(u)
               /\ i < Len(rs) => /\ k + Rest(rs, i, p) < Len(u)
                                 /\ u[k + Rest(rs, i, p) + 1] = Token(i + 1, 0)
  <2>1. k + m \in 1..Len(s) /\ k \in Nat /\ k >= 1
    BY <1>1, <1>2
  <2>2. PICK i \in 1..Len(rs) : \E p \in 0..rs[i].len :
          /\ \A d \in 0..Rest(rs, i, p) : (k + m) + d <= Len(s) /\ s[(k + m) + d] = Token(i, p + d)
          /\ i = Len(rs) => (k + m) + Rest(rs, i, p) = Len(s)
          /\ i < Len(rs) => /\ (k + m) + Rest(rs, i, p) < Len(s)
                            /\ s[(k + m) + Rest(rs, i, p) + 1] = Token(i + 1, 0)
    BY <2>1, Zenon DEF Unread
  <2>3. PICK p \in 0..rs[i].len :
          /\ \A d \in 0..Rest(rs, i, p) : (k + m) + d <= Len(s) /\ s[(k + m) + d] = Token(i, p + d)
          /\ i = Len(rs) => (k + m) + Rest(rs, i, p) = Len(s)
          /\ i < Len(rs) => /\ (k + m) + Rest(rs, i, p) < Len(s)
                            /\ s[(k + m) + Rest(rs, i, p) + 1] = Token(i + 1, 0)
    BY <2>2
  <2>4. rs[i].len \in Nat /\ p \in Nat /\ p <= rs[i].len /\ Rest(rs, i, p) \in Nat
    BY LenIsNat
  <2>5. ASSUME NEW d \in 0..Rest(rs, i, p)
        PROVE  k + d <= Len(u) /\ u[k + d] = Token(i, p + d)
    <3>1. (k + m) + d <= Len(s) /\ s[(k + m) + d] = Token(i, p + d)
      BY <2>3
    <3>2. (k + d) + m = (k + m) + d /\ k + d \in 1..(Len(s) - m)
      BY <3>1, <2>1, <2>4, <1>1
    <3>3. QED BY <3>1, <3>2, <1>1, <1>2
  <2>6. i = Len(rs) => k + Rest(rs, i, p) = Len(u)
    <3>1. i = Len(rs) => (k + m) + Rest(rs, i, p) = Len(s)
      BY <2>3, Zenon
    <3>2. Len(u) = Len(s) - m
      BY <1>2
    <3>3. QED BY <3>1, <3>2, <2>1, <2>4, <1>1, SMTT(30)
  <2>7. ASSUME i < Len(rs)
        PROVE  k + Rest(rs, i, p) < Len(u) /\ u[k + Rest(rs, i, p) + 1] = Token(i + 1, 0)
    <3>1. /\ (k + m) + Rest(rs, i, p) < Len(s)
          /\ s[(k + m) + Rest(rs, i, p) + 1] = Token(i + 1, 0)
      BY <2>3, <2>7
    <3>2. /\ (k + Rest(rs, i, p) + 1) + m = (k + m) + Rest(rs, i, p) + 1
          /\ k + Rest(rs, i, p) + 1 \in 1..(Len(s) - m)
          /\ k + Rest(rs, i, p) < Len(s) - m
      BY <3>1, <2>1, <2>4, <1>1, SMTT(30)
    <3>3. QED BY <3>1, <3>2, <1>2
  <2>8. QED BY <2>5, <2>6, <2>7
<1>4. QED BY <1>3, Zenon DEF Unread, u

\* The token in front tells what follows it.
LEMMA BeginsMeans ==
  ASSUME NEW rs \in Seq(Request), NEW s \in Seq(Tokens), Unread(rs, s), s # <<>>,
         NEW i \in Nat, NEW p \in Nat, s[1] = Token(i, p)
  PROVE  /\ i \in 1..Len(rs) /\ rs[i].len \in Nat /\ p <= rs[i].len /\ Rest(rs, i, p) \in Nat
         /\ \A d \in 0..Rest(rs, i, p) : 1 + d <= Len(s) /\ s[1 + d] = Token(i, p + d)
         /\ i = Len(rs) => 1 + Rest(rs, i, p) = Len(s)
         /\ i < Len(rs) => /\ 1 + Rest(rs, i, p) < Len(s)
                           /\ s[1 + Rest(rs, i, p) + 1] = Token(i + 1, 0)
<1>1. 1 \in 1..Len(s)
  OBVIOUS
<1>2. PICK j \in 1..Len(rs) : \E q \in 0..rs[j].len :
        /\ \A d \in 0..Rest(rs, j, q) : 1 + d <= Len(s) /\ s[1 + d] = Token(j, q + d)
        /\ j = Len(rs) => 1 + Rest(rs, j, q) = Len(s)
        /\ j < Len(rs) => /\ 1 + Rest(rs, j, q) < Len(s)
                          /\ s[1 + Rest(rs, j, q) + 1] = Token(j + 1, 0)
  BY <1>1, Zenon DEF Unread
<1>3. PICK q \in 0..rs[j].len :
        /\ \A d \in 0..Rest(rs, j, q) : 1 + d <= Len(s) /\ s[1 + d] = Token(j, q + d)
        /\ j = Len(rs) => 1 + Rest(rs, j, q) = Len(s)
        /\ j < Len(rs) => /\ 1 + Rest(rs, j, q) < Len(s)
                          /\ s[1 + Rest(rs, j, q) + 1] = Token(j + 1, 0)
  BY <1>2
<1>4. rs[j].len \in Nat /\ j \in Nat /\ q \in Nat /\ q <= rs[j].len /\ Rest(rs, j, q) \in Nat
  BY LenIsNat
<1>5. 0 \in 0..Rest(rs, j, q) /\ 1 + 0 = 1 /\ q + 0 = q
  BY <1>4
<1>6. s[1] = Token(j, q)
  BY <1>3, <1>5
<1>7. i = j /\ p = q
  <2>1. Token(i, p) = Token(j, q)
    BY <1>6
  <2>2. QED BY <2>1, <1>4, TokenEqual
<1>8. QED BY <1>3, <1>4, <1>7

\* The token in front is followed by the next ones of its request.
LEMMA BeginsToken ==
  ASSUME NEW rs \in Seq(Request), NEW s \in Seq(Tokens), Unread(rs, s), s # <<>>,
         NEW i \in Nat, NEW p \in Nat, s[1] = Token(i, p)
  PROVE  \A d \in 0..Rest(rs, i, p) : s[1 + d] = Token(i, p + d)
<1>1. /\ i \in 1..Len(rs) /\ rs[i].len \in Nat /\ p <= rs[i].len /\ Rest(rs, i, p) \in Nat
      /\ \A d \in 0..Rest(rs, i, p) : 1 + d <= Len(s) /\ s[1 + d] = Token(i, p + d)
      /\ i = Len(rs) => 1 + Rest(rs, i, p) = Len(s)
      /\ i < Len(rs) => /\ 1 + Rest(rs, i, p) < Len(s)
                        /\ s[1 + Rest(rs, i, p) + 1] = Token(i + 1, 0)
  BY BeginsMeans
<1>2. QED BY <1>1, Zenon

\* What is left begins with the next token of the request, or with the next
\* head.
LEMMA BeginsAfter ==
  ASSUME NEW rs \in Seq(Request), NEW s \in Seq(Tokens), Unread(rs, s), s # <<>>,
         NEW i \in Nat, NEW p \in Nat, s[1] = Token(i, p), NEW m \in 0..Len(s),
         NEW u, u = SubSeq(s, m + 1, Len(s))
  PROVE  /\ u \in Seq(Tokens)
         /\ m <= Rest(rs, i, p) => u # <<>> /\ Begins(rs, u, i, p + m)
         /\ m = Rest(rs, i, p) + 1 => Begins(rs, u, i + 1, 0)
<1>1. Len(s) \in Nat /\ m \in Nat /\ m <= Len(s)
  OBVIOUS
<1>2. /\ i \in 1..Len(rs) /\ rs[i].len \in Nat /\ p <= rs[i].len /\ Rest(rs, i, p) \in Nat
      /\ \A d \in 0..Rest(rs, i, p) : 1 + d <= Len(s) /\ s[1 + d] = Token(i, p + d)
      /\ i = Len(rs) => 1 + Rest(rs, i, p) = Len(s)
      /\ i < Len(rs) => /\ 1 + Rest(rs, i, p) < Len(s)
                        /\ s[1 + Rest(rs, i, p) + 1] = Token(i + 1, 0)
  BY BeginsMeans
<1>3. u \in Seq(Tokens) /\ Len(u) = Len(s) - m /\ \A x \in 1..(Len(s) - m) : u[x] = s[x + m]
  <2>1. /\ m + 1 \in Nat /\ m + 1 >= 1 /\ m + 1 <= Len(s) + 1 /\ Len(s) <= Len(s)
        /\ Len(s) + 1 - (m + 1) = Len(s) - m
    BY <1>1
  <2>2. /\ u \in Seq(Tokens) /\ Len(u) = Len(s) + 1 - (m + 1)
        /\ \A x \in 1..(Len(s) + 1 - (m + 1)) : u[x] = s[x + (m + 1) - 1]
    BY <1>1, <2>1, Piece
  <2>3. \A x \in 1..(Len(s) - m) : x + (m + 1) - 1 = x + m
    BY <1>1
  <2>4. QED BY <2>1, <2>2, <2>3
<1>4. ASSUME m <= Rest(rs, i, p) PROVE u # <<>> /\ Begins(rs, u, i, p + m)
  <2>1. m \in 0..Rest(rs, i, p)
    BY <1>1, <1>2, <1>4
  <2>2. 1 + m <= Len(s) /\ s[1 + m] = Token(i, p + m)
    BY <1>2, <2>1
  <2>3. Len(u) > 0 /\ u[1] = s[1 + m]
    BY <2>2, <1>1, <1>3
  <2>4. u # <<>>
    BY <2>3, NotEmpty, Zenon
  <2>5. QED BY <2>2, <2>3, <2>4 DEF Begins
<1>5. ASSUME m = Rest(rs, i, p) + 1 PROVE Begins(rs, u, i + 1, 0)
  <2>1. CASE i = Len(rs)
    <3>1. Len(u) = 0
      BY <2>1, <1>1, <1>2, <1>3, <1>5
    <3>2. u = <<>>
      BY <3>1, <1>3
    <3>3. QED BY <3>2, <2>1 DEF Begins
  <2>2. CASE i < Len(rs)
    <3>1. Len(u) > 0 /\ 1 + m = 1 + Rest(rs, i, p) + 1
      <4>1. 1 + Rest(rs, i, p) < Len(s) /\ Rest(rs, i, p) \in Nat
        BY <2>2, <1>2, Zenon
      <4>2. Len(u) = Len(s) - m
        BY <1>3
      <4>3. ASSUME NEW c \in Nat, 1 + c < Len(s), m = c + 1
            PROVE  Len(s) - m > 0 /\ 1 + m = 1 + c + 1
        BY <4>3, <1>1
      <4>4. Len(s) - m > 0 /\ 1 + m = 1 + Rest(rs, i, p) + 1
        BY <4>1, <4>3, <1>5, Zenon
      <4>5. QED BY <4>2, <4>4, Zenon
    <3>2. u[1] = s[1 + m]
      BY <3>1, <1>1, <1>3
    <3>3. u # <<>>
      BY <3>1, NotEmpty, Zenon
    <3>4. QED BY <3>1, <3>2, <3>3, <2>2, <1>2 DEF Begins
  <2>3. QED BY <2>1, <2>2, <1>2
<1>6. QED BY <1>3, <1>4, <1>5

\* The client sends a request more.
LEMMA UnreadAppend ==
  ASSUME NEW rs \in Seq(Request), NEW s \in Seq(Tokens), Unread(rs, s), NEW r \in Request,
         NEW i \in Nat, NEW p \in Nat, Begins(rs, s, i, p)
  PROVE  /\ Unread(Append(rs, r), s \o HeadAndBody(Len(rs) + 1, r.len))
         /\ Begins(Append(rs, r), s \o HeadAndBody(Len(rs) + 1, r.len), i, p)
<1> DEFINE n == Len(rs)
           h == HeadAndBody(n + 1, r.len)
           u == s \o h
           qs == Append(rs, r)
<1>1. n \in Nat /\ Len(s) \in Nat
  OBVIOUS
<1>2. r.len \in Nat
  BY FrontConnAssumption DEF Request
<1>3. /\ h \in Seq(Tokens) /\ Len(h) = r.len + 1
      /\ \A k \in 1..(r.len + 1) : h[k] = Token(n + 1, k - 1)
  <2>1. n + 1 \in Nat
    BY <1>1
  <2> HIDE DEF n
  <2>2. QED BY <2>1, <1>2, HeadAndBodyType
<1>4. qs \in Seq(Request) /\ Len(qs) = n + 1 /\ qs[n + 1] = r /\ \A j \in 1..n : qs[j] = rs[j]
  OBVIOUS
<1> HIDE DEF h, qs, Request
<1>5. /\ u \in Seq(Tokens) /\ Len(u) = Len(s) + (r.len + 1)
      /\ \A k \in 1..Len(s) : u[k] = s[k]
      /\ \A k \in 1..(r.len + 1) : u[Len(s) + k] = h[k]
  BY <1>3, Joined, SMTT(30)
<1> HIDE DEF u, n
<1>6. u[Len(s) + 1] = Token(n + 1, 0)
  <2>1. 1 \in 1..(r.len + 1) /\ 1 - 1 = 0
    BY <1>2
  <2>2. QED BY <2>1, <1>3, <1>5
<1> DEFINE Right(k, j, q) ==
             /\ \A d \in 0..Rest(qs, j, q) : k + d <= Len(u) /\ u[k + d] = Token(j, q + d)
             /\ j = Len(qs) => k + Rest(qs, j, q) = Len(u)
             /\ j < Len(qs) => /\ k + Rest(qs, j, q) < Len(u)
                               /\ u[k + Rest(qs, j, q) + 1] = Token(j + 1, 0)
<1>7. ASSUME NEW k \in 1..Len(s)
      PROVE  \E j \in 1..Len(qs) : \E q \in 0..qs[j].len : Right(k, j, q)
  <2>1. PICK j \in 1..n : \E q \in 0..rs[j].len :
          /\ \A d \in 0..Rest(rs, j, q) : k + d <= Len(s) /\ s[k + d] = Token(j, q + d)
          /\ j = n => k + Rest(rs, j, q) = Len(s)
          /\ j < n => /\ k + Rest(rs, j, q) < Len(s)
                      /\ s[k + Rest(rs, j, q) + 1] = Token(j + 1, 0)
    BY Zenon DEF Unread, n
  <2>2. PICK q \in 0..rs[j].len :
          /\ \A d \in 0..Rest(rs, j, q) : k + d <= Len(s) /\ s[k + d] = Token(j, q + d)
          /\ j = n => k + Rest(rs, j, q) = Len(s)
          /\ j < n => /\ k + Rest(rs, j, q) < Len(s)
                      /\ s[k + Rest(rs, j, q) + 1] = Token(j + 1, 0)
    BY <2>1
  <2>3. rs[j].len \in Nat /\ q \in Nat /\ q <= rs[j].len /\ qs[j] = rs[j] /\ k \in Nat /\ k >= 1
        /\ Rest(rs, j, q) \in Nat /\ Rest(qs, j, q) = Rest(rs, j, q)
    <3>1. qs[j] = rs[j] /\ k \in Nat /\ k >= 1 /\ q \in Nat /\ q <= rs[j].len
      BY <1>1, <1>4, LenIsNat DEF n
    <3>2. rs[j].len \in Nat /\ Rest(rs, j, q) \in Nat
      BY LenIsNat DEF n
    <3>3. QED BY <3>1, <3>2 DEF Rest
  <2>4. j \in 1..Len(qs) /\ j < Len(qs) /\ j # Len(qs)
    BY <1>1, <1>4
  <2>5. ASSUME NEW d \in 0..Rest(rs, j, q) PROVE k + d <= Len(u) /\ u[k + d] = Token(j, q + d)
    <3>1. k + d <= Len(s) /\ s[k + d] = Token(j, q + d)
      BY <2>2
    <3>2. k + d \in 1..Len(s) /\ k + d <= Len(u)
      BY <3>1, <2>3, <1>1, <1>2, <1>5, SMTT(30)
    <3>3. QED BY <3>1, <3>2, <1>5
  <2>6. k + Rest(rs, j, q) < Len(u) /\ u[k + Rest(rs, j, q) + 1] = Token(j + 1, 0)
    <3>1. CASE j = n
      <4>1. k + Rest(rs, j, q) = Len(s)
        BY <3>1, <2>2
      <4>2. Len(s) < Len(u)
        BY <1>1, <1>2, <1>5
      <4>3. QED BY <3>1, <4>1, <4>2, <1>6
    <3>2. CASE j < n
      <4>1. k + Rest(rs, j, q) < Len(s) /\ s[k + Rest(rs, j, q) + 1] = Token(j + 1, 0)
        BY <3>2, <2>2
      <4>2. k + Rest(rs, j, q) + 1 \in 1..Len(s)
        BY <4>1, <2>3, <1>1
      <4>3. u[k + Rest(rs, j, q) + 1] = s[k + Rest(rs, j, q) + 1]
        BY <4>2, <1>5
      <4>4. Len(s) < Len(u)
        BY <1>1, <1>2, <1>5
      <4>5. k + Rest(rs, j, q) < Len(u)
        BY <4>1, <4>4, <2>3, <1>1, SMTT(30)
      <4>6. QED BY <4>1, <4>3, <4>5
    <3>3. QED BY <3>1, <3>2, <1>1
  <2>7. Right(k, j, q)
    BY <2>3, <2>4, <2>5, <2>6
  <2>8. q \in 0..qs[j].len
    BY <2>3
  <2>9. QED BY <2>4, <2>7, <2>8, Zenon
<1>8. ASSUME NEW x \in 1..(r.len + 1)
      PROVE  \E j \in 1..Len(qs) : \E q \in 0..qs[j].len : Right(Len(s) + x, j, q)
  <2>1. /\ n + 1 \in 1..Len(qs) /\ n + 1 = Len(qs) /\ qs[n + 1].len = r.len
        /\ x - 1 \in 0..r.len /\ Rest(qs, n + 1, x - 1) = r.len - (x - 1)
    BY <1>1, <1>2, <1>4 DEF Rest
  <2>2. ASSUME NEW d \in 0..(r.len - (x - 1))
        PROVE  (Len(s) + x) + d <= Len(u) /\ u[(Len(s) + x) + d] = Token(n + 1, (x - 1) + d)
    <3>1. /\ (Len(s) + x) + d = Len(s) + (x + d) /\ x + d \in 1..(r.len + 1)
          /\ (x + d) - 1 = (x - 1) + d /\ (Len(s) + x) + d <= Len(u)
      BY <1>1, <1>2, <1>5, SMTT(30)
    <3>2. QED BY <3>1, <1>3, <1>5
  <2>3. (Len(s) + x) + (r.len - (x - 1)) = Len(u)
    BY <1>1, <1>2, <1>5
  <2>4. Right(Len(s) + x, n + 1, x - 1)
    BY <2>1, <2>2, <2>3
  <2> HIDE DEF Right
  <2>5. QED BY <2>1, <2>4
<1>9. ASSUME NEW k \in 1..Len(u)
      PROVE  \E j \in 1..Len(qs) : \E q \in 0..qs[j].len : Right(k, j, q)
  <2>1. CASE k <= Len(s)
    <3>1. k \in 1..Len(s)
      BY <2>1, <1>1, <1>5
    <3>2. QED BY <3>1, <1>7
  <2>2. CASE k > Len(s)
    <3>1. k - Len(s) \in 1..(r.len + 1) /\ Len(s) + (k - Len(s)) = k
      BY <2>2, <1>1, <1>2, <1>5
    <3> HIDE DEF Right
    <3>2. \E j \in 1..Len(qs) : \E q \in 0..qs[j].len : Right(Len(s) + (k - Len(s)), j, q)
      BY <3>1, <1>8
    <3>3. QED BY <3>1, <3>2
  <2>3. QED BY <2>1, <2>2, <1>1, <1>5
<1>10. Unread(qs, u)
  BY <1>9, Zenon DEF Unread
<1>11. Begins(qs, u, i, p)
  <2>1. u # <<>>
    BY <1>1, <1>2, <1>5
  <2>2. CASE s = <<>>
    BY <2>1, <2>2, <1>6 DEF Begins, n
  <2>3. CASE s # <<>>
    <3>1. 1 \in 1..Len(s)
      BY <2>3
    <3>2. QED BY <2>1, <2>3, <3>1, <1>5 DEF Begins
  <2>4. QED BY <2>2, <2>3
<1>12. QED BY <1>10, <1>11 DEF u, h, qs, n

-----------------------------------------------------------------------------
(***************************************************************************)
(* The write buffer and the write operations                               *)
(***************************************************************************)

Write == [pc : {"free", "wait", "ok", "error", "operation_aborted"},
          from : Nat, size : Nat, done : Nat, freed : BOOLEAN]

\* A write operation on a buffer of length l
WriteOK(q, l) ==
  /\ q \in Write
  /\ q.pc # "free" => q.size > 0
  /\ q.pc = "wait" => q.done < q.size /\ q.from + q.size <= l
WritesOK(ws, l) == ws = [w \in Writes |-> ws[w]] /\ \A w \in Writes : WriteOK(ws[w], l)

WriteSide ==
  /\ p_write_ \in Seq(Tokens) /\ w_size_ \in Nat /\ w_pos_ \in Nat
  /\ w_size_ <= Len(p_write_)
  /\ WritesOK(writing, Len(p_write_))
  /\ out \in Seq(Tokens) /\ due \in Seq(Tokens)

ReadSide ==
  /\ reqs \in Seq(Request)
  /\ inbox \in Seq(Tokens) /\ request_ \in Seq(Tokens) /\ p_buffer_ \in Seq(Tokens)
  /\ parser_ \in 0..Len(reqs) /\ r_size_ \in Nat
  /\ reading \in Waiting \cup {"none", "head_ok", "body_ok", "error", "operation_aborted"}
  /\ stats_ \in {"conn_working", "conn_error"}
  /\ aborted \in {"no", "additional_size", "content_length"}

\* The two sides are what the types and BufInv say.
LEMMA SidesMean == (WriteSide /\ ReadSide) <=> (TypeOK /\ BufInv)
<1>1. WritesOK(writing, Len(p_write_)) <=>
        /\ writing \in [Writes -> Write]
        /\ \A w \in Writes : writing[w].pc # "free" => writing[w].size > 0
        /\ \A w \in Writes : writing[w].pc = "wait" =>
             /\ writing[w].done < writing[w].size
             /\ writing[w].from + writing[w].size <= Len(p_write_)
  <2> HIDE DEF Write
  <2>1. QED BY DEF WritesOK, WriteOK
<1>2. QED BY <1>1, Zenon DEF WriteSide, ReadSide, TypeOK, BufInv, Write, Request

\* The records that the steps write
LEMMA NoWriteOK == \A l : WriteOK(NoWrite, l)
BY DEF WriteOK, Write, NoWrite

\* The record of a write that is ended
LEMMA EndedOK ==
  ASSUME NEW l \in Nat, NEW q, WriteOK(q, l), q.pc = "wait", NEW r \in {"error", "operation_aborted"}
  PROVE  WriteOK([q EXCEPT !.pc = r], l)
BY DEF WriteOK, Write

\* The record of a write whose buffer was replaced
LEMMA FreedOK ==
  ASSUME NEW l \in Nat, NEW m \in Nat, l <= m, NEW q, WriteOK(q, l), NEW b \in BOOLEAN
  PROVE  WriteOK([q EXCEPT !.freed = b], m)
BY DEF WriteOK, Write

\* The record of a write that is started
LEMMA StartedOK ==
  ASSUME NEW l \in Nat, NEW a \in Nat, NEW n \in Nat, n > 0, a + n <= l
  PROVE  WriteOK([NoWrite EXCEPT !.pc = "wait", !.from = a, !.size = n], l)
BY DEF WriteOK, Write, NoWrite

\* The record of a write when the socket has taken a token
LEMMA TransferOK ==
  ASSUME NEW l \in Nat, NEW q, WriteOK(q, l), q.pc = "wait",
         NEW d \in Nat, NEW r \in {"ok", "wait"}, r = "wait" => d < q.size
  PROVE  WriteOK([q EXCEPT !.done = d, !.pc = r], l)
BY DEF WriteOK, Write

\* Writing one of the operations, and a look at one
LEMMA WritesExcept ==
  ASSUME NEW l, NEW ws, WritesOK(ws, l), NEW w \in Writes, NEW q, WriteOK(q, l)
  PROVE  WritesOK([ws EXCEPT ![w] = q], l)
BY DEF WritesOK

\* Ending the writes keeps their types and leaves none in flight.
LEMMA EndedWrites ==
  ASSUME NEW l \in Nat, WritesOK(writing, l), NEW r \in {"error", "operation_aborted"}
  PROVE  WritesOK(ended_writes(r), l) /\ \A w \in Writes : ended_writes(r)[w].pc # "wait"
<1>1. ASSUME NEW w \in Writes
      PROVE  /\ WriteOK(ended_writes(r)[w], l)
             /\ ended_writes(r)[w].pc # "wait"
  <2>1. WriteOK(writing[w], l)
    BY DEF WritesOK
  <2>2. CASE writing[w].pc = "wait"
    <3>1. ended_writes(r)[w] = [writing[w] EXCEPT !.pc = r]
      BY <2>2 DEF ended_writes
    <3>2. [writing[w] EXCEPT !.pc = r].pc = r
      BY <2>1 DEF WriteOK, Write
    <3>3. WriteOK([writing[w] EXCEPT !.pc = r], l)
      BY <2>1, <2>2, EndedOK
    <3>4. QED BY <3>1, <3>2, <3>3
  <2>3. CASE writing[w].pc # "wait"
    BY <2>1, <2>3 DEF ended_writes
  <2>4. QED BY <2>2, <2>3
<1>2. ended_writes(r) = [w \in Writes |-> ended_writes(r)[w]]
  BY DEF ended_writes
<1>3. QED BY <1>1, <1>2 DEF WritesOK

\* What fill_for_http makes of the buffer
LEMMA FilledBuffer ==
  ASSUME p_write_ \in Seq(Tokens), NEW i \in Nat, NEW n \in Nat, fill_for_http(i, n)
  PROVE  /\ p_write_' \in Seq(Tokens) /\ Len(p_write_') >= n + 1 /\ Len(p_write_') >= Len(p_write_)
         /\ \A k \in 1..n : p_write_'[k] = Token(i, k)
<1> DEFINE l == Len(p_write_)
           m == IF l <= n + 1 THEN n + 1 ELSE l
<1>1. l \in Nat /\ DOMAIN p_write_ = 1..l /\ \A k \in 1..l : p_write_[k] \in Tokens
  OBVIOUS
<1>2. m \in Nat /\ m >= n + 1 /\ m >= l /\ 1..l \cup 1..(n + 1) = 1..m
  BY <1>1
<1>3. p_write_' = [k \in 1..m |->
                     IF k <= n THEN Token(i, k) ELSE IF k = n + 1 THEN Nul ELSE p_write_[k]]
  BY <1>1, <1>2 DEF fill_for_http
<1> HIDE DEF l, m
<1>4. ASSUME NEW k \in 1..m
      PROVE  (IF k <= n THEN Token(i, k) ELSE IF k = n + 1 THEN Nul ELSE p_write_[k]) \in Tokens
  <2>1. CASE k <= n
    BY <2>1, TokenType
  <2>2. CASE k = n + 1
    BY <2>2, TokenType
  <2>3. CASE k > n + 1
    <3>1. k \in 1..l
      BY <2>3, <1>1, <1>2 DEF m
    <3>2. QED BY <2>3, <3>1, <1>1
  <2>4. QED BY <2>1, <2>2, <2>3, <1>2
<1>5. p_write_' \in [1..m -> Tokens]
  BY <1>3, <1>4
<1>6. p_write_' \in Seq(Tokens) /\ Len(p_write_') = m
  BY <1>2, <1>5
<1>7. \A k \in 1..n : p_write_'[k] = Token(i, k)
  BY <1>2, <1>3
<1>8. QED BY <1>2, <1>6, <1>7 DEF l

\* A reply keeps the write side, whether it is sent or not.
LEMMA ReplySide ==
  ASSUME WriteSide, NEW i \in Nat, NEW n \in Nat, n > 0, reply(i, n)
  PROVE  WriteSide' /\ WritesOK(resized(n), Len(p_write_'))
<1>1. /\ p_write_' \in Seq(Tokens) /\ Len(p_write_') >= n + 1 /\ Len(p_write_') >= Len(p_write_)
  BY FilledBuffer DEF WriteSide, reply
<1>2. w_size_' = n /\ w_pos_' = 0 /\ UNCHANGED out
  BY DEF reply, fill_for_http
<1>3. Len(p_write_) \in Nat /\ Len(p_write_') \in Nat
  BY <1>1 DEF WriteSide
<1>4. WritesOK(resized(n), Len(p_write_'))
  <2>1. ASSUME NEW w \in Writes PROVE WriteOK(resized(n)[w], Len(p_write_'))
    <3> DEFINE b == writing[w].freed \/ (writing[w].pc = "wait" /\ n + 1 > Len(p_write_))
    <3>1. resized(n)[w] = [writing[w] EXCEPT !.freed = b]
      BY DEF resized
    <3>2. WriteOK(writing[w], Len(p_write_))
      BY DEF WriteSide, WritesOK
    <3>3. writing[w].freed \in BOOLEAN
      BY <3>2 DEF WriteOK, Write
    <3>4. b \in BOOLEAN
      OBVIOUS
    <3> HIDE DEF b
    <3>5. QED BY <3>1, <3>2, <3>4, <1>1, <1>3, FreedOK
  <2>2. resized(n) = [w \in Writes |-> resized(n)[w]]
    BY DEF resized
  <2>3. QED BY <2>1, <2>2 DEF WritesOK
<1>5. WritesOK(writing', Len(p_write_')) /\ due' \in Seq(Tokens)
  <2>1. CASE Working
    <3>1. PICK w \in Writes : writing' = started(resized(n), w, 0, n)
      BY <2>1 DEF reply
    <3>2. due' = due \o Units(i, n)
      BY <2>1 DEF reply
    <3>3. WriteOK([NoWrite EXCEPT !.pc = "wait", !.from = 0, !.size = n], Len(p_write_'))
      <4>1. 0 \in Nat /\ 0 + n <= Len(p_write_')
        BY <1>1, <1>3
      <4>2. QED BY <4>1, <1>3, StartedOK, Zenon
    <3>4. WritesOK(writing', Len(p_write_'))
      BY <1>4, <3>1, <3>3, WritesExcept DEF started
    <3>5. due' \in Seq(Tokens)
      BY <3>2, UnitsType DEF WriteSide
    <3>6. QED BY <3>4, <3>5
  <2>2. CASE ~Working
    BY <2>2, <1>4 DEF reply, WriteSide
  <2>3. QED BY <2>1, <2>2
<1>6. WritesOK(writing, Len(p_write_))' <=> WritesOK(writing', Len(p_write_'))
  BY DEF WritesOK, WriteOK
<1>7. n <= Len(p_write_') /\ out' \in Seq(Tokens)
  BY <1>1, <1>2, <1>3 DEF WriteSide
<1>8. QED BY <1>1, <1>2, <1>4, <1>5, <1>6, <1>7 DEF WriteSide

\* No reply is empty.
LEMMA ReplyLengths ==
  /\ ErrorReply \in Nat /\ ErrorReply > 0 /\ FixedReply \in Nat /\ FixedReply > 0
  /\ \A n \in BbReplies : n \in Nat /\ n > 0
  /\ BufferSize \in Nat
BY FrontConnAssumption

\* The head that was read is the one of the next request.
LEMMA HeadMeans ==
  ASSUME ReadSide, HeadOkInv, reading = "head_ok"
  PROVE  /\ Current = parser_ + 1 /\ Current \in 1..Len(reqs) /\ Current \in Nat
         /\ reqs[Current].len \in Nat
         /\ request_ # <<>> /\ request_ \o inbox \in Seq(Tokens) /\ request_ \o inbox # <<>>
         /\ Len(request_ \o inbox) = Len(request_) + Len(inbox)
         /\ Unread(reqs, request_ \o inbox) /\ (request_ \o inbox)[1] = Token(Current, 0)
<1> DEFINE s == request_ \o inbox
<1>1. request_ # <<>> /\ Unread(reqs, s) /\ Begins(reqs, s, parser_ + 1, 0)
  BY DEF HeadOkInv, From
<1>2. /\ reqs \in Seq(Request) /\ request_ \in Seq(Tokens) /\ inbox \in Seq(Tokens)
      /\ parser_ \in Nat
  BY DEF ReadSide
<1> HIDE DEF Request, Tokens
<1>3. Len(request_) \in Nat /\ Len(request_) > 0 /\ Len(inbox) \in Nat
  BY <1>1, <1>2
<1>4. /\ s \in Seq(Tokens) /\ Len(s) = Len(request_) + Len(inbox)
      /\ \A k \in 1..Len(request_) : s[k] = request_[k]
  BY <1>2, Joined
<1>5. s # <<>> /\ s[1] = request_[1]
  BY <1>3, <1>4
<1>6. s[1] = Token(parser_ + 1, 0)
  BY <1>1, <1>5 DEF Begins
<1>7. Token(parser_ + 1, 0).req = parser_ + 1
  BY <1>2, TokenType
<1>8. Current = parser_ + 1
  BY <1>5, <1>6, <1>7 DEF Current
<1> HIDE DEF s
<1>9. Current \in Nat
  BY <1>2, <1>8
<1>10. Current \in 1..Len(reqs) /\ reqs[Current].len \in Nat
  <2>1. s[1] = Token(Current, 0)
    BY <1>6, <1>8
  <2>2. 0 \in Nat
    OBVIOUS
  <2>3. QED BY <2>1, <2>2, <1>1, <1>2, <1>4, <1>5, <1>9, BeginsMeans, Zenon
<1>11. QED BY <1>1, <1>4, <1>5, <1>6, <1>8, <1>9, <1>10 DEF s

\* What read_body_handler does to the write side
LEMMA ProcessSide ==
  ASSUME WriteSide, NEW i \in Nat, process(i)
  PROVE  WriteSide'
<1>1. CASE \E n \in (IF reqs[i].kind = "bb" THEN BbReplies ELSE {FixedReply}) : reply(i, n)
  <2>1. PICK n \in BbReplies \cup {FixedReply} : reply(i, n)
    BY <1>1
  <2>2. n \in Nat /\ n > 0
    BY ReplyLengths
  <2>3. QED BY <2>1, <2>2, ReplySide
<1>2. CASE UNCHANGED writeVars
  BY <1>2 DEF writeVars, bufVars, WriteSide, WritesOK, WriteOK
<1>3. QED BY <1>1, <1>2 DEF process

\* Every step keeps the write side.
LEMMA WriteStep ==
  ASSUME WriteSide, ReadSide, HeadOkInv, [Next]_vars
  PROVE  WriteSide'
<1>1. CASE UNCHANGED writeVars
  BY <1>1 DEF writeVars, bufVars, WriteSide, WritesOK, WriteOK
<1>2. Len(p_write_) \in Nat /\ WritesOK(writing, Len(p_write_))
  BY DEF WriteSide
<1>3. ASSUME WritesOK(writing', Len(p_write_)), UNCHANGED <<p_write_, w_pos_, due>>,
             w_size_' = w_size_ \/ w_size_' = 0, out' \in Seq(Tokens)
      PROVE  WriteSide'
  <2>1. WritesOK(writing, Len(p_write_))' <=> WritesOK(writing', Len(p_write_'))
    BY DEF WritesOK, WriteOK
  <2>2. w_size_' \in Nat /\ w_size_' <= Len(p_write_)
    BY <1>2, <1>3 DEF WriteSide
  <2>3. QED BY <2>1, <2>2, <1>3 DEF WriteSide
<1>4. CASE PeerGone \/ Expire
  <2>1. writing' = writing \/ writing' = ended_writes("error")
    BY <1>4 DEF PeerGone, Expire
  <2>2. WritesOK(writing', Len(p_write_))
    BY <2>1, <1>2, EndedWrites
  <2>3. QED BY <2>2, <1>3, <1>4 DEF PeerGone, Expire, bufVars, WriteSide
<1>5. CASE HeadEmpty \/ ReadError
  <2>1. writing' = ended_writes("operation_aborted")
    BY <1>5 DEF HeadEmpty, ReadError
  <2>2. WritesOK(writing', Len(p_write_))
    BY <2>1, <1>2, EndedWrites
  <2>3. QED BY <2>2, <1>3, <1>5 DEF HeadEmpty, ReadError, fail, WriteSide
<1>6. CASE HeadGarbled \/ HeadRefused
  <2>1. Current \in Nat /\ reply(Current, ErrorReply)
    BY <1>6, HeadMeans DEF HeadGarbled, HeadRefused
  <2>2. QED BY <2>1, ReplyLengths, ReplySide
<1>7. CASE HeadWhole
  <2>1. Current \in Nat /\ process(Current)
    BY <1>7, HeadMeans DEF HeadWhole
  <2>2. QED BY <2>1, ProcessSide
<1>8. CASE BodyHandler
  <2>1. parser_ \in Nat /\ process(parser_)
    BY <1>8 DEF BodyHandler, ReadSide
  <2>2. QED BY <2>1, ProcessSide
<1>9. CASE ReadAborted
  <2>1. reply(0, ErrorReply)
    BY <1>9 DEF ReadAborted
  <2>2. QED BY <2>1, ReplyLengths, ReplySide
<1>10. ASSUME NEW w \in Writes, Transfer(w) PROVE WriteSide'
  <2> DEFINE d == writing[w].done + 1
             r == IF d = writing[w].size THEN "ok" ELSE "wait"
  <2>1. WriteOK(writing[w], Len(p_write_)) /\ writing[w].pc = "wait"
    BY <1>2, <1>10 DEF WritesOK, Transfer
  <2>2. /\ writing[w].done \in Nat /\ writing[w].size \in Nat /\ writing[w].from \in Nat
        /\ writing[w].done < writing[w].size
        /\ writing[w].from + writing[w].size <= Len(p_write_)
    BY <2>1 DEF WriteOK, Write
  <2>a. Len(p_write_) \in Nat
    BY <1>2
  <2>3. d \in Nat /\ r \in {"ok", "wait"} /\ (r = "wait" => d < writing[w].size)
    BY <2>2
  <2>4. /\ writing' = [writing EXCEPT ![w] = [writing[w] EXCEPT !.done = d, !.pc = r]]
        /\ out' = Append(out, IF writing[w].freed THEN Garbage ELSE p_write_[writing[w].from + d])
        /\ UNCHANGED <<bufVars, due>>
    BY <1>10 DEF Transfer
  <2>5. out' \in Seq(Tokens)
    <3>a. ASSUME NEW a \in Nat, NEW b \in Nat, NEW c \in Nat, NEW n \in Nat, b < c, a + c <= n
          PROVE  a + (b + 1) \in 1..n
      BY <3>a
    <3>1. writing[w].from + (writing[w].done + 1) \in 1..Len(p_write_)
      BY <2>2, <2>a, <3>a, Zenon
    <3>2. p_write_[writing[w].from + d] \in Tokens
      BY <3>1 DEF WriteSide
    <3>3. QED BY <3>2, <2>4, TokenType DEF WriteSide
  <2> HIDE DEF d, r
  <2>6. WriteOK([writing[w] EXCEPT !.done = d, !.pc = r], Len(p_write_))
    BY <2>1, <2>3, <1>2, TransferOK
  <2>7. WritesOK(writing', Len(p_write_))
    BY <2>4, <2>6, <1>2, WritesExcept
  <2>8. QED BY <2>4, <2>5, <2>7, <1>3 DEF bufVars
<1>11. ASSUME NEW w \in Writes, WriteHandlerOk(w) PROVE WriteSide'
  <2> DEFINE pos == w_pos_ + writing[w].size
  <2>1. WriteOK(writing[w], Len(p_write_))
    BY <1>2 DEF WritesOK
  <2>2. pos \in Nat
    BY <2>1 DEF WriteOK, Write, WriteSide
  <2>3. UNCHANGED <<p_write_, out, due>>
    BY <1>11 DEF WriteHandlerOk
  <2>4. /\ w_pos_' \in Nat /\ w_size_' \in Nat /\ w_size_' <= Len(p_write_)
        /\ WritesOK(writing', Len(p_write_))
    <3>1. WritesOK([writing EXCEPT ![w] = NoWrite], Len(p_write_))
      BY <1>2, NoWriteOK, WritesExcept
    <3>2. CASE ~bytes_left(pos)
      <4>1. w_pos_' = 0 /\ w_size_' = 0 /\ writing' = [writing EXCEPT ![w] = NoWrite]
        BY <1>11, <3>2, Zenon DEF WriteHandlerOk
      <4>2. QED BY <4>1, <3>1, <1>2
    <3>3. CASE bytes_left(pos)
      <4>1. /\ w_pos_' = pos /\ UNCHANGED w_size_
            /\ writing' = IF Working THEN started(writing, w, pos, w_size_ - pos)
                          ELSE [writing EXCEPT ![w] = NoWrite]
        BY <1>11, <3>3, Zenon DEF WriteHandlerOk
      <4>2. /\ w_size_ \in Nat /\ w_size_ <= Len(p_write_) /\ pos < w_size_
        BY <3>3 DEF WriteSide, bytes_left
      <4>3. w_size_ - pos \in Nat /\ w_size_ - pos > 0 /\ pos + (w_size_ - pos) <= Len(p_write_)
        BY <4>2, <2>2, <1>2
      <4> HIDE DEF pos
      <4>4. WriteOK([NoWrite EXCEPT !.pc = "wait", !.from = pos, !.size = w_size_ - pos],
                    Len(p_write_))
        BY <4>3, <2>2, <1>2, StartedOK, Zenon
      <4>5. WritesOK(started(writing, w, pos, w_size_ - pos), Len(p_write_))
        BY <4>4, <1>2, WritesExcept DEF started
      <4>6. QED BY <4>1, <4>2, <4>5, <3>1, <2>2
    <3>4. QED BY <3>2, <3>3
  <2>5. WritesOK(writing, Len(p_write_))' <=> WritesOK(writing', Len(p_write_'))
    BY DEF WritesOK, WriteOK
  <2>6. QED BY <2>3, <2>4, <2>5 DEF WriteSide
<1>12. ASSUME NEW w \in Writes, WriteHandlerError(w) \/ WriteHandlerAborted(w) PROVE WriteSide'
  <2>1. WritesOK(ended_writes("operation_aborted"), Len(p_write_))
    BY <1>2, EndedWrites
  <2>2. \/ writing' = [ended_writes("operation_aborted") EXCEPT ![w] = NoWrite]
        \/ writing' = [writing EXCEPT ![w] = NoWrite]
    BY <1>12 DEF WriteHandlerError, WriteHandlerAborted
  <2>3. WritesOK(writing', Len(p_write_))
    <3>1. WriteOK(NoWrite, Len(p_write_))
      BY NoWriteOK
    <3>2. WritesOK([ended_writes("operation_aborted") EXCEPT ![w] = NoWrite], Len(p_write_))
      BY <2>1, <3>1, WritesExcept, Zenon
    <3>3. WritesOK([writing EXCEPT ![w] = NoWrite], Len(p_write_))
      BY <1>2, <3>1, WritesExcept, Zenon
    <3>4. QED BY <2>2, <3>2, <3>3, Zenon
  <2>4. QED BY <2>3, <1>3, <1>12 DEF WriteHandlerError, WriteHandlerAborted, fail, bufVars, WriteSide
<1>13. CASE Send \/ ReadUntil \/ ReadExactly \/ HeadMisread \/ HeadOverrun \/ HeadMore
  BY <1>1, <1>13 DEF Send, ReadUntil, ReadExactly, HeadMisread, HeadOverrun, HeadMore
<1>14. CASE LifeOver \/ Dead \/ UNCHANGED vars
  BY <1>1, <1>14 DEF LifeOver, Dead, vars
<1>15. CASE ReadHandler
  BY <1>15, <1>5, <1>6, <1>7, <1>8, <1>9, <1>13, Zenon DEF ReadHandler
<1>16. ASSUME NEW w \in Writes, Transfer(w) \/ WriteHandler(w) PROVE WriteSide'
  BY <1>16, <1>10, <1>11, <1>12, Zenon DEF WriteHandler
<1>17. QED BY <1>4, <1>13, <1>14, <1>15, <1>16, Zenon DEF Next

-----------------------------------------------------------------------------
(***************************************************************************)
(* The read side                                                           *)
(***************************************************************************)

\* Steps that leave the stream alone, and the read or end it
LEMMA ReadFrame ==
  ASSUME ReadInv, UNCHANGED <<reqs, inbox, request_, parser_, p_buffer_>>,
         \/ reading' \in {"none", "error", "operation_aborted"}
         \/ reading' = reading /\ (reading = "body" => UNCHANGED r_size_)
  PROVE  ReadInv'
<1>1. CASE reading' \in {"none", "error", "operation_aborted"}
  BY <1>1 DEF ReadInv, HeadInv, HeadOkInv, BodyInv, BodyOkInv
<1>2. CASE reading' = reading /\ (reading = "body" => UNCHANGED r_size_)
  <2>1. HeadInv' /\ HeadOkInv' /\ BodyOkInv'
    BY <1>2 DEF ReadInv, HeadInv, HeadOkInv, BodyOkInv, From, content_length
  <2>2. BodyInv'
    BY <1>2 DEF ReadInv, BodyInv, From, content_length
  <2>3. QED BY <2>1, <2>2 DEF ReadInv
<1>3. QED BY <1>1, <1>2

\* What came with the head is the beginning of the body.
LEMMA TailIsUnits ==
  ASSUME ReadSide, HeadOkInv, reading = "head_ok", NEW m, m = Len(request_),
         m - 1 <= reqs[Current].len
  PROVE  /\ m \in Nat /\ m >= 1 /\ m - 1 \in Nat
         /\ Additional \in Seq(Tokens) /\ Len(Additional) = m - 1
         /\ Additional = Units(Current, m - 1)
         /\ inbox = SubSeq(request_ \o inbox, m + 1, Len(request_ \o inbox))
         /\ m \in 0..Len(request_ \o inbox)
<1> DEFINE s == request_ \o inbox
           c == Current
<1>1. /\ c \in Nat /\ c \in 1..Len(reqs) /\ reqs[c].len \in Nat
      /\ request_ # <<>> /\ s \in Seq(Tokens) /\ s # <<>> /\ Len(s) = Len(request_) + Len(inbox)
      /\ Unread(reqs, s) /\ s[1] = Token(c, 0)
  BY HeadMeans
<1>2. /\ reqs \in Seq(Request) /\ request_ \in Seq(Tokens) /\ inbox \in Seq(Tokens)
  BY DEF ReadSide
<1> HIDE DEF Request, Tokens, c
<1>3. m \in Nat /\ m >= 1 /\ m - 1 \in Nat /\ Len(inbox) \in Nat
  BY <1>1, <1>2
<1>4. inbox = SubSeq(s, m + 1, Len(s))
  BY <1>2, SecondPart
<1>5. m \in 0..Len(s)
  BY <1>1, <1>3
<1>6. \A k \in 1..m : s[k] = request_[k]
  BY <1>2, Joined
<1> HIDE DEF s
<1>7. Additional \in Seq(Tokens) /\ Len(Additional) = m - 1
      /\ \A x \in 1..(m - 1) : Additional[x] = request_[x + 1]
  BY <1>1, <1>2, <1>3 DEF Additional
<1>8. ASSUME NEW d \in 0..Rest(reqs, c, 0) PROVE s[1 + d] = Token(c, 0 + d)
  <2>1. 0 \in Nat
    OBVIOUS
  <2>2. QED BY <2>1, <1>1, <1>2, BeginsToken, Zenon
<1>9. ASSUME NEW x \in 1..(m - 1) PROVE Additional[x] = Token(c, x)
  <2>1. /\ x \in 0..Rest(reqs, c, 0) /\ x + 1 \in 1..m /\ x + 1 = 1 + x /\ 0 + x = x
    BY <1>1, <1>3 DEF Rest, c
  <2>2. Additional[x] = s[x + 1]
    BY <2>1, <1>6, <1>7
  <2>3. s[1 + x] = Token(c, 0 + x)
    BY <2>1, <1>8, Zenon
  <2>4. QED BY <2>1, <2>2, <2>3
<1>10. /\ Units(c, m - 1) \in Seq(Tokens) /\ Len(Units(c, m - 1)) = m - 1
       /\ \A x \in 1..(m - 1) : Units(c, m - 1)[x] = Token(c, x)
  BY <1>1, <1>3, UnitsType
<1>11. Additional = Units(c, m - 1)
  BY <1>7, <1>9, <1>10, SeqEqual
<1>12. QED BY <1>3, <1>4, <1>5, <1>7, <1>11 DEF s, c

\* Where the stream goes on behind what came with the head
LEMMA InboxAfterHead ==
  ASSUME ReadSide, HeadOkInv, reading = "head_ok", NEW m, m = Len(request_)
  PROVE  /\ Unread(reqs, inbox)
         /\ m <= reqs[Current].len => Begins(reqs, inbox, Current, m)
         /\ m = reqs[Current].len + 1 => Begins(reqs, inbox, Current + 1, 0)
<1> DEFINE s == request_ \o inbox
           c == Current
<1>1. /\ c \in Nat /\ c \in 1..Len(reqs) /\ reqs[c].len \in Nat
      /\ s \in Seq(Tokens) /\ s # <<>> /\ Len(s) = Len(request_) + Len(inbox)
      /\ Unread(reqs, s) /\ s[1] = Token(c, 0)
  BY HeadMeans
<1>2. /\ reqs \in Seq(Request) /\ request_ \in Seq(Tokens) /\ inbox \in Seq(Tokens)
  BY DEF ReadSide
<1> HIDE DEF Request, Tokens, c
<1>3. m \in Nat /\ m \in 0..Len(s)
  BY <1>1, <1>2
<1>4. inbox = SubSeq(s, m + 1, Len(s))
  BY <1>2, SecondPart
<1> HIDE DEF s
<1>5. Unread(reqs, inbox)
  BY <1>1, <1>2, <1>3, <1>4, UnreadSuffix
<1>6. /\ m <= Rest(reqs, c, 0) => Begins(reqs, inbox, c, 0 + m)
      /\ m = Rest(reqs, c, 0) + 1 => Begins(reqs, inbox, c + 1, 0)
  <2>1. 0 \in Nat
    OBVIOUS
  <2>2. QED BY <2>1, <1>1, <1>2, <1>3, <1>4, BeginsAfter, Zenon
<1>7. Rest(reqs, c, 0) = reqs[c].len /\ 0 + m = m
  BY <1>1, <1>3 DEF Rest
<1>8. QED BY <1>5, <1>6, <1>7 DEF c

\* The client sends.
LEMMA SendStep ==
  ASSUME ReadSide, ReadInv, Send
  PROVE  ReadSide' /\ ReadInv'
<1>1. PICK r \in Request : /\ reqs' = Append(reqs, r)
                           /\ inbox' = inbox \o HeadAndBody(Len(reqs) + 1, r.len)
  <2>1. PICK kind \in Kinds, len \in BodyLens :
          /\ reqs' = Append(reqs, [kind |-> kind, len |-> len,
                                   ahead |-> ~\A i \in DOMAIN reqs : Answered(i)])
          /\ inbox' = inbox \o HeadAndBody(Len(reqs) + 1, len)
    BY DEF Send
  <2> DEFINE b == ~\A i \in DOMAIN reqs : Answered(i)
  <2>2. b \in BOOLEAN
    OBVIOUS
  <2> HIDE DEF b
  <2> DEFINE q == [kind |-> kind, len |-> len, ahead |-> b]
  <2>3. q \in Request /\ q.len = len
    BY <2>2 DEF Request
  <2>4. reqs' = Append(reqs, q) /\ inbox' = inbox \o HeadAndBody(Len(reqs) + 1, len)
    BY <2>1 DEF b
  <2> HIDE DEF q
  <2>5. QED BY <2>3, <2>4
<1>2. UNCHANGED <<request_, parser_, p_buffer_, r_size_, reading, stats_, aborted>>
  BY DEF Send
<1>3. /\ reqs \in Seq(Request) /\ inbox \in Seq(Tokens) /\ request_ \in Seq(Tokens)
      /\ parser_ \in 0..Len(reqs) /\ r_size_ \in Nat
  BY DEF ReadSide
<1> DEFINE h == HeadAndBody(Len(reqs) + 1, r.len)
<1>4. h \in Seq(Tokens)
  <2>1. r.len \in BodyLens
    BY DEF Request
  <2>2. r.len \in Nat
    BY <2>1, FrontConnAssumption
  <2> HIDE DEF Request
  <2>3. Len(reqs) + 1 \in Nat
    BY <1>3
  <2>4. QED BY <2>2, <2>3, HeadAndBodyType
<1>5. parser_ # 0 => content_length' = content_length
  <2>1. parser_ # 0 => parser_ \in 1..Len(reqs)
    BY <1>3
  <2> HIDE DEF Request, Tokens
  <2>2. parser_ # 0 => reqs'[parser_] = reqs[parser_]
    BY <2>1, <1>1, <1>3
  <2>3. QED BY <2>2, <1>2 DEF content_length
<1>6. ReadSide'
  <2> HIDE DEF h, Request, Tokens
  <2>1. reqs' \in Seq(Request) /\ Len(reqs') = Len(reqs) + 1
    BY <1>1, <1>3
  <2>2. inbox' \in Seq(Tokens)
    BY <1>1, <1>3, <1>4 DEF h
  <2>3. parser_' \in 0..Len(reqs')
    BY <2>1, <1>2, <1>3
  <2>4. QED BY <2>1, <2>2, <2>3, <1>2 DEF ReadSide
<1>7. ASSUME NEW s \in Seq(Tokens), NEW i \in Nat, NEW q \in Nat, From(s, i, q)
      PROVE  Unread(reqs', s \o h) /\ Begins(reqs', s \o h, i, q)
  BY <1>1, <1>3, <1>7, UnreadAppend, Zenon DEF From
<1> HIDE DEF h, Request, Tokens
<1>8. parser_ \in Nat /\ parser_ + 1 \in Nat /\ r_size_ + 1 \in Nat /\ 0 \in Nat
  BY <1>3
<1>9. HeadInv' /\ BodyInv' /\ BodyOkInv'
  <2>1. inbox' = inbox \o h
    BY <1>1 DEF h
  <2>2. HeadInv'
    <3> SUFFICES ASSUME reading = "head" PROVE HeadInv'
      BY <1>2 DEF HeadInv
    <3>1. /\ request_ = <<>> /\ From(inbox, parser_ + 1, 0)
          /\ parser_ # 0 => p_buffer_ = Units(parser_, content_length)
      BY DEF ReadInv, HeadInv
    <3>2. Unread(reqs', inbox') /\ Begins(reqs', inbox', parser_ + 1, 0)
      BY <3>1, <2>1, <1>3, <1>7, <1>8, Zenon
    <3>3. From(inbox, parser_ + 1, 0)'
      BY <3>2, <1>2, Zenon DEF From
    <3>4. QED BY <3>1, <3>3, <1>2, <1>5 DEF HeadInv
  <2>3. BodyInv'
    <3> SUFFICES ASSUME reading = "body" PROVE BodyInv'
      BY <1>2 DEF BodyInv
    <3>1. /\ request_ = <<>> /\ parser_ # 0 /\ r_size_ < content_length
          /\ p_buffer_ = Units(parser_, r_size_) /\ From(inbox, parser_, r_size_ + 1)
      BY DEF ReadInv, BodyInv
    <3>2. Unread(reqs', inbox') /\ Begins(reqs', inbox', parser_, r_size_ + 1)
      BY <3>1, <2>1, <1>3, <1>7, <1>8, Zenon
    <3>3. From(inbox, parser_, r_size_ + 1)'
      BY <3>2, <1>2, Zenon DEF From
    <3>4. QED BY <3>1, <3>3, <1>2, <1>5 DEF BodyInv
  <2>4. BodyOkInv'
    <3> SUFFICES ASSUME reading = "body_ok" PROVE BodyOkInv'
      BY <1>2 DEF BodyOkInv
    <3>1. /\ request_ = <<>> /\ parser_ # 0
          /\ p_buffer_ = Units(parser_, content_length) /\ From(inbox, parser_ + 1, 0)
      BY DEF ReadInv, BodyOkInv
    <3>2. Unread(reqs', inbox') /\ Begins(reqs', inbox', parser_ + 1, 0)
      BY <3>1, <2>1, <1>3, <1>7, <1>8, Zenon
    <3>3. From(inbox, parser_ + 1, 0)'
      BY <3>2, <1>2, Zenon DEF From
    <3>4. QED BY <3>1, <3>3, <1>2, <1>5 DEF BodyOkInv
  <2>5. QED BY <2>2, <2>3, <2>4
<1>10. HeadOkInv'
  <2> SUFFICES ASSUME reading = "head_ok" PROVE HeadOkInv'
    BY <1>2 DEF HeadOkInv
  <2>1. request_ # <<>> /\ From(request_ \o inbox, parser_ + 1, 0)
    BY DEF ReadInv, HeadOkInv
  <2>2. request_ \o inbox \in Seq(Tokens)
    BY <1>3
  <2>3. (request_ \o inbox) \o h = request_ \o (inbox \o h)
    BY <1>3, <1>4, ConcatAssociative
  <2>4. request_' \o inbox' = (request_ \o inbox) \o h
    BY <1>1, <1>2, <2>3, Zenon DEF h
  <2>5. Unread(reqs', request_' \o inbox') /\ Begins(reqs', request_' \o inbox', parser_ + 1, 0)
    BY <2>1, <2>2, <2>4, <1>7, <1>8, Zenon
  <2>6. From(request_ \o inbox, parser_ + 1, 0)'
    BY <2>5, <1>2, Zenon DEF From
  <2>7. QED BY <2>1, <2>6, <1>2 DEF HeadOkInv
<1>11. QED BY <1>6, <1>9, <1>10 DEF ReadInv

\* async_read_until takes a piece of the stream.
LEMMA ReadUntilStep ==
  ASSUME ReadSide, ReadInv, ReadUntil
  PROVE  ReadSide' /\ ReadInv'
<1>1. PICK k \in 1..Len(inbox) : /\ request_' = request_ \o SubSeq(inbox, 1, k)
                                 /\ inbox' = SubSeq(inbox, k + 1, Len(inbox))
  BY DEF ReadUntil
<1>2. /\ reading = "head" /\ reading' = "head_ok"
      /\ UNCHANGED <<reqs, parser_, p_buffer_, r_size_, stats_, aborted>>
  BY DEF ReadUntil
<1>3. request_ = <<>> /\ From(inbox, parser_ + 1, 0)
  BY <1>2 DEF ReadInv, HeadInv
<1>4. inbox \in Seq(Tokens)
  BY DEF ReadSide
<1> HIDE DEF Tokens, Request
<1>5. k \in 0..Len(inbox) /\ k > 0
  BY <1>4
<1> DEFINE a == SubSeq(inbox, 1, k)
           b == SubSeq(inbox, k + 1, Len(inbox))
<1>6. a \in Seq(Tokens) /\ Len(a) = k /\ b \in Seq(Tokens) /\ a \o b = inbox
  BY <1>4, <1>5, CutInTwo
<1>7. request_' = <<>> \o a /\ inbox' = b
  BY <1>1, <1>3
<1> HIDE DEF a, b
<1>8. request_' = a /\ a # <<>>
  BY <1>5, <1>6, <1>7, ConcatEmptySeq
<1>9. From(request_ \o inbox, parser_ + 1, 0)'
  <2>1. request_' \o inbox' = inbox
    BY <1>6, <1>7, <1>8
  <2>2. QED BY <2>1, <1>2, <1>3, Zenon DEF From
<1>10. ReadSide'
  BY <1>2, <1>6, <1>7, <1>8 DEF ReadSide
<1>11. QED BY <1>2, <1>8, <1>9, <1>10 DEF ReadInv, HeadInv, HeadOkInv, BodyInv, BodyOkInv

\* async_read gets the rest of the body.
LEMMA ReadExactlyStep ==
  ASSUME ReadSide, ReadInv, ReadExactly
  PROVE  ReadSide' /\ ReadInv'
<1> DEFINE n == content_length
           m == n - r_size_
           a == SubSeq(inbox, 1, m)
           b == SubSeq(inbox, m + 1, Len(inbox))
<1>1. /\ Len(inbox) >= m /\ p_buffer_' = SubSeq(p_buffer_, 1, r_size_) \o a /\ inbox' = b
      /\ reading = "body" /\ reading' = "body_ok"
      /\ UNCHANGED <<reqs, request_, parser_, r_size_, stats_, aborted>>
  BY DEF ReadExactly
<1>2. /\ request_ = <<>> /\ parser_ # 0 /\ r_size_ < n
      /\ p_buffer_ = Units(parser_, r_size_) /\ From(inbox, parser_, r_size_ + 1)
  BY <1>1 DEF ReadInv, BodyInv
<1>3. /\ reqs \in Seq(Request) /\ inbox \in Seq(Tokens) /\ r_size_ \in Nat
      /\ parser_ \in 0..Len(reqs) /\ parser_ \in Nat
  BY DEF ReadSide
<1> HIDE DEF Tokens, Request
<1>4. parser_ \in 1..Len(reqs) /\ n \in Nat
  <2>1. parser_ \in 1..Len(reqs)
    BY <1>2, <1>3
  <2>2. QED BY <2>1, <1>3, LenIsNat DEF content_length
<1> HIDE DEF n
<1>5. /\ m \in Nat /\ m >= 1 /\ m \in 0..Len(inbox) /\ r_size_ + 1 \in Nat
  BY <1>1, <1>2, <1>3, <1>4
<1>6. a \in Seq(Tokens) /\ Len(a) = m /\ b \in Seq(Tokens)
  BY <1>3, <1>5, CutInTwo
<1>7. \A x \in 1..m : a[x] = inbox[x]
  <2>1. 1 \in Nat /\ 1 >= 1 /\ 1 <= m + 1 /\ m <= Len(inbox) /\ m + 1 - 1 = m
    BY <1>5
  <2>2. /\ SubSeq(inbox, 1, m) \in Seq(Tokens) /\ Len(SubSeq(inbox, 1, m)) = m + 1 - 1
        /\ \A x \in 1..(m + 1 - 1) : SubSeq(inbox, 1, m)[x] = inbox[x + 1 - 1]
    <3> HIDE DEF m
    <3>1. QED BY <2>1, <1>3, <1>5, Piece
  <2>3. \A x \in 1..m : x + 1 - 1 = x
    BY <1>5
  <2>4. QED BY <2>1, <2>2, <2>3
<1>8. /\ Unread(reqs, inbox) /\ inbox # <<>> /\ inbox[1] = Token(parser_, r_size_ + 1)
  <2>1. r_size_ + 1 # 0
    BY <1>3
  <2>2. QED BY <2>1, <1>2 DEF From, Begins
<1>9. Rest(reqs, parser_, r_size_ + 1) = m - 1
  <2>1. Rest(reqs, parser_, r_size_ + 1) = n - (r_size_ + 1)
    BY DEF Rest, n, content_length
  <2>2. QED BY <2>1, <1>3, <1>4
<1>10. ASSUME NEW d \in 0..(m - 1) PROVE inbox[1 + d] = Token(parser_, (r_size_ + 1) + d)
  <2>1. d \in 0..Rest(reqs, parser_, r_size_ + 1)
    BY <1>9
  <2>2. QED BY <2>1, <1>3, <1>5, <1>8, BeginsToken, Zenon
<1>11. Unread(reqs, b) /\ Begins(reqs, b, parser_ + 1, 0)
  <2>1. m = (m - 1) + 1
    BY <1>5
  <2> HIDE DEF m
  <2>2. m = Rest(reqs, parser_, r_size_ + 1) + 1
    BY <2>1, <1>9
  <2>3. Unread(reqs, b)
    BY <1>3, <1>5, <1>8, UnreadSuffix
  <2>4. b = SubSeq(inbox, m + 1, Len(inbox))
    OBVIOUS
  <2> HIDE DEF b
  <2>5. Begins(reqs, b, parser_ + 1, 0)
    BY <2>2, <2>4, <1>3, <1>5, <1>8, BeginsAfter, Zenon
  <2>6. QED BY <2>3, <2>5
<1> HIDE DEF m, a, b
<1>12. p_buffer_' = Units(parser_, n) /\ p_buffer_' \in Seq(Tokens)
  <2> DEFINE u == Units(parser_, r_size_)
             v == Units(parser_, n)
  <2>1. u \in Seq(Tokens) /\ Len(u) = r_size_ /\ \A x \in 1..r_size_ : u[x] = Token(parser_, x)
    BY <1>3, UnitsType
  <2>2. v \in Seq(Tokens) /\ Len(v) = n /\ \A x \in 1..n : v[x] = Token(parser_, x)
    BY <1>3, <1>4, UnitsType
  <2>3. p_buffer_ = u
    BY <1>2
  <2> HIDE DEF u, v
  <2>4. SubSeq(p_buffer_, 1, r_size_) = u
    BY <2>1, <2>3, SubSeqFull
  <2>5. p_buffer_' = u \o a
    BY <1>1, <2>4
  <2>6. /\ u \o a \in Seq(Tokens) /\ Len(u \o a) = r_size_ + m
        /\ \A x \in 1..r_size_ : (u \o a)[x] = u[x]
        /\ \A x \in 1..m : (u \o a)[r_size_ + x] = a[x]
    BY <2>1, <1>6, Joined, SMTT(30)
  <2>7. r_size_ + m = n
    BY <1>3, <1>4 DEF m
  <2>8. ASSUME NEW x \in 1..n PROVE (u \o a)[x] = v[x]
    <3>1. CASE x <= r_size_
      <4>1. x \in 1..r_size_
        BY <3>1, <1>3
      <4>2. QED BY <4>1, <2>1, <2>2, <2>6
    <3>2. CASE x > r_size_
      <4> DEFINE y == x - r_size_
      <4>1. y \in 1..m /\ r_size_ + y = x /\ y - 1 \in 0..(m - 1) /\ 1 + (y - 1) = y
            /\ (r_size_ + 1) + (y - 1) = x
        BY <3>2, <2>7, <1>3, <1>4, <1>5
      <4> HIDE DEF y
      <4>2. (u \o a)[x] = inbox[y]
        BY <4>1, <2>6, <1>7
      <4>3. inbox[1 + (y - 1)] = Token(parser_, (r_size_ + 1) + (y - 1))
        BY <4>1, <1>10
      <4>4. QED BY <4>1, <4>2, <4>3, <2>2
    <3>3. x <= r_size_ \/ x > r_size_
      BY <1>3, <1>4
    <3>4. QED BY <3>1, <3>2, <3>3, Zenon
  <2>9. u \o a = v
    BY <2>2, <2>6, <2>7, <2>8, SeqEqual
  <2>10. QED BY <2>5, <2>6, <2>9 DEF v
<1>13. ReadSide'
  BY <1>1, <1>6, <1>12 DEF ReadSide
<1>14. BodyOkInv'
  <2>1. content_length' = n
    BY <1>1 DEF n, content_length
  <2>2. From(inbox, parser_ + 1, 0)'
    BY <1>1, <1>11, Zenon DEF From
  <2>3. QED BY <2>1, <2>2, <1>1, <1>2, <1>12 DEF BodyOkInv
<1>15. QED BY <1>1, <1>13, <1>14 DEF ReadInv, HeadInv, HeadOkInv, BodyInv

\* After a body was processed the next head is read, or nothing is.
LEMMA ProcessReads ==
  ASSUME NEW i, process(i)
  PROVE  reading' \in {"head", "none"}
BY DEF process, do_read

\* Part of the body came with the head.
LEMMA HeadMoreStep ==
  ASSUME ReadSide, ReadInv, HeadMore
  PROVE  ReadSide' /\ ReadInv'
<1> DEFINE m == Len(request_)
           c == Current
<1>1. /\ reading = "head_ok" /\ Len(Additional) < reqs[c].len
      /\ parser_' = c /\ p_buffer_' = Additional /\ r_size_' = Len(Additional) /\ request_' = <<>>
      /\ reading' \in {"body", "none"} /\ UNCHANGED <<reqs, inbox, stats_, aborted>>
  BY DEF HeadMore, body_start, do_read
<1>2. HeadOkInv /\ reqs \in Seq(Request) /\ request_ \in Seq(Tokens) /\ inbox \in Seq(Tokens)
  BY DEF ReadInv, ReadSide
<1>3. /\ c \in 1..Len(reqs) /\ c \in Nat /\ reqs[c].len \in Nat /\ request_ # <<>>
  BY <1>1, <1>2, HeadMeans
<1> HIDE DEF Tokens, Request, c
<1>4. Len(Additional) = m - 1 /\ m \in Nat /\ m >= 1
  BY <1>2, <1>3 DEF Additional
<1>5. m - 1 <= reqs[c].len /\ m <= reqs[c].len
  BY <1>1, <1>3, <1>4
<1>6. Additional \in Seq(Tokens) /\ Additional = Units(c, m - 1) /\ m - 1 \in Nat
  BY <1>1, <1>2, <1>5, TailIsUnits DEF c
<1>7. Unread(reqs, inbox) /\ Begins(reqs, inbox, c, m)
  BY <1>1, <1>2, <1>5, InboxAfterHead DEF c
<1>8. ReadSide'
  <2>1. <<>> \in Seq(Tokens)
    OBVIOUS
  <2>2. parser_' \in 0..Len(reqs') /\ r_size_' \in Nat
    BY <1>1, <1>2, <1>3, <1>4, <1>6
  <2>3. QED BY <2>1, <2>2, <1>1, <1>2, <1>6 DEF ReadSide, Waiting
<1>9. BodyInv'
  <2>1. content_length' = reqs[c].len /\ r_size_' = m - 1 /\ r_size_' + 1 = m
    BY <1>1, <1>4 DEF content_length
  <2> HIDE DEF m
  <2>2. From(inbox, parser_, r_size_ + 1)'
    BY <2>1, <1>1, <1>7 DEF From
  <2>3. p_buffer_' = Units(parser_', r_size_')
    BY <2>1, <1>1, <1>6
  <2>4. parser_' # 0 /\ r_size_' < content_length'
    BY <2>1, <1>1, <1>3
  <2>5. QED BY <2>2, <2>3, <2>4, <1>1 DEF BodyInv
<1>10. QED BY <1>1, <1>8, <1>9 DEF ReadInv, HeadInv, HeadOkInv, BodyOkInv

\* The whole body came with the head.
LEMMA HeadWholeStep ==
  ASSUME ReadSide, ReadInv, HeadWhole
  PROVE  ReadSide' /\ ReadInv'
<1> DEFINE m == Len(request_)
           c == Current
<1>1. /\ reading = "head_ok" /\ Len(Additional) = reqs[c].len
      /\ parser_' = c /\ p_buffer_' = Additional /\ r_size_' = Len(Additional) /\ request_' = <<>>
      /\ UNCHANGED <<reqs, inbox, stats_, aborted>>
  BY DEF HeadWhole, body_start
<1>2. reading' \in {"head", "none"}
  BY ProcessReads DEF HeadWhole
<1>3. HeadOkInv /\ reqs \in Seq(Request) /\ request_ \in Seq(Tokens) /\ inbox \in Seq(Tokens)
  BY DEF ReadInv, ReadSide
<1>4. /\ c \in 1..Len(reqs) /\ c \in Nat /\ reqs[c].len \in Nat /\ request_ # <<>>
  BY <1>1, <1>3, HeadMeans
<1> HIDE DEF Tokens, Request, c
<1>5. Len(Additional) = m - 1 /\ m \in Nat /\ m >= 1
  BY <1>3, <1>4 DEF Additional
<1>6. m - 1 = reqs[c].len /\ m - 1 <= reqs[c].len /\ m = reqs[c].len + 1
  BY <1>1, <1>4, <1>5
<1>7. Additional \in Seq(Tokens) /\ Additional = Units(c, m - 1)
  BY <1>1, <1>3, <1>6, TailIsUnits DEF c
<1>8. Unread(reqs, inbox) /\ Begins(reqs, inbox, c + 1, 0)
  BY <1>1, <1>3, <1>6, InboxAfterHead DEF c
<1>9. ReadSide'
  <2>1. <<>> \in Seq(Tokens)
    OBVIOUS
  <2>2. parser_' \in 0..Len(reqs') /\ r_size_' \in Nat
    BY <1>1, <1>3, <1>4
  <2>3. QED BY <2>1, <2>2, <1>1, <1>2, <1>3, <1>7 DEF ReadSide, Waiting
<1>10. HeadInv'
  <2>1. content_length' = reqs[c].len
    BY <1>1 DEF content_length
  <2> HIDE DEF m
  <2>2. From(inbox, parser_ + 1, 0)'
    BY <1>1, <1>8 DEF From
  <2>3. p_buffer_' = Units(parser_', content_length')
    BY <2>1, <1>1, <1>6, <1>7
  <2>4. QED BY <2>2, <2>3, <1>1 DEF HeadInv
<1>11. QED BY <1>2, <1>10, <1>9 DEF ReadInv, HeadOkInv, BodyInv, BodyOkInv

\* The rest of the body has come.
LEMMA BodyHandlerStep ==
  ASSUME ReadSide, ReadInv, BodyHandler
  PROVE  ReadSide' /\ ReadInv'
<1>1. /\ reading = "body_ok" /\ r_size_' = content_length
      /\ UNCHANGED <<reqs, inbox, request_, parser_, p_buffer_, stats_, aborted>>
  BY DEF BodyHandler
<1>2. reading' \in {"head", "none"}
  BY ProcessReads DEF BodyHandler
<1>3. /\ request_ = <<>> /\ parser_ # 0
      /\ p_buffer_ = Units(parser_, content_length) /\ From(inbox, parser_ + 1, 0)
  BY <1>1 DEF ReadInv, BodyOkInv
<1>4. parser_ \in 1..Len(reqs) /\ reqs \in Seq(Request)
  BY <1>3 DEF ReadSide
<1>5. content_length \in Nat
  BY <1>4, LenIsNat DEF content_length
<1>6. ReadSide'
  BY <1>1, <1>2, <1>5 DEF ReadSide, Waiting
<1>7. HeadInv'
  BY <1>1, <1>3 DEF HeadInv, From, content_length
<1>8. QED BY <1>2, <1>6, <1>7 DEF ReadInv, HeadOkInv, BodyInv, BodyOkInv

\* A head that ends the reading
LEMMA HeadEndStep ==
  ASSUME ReadSide, ReadInv, HeadGarbled \/ HeadRefused \/ HeadEmpty
  PROVE  ReadSide' /\ ReadInv'
<1>1. /\ reading = "head_ok" /\ reading' = "none"
      /\ UNCHANGED <<reqs, inbox, p_buffer_, aborted>> /\ stats_' \in {stats_, "conn_error"}
      /\ request_' \in {<<>>, Additional} /\ parser_' \in {parser_, Current}
      /\ r_size_' \in {r_size_, 0}
  BY DEF HeadGarbled, HeadRefused, HeadEmpty, fail
<1>2. HeadOkInv /\ request_ \in Seq(Tokens)
  BY DEF ReadInv, ReadSide
<1>3. Current \in 0..Len(reqs) /\ request_ # <<>>
  <2>1. Current \in 1..Len(reqs) /\ request_ # <<>>
    BY <1>1, <1>2, HeadMeans
  <2>2. QED BY <2>1
<1> HIDE DEF Tokens, Request
<1>4. Additional \in Seq(Tokens) /\ <<>> \in Seq(Tokens)
  BY <1>2, <1>3 DEF Additional
<1>5. /\ request_' \in Seq(Tokens) /\ parser_' \in 0..Len(reqs') /\ r_size_' \in Nat
      /\ stats_' \in {"conn_working", "conn_error"}
  <2>1. parser_ \in 0..Len(reqs) /\ r_size_ \in Nat /\ stats_ \in {"conn_working", "conn_error"}
    BY DEF ReadSide
  <2>2. request_' \in Seq(Tokens)
    BY <1>1, <1>4
  <2>3. parser_' \in 0..Len(reqs')
    BY <2>1, <1>1, <1>3
  <2>4. QED BY <2>1, <2>2, <2>3, <1>1
<1>6. ReadSide'
  BY <1>1, <1>5 DEF ReadSide
<1>7. QED BY <1>1, <1>6 DEF ReadInv, HeadInv, HeadOkInv, BodyInv, BodyOkInv

\* Every step keeps the read side.
LEMMA ReadStep ==
  ASSUME ReadSide, ReadInv, [Next]_vars
  PROVE  ReadSide' /\ ReadInv'
<1> DEFINE Same == UNCHANGED <<reqs, inbox, request_, parser_, p_buffer_>>
           Ends == reading' \in {"none", "error", "operation_aborted"} /\ r_size_' \in {r_size_, 0}
           Stays == reading' = reading /\ (reading = "body" => UNCHANGED r_size_)
                    /\ r_size_' \in {r_size_, 0}
           Flags == /\ stats_' = stats_ \/ stats_' = "conn_error"
                    /\ aborted' \in {aborted, "additional_size", "content_length"}
<1>1. ASSUME Same, Ends \/ Stays, Flags PROVE ReadSide' /\ ReadInv'
  <2>1. ReadInv'
    BY <1>1, ReadFrame
  <2>2. r_size_' \in Nat
    BY <1>1 DEF ReadSide
  <2>3. ReadSide'
    BY <1>1, <2>2 DEF ReadSide
  <2>4. QED BY <2>1, <2>3
<1>2. CASE PeerGone \/ Expire
  <2>1. Same /\ Flags /\ UNCHANGED r_size_ /\ reading' = ended_read("error")
    BY <1>2 DEF PeerGone, Expire
  <2>2. Ends \/ Stays
    BY <2>1 DEF ended_read
  <2> HIDE DEF Same, Flags, Ends, Stays
  <2>3. QED BY <2>1, <2>2, <1>1
<1>3. CASE HeadMisread \/ HeadOverrun
  <2>1. Same /\ Flags /\ Stays
    BY <1>3 DEF HeadMisread, HeadOverrun, readVars
  <2> HIDE DEF Same, Flags, Ends, Stays
  <2>2. QED BY <2>1, <1>1
<1>4. CASE ReadError \/ ReadAborted
  <2>1. Same /\ Flags /\ Ends
    BY <1>4 DEF ReadError, ReadAborted, fail
  <2> HIDE DEF Same, Flags, Ends, Stays
  <2>2. QED BY <2>1, <1>1
<1>5. ASSUME NEW w \in Writes, Transfer(w) \/ WriteHandler(w) PROVE ReadSide' /\ ReadInv'
  <2>1. CASE Transfer(w) \/ WriteHandlerOk(w) \/ WriteHandlerAborted(w)
    <3>1. UNCHANGED <<reqs, readVars, stats_, aborted>>
      BY <2>1 DEF Transfer, WriteHandlerOk, WriteHandlerAborted
    <3>2. Same /\ Flags /\ Stays
      BY <3>1 DEF readVars
    <3> HIDE DEF Same, Flags, Ends, Stays
    <3>3. QED BY <3>2, <1>1
  <2>2. CASE WriteHandlerError(w)
    <3>1. /\ Same /\ Flags /\ r_size_' = 0
          /\ reading' = ended_read("operation_aborted")
      BY <2>2 DEF WriteHandlerError, fail
    <3>2. Ends \/ Stays
      BY <3>1 DEF ended_read, Waiting
    <3> HIDE DEF Same, Flags, Ends, Stays
    <3>3. QED BY <3>1, <3>2, <1>1
  <2>3. QED BY <2>1, <2>2, <1>5 DEF WriteHandler
<1>6. CASE LifeOver \/ Dead \/ UNCHANGED vars
  <2>1. UNCHANGED vars
    BY <1>6 DEF LifeOver, Dead
  <2>2. Same /\ Flags /\ Stays
    BY <2>1 DEF vars, readVars
  <2> HIDE DEF Same, Flags, Ends, Stays
  <2>3. QED BY <2>2, <1>1
<1>7. CASE ReadHandler
  BY <1>7, <1>3, <1>4, HeadMoreStep, HeadWholeStep, BodyHandlerStep, HeadEndStep, Zenon DEF ReadHandler
<1>8. CASE Send \/ ReadUntil \/ ReadExactly
  BY <1>8, SendStep, ReadUntilStep, ReadExactlyStep, Zenon
<1>9. QED BY <1>2, <1>5, <1>6, <1>7, <1>8, Zenon DEF Next

-----------------------------------------------------------------------------
(***************************************************************************)
(* What is owed to the client                                              *)
(***************************************************************************)

\* Types of the replies due
LEMMA DueTokens ==
  ASSUME due \in Seq(Tokens)
  PROVE  /\ Len(due) \in Nat /\ DOMAIN due = 1..Len(due)
         /\ \A k \in 1..Len(due) : due[k].req \in Nat /\ due[k].pos \in Int
<1>1. Len(due) \in Nat /\ DOMAIN due = 1..Len(due) /\ \A k \in 1..Len(due) : due[k] \in Tokens
  OBVIOUS
<1>2. \A x \in Tokens : x.req \in Nat /\ x.pos \in Int
  BY DEF Tokens
<1> HIDE DEF Tokens
<1>3. QED BY <1>1, <1>2

\* e is s and then the n tokens of a reply to request i.
Extended(e, s, i, n) ==
  /\ DOMAIN e = 1..Len(e) /\ Len(e) = Len(s) + n
  /\ e[Len(e)].req = i /\ e[Len(e)].pos = n
  /\ \A k \in 1..Len(s) : e[k] = s[k]
  /\ \A k \in 1..n : e[Len(s) + k] = Token(i, k)
  /\ \A k \in 1..Len(e) : k \notin 1..Len(s) => e[k].req = i /\ e[k].pos = k - Len(s)

\* The tokens of a new reply come behind all others.
LEMMA NewDue ==
  ASSUME NEW s \in Seq(Tokens), NEW i \in Nat, NEW n \in Nat, n > 0
  PROVE  Extended(s \o Units(i, n), s, i, n)
<1> DEFINE v == Units(i, n)
           e == s \o v
<1>1. v \in Seq(Tokens) /\ Len(v) = n /\ \A k \in 1..n : v[k] = Token(i, k)
  BY UnitsType
<1>2. Len(s) \in Nat
  OBVIOUS
<1> HIDE DEF Tokens, v
<1>3. e \in Seq(Tokens) /\ Len(e) = Len(s) + n
  BY <1>1
<1>4. ASSUME NEW k \in 1..Len(s) PROVE e[k] = s[k]
  BY <1>1, <1>2
<1>5. ASSUME NEW k \in 1..n PROVE e[Len(s) + k] = Token(i, k)
  <2>1. e[Len(s) + k] = v[k]
    BY <1>1, <1>2
  <2>2. QED BY <2>1, <1>1
<1> HIDE DEF e
<1>6. \A k \in 1..n : Token(i, k).req = i /\ Token(i, k).pos = k
  BY TokenType
<1>7. ASSUME NEW k \in 1..Len(e), k \notin 1..Len(s) PROVE e[k].req = i /\ e[k].pos = k - Len(s)
  <2>1. k - Len(s) \in 1..n /\ Len(s) + (k - Len(s)) = k
    BY <1>2, <1>3, <1>7
  <2>2. e[Len(s) + (k - Len(s))] = Token(i, k - Len(s))
    BY <2>1, <1>5
  <2>3. QED BY <2>1, <2>2, <1>6
<1>8. e[Len(e)].req = i /\ e[Len(e)].pos = n
  <2>1. n \in 1..n
    OBVIOUS
  <2>2. e[Len(s) + n] = Token(i, n)
    BY <2>1, <1>5
  <2>3. QED BY <2>1, <2>2, <1>3, <1>6
<1>9. DOMAIN e = 1..Len(e)
  BY <1>3
<1>10. QED BY <1>3, <1>4, <1>5, <1>7, <1>8, <1>9, Zenon DEF e, v, Extended

\* A reply to a request behind all that were answered
LEMMA ReplyDue ==
  ASSUME WriteSide, DueOrder, EndInv, NEW i \in Nat, NEW n \in Nat, n > 0, reply(i, n),
         UNCHANGED <<reqs, stats_>>,
         Working => i \in 1..Len(reqs) /\ \A k \in DOMAIN due : due[k].req < i
  PROVE  /\ DueOrder'
         /\ \A k \in DOMAIN due' : \/ k \in DOMAIN due /\ due'[k].req = due[k].req
                                   \/ Working /\ due'[k].req = i
         /\ ~Working' => \A w \in Writes : writing'[w].pc # "wait"
<1>1. CASE Working
  <2> DEFINE e == due'
  <2>1. due \in Seq(Tokens) /\ e = due \o Units(i, n)
    BY <1>1 DEF reply, WriteSide
  <2> HIDE DEF e
  <2>2. i \in 1..Len(reqs) /\ \A k \in DOMAIN due : due[k].req < i
    BY <1>1
  <2>3. /\ Len(due) \in Nat /\ DOMAIN due = 1..Len(due)
        /\ \A k \in 1..Len(due) : due[k].req \in Nat /\ due[k].pos \in Int
    BY <2>1, DueTokens
  <2>4. /\ DOMAIN e = 1..Len(e) /\ Len(e) = Len(due) + n
        /\ e[Len(e)].req = i /\ e[Len(e)].pos = n
        /\ \A k \in 1..Len(due) : e[k] = due[k]
        /\ \A k \in 1..Len(e) : k \notin 1..Len(due) => e[k].req = i /\ e[k].pos = k - Len(due)
    <3>1. Extended(due \o Units(i, n), due, i, n)
      BY <2>1, NewDue, Zenon
    <3>2. QED BY <2>1, <3>1, Zenon DEF Extended
  <2>5. \A k \in 1..Len(due) : due[k].req \in 1..Len(reqs) /\ due[k].pos > 0
    BY <2>3 DEF DueOrder
  <2>6. ASSUME NEW k \in 1..Len(e)
        PROVE  /\ e[k].req \in 1..Len(reqs) /\ e[k].pos > 0 /\ e[k].req <= e[Len(e)].req
               /\ e[k].req = e[Len(e)].req =>
                    e[k].pos <= e[Len(e)].pos /\ (e[k].pos = e[Len(e)].pos => k = Len(e))
    <3>1. CASE k \in 1..Len(due)
      <4>1. e[k] = due[k] /\ due[k].req < i /\ due[k].req \in Nat
        BY <3>1, <2>2, <2>3, <2>4
      <4>2. due[k].req \in 1..Len(reqs) /\ due[k].pos > 0
        BY <3>1, <2>5
      <4>3. due[k].req <= i /\ due[k].req # i
        BY <4>1
      <4>4. QED BY <4>1, <4>2, <4>3, <2>4
    <3>2. CASE k \notin 1..Len(due)
      <4>1. e[k].req = i /\ e[k].pos = k - Len(due) /\ Len(e) = Len(due) + n
        BY <3>2, <2>4
      <4>2. k - Len(due) > 0 /\ k - Len(due) <= n /\ (k - Len(due) = n => k = Len(e))
        BY <3>2, <4>1, <2>3
      <4>3. QED BY <4>1, <4>2, <2>2, <2>4
    <3>3. QED BY <3>1, <3>2
  <2>7. DueOrder'
    BY <2>4, <2>6 DEF DueOrder, e
  <2>8. \A k \in DOMAIN due' : \/ k \in DOMAIN due /\ due'[k].req = due[k].req
                               \/ Working /\ due'[k].req = i
    BY <1>1, <2>3, <2>4 DEF e
  <2>9. QED BY <1>1, <2>7, <2>8 DEF Working
<1>2. CASE ~Working
  <2>1. writing' = resized(n) /\ UNCHANGED due
    BY <1>2 DEF reply
  <2>2. \A w \in Writes : writing[w].pc # "wait"
    BY <1>2 DEF EndInv
  <2>3. ASSUME NEW w \in Writes PROVE writing'[w].pc # "wait"
    <3>1. WriteOK(writing[w], Len(p_write_))
      BY DEF WriteSide, WritesOK
    <3>2. writing'[w].pc = writing[w].pc
      BY <2>1, <3>1 DEF resized, WriteOK, Write
    <3>3. QED BY <3>2, <2>2
  <2>4. DueOrder'
    BY <2>1 DEF DueOrder
  <2>5. QED BY <2>1, <2>3, <2>4
<1>3. QED BY <1>1, <1>2

\* The body that is processed belongs to a request without a reply.
LEMMA ProcessDue ==
  ASSUME WriteSide, DueOrder, EndInv, NEW i \in 1..Len(reqs), process(i), i \in Nat,
         UNCHANGED <<reqs, stats_>>, parser_' = i, \A k \in DOMAIN due : due[k].req < i
  PROVE  DueInv'
<1>1. reading' \in {"head", "none"}
  BY ProcessReads
<1>2. CASE \E n \in (IF reqs[i].kind = "bb" THEN BbReplies ELSE {FixedReply}) : reply(i, n)
  <2>1. PICK n \in BbReplies \cup {FixedReply} : reply(i, n)
    BY <1>2
  <2>2. n \in Nat /\ n > 0
    BY ReplyLengths
  <2>3. /\ DueOrder'
        /\ \A k \in DOMAIN due' : \/ k \in DOMAIN due /\ due'[k].req = due[k].req
                                  \/ Working /\ due'[k].req = i
        /\ ~Working' => \A w \in Writes : writing'[w].pc # "wait"
    BY <2>1, <2>2, ReplyDue
  <2>4. ASSUME NEW k \in DOMAIN due' PROVE due'[k].req <= i
    <3>1. CASE k \in DOMAIN due /\ due'[k].req = due[k].req
      <4>1. due[k].req \in Nat
        BY <3>1, DueTokens DEF WriteSide
      <4>2. QED BY <3>1, <4>1
    <3>2. CASE due'[k].req = i
      BY <3>2
    <3>3. QED BY <2>3, <3>1, <3>2
  <2>5. DuePlace'
    BY <1>1, <2>4 DEF DuePlace
  <2>6. EndInv'
    BY <1>1, <2>3 DEF EndInv
  <2>7. QED BY <2>3, <2>5, <2>6 DEF DueInv
<1>3. CASE UNCHANGED writeVars
  <2>1. UNCHANGED <<due, writing>>
    BY <1>3 DEF writeVars
  <2>2. ASSUME NEW k \in DOMAIN due PROVE due[k].req <= i
    <3>1. due[k].req \in Nat /\ due[k].req < i
      BY DueTokens DEF WriteSide
    <3>2. QED BY <3>1
  <2>3. DuePlace'
    BY <1>1, <2>1, <2>2 DEF DuePlace
  <2>4. QED BY <1>1, <2>1, <2>3 DEF DueInv, DueOrder, EndInv, Working
<1>4. QED BY <1>2, <1>3 DEF process

\* Steps that send no reply
LEMMA DueFrame ==
  ASSUME WriteSide, ReadSide, DueInv, UNCHANGED <<due, parser_>>, Len(reqs) <= Len(reqs'),
         Len(reqs') \in Nat,
         \/ reading' \in {"none", "error"}
         \/ reading' = reading
         \/ reading' = "operation_aborted" /\ ~Working'
         \/ reading = "head" /\ reading' = "head_ok"
         \/ reading = "body" /\ reading' = "body_ok",
         Working' => Working,
         ~Working' => \A w \in Writes : writing'[w].pc # "wait"
  PROVE  DueInv'
<1>1. DueOrder'
  <2>1. Len(reqs) \in Nat
    BY DEF ReadSide
  <2>2. ASSUME NEW x, x \in 1..Len(reqs) PROVE x \in 1..Len(reqs')
    BY <2>1, <2>2
  <2>3. QED BY <2>2 DEF DueInv, DueOrder
<1>2. DuePlace'
  BY DEF DueInv, DuePlace
<1>3. EndInv'
  BY DEF DueInv, EndInv
<1>4. QED BY <1>1, <1>2, <1>3 DEF DueInv

\* Every step keeps the order of the replies.
LEMMA DueStep ==
  ASSUME WriteSide, ReadSide, ReadInv, DueInv, [Next]_vars
  PROVE  DueInv'
<1>1. Len(reqs) \in Nat /\ reqs \in Seq(Request) /\ Len(p_write_) \in Nat
  BY DEF ReadSide, WriteSide
<1>2. /\ ~Working => \A w \in Writes : writing[w].pc # "wait"
      /\ WritesOK(writing, Len(p_write_))
  BY DEF DueInv, EndInv, WriteSide
<1>3. \A r \in {"error", "operation_aborted"} : \A w \in Writes : ended_writes(r)[w].pc # "wait"
  BY <1>1, <1>2, EndedWrites
<1>4. CASE Send
  <2>1. UNCHANGED <<due, parser_, reading, stats_, writing>>
    BY <1>4 DEF Send, writeVars
  <2>2. Len(reqs') = Len(reqs) + 1
    BY <1>1, <1>4 DEF Send
  <2>3. Len(reqs) <= Len(reqs') /\ Len(reqs') \in Nat
    BY <1>1, <2>2
  <2>4. QED BY <1>2, <2>1, <2>3, DueFrame DEF Working
<1>5. CASE ReadUntil \/ ReadExactly
  <2>1. /\ UNCHANGED <<due, parser_, stats_, writing, reqs>>
        /\ \/ reading = "head" /\ reading' = "head_ok"
           \/ reading = "body" /\ reading' = "body_ok"
    BY <1>5 DEF ReadUntil, ReadExactly, writeVars
  <2>2. QED BY <1>1, <1>2, <2>1, DueFrame DEF Working
<1>6. CASE PeerGone
  <2>1. /\ UNCHANGED <<due, parser_, stats_, reqs>>
        /\ reading' \in {"error", reading} /\ writing' \in {writing, ended_writes("error")}
    BY <1>6 DEF PeerGone, ended_read
  <2>2. ~Working => \A w \in Writes : writing'[w].pc # "wait"
    BY <1>2, <1>3, <2>1
  <2>3. QED BY <1>1, <2>1, <2>2, DueFrame DEF Working
<1>7. CASE Expire
  <2>1. /\ UNCHANGED <<due, parser_, reqs>> /\ Working
        /\ reading' \in {"error", reading} /\ writing' = ended_writes("error")
    BY <1>7 DEF Expire, ended_read
  <2>2. QED BY <1>1, <1>3, <2>1, DueFrame
<1>8. CASE HeadGarbled \/ HeadRefused
  <2>1. /\ reading = "head_ok" /\ reading' = "none" /\ UNCHANGED <<reqs, stats_>>
        /\ reply(Current, ErrorReply)
    BY <1>8 DEF HeadGarbled, HeadRefused
  <2>2. Current = parser_ + 1 /\ Current \in 1..Len(reqs) /\ Current \in Nat /\ parser_ \in Nat
    BY <2>1, HeadMeans DEF ReadInv, ReadSide
  <2>3. ASSUME NEW k \in DOMAIN due PROVE due[k].req < Current
    <3>1. due[k].req \in Nat /\ due[k].req <= parser_
      BY <2>1, DueTokens DEF WriteSide, DueInv, DuePlace
    <3>2. QED BY <2>2, <3>1
  <2>4. /\ DueOrder'
        /\ \A k \in DOMAIN due' : \/ k \in DOMAIN due /\ due'[k].req = due[k].req
                                  \/ Working /\ due'[k].req = Current
        /\ ~Working' => \A w \in Writes : writing'[w].pc # "wait"
    <3> DEFINE c == Current
    <3>1. /\ c \in 1..Len(reqs) /\ c \in Nat /\ reply(c, ErrorReply)
          /\ \A k \in DOMAIN due : due[k].req < c
      BY <2>1, <2>2, <2>3
    <3> HIDE DEF c
    <3>2. /\ DueOrder'
          /\ \A k \in DOMAIN due' : \/ k \in DOMAIN due /\ due'[k].req = due[k].req
                                    \/ Working /\ due'[k].req = c
          /\ ~Working' => \A w \in Writes : writing'[w].pc # "wait"
      BY <2>1, <3>1, ReplyLengths, ReplyDue DEF DueInv
    <3>3. QED BY <3>2 DEF c
  <2>5. QED BY <2>1, <2>4 DEF DueInv, DuePlace, EndInv
<1>9. CASE HeadMisread \/ HeadOverrun \/ LifeOver \/ Dead \/ UNCHANGED vars
  <2>1. UNCHANGED <<due, parser_, reading, stats_, writing, reqs>>
    BY <1>9 DEF HeadMisread, HeadOverrun, LifeOver, Dead, vars, readVars, writeVars
  <2>2. QED BY <1>1, <1>2, <2>1, DueFrame DEF Working
<1>10. CASE HeadMore
  <2>1. /\ reading = "head_ok" /\ reading' \in {"body", "none"} /\ parser_' = Current
        /\ UNCHANGED <<reqs, stats_, due, writing>>
    BY <1>10 DEF HeadMore, do_read, writeVars
  <2>2. Current = parser_ + 1 /\ parser_ \in Nat
    BY <2>1, HeadMeans DEF ReadInv, ReadSide
  <2>3. ASSUME NEW k \in DOMAIN due PROVE due[k].req < parser_'
    <3>1. due[k].req \in Nat /\ due[k].req <= parser_
      BY <2>1, DueTokens DEF WriteSide, DueInv, DuePlace
    <3>2. QED BY <2>1, <2>2, <3>1
  <2>4. DuePlace'
    BY <2>1, <2>3 DEF DuePlace
  <2>5. DueOrder' /\ EndInv'
    BY <2>1 DEF DueInv, DueOrder, EndInv, Working
  <2>6. QED BY <2>4, <2>5 DEF DueInv
<1>11. CASE HeadEmpty
  <2>1. /\ reading = "head_ok" /\ reading' = "none" /\ stats_' = "conn_error"
        /\ UNCHANGED <<reqs, due>> /\ writing' = ended_writes("operation_aborted")
    BY <1>11 DEF HeadEmpty, fail
  <2>2. QED BY <1>3, <2>1 DEF DueInv, DueOrder, DuePlace, EndInv
<1>12. CASE HeadWhole
  <2>1. /\ reading = "head_ok" /\ process(Current) /\ parser_' = Current /\ UNCHANGED <<reqs, stats_>>
    BY <1>12 DEF HeadWhole
  <2>2. Current = parser_ + 1 /\ Current \in 1..Len(reqs) /\ Current \in Nat /\ parser_ \in Nat
    BY <2>1, HeadMeans DEF ReadInv, ReadSide
  <2>3. ASSUME NEW k \in DOMAIN due PROVE due[k].req < Current
    <3>1. due[k].req \in Nat /\ due[k].req <= parser_
      BY <2>1, DueTokens DEF WriteSide, DueInv, DuePlace
    <3>2. QED BY <2>2, <3>1
  <2>4. QED BY <2>1, <2>2, <2>3, ProcessDue, Zenon DEF DueInv
<1>13. CASE BodyHandler
  <2>1. /\ reading = "body_ok" /\ process(parser_) /\ UNCHANGED <<reqs, stats_, parser_>>
    BY <1>13 DEF BodyHandler
  <2>2. parser_ \in 1..Len(reqs) /\ parser_ \in Nat
    BY <2>1 DEF ReadInv, BodyOkInv, ReadSide
  <2>3. \A k \in DOMAIN due : due[k].req < parser_
    BY <2>1 DEF DueInv, DuePlace
  <2>4. QED BY <2>1, <2>2, <2>3, ProcessDue, Zenon DEF DueInv
<1>14. CASE ReadError
  <2>1. /\ reading' = "none" /\ stats_' = "conn_error" /\ UNCHANGED <<reqs, due, parser_>>
        /\ writing' = ended_writes("operation_aborted")
    BY <1>14 DEF ReadError, fail
  <2>2. QED BY <1>3, <2>1 DEF DueInv, DueOrder, DuePlace, EndInv
<1>15. CASE ReadAborted
  <2>1. /\ reading = "operation_aborted" /\ reading' = "none" /\ UNCHANGED <<reqs, stats_, parser_>>
        /\ reply(0, ErrorReply)
    BY <1>15 DEF ReadAborted
  <2>2. ~Working /\ 0 \in Nat
    BY <2>1 DEF DueInv, EndInv
  <2>3. /\ DueOrder' /\ (~Working' => \A w \in Writes : writing'[w].pc # "wait")
    BY <2>1, <2>2, ReplyLengths, ReplyDue DEF DueInv
  <2>4. QED BY <2>1, <2>3 DEF DueInv, DuePlace, EndInv
<1>16. ASSUME NEW w \in Writes, Transfer(w) \/ WriteHandler(w) PROVE DueInv'
  <2>1. WriteOK(writing[w], Len(p_write_)) /\ writing = [v \in Writes |-> writing[v]]
    BY <1>2 DEF WritesOK
  <2>2. CASE Transfer(w)
    <3>1. UNCHANGED <<due, parser_, reading, stats_, reqs>> /\ writing[w].pc = "wait"
      BY <2>2 DEF Transfer, readVars
    <3>2. Working
      BY <1>2, <3>1
    <3>3. QED BY <1>1, <3>1, <3>2, DueFrame DEF Working
  <2>3. CASE WriteHandlerOk(w)
    <3>1. UNCHANGED <<due, parser_, reading, stats_, reqs>>
      BY <2>3 DEF WriteHandlerOk, readVars
    <3>2. ~Working => writing' = [writing EXCEPT ![w] = NoWrite]
      BY <2>3 DEF WriteHandlerOk
    <3>3. ~Working => \A v \in Writes : writing'[v].pc # "wait"
      BY <1>2, <2>1, <3>2 DEF NoWrite
    <3>4. QED BY <1>1, <3>1, <3>3, DueFrame DEF Working
  <2>4. CASE WriteHandlerAborted(w)
    <3>1. UNCHANGED <<due, parser_, reading, stats_, reqs>>
      BY <2>4 DEF WriteHandlerAborted, readVars
    <3>2. writing' = [writing EXCEPT ![w] = NoWrite]
      BY <2>4 DEF WriteHandlerAborted
    <3>3. ~Working => \A v \in Writes : writing'[v].pc # "wait"
      BY <1>2, <2>1, <3>2 DEF NoWrite
    <3>4. QED BY <1>1, <3>1, <3>3, DueFrame DEF Working
  <2>5. CASE WriteHandlerError(w)
    <3>1. /\ UNCHANGED <<due, parser_, reqs>> /\ stats_' = "conn_error"
          /\ reading' \in {"operation_aborted", reading}
          /\ writing' = [ended_writes("operation_aborted") EXCEPT ![w] = NoWrite]
      BY <2>5 DEF WriteHandlerError, fail, ended_read
    <3>2. \A v \in Writes : writing'[v].pc # "wait"
      <4> DEFINE ws == ended_writes("operation_aborted")
      <4>1. \A v \in Writes : ws[v].pc # "wait"
        BY <1>3
      <4>2. DOMAIN ws = Writes
        BY DEF ended_writes
      <4> HIDE DEF ws
      <4>3. writing' = [ws EXCEPT ![w] = NoWrite]
        BY <3>1 DEF ws
      <4>4. QED BY <4>1, <4>2, <4>3 DEF NoWrite
    <3>3. ~Working'
      BY <3>1 DEF Working
    <3>4. QED BY <1>1, <3>1, <3>2, <3>3, DueFrame
  <2>6. QED BY <2>2, <2>3, <2>4, <2>5, <1>16 DEF WriteHandler
<1>17. CASE ReadHandler
  BY <1>17, <1>8, <1>9, <1>10, <1>11, <1>12, <1>13, <1>14, <1>15, Zenon DEF ReadHandler
<1>18. QED BY <1>4, <1>5, <1>6, <1>7, <1>9, <1>16, <1>17, Zenon DEF Next

-----------------------------------------------------------------------------
(***************************************************************************)
(* A client that waits                                                     *)
(***************************************************************************)

\* Steps that send and receive nothing
LEMMA PoliteFrame ==
  ASSUME WriteSide, PoliteInv, UNCHANGED <<reqs, out, due>>,
         \A w \in Writes : writing'[w].pc = "wait" => writing'[w] = writing[w] /\ UNCHANGED p_write_,
         Working' => /\ Working /\ w_pos_' \in {0, w_pos_} /\ w_size_' \in {0, w_size_}
                     /\ \A w \in Writes : writing'[w].pc # "free" =>
                          writing[w].pc # "free" /\ writing'[w].size = writing[w].size
  PROVE  PoliteInv'
<1> SUFFICES ASSUME Polite', ~Grown'
             PROVE  (OutIsPrefix /\ EarlierReplied /\ AllReceived /\ WriteIsLast /\ HandlersLate)'
  BY DEF PoliteInv
<1>1. Polite /\ ~Grown
  BY DEF Polite, Grown
<1>2. OutIsPrefix /\ EarlierReplied /\ AllReceived /\ WriteIsLast /\ HandlersLate
  BY <1>1 DEF PoliteInv
<1>3. OutIsPrefix' /\ EarlierReplied' /\ AllReceived'
  BY <1>2 DEF OutIsPrefix, EarlierReplied, AllReceived
<1>4. WriteIsLast'
  BY <1>2 DEF WriteIsLast
<1>5. HandlersLate'
  BY <1>2 DEF HandlersLate
<1>6. QED BY <1>3, <1>4, <1>5

\* The socket takes a token of the reply the client waits for.
LEMMA PoliteTransfer ==
  ASSUME WriteSide, EndInv, PoliteInv, NEW w \in Writes, Transfer(w)
  PROVE  PoliteInv'
<1> SUFFICES ASSUME Polite', ~Grown'
             PROVE  (OutIsPrefix /\ EarlierReplied /\ AllReceived /\ WriteIsLast /\ HandlersLate)'
  BY DEF PoliteInv
<1>1. UNCHANGED <<reqs, due, p_write_, w_size_, w_pos_, stats_>> /\ writing[w].pc = "wait"
  BY DEF Transfer, bufVars
<1>2. Polite /\ ~Grown
  BY <1>1 DEF Polite, Grown
<1>3. OutIsPrefix /\ EarlierReplied /\ AllReceived /\ WriteIsLast /\ HandlersLate
  BY <1>2 DEF PoliteInv
<1> DEFINE n == writing[w].size
           d == writing[w].done
           l == Len(due)
<1>4. WriteOK(writing[w], Len(p_write_)) /\ writing = [v \in Writes |-> writing[v]]
  BY DEF WriteSide, WritesOK
<1>5. n \in Nat /\ d \in Nat /\ d < n /\ l \in Nat /\ Len(out) \in Nat
  BY <1>1, <1>4 DEF WriteOK, Write, WriteSide
<1>6. /\ ~writing[w].freed /\ writing[w].from = 0 /\ Len(out) = l - n + d
      /\ \A k \in 1..n : l - n + k > 0 /\ p_write_[k] = due[l - n + k]
      /\ \A v \in Writes : writing[v].pc = "wait" => v = w
  BY <1>1, <1>3 DEF WriteIsLast
<1>7. out' = Append(out, p_write_[d + 1])
  <2>1. out' = Append(out, IF writing[w].freed THEN Garbage ELSE p_write_[writing[w].from + (d + 1)])
    BY DEF Transfer
  <2>2. 0 + (d + 1) = d + 1
    BY <1>5
  <2>3. QED BY <2>1, <2>2, <1>6
<1> DEFINE r == IF d + 1 = n THEN "ok" ELSE "wait"
<1>8. writing' = [writing EXCEPT ![w] = [writing[w] EXCEPT !.done = d + 1, !.pc = r]]
  BY DEF Transfer
<1>9. /\ writing'[w].pc = r /\ writing'[w].size = n /\ writing'[w].done = d + 1
      /\ writing'[w].from = 0 /\ ~writing'[w].freed
      /\ \A v \in Writes : v # w => writing'[v] = writing[v]
  BY <1>4, <1>6, <1>8 DEF WriteOK, Write
<1>10. Len(out') = Len(out) + 1 /\ out'[Len(out) + 1] = p_write_[d + 1]
       /\ \A k \in 1..Len(out) : out'[k] = out[k]
  <2>1. out \in Seq(Tokens)
    BY DEF WriteSide
  <2>2. QED BY <2>1, <1>7
<1> HIDE DEF n, d, l
<1>11. d + 1 \in 1..n /\ l - n + (d + 1) = Len(out) + 1 /\ Len(out) + 1 <= l /\ Len(out) < l
  BY <1>5, <1>6
<1>12. out'[Len(out) + 1] = due[Len(out) + 1]
  BY <1>6, <1>10, <1>11
<1>13. OutIsPrefix'
  <2>1. ASSUME NEW k \in 1..Len(out') PROVE out'[k] = due[k]
    <3>1. CASE k = Len(out) + 1
      BY <3>1, <1>12
    <3>2. CASE k \in 1..Len(out)
      BY <3>2, <1>3, <1>10 DEF OutIsPrefix
    <3>3. QED BY <3>1, <3>2, <1>5, <1>10
  <2>2. Len(out') <= Len(due)
    BY <1>10, <1>11 DEF l
  <2>3. QED BY <2>1, <2>2, <1>1 DEF OutIsPrefix
<1>14. EarlierReplied'
  BY <1>1, <1>3 DEF EarlierReplied
<1>15. AllReceived'
  <2>1. ~\A k \in DOMAIN due : due[k].req # Len(reqs)
    <3>1. Len(out) # Len(due)
      BY <1>5, <1>11 DEF l
    <3>2. QED BY <3>1, <1>3 DEF AllReceived
  <2>2. QED BY <2>1, <1>1 DEF AllReceived
<1>16. WriteIsLast'
  <2>1. \A v \in Writes : writing'[v].pc = "wait" => v = w
    BY <1>6, <1>9
  <2>2. Len(out') = l - n + (d + 1)
    BY <1>10, <1>11
  <2>3. l = Len(due')
    BY <1>1 DEF l
  <2>4. \A k \in 1..n : l - n + k > 0 /\ p_write_'[k] = due'[l - n + k]
    BY <1>1, <1>6
  <2>5. QED BY <2>1, <2>2, <2>3, <2>4, <1>9 DEF WriteIsLast
<1>17. HandlersLate'
  <2>1. ASSUME NEW v \in Writes
        PROVE  writing'[v].pc # "free" => writing[v].pc # "free" /\ writing'[v].size = writing[v].size
    BY <1>1, <1>9 DEF n
  <2>2. QED BY <2>1, <1>1, <1>3 DEF HandlersLate, Working
<1>18. QED BY <1>13, <1>14, <1>15, <1>16, <1>17

\* The handler of a finished write finds nothing left to send.
LEMMA PoliteHandler ==
  ASSUME WriteSide, EndInv, PoliteInv, NEW w \in Writes, WriteHandlerOk(w)
  PROVE  PoliteInv'
<1>1. UNCHANGED <<reqs, out, due, p_write_, stats_>> /\ writing[w].pc = "ok"
  BY DEF WriteHandlerOk, readVars
<1>2. WriteOK(writing[w], Len(p_write_)) /\ writing = [v \in Writes |-> writing[v]]
  BY DEF WriteSide, WritesOK
<1> SUFFICES ASSUME Polite', ~Grown' PROVE PoliteInv'
  BY DEF PoliteInv
<1>3. HandlersLate
  BY <1>1 DEF Polite, Grown, PoliteInv
<1>4. writing' = [writing EXCEPT ![w] = NoWrite] /\ (Working => w_pos_' = 0 /\ w_size_' = 0)
  <2>1. CASE Working
    <3>1. /\ w_pos_ = 0 /\ due # <<>> /\ due[Len(due)].pos <= writing[w].size
          /\ (w_size_ > 0 => w_size_ <= due[Len(due)].pos)
      BY <2>1, <1>1, <1>3 DEF HandlersLate
    <3>2. writing[w].size \in Nat /\ w_size_ \in Nat
      BY <1>2 DEF WriteOK, Write, WriteSide
    <3>3. Len(due) \in 1..Len(due)
      BY <3>1 DEF WriteSide
    <3>4. due[Len(due)].pos \in Int
      BY <3>3, DueTokens DEF WriteSide
    <3> DEFINE x == due[Len(due)].pos
               s == writing[w].size
    <3> HIDE DEF x, s
    <3>5. x \in Int /\ s \in Nat /\ x <= s /\ (w_size_ > 0 => w_size_ <= x)
      BY <3>1, <3>2, <3>4 DEF x, s
    <3>6. ~(0 + s < w_size_)
      BY <3>2, <3>5
    <3>7. ~bytes_left(w_pos_ + writing[w].size)
      BY <3>1, <3>6 DEF bytes_left, s
    <3>8. QED BY <3>7, Zenon DEF WriteHandlerOk
  <2>2. CASE ~Working
    BY <2>2, Zenon DEF WriteHandlerOk
  <2>3. QED BY <2>1, <2>2
<1>5. \A v \in Writes : writing'[v] = NoWrite \/ writing'[v] = writing[v]
  BY <1>2, <1>4
<1>6. NoWrite.pc = "free"
  BY DEF NoWrite
<1>7. \A v \in Writes : writing'[v].pc = "wait" => writing'[v] = writing[v] /\ UNCHANGED p_write_
  BY <1>1, <1>5, <1>6
<1>8. \A v \in Writes : writing'[v].pc # "free" =>
        writing[v].pc # "free" /\ writing'[v].size = writing[v].size
  BY <1>5, <1>6
<1>9. Working' => Working
  BY <1>1 DEF Working
<1>10. QED BY <1>1, <1>4, <1>7, <1>8, <1>9, PoliteFrame

\* The client has all replies and sends the next request.
LEMMA PoliteSend ==
  ASSUME WriteSide, ReadSide, DueOrder, PoliteInv, Send
  PROVE  PoliteInv'
<1> SUFFICES ASSUME Polite', ~Grown'
             PROVE  (OutIsPrefix /\ EarlierReplied /\ AllReceived /\ WriteIsLast /\ HandlersLate)'
  BY DEF PoliteInv
<1>1. UNCHANGED <<out, due, p_write_, w_size_, w_pos_, writing, stats_>>
  BY DEF Send, writeVars, bufVars
<1>2. PICK r : reqs' = Append(reqs, r) /\ r.ahead = ~\A i \in DOMAIN reqs : Answered(i)
  <2>1. PICK kind \in Kinds, len \in BodyLens :
          reqs' = Append(reqs, [kind |-> kind, len |-> len,
                                ahead |-> ~\A i \in DOMAIN reqs : Answered(i)])
    BY DEF Send
  <2> DEFINE b == ~\A i \in DOMAIN reqs : Answered(i)
             q == [kind |-> kind, len |-> len, ahead |-> b]
  <2>2. q.ahead = b
    OBVIOUS
  <2>3. QED BY <2>1, <2>2, Zenon
<1>3. /\ Len(reqs) \in Nat /\ DOMAIN reqs = 1..Len(reqs) /\ DOMAIN reqs' = 1..(Len(reqs) + 1)
      /\ Len(reqs') = Len(reqs) + 1 /\ reqs'[Len(reqs) + 1] = r
      /\ \A i \in 1..Len(reqs) : reqs'[i] = reqs[i]
  <2>1. reqs \in Seq(Request)
    BY DEF ReadSide
  <2>2. QED BY <2>1, <1>2
<1>4. Polite /\ ~Grown /\ ~r.ahead
  <2>1. \A i \in 1..(Len(reqs) + 1) : ~reqs'[i].ahead
    BY <1>3 DEF Polite
  <2>2. ASSUME NEW i \in 1..Len(reqs) PROVE ~reqs[i].ahead
    <3>1. i \in 1..(Len(reqs) + 1) /\ reqs'[i] = reqs[i]
      BY <1>3
    <3>2. QED BY <2>1, <3>1
  <2>3. Len(reqs) + 1 \in 1..(Len(reqs) + 1)
    BY <1>3
  <2>4. ~r.ahead
    BY <2>1, <2>3, <1>3
  <2>5. Polite
    BY <2>2, <1>3 DEF Polite
  <2>6. ~Grown
    BY <1>1 DEF Grown
  <2>7. QED BY <2>4, <2>5, <2>6
<1>5. OutIsPrefix /\ EarlierReplied /\ AllReceived /\ WriteIsLast /\ HandlersLate
  BY <1>4 DEF PoliteInv
<1>6. \A i \in 1..Len(reqs) : Answered(i)
  BY <1>2, <1>3, <1>4
<1>7. /\ Len(out) \in Nat /\ DOMAIN out = 1..Len(out) /\ Len(due) \in Nat /\ DOMAIN due = 1..Len(due)
      /\ \A k \in 1..Len(due) : due[k].req \in Nat /\ due[k].pos \in Int
  BY DueTokens DEF WriteSide
<1>8. /\ \A k \in 1..Len(out) : k \in 1..Len(due) /\ out[k] = due[k]
      /\ Len(out) <= Len(due)
  BY <1>5, <1>7 DEF OutIsPrefix
<1>9. ASSUME NEW i \in 1..Len(reqs)
      PROVE  \E k \in 1..Len(out) : /\ due[k].req = i
                                    /\ \A j \in DOMAIN due : due[j].req = i => due[j].pos <= due[k].pos
  <2>1. PICK k \in DOMAIN out :
          out[k].req = i /\ \A j \in DOMAIN due : due[j].req = i => due[j].pos <= out[k].pos
    BY <1>6 DEF Answered
  <2>2. k \in 1..Len(out) /\ out[k] = due[k]
    BY <1>7, <1>8
  <2>3. QED BY <2>1, <2>2, Zenon
<1>10. EarlierReplied'
  <2>1. ASSUME NEW i \in 1..Len(reqs) PROVE \E k \in DOMAIN due : due[k].req = i
    BY <1>7, <1>8, <1>9
  <2>2. Len(reqs') - 1 = Len(reqs)
    BY <1>3
  <2>3. QED BY <2>1, <2>2, <1>1 DEF EarlierReplied
<1>11. Len(out) = Len(due)
  <2>1. CASE Len(due) = 0
    BY <2>1, <1>7, <1>8
  <2>2. CASE Len(due) > 0
    <3> DEFINE z == Len(due)
               b == due[z].req
    <3>1. z \in 1..Len(due) /\ z \in DOMAIN due /\ z \in Nat
      BY <2>2, <1>7
    <3>2. b \in 1..Len(reqs)
      BY <3>1 DEF DueOrder
    <3>3. PICK k \in 1..Len(out) :
            due[k].req = b /\ \A j \in DOMAIN due : due[j].req = b => due[j].pos <= due[k].pos
      BY <3>2, <1>9
    <3>4. due[z].pos <= due[k].pos
      BY <3>1, <3>3
    <3>5. k \in DOMAIN due /\ k \in 1..Len(due)
      BY <1>7, <1>8
    <3>6. due[k].pos <= due[z].pos /\ (due[k].pos = due[z].pos => k = z)
      BY <3>3, <3>5 DEF DueOrder
    <3>7. due[z].pos \in Int /\ due[k].pos \in Int
      BY <3>1, <3>5, <1>7
    <3> HIDE DEF z
    <3>8. k = z
      BY <3>4, <3>6, <3>7
    <3>9. k <= Len(out)
      BY <1>7
    <3>10. Len(due) <= Len(out) /\ Len(out) <= Len(due)
      BY <3>8, <3>9, <1>8, Zenon DEF z
    <3>11. Len(out) \in Nat /\ Len(due) \in Nat
      BY <1>7
    <3>12. QED BY <3>10, <3>11
  <2>3. Len(due) = 0 \/ Len(due) > 0
    BY <1>7
  <2>4. QED BY <2>1, <2>2, <2>3, Zenon
<1>12. AllReceived'
  BY <1>1, <1>11 DEF AllReceived
<1>13. OutIsPrefix' /\ WriteIsLast' /\ HandlersLate'
  BY <1>1, <1>5 DEF OutIsPrefix, WriteIsLast, HandlersLate, Working
<1>14. QED BY <1>10, <1>12, <1>13

\* A reply to the request the client waits for: no write of an earlier reply is
\* left, and their handlers will not take this reply for unsent.
LEMMA PoliteReply ==
  ASSUME WriteSide, DueOrder, EndInv, PoliteInv, NEW i \in Nat, NEW n \in Nat, n > 0, reply(i, n),
         UNCHANGED <<reqs, stats_>>, Len(reqs) \in Nat,
         Working => i \in 1..Len(reqs) /\ \A k \in DOMAIN due : due[k].req < i
  PROVE  PoliteInv'
<1>1. CASE ~Working
  <2>1. writing' = resized(n) /\ UNCHANGED <<due, out>> /\ ~Working'
    BY <1>1 DEF reply, Working
  <2>2. ASSUME NEW w \in Writes PROVE writing'[w].pc # "wait"
    <3>1. WriteOK(writing[w], Len(p_write_)) /\ writing[w].pc # "wait"
      BY <1>1 DEF WriteSide, WritesOK, EndInv
    <3>2. QED BY <2>1, <3>1 DEF resized, WriteOK, Write
  <2>3. QED BY <2>1, <2>2, PoliteFrame
<1>2. CASE Working
  <2> SUFFICES ASSUME Polite', ~Grown'
               PROVE  (OutIsPrefix /\ EarlierReplied /\ AllReceived /\ WriteIsLast /\ HandlersLate)'
    BY DEF PoliteInv
  <2> DEFINE e == due'
             l == Len(due)
  <2>1. /\ l \in Nat /\ DOMAIN due = 1..l /\ due \in Seq(Tokens)
        /\ \A k \in 1..l : due[k].req \in Nat /\ due[k].pos \in Int
    BY DueTokens DEF WriteSide
  <2>2. /\ DOMAIN e = 1..Len(e) /\ Len(e) = l + n
        /\ e[Len(e)].req = i /\ e[Len(e)].pos = n
        /\ \A k \in 1..l : e[k] = due[k]
        /\ \A k \in 1..n : e[l + k] = Token(i, k)
        /\ \A k \in 1..Len(e) : k \notin 1..l => e[k].req = i /\ e[k].pos = k - l
    <3>1. e = due \o Units(i, n)
      BY <1>2 DEF reply
    <3>2. Extended(due \o Units(i, n), due, i, n)
      BY <2>1, NewDue, Zenon
    <3>3. QED BY <3>1, <3>2, Zenon DEF Extended
  <2>3. i \in 1..Len(reqs) /\ \A k \in 1..l : due[k].req < i
    BY <1>2, <2>1
  <2>4. \A k \in 1..l : k \in DOMAIN e /\ k \in 1..Len(e)
    BY <2>1, <2>2
  <2> HIDE DEF e, l
  <2>5. Polite /\ ~Grown
    <3>1. Polite
      BY DEF Polite
    <3>2. ASSUME NEW j \in 1..l, NEW k \in 1..l, due[j].req = due[k].req + 1,
                 \A m \in 1..l : due[m].req = due[k].req => due[m].pos < due[j].pos
          PROVE  FALSE
      <4>1. e[j].req = e[k].req + 1 /\ j \in DOMAIN e /\ k \in DOMAIN e
        BY <3>2, <2>2, <2>4
      <4>2. ASSUME NEW m \in 1..Len(e), e[m].req = e[k].req PROVE e[m].pos < e[j].pos
        <5>1. m \in 1..l
          <6>1. due[k].req \in Nat /\ due[k].req < i /\ e[k] = due[k]
            BY <2>1, <2>2, <2>3
          <6>2. m \notin 1..l => e[m].req = i
            BY <2>2
          <6>3. QED BY <6>1, <6>2, <4>2
        <5>2. e[m] = due[m] /\ e[k] = due[k] /\ e[j] = due[j]
          BY <5>1, <2>2
        <5>3. QED BY <5>1, <5>2, <4>2, <3>2
      <4>3. Grown'
        BY <4>1, <4>2, <2>2 DEF Grown, e
      <4>4. QED BY <4>3
    <3>3. ~Grown
      BY <3>2, <2>1, Zenon DEF Grown
    <3>4. QED BY <3>1, <3>3
  <2>6. OutIsPrefix /\ EarlierReplied /\ AllReceived /\ WriteIsLast /\ HandlersLate
    BY <2>5 DEF PoliteInv
  <2>7. i = Len(reqs)
    <3>1. CASE i \in 1..(Len(reqs) - 1)
      <4>1. PICK k \in DOMAIN due : due[k].req = i
        BY <3>1, <2>6 DEF EarlierReplied
      <4>2. due[k].req < i
        BY <2>1, <2>3
      <4>3. QED BY <4>1, <4>2
    <3>2. QED BY <3>1, <2>3
  <2>8. Len(out) = l
    <3>1. \A k \in DOMAIN due : due[k].req # Len(reqs)
      BY <2>1, <2>3, <2>7
    <3>2. QED BY <3>1, <2>6 DEF AllReceived, l
  <2>9. ASSUME NEW w \in Writes PROVE writing[w].pc # "wait"
    <3> SUFFICES ASSUME writing[w].pc = "wait" PROVE FALSE
      OBVIOUS
    <3>1. Len(out) = l - writing[w].size + writing[w].done
      BY <2>6 DEF WriteIsLast, l
    <3>2. writing[w].size \in Nat /\ writing[w].done \in Nat /\ writing[w].done < writing[w].size
      BY DEF WriteSide, WritesOK, WriteOK, Write
    <3>3. QED BY <3>1, <3>2, <2>1, <2>8
  <2>10. PICK w \in Writes : writing[w].pc = "free" /\ writing' = started(resized(n), w, 0, n)
    BY <1>2 DEF reply
  <2>11. /\ writing'[w].pc = "wait" /\ writing'[w].from = 0 /\ writing'[w].size = n
         /\ writing'[w].done = 0 /\ ~writing'[w].freed
    BY <2>10 DEF started, resized, NoWrite
  <2>12. ASSUME NEW v \in Writes, v # w
         PROVE  writing'[v].pc = writing[v].pc /\ writing'[v].size = writing[v].size
    <3>1. WriteOK(writing[v], Len(p_write_))
      BY DEF WriteSide, WritesOK
    <3>2. QED BY <3>1, <2>10, <2>12 DEF started, resized, WriteOK, Write
  <2>13. UNCHANGED out /\ w_pos_' = 0 /\ w_size_' = n /\ \A k \in 1..n : p_write_'[k] = Token(i, k)
    <3>1. UNCHANGED out /\ w_pos_' = 0 /\ w_size_' = n
      BY DEF reply, fill_for_http
    <3>2. \A k \in 1..n : p_write_'[k] = Token(i, k)
      BY FilledBuffer DEF reply, WriteSide
    <3>3. QED BY <3>1, <3>2
  <2>14. OutIsPrefix'
    <3>1. Len(out) <= Len(e) /\ Len(out) \in Nat
      BY <2>1, <2>2, <2>8
    <3>2. ASSUME NEW k \in 1..Len(out) PROVE out[k] = e[k]
      <4>1. k \in 1..l
        BY <2>8
      <4>2. out[k] = due[k]
        BY <2>6 DEF OutIsPrefix
      <4>3. QED BY <4>1, <4>2, <2>2
    <3>3. QED BY <3>1, <3>2, <2>13 DEF OutIsPrefix, e
  <2>15. EarlierReplied'
    <3>1. ASSUME NEW x \in 1..(Len(reqs) - 1) PROVE \E k \in DOMAIN e : e[k].req = x
      <4>1. PICK k \in DOMAIN due : due[k].req = x
        BY <2>6 DEF EarlierReplied
      <4>2. k \in 1..l
        BY <2>1
      <4>3. k \in DOMAIN e /\ e[k] = due[k]
        BY <4>2, <2>2, <2>4
      <4>4. QED BY <4>1, <4>3
    <3>2. QED BY <3>1 DEF EarlierReplied, e
  <2>16. AllReceived'
    <3>1. Len(e) \in DOMAIN e /\ e[Len(e)].req = Len(reqs)
      BY <2>1, <2>2, <2>7
    <3>2. QED BY <3>1 DEF AllReceived, e
  <2>17. WriteIsLast'
    <3>1. ASSUME NEW v \in Writes, writing'[v].pc = "wait" PROVE v = w
      BY <3>1, <2>9, <2>12
    <3>2. Len(out) = Len(e) - n + 0
      BY <2>1, <2>2, <2>8
    <3>3. ASSUME NEW k \in 1..n PROVE Len(e) - n + k > 0 /\ p_write_'[k] = e[Len(e) - n + k]
      <4>1. Len(e) - n + k = l + k /\ Len(e) - n + k > 0
        BY <2>1, <2>2
      <4>2. e[l + k] = Token(i, k) /\ p_write_'[k] = Token(i, k)
        BY <2>2, <2>13
      <4>3. QED BY <4>1, <4>2
    <3>4. QED BY <3>1, <3>2, <3>3, <2>11, <2>13 DEF WriteIsLast, e
  <2>18. HandlersLate'
    <3>1. e # <<>> /\ Len(e) \in DOMAIN e
      BY <2>1, <2>2
    <3>2. ASSUME NEW v \in Writes, writing'[v].pc # "free" PROVE n <= writing'[v].size
      <4>1. CASE v = w
        BY <4>1, <2>11
      <4>2. CASE v # w
        <5>1. writing[v].pc # "free" /\ writing'[v].size = writing[v].size
          BY <4>2, <3>2, <2>12
        <5>2. due # <<>> /\ due[l].pos <= writing[v].size
          BY <5>1, <1>2, <2>6 DEF HandlersLate, l
        <5>3. l \in 1..l /\ e[l] = due[l]
          <6>1. l \in 1..l
            BY <5>2, <2>1 DEF l
          <6>2. QED BY <6>1, <2>2
        <5>4. due[l].req \in 1..Len(reqs) /\ due[l].req < i /\ due[l].pos \in Int
          BY <5>3, <2>1, <2>3 DEF DueOrder, l
        <5>5. i - 1 \in 1..(Len(reqs) - 1)
          BY <5>4, <2>7
        <5>6. PICK k \in DOMAIN due : due[k].req = i - 1
          BY <5>5, <2>6 DEF EarlierReplied
        <5>7. due[k].req <= due[l].req
          BY DEF DueOrder, l
        <5>8. i = due[l].req + 1
          BY <5>4, <5>6, <5>7
        <5>9. e[Len(e)].req = e[l].req + 1 /\ l \in DOMAIN e
          BY <5>3, <5>8, <2>2, <2>4
        <5>10. PICK m \in DOMAIN e : e[m].req = e[l].req /\ ~(e[m].pos < n)
          BY <5>9, <3>1, <2>2 DEF Grown, e
        <5>11. m \in 1..l
          <6>1. m \notin 1..l => e[m].req = i
            BY <2>2
          <6>2. e[m].req = due[l].req /\ due[l].req < i /\ due[l].req \in Nat
            BY <5>3, <5>4, <5>10
          <6>3. QED BY <6>1, <6>2
        <5>12. e[m] = due[m] /\ due[m].pos \in Int /\ m \in DOMAIN due
          BY <5>11, <2>1, <2>2
        <5>13. due[m].pos <= due[l].pos
          BY <5>3, <5>10, <5>12 DEF DueOrder, l
        <5>14. writing[v].size \in Nat
          BY DEF WriteSide, WritesOK, WriteOK, Write
        <5>15. ~(due[m].pos < n)
          BY <5>10, <5>12
        <5>16. n <= writing[v].size
          BY <5>2, <5>4, <5>12, <5>13, <5>14, <5>15
        <5>17. QED BY <5>1, <5>16
      <4>3. QED BY <4>1, <4>2
    <3>3. e[Len(e)].pos = n
      BY <2>2
    <3>4. QED BY <3>1, <3>2, <3>3, <2>13 DEF HandlersLate, e
  <2>19. QED BY <2>14, <2>15, <2>16, <2>17, <2>18
<1>3. QED BY <1>1, <1>2

\* What read_body_handler does when the whole body is there
LEMMA PoliteProcess ==
  ASSUME WriteSide, DueOrder, EndInv, PoliteInv, NEW i \in 1..Len(reqs), process(i), i \in Nat,
         UNCHANGED <<reqs, stats_>>, Len(reqs) \in Nat, \A k \in DOMAIN due : due[k].req < i
  PROVE  PoliteInv'
<1>1. CASE \E n \in (IF reqs[i].kind = "bb" THEN BbReplies ELSE {FixedReply}) : reply(i, n)
  <2>1. PICK n \in BbReplies \cup {FixedReply} : reply(i, n)
    BY <1>1
  <2>2. n \in Nat /\ n > 0
    BY ReplyLengths
  <2>3. QED BY <2>1, <2>2, PoliteReply
<1>2. CASE UNCHANGED writeVars
  BY <1>2, PoliteFrame DEF writeVars, bufVars, Working
<1>3. QED BY <1>1, <1>2 DEF process

\* Every step keeps the order between the client that waits and the writes.
LEMMA PoliteStep ==
  ASSUME WriteSide, ReadSide, ReadInv, DueInv, PoliteInv, [Next]_vars
  PROVE  PoliteInv'
<1>1. /\ Len(reqs) \in Nat /\ Len(p_write_) \in Nat /\ DueOrder /\ DuePlace /\ EndInv
      /\ WritesOK(writing, Len(p_write_))
  BY DEF ReadSide, WriteSide, DueInv
<1>2. CASE UNCHANGED <<reqs, writeVars, stats_>>
  BY <1>2, PoliteFrame DEF writeVars, bufVars, Working
<1>3. ASSUME NEW r \in {"error", "operation_aborted"}, writing' = ended_writes(r) , ~Working',
             UNCHANGED <<reqs, out, due>>
      PROVE  PoliteInv'
  <2>1. \A w \in Writes : writing'[w].pc # "wait"
    BY <1>1, <1>3, EndedWrites
  <2>2. QED BY <1>3, <2>1, PoliteFrame
<1>4. CASE Send
  BY <1>1, <1>4, PoliteSend
<1>5. CASE ReadUntil \/ ReadExactly \/ HeadMisread \/ HeadOverrun \/ HeadMore \/ LifeOver \/ Dead \/ UNCHANGED vars
  BY <1>2, <1>5 DEF ReadUntil, ReadExactly, HeadMisread, HeadOverrun, HeadMore, LifeOver, Dead, vars
<1>6. CASE PeerGone
  <2>1. UNCHANGED <<reqs, out, due, p_write_, w_pos_, w_size_, stats_>>
    BY <1>6 DEF PeerGone, bufVars
  <2>2. CASE writing' = writing
    BY <2>1, <2>2, PoliteFrame DEF Working
  <2>3. CASE writing' = ended_writes("error")
    <3>1. \A w \in Writes : writing'[w].pc # "wait"
      BY <1>1, <2>3, EndedWrites
    <3>2. ASSUME NEW w \in Writes, writing'[w].pc # "free"
          PROVE  writing[w].pc # "free" /\ writing'[w].size = writing[w].size
      <4>1. WriteOK(writing[w], Len(p_write_))
        BY <1>1 DEF WritesOK
      <4>2. QED BY <4>1, <2>3, <3>2 DEF ended_writes, WriteOK, Write
    <3>3. QED BY <2>1, <3>1, <3>2, PoliteFrame DEF Working
  <2>4. QED BY <2>2, <2>3, <1>6 DEF PeerGone
<1>7. CASE Expire
  <2>1. writing' = ended_writes("error") /\ ~Working' /\ UNCHANGED <<reqs, out, due>>
    BY <1>7 DEF Expire, Working
  <2>2. QED BY <2>1, <1>3
<1>8. CASE HeadEmpty \/ ReadError
  <2>1. writing' = ended_writes("operation_aborted") /\ ~Working' /\ UNCHANGED <<reqs, out, due>>
    BY <1>8 DEF HeadEmpty, ReadError, fail, Working
  <2>2. QED BY <2>1, <1>3
<1>9. ASSUME reading = "head_ok"
      PROVE  /\ Current \in 1..Len(reqs) /\ Current \in Nat
             /\ \A k \in DOMAIN due : due[k].req < Current
  <2>1. Current = parser_ + 1 /\ Current \in 1..Len(reqs) /\ Current \in Nat /\ parser_ \in Nat
    BY <1>9, HeadMeans DEF ReadInv, ReadSide
  <2>2. ASSUME NEW k \in DOMAIN due PROVE due[k].req < Current
    <3>1. due[k].req \in Nat /\ due[k].req <= parser_
      BY <1>1, <1>9, DueTokens DEF WriteSide, DuePlace
    <3>2. QED BY <2>1, <3>1
  <2>3. QED BY <2>1, <2>2
<1>10. CASE HeadGarbled \/ HeadRefused
  <2> DEFINE c == Current
  <2>1. reading = "head_ok" /\ UNCHANGED <<reqs, stats_>> /\ reply(c, ErrorReply)
    BY <1>10 DEF HeadGarbled, HeadRefused
  <2>2. c \in 1..Len(reqs) /\ c \in Nat /\ \A k \in DOMAIN due : due[k].req < c
    BY <2>1, <1>9
  <2> HIDE DEF c
  <2>3. QED BY <2>1, <2>2, <1>1, ReplyLengths, PoliteReply
<1>11. CASE HeadWhole
  <2>1. reading = "head_ok" /\ process(Current) /\ UNCHANGED <<reqs, stats_>>
    BY <1>11 DEF HeadWhole
  <2>2. QED BY <2>1, <1>1, <1>9, PoliteProcess, Zenon
<1>12. CASE BodyHandler
  <2>1. reading = "body_ok" /\ process(parser_) /\ UNCHANGED <<reqs, stats_>>
    BY <1>12 DEF BodyHandler
  <2>2. parser_ \in 1..Len(reqs) /\ parser_ \in Nat
    BY <2>1 DEF ReadInv, BodyOkInv, ReadSide
  <2>3. \A k \in DOMAIN due : due[k].req < parser_
    BY <1>1, <2>1 DEF DuePlace
  <2>4. QED BY <2>1, <2>2, <2>3, <1>1, PoliteProcess, Zenon
<1>13. CASE ReadAborted
  <2>1. reading = "operation_aborted" /\ UNCHANGED <<reqs, stats_>> /\ reply(0, ErrorReply)
    BY <1>13 DEF ReadAborted
  <2>2. ~Working /\ 0 \in Nat
    BY <1>1, <2>1 DEF EndInv
  <2>3. QED BY <2>1, <2>2, <1>1, ReplyLengths, PoliteReply
<1>14. ASSUME NEW w \in Writes, Transfer(w) \/ WriteHandler(w) PROVE PoliteInv'
  <2>1. CASE Transfer(w)
    BY <1>1, <2>1, PoliteTransfer
  <2>2. CASE WriteHandlerOk(w)
    BY <1>1, <2>2, PoliteHandler
  <2>3. CASE WriteHandlerAborted(w)
    <3>1. /\ UNCHANGED <<reqs, out, due, p_write_, w_pos_, w_size_, stats_>>
          /\ writing' = [writing EXCEPT ![w] = NoWrite]
      BY <2>3 DEF WriteHandlerAborted, bufVars
    <3>2. writing = [v \in Writes |-> writing[v]]
      BY <1>1 DEF WritesOK
    <3>3. \A v \in Writes : writing'[v] = writing[v] \/ writing'[v].pc = "free"
      BY <3>1, <3>2 DEF NoWrite
    <3>4. \A v \in Writes : writing'[v].pc = "wait" => writing'[v] = writing[v] /\ UNCHANGED p_write_
      BY <3>1, <3>3
    <3>5. \A v \in Writes : writing'[v].pc # "free" =>
            writing[v].pc # "free" /\ writing'[v].size = writing[v].size
      BY <3>3
    <3>6. QED BY <3>1, <3>4, <3>5, PoliteFrame DEF Working
  <2>4. CASE WriteHandlerError(w)
    <3> DEFINE ws == ended_writes("operation_aborted")
    <3>1. UNCHANGED <<reqs, out, due>> /\ ~Working' /\ writing' = [ws EXCEPT ![w] = NoWrite]
      BY <2>4 DEF WriteHandlerError, fail, Working
    <3>2. \A v \in Writes : ws[v].pc # "wait"
      BY <1>1, EndedWrites
    <3>3. DOMAIN ws = Writes
      BY DEF ended_writes
    <3> HIDE DEF ws
    <3>4. \A v \in Writes : writing'[v].pc # "wait"
      BY <3>1, <3>2, <3>3 DEF NoWrite
    <3>5. QED BY <3>1, <3>4, PoliteFrame
  <2>5. QED BY <2>1, <2>2, <2>3, <2>4, <1>14 DEF WriteHandler
<1>15. CASE ReadHandler
  BY <1>15, <1>5, <1>8, <1>10, <1>11, <1>12, <1>13, Zenon DEF ReadHandler
<1>16. QED BY <1>4, <1>5, <1>6, <1>7, <1>14, <1>15, Zenon DEF Next

-----------------------------------------------------------------------------
(***************************************************************************)
(* The theorems                                                            *)
(***************************************************************************)

\* start() establishes the invariant.
LEMMA ConnInit == Init => ConnInv
<1> SUFFICES ASSUME Init PROVE ConnInv
  OBVIOUS
<1>1. WriteSide
  <2> DEFINE b == [k \in 1..BufferSize |-> Nul]
  <2>1. b \in Seq(Tokens) /\ Len(b) = BufferSize
    <3>1. Nul \in Tokens /\ BufferSize \in Nat
      BY TokenType, ReplyLengths
    <3> HIDE DEF Tokens, Nul
    <3>2. QED BY <3>1
  <2>2. WritesOK(writing, Len(p_write_))
    <3>1. writing = [w \in Writes |-> NoWrite]
      BY DEF Init
    <3>2. \A w \in Writes : writing[w] = NoWrite
      BY <3>1
    <3>3. QED BY <3>1, <3>2, NoWriteOK DEF WritesOK
  <2> HIDE DEF b
  <2>3. p_write_ = b /\ w_size_ = 0 /\ w_pos_ = 0 /\ out = <<>> /\ due = <<>>
    BY DEF Init, b
  <2>4. 0 <= BufferSize
    BY ReplyLengths
  <2>5. QED BY <2>1, <2>2, <2>3, <2>4 DEF WriteSide
<1>2. ReadSide
  BY DEF Init, ReadSide, Waiting
<1>3. ReadInv
  <2>1. Unread(reqs, inbox)
    BY DEF Init, Unread
  <2>2. Begins(reqs, inbox, parser_ + 1, 0)
    BY DEF Init, Begins
  <2>3. QED BY <2>1, <2>2 DEF Init, ReadInv, HeadInv, HeadOkInv, BodyInv, BodyOkInv, From
<1>4. DueInv
  BY DEF Init, DueInv, DueOrder, DuePlace, EndInv, Working
<1>5. PoliteInv
  <2>1. \A w \in Writes : writing[w].pc = "free"
    BY DEF Init, NoWrite
  <2>2. QED BY <2>1 DEF Init, PoliteInv, OutIsPrefix, EarlierReplied, AllReceived, WriteIsLast, HandlersLate
<1>6. QED BY <1>1, <1>2, <1>3, <1>4, <1>5, SidesMean DEF ConnInv

\* In every life of a connection the types are right, the read side stands at
\* a known place of the client's stream, and replies are given in order.
THEOREM ConnSafe == Spec => []ConnInv
<1>1. ConnInv /\ [Next]_vars => ConnInv'
  <2> SUFFICES ASSUME ConnInv, [Next]_vars PROVE ConnInv'
    OBVIOUS
  <2>1. WriteSide /\ ReadSide /\ ReadInv /\ DueInv /\ PoliteInv
    BY SidesMean DEF ConnInv
  <2>2. HeadOkInv
    BY <2>1 DEF ReadInv
  <2>3. WriteSide'
    BY <2>1, <2>2, WriteStep
  <2>4. ReadSide' /\ ReadInv'
    BY <2>1, ReadStep
  <2>5. DueInv' /\ PoliteInv'
    BY <2>1, DueStep, PoliteStep
  <2>6. ((WriteSide /\ ReadSide) <=> (TypeOK /\ BufInv))'
    BY SidesMean, PTL
  <2>7. QED BY <2>3, <2>4, <2>5, <2>6 DEF ConnInv
<1>2. QED BY ConnInit, <1>1, PTL DEF Spec

\* The variables keep their types, and a write that is not over has something
\* to write.
THEOREM ConnTypeCorrect == Spec => []TypeOK
<1>1. ConnInv => TypeOK
  BY DEF ConnInv
<1>2. QED BY <1>1, ConnSafe, PTL

\* A connection that waits for a head has the next head before it, however the
\* stream was cut.
THEOREM FramesSafe == Spec => []FramesAligned
<1>1. ConnInv => FramesAligned
  BY DEF ConnInv, ReadInv, HeadInv, From, Begins, FramesAligned
<1>2. QED BY <1>1, ConnSafe, PTL

\* A request is processed with its own body, whole and in order.
THEOREM BodySafe == Spec => []BodyIntact
<1>1. ConnInv => BodyIntact
  BY DEF ConnInv, ReadInv, HeadInv, BodyOkInv, BodyIntact
<1>2. QED BY <1>1, ConnSafe, PTL

\* A client that waits for each reply, and whose replies do not grow, receives
\* the replies and nothing else.
THEOREM RepliesSafe == Spec => []RepliesIntact
<1>1. ConnInv => RepliesIntact
  <2> SUFFICES ASSUME ConnInv, Polite, ~Grown PROVE IsPrefix(out, due)
    BY DEF RepliesIntact
  <2>1. OutIsPrefix /\ out \in Seq(Tokens) /\ due \in Seq(Tokens)
    BY DEF ConnInv, PoliteInv, TypeOK
  <2>2. Len(out) \in Nat /\ Len(due) \in Nat /\ Len(out) <= Len(due)
        /\ \A k \in 1..Len(out) : out[k] = due[k]
    BY <2>1 DEF OutIsPrefix
  <2> DEFINE a == SubSeq(due, 1, Len(out))
  <2>3. a \in Seq(Tokens) /\ Len(a) = Len(out) /\ \A k \in 1..Len(out) : a[k] = due[k]
    <3>1. Len(out) \in 0..Len(due) /\ Len(out) + 1 - 1 = Len(out)
      BY <2>2
    <3>2. a \in Seq(Tokens) /\ Len(a) = Len(out)
      BY <2>1, <3>1, CutInTwo
    <3>3. ASSUME NEW k \in 1..Len(out) PROVE a[k] = due[k]
      BY <2>1, <2>2
    <3>4. QED BY <3>2, <3>3
  <2> HIDE DEF a
  <2>4. a = out
    BY <2>1, <2>2, <2>3, SeqEqual
  <2>5. SubSeq(out, 1, Len(out)) = out
    BY <2>1, SubSeqFull
  <2>6. QED BY <2>2, <2>4, <2>5 DEF IsPrefix, a
<1>2. QED BY <1>1, ConnSafe, PTL
-----------------------------------------------------------------------------
(***************************************************************************)
(* The refinement of Answers                                               *)
(***************************************************************************)

\* As long as the connection reads, it has replied to all it has processed; the
\* body it reads is that of a request it serves.
AnsweredInv ==
  /\ reading \in {"head", "head_ok"} => Promise!Replied = parser_
  /\ reading \in {"body", "body_ok"} =>
       Promise!Replied = parser_ - 1 /\ reqs[parser_].kind \in Served

AnswersStep == [Promise!Next]_Promise!vars

\* Steps without a reply: the connection may end, and that is all.
LEMMA NothingReplied ==
  ASSUME UNCHANGED <<reqs, due>>,
         \/ reading' = "none"
         \/ reading # "none" /\ reading' # "none"
  PROVE  AnswersStep
<1>1. CASE reading' = "none" /\ reading # "none"
  BY <1>1 DEF AnswersStep, Promise!Next, Promise!Close
<1>2. CASE (reading # "none") = (reading' # "none")
  BY <1>2 DEF AnswersStep, Promise!vars
<1>3. QED BY <1>1, <1>2

\* The lengths of the replies to a request
LEMMA LengthsOfReplies ==
  ASSUME NEW i \in 1..Len(reqs), reqs \in Seq(Request)
  PROVE  /\ reqs[i].kind \in Kinds
         /\ \A n \in ReplyLength(reqs[i].kind) : n \in Nat /\ n > 0
<1>1. reqs[i] \in Request
  OBVIOUS
<1>2. reqs[i].kind \in Kinds
  BY <1>1 DEF Request
<1>3. \A n \in {FixedReply} \cup {ErrorReply} \cup BbReplies : n \in Nat /\ n > 0
  BY ReplyLengths
<1>4. \A kind \in Kinds : ReplyLength(kind) \subseteq {FixedReply} \cup {ErrorReply} \cup BbReplies
  BY DEF Kinds, Served, ReplyLength
<1>5. QED BY <1>2, <1>3, <1>4

\* A reply to the request after the last that was replied to
LEMMA RepliedNext ==
  ASSUME WriteSide, ReadSide, NEW i \in 1..Len(reqs), NEW n \in ReplyLength(reqs[i].kind),
         reply(i, n), UNCHANGED <<reqs, stats_>>, reading # "none",
         i \in Nat, Promise!Replied = i - 1,
         reading' = IF Working /\ reqs[i].kind \in Served THEN "head" ELSE "none"
  PROVE  AnswersStep /\ (reading' # "none" => Promise!Replied' = i)
<1>1. CASE Working
  <2>1. due \in Seq(Tokens) /\ due' = due \o Units(i, n)
    BY <1>1 DEF reply, WriteSide
  <2>2. reqs \in Seq(Request) /\ Len(reqs) \in Nat /\ DOMAIN reqs = 1..Len(reqs)
    BY DEF ReadSide
  <2>3. n \in Nat /\ n > 0 /\ reqs[i].kind \in Kinds
    BY <2>2, LengthsOfReplies
  <2>4. Promise!Replied' = i
    <3>0. Extended(due \o Units(i, n), due, i, n)
      BY <2>1, <2>3, NewDue, Zenon
    <3>1. /\ DOMAIN due' = 1..Len(due') /\ Len(due') = Len(due) + n /\ due'[Len(due')].req = i
      BY <2>1, <3>0, Zenon DEF Extended
    <3>2. Len(due) \in Nat
      BY <2>1, DueTokens
    <3>3. Len(due') > 0
      BY <2>3, <3>1, <3>2
    <3>4. due' # <<>>
      BY <3>3, NotEmpty
    <3>5. QED BY <3>1, <3>4 DEF Promise!Replied
  <2> DEFINE asked == [j \in DOMAIN reqs |-> reqs[j].kind]
  <2>5. Len(asked) = Len(reqs) /\ asked[i] = reqs[i].kind
    BY <2>2
  <2>6. i = Promise!Replied + 1 /\ Promise!Replied < Len(asked)
    BY <2>2, <2>5
  <2>7. [kind \in Kinds |-> ReplyLength(kind)][asked[i]] = ReplyLength(reqs[i].kind)
    BY <2>3, <2>5
  <2>8. Units(i, n) = Promise!Units(i, n)
    BY DEF Units, Promise!Units, Token
  <2>9. (reading' # "none") = (reqs[i].kind \in Served) /\ UNCHANGED asked
    BY <1>1
  <2>10. Promise!Reply
    <3> DEFINE lengths == [kind \in Kinds |-> ReplyLength(kind)]
    <3>1. i = Promise!Replied + 1
      BY <2>6
    <3>2. \E m \in lengths[asked[i]] : due' = due \o Promise!Units(i, m)
      BY <2>1, <2>7, <2>8
    <3>3. (reading' # "none") = (asked[i] \in Served)
      BY <2>5, <2>9
    <3>4. Promise!Replied < Len(asked) /\ UNCHANGED asked
      BY <2>6, <2>9
    <3> HIDE DEF lengths, asked
    <3>5. /\ \E m \in lengths[asked[Promise!Replied + 1]] :
              due' = due \o Promise!Units(Promise!Replied + 1, m)
          /\ (reading' # "none") = (asked[Promise!Replied + 1] \in Served)
      BY <3>1, <3>2, <3>3, Zenon
    <3>6. QED BY <3>4, <3>5, Zenon DEF Promise!Reply, lengths, asked
  <2>11. QED BY <2>4, <2>10 DEF AnswersStep, Promise!Next
<1>2. CASE ~Working
  <2>1. UNCHANGED <<reqs, due>> /\ reading' = "none"
    BY <1>2 DEF reply
  <2>2. QED BY <2>1, NothingReplied
<1>3. QED BY <1>1, <1>2

\* A request whose body is there is replied to, or the connection ends.
LEMMA ProcessReplied ==
  ASSUME WriteSide, ReadSide, NEW i \in 1..Len(reqs), process(i), i \in Nat,
         UNCHANGED <<reqs, stats_>>, reqs[i].kind \in Served, parser_' = i,
         reading # "none", Promise!Replied = i - 1
  PROVE  AnswersStep /\ AnsweredInv'
<1>1. reading' \in {"head", "none"}
  BY ProcessReads
<1>2. CASE /\ \E n \in (IF reqs[i].kind = "bb" THEN BbReplies ELSE {FixedReply}) : reply(i, n)
           /\ do_read("head")
  <2>1. PICK n \in ReplyLength(reqs[i].kind) : reply(i, n)
    BY <1>2 DEF ReplyLength, Served
  <2>2. reading' = IF Working /\ reqs[i].kind \in Served THEN "head" ELSE "none"
    BY <1>2 DEF do_read
  <2>3. AnswersStep /\ (reading' # "none" => Promise!Replied' = i)
    BY <2>1, <2>2, RepliedNext
  <2>4. QED BY <1>1, <2>3 DEF AnsweredInv
<1>3. CASE reading' = "none" /\ UNCHANGED writeVars
  <2>1. UNCHANGED <<reqs, due>>
    BY <1>3 DEF writeVars
  <2>2. QED BY <1>3, <2>1, NothingReplied DEF AnsweredInv
<1>4. QED BY <1>2, <1>3 DEF process

\* Every step is a step of Answers or none, and keeps the place of the replies.
LEMMA AnsweredStep ==
  ASSUME ConnInv, AnsweredInv, [Next]_vars
  PROVE  AnswersStep /\ AnsweredInv'
<1>1. WriteSide /\ ReadSide /\ ReadInv /\ DueInv
  BY SidesMean DEF ConnInv
<1>2. /\ reqs \in Seq(Request) /\ Len(reqs) \in Nat /\ DOMAIN reqs = 1..Len(reqs)
      /\ parser_ \in Nat
      /\ reading \in Waiting \cup {"none", "head_ok", "body_ok", "error", "operation_aborted"}
  BY <1>1 DEF ReadSide
<1>3. ASSUME UNCHANGED <<due, parser_>>,
             parser_ \in 1..Len(reqs) => reqs'[parser_] = reqs[parser_],
             \/ reading' = reading
             \/ reading' \in {"none", "error", "operation_aborted"}
             \/ reading = "head" /\ reading' = "head_ok"
             \/ reading = "body" /\ reading' = "body_ok"
      PROVE  AnsweredInv'
  <2>1. Promise!Replied' = Promise!Replied
    BY <1>3 DEF Promise!Replied
  <2>2. reading \in {"body", "body_ok"} => parser_ \in 1..Len(reqs)
    BY <1>1 DEF ReadInv, BodyInv, BodyOkInv, ReadSide
  <2>3. QED BY <1>3, <2>1, <2>2 DEF AnsweredInv
<1>4. CASE Send
  <2>1. UNCHANGED <<due, parser_, reading>>
    BY <1>4 DEF Send, writeVars
  <2>2. PICK kind \in Kinds, len \in BodyLens :
          reqs' = Append(reqs, [kind |-> kind, len |-> len,
                                ahead |-> ~\A i \in DOMAIN reqs : Answered(i)])
    BY <1>4 DEF Send
  <2> DEFINE r == [kind |-> kind, len |-> len, ahead |-> ~\A i \in DOMAIN reqs : Answered(i)]
             a == [i \in DOMAIN reqs |-> reqs[i].kind]
             b == [i \in DOMAIN reqs' |-> reqs'[i].kind]
  <2>3. reqs' = Append(reqs, r) /\ r.kind = kind
    BY <2>2
  <2> HIDE DEF r
  <2>4. /\ DOMAIN reqs' = 1..(Len(reqs) + 1) /\ reqs'[Len(reqs) + 1] = r
        /\ \A i \in 1..Len(reqs) : reqs'[i] = reqs[i]
    BY <1>2, <2>3
  <2>5. a \in Seq(Kinds) /\ Len(a) = Len(reqs)
    <3>1. \A i \in 1..Len(reqs) : reqs[i].kind \in Kinds
      BY <1>2, LengthsOfReplies
    <3>2. QED BY <1>2, <3>1
  <2>6. b = Append(a, kind)
    <3>1. b = [i \in 1..(Len(reqs) + 1) |-> reqs'[i].kind]
      BY <2>4
    <3>2. Append(a, kind) = [i \in 1..(Len(a) + 1) |-> IF i = Len(a) + 1 THEN kind ELSE a[i]]
      BY <2>5
    <3>3. ASSUME NEW i \in 1..(Len(reqs) + 1)
          PROVE  reqs'[i].kind = IF i = Len(a) + 1 THEN kind ELSE a[i]
      BY <1>2, <2>3, <2>4, <2>5
    <3>4. QED BY <2>5, <3>1, <3>2, <3>3
  <2>7. Promise!Ask
    BY <2>1, <2>6 DEF Promise!Ask
  <2>8. QED BY <1>3, <2>1, <2>4, <2>7 DEF AnswersStep, Promise!Next
<1>5. CASE ReadUntil \/ ReadExactly
  <2>1. /\ UNCHANGED <<due, parser_, reqs>>
        /\ \/ reading = "head" /\ reading' = "head_ok"
           \/ reading = "body" /\ reading' = "body_ok"
    BY <1>5 DEF ReadUntil, ReadExactly, writeVars
  <2>2. QED BY <2>1, <1>3, NothingReplied
<1>6. CASE PeerGone \/ Expire
  <2>1. /\ UNCHANGED <<due, parser_, reqs>>
        /\ reading' = reading \/ (reading # "none" /\ reading' = "error")
    BY <1>6 DEF PeerGone, Expire, ended_read, Waiting
  <2>2. QED BY <2>1, <1>3, NothingReplied
<1>7. CASE HeadGarbled \/ HeadRefused
  <2> DEFINE c == Current
  <2>1. /\ reading = "head_ok" /\ reading' = "none" /\ UNCHANGED <<reqs, stats_>>
        /\ reply(c, ErrorReply) /\ reqs[c].kind \in {"garbled", "refused"}
    BY <1>7 DEF HeadGarbled, HeadRefused
  <2>2. c = parser_ + 1 /\ c \in 1..Len(reqs) /\ c \in Nat
    BY <1>1, <2>1, HeadMeans DEF ReadInv
  <2> HIDE DEF c
  <2>3. ErrorReply \in ReplyLength(reqs[c].kind) /\ reqs[c].kind \notin Served
    BY <2>1 DEF ReplyLength, Served
  <2>4. Promise!Replied = c - 1
    BY <1>2, <2>1, <2>2 DEF AnsweredInv
  <2>5. AnswersStep
    BY <1>1, <2>1, <2>2, <2>3, <2>4, RepliedNext
  <2>6. QED BY <2>1, <2>5 DEF AnsweredInv
<1>8. CASE HeadMisread \/ HeadOverrun \/ LifeOver \/ Dead \/ UNCHANGED vars
  <2>1. UNCHANGED <<due, parser_, reading, reqs>>
    BY <1>8 DEF HeadMisread, HeadOverrun, LifeOver, Dead, vars, readVars, writeVars
  <2>2. QED BY <2>1, <1>3, NothingReplied
<1>9. CASE HeadMore
  <2>1. /\ reading = "head_ok" /\ reading' \in {"body", "none"} /\ parser_' = Current
        /\ UNCHANGED <<reqs, due>>
    BY <1>9 DEF HeadMore, do_read, writeVars
  <2>2. Current = parser_ + 1
    BY <1>1, <2>1, HeadMeans DEF ReadInv
  <2>3. Promise!Replied' = parser_' - 1 /\ reqs'[parser_'].kind \in Served
    BY <1>2, <1>9, <2>1, <2>2 DEF AnsweredInv, Promise!Replied, HeadMore
  <2>4. QED BY <2>1, <2>3, NothingReplied DEF AnsweredInv
<1>10. CASE HeadEmpty
  <2>1. reading = "head_ok" /\ reading' = "none" /\ UNCHANGED <<reqs, due>>
    BY <1>10 DEF HeadEmpty
  <2>2. QED BY <2>1, NothingReplied DEF AnsweredInv
<1>11. CASE HeadWhole
  <2> DEFINE c == Current
  <2>1. /\ reading = "head_ok" /\ process(c) /\ parser_' = c /\ UNCHANGED <<reqs, stats_>>
        /\ reqs[c].kind \in Served
    BY <1>11 DEF HeadWhole
  <2>2. c = parser_ + 1 /\ c \in 1..Len(reqs) /\ c \in Nat
    BY <1>1, <2>1, HeadMeans DEF ReadInv
  <2> HIDE DEF c
  <2>3. Promise!Replied = c - 1
    BY <1>2, <2>1, <2>2 DEF AnsweredInv
  <2>4. QED BY <1>1, <2>1, <2>2, <2>3, ProcessReplied
<1>12. CASE BodyHandler
  <2>1. /\ reading = "body_ok" /\ process(parser_) /\ UNCHANGED <<reqs, stats_, parser_>>
    BY <1>12 DEF BodyHandler
  <2>2. parser_ \in 1..Len(reqs)
    BY <1>1, <2>1 DEF ReadInv, BodyOkInv, ReadSide
  <2>3. Promise!Replied = parser_ - 1 /\ reqs[parser_].kind \in Served
    BY <2>1 DEF AnsweredInv
  <2>4. QED BY <1>1, <1>2, <2>1, <2>2, <2>3, ProcessReplied
<1>13. CASE ReadError
  <2>1. reading = "error" /\ reading' = "none" /\ UNCHANGED <<reqs, due>>
    BY <1>13 DEF ReadError
  <2>2. QED BY <2>1, NothingReplied DEF AnsweredInv
<1>14. CASE ReadAborted
  <2>1. /\ reading = "operation_aborted" /\ reading' = "none" /\ UNCHANGED reqs
        /\ reply(0, ErrorReply)
    BY <1>14 DEF ReadAborted
  <2>2. ~Working
    BY <1>1, <2>1 DEF DueInv, EndInv
  <2>3. UNCHANGED due
    BY <2>1, <2>2 DEF reply
  <2>4. QED BY <2>1, <2>3, NothingReplied DEF AnsweredInv
<1>15. ASSUME NEW w \in Writes, Transfer(w) \/ WriteHandler(w)
       PROVE  AnswersStep /\ AnsweredInv'
  <2>1. /\ UNCHANGED <<due, parser_, reqs>>
        /\ reading' = reading \/ (reading # "none" /\ reading' = "operation_aborted")
    BY <1>15 DEF Transfer, WriteHandler, WriteHandlerOk, WriteHandlerError, WriteHandlerAborted,
                 readVars, ended_read, Waiting
  <2>2. QED BY <2>1, <1>3, NothingReplied
<1>16. QED
  BY <1>4, <1>5, <1>6, <1>7, <1>8, <1>9, <1>10, <1>11, <1>12, <1>13, <1>14, <1>15, Zenon
     DEF Next, ReadHandler

\* front_conn.cpp:112-315: a life of a connection owes its client what Answers
\* says, whatever is sent ahead, however the stream is cut and whenever it fails.
THEOREM ConnImplementsAnswers == Spec => ImplementsAnswers
<1>1. Init => Promise!Init /\ AnsweredInv
  BY DEF Init, Promise!Init, AnsweredInv, Promise!Replied
<1>2. ConnInv /\ AnsweredInv /\ [Next]_vars => AnsweredInv' /\ AnswersStep
  BY AnsweredStep
<1>3. QED BY <1>1, <1>2, ConnSafe, PTL DEF Spec, ImplementsAnswers, Promise!Spec, AnswersStep
=============================================================================
