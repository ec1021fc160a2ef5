--------------------------- MODULE RoutingProofs ---------------------------
(***************************************************************************)
(* Proofs about the way of an answer, for any number of connections,       *)
(* sessions, answers and clients and any size of p_buffer_.                *)
(***************************************************************************)
EXTENDS Routing, SequenceTheorems, Induction, TLAPS

\* The cells of which texts are made: only an "open" carries a session id.
Ids == Sessions \cup {0, -1}
Cell == ({"open"} \X Ids) \cup ({"body", "close"} \X Nat) \cup {Nul, Space}

\* What the kernel holds, and what was read of it.
ReadInv ==
  /\ stream \in Seq(Cell)
  /\ p_buffer_ \in [1..BufferSize -> Cell]
  /\ got \in Seq(Cell) /\ Len(got) <= BufferSize
  /\ \A j \in 1..Len(got) : p_buffer_[j] = got[j]

\* What is being forwarded was parsed, and the object that was asked for is held.
PushInv ==
  /\ pc # "read" => got # <<>> /\ (aligned => JsonText(WithoutNul(got)))
  /\ pc \notin {"read", "parse"} => is_json(Text(p_buffer_))
  /\ ptr # NoConn <=> pc \in {"do_write", "async_write", "return"}
  /\ ptr # NoConn => client[ptr] = asked

RoutingInv == TypeOK /\ ReadInv /\ PushInv

-----------------------------------------------------------------------------
(***************************************************************************)
(* Lemmas about cells and texts                                            *)
(***************************************************************************)

\* What the kinds of a cell say about it.
LEMMA CellKinds ==
  /\ Nul \in Cell /\ ~IsOpen(Nul) /\ ~IsClose(Nul) /\ ~IsSpace(Nul) /\ Nul[1] # "body"
  /\ Space \in Cell /\ IsSpace(Space)
  /\ \A c \in Cell : /\ IsOpen(c) => c[2] \in Ids /\ ~IsClose(c) /\ ~IsSpace(c) /\ c[1] # "body"
                     /\ IsClose(c) => ~IsSpace(c) /\ c[1] # "body"
  /\ \A i \in Ids : <<"open", i>> \in Cell
  /\ \A m \in Nat : <<"body", m>> \in Cell /\ <<"close", m>> \in Cell
BY DEF Nul, Space, Cell, IsOpen, IsClose, IsSpace

\* Text ends before the first NUL, or fills the buffer.
LEMMA TextPrefix ==
  ASSUME NEW b \in [1..BufferSize -> Cell]
  PROVE  /\ Text(b) \in Seq(Cell) /\ Len(Text(b)) \in 0..BufferSize
         /\ \A j \in 1..Len(Text(b)) : Text(b)[j] = b[j] /\ b[j] # Nul
         /\ Len(Text(b)) < BufferSize => b[Len(Text(b)) + 1] = Nul
<1> DEFINE ends == {k \in DOMAIN b : b[k] = Nul}
<1>1. BufferSize \in Nat
  BY RoutingAssumption
<1>2. DOMAIN b = 1..BufferSize
  OBVIOUS
<1>3. b \in Seq(Cell) /\ Len(b) = BufferSize
  BY <1>1
<1>4. CASE ends = {}
  <2>1. Text(b) = b
    BY <1>4 DEF Text
  <2>2. QED BY <1>1, <1>2, <1>3, <1>4, <2>1
<1>5. CASE ends # {}
  <2> DEFINE first == CHOOSE k \in ends : \A j \in ends : k <= j
  <2>1. ends \in SUBSET Nat
    BY <1>1, <1>2
  <2>2. \E k \in ends : \A j \in ends : k <= j
    BY <1>5, <2>1, LeastMember
  <2>3. first \in ends /\ \A j \in ends : first <= j
    BY <2>2
  <2>4. Text(b) = SubSeq(b, 1, first - 1)
    BY <1>5 DEF Text
  <2> HIDE DEF first
  <2>5. first \in 1..BufferSize /\ b[first] = Nul
    BY <2>3
  <2>6. /\ SubSeq(b, 1, first - 1) \in Seq(Cell) /\ Len(SubSeq(b, 1, first - 1)) = first - 1
        /\ \A j \in 1..(first - 1) : SubSeq(b, 1, first - 1)[j] = b[j]
    BY <1>1, <1>3, <2>5
  <2>7. \A j \in 1..(first - 1) : b[j] # Nul
    BY <1>1, <2>3, <2>5
  <2>8. QED BY <1>1, <2>4, <2>5, <2>6, <2>7
<1>6. QED BY <1>4, <1>5

\* What the backend sends is made of cells.
LEMMA AnswerCells ==
  ASSUME NEW s \in Seq(Cell), NEW m \in Nat, NEW i \in Ids, NEW n \in Nat,
         NEW before \in Nat, NEW behind \in Nat, NEW end \in {<<>>, <<Nul>>}
  PROVE  s \o Copies(Space, before) \o Answer(m, i, n) \o Copies(Space, behind) \o end \in Seq(Cell)
<1>1. ASSUME NEW c \in Cell, NEW k \in Nat PROVE Copies(c, k) \in Seq(Cell)
  BY DEF Copies
<1>2. Answer(m, i, n) \in Seq(Cell)
  <2> DEFINE open == <<"open", i>>
             close == <<"close", m>>
  <2>5. open \in Cell /\ close \in Cell
    BY CellKinds
  <2> HIDE DEF open, close
  <2>1. <<open>> \in Seq(Cell) /\ <<close>> \in Seq(Cell)
    BY <2>5
  <2>2. Copies(<<"body", m>>, n) \in Seq(Cell)
    BY <1>1, CellKinds
  <2> DEFINE body == Copies(<<"body", m>>, n)
  <2> HIDE DEF body
  <2>3. <<open>> \o body \o <<close>> \in Seq(Cell)
    BY <2>1, <2>2 DEF body
  <2>4. QED BY <2>3 DEF Answer, open, close, body
<1>3. Copies(Space, before) \in Seq(Cell) /\ Copies(Space, behind) \in Seq(Cell) /\ end \in Seq(Cell)
  <2>1. Space \in Cell /\ Nul \in Cell
    BY CellKinds
  <2>2. end \in Seq(Cell)
    <3>1. <<>> \in Seq(Cell)
      OBVIOUS
    <3>2. <<Nul>> \in Seq(Cell)
      BY <2>1
    <3>3. QED BY <3>1, <3>2, Zenon
  <2>3. QED BY <1>1, <2>1, <2>2
<1>4. QED BY <1>2, <1>3

\* A text without its last cell.
LEMMA WithoutLast ==
  ASSUME NEW g \in Seq(Cell), Len(g) >= 1
  PROVE  /\ SubSeq(g, 1, Len(g) - 1) \in Seq(Cell) /\ Len(SubSeq(g, 1, Len(g) - 1)) = Len(g) - 1
         /\ \A j \in 1..(Len(g) - 1) : SubSeq(g, 1, Len(g) - 1)[j] = g[j]
<1>1. CASE Len(g) = 1
  <2>1. SubSeq(g, 1, 0) = <<>>
    BY SubSeqEmpty
  <2>2. QED BY <1>1, <2>1
<1>2. CASE Len(g) >= 2
  BY <1>2
<1>3. Len(g) = 1 \/ Len(g) >= 2
  <2>1. Len(g) \in Nat
    OBVIOUS
  <2>2. \A m \in Nat : m >= 1 => m = 1 \/ m >= 2
    OBVIOUS
  <2>3. QED BY <2>1, <2>2
<1>4. QED BY <1>1, <1>2, <1>3, Zenon

\* A JSON text that goes on behind a JSON text goes on with white space.
LEMMA OnlySpaceBehind ==
  ASSUME NEW s \in Seq(Cell), NEW t \in Seq(Cell), JsonText(s), JsonText(t),
         Len(s) <= Len(t), \A k \in 1..Len(s) : t[k] = s[k]
  PROVE  \A k \in Len(s) + 1..Len(t) : IsSpace(t[k])
<1>1. PICK i \in 1..Len(s), j \in 1..Len(s) : i < j /\ IsOpen(s[i]) /\ IsClose(s[j])
  BY DEF JsonText
<1>2. PICK a \in 1..Len(t), b \in 1..Len(t) :
        /\ IsClose(t[b])
        /\ \A k \in DOMAIN t :
             /\ k < a \/ b < k => IsSpace(t[k])
             /\ a < k /\ k < b => t[k][1] = "body" \/ IsSpace(t[k])
  <2>1. DOMAIN t = 1..Len(t)
    OBVIOUS
  <2>2. QED BY <2>1, Zenon DEF JsonText
<1>3. /\ i \in 1..Len(t) /\ j \in 1..Len(t) /\ t[i] = s[i] /\ t[j] = s[j]
      /\ t[i] \in Cell /\ t[j] \in Cell
  OBVIOUS
<1>4. ~IsSpace(t[i]) /\ ~IsClose(t[i]) /\ t[i][1] # "body"
  BY <1>1, <1>3, CellKinds
<1>5. ~IsSpace(t[j]) /\ t[j][1] # "body"
  BY <1>1, <1>3, CellKinds
<1>6. a <= i
  BY <1>2, <1>3, <1>4
<1>7. j = b
  <2>1. j <= b
    BY <1>2, <1>3, <1>5
  <2>2. a < j
    BY <1>1, <1>3, <1>6
  <2>3. ~(j < b)
    BY <1>2, <1>3, <1>5, <2>2
  <2>4. QED BY <1>3, <2>1, <2>3
<1>8. QED BY <1>2, <1>3, <1>7

-----------------------------------------------------------------------------
(***************************************************************************)
(* The steps                                                               *)
(***************************************************************************)

\* What was read and what is parsed change in a read only.
LEMMA TextsKept ==
  ASSUME UNCHANGED <<p_buffer_, got>>
  PROVE  /\ JsonText(WithoutNul(got))' <=> JsonText(WithoutNul(got))
         /\ is_json(Text(p_buffer_))' <=> is_json(Text(p_buffer_))
BY DEF JsonText, WithoutNul, is_json, Text

\* Send: an answer is put behind what the kernel holds.
LEMMA SendInv ==
  ASSUME RoutingInv, Send
  PROVE  RoutingInv'
<1>1. stream \in Seq(Cell) /\ sends \in 0..MaxSends /\ MaxSends \in Nat
  BY RoutingAssumption DEF RoutingInv, ReadInv, TypeOK
<1>2. sends' = sends + 1 /\ sends' \in 0..MaxSends /\ sends' \in Nat
  BY <1>1 DEF Send
<1>3. PICK i \in Ids, n \in BodyLens, before \in Spaces, behind \in Spaces,
           end \in {<<>>, <<Nul>>} :
        stream' = stream \o Copies(Space, before) \o Answer(sends', i, n)
                         \o Copies(Space, behind) \o end
  BY DEF Send, Ids
<1>4. n \in Nat /\ before \in Nat /\ behind \in Nat
  BY RoutingAssumption
<1>5. stream' \in Seq(Cell)
  BY <1>1, <1>2, <1>3, <1>4, AnswerCells
<1>6. UNCHANGED <<p_buffer_, aligned, got, frontVars, pushVars, aborted>>
  BY DEF Send
<1>7. TypeOK'
  BY <1>2, <1>6 DEF RoutingInv, TypeOK, frontVars, pushVars
<1>8. PushInv'
  BY <1>6, TextsKept DEF RoutingInv, PushInv, frontVars, pushVars
<1>9. ReadInv'
  BY <1>5, <1>6 DEF RoutingInv, ReadInv
<1>10. QED BY <1>7, <1>8, <1>9 DEF RoutingInv

\* async_read_some: the start of p_buffer_ is what was read.
LEMMA ReadStep ==
  ASSUME RoutingInv, Read
  PROVE  RoutingInv'
<1>1. stream \in Seq(Cell) /\ p_buffer_ \in [1..BufferSize -> Cell] /\ BufferSize \in Nat
  BY RoutingAssumption DEF RoutingInv, ReadInv
<1>2. PICK k \in 1..Len(stream) : /\ k <= BufferSize /\ got' = SubSeq(stream, 1, k)
                                  /\ stream' = SubSeq(stream, k + 1, Len(stream))
  BY DEF Read
<1>3. got' \in Seq(Cell) /\ Len(got') = k /\ got' # <<>>
  <2>1. SubSeq(stream, 1, k) \in Seq(Cell) /\ Len(SubSeq(stream, 1, k)) = k
    BY <1>1
  <2>2. got' \in Seq(Cell) /\ Len(got') = k
    BY <1>2, <2>1
  <2>3. k # 0
    BY <1>1
  <2>4. QED BY <2>2, <2>3
<1>4. stream' \in Seq(Cell)
  BY <1>1, <1>2, SubSeqProperties
<1>5. p_buffer_' = [j \in 1..BufferSize |-> IF j <= Len(got') THEN got'[j] ELSE p_buffer_[j]]
  BY DEF Read
<1>6. /\ p_buffer_' \in [1..BufferSize -> Cell]
      /\ \A j \in 1..Len(got') : p_buffer_'[j] = got'[j]
  BY <1>1, <1>2, <1>3, <1>5
<1>7. ReadInv'
  BY <1>2, <1>3, <1>4, <1>6 DEF ReadInv
<1>8. /\ aligned' = (aligned /\ JsonText(WithoutNul(got'))) /\ pc = "read" /\ pc' = "parse"
      /\ UNCHANGED <<sends, session_id, ptr, asked, frontVars, aborted>>
  BY DEF Read
<1>9. PushInv'
  <2>1. JsonText(WithoutNul(got))' <=> JsonText(WithoutNul(got'))
    BY DEF JsonText, WithoutNul
  <2>2. QED BY <1>3, <1>8, <2>1 DEF RoutingInv, PushInv, frontVars
<1>10. TypeOK'
  <2>1. aligned' \in BOOLEAN
    BY <1>8
  <2>2. DOMAIN p_buffer_' = 1..BufferSize
    BY <1>6
  <2>3. QED BY <1>8, <2>1, <2>2 DEF RoutingInv, TypeOK, frontVars
<1>11. QED BY <1>7, <1>9, <1>10 DEF RoutingInv

\* read_handler forwards only what it could parse.
LEMMA ParseStep ==
  ASSUME RoutingInv, Parse
  PROVE  RoutingInv'
<1> DEFINE t == Text(p_buffer_)
           id == id_in(t)
<1>1. /\ p_buffer_ \in [1..BufferSize -> Cell] /\ pc = "parse" /\ session_id' \in {id, 0}
      /\ pc' = IF session_id' = 0 THEN "read" ELSE "request_connection"
      /\ UNCHANGED <<readVars, ptr, asked, frontVars, aborted>>
  BY DEF Parse, RoutingInv, ReadInv
<1>2. t \in Seq(Cell)
  BY <1>1, TextPrefix
<1>3. id \in Ids /\ (id # 0 => is_json(t))
  <2> HIDE DEF t
  <2>1. CASE is_json(t)
    <3> DEFINE k == CHOOSE k \in DOMAIN t : IsOpen(t[k])
    <3>1. \E m \in DOMAIN t : IsOpen(t[m])
      BY <2>1 DEF is_json, JsonText
    <3>2. k \in DOMAIN t /\ IsOpen(t[k])
      BY <3>1
    <3>3. id = t[k][2]
      BY <2>1 DEF id_in
    <3> HIDE DEF k
    <3>4. t[k] \in Cell
      BY <1>2, <3>2
    <3>5. QED BY <2>1, <3>2, <3>3, <3>4, CellKinds
  <2>2. CASE ~is_json(t)
    BY <2>2 DEF id_in, Ids
  <2>3. QED BY <2>1, <2>2
<1>4. session_id' # 0 => is_json(t)
  BY <1>1, <1>3
<1>5. session_id' \in Ids
  BY <1>1, <1>3 DEF Ids
<1> HIDE DEF id
<1>6. UNCHANGED <<stream, sends, p_buffer_, aligned, got, front_conns_, cached_conns_, client, clients>>
  BY <1>1 DEF readVars, frontVars
<1>7. ReadInv'
  BY <1>6 DEF RoutingInv, ReadInv
<1>8. TypeOK'
  BY <1>1, <1>5, <1>6 DEF RoutingInv, TypeOK, Ids
<1>9. PushInv'
  <2>1. pc' \notin {"read", "parse"} => is_json(Text(p_buffer_))'
    BY <1>1, <1>4, <1>6, TextsKept
  <2>2. QED BY <1>1, <1>6, <2>1, TextsKept DEF RoutingInv, PushInv
<1>10. QED BY <1>7, <1>8, <1>9 DEF RoutingInv

\* push_front holds the one connection of the session until it returns.
LEMMA PushStep ==
  ASSUME RoutingInv, request_connection \/ do_write \/ AsyncWrite \/ Return
  PROVE  RoutingInv'
<1>1. UNCHANGED <<stream, sends, p_buffer_, aligned, got, front_conns_, cached_conns_, client, clients>>
  BY DEF request_connection, do_write, AsyncWrite, Return, readVars, frontVars
<1>2. ReadInv'
  BY <1>1 DEF RoutingInv, ReadInv
<1>3. /\ JsonText(WithoutNul(got))' <=> JsonText(WithoutNul(got))
      /\ is_json(Text(p_buffer_))' <=> is_json(Text(p_buffer_))
  BY <1>1, TextsKept
<1>4. CASE request_connection
  <2>1. \A c \in Holders(session_id) : c \in Conns /\ c # NoConn /\ client[c] \in 0..MaxClients
    BY RoutingAssumption DEF Holders, RoutingInv, TypeOK
  <2>2. pc = "request_connection" /\ session_id' = session_id /\ ptr = NoConn
    BY <1>4 DEF request_connection, pushVars, RoutingInv, PushInv
  <2>3. \/ aborted' \in {"minus_one", "count"} /\ UNCHANGED <<pc, ptr, asked>>
        \/ pc' = "read" /\ UNCHANGED <<ptr, asked, aborted>>
        \/ /\ \E c \in Holders(session_id) : ptr' = c /\ asked' = client[c]
           /\ pc' = "do_write" /\ UNCHANGED aborted
    BY <1>4 DEF request_connection, pushVars
  <2>4. TypeOK'
    BY <1>1, <2>1, <2>2, <2>3 DEF RoutingInv, TypeOK
  <2>5. PushInv'
    BY <1>1, <1>3, <2>1, <2>2, <2>3 DEF RoutingInv, PushInv
  <2>6. QED BY <1>2, <2>4, <2>5 DEF RoutingInv
<1>5. CASE do_write \/ AsyncWrite
  <2>1. /\ pc \in {"do_write", "async_write"} /\ pc' \in {"async_write", "return"}
        /\ aborted' \in {aborted, "null_socket"} /\ UNCHANGED <<session_id, ptr, asked>>
    BY <1>5 DEF do_write, AsyncWrite
  <2>2. TypeOK'
    BY <1>1, <2>1 DEF RoutingInv, TypeOK
  <2>3. PushInv'
    BY <1>1, <1>3, <2>1 DEF RoutingInv, PushInv
  <2>4. QED BY <1>2, <2>2, <2>3 DEF RoutingInv
<1>6. CASE Return
  <2>1. pc' = "read" /\ ptr' = NoConn /\ asked' = 0 /\ session_id' = 0 /\ aborted' = aborted
    BY <1>6 DEF Return
  <2>2. TypeOK'
    BY <1>1, <2>1, RoutingAssumption DEF RoutingInv, TypeOK
  <2>3. PushInv'
    BY <2>1 DEF PushInv
  <2>4. QED BY <1>2, <2>2, <2>3 DEF RoutingInv
<1>7. QED BY <1>4, <1>5, <1>6

\* The front side never gives an object that push_front holds to a client.
LEMMA FrontStep ==
  ASSUME RoutingInv, NEW c \in Conns,
         Accept(c) \/ Retire(c) \/ \E id \in Sessions : set_session_id(c, id)
  PROVE  RoutingInv'
<1>1. UNCHANGED <<stream, sends, p_buffer_, aligned, got, pc, session_id, ptr, asked>>
  BY DEF Accept, Retire, set_session_id, readVars, pushVars
<1>2. ReadInv'
  BY <1>1 DEF RoutingInv, ReadInv
<1>3. /\ JsonText(WithoutNul(got))' <=> JsonText(WithoutNul(got))
      /\ is_json(Text(p_buffer_))' <=> is_json(Text(p_buffer_))
  BY <1>1, TextsKept
<1>4. client' = client => PushInv'
  BY <1>1, <1>3 DEF RoutingInv, PushInv
<1>5. CASE Retire(c) \/ \E id \in Sessions : set_session_id(c, id)
  <2>1. TypeOK'
    BY <1>1, <1>5 DEF Retire, set_session_id, InView, RoutingInv, TypeOK
  <2>2. client' = client
    BY <1>5 DEF Retire, set_session_id
  <2>3. QED BY <1>2, <1>4, <2>1, <2>2 DEF RoutingInv
<1>6. CASE Accept(c) /\ ~recyclable(c)
  <2>1. UNCHANGED frontVars /\ aborted' = "use_count"
    BY <1>6 DEF Accept
  <2>2. TypeOK'
    BY <1>1, <2>1 DEF frontVars, RoutingInv, TypeOK
  <2>3. QED BY <1>2, <1>4, <2>1, <2>2 DEF RoutingInv, frontVars
<1>7. CASE Accept(c) /\ recyclable(c)
  <2>1. /\ ptr # c /\ clients < MaxClients /\ aborted' = aborted
        /\ front_conns_' = [d \in DOMAIN front_conns_ \cup {c} |->
                              IF d = c THEN 0 ELSE front_conns_[d]]
        /\ cached_conns_' = cached_conns_ \ {c}
        /\ clients' = clients + 1 /\ client' = [client EXCEPT ![c] = clients']
    BY <1>7 DEF Accept, recyclable, taken
  <2>2. clients' \in 0..MaxClients
    BY <2>1, RoutingAssumption DEF RoutingInv, TypeOK
  <2>3. client' \in [Conns -> 0..MaxClients]
    BY <2>1, <2>2 DEF RoutingInv, TypeOK
  <2>4. /\ DOMAIN front_conns_' = DOMAIN front_conns_ \cup {c}
        /\ \A d \in DOMAIN front_conns_' : front_conns_'[d] \in Sessions \cup {0}
    BY <2>1 DEF RoutingInv, TypeOK
  <2>5. TypeOK'
    BY <1>1, <2>1, <2>2, <2>3, <2>4 DEF RoutingInv, TypeOK
  <2>6. ptr # NoConn => client'[ptr] = client[ptr]
    BY <2>1 DEF RoutingInv, TypeOK
  <2>7. PushInv'
    BY <1>1, <1>3, <2>6 DEF RoutingInv, PushInv
  <2>8. QED BY <1>2, <2>5, <2>7 DEF RoutingInv
<1>8. QED BY <1>5, <1>6, <1>7

\* Nothing changes.
LEMMA RoutingStutter == RoutingInv /\ UNCHANGED vars => RoutingInv'
<1>1. SUFFICES ASSUME RoutingInv, UNCHANGED vars PROVE RoutingInv'
  OBVIOUS
<1>2. UNCHANGED <<stream, sends, p_buffer_, aligned, got, front_conns_, cached_conns_, client,
                  clients, pc, session_id, ptr, asked, aborted>>
  BY <1>1 DEF vars, frontVars, readVars, pushVars
<1>3. TypeOK' /\ ReadInv'
  BY <1>1, <1>2 DEF RoutingInv, TypeOK, ReadInv
<1>4. /\ JsonText(WithoutNul(got))' <=> JsonText(WithoutNul(got))
      /\ is_json(Text(p_buffer_))' <=> is_json(Text(p_buffer_))
  BY <1>2, TextsKept
<1>5. PushInv'
  BY <1>1, <1>2, <1>4 DEF RoutingInv, PushInv
<1>6. QED BY <1>3, <1>5 DEF RoutingInv

\* Before the first answer.
LEMMA RoutingInit == Init => RoutingInv
<1>1. SUFFICES ASSUME Init PROVE RoutingInv
  OBVIOUS
<1>2. BufferSize \in Nat /\ MaxSends \in Nat /\ MaxClients \in Nat /\ Nul \in Cell
  BY RoutingAssumption, CellKinds
<1>3. ReadInv
  BY <1>1, <1>2 DEF Init, ReadInv
<1>4. TypeOK /\ PushInv
  BY <1>1, <1>2 DEF Init, TypeOK, PushInv
<1>5. QED BY <1>3, <1>4 DEF RoutingInv

\* What was parsed is what was read, when that was one text: behind it the
\* buffer has only white space, or does not parse.
LEMMA ParsedIsRead ==
  ASSUME RoutingInv, got # <<>>, JsonText(WithoutNul(got)), is_json(Text(p_buffer_)),
         NEW s, s = WithoutNul(got), NEW t, t = Text(p_buffer_)
  PROVE  /\ Len(s) <= Len(t) /\ s = SubSeq(t, 1, Len(s))
         /\ \A k \in Len(s) + 1..Len(t) : IsSpace(t[k])
         /\ got # s => t = s
<1> DEFINE n == Len(got)
<1>1. /\ got \in Seq(Cell) /\ n <= BufferSize /\ n \in Nat /\ n >= 1
      /\ \A j \in 1..n : p_buffer_[j] = got[j]
      /\ p_buffer_ \in [1..BufferSize -> Cell] /\ BufferSize \in Nat
  BY RoutingAssumption DEF RoutingInv, ReadInv
<1>2. /\ t \in Seq(Cell) /\ Len(t) \in 0..BufferSize
      /\ \A j \in 1..Len(t) : t[j] = p_buffer_[j] /\ p_buffer_[j] # Nul
      /\ Len(t) < BufferSize => p_buffer_[Len(t) + 1] = Nul
  BY <1>1, TextPrefix
<1>3. /\ s \in Seq(Cell) /\ Len(s) <= n /\ \A j \in 1..Len(s) : s[j] = got[j]
      /\ got # s => got[n] = Nul /\ Len(s) = n - 1
  <2>1. CASE got[n] = Nul
    <3>1. s = SubSeq(got, 1, n - 1)
      BY <2>1 DEF WithoutNul, n
    <3>2. /\ SubSeq(got, 1, n - 1) \in Seq(Cell) /\ Len(SubSeq(got, 1, n - 1)) = n - 1
          /\ \A j \in 1..(n - 1) : SubSeq(got, 1, n - 1)[j] = got[j]
      BY <1>1, WithoutLast
    <3>3. QED BY <1>1, <2>1, <3>1, <3>2
  <2>2. CASE got[n] # Nul
    <3>1. s = got
      BY <2>2 DEF WithoutNul, n
    <3>2. QED BY <1>1, <3>1
  <2>3. QED BY <2>1, <2>2
<1> HIDE DEF n
<1>4. ASSUME NEW k \in 1..Len(s) PROVE s[k] # Nul
  <2>1. JsonText(s)
    OBVIOUS
  <2>2. PICK i \in DOMAIN s, j \in DOMAIN s :
          /\ IsOpen(s[i]) /\ IsClose(s[j])
          /\ k < i \/ j < k => IsSpace(s[k])
          /\ i < k /\ k < j => s[k][1] = "body" \/ IsSpace(s[k])
    BY <1>3, <2>1 DEF JsonText
  <2>3. QED BY <1>3, <2>2, CellKinds
<1>5. Len(s) <= Len(t)
  <2>1. SUFFICES ASSUME Len(t) < Len(s) PROVE FALSE
    BY <1>2, <1>3
  <2>2. Len(t) + 1 \in 1..Len(s) /\ Len(t) + 1 \in 1..n /\ Len(t) < BufferSize
    BY <1>1, <1>2, <1>3, <2>1
  <2>3. s[Len(t) + 1] = Nul
    BY <1>1, <1>2, <1>3, <2>2
  <2>4. QED BY <1>4, <2>2, <2>3
<1>6. \A k \in 1..Len(s) : t[k] = s[k]
  BY <1>1, <1>2, <1>3, <1>5
<1>7. \A k \in Len(s) + 1..Len(t) : IsSpace(t[k])
  <2>1. JsonText(s) /\ JsonText(t)
    BY DEF is_json
  <2>2. QED BY <1>2, <1>3, <1>5, <1>6, <2>1, OnlySpaceBehind
<1>8. s = SubSeq(t, 1, Len(s))
  BY <1>2, <1>3, <1>5, <1>6
<1>9. ASSUME got # s PROVE t = s
  <2>1. p_buffer_[n] = Nul /\ Len(s) = n - 1
    BY <1>1, <1>3, <1>9
  <2>2. Len(t) = Len(s)
    BY <1>1, <1>2, <1>5, <2>1
  <2>3. QED BY <1>2, <1>3, <1>6, <2>2
<1>10. QED BY <1>5, <1>7, <1>8, <1>9

-----------------------------------------------------------------------------
(***************************************************************************)
(* The theorems                                                            *)
(***************************************************************************)

\* The inductive invariant holds in every reachable state.
THEOREM RoutingSafe == Spec => []RoutingInv
<1>1. ASSUME RoutingInv, [Next]_vars PROVE RoutingInv'
  <2>1. CASE UNCHANGED vars
    BY <1>1, <2>1, RoutingStutter
  <2>2. CASE Next
    BY <1>1, <2>2, SendInv, ReadStep, ParseStep, PushStep, FrontStep DEF Next
  <2>3. QED BY <1>1, <2>1, <2>2
<1>2. QED BY <1>1, RoutingInit, PTL DEF Spec

\* The variables have their types; in particular a session id that
\* request_connection is given is one the backend sent.
THEOREM RoutingTypeCorrect == Spec => []TypeOK
<1>1. RoutingInv => TypeOK
  BY DEF RoutingInv
<1>2. QED BY <1>1, RoutingSafe, PTL

\* An answer that was read alone is forwarded as it was sent, at most with white
\* space behind it, or not at all; and one with a NUL exactly as it was sent.
THEOREM ForwardSafe == Spec => []ForwardedWhole
<1>1. RoutingInv => ForwardedWhole
  <2>1. ASSUME RoutingInv, aligned, pc \in {"request_connection", "do_write", "async_write"}
        PROVE  got # <<>> /\ JsonText(WithoutNul(got)) /\ is_json(Text(p_buffer_))
    BY <2>1 DEF RoutingInv, PushInv
  <2>2. QED BY <2>1, ParsedIsRead DEF ForwardedWhole
<1>2. QED BY <1>1, RoutingSafe, PTL

\* push_front writes to the client whose session it looked up.
THEOREM HolderSafe == Spec => []AnswerToHolder
<1>1. RoutingInv => AnswerToHolder
  BY DEF RoutingInv, PushInv, AnswerToHolder
<1>2. QED BY <1>1, RoutingSafe, PTL
=============================================================================
