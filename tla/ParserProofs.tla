---------------------------- MODULE ParserProofs ----------------------------
(***************************************************************************)
(* Proofs about the parsers: http_parser, for requests of any number of    *)
(* lines and for any names and spellings of options; json11, for the       *)
(* integers of any width.                                                  *)
(***************************************************************************)
EXTENDS HttpParser, JsonNumbers, FiniteSetTheorems, Induction, TLAPS

\* What the map holds after the lines of head: the names they give, each with
\* the value of the first line that gives it.
Stored(opts, head) ==
  /\ IsFiniteSet(DOMAIN opts)
  /\ DOMAIN opts = UNION {NamesIn(head[i]) : i \in 1..Len(head)}
  /\ \A n \in DOMAIN opts : \E i \in 1..Len(head) :
       /\ n \in NamesIn(head[i]) /\ Gives(head[i], n, opts[n])
       /\ \A j \in 1..Len(head) : n \in NamesIn(head[j]) => i <= j

HttpInv ==
  /\ lines \in Seq(Lines)
  /\ ret = "true" => has_head_end(lines) /\ Stored(header_opts_, head_lines(lines))

-----------------------------------------------------------------------------
(***************************************************************************)
(* One line                                                                *)
(***************************************************************************)

\* What the loop over the slashes leaves is the uri without the slashes at its
\* end, and nothing else is lost.
LEMMA SlashesCut ==
  ASSUME NEW uri \in Seq(STRING)
  PROVE  \E k \in 0..Len(uri) :
           /\ strip_slashes(uri) = SubSeq(uri, 1, k)
           /\ k # 0 => uri[k] # "/"
           /\ \A j \in k + 1..Len(uri) : uri[j] = "/"
<1> DEFINE T == {0} \cup {k \in DOMAIN uri : uri[k] # "/"}
<1>1. Len(uri) \in Nat /\ DOMAIN uri = 1..Len(uri)
  OBVIOUS
<1>2. T \in SUBSET Nat /\ T # {} /\ \A t \in T : t <= Len(uri)
  BY <1>1
<1>3. \E x \in T : \A y \in T : x >= y
  BY <1>1, <1>2, GreatestMember
<1>4. Max(T) \in T /\ \A y \in T : Max(T) >= y
  BY <1>3 DEF Max
<1>5. \A j \in Max(T) + 1..Len(uri) : uri[j] = "/"
  <2> SUFFICES ASSUME NEW j \in Max(T) + 1..Len(uri), uri[j] # "/"
               PROVE  FALSE
    OBVIOUS
  <2>1. j \in T
    BY <1>1, <1>2, <1>4
  <2>2. QED BY <2>1, <1>1, <1>2, <1>4
<1>6. Max(T) \in 0..Len(uri) /\ (Max(T) # 0 => uri[Max(T)] # "/")
  BY <1>1, <1>2, <1>4
<1>7. strip_slashes(uri) = SubSeq(uri, 1, Max(T))
  BY DEF strip_slashes
<1>8. QED BY <1>5, <1>6, <1>7

\* A line gives a few names, all of them names of options.
LEMMA NamesGiven ==
  ASSUME NEW item \in Lines
  PROVE  NamesIn(item) \subseteq Names /\ IsFiniteSet(NamesIn(item))
<1>1. /\ IsFiniteSet({}) /\ IsFiniteSet({item[2]})
      /\ IsFiniteSet({request_method} \cup {request_uri})
  BY FS_EmptySet, FS_Singleton, FS_Union
<1>2. {request_method} \cup {request_uri} = {request_method, request_uri}
  OBVIOUS
<1>3. request_method \in Names /\ request_uri \in Names
  BY HttpAssumption DEF Asked
<1>4. item[1] = "option" => item[2] \in Names
  BY HttpAssumption
<1>5. CASE item[1] = "option"
  BY <1>1, <1>4, <1>5 DEF NamesIn
<1>6. CASE item[1] = "request"
  BY <1>1, <1>2, <1>3, <1>6 DEF NamesIn
<1>7. CASE item[1] \notin {"option", "request"}
  BY <1>1, <1>7 DEF NamesIn
<1>8. QED BY <1>5, <1>6, <1>7

\* A line adds the names it gives, and takes no name and no value away.
LEMMA LineInserted ==
  ASSUME NEW opts, NEW item \in Lines
  PROVE  LET new == insert_line(opts, item) IN
         /\ DOMAIN new = DOMAIN opts \cup NamesIn(item)
         /\ \A n \in DOMAIN opts : new[n] = opts[n]
         /\ \A n \in NamesIn(item) \ DOMAIN opts : Gives(item, n, new[n])
<1> DEFINE new == insert_line(opts, item)
<1>1. CASE item[1] = "option"
  <2>1. new = insert(opts, item[2], item[3]) /\ NamesIn(item) = {item[2]}
    BY <1>1 DEF insert_line, NamesIn
  <2>2. \A n \in NamesIn(item) \ DOMAIN opts : new[n] = item[3]
    BY <2>1 DEF insert
  <2>3. \A n : Gives(item, n, item[3])
    BY <1>1 DEF Gives
  <2>4. QED BY <2>1, <2>2, <2>3 DEF insert
<1>2. CASE item[1] = "request"
  <2> DEFINE mid == insert(opts, request_method, item[2])
  <2>1. /\ new = insert(mid, request_uri, strip_slashes(item[3]))
        /\ NamesIn(item) = {request_method, request_uri}
    BY <1>2 DEF insert_line, NamesIn
  <2>2. /\ DOMAIN mid = DOMAIN opts \cup {request_method}
        /\ \A n \in DOMAIN opts : mid[n] = opts[n]
        /\ request_method \notin DOMAIN opts => mid[request_method] = item[2]
    BY DEF insert
  <2>3. /\ DOMAIN new = DOMAIN mid \cup {request_uri}
        /\ \A n \in DOMAIN mid : new[n] = mid[n]
        /\ request_uri \notin DOMAIN mid => new[request_uri] = strip_slashes(item[3])
    BY <2>1 DEF insert
  <2>4. request_method # request_uri
    BY DEF request_method, request_uri
  <2>5. Gives(item, request_method, item[2])
    BY <1>2, <2>4 DEF Gives
  <2>6. Gives(item, request_uri, strip_slashes(item[3]))
    <3>1. item[3] \in Seq(STRING)
      BY <1>2, HttpAssumption
    <3>2. PICK k \in 0..Len(item[3]) :
             /\ strip_slashes(item[3]) = SubSeq(item[3], 1, k)
             /\ k # 0 => item[3][k] # "/"
             /\ \A j \in k + 1..Len(item[3]) : item[3][j] = "/"
      BY <3>1, SlashesCut
    <3>3. QED BY <3>2, <1>2, <2>4 DEF Gives
  <2>7. QED BY <2>1, <2>2, <2>3, <2>4, <2>5, <2>6
<1>3. CASE item[1] \notin {"option", "request"}
  <2>1. new = opts /\ NamesIn(item) = {}
    BY <1>3 DEF insert_line, NamesIn
  <2>2. QED BY <2>1
<1>4. QED BY <1>1, <1>2, <1>3

-----------------------------------------------------------------------------
(***************************************************************************)
(* All lines of a head                                                     *)
(***************************************************************************)

\* The loop of parse_request computes what its definition says: the map after i
\* lines comes from the map after i - 1.
LEMMA InsertedDefined ==
  ASSUME NEW head \in Seq(Lines)
  PROVE  /\ inserted(head)[0] = cleared
         /\ \A i \in 1..Len(head) :
              inserted(head)[i] = insert_line(inserted(head)[i - 1], head[i])
<1> DEFINE step(v, i) == insert_line(v, head[i])
           body(g, i) == IF i = 0 THEN cleared ELSE step(g[i - 1], i)
           Upto(g, m) == g = [i \in 0..m |-> body(g, i)]
           Good == {m \in 0..Len(head) : \E g : Upto(g, m)}
<1>1. 0 \in Good
  <2> HIDE DEF step
  <2> DEFINE g == [i \in 0..0 |-> cleared]
  <2>1. \A i \in 0..0 : cleared = body(g, i)
    OBVIOUS
  <2>2. Upto(g, 0)
    BY <2>1
  <2>3. 0 \in 0..Len(head)
    OBVIOUS
  <2>4. QED BY <2>2, <2>3
<1>2. ASSUME NEW m \in 0..Len(head), m < Len(head), m \in Good
      PROVE  m + 1 \in Good
  <2>1. PICK g : Upto(g, m)
    BY <1>2
  <2> HIDE DEF step
  <2> DEFINE h == [i \in 0..(m + 1) |-> IF i = m + 1 THEN step(g[m], m + 1) ELSE g[i]]
  <2>2. ASSUME NEW i \in 0..(m + 1)
        PROVE  h[i] = body(h, i)
    <3>1. CASE i = m + 1
      BY <3>1
    <3>2. CASE i # m + 1
      <4>1. i \in 0..m /\ h[i] = g[i]
        BY <3>2
      <4>2. g[i] = body(g, i)
        BY <4>1, <2>1
      <4>3. i # 0 => h[i - 1] = g[i - 1]
        BY <4>1
      <4>4. QED BY <4>1, <4>2, <4>3
    <3>3. QED BY <3>1, <3>2
  <2>3. Upto(h, m + 1)
    BY <2>2
  <2>4. m + 1 \in 0..Len(head)
    BY <1>2
  <2>5. QED BY <2>3, <2>4
<1>3. Len(head) \in Good
  <2> HIDE DEF Good
  <2>1. \A m \in 0..Len(head) : m \in Good
    BY <1>1, <1>2, Upward, Len(head) \in Nat
  <2>2. QED BY <2>1
<1>4. PICK g : Upto(g, Len(head))
  BY <1>3
<1>5. Upto(inserted(head), Len(head))
  BY <1>4 DEF inserted
<1>6. \A i \in 0..Len(head) : inserted(head)[i] = body(inserted(head), i)
  BY <1>5
<1> HIDE DEF step, Upto, Good
<1>7. 0 \in 0..Len(head) /\ \A i \in 1..Len(head) : i \in 0..Len(head) /\ i # 0
  OBVIOUS
<1>8. inserted(head)[0] = cleared
  BY <1>6, <1>7
<1>9. \A i \in 1..Len(head) : inserted(head)[i] = step(inserted(head)[i - 1], i)
  BY <1>6, <1>7
<1>10. QED BY <1>8, <1>9 DEF step

\* What the map holds after i lines.
StoredUpto(opts, head, i) ==
  /\ IsFiniteSet(DOMAIN opts)
  /\ DOMAIN opts = UNION {NamesIn(head[j]) : j \in 1..i}
  /\ \A n \in DOMAIN opts : \E j \in 1..i :
       /\ n \in NamesIn(head[j]) /\ Gives(head[j], n, opts[n])
       /\ \A k \in 1..i : n \in NamesIn(head[k]) => j <= k

\* The first line that gives a name stays the one that counts.
LEMMA StoredNext ==
  ASSUME NEW head \in Seq(Lines), NEW opts, NEW i \in 0..Len(head), i < Len(head),
         StoredUpto(opts, head, i)
  PROVE  StoredUpto(insert_line(opts, head[i + 1]), head, i + 1)
<1> DEFINE new == insert_line(opts, head[i + 1])
<1>1. i \in Nat /\ i + 1 \in 1..Len(head) /\ head[i + 1] \in Lines
  OBVIOUS
<1>2. /\ DOMAIN new = DOMAIN opts \cup NamesIn(head[i + 1])
      /\ \A n \in DOMAIN opts : new[n] = opts[n]
      /\ \A n \in NamesIn(head[i + 1]) \ DOMAIN opts : Gives(head[i + 1], n, new[n])
  BY <1>1, LineInserted
<1> HIDE DEF new
<1>3. 1..(i + 1) = (1..i) \cup {i + 1}
  BY <1>1
<1>4. DOMAIN new = UNION {NamesIn(head[j]) : j \in 1..(i + 1)}
  BY <1>2, <1>3 DEF StoredUpto
<1>5. ASSUME NEW n \in DOMAIN new
      PROVE  \E j \in 1..(i + 1) :
               /\ n \in NamesIn(head[j]) /\ Gives(head[j], n, new[n])
               /\ \A k \in 1..(i + 1) : n \in NamesIn(head[k]) => j <= k
  <2>1. CASE n \in DOMAIN opts
    <3>1. PICK j \in 1..i :
             /\ n \in NamesIn(head[j]) /\ Gives(head[j], n, opts[n])
             /\ \A k \in 1..i : n \in NamesIn(head[k]) => j <= k
      BY <2>1 DEF StoredUpto
    <3>2. Gives(head[j], n, new[n])
      BY <3>1, <2>1, <1>2
    <3>3. j <= i + 1 /\ j \in 1..(i + 1)
      BY <1>1
    <3>4. QED BY <3>1, <3>2, <3>3, <1>3
  <2>2. CASE n \notin DOMAIN opts
    <3>1. n \in NamesIn(head[i + 1]) /\ Gives(head[i + 1], n, new[n])
      BY <2>2, <1>2
    <3>2. \A k \in 1..i : n \notin NamesIn(head[k])
      BY <2>2 DEF StoredUpto
    <3>3. i + 1 \in 1..(i + 1) /\ i + 1 <= i + 1
      BY <1>1
    <3>4. QED BY <3>1, <3>2, <3>3, <1>3
  <2>3. QED BY <2>1, <2>2
<1>6. IsFiniteSet(DOMAIN new)
  <2>1. IsFiniteSet(NamesIn(head[i + 1]))
    BY <1>1, NamesGiven
  <2>2. IsFiniteSet(DOMAIN opts)
    BY DEF StoredUpto
  <2>3. QED BY <2>1, <2>2, <1>2, FS_Union
<1>7. StoredUpto(new, head, i + 1)
  BY <1>4, <1>5, <1>6 DEF StoredUpto
<1>8. QED BY <1>7 DEF new

\* From a map that is cleared, the loop stores what the lines of the head say.
LEMMA HeadStored ==
  ASSUME NEW head \in Seq(Lines)
  PROVE  Stored(inserted(head)[Len(head)], head)
<1> DEFINE K == inserted(head)
           Good == {i \in 0..Len(head) : StoredUpto(K[i], head, i)}
<1>1. K[0] = cleared /\ \A i \in 1..Len(head) : K[i] = insert_line(K[i - 1], head[i])
  BY InsertedDefined
<1> HIDE DEF K
<1>2. Len(head) \in Nat
  OBVIOUS
<1>3. 0 \in Good
  <2>1. DOMAIN cleared = {}
    BY DEF cleared
  <2>2. StoredUpto(cleared, head, 0)
    BY <2>1, FS_EmptySet DEF StoredUpto
  <2>3. QED BY <2>2, <1>1, <1>2
<1>4. ASSUME NEW i \in 0..Len(head), i < Len(head), i \in Good
      PROVE  i + 1 \in Good
  <2>1. StoredUpto(insert_line(K[i], head[i + 1]), head, i + 1)
    BY <1>4, StoredNext
  <2>2. i + 1 \in 1..Len(head) /\ (i + 1) - 1 = i
    BY <1>2, <1>4
  <2>3. K[i + 1] = insert_line(K[i], head[i + 1])
    BY <2>2, <1>1
  <2>4. QED BY <2>1, <2>2, <2>3
<1>5. Len(head) \in Good
  <2> HIDE DEF Good
  <2>1. \A i \in 0..Len(head) : i \in Good
    BY <1>2, <1>3, <1>4, Upward
  <2>2. QED BY <2>1, <1>2
<1>6. StoredUpto(K[Len(head)], head, Len(head))
  BY <1>5
<1>7. QED BY <1>6 DEF Stored, StoredUpto, K

-----------------------------------------------------------------------------
(***************************************************************************)
(* What the parser answers                                                 *)
(***************************************************************************)

\* The head of a text that has an end is what stands in front of the first
\* empty line.
LEMMA HeadLines ==
  ASSUME NEW text \in Seq(Lines), has_head_end(text)
  PROVE  \E b \in 1..Len(text) :
           /\ text[b] = Blank /\ \A j \in 1..b - 1 : text[j] # Blank
           /\ head_lines(text) \in Seq(Lines) /\ Len(head_lines(text)) = b - 1
           /\ \A i \in 1..b - 1 : head_lines(text)[i] = text[i]
<1> DEFINE Blanks == {i \in 1..Len(text) : text[i] = Blank}
           IsEnd(b) == text[b] = Blank /\ \A j \in 1..b - 1 : text[j] # Blank
           b == CHOOSE i \in 1..Len(text) : IsEnd(i)
<1>1. Len(text) \in Nat /\ Blanks \in SUBSET Nat /\ Blanks # {}
  BY DEF has_head_end
<1>2. PICK m \in Blanks : \A i \in Blanks : m <= i
  BY <1>1, LeastMember
<1>3. m \in 1..Len(text) /\ IsEnd(m)
  <2>1. ASSUME NEW j \in 1..m - 1 PROVE text[j] # Blank
    BY <1>1, <1>2
  <2>2. QED BY <2>1
<1>4. b \in 1..Len(text) /\ IsEnd(b)
  BY <1>3
<1>5. head_lines(text) = SubSeq(text, 1, b - 1)
  BY DEF head_lines
<1> HIDE DEF b, IsEnd
<1>6. /\ SubSeq(text, 1, b - 1) \in Seq(Lines) /\ Len(SubSeq(text, 1, b - 1)) = b - 1
      /\ \A i \in 1..b - 1 : SubSeq(text, 1, b - 1)[i] = text[i]
  BY <1>1, <1>4
<1>7. QED BY <1>4, <1>5, <1>6 DEF IsEnd

\* A map that stores a head answers for its lines.
LEMMA StoredAnswers ==
  ASSUME lines \in Seq(Lines), has_head_end(lines),
         Stored(header_opts_, head_lines(lines)), NEW name \in Asked
  PROVE  /\ Saying(name) = {} => Named(name) = {}
         /\ Saying(name) # {} =>
              \E s \in Saying(name) :
                /\ \A o \in Saying(name) : Before(s[2], o[2]) /\ (o[2] = s[2] => s[1] <= o[1])
                /\ Gives(lines[s[1]], s[2], request_option(name))
<1> DEFINE head == head_lines(lines)
<1>1. PICK b \in 1..Len(lines) :
         /\ lines[b] = Blank /\ \A j \in 1..b - 1 : lines[j] # Blank
         /\ head \in Seq(Lines) /\ Len(head) = b - 1
         /\ \A i \in 1..b - 1 : head[i] = lines[i]
  BY HeadLines
<1>2. InHead = 1..b - 1 /\ Len(lines) \in Nat
  BY <1>1 DEF InHead
<1>3. /\ IsFiniteSet(DOMAIN header_opts_)
      /\ DOMAIN header_opts_ = UNION {NamesIn(lines[i]) : i \in 1..b - 1}
      /\ \A n \in DOMAIN header_opts_ : \E i \in 1..b - 1 :
           /\ n \in NamesIn(lines[i]) /\ Gives(lines[i], n, header_opts_[n])
           /\ \A j \in 1..b - 1 : n \in NamesIn(lines[j]) => i <= j
  <2> HIDE DEF head
  <2>1. Stored(header_opts_, head)
    BY DEF head
  <2>2. UNION {NamesIn(head[i]) : i \in 1..b - 1} = UNION {NamesIn(lines[i]) : i \in 1..b - 1}
    BY <1>1
  <2>3. 1..Len(head) = 1..b - 1 /\ \A i \in 1..b - 1 : head[i] = lines[i]
    BY <1>1
  <2>4. /\ IsFiniteSet(DOMAIN header_opts_)
        /\ DOMAIN header_opts_ = UNION {NamesIn(head[i]) : i \in 1..b - 1}
    BY <2>1, <2>3 DEF Stored
  <2>5. ASSUME NEW n \in DOMAIN header_opts_
        PROVE  \E i \in 1..b - 1 :
                 /\ n \in NamesIn(lines[i]) /\ Gives(lines[i], n, header_opts_[n])
                 /\ \A j \in 1..b - 1 : n \in NamesIn(lines[j]) => i <= j
    <3>1. PICK i \in 1..b - 1 :
             /\ n \in NamesIn(head[i]) /\ Gives(head[i], n, header_opts_[n])
             /\ \A j \in 1..b - 1 : n \in NamesIn(head[j]) => i <= j
      BY <2>1, <2>3 DEF Stored
    <3>2. \A j \in 1..b - 1 : n \in NamesIn(lines[j]) => i <= j
      BY <3>1, <2>3
    <3>3. n \in NamesIn(lines[i]) /\ Gives(lines[i], n, header_opts_[n])
      BY <3>1, <2>3
    <3>4. QED BY <3>2, <3>3
  <2>6. QED BY <2>2, <2>4, <2>5
<1>4. \A i \in 1..b - 1 : NamesIn(lines[i]) \subseteq Names
  <2>1. \A i \in 1..b - 1 : lines[i] \in Lines
    BY <1>1, <1>2
  <2>2. QED BY <2>1, NamesGiven
<1>5. \A s \in Saying(name) : s[1] \in 1..b - 1 /\ s[2] \in Named(name) /\ s[2] \in NamesIn(lines[s[1]])
  BY <1>2, <1>3 DEF Saying, Named
<1>6. \A i \in 1..b - 1 : \A n \in Named(name) : n \in NamesIn(lines[i]) => <<i, n>> \in Saying(name)
  BY <1>2, <1>4 DEF Saying, Named
<1>7. ASSUME Saying(name) = {}
      PROVE  Named(name) = {}
  <2>1. \A n \in Named(name) : \E i \in 1..b - 1 : n \in NamesIn(lines[i])
    BY <1>3 DEF Named
  <2>2. QED BY <2>1, <1>6, <1>7
<1>8. ASSUME Saying(name) # {}
      PROVE  \E s \in Saying(name) :
                /\ \A o \in Saying(name) : Before(s[2], o[2]) /\ (o[2] = s[2] => s[1] <= o[1])
                /\ Gives(lines[s[1]], s[2], request_option(name))
  <2> DEFINE n == CHOOSE n \in Named(name) : \A m \in Named(name) : Before(n, m)
  <2>1. Named(name) # {}
    BY <1>5, <1>8
  <2>2. Named(name) \in SUBSET Names
    BY <1>3, <1>4 DEF Named
  <2>3. IsFiniteSet(Named(name))
    BY <1>3, FS_Subset DEF Named
  <2>4. \E x \in Named(name) : \A m \in Named(name) : Before(x, m)
    BY <2>1, <2>2, <2>3, HttpAssumption
  <2>5. n \in Named(name) /\ \A m \in Named(name) : Before(n, m)
    BY <2>4
  <2>6. request_option(name) = header_opts_[n]
    BY <2>1 DEF request_option
  <2> HIDE DEF n
  <2>7. PICK i \in 1..b - 1 :
           /\ n \in NamesIn(lines[i]) /\ Gives(lines[i], n, header_opts_[n])
           /\ \A j \in 1..b - 1 : n \in NamesIn(lines[j]) => i <= j
    BY <2>5, <1>3 DEF Named
  <2> DEFINE s == <<i, n>>
  <2>8. s \in Saying(name) /\ s[1] = i /\ s[2] = n
    BY <2>5, <2>7, <1>6
  <2>9. \A o \in Saying(name) : Before(n, o[2]) /\ (o[2] = n => i <= o[1])
    BY <2>5, <2>7, <1>5
  <2>10. Gives(lines[i], n, request_option(name))
    BY <2>6, <2>7
  <2> HIDE DEF s
  <2>11. QED BY <2>8, <2>9, <2>10
<1>9. QED BY <1>7, <1>8

\* The map stores the head of the request at hand from the moment parse_request
\* returns true: nothing is left of what it held before.
LEMMA HttpStep == HttpInv /\ [HttpNext]_httpVars => HttpInv'
<1> SUFFICES ASSUME HttpInv, [HttpNext]_httpVars
             PROVE  HttpInv'
  OBVIOUS
<1>1. CASE Arrive
  BY <1>1 DEF Arrive, HttpInv
<1>2. CASE parse_request
  <2>1. lines' = lines
    BY <1>2 DEF parse_request
  <2>2. CASE has_head_end(lines)
    <3>1. head_lines(lines) \in Seq(Lines)
      BY <2>2, HeadLines DEF HttpInv
    <3>2. header_opts_' = inserted(head_lines(lines))[Len(head_lines(lines))]
      BY <1>2, <2>2 DEF parse_request
    <3>3. Stored(header_opts_', head_lines(lines))
      BY <3>1, <3>2, HeadStored
    <3>4. QED BY <2>1, <2>2, <3>3 DEF HttpInv
  <2>3. CASE ~has_head_end(lines)
    <3>1. ret' = "false"
      BY <1>2, <2>3 DEF parse_request
    <3>2. QED BY <2>1, <3>1 DEF HttpInv
  <2>4. QED BY <2>2, <2>3
<1>3. CASE NextRequest
  BY <1>3 DEF NextRequest, HttpInv
<1>4. CASE UNCHANGED httpVars
  <2>1. lines' = lines /\ ret' = ret /\ header_opts_' = header_opts_
    BY <1>4 DEF httpVars
  <2>2. QED BY <2>1 DEF HttpInv
<1>5. QED BY <1>1, <1>2, <1>3, <1>4 DEF HttpNext

\* http_parser.cpp:11-75: what the handlers learn of a request is what its own
\* head says, whatever requests the connection had before, however many lines
\* and however many spellings of a name there are.
THEOREM OptionsSafe == HttpSpec => []OptionsOfThisRequest
<1>1. HttpInit => HttpInv
  BY DEF HttpInit, HttpInv
<1>2. HttpInv => OptionsOfThisRequest
  BY StoredAnswers DEF HttpInv, OptionsOfThisRequest
<1>3. QED BY <1>1, <1>2, HttpStep, PTL DEF HttpSpec

-----------------------------------------------------------------------------
(***************************************************************************)
(* json11: powers                                                          *)
(***************************************************************************)

Times(base) == [s \in Nat \X Nat |-> base * s[1]]

\* A power is what n multiplications make of 1.
LEMMA PowerIterates ==
  ASSUME NEW base \in Nat, NEW n \in Nat
  PROVE  \E g : Iterates(g, 1, Times(base), n) /\ Power(base, n) = g[n] /\ g[n] \in Nat
<1> DEFINE Powers(f) == f = [k \in 0..n |-> IF k = 0 THEN 1 ELSE base * f[k - 1]]
           f == CHOOSE f : Powers(f)
           step == Times(base)
<1>0. step \in [Nat \X Nat -> Nat] /\ \A s \in Nat \X Nat : step[s] = base * s[1]
  <2>1. \A m, k \in Nat : base * m \in Nat
    OBVIOUS
  <2>2. QED BY <2>1 DEF Times
<1> HIDE DEF step
<1>1. PICK g \in [0..n -> Nat] : Iterates(g, 1, step, n)
  BY <1>0, IteratesExist
<1>2. ASSUME NEW k \in 0..n PROVE g[k] = IF k = 0 THEN 1 ELSE base * g[k - 1]
  <2>1. CASE k = 0
    BY <2>1, <1>1 DEF Iterates
  <2>2. CASE k # 0
    <3>1. k \in 1..n /\ k - 1 \in 0..n /\ <<g[k - 1], k - 1>> \in Nat \X Nat
      BY <2>2
    <3>2. g[k] = step[<<g[k - 1], k - 1>>]
      BY <3>1, <1>1 DEF Iterates
    <3>3. QED BY <3>1, <3>2, <2>2, <1>0
  <2>3. QED BY <2>1, <2>2
<1>3. Powers(g)
  BY <1>2
<1>4. Powers(f)
  BY <1>3
<1>5. \A k \in 0..n : f[k] = IF k = 0 THEN 1 ELSE base * f[k - 1]
  BY <1>4
<1>6. f = [k \in 0..n |-> f[k]]
  BY <1>4
<1>7. Power(base, n) = f[n]
  BY DEF Power
<1> HIDE DEF f
<1> DEFINE Good == {k \in 0..n : f[k] = g[k]}
<1>8. 0 \in Good
  BY <1>2, <1>5
<1>9. ASSUME NEW k \in 0..n, k < n, k \in Good PROVE k + 1 \in Good
  <2>1. k + 1 \in 0..n /\ k + 1 # 0 /\ (k + 1) - 1 = k
    BY <1>9
  <2>2. f[k + 1] = base * f[k] /\ g[k + 1] = base * g[k]
    BY <2>1, <1>2, <1>5
  <2>3. QED BY <1>9, <2>1, <2>2
<1>10. f[n] = g[n]
  <2> HIDE DEF Good
  <2>1. \A k \in 0..n : k \in Good
    BY <1>8, <1>9, Upward
  <2>2. QED BY <2>1 DEF Good
<1>11. g[n] \in Nat
  BY n \in 0..n
<1>12. QED BY <1>1, <1>7, <1>10, <1>11 DEF step

\* What Power computes
LEMMA PowerNext ==
  ASSUME NEW base \in Nat, NEW n \in Nat
  PROVE  /\ Power(base, n) \in Nat
         /\ Power(base, 0) = 1
         /\ Power(base, n + 1) = base * Power(base, n)
<1> DEFINE step == Times(base)
<1>0. n + 1 \in Nat \ {0} /\ 0 \in Nat /\ (n + 1) - 1 = n
  OBVIOUS
<1>1. PICK z : Iterates(z, 1, step, 0) /\ Power(base, 0) = z[0]
  BY <1>0, PowerIterates
<1>2. PICK g : Iterates(g, 1, step, n) /\ Power(base, n) = g[n] /\ g[n] \in Nat
  BY PowerIterates
<1>3. PICK h : Iterates(h, 1, step, n + 1) /\ Power(base, n + 1) = h[n + 1]
  BY <1>0, PowerIterates
<1> HIDE DEF step
<1>4. Iterates(h, 1, step, n) /\ h[n + 1] = step[<<h[n], n>>]
  <2>1. n + 1 \in 1..(n + 1) /\ \A i \in 1..n : i \in 1..(n + 1)
    OBVIOUS
  <2>2. QED BY <1>0, <1>3, <2>1 DEF Iterates
<1>5. h[n] = g[n]
  <2>1. n \in 0..n
    OBVIOUS
  <2>2. \A i \in 0..n : h[i] = g[i]
    BY <1>2, <1>4, IteratesOnce
  <2>3. QED BY <2>1, <2>2
<1>6. step[<<h[n], n>>] = base * h[n]
  BY <1>2, <1>5, <<h[n], n>> \in Nat \X Nat DEF step, Times
<1>7. QED BY <1>1, <1>2, <1>3, <1>4, <1>5, <1>6 DEF Iterates

\* Facts about powers of 2 and 10, by induction
LEMMA PowersGrow ==
  ASSUME NEW n \in Nat
  PROVE  /\ Power(2, n) \in Nat /\ Power(10, n) \in Nat
         /\ 1 <= Power(2, n) /\ Power(2, n) <= Power(10, n)
         /\ \E q \in Nat : \E r \in 1..4 : Power(2, n) = 5 * q + r
<1> DEFINE Fact(k) == /\ 1 <= Power(2, k) /\ Power(2, k) <= Power(10, k)
                      /\ \E q \in Nat : \E r \in 1..4 : Power(2, k) = 5 * q + r
           Good == {k \in 0..n : Fact(k)}
<1>1. 0 \in Good
  <2>1. Power(2, 0) = 1 /\ Power(10, 0) = 1 /\ 0 \in 0..n
    BY PowerNext
  <2>2. Power(2, 0) = 5 * 0 + 1
    BY <2>1
  <2>3. QED BY <2>1, <2>2
<1>2. ASSUME NEW k \in 0..n, k < n, k \in Good PROVE k + 1 \in Good
  <2>0. k \in Nat /\ k + 1 \in 0..n
    BY <1>2
  <2>1. /\ Power(2, k) \in Nat /\ Power(10, k) \in Nat
        /\ Power(2, k + 1) = 2 * Power(2, k) /\ Power(10, k + 1) = 10 * Power(10, k)
    BY <2>0, PowerNext
  <2>2. PICK q \in Nat, r \in 1..4 : Power(2, k) = 5 * q + r
    BY <1>2
  <2>3. 1 <= Power(2, k + 1) /\ Power(2, k + 1) <= Power(10, k + 1)
    BY <2>1, <1>2
  <2>4. CASE r <= 2
    <3>1. Power(2, k + 1) = 5 * (2 * q) + 2 * r /\ 2 * q \in Nat /\ 2 * r \in 1..4
      BY <2>1, <2>2, <2>4
    <3>2. \E u \in Nat : \E t \in 1..4 : Power(2, k + 1) = 5 * u + t
      BY <3>1
    <3>3. QED BY <3>2, <2>0, <2>3, <1>2
  <2>5. CASE ~(r <= 2)
    <3>1. /\ Power(2, k + 1) = 5 * (2 * q + 1) + (2 * r - 5)
          /\ 2 * q + 1 \in Nat /\ 2 * r - 5 \in 1..4
      BY <2>1, <2>2, <2>5
    <3>2. \E u \in Nat : \E t \in 1..4 : Power(2, k + 1) = 5 * u + t
      BY <3>1
    <3>3. QED BY <3>2, <2>0, <2>3, <1>2
  <2>6. QED BY <2>4, <2>5
<1>3. Fact(n)
  <2> HIDE DEF Fact
  <2>1. \A k \in 0..n : k \in Good
    <3> HIDE DEF Good
    <3>1. QED BY <1>1, <1>2, Upward
  <2>2. QED BY <2>1
<1>4. QED BY <1>3, PowerNext

LEMMA PowersOrdered ==
  ASSUME NEW base \in {2, 10}, NEW m \in Nat, NEW n \in Nat, m <= n
  PROVE  Power(base, m) <= Power(base, n)
<1> DEFINE Good == {k \in 0..(n - m) : Power(base, m) <= Power(base, m + k)}
<1>0. base \in Nat /\ base >= 1 /\ n - m \in Nat
  OBVIOUS
<1>1. 0 \in Good
  <2>1. Power(base, m) \in Nat /\ m + 0 = m /\ 0 \in 0..(n - m)
    BY <1>0, PowerNext
  <2>2. QED BY <2>1
<1>2. ASSUME NEW k \in 0..(n - m), k < n - m, k \in Good PROVE k + 1 \in Good
  <2>0. m + k \in Nat /\ m + (k + 1) = (m + k) + 1 /\ k + 1 \in 0..(n - m)
    BY <1>2
  <2>1. /\ Power(base, m) \in Nat /\ Power(base, m + k) \in Nat
        /\ Power(base, m + (k + 1)) = base * Power(base, m + k)
    BY <1>0, <2>0, PowerNext
  <2>2. base * Power(base, m + k) >= Power(base, m + k)
    BY <2>1
  <2>3. QED BY <2>0, <2>1, <2>2, <1>2
<1>3. n - m \in Good
  <2> HIDE DEF Good
  <2>1. \A k \in 0..(n - m) : k \in Good
    BY <1>0, <1>1, <1>2, Upward
  <2>2. QED BY <2>1, <1>0
<1>4. QED BY <1>3
\* DecimalDigits is a number of digits with which every number up to 2^bits can be
\* written: 2^bits itself is no power of 10.
LEMMA DigitsEnough ==
  ASSUME NEW bits \in Nat, bits > 0
  PROVE  DecimalDigits(bits) \in Nat \ {0} /\ Power(2, bits) < Power(10, DecimalDigits(bits))
<1> DEFINE T == {k \in Nat : Power(10, k) >= Power(2, bits)}
           Enough(d) == /\ Power(10, d) >= Power(2, bits)
                        /\ d = 0 \/ Power(10, d - 1) < Power(2, bits)
           d == CHOOSE d \in 0..bits : Enough(d)
<1>1. bits \in T
  BY PowersGrow
<1>2. PICK l \in T : \A k \in T : l <= k
  BY <1>1, LeastMember
<1>3. l \in 0..bits /\ Enough(l)
  <2>1. l \in 0..bits /\ Power(10, l) >= Power(2, bits)
    BY <1>1, <1>2
  <2>2. CASE l # 0
    <3>1. l - 1 \in Nat /\ l - 1 \notin T
      BY <1>2, <2>2
    <3>2. Power(10, l - 1) \in Nat /\ Power(2, bits) \in Nat
      BY <3>1, PowersGrow
    <3>3. QED BY <2>1, <3>1, <3>2
  <2>3. QED BY <2>1, <2>2
<1>4. d \in 0..bits /\ Enough(d)
  <2> HIDE DEF Enough
  <2>1. QED BY <1>3
<1>5. DecimalDigits(bits) = d
  BY DEF DecimalDigits
<1> HIDE DEF d
<1>6. d # 0
  <2>1. bits - 1 \in Nat /\ (bits - 1) + 1 = bits
    OBVIOUS
  <2>2. Power(2, bits) = 2 * Power(2, bits - 1) /\ Power(10, 0) = 1
    BY <2>1, PowerNext
  <2>3. Power(2, bits - 1) \in Nat /\ 1 <= Power(2, bits - 1)
    BY <2>1, PowersGrow
  <2>4. Power(2, bits) > Power(10, 0)
    BY <2>2, <2>3
  <2>5. Power(10, d) >= Power(2, bits) /\ Power(10, 0) \in Nat /\ Power(2, bits) \in Nat
    BY <1>4, <2>2, PowersGrow
  <2>6. QED BY <2>4, <2>5
<1>7. Power(10, d) # Power(2, bits)
  <2>1. d - 1 \in Nat /\ (d - 1) + 1 = d
    BY <1>4, <1>6
  <2>2. Power(10, d) = 10 * Power(10, d - 1) /\ Power(10, d - 1) \in Nat
    BY <2>1, PowerNext
  <2>3. PICK q \in Nat, r \in 1..4 : Power(2, bits) = 5 * q + r
    BY PowersGrow
  <2>4. QED BY <2>2, <2>3
<1>8. Power(10, d) \in Nat /\ Power(2, bits) \in Nat /\ d \in Nat
  BY <1>4, PowersGrow
<1>9. QED BY <1>4, <1>5, <1>6, <1>7, <1>8

-----------------------------------------------------------------------------
(***************************************************************************)
(* json11: digits                                                          *)
(***************************************************************************)

LEMMA AtIsByte ==
  ASSUME NEW str \in Seq(Nat), NEW j \in Nat
  PROVE  At(str, j) \in Nat
<1>1. CASE j < Len(str)
  <2>1. j + 1 \in 1..Len(str)
    BY <1>1
  <2>2. QED BY <1>1, <2>1 DEF At
<1>2. CASE ~(j < Len(str))
  BY <1>2 DEF At
<1>3. QED BY <1>1, <1>2

NoDigits == 0
AddDigit(str, from) == [s \in Int \X Nat |-> 10 * s[1] + (At(str, from + s[2]) - Zero)]

\* The value of n digits is what adding a digit n times makes of 0.
Adding(g, str, from, n) ==
  /\ Iterates(g, NoDigits, AddDigit(str, from), n)
  /\ Number(str, from, from + n) = g[n] /\ g[n] \in Int

LEMMA NumberIterates ==
  ASSUME NEW str \in Seq(Nat), NEW from \in Nat, NEW n \in Nat
  PROVE  \E g : Adding(g, str, from, n)
<1> DEFINE Digit(j) == At(str, j) - Zero
           body(f, j) == IF j = from THEN 0 ELSE 10 * f[j - 1] + Digit(j - 1)
           Numbers(f) == f = [j \in from..(from + n) |-> body(f, j)]
           f == CHOOSE f : Numbers(f)
           step == AddDigit(str, from)
<1>1. /\ \A j \in Nat : Digit(j) \in Int
      /\ step = [s \in Int \X Nat |-> 10 * s[1] + Digit(from + s[2])]
  BY AtIsByte DEF AddDigit, Zero
<1> HIDE DEF Digit, step
<1>2. step \in [Int \X Nat -> Int]
  <2>1. \A v \in Int, i \in Nat : 10 * v + Digit(from + i) \in Int
    BY <1>1
  <2>2. QED BY <1>1, <2>1
<1>3. PICK g \in [0..n -> Int] : Iterates(g, NoDigits, step, n)
  <2>1. NoDigits \in Int
    BY DEF NoDigits
  <2>2. QED BY <1>2, <2>1, IteratesExist
<1>4. g[0] = 0 /\ \A i \in 0..n : i # 0 => g[i] = 10 * g[i - 1] + Digit(from + (i - 1))
  <2>1. ASSUME NEW i \in 0..n, i # 0 PROVE g[i] = 10 * g[i - 1] + Digit(from + (i - 1))
    <3>1. i \in 1..n /\ i - 1 \in 0..n /\ <<g[i - 1], i - 1>> \in Int \X Nat
      BY <2>1
    <3>2. g[i] = step[<<g[i - 1], i - 1>>]
      BY <3>1, <1>3 DEF Iterates
    <3>3. QED BY <3>1, <3>2, <1>1
  <2>2. QED BY <2>1, <1>3 DEF Iterates, NoDigits
<1> DEFINE shifted == [j \in from..(from + n) |-> g[j - from]]
<1>5. Numbers(shifted)
  <2>1. ASSUME NEW j \in from..(from + n) PROVE g[j - from] = body(shifted, j)
    <3>1. CASE j = from
      BY <3>1, <1>4, j - from = 0
    <3>2. CASE j # from
      <4>1. j - from \in 0..n /\ j - from # 0 /\ j - 1 \in from..(from + n)
        BY <3>2
      <4>2. (j - 1) - from = (j - from) - 1 /\ from + ((j - from) - 1) = j - 1
        OBVIOUS
      <4>3. g[j - from] = 10 * g[(j - from) - 1] + Digit(from + ((j - from) - 1))
        BY <4>1, <1>4
      <4>4. shifted[j - 1] = g[(j - from) - 1]
        BY <4>1, <4>2
      <4>5. QED BY <3>2, <4>2, <4>3, <4>4
    <3>3. QED BY <3>1, <3>2
  <2>2. QED BY <2>1
<1>6. Numbers(f)
  BY <1>5
<1>7. \A j \in from..(from + n) : f[j] = body(f, j)
  BY <1>6
<1>8. Number(str, from, from + n) = f[from + n]
  BY DEF Number, Digit
<1> HIDE DEF f, shifted
<1> DEFINE Good == {i \in 0..n : f[from + i] = g[i]}
<1>9. 0 \in Good
  <2>1. from \in from..(from + n) /\ from + 0 = from /\ 0 \in 0..n
    OBVIOUS
  <2>2. f[from] = 0
    BY <2>1, <1>7
  <2>3. QED BY <2>1, <2>2, <1>4
<1>10. ASSUME NEW i \in 0..n, i < n, i \in Good PROVE i + 1 \in Good
  <2>1. /\ i + 1 \in 0..n /\ i + 1 # 0 /\ (i + 1) - 1 = i
        /\ from + (i + 1) \in from..(from + n) /\ from + (i + 1) # from
        /\ (from + (i + 1)) - 1 = from + i
    BY <1>10
  <2>2. f[from + (i + 1)] = 10 * f[from + i] + Digit(from + i)
    BY <2>1, <1>7
  <2>3. g[i + 1] = 10 * g[i] + Digit(from + i)
    BY <2>1, <1>4
  <2>4. QED BY <1>10, <2>1, <2>2, <2>3
<1>11. f[from + n] = g[n]
  <2> HIDE DEF Good
  <2>1. \A i \in 0..n : i \in Good
    BY <1>9, <1>10, Upward
  <2>2. QED BY <2>1, n \in 0..n DEF Good
<1>12. g[n] \in Int
  BY n \in 0..n
<1>13. Adding(g, str, from, n)
  BY <1>3, <1>8, <1>11, <1>12 DEF step, Adding
<1>14. QED BY <1>13

\* What Number computes
LEMMA NumberNext ==
  ASSUME NEW str \in Seq(Nat), NEW from \in Nat, NEW n \in Nat
  PROVE  /\ Number(str, from, from + n) \in Int
         /\ Number(str, from, from) = 0
         /\ Number(str, from, from + (n + 1)) =
              10 * Number(str, from, from + n) + (At(str, from + n) - Zero)
<1> DEFINE step == AddDigit(str, from)
<1>0. n + 1 \in Nat \ {0} /\ 0 \in Nat /\ from + 0 = from /\ (n + 1) - 1 = n
  OBVIOUS
<1>1. PICK z : Adding(z, str, from, 0)
  BY <1>0, NumberIterates
<1>2. PICK g : Adding(g, str, from, n)
  BY NumberIterates
<1>3. PICK h : Adding(h, str, from, n + 1)
  BY <1>0, NumberIterates
<1>4. Iterates(h, NoDigits, step, n) /\ h[n + 1] = step[<<h[n], n>>]
  <2>1. Iterates(h, NoDigits, step, n + 1)
    BY <1>3 DEF Adding
  <2>2. n + 1 \in 1..(n + 1) /\ \A i \in 1..n : i \in 1..(n + 1)
    OBVIOUS
  <2> HIDE DEF step
  <2>3. QED BY <1>0, <2>1, <2>2 DEF Iterates
<1>5. h[n] = g[n]
  <2>1. n \in 0..n
    OBVIOUS
  <2>2. \A i \in 0..n : h[i] = g[i]
    <3>1. Iterates(g, NoDigits, step, n)
      BY <1>2 DEF Adding
    <3> HIDE DEF step
    <3>2. QED BY <1>4, <3>1, IteratesOnce
  <2>3. QED BY <2>1, <2>2
<1>6. step[<<h[n], n>>] = 10 * h[n] + (At(str, from + n) - Zero)
  <2>1. <<h[n], n>> \in Int \X Nat
    BY <1>2, <1>5 DEF Adding
  <2>2. QED BY <2>1 DEF AddDigit
<1> HIDE DEF step
<1>7. QED BY <1>0, <1>1, <1>2, <1>3, <1>4, <1>5, <1>6 DEF Adding, Iterates, NoDigits

\* A number whose first digit is not 0 is as large as its length says.
LEMMA NumberIsLong ==
  ASSUME NEW str \in Seq(Nat), NEW from \in Nat, NEW n \in Nat,
         \A j \in from..(from + n) : At(str, j) \in Digits
  PROVE  /\ Number(str, from, from + (n + 1)) \in Nat
         /\ At(str, from) # Zero => Number(str, from, from + (n + 1)) >= Power(10, n)
<1> DEFINE N(k) == Number(str, from, from + (k + 1))
           Fact(k) == N(k) \in Nat /\ (At(str, from) # Zero => N(k) >= Power(10, k))
           Good == {k \in 0..n : Fact(k)}
<1>1. ASSUME NEW k \in 0..n PROVE At(str, from + k) - Zero \in 0..9
  BY from + k \in from..(from + n) DEF Digits, Zero
<1>2. 0 \in Good
  <2>1. /\ Number(str, from, from + (0 + 1))
             = 10 * Number(str, from, from + 0) + (At(str, from + 0) - Zero)
        /\ Number(str, from, from) = 0
    BY NumberNext, 0 \in Nat, Zenon
  <2>2. from + 0 = from /\ 0 \in 0..n
    OBVIOUS
  <2>3. N(0) = At(str, from) - Zero
    <3>1. At(str, from) \in Nat
      BY AtIsByte
    <3>2. QED BY <2>1, <2>2, <3>1 DEF Zero
  <2>4. At(str, from) - Zero \in 0..9 /\ At(str, from) \in Nat
    BY <1>1, <2>2, AtIsByte
  <2>5. Power(10, 0) = 1
    BY PowerNext, 0 \in Nat, 10 \in Nat, Zenon
  <2> HIDE DEF N
  <2>6. Fact(0)
    BY <2>3, <2>4, <2>5 DEF Zero
  <2>7. QED BY <2>2, <2>6
<1>3. ASSUME NEW k \in 0..n, k < n, k \in Good PROVE k + 1 \in Good
  <2>1. k + 1 \in 0..n /\ k + 1 \in Nat /\ k \in Nat
    BY <1>3
  <2>2. N(k + 1) = 10 * N(k) + (At(str, from + (k + 1)) - Zero)
    BY <2>1, NumberNext
  <2>3. Power(10, k + 1) = 10 * Power(10, k) /\ Power(10, k) \in Nat
    BY <2>1, PowerNext
  <2>4. PICK d \in 0..9 : d = At(str, from + (k + 1)) - Zero
    BY <1>1, <2>1
  <2>5. N(k) \in Nat /\ (At(str, from) # Zero => N(k) >= Power(10, k))
    BY <1>3
  <2> HIDE DEF N
  <2>6. N(k + 1) \in Nat /\ (At(str, from) # Zero => N(k + 1) >= Power(10, k + 1))
    <3>1. N(k + 1) = 10 * N(k) + d
      BY <2>2, <2>4
    <3>2. QED BY <3>1, <2>3, <2>5
  <2>7. QED BY <2>1, <2>6
<1>4. Fact(n)
  <2> HIDE DEF Fact
  <2>1. \A k \in 0..n : k \in Good
    <3> HIDE DEF Good
    <3>1. QED BY <1>2, <1>3, Upward
  <2>2. QED BY <2>1
<1>5. QED BY <1>4
-----------------------------------------------------------------------------
(***************************************************************************)
(* json11: integers                                                        *)
(***************************************************************************)

\* What parse_number is called with
IsState(p) ==
  p \in [i : Nat, failed : BOOLEAN, erange : BOOLEAN, ch : Nat, val : {p.val}]

Negative(str, start) == At(str, start) = Minus
FirstDigit(str, start) == IF Negative(str, start) THEN start + 1 ELSE start

\* str[start..end-1] is an integer of JSON: digits, with no 0 in front of others,
\* and what stands behind it belongs to no number.
IntegerToken(str, start, end) ==
  /\ end \in FirstDigit(str, start) + 1..Len(str)
  /\ \A j \in FirstDigit(str, start)..end - 1 : At(str, j) \in Digits
  /\ At(str, FirstDigit(str, start)) = Zero => end = FirstDigit(str, start) + 1
  /\ At(str, end) \notin Digits \cup {Dot} \cup ExponentSigns

Magnitude(str, start, end) == Number(str, FirstDigit(str, start), end)

Integer(str, start, end) ==
  IF Negative(str, start) THEN -Magnitude(str, start, end) ELSE Magnitude(str, start, end)

\* int64_ for a negative one, uint64_ for the others
IntegerRange == -Power(2, Width - 1)..Power(2, Width) - 1

LEMMA FirstNotInIs ==
  ASSUME NEW str \in Seq(Nat), NEW S, NEW first \in Nat, NEW end \in first..Len(str),
         \A j \in first..end - 1 : At(str, j) \in S, At(str, end) \notin S
  PROVE  FirstNotIn(str, first, S) = end
<1> DEFINE T == {j \in first..Len(str) : At(str, j) \notin S}
<1>1. end \in T /\ end \in Nat
  OBVIOUS
<1>2. ASSUME NEW t \in T PROVE end <= t /\ t \in Nat
  <2>1. t \in first..Len(str) /\ t \notin first..end - 1
    OBVIOUS
  <2>2. QED BY <2>1
<1>3. ASSUME NEW x \in T, \A y \in T : x <= y PROVE x = end
  BY <1>1, <1>2, <1>3
<1> HIDE DEF T
<1>4. Min(T) = end
  BY <1>1, <1>2, <1>3 DEF Min
<1>5. QED BY <1>4 DEF FirstNotIn, T

\* The facts about a token that the following proofs use.
LEMMA TokenFacts ==
  ASSUME NEW str \in Seq(Nat), NEW start \in Nat, NEW end, IntegerToken(str, start, end)
  PROVE  LET first == FirstDigit(str, start) IN
         /\ first \in Nat /\ end \in Nat /\ first < end /\ end <= Len(str)
         /\ At(str, first) \in Digits
         /\ At(str, end) \notin Digits /\ At(str, end) # Dot /\ At(str, end) \notin ExponentSigns
         /\ end = IF At(str, first) = Zero THEN first + 1 ELSE FirstNotIn(str, first, Digits)
         /\ Magnitude(str, start, end) \in Nat
         /\ At(str, first) # Zero => Magnitude(str, start, end) >= Power(10, end - first - 1)
<1> DEFINE first == FirstDigit(str, start)
<1>1. first \in Nat /\ Len(str) \in Nat
  BY DEF FirstDigit
<1> HIDE DEF first
<1>2. end \in first + 1..Len(str) /\ \A j \in first..end - 1 : At(str, j) \in Digits
  BY DEF IntegerToken, first
<1>3. end \in Nat /\ first < end /\ end <= Len(str) /\ end \in first..Len(str)
  BY <1>1, <1>2
<1>4. At(str, first) \in Digits
  <2>1. first \in first..end - 1
    BY <1>1, <1>3
  <2>2. QED BY <2>1, <1>2
<1>5. At(str, end) \notin Digits /\ At(str, end) # Dot /\ At(str, end) \notin ExponentSigns
  BY DEF IntegerToken
<1>6. FirstNotIn(str, first, Digits) = end
  BY <1>1, <1>2, <1>3, <1>5, FirstNotInIs
<1>7. end = IF At(str, first) = Zero THEN first + 1 ELSE FirstNotIn(str, first, Digits)
  BY <1>6 DEF IntegerToken, first
<1> DEFINE n == end - first - 1
<1>8. n \in Nat /\ first + (n + 1) = end /\ first + n = end - 1
  BY <1>1, <1>3
<1> HIDE DEF n
<1>9. /\ Number(str, first, first + (n + 1)) \in Nat
      /\ At(str, first) # Zero => Number(str, first, first + (n + 1)) >= Power(10, n)
  <2>1. \A j \in first..(first + n) : At(str, j) \in Digits
    BY <1>2, <1>8
  <2>2. QED BY <2>1, <1>1, <1>8, NumberIsLong
<1>10. /\ Magnitude(str, start, end) \in Nat
       /\ At(str, first) # Zero => Magnitude(str, start, end) >= Power(10, end - first - 1)
  BY <1>8, <1>9 DEF Magnitude, first, n
<1>11. QED BY <1>1, <1>3, <1>4, <1>5, <1>7, <1>10 DEF first

\* No integer in range is too long to be tried as one: the limits on the length
\* (json11.cpp:616, 626) leave out nothing that the range would let pass.
LEMMA InRangeFits ==
  ASSUME NEW str \in Seq(Nat), NEW start \in Nat, NEW end, IntegerToken(str, start, end),
         representable(Negative(str, start), Magnitude(str, start, end))
  PROVE  may_fit(Negative(str, start), end - start)
<1> DEFINE bits == IF Negative(str, start) THEN Width - 1 ELSE Width
           first == FirstDigit(str, start)
           d == DecimalDigits(bits)
           m == Magnitude(str, start, end)
<1>1. bits \in Nat /\ bits > 0
  BY NumberAssumption
<1>2. m <= Power(2, bits)
  <2>1. Power(2, bits) \in Nat /\ m \in Nat
    BY <1>1, PowersGrow, TokenFacts
  <2>2. QED BY <2>1 DEF representable
<1>3. /\ first \in Nat /\ end \in Nat /\ first < end /\ m \in Nat
      /\ end = IF At(str, first) = Zero THEN first + 1 ELSE FirstNotIn(str, first, Digits)
      /\ At(str, first) # Zero => m >= Power(10, end - first - 1)
  BY TokenFacts
<1> HIDE DEF bits, m
<1>4. d \in Nat \ {0} /\ Power(2, bits) < Power(10, d)
  BY <1>1, DigitsEnough
<1> HIDE DEF d, first
<1>5. end - first <= d
  <2>1. CASE At(str, first) = Zero
    BY <2>1, <1>3, <1>4
  <2>2. CASE At(str, first) # Zero /\ ~(end - first <= d)
    <3>1. end - first - 1 \in Nat /\ d <= end - first - 1 /\ d \in Nat
      BY <2>2, <1>3, <1>4
    <3>2. Power(10, d) <= Power(10, end - first - 1)
      BY <3>1, PowersOrdered
    <3>3. Power(10, d) \in Nat /\ Power(10, end - first - 1) \in Nat /\ Power(2, bits) \in Nat
      BY <3>1, <1>1, PowersGrow
    <3>4. m >= Power(10, end - first - 1)
      BY <2>2, <1>3
    <3>5. QED BY <3>2, <3>3, <3>4, <1>2, <1>3, <1>4
  <2>3. QED BY <2>1, <2>2
<1>6. CASE Negative(str, start)
  <2>1. first = start + 1 /\ d = DecimalDigits(Width - 1)
    BY <1>6 DEF first, d, bits, FirstDigit
  <2>2. end - start <= DecimalDigits(Width - 1) + 1
    BY <2>1, <1>3, <1>4, <1>5
  <2>3. QED BY <2>2, <1>6 DEF may_fit
<1>7. CASE ~Negative(str, start)
  <2>1. first = start /\ d = DecimalDigits(Width)
    BY <1>7 DEF first, d, bits, FirstDigit
  <2>2. QED BY <2>1, <1>5, <1>7 DEF may_fit
<1>8. QED BY <1>6, <1>7
\* Behind the token: errno is set if the integer was tried and out of range.
Tried(str, start, end) == may_fit(Negative(str, start), end - start)
OutOfRange(str, start, end) ==
  Tried(str, start, end) /\ ~representable(Negative(str, start), Magnitude(str, start, end))
Behind(str, p, end) ==
  [p EXCEPT !.i = end, !.erange = @ \/ OutOfRange(str, p.i, end)]

Tagged(str, start, end) ==
  IF Negative(str, start) THEN <<"int", -Magnitude(str, start, end)>>
  ELSE <<"uint", Magnitude(str, start, end)>>

\* parse_number on an integer, down to the call of strtod
LEMMA TokenParsed ==
  ASSUME NEW str \in Seq(Nat), NEW p, IsState(p), NEW end,
         IntegerToken(str, p.i, end)
  PROVE  parse_number(str, p) =
           IF Tried(str, p.i, end) /\ ~Behind(str, p, end).erange
           THEN Value(Behind(str, p, end), Tagged(str, p.i, end))
           ELSE number_tail(str, p.i, Behind(str, p, end))
<1> DEFINE start == p.i
           first == FirstDigit(str, start)
           m == Magnitude(str, start, end)
           q == Behind(str, p, end)
<1>1. start \in Nat /\ IntegerToken(str, start, end)
  BY DEF IsState
<1> HIDE DEF start
<1>2. /\ At(str, first) \in Digits
      /\ At(str, end) \notin Digits /\ At(str, end) # Dot /\ At(str, end) \notin ExponentSigns
      /\ end = IF At(str, first) = Zero THEN first + 1 ELSE FirstNotIn(str, first, Digits)
  BY <1>1, TokenFacts
<1>3. At(str, end) \notin {Dot} \cup ExponentSigns
  BY <1>2
<1>4. QED BY <1>2, <1>3 DEF parse_number, Tried, OutOfRange, Behind, Tagged, Magnitude,
                          FirstDigit, Negative, start

\* Behind a whole integer there is nothing left for number_tail but strtod.
LEMMA IntegerTail ==
  ASSUME NEW str \in Seq(Nat), NEW p, IsState(p), NEW end,
         IntegerToken(str, p.i, end)
  PROVE  number_tail(str, p.i, Behind(str, p, end))
           = [Behind(str, p, end) EXCEPT !.val = <<"double", AsDouble(Integer(str, p.i, end))>>]
<1> DEFINE start == p.i
           q == Behind(str, p, end)
<1>1. start \in Nat /\ IntegerToken(str, start, end)
  BY DEF IsState
<1> HIDE DEF start
<1>2. /\ At(str, end) # Dot /\ At(str, end) \notin ExponentSigns
      /\ FirstDigit(str, start) \in Nat /\ end \in Nat
  BY <1>1, TokenFacts
<1>3. \A j \in start + 1..end - 1 : At(str, j) \in Digits
  <2>1. \A j \in start + 1..end - 1 : j \in FirstDigit(str, start)..end - 1
    BY <1>1, <1>2 DEF FirstDigit
  <2>2. QED BY <2>1, <1>1 DEF IntegerToken
<1>4. q.i = end /\ q.erange \in BOOLEAN /\ q = [q EXCEPT !.i = end, !.erange = @ \/ FALSE]
  BY DEF IsState, Behind, OutOfRange, Tried, may_fit, representable
<1> HIDE DEF q
<1>5. number_tail(str, start, q) = strtod(str, start, end, q)
  BY <1>2, <1>4 DEF number_tail
<1>6. strtod(str, start, end, q) = Value(q, <<"double", AsDouble(Integer(str, start, end))>>)
  BY <1>3 DEF strtod, Integer, Magnitude, FirstDigit, Negative
<1>7. QED BY <1>5, <1>6 DEF Value, start, q

LEMMA RangeIs ==
  ASSUME NEW str \in Seq(Nat), NEW start \in Nat, NEW end, IntegerToken(str, start, end)
  PROVE  Integer(str, start, end) \in IntegerRange
           <=> representable(Negative(str, start), Magnitude(str, start, end))
<1>1. Magnitude(str, start, end) \in Nat
  BY TokenFacts
<1>2. Width \in Nat /\ Width - 1 \in Nat
  BY NumberAssumption
<1>3. /\ Power(2, Width) \in Nat /\ Power(2, Width - 1) \in Nat
      /\ 1 <= Power(2, Width) /\ 1 <= Power(2, Width - 1)
  BY <1>2, PowersGrow
<1>4. CASE Negative(str, start)
  BY <1>1, <1>3, <1>4 DEF Integer, IntegerRange, representable
<1>5. CASE ~Negative(str, start)
  BY <1>1, <1>3, <1>5 DEF Integer, IntegerRange, representable
<1>6. QED BY <1>4, <1>5

\* json11.cpp:593-633, as session and site ids need it: provided errno was clear,
\* an integer from the least int64_ to the greatest uint64_ comes out as this
\* integer, whatever their width, and nothing behind it is read.
THEOREM IntegersKept ==
  ASSUME NEW str \in Seq(Nat), NEW p, IsState(p), NEW end,
         IntegerToken(str, p.i, end), Integer(str, p.i, end) \in IntegerRange, ~p.erange
  PROVE  parse_number(str, p) =
           [p EXCEPT !.i = end,
                     !.val = <<IF Negative(str, p.i) THEN "int" ELSE "uint",
                               Integer(str, p.i, end)>>]
<1>1. p.i \in Nat
  BY DEF IsState
<1>2. representable(Negative(str, p.i), Magnitude(str, p.i, end))
  BY <1>1, RangeIs
<1>3. Tried(str, p.i, end) /\ ~OutOfRange(str, p.i, end)
  BY <1>1, <1>2, InRangeFits DEF Tried, OutOfRange
<1>4. Behind(str, p, end) = [p EXCEPT !.i = end] /\ ~Behind(str, p, end).erange
  BY <1>3 DEF Behind, IsState
<1>5. parse_number(str, p) = Value([p EXCEPT !.i = end], Tagged(str, p.i, end))
  BY <1>3, <1>4, TokenParsed
<1>6. Tagged(str, p.i, end) =
        <<IF Negative(str, p.i) THEN "int" ELSE "uint", Integer(str, p.i, end)>>
  BY DEF Tagged, Integer
<1>7. QED BY <1>5, <1>6 DEF Value

-----------------------------------------------------------------------------
(***************************************************************************)
(* json11: integers as doubles                                             *)
(***************************************************************************)

\* An integer that fits the significand is not rounded.
LEMMA SmallIsExact ==
  ASSUME NEW n \in Int, -Power(2, Precision) < n, n < Power(2, Precision)
  PROVE  AsDouble(n) = n
<1>1. ASSUME NEW m \in Nat, m < Power(2, Precision) PROVE Rounded(m) = m
  <2> DEFINE Shift(k) == /\ m < Power(2, Precision + k)
                         /\ k = 0 \/ m >= Power(2, Precision + k - 1)
             shift == CHOOSE k \in 0..m : Shift(k)
             unit == Power(2, shift)
  <2>1. 0 \in 0..m /\ Shift(0)
    BY <1>1, NumberAssumption
  <2>2. ASSUME NEW k \in 0..m, Shift(k) PROVE k = 0
    <3>1. SUFFICES ASSUME k # 0 PROVE FALSE
      OBVIOUS
    <3>2. /\ Precision \in Nat /\ Precision + k - 1 \in Nat
          /\ Precision <= Precision + k - 1
      BY <3>1, NumberAssumption
    <3>3. /\ Power(2, Precision) <= Power(2, Precision + k - 1)
          /\ Power(2, Precision) \in Nat /\ Power(2, Precision + k - 1) \in Nat
      BY <3>2, PowersOrdered, PowersGrow
    <3>4. m >= Power(2, Precision + k - 1)
      BY <2>2, <3>1
    <3>5. QED BY <3>3, <3>4, <1>1
  <2>3. shift = 0
    <3> HIDE DEF Shift
    <3>1. QED BY <2>1, <2>2
  <2>4. unit = 1
    <3> HIDE DEF shift
    <3>1. Power(2, 0) = 1
      BY PowerNext
    <3>2. QED BY <2>3, <3>1
  <2>5. (m \div 1) * 1 = m /\ 2 * (m - m) = 0
    OBVIOUS
  <2> HIDE DEF unit
  <2>6. Rounded(m) = LET low == (m \div unit) * unit
                         rest == 2 * (m - low)
                     IN  IF rest < unit \/ (rest = unit /\ (m \div unit) % 2 = 0)
                         THEN low ELSE low + unit
    BY DEF Rounded, unit
  <2>7. QED BY <2>4, <2>5, <2>6
<1>2. Power(2, Precision) \in Nat
  BY NumberAssumption, PowersGrow
<1>3. CASE n < 0
  <2>1. -n \in Nat /\ -n < Power(2, Precision) /\ -(-n) = n
    BY <1>2, <1>3
  <2>2. Rounded(-n) = -n
    BY <2>1, <1>1
  <2>3. QED BY <2>1, <2>2, <1>3 DEF AsDouble
<1>4. CASE ~(n < 0)
  BY <1>1, <1>4 DEF AsDouble
<1>5. QED BY <1>3, <1>4

\* json11.cpp:620, 629: once errno is ERANGE, or for an integer out of range, the
\* result is a double and never another integer: the text is accepted, nothing
\* behind the integer is read, and an id that fits the significand of a double
\* still comes out as it was sent.
THEOREM IntegersRounded ==
  ASSUME NEW str \in Seq(Nat), NEW p, IsState(p), NEW end,
         IntegerToken(str, p.i, end),
         p.erange \/ Integer(str, p.i, end) \notin IntegerRange
  PROVE  LET n == Integer(str, p.i, end)
             result == parse_number(str, p) IN
         /\ result.val = <<"double", AsDouble(n)>>
         /\ result.i = end /\ result.failed = p.failed
         /\ -Power(2, Precision) < n /\ n < Power(2, Precision) => AsDouble(n) = n
<1> DEFINE n == Integer(str, p.i, end)
           q == Behind(str, p, end)
<1>1. p.i \in Nat
  BY DEF IsState
<1>2. n \in Int
  <2>1. Magnitude(str, p.i, end) \in Nat
    BY <1>1, TokenFacts
  <2>2. QED BY <2>1 DEF Integer
<1>3. p.erange \/ ~representable(Negative(str, p.i), Magnitude(str, p.i, end))
  BY <1>1, RangeIs
<1>4. ~(Tried(str, p.i, end) /\ ~q.erange)
  BY <1>3 DEF Behind, OutOfRange, IsState
<1> DEFINE v == <<"double", AsDouble(n)>>
           result == parse_number(str, p)
<1>5. result = [q EXCEPT !.val = v]
  <2>1. parse_number(str, p) = number_tail(str, p.i, q)
    BY <1>4, TokenParsed
  <2>2. number_tail(str, p.i, Behind(str, p, end))
          = [Behind(str, p, end) EXCEPT !.val = <<"double", AsDouble(Integer(str, p.i, end))>>]
    BY IntegerTail
  <2>3. QED BY <2>1, <2>2, Zenon
<1>6. q.i = end /\ q.failed = p.failed /\ {"i", "failed", "val"} \subseteq DOMAIN q
  BY DEF Behind, IsState
<1> HIDE DEF q, v, result
<1>7. result.val = v /\ result.i = end /\ result.failed = p.failed
  BY <1>5, <1>6
<1>8. -Power(2, Precision) < n /\ n < Power(2, Precision) => AsDouble(n) = n
  <2> HIDE DEF n
  <2>1. QED BY <1>2, SmallIsExact
<1>9. QED BY <1>7, <1>8 DEF v, result
=============================================================================
