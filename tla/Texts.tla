------------------------------- MODULE Texts -------------------------------
(***************************************************************************)
(* The parsers, json11 and http_parser, against reference definitions, on  *)
(* every text of a bounded length.  A JSON text grows by chunks of tokens; *)
(* its mode says which tokens: "structure" (objects, arrays, words),       *)
(* "string" (what stands behind an opening quote) or "number" (what stands *)
(* between brackets).  Mode "http" is the run of HttpParser.               *)
(***************************************************************************)
EXTENDS Json11, HttpParser

CONSTANTS
  MaxChunks   \* bound: chunks of a JSON text, per mode

VARIABLES mode, text

Modes == {"structure", "string", "number"}

-----------------------------------------------------------------------------
(***************************************************************************)
(* Tokens and their characters                                             *)
(***************************************************************************)

Str(c) == <<Byte["\""], Byte[c], Byte["\""]>>
U(n)   == <<Byte["\\"], Byte["u"], Hex(n)>>
Digit  == ("0" :> 48) @@ ("1" :> 49) @@ ("5" :> 53) @@ ("9" :> 57)

Punctuation == {"{", "}", "[", "]", ",", ":", " "}
Words == {"A", "B", "T", "N"}

\* The code units of the \u tokens
CodeUnit ==
  ("\\u0001" :> 1) @@ ("\\u00E9" :> 233) @@ ("\\u2028" :> 8232)
  @@ ("\\uD83D" :> 55357) @@ ("\\uDE00" :> 56832)

\* The bytes of the other tokens of a string, as they are and as they are meant
Plain ==
  ("a" :> <<97>>) @@ ("\\n" :> <<Byte["\\"], Byte["n"]>>)
  @@ ("\\q" :> <<Byte["\\"], Byte["\""]>>) @@ ("xE2" :> <<226>>)
PlainMeaning == ("a" :> <<97>>) @@ ("\\n" :> <<10>>) @@ ("\\q" :> <<34>>) @@ ("xE2" :> <<226>>)

Invalid == ("ctl" :> <<1>>) @@ ("\\x" :> <<Byte["\\"], 120>>) @@ ("\\u" :> <<Byte["\\"], Byte["u"]>>)

Chars(token) ==
  CASE token \in Punctuation \cup {"-", ".", "e"} -> <<Byte[token]>>
    [] token = "A" -> Str("a")
    [] token = "B" -> Str("b")
    [] token = "T" -> True
    [] token = "N" -> NullWord
    [] token \in DOMAIN Digit -> <<Digit[token]>>
    [] token \in DOMAIN CodeUnit -> U(CodeUnit[token])
    [] token \in DOMAIN Plain -> Plain[token]
    [] token \in DOMAIN Invalid -> Invalid[token]
    [] token = "quote" -> <<Byte["\""]>>

Single(S) == {<<t>> : t \in S}

Chunks ==
  [m \in Modes |->
     CASE m = "structure" ->
            Single(Punctuation \cup {"A", "T"})
            \cup {<<"A", ":", "T">>, <<"A", ":", "N">>, <<"B", ":", "T">>}
       [] m = "string" ->
            Single({"quote"} \cup DOMAIN CodeUnit \cup DOMAIN Plain \cup DOMAIN Invalid)
       [] m = "number" -> Single(DOMAIN Digit \cup {"-", ".", "e", ","})]

CharsOf(tokens) == FlattenSeq([k \in 1..Len(tokens) |-> Chars(tokens[k])])

\* What the parser is given
Input ==
  CASE mode = "structure" -> CharsOf(text)
    [] mode = "string" -> <<Byte["\""]>> \o CharsOf(text)
    [] mode = "number" -> <<Byte["["]>> \o CharsOf(text) \o <<Byte["]"]>>

-----------------------------------------------------------------------------

VARIABLE chunks   \* chunks the text was made of

vars == <<mode, text, chunks, httpVars>>

Init == mode \in Modes \cup {"http"} /\ text = <<>> /\ chunks = 0 /\ HttpInit

Grow ==
  /\ mode \in Modes /\ chunks < MaxChunks[mode]
  /\ \E c \in Chunks[mode] : text' = text \o c
  /\ chunks' = chunks + 1
  /\ UNCHANGED <<mode, httpVars>>

Http == mode = "http" /\ HttpNext /\ UNCHANGED <<mode, text, chunks>>

Next == Grow \/ Http

\* What Json::parse makes of the text, on a thread whose errno is clear
Parsed == parse(Input, FALSE)

Spec == Init /\ [][Next]_vars

-----------------------------------------------------------------------------
(***************************************************************************)
(* The grammar, as the meanings (none or one) of a sequence of tokens      *)
(***************************************************************************)

Sub(t, from, to) == SubSeq(t, from, to)

RECURSIVE Meanings(_), Items(_), Members(_)

\* Where the first item of a list may end
Ends(t) == {k \in 1..Len(t) : t[k] = ","} \cup {Len(t) + 1}

Items(t) ==
  IF t = <<>> THEN {<<>>}
  ELSE UNION {{<<v>> \o r : v \in Meanings(Sub(t, 1, k - 1)), r \in Items(Sub(t, k + 1, Len(t)))} :
              k \in Ends(t) \ {Len(t)}}

Member(t) ==
  IF Len(t) >= 3 /\ t[1] \in {"A", "B"} /\ t[2] = ":"
  THEN {(IF t[1] = "A" THEN <<97>> ELSE <<98>>) :> v : v \in Meanings(Sub(t, 3, Len(t)))}
  ELSE {}

\* A later member with the same name counts.
Members(t) ==
  IF t = <<>> THEN {EmptyObject}
  ELSE UNION {{r @@ m : m \in Member(Sub(t, 1, k - 1)), r \in Members(Sub(t, k + 1, Len(t)))} :
              k \in Ends(t) \ {Len(t)}}

Meanings(t) ==
  LET n == Len(t)
      inner == Sub(t, 2, n - 1) IN
  CASE t = <<"A">> -> {<<"string", <<97>>>>}
    [] t = <<"B">> -> {<<"string", <<98>>>>}
    [] t = <<"T">> -> {<<"bool", TRUE>>}
    [] t = <<"N">> -> {Null}
    [] n >= 2 /\ t[1] = "[" /\ t[n] = "]" ->
         {<<"array", s>> : s \in Items(inner)}
    [] n >= 2 /\ t[1] = "{" /\ t[n] = "}" ->
         {<<"object", f>> : f \in Members(inner)}
    [] OTHER -> {}

\* Brackets open in front of token k
Nesting(t, k) ==
  Cardinality({j \in 1..k - 1 : t[j] \in {"[", "{"}})
  - Cardinality({j \in 1..k - 1 : t[j] \in {"]", "}"}})

Deep(t) == \E k \in DOMAIN t : t[k] \in Words \cup {"[", "{"} /\ Nesting(t, k) > max_depth

Wanted(t) == IF Deep(t) THEN {} ELSE Meanings(t)

\* The parser's result is the one value wanted, or an error if none is.
Agrees(p, values) == IF p.failed THEN values = {} ELSE values = {p.val}

\* parse_json (json11.cpp:682-763) accepts exactly the texts of the grammar whose
\* nesting is within max_depth, with white space anywhere and nothing behind
\* them, and gives their meaning; of two equal keys the later one counts.  This
\* is where reading ahead and going back (i--) and the sticky failed come
\* together: on a text that ends early the array loop goes back over a token.
ParsesGrammar == mode = "structure" => Agrees(Parsed, Wanted(SelectSeq(text, LAMBDA k : k # " ")))

-----------------------------------------------------------------------------

\* The UTF-8 of the code units, of a lone surrogate too, and of the pair
Utf8 ==
  ("\\u0001" :> <<1>>) @@ ("\\u00E9" :> <<195, 169>>) @@ ("\\u2028" :> <<226, 128, 168>>)
  @@ ("\\uD83D" :> <<237, 160, 189>>) @@ ("\\uDE00" :> <<237, 184, 128>>)
Utf8Pair == <<240, 159, 152, 128>>

PairAt(t, k) == k \in 1..Len(t) - 1 /\ t[k] = "\\uD83D" /\ t[k + 1] = "\\uDE00"

Decoded(t) ==
  FlattenSeq([k \in 1..Len(t) |->
    CASE PairAt(t, k) -> Utf8Pair
      [] PairAt(t, k - 1) -> <<>>
      [] t[k] \in DOMAIN Utf8 /\ ~PairAt(t, k) /\ ~PairAt(t, k - 1) -> Utf8[t[k]]
      [] t[k] \in DOMAIN PlainMeaning -> PlainMeaning[t[k]]])

\* The string (none or one) that stands behind an opening quote
Strings(t) ==
  LET n == Len(t)
      body == Sub(t, 1, n - 1) IN
  IF /\ n >= 1 /\ t[n] = "quote"
     /\ \A k \in 1..n - 1 : body[k] \in DOMAIN CodeUnit \cup DOMAIN Plain
  THEN {<<"string", Decoded(body)>>} ELSE {}

\* parse_string (json11.cpp:502-587) ends at the first quote that is not
\* escaped, refuses control characters and unknown or cut off escapes, and
\* joins two \u escapes into one character exactly when a lead surrogate is
\* directly followed by a trail surrogate; no held-back code point is lost,
\* doubled or moved behind what follows it.
StringDecoded == mode = "string" => Agrees(Parsed, Strings(text))

ReadsBack(p) == ~p.failed => Agrees(parse(dump(p.val), FALSE), {p.val})

\* Json::dump (json11.cpp:49-145) writes a text that Json::parse reads back as
\* the same value: everything parse_string refuses or would take for the end is
\* escaped, and so are separators in nested containers.
DumpParsesBack == mode \in {"structure", "string"} => ReadsBack(Parsed)

-----------------------------------------------------------------------------
(***************************************************************************)
(* Numbers                                                                 *)
(***************************************************************************)

AllDigits(s) == \A k \in DOMAIN s : s[k] \in DOMAIN Digit
IsInt(s)  == s # <<>> /\ AllDigits(s) /\ (s[1] = "0" => Len(s) = 1)
IsFrac(s) == s # <<>> => s[1] = "." /\ Len(s) >= 2 /\ AllDigits(Tail(s))
IsExp(s)  ==
  s # <<>> => /\ s[1] = "e"
              /\ LET d == IF Len(s) >= 2 /\ s[2] = "-" THEN Sub(s, 3, Len(s)) ELSE Tail(s)
                 IN  d # <<>> /\ AllDigits(d)

Unsigned(s) == IF s # <<>> /\ s[1] = "-" THEN Tail(s) ELSE s
IsNumber(s) ==
  LET u == Unsigned(s) IN
  \E k \in 1..Len(u) : \E m \in k..Len(u) :
    IsInt(Sub(u, 1, k)) /\ IsFrac(Sub(u, k + 1, m)) /\ IsExp(Sub(u, m + 1, Len(u)))

ValueOf(s) == FoldLeft(LAMBDA v, d : 10 * v + (Digit[d] - 48), 0, s)
Exact(s) == IF s[1] = "-" THEN -ValueOf(Unsigned(s)) ELSE ValueOf(s)

\* The number is what a 64 bit integer, or a double, can hold.
InRange(s) ==
  IF IsInt(Unsigned(s)) THEN Exact(s) \in (-2^(Width - 1))..(2^Width - 1)
  ELSE \A k \in DOMAIN s :
         s[k] = "e" /\ (\E j \in 1..k - 1 : s[j] \in {"1", "5", "9"}) =>
         ValueOf(SelectSeq(Sub(s, k + 1, Len(s)), LAMBDA d : d # "-")) <= MaxExponent

\* The numbers between the commas
Parts(t) ==
  LET cuts == {0, Len(t) + 1} \cup {k \in DOMAIN t : t[k] = ","}
      from(k) == CHOOSE c \in cuts : Cardinality({d \in cuts : d < c}) = k - 1
  IN  [k \in 1..Cardinality(cuts) - 1 |-> Sub(t, from(k) + 1, from(k + 1) - 1)]

ExactNumbers(p, parts) ==
  LET clean(k) == \A j \in 1..k : InRange(parts[j])
      exact(v, s) == IF v[1] = "double" THEN v[2] = AsDouble(Exact(s)) ELSE v[2] = Exact(s) IN
  IF p.failed THEN \E k \in DOMAIN parts : ~IsNumber(parts[k])
  ELSE \A k \in DOMAIN parts :
         LET v == p.val[2][k] IN
         /\ IsNumber(parts[k])
         /\ IsInt(Unsigned(parts[k])) => exact(v, parts[k])
         /\ IsInt(Unsigned(parts[k])) /\ clean(k) =>
              v[1] \in {"int", "uint"} /\ uint64_value(v) = Exact(parts[k]) % 2^Width

\* parse_number (json11.cpp:593-657) accepts exactly the numbers of JSON, and an
\* integer of 64 bits is kept exactly, as session and site ids need, unless an
\* earlier number of the thread was out of range: errno is never cleared
\* (json11.cpp:620, 629), and from then on every integer is rounded to a double.
\* An integer out of range is never passed off as another integer.
NumbersExact == mode = "number" => ExactNumbers(Parsed, IF text = <<>> THEN <<>> ELSE Parts(text))
=============================================================================
