------------------------------- MODULE Json11 -------------------------------
(***************************************************************************)
(* json11: Json::parse with the standard strategy, Json::dump, and the     *)
(* accessors the server uses on what it parsed.                            *)
(*                                                                         *)
(* Numbers are those of JsonNumbers, and so are texts and the record p     *)
(* that goes through the functions, which has one more field here: ch, the *)
(* character of get_next_token.  The four hex digits behind \u are one     *)
(* element of a text, Hex(n).                                              *)
(***************************************************************************)
EXTENDS JsonNumbers, TLC

CONSTANTS
  max_depth     \* 200 in the code

ASSUME JsonAssumption == max_depth \in Nat

Byte ==
  ("{" :> 123) @@ ("}" :> 125) @@ ("[" :> 91) @@ ("]" :> 93) @@ ("," :> 44)
  @@ (":" :> 58) @@ (" " :> 32) @@ ("\"" :> 34) @@ ("\\" :> 92) @@ ("/" :> 47)
  @@ ("-" :> Minus) @@ ("." :> Dot)
  @@ ("a" :> 97) @@ ("b" :> 98) @@ ("e" :> 101) @@ ("f" :> 102)
  @@ ("l" :> 108) @@ ("n" :> 110) @@ ("r" :> 114) @@ ("s" :> 115) @@ ("t" :> 116)
  @@ ("u" :> 117)

HexBase == 1000000
Hex(n) == HexBase + n

-----------------------------------------------------------------------------
(***************************************************************************)
(* Values: a tag and the content                                           *)
(***************************************************************************)

EmptyObject == [k \in {} |-> Null]

\* static_cast of a value to uint64_: an int64_ wraps.  A double is cut off; one
\* that does not fit has no defined result and is left to the caller.
uint64_value(v) ==
  IF v[1] \in {"uint", "int"} THEN v[2] % 2^Width
  ELSE IF v[1] = "double" THEN v[2]
  ELSE 0

-----------------------------------------------------------------------------
(***************************************************************************)
(* The parser                                                              *)
(***************************************************************************)

consume_garbage(str, p) == [p EXCEPT !.i = FirstNotIn(str, @, {9, 10, 13, 32})]

get_next_token(str, p) ==
  LET q == consume_garbage(str, p) IN
  IF q.i = Len(str)
  THEN [fail(q) EXCEPT !.ch = 0]
  ELSE [q EXCEPT !.ch = At(str, q.i), !.i = @ + 1]

encode_utf8(pt) ==
  LET cont(shift) == 128 + ((pt \div 2^shift) % 64) IN
  CASE pt < 0 -> <<>>
    [] pt \in 0..127 -> <<pt>>
    [] pt \in 128..2047 -> <<192 + pt \div 64, cont(0)>>
    [] pt \in 2048..65535 -> <<224 + pt \div 4096, cont(6), cont(0)>>
    [] pt > 65535 -> <<240 + pt \div 262144, cont(12), cont(6), cont(0)>>

HighSurrogate == 55296..56319
LowSurrogate  == 56320..57343

\* What a simple escape stands for
Escapes ==
  (Byte["b"] :> 8) @@ (Byte["f"] :> 12) @@ (Byte["n"] :> 10) @@ (Byte["r"] :> 13)
  @@ (Byte["t"] :> 9) @@ (Byte["\""] :> 34) @@ (Byte["\\"] :> 92) @@ (Byte["/"] :> 47)

\* Every lead surrogate is held back, a trailing one is not looked for.
joins_never(last, codepoint) == FALSE
\* The previous escape was a lead surrogate and this one is a trail surrogate.
joins(last, codepoint) == last \in HighSurrogate /\ codepoint \in LowSurrogate

\* parse_string behind its opening quote; out and last_escaped_codepoint are
\* the loop's variables.
RECURSIVE string_loop(_, _, _, _)
string_loop(str, p, out, last) ==
  LET ch == At(str, p.i)
      next == At(str, p.i + 1)
      step(n, more, held) == string_loop(str, [p EXCEPT !.i = @ + n], out \o more, held)
      stop(n) == [p EXCEPT !.i = @ + n, !.failed = TRUE, !.val = <<"string", <<>>>>] IN
  CASE p.i = Len(str) -> stop(0)
    [] p.i < Len(str) /\ ch = Byte["\""] ->
         [p EXCEPT !.i = @ + 1, !.val = <<"string", out \o encode_utf8(last)>>]
    [] p.i < Len(str) /\ ch \in 0..31 -> stop(1)
    [] ch > 31 /\ ch \notin {Byte["\""], Byte["\\"]} ->
         step(1, encode_utf8(last) \o <<ch>>, -1)
    [] ch = Byte["\\"] ->
         CASE p.i + 1 = Len(str) -> stop(1)
           [] p.i + 1 < Len(str) /\ next = Byte["u"] ->
                LET codepoint == At(str, p.i + 2) - HexBase IN
                IF codepoint < 0 THEN stop(2)
                ELSE IF joins(last, codepoint)
                THEN step(3, encode_utf8((last - 55296) * 1024 + (codepoint - 56320) + 65536), -1)
                ELSE step(3, encode_utf8(last), codepoint)
           [] next \in DOMAIN Escapes -> step(2, encode_utf8(last) \o <<Escapes[next]>>, -1)
           [] OTHER -> stop(2)

parse_string(str, p) == string_loop(str, p, <<>>, -1)

\* expect: i stands behind the first character of the word
expect(str, p, word, res) ==
  IF SubSeq(str, p.i, p.i + Len(word) - 1) = word
  THEN Value([p EXCEPT !.i = @ + Len(word) - 1], res)
  ELSE fail([p EXCEPT !.i = @ - 1])

True  == <<Byte["t"], Byte["r"], Byte["u"], Byte["e"]>>
False == <<Byte["f"], Byte["a"], Byte["l"], Byte["s"], Byte["e"]>>
NullWord == <<Byte["n"], Byte["u"], Byte["l"], Byte["l"]>>

\* data[key] = value
stored(data, key, v) == (key :> v) @@ data

RECURSIVE parse_json(_, _, _), object_loop(_, _, _, _), array_loop(_, _, _, _)

\* The loop of an object behind a value, behind a colon and behind a key
object_next(str, last, depth, data) ==
  CASE last.ch = Byte["}"] -> Value(last, <<"object", data>>)
    [] last.ch = Byte[","] -> object_loop(str, get_next_token(str, last), depth, data)
    [] OTHER -> fail(last)

object_value(str, value, depth, data, key) ==
  IF value.failed THEN fail(value)
  ELSE object_next(str, get_next_token(str, value), depth, stored(data, key, value.val))

object_colon(str, colon, depth, data, key) ==
  IF colon.ch # Byte[":"] THEN fail(colon)
  ELSE object_value(str, parse_json(str, colon, depth + 1), depth, data, key)

object_key(str, key, depth, data) ==
  IF key.failed THEN fail(key)
  ELSE object_colon(str, get_next_token(str, key), depth, data, key.val[2])

\* while (1) of an object; p.ch is the token in front
object_loop(str, p, depth, data) ==
  IF p.ch # Byte["\""] THEN fail(p)
  ELSE object_key(str, parse_string(str, p), depth, data)

\* The loop of an array behind a comma or a bracket, and behind a value
array_next(str, last, depth, data) ==
  CASE last.ch = Byte["]"] -> Value(last, <<"array", data>>)
    [] last.ch = Byte[","] -> array_loop(str, get_next_token(str, last), depth, data)
    [] OTHER -> fail(last)

array_value(str, value, depth, data) ==
  IF value.failed THEN fail(value)
  ELSE array_next(str, get_next_token(str, value), depth, Append(data, value.val))

\* while (1) of an array; the token in front has been read and is given back
array_loop(str, p, depth, data) ==
  array_value(str, parse_json(str, [p EXCEPT !.i = @ - 1], depth + 1), depth, data)

too_deep_off_by_one(depth) == depth >= max_depth
too_deep(depth) == depth > max_depth

parse_object(str, p, depth) ==
  IF p.ch = Byte["}"] THEN Value(p, <<"object", EmptyObject>>)
  ELSE object_loop(str, p, depth, EmptyObject)

parse_array(str, p, depth) ==
  IF p.ch = Byte["]"] THEN Value(p, <<"array", <<>>>>) ELSE array_loop(str, p, depth, <<>>)

\* The value that begins with the token q.ch
parse_value(str, q, depth) ==
  CASE q.failed -> fail(q)
    [] ~q.failed /\ q.ch \in Digits \cup {Minus} ->
         parse_number(str, [q EXCEPT !.i = @ - 1])
    [] q.ch = Byte["t"] -> expect(str, q, True, <<"bool", TRUE>>)
    [] q.ch = Byte["f"] -> expect(str, q, False, <<"bool", FALSE>>)
    [] q.ch = Byte["n"] -> expect(str, q, NullWord, Null)
    [] q.ch = Byte["\""] -> parse_string(str, q)
    [] q.ch = Byte["{"] -> parse_object(str, get_next_token(str, q), depth)
    [] q.ch = Byte["["] -> parse_array(str, get_next_token(str, q), depth)
    [] OTHER -> fail(q)

parse_json(str, p, depth) ==
  IF too_deep(depth) THEN fail(p) ELSE parse_value(str, get_next_token(str, p), depth)

\* Json::parse on a thread whose errno is ERANGE or not.  failed stands for a
\* non-empty err.
parse(str, erange) ==
  LET p == consume_garbage(str,
             parse_json(str, [i |-> 0, failed |-> FALSE, erange |-> erange,
                              ch |-> 0, val |-> Null], 0)) IN
  IF p.i # Len(str) THEN fail(p) ELSE p

-----------------------------------------------------------------------------
(***************************************************************************)
(* dump                                                                    *)
(***************************************************************************)

\* Quotes are written as they are.
Escaped_no_quote == {8, 9, 10, 12, 13, 92}
\* The bytes dump writes as simple escapes
Escaped == {8, 9, 10, 12, 13, 34, 92}
\* The letter of the simple escape of a byte
EscapeLetter(b) == CHOOSE l \in DOMAIN Escapes : Escapes[l] = b

RECURSIVE dump_bytes(_)
dump_bytes(s) ==
  IF s = <<>> THEN <<>>
  ELSE LET b == Head(s)
           line_end == Len(s) >= 3 /\ b = 226 /\ s[2] = 128 /\ s[3] \in {168, 169}
           this == CASE b \in Escaped -> <<Byte["\\"], EscapeLetter(b)>>
                     [] b <= 31 /\ b \notin Escaped -> <<Byte["\\"], Byte["u"], Hex(b)>>
                     [] b > 31 /\ line_end -> <<Byte["\\"], Byte["u"], Hex(8064 + s[3])>>
                     [] OTHER -> <<b>>
       IN  this \o dump_bytes(IF line_end THEN SubSeq(s, 4, Len(s)) ELSE Tail(s))

dump_string(s) == <<Byte["\""]>> \o dump_bytes(s) \o <<Byte["\""]>>

Separator == <<Byte[","], Byte[" "]>>

RECURSIVE dump(_), dump_items(_), dump_members(_)
dump_items(s) ==
  dump(Head(s)) \o (IF Len(s) = 1 THEN <<>> ELSE Separator \o dump_items(Tail(s)))

\* The members of a map, smallest key first; here keys have one byte
dump_members(data) ==
  LET key == CHOOSE k \in DOMAIN data : \A l \in DOMAIN data : k[1] <= l[1]
      rest == [k \in DOMAIN data \ {key} |-> data[k]] IN
  dump_string(key) \o <<Byte[":"], Byte[" "]>> \o dump(data[key])
  \o (IF DOMAIN rest = {} THEN <<>> ELSE Separator \o dump_members(rest))

\* Numbers are left out: they are dumped by std::to_string and snprintf.
dump(v) ==
  CASE v[1] = "null" -> NullWord
    [] v[1] = "bool" -> IF v[2] THEN True ELSE False
    [] v[1] = "string" -> dump_string(v[2])
    [] v[1] = "array" ->
         <<Byte["["]>> \o (IF v[2] = <<>> THEN <<>> ELSE dump_items(v[2])) \o <<Byte["]"]>>
    [] v[1] = "object" ->
         <<Byte["{"]>> \o (IF DOMAIN v[2] = {} THEN <<>> ELSE dump_members(v[2])) \o <<Byte["}"]>>
=============================================================================
