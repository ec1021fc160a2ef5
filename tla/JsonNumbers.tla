---------------------------- MODULE JsonNumbers ----------------------------
(***************************************************************************)
(* The numbers of json11: parse_number and the functions of the C library  *)
(* it calls.  A text is a sequence of bytes.  Widths are scaled: integers  *)
(* have Width bits, the significand of a double has Precision bits and its *)
(* decimal exponent is at most MaxExponent.  The parser's members i,       *)
(* failed and the thread's errno go through the functions in the record p; *)
(* val is what they return.                                                *)
(***************************************************************************)
EXTENDS Integers, Sequences, FiniteSetsExt

CONSTANTS
  Width,        \* bits of int64_ and uint64_
  Precision,    \* bits of the significand of a double
  MaxExponent   \* largest decimal exponent of a double

ASSUME NumberAssumption ==
  /\ Width \in Nat /\ Width >= 2 /\ Precision \in Nat \ {0}
  /\ MaxExponent \in Nat

Plus  == 43
Minus == 45
Dot   == 46
Zero  == 48
Digits == Zero..Zero + 9
ExponentSigns == {69, 101}

\* str[i], with the NUL behind the end
At(str, i) == IF i < Len(str) THEN str[i + 1] ELSE 0
FirstNotIn(str, i, S) == Min({j \in i..Len(str) : At(str, j) \notin S})

Null == <<"null">>

fail(p) == [p EXCEPT !.failed = TRUE, !.val = Null]
Value(p, v) == [p EXCEPT !.val = v]

-----------------------------------------------------------------------------

\* base^n
Power(base, n) ==
  LET f[k \in 0..n] == IF k = 0 THEN 1 ELSE base * f[k - 1]
  IN  f[n]

\* The value of the digits str[from..to-1]
Number(str, from, to) ==
  LET f[j \in from..to] ==
        IF j = from THEN 0 ELSE 10 * f[j - 1] + (At(str, j - 1) - Zero)
  IN  f[to]

\* A natural number as a double: to the nearest, ties to the even significand
Rounded(n) ==
  LET shift == CHOOSE k \in 0..n :
                 /\ n < Power(2, Precision + k)
                 /\ k = 0 \/ n >= Power(2, Precision + k - 1)
      unit == Power(2, shift)
      low  == (n \div unit) * unit
      rest == 2 * (n - low)
  IN  IF rest < unit \/ (rest = unit /\ (n \div unit) % 2 = 0) THEN low ELSE low + unit

AsDouble(n) == IF n < 0 THEN -Rounded(-n) ELSE Rounded(n)

\* ceil(digits * log10(2)): the number of decimal digits of 2^bits
DecimalDigits(bits) ==
  CHOOSE d \in 0..bits :
    /\ Power(10, d) >= Power(2, bits)
    /\ d = 0 \/ Power(10, d - 1) < Power(2, bits)

\* The length up to which an integer is tried as one (the sign counts)
may_fit_short(negative, length) ==
  length < (IF negative THEN DecimalDigits(Width - 1) + 1 ELSE DecimalDigits(Width))
may_fit(negative, length) ==
  length <= (IF negative THEN DecimalDigits(Width - 1) + 1 ELSE DecimalDigits(Width))

representable(negative, magnitude) ==
  IF negative THEN magnitude <= Power(2, Width - 1) ELSE magnitude < Power(2, Width)

-----------------------------------------------------------------------------

\* strtod from start: a value when the number is an integer, else its text
strtod(str, start, end, p) ==
  LET n == IF At(str, start) = Minus THEN -Number(str, start + 1, end)
           ELSE Number(str, start, end) IN
  IF \A j \in start + 1..end - 1 : At(str, j) \in Digits
  THEN Value(p, <<"double", AsDouble(n)>>)
  ELSE Value(p, <<"text", SubSeq(str, start + 1, end)>>)

\* The decimal part and the exponent, and strtod; an exponent out of range of a
\* number that is not 0 makes it set errno.
number_tail(str, start, p) ==
  LET dot == At(str, p.i) = Dot
      i1 == IF dot THEN FirstNotIn(str, p.i + 1, Digits) ELSE p.i
      exp == At(str, i1) \in ExponentSigns
      i2 == IF exp /\ At(str, i1 + 1) \in {Plus, Minus} THEN i1 + 2 ELSE i1 + 1
      i3 == IF exp THEN FirstNotIn(str, i2, Digits) ELSE i1
      zero == \A j \in start..i1 - 1 : At(str, j) \notin Digits \ {Zero}
      out == exp /\ ~zero /\ Number(str, i2, i3) > MaxExponent
      q == [p EXCEPT !.i = i3, !.erange = @ \/ out] IN
  CASE dot /\ At(str, p.i + 1) \notin Digits -> fail([p EXCEPT !.i = @ + 1])
    [] ~(dot /\ At(str, p.i + 1) \notin Digits) /\ exp /\ At(str, i2) \notin Digits ->
         fail([p EXCEPT !.i = i2])
    [] OTHER -> strtod(str, start, i3, q)

\* atoll and strtoull set errno when the number is out of range, and nothing
\* ever clears it.
parse_number(str, p) ==
  LET start == p.i
      negative == At(str, start) = Minus
      first == IF negative THEN start + 1 ELSE start
      end == IF At(str, first) = Zero THEN first + 1 ELSE FirstNotIn(str, first, Digits)
      magnitude == Number(str, first, end)
      tried == At(str, end) \notin {Dot} \cup ExponentSigns /\ may_fit(negative, end - start)
      q == [p EXCEPT !.i = end, !.erange = @ \/ (tried /\ ~representable(negative, magnitude))] IN
  CASE At(str, first) \notin Digits -> fail([p EXCEPT !.i = first])
    [] At(str, first) = Zero /\ At(str, end) \in Digits -> fail([p EXCEPT !.i = end])
    [] OTHER -> IF tried /\ ~q.erange
                THEN Value(q, IF negative THEN <<"int", -magnitude>> ELSE <<"uint", magnitude>>)
                ELSE number_tail(str, start, q)
=============================================================================
