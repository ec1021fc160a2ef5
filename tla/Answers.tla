------------------------------ MODULE Answers ------------------------------
(***************************************************************************)
(* What a front connection promises to its client, without the stream, the *)
(* buffers and the handlers: the requests are replied to one after the     *)
(* other, none is passed over and none has two replies, and the reply that *)
(* refuses a request is the last one.                                      *)
(***************************************************************************)
EXTENDS Integers, Sequences

CONSTANTS
  Kinds,     \* kinds of requests
  Served,    \* the kinds after which a connection goes on
  Lengths    \* the lengths a reply can have, for each kind

VARIABLES asked, due, open

vars == <<asked, due, open>>

Units(i, n) == [k \in 1..n |-> [req |-> i, pos |-> k]]

\* The request that was replied to last
Replied == IF due = <<>> THEN 0 ELSE due[Len(due)].req

Init == asked = <<>> /\ due = <<>> /\ open = TRUE

Ask ==
  /\ \E kind \in Kinds : asked' = Append(asked, kind)
  /\ UNCHANGED <<due, open>>

Reply ==
  /\ open /\ Replied < Len(asked)
  /\ LET next == Replied + 1 IN
     /\ \E n \in Lengths[asked[next]] : due' = due \o Units(next, n)
     /\ open' = (asked[next] \in Served)
  /\ UNCHANGED asked

Close ==
  /\ open
  /\ open' = FALSE
  /\ UNCHANGED <<asked, due>>

Next == Ask \/ Reply \/ Close

Spec == Init /\ [][Next]_vars
=============================================================================
