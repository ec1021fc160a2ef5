----------------------------- MODULE Admission -----------------------------
(***************************************************************************)
(* What the pool of front connections promises, without its threads,       *)
(* mutexes and handlers: the objects that serve a client and the spare     *)
(* ones.  One step moves one object.  A client is admitted below the       *)
(* limit, on a spare object when there is one; a retired object becomes a  *)
(* spare one while there are few.  An acceptor that has failed admits      *)
(* nobody any more, and after the end of the process nothing moves.        *)
(***************************************************************************)
EXTENDS Integers, FiniteSets

CONSTANTS Conns, MaxConns, CacheLimit

VARIABLES served, spare, accepting, up

vars == <<served, spare, accepting, up>>

Init ==
  /\ served = {} /\ spare = {}
  /\ accepting = TRUE /\ up = TRUE

Admit(c) ==
  /\ up /\ accepting
  /\ Cardinality(served) < MaxConns
  /\ c \in spare \/ (spare = {} /\ c \notin served)
  /\ served' = served \cup {c}
  /\ spare' = spare \ {c}
  /\ UNCHANGED <<accepting, up>>

\* The process may end in the step that retires (an assert on the object).
Retire(c) ==
  /\ up /\ c \in served
  /\ served' = served \ {c}
  /\ spare' = IF Cardinality(spare) < CacheLimit THEN spare \cup {c} ELSE spare
  /\ up' \in BOOLEAN
  /\ UNCHANGED accepting

StopAccepting ==
  /\ up /\ accepting
  /\ accepting' = FALSE
  /\ UNCHANGED <<served, spare, up>>

End ==
  /\ up
  /\ up' = FALSE
  /\ UNCHANGED <<served, spare, accepting>>

Next == (\E c \in Conns : Admit(c) \/ Retire(c)) \/ StopAccepting \/ End

Spec == Init /\ [][Next]_vars
=============================================================================
