----------------------------- MODULE MCConnPool -----------------------------
(***************************************************************************)
(* Instances of ConnPool for TLC.  Objects and operations are              *)
(* interchangeable: no action or invariant names one.                      *)
(***************************************************************************)
EXTENDS ConnPool, TLC

Symmetry == Permutations(Conns) \cup Permutations(Ops)

\* Bound of the run with two objects: states after the end of the process or
\* of the acceptor are checked and not explored further.  A stopped acceptor
\* can do nothing an idle one could not leave undone.
StillAccepting == Running /\ acc_pc # "stopped"
=============================================================================
