----------------------------- MODULE MCTransport -----------------------------
(***************************************************************************)
(* A small instance of Transport for TLC: two threads of one process, one  *)
(* of another, two keys, a channel and an envelope.                        *)
(***************************************************************************)
EXTENDS Transport, TLC

CONSTANTS t1, t2, t3, pr1, pr2, k1, k2, ev, c1, e1

Symmetry     == Permutations(Keys)
TwoProcesses == t1 :> pr1 @@ t2 :> pr1 @@ t3 :> pr2
=============================================================================
