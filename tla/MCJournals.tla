----------------------------- MODULE MCJournals ------------------------------
(***************************************************************************)
(* A small instance of Journals for TLC: two threads of one process, which *)
(* uses the key store, and one of another.                                 *)
(***************************************************************************)
EXTENDS Journals, TLC

CONSTANTS t1, t2, t3, pr1, pr2, k1, k2, k3, ev

Symmetry     == Permutations(Keys)
TwoProcesses == t1 :> pr1 @@ t2 :> pr1 @@ t3 :> pr2
=============================================================================
