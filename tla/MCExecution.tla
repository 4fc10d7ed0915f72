---------------------------- MODULE MCExecution ----------------------------
(***************************************************************************)
(* A small instance of Execution for TLC, with two processes.              *)
(***************************************************************************)
EXTENDS Execution, TLC

CONSTANTS p1, p2, m1, x1, x2

\* One mission: 1 and 2 are roots, 3 depends on both in a later phase.
JoinMission == [a \in 1..3 |-> m1]
JoinOwner   == 1 :> x1 @@ 2 :> x2 @@ 3 :> x2
JoinDeps    == 1 :> {} @@ 2 :> {} @@ 3 :> {1, 2}
JoinPhase   == 1 :> 1 @@ 2 :> 1 @@ 3 :> 2

NoRows   == [g \in {} |-> 0]
Symmetry == Permutations(Procs)
=============================================================================
