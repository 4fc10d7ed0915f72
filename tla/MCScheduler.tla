----------------------------- MODULE MCScheduler -----------------------------
(***************************************************************************)
(* A small instance of Scheduler for TLC: a mission of two assignments in  *)
(* two phases with one gate, one agent with one replacement, and a risk;   *)
(* a scheduler and one other process.                                      *)
(***************************************************************************)
EXTENDS Scheduler, TLC

CONSTANTS p1, p2, m1, x1, y1, g1, r1

ChainMission == [a \in Assignments |-> m1]
ChainOwner   == [a \in Assignments |-> x1]
ChainDeps    == [a \in Assignments |-> {b \in Assignments : b = a - 1}]
ChainPhase   == [a \in Assignments |-> a]
GateOfM1     == g1 :> m1
GateAtEnd    == g1 :> 0
GateValidator == g1 :> x1
Critical     == r1 :> "CRITICAL"
ByOperator   == r1 :> Orchestrator
OneSpare     == [x \in Agents |-> IF x = x1 THEN {y1} ELSE {}]
=============================================================================
