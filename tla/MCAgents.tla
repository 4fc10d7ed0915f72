------------------------------ MODULE MCAgents ------------------------------
(***************************************************************************)
(* Small instances of Agents for TLC, with two processes: one agent of a   *)
(* mission and two identifiers for its replacements, or two agents with    *)
(* one identifier each, where a second mission binds the first agent once  *)
(* more, as the validator of its gate.                                     *)
(***************************************************************************)
EXTENDS Agents, TLC

CONSTANTS p1, p2, m1, m2, x1, x2, y1, y2, z1, g1

WorkOfM1   == [a \in Assignments |-> m1]
Owners     == [a \in Assignments |-> IF a = 1 THEN x1 ELSE x2]
NoDeps     == [a \in Assignments |-> {}]
OnePhase   == [a \in Assignments |-> 1]
GateOfM2   == [g \in Gates |-> m2]
NoPhase    == [g \in Gates |-> 0]
ByTheAgent == [g \in Gates |-> x1]
Names(x)   == IF x = x1 THEN {y1, y2} ELSE IF x = x2 THEN {z1} ELSE {}
SparesOf   == [x \in Agents |-> Names(x) \cap Agents]
NoRows     == [r \in {} |-> 0]
Symmetry   == Permutations(Procs)
\* The two identifiers are spares of the same agent, and nothing else tells them apart.
SpareSymmetry == {p @@ y : p \in Permutations(Procs), y \in Permutations({y1, y2})}
=============================================================================
