------------------------------- MODULE MCGates -------------------------------
(***************************************************************************)
(* A small instance of Gates for TLC: two gates and two risks of a mission *)
(* that nobody executes, and two processes.                                *)
(***************************************************************************)
EXTENDS Gates, TLC

CONSTANTS p1, p2, m1, x1, x2, g1, g2, r1, r2, v1, v2

OneAssignment == <<m1>>
ItsOwner      == <<x1>>
NoDeps        == <<{}>>
FirstPhase    == <<1>>
GatesOfM1     == [g \in Gates |-> m1]
GatesAtEnd    == [g \in Gates |-> 0]
Validators    == g1 :> x1 @@ g2 :> x2
Severities    == r1 :> "CRITICAL" @@ r2 :> "HIGH"
Owners        == r1 :> Orchestrator @@ r2 :> x2
Symmetry      == Permutations(Procs) \cup Permutations(Versions)
=============================================================================
