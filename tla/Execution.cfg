\* Two processes, a mission of three assignments in two phases.
CONSTANTS
  p1 = p1
  p2 = p2
  m1 = m1
  x1 = x1
  x2 = x2
  MaxRaces = 1
  Procs = {p1, p2}
  Missions = {m1}
  Assignments = {1, 2, 3}
  Agents = {x1, x2}
  Gates = {}
  Risks = {}
  Orchestrator = orchestrator
  None = none
  MissionOf <- JoinMission
  OwnerOf <- JoinOwner
  DependsOn <- JoinDeps
  PhaseOf <- JoinPhase
  GateMission <- NoRows
  GatePhase <- NoRows
  Validator <- NoRows
  Severity <- NoRows
  BlockDeclared = {}
  RiskOwner <- NoRows
SPECIFICATION ExecutionSpec
SYMMETRY Symmetry
INVARIANTS ExecutionTypeOK WorkOnlyWhileActive NoLostPromotion DependenciesRespected ValidatedWorkIsDone ResultIsOfCompleted
PROPERTY FinalStays
CHECK_DEADLOCK FALSE
