\* Two gates and two risks, two processes, two contents of each file of evidence.
CONSTANTS
  p1 = p1
  p2 = p2
  m1 = m1
  x1 = x1
  x2 = x2
  g1 = g1
  g2 = g2
  r1 = r1
  r2 = r2
  v1 = v1
  v2 = v2
  MaxRaces = 1
  Procs = {p1, p2}
  Missions = {m1}
  Assignments = {1}
  Agents = {x1, x2}
  Gates = {g1, g2}
  Risks = {r1, r2}
  Orchestrator = orchestrator
  None = none
  MissionOf <- OneAssignment
  OwnerOf <- ItsOwner
  DependsOn <- NoDeps
  PhaseOf <- FirstPhase
  GateMission <- GatesOfM1
  GatePhase <- GatesAtEnd
  Validator <- Validators
  Severity <- Severities
  BlockDeclared = {r2}
  RiskOwner <- Owners
  Versions = {v1, v2}
SPECIFICATION GatesSpec
SYMMETRY Symmetry
PROPERTIES OnlyEditsShutTheStore VerdictsStay
CHECK_DEADLOCK FALSE
