\* Two agents of one mission, the first of which validates in another; an identifier each
\* for their replacements, and two processes, which may give both recoveries the same
\* record.
CONSTANTS
  p1 = p1
  p2 = p2
  m1 = m1
  m2 = m2
  x1 = x1
  x2 = x2
  z1 = z1
  y1 = y1
  y2 = y2
  g1 = g1
  MaxRaces = 0
  Procs = {p1, p2}
  Missions = {m1, m2}
  Assignments = {1, 2}
  Agents = {x1, x2, y1, z1}
  Gates = {g1}
  Risks = {}
  Orchestrator = orchestrator
  None = none
  MissionOf <- WorkOfM1
  OwnerOf <- Owners
  DependsOn <- NoDeps
  PhaseOf <- OnePhase
  GateMission <- GateOfM2
  GatePhase <- NoPhase
  Validator <- ByTheAgent
  Severity <- NoRows
  BlockDeclared = {}
  RiskOwner <- NoRows
  Spares <- SparesOf
  Verdicts = {"VERIFIED"}
  MaxRecoveries = 2
  MaxCommands = 0
SPECIFICATION AgentsSpec
SYMMETRY Symmetry
INVARIANT CompletedRecovery
CHECK_DEADLOCK FALSE
