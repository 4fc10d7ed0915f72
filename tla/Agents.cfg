\* One agent of one mission, two identifiers for replacements, two processes, and a
\* call that is overtaken.
CONSTANTS
  p1 = p1
  p2 = p2
  m1 = m1
  m2 = m2
  x1 = x1
  x2 = x2
  z1 = z1
  y1 = y1
  y2 = y2
  g1 = g1
  MaxRaces = 1
  Procs = {p1, p2}
  Missions = {m1}
  Assignments = {1}
  Agents = {x1, y1, y2}
  Gates = {}
  Risks = {}
  Orchestrator = orchestrator
  None = none
  MissionOf <- WorkOfM1
  OwnerOf <- Owners
  DependsOn <- NoDeps
  PhaseOf <- OnePhase
  GateMission <- GateOfM2
  GatePhase <- NoPhase
  Validator <- ByTheAgent
  Severity <- NoRows
  BlockDeclared = {}
  RiskOwner <- NoRows
  Spares <- SparesOf
  Verdicts = {"VERIFIED"}
  MaxRecoveries = 2
  MaxCommands = 1
SPECIFICATION AgentsSpec
SYMMETRY SpareSymmetry
INVARIANTS CompletedRecovery ReplacedOnce
PROPERTY OutOfService
CHECK_DEADLOCK FALSE
