\* A scheduler and one other process, a mission of two phases, a gate, a risk.
CONSTANTS
  p1 = p1
  p2 = p2
  m1 = m1
  x1 = x1
  y1 = y1
  g1 = g1
  r1 = r1
  MaxRaces = 0
  Procs = {p1, p2}
  Schedulers = {p1}
  Missions = {m1}
  Assignments = {1, 2}
  Agents = {x1, y1}
  Gates = {g1}
  Risks = {r1}
  Orchestrator = orchestrator
  None = none
  MissionOf <- ChainMission
  OwnerOf <- ChainOwner
  DependsOn <- ChainDeps
  PhaseOf <- ChainPhase
  GateMission <- GateOfM1
  GatePhase <- GateAtEnd
  Validator <- GateValidator
  Severity <- Critical
  BlockDeclared = {}
  RiskOwner <- ByOperator
  Spares <- OneSpare
  Verdicts = {"VERIFIED"}
  MaxRecoveries = 1
  MaxCommands = 1
  Versions = {1}
SPECIFICATION SchedulerSpec
INVARIANTS HoldStops
PROPERTIES GateAfterWork MissionProceeds
CHECK_DEADLOCK FALSE
