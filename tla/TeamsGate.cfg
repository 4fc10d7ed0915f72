\* The same registry and contracts.
CONSTANTS
  Contracts <- AllContracts
  Types <- AllTypes
  Competent <- Skills
  Writable <- Rights
  Merit <- NoMerit
  Versed <- AllTypes
  DutyGates <- Duties
  Reviewing = {2, 4, 7}
  Capacity <- Two
  Resource <- Database
  Trade <- Trades
  Compatible <- Readable
  Overlaps <- Nested
  GateOrder <- Gates
  GateDefault <- Defaults
  Auditor = 8
  Compliance = 1
  Writer = 10
  TeamLead = 9
  DepartmentLead = 3
SPECIFICATION Spec
INVARIANT GatesAfterReviews
CHECK_DEADLOCK FALSE
