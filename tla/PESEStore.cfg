\* Two writers, one of them recovers and the other reads; a crash that leaves nothing torn.
CONSTANTS
  p1 = p1
  p2 = p2
  p3 = p3
  Root = Root
  Dead = Dead
  NoOne = NoOne
  Procs = {p1, p2}
  Updaters = {p1, p2}
  Readers = {p2}
  Recoverers = {p1}
  LivenessCheck = TRUE
  CrashPlaces <- SafePlaces
  MaxRev = 2
  MaxCrashes = 1
SPECIFICATION FairSpec
INVARIANTS TypeOK WriterExclusion AuditIsOfHistory LiveLagsByOne
PROPERTIES ImplementsLog StoreRecovers
