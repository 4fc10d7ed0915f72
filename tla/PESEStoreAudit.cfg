\* A crash between publication and its audit entry, then a recovery.
CONSTANTS
  p1 = p1
  p2 = p2
  p3 = p3
  Root = Root
  Dead = Dead
  NoOne = NoOne
  Procs = {p1, p2}
  Updaters = {p2}
  Readers = {}
  Recoverers = {p1}
  LivenessCheck = TRUE
  CrashPlaces <- AllPlaces
  MaxRev = 3
  MaxCrashes = 1
SPECIFICATION Spec
INVARIANTS CommittedIsAudited
