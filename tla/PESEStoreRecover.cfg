\* A writer that crashes where it leaves nothing torn, and a recoverer that knows it is dead.
CONSTANTS
  p1 = p1
  p2 = p2
  p3 = p3
  Root = Root
  Dead = Dead
  NoOne = NoOne
  Procs = {p1, p2}
  Updaters = {p2}
  Readers = {}
  Recoverers = {p1}
  LivenessCheck = TRUE
  CrashPlaces <- SafePlaces
  MaxRev = 3
  MaxCrashes = 2
SPECIFICATION FairSpec
INVARIANTS LiveLagsByOne
PROPERTIES StoreRecovers
