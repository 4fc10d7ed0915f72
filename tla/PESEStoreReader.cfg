\* A reader beside a writer, no crash.
CONSTANTS
  p1 = p1
  p2 = p2
  p3 = p3
  Root = Root
  Dead = Dead
  NoOne = NoOne
  Procs = {p1, p2}
  Updaters = {p1}
  Readers = {p2}
  Recoverers = {}
  LivenessCheck = TRUE
  CrashPlaces <- AllPlaces
  MaxRev = 3
  MaxCrashes = 0
SPECIFICATION Spec
INVARIANTS ReadersSeeRevisions
