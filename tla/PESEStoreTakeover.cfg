\* Two recoverers.
CONSTANTS
  p1 = p1
  p2 = p2
  p3 = p3
  Root = Root
  Dead = Dead
  NoOne = NoOne
  Procs = {p1, p2}
  Updaters = {p1, p2}
  Readers = {}
  Recoverers = {p1, p2}
  LivenessCheck = TRUE
  CrashPlaces <- AllPlaces
  MaxRev = 3
  MaxCrashes = 1
SPECIFICATION Spec
PROPERTIES NeverOverwritten
