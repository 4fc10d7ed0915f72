\* Two threads share a key store, and all of three an event journal.
CONSTANTS
  t1 = t1
  t2 = t2
  t3 = t3
  pr1 = pr1
  pr2 = pr2
  k1 = k1
  k2 = k2
  k3 = k3
  ev = ev
  Threads = {t1, t2, t3}
  ProcessOf <- TwoProcesses
  KeyWriters = {t1, t2}
  EventWriters = {t1, t3}
  Keys = {k1, k2, k3}
  Events = {ev}
  None = none
  MaxSignatures = 2
  MaxEvents = 2
  MaxCrashes = 2
SPECIFICATION JournalsSpec
SYMMETRY Symmetry
INVARIANT ChainsStay
PROPERTY RetiredKeysRest
CHECK_DEADLOCK FALSE
