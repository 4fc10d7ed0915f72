\* Three threads of two processes seal and open; one of them handles keys.
CONSTANTS
  t1 = t1
  t2 = t2
  t3 = t3
  pr1 = pr1
  pr2 = pr2
  k1 = k1
  k2 = k2
  ev = ev
  c1 = c1
  e1 = e1
  Threads = {t1, t2, t3}
  ProcessOf <- TwoProcesses
  KeyWriters = {t1}
  Carriers = {t1, t2, t3}
  EventWriters = {}
  Keys = {k1, k2}
  Events = {ev}
  Channels = {c1}
  Envelopes = {e1}
  None = none
  MaxSignatures = 0
  MaxEvents = 1
  MaxCrashes = 0
  MaxFailures = 1
SPECIFICATION TransportSpec
SYMMETRY Symmetry
INVARIANTS RetiredIsSilent OpenedOnce
CHECK_DEADLOCK FALSE
