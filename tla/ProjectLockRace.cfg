\* Two acquisitions that interleave.
CONSTANTS
  Drivers = {d1, d2}
  Pids = {p1, p2}
  Stale = 1
  MaxCrashes = 0
SPECIFICATION Spec
INVARIANTS ExclusiveWhileFresh
