\* Two drivers, a spare process id that a foreign process may take, two crashes.
CONSTANTS
  Drivers = {d1, d2}
  Pids = {p1, p2, p3}
  Stale = 1
  MaxCrashes = 2
SPECIFICATION FairSpec
INVARIANTS TypeOK QuietExclusion StatusSeesDriver
PROPERTIES ProjectIsNeverWedged
