\* Scheduling, attempts and restarts of three tasks; the tree stays clean.
CONSTANTS
  t1 = t1
  t2 = t2
  t3 = t3
  f = f
  g = g
  u = u
  Tasks = {t1, t2, t3}
  Deps <- TreeDeps
  Rank <- TreeRank
  Verified = {t1, t2}
  Paths = {}
  Dirts <- NoDirts
  Scope <- NoScope
  CommitPaths <- AllPaths
  Byproducts = {}
  UserPaths = {}
  MaxAttempts = 2
  ResumeAttempts = 3
  OwnAttempts <- OwnT2T3
  FirstCount <- FirstT2
  CommitMayFail = FALSE
  MaxCrashes = 2
SPECIFICATION Spec
INVARIANTS TypeOK CompletedWasVerified AttemptsBounded
PROPERTIES ImplementsMission VerdictIsTrue
