\* Attempts, work, rollback and commits of two tasks on three paths, a crash, a user.
CONSTANTS
  t1 = t1
  t2 = t2
  t3 = t3
  f = f
  g = g
  u = u
  Tasks = {t1, t2}
  Deps <- ChainDeps
  Rank <- ChainRank
  Verified = {t2}
  Paths = {f, g, u}
  Dirts <- MixedDirts
  Scope <- ScopeFG
  CommitPaths <- AllPaths
  Byproducts = {g}
  UserPaths = {u}
  MaxAttempts = 2
  ResumeAttempts = 2
  OwnAttempts <- OwnT1
  FirstCount <- FirstT2
  CommitMayFail = TRUE
  MaxCrashes = 1
SPECIFICATION Spec
INVARIANTS TypeOK CompletedWasVerified AttemptsBounded EarlierWorkNeverCommitted
PROPERTIES ImplementsMission VerdictIsTrue
