\* A task that changes nothing while the user works in the tree.
CONSTANTS
  t1 = t1
  t2 = t2
  t3 = t3
  f = f
  g = g
  u = u
  Tasks = {t1, t2}
  Deps <- ChainDeps
  Rank <- ChainRank
  Verified = {t2}
  Paths = {f, g, u}
  Dirts <- MixedDirts
  Scope <- ScopeFG
  CommitPaths <- AllPaths
  Byproducts = {g}
  UserPaths = {u}
  MaxAttempts = 2
  ResumeAttempts = 2
  OwnAttempts <- NoOwn
  FirstCount <- ZeroFirst
  CommitMayFail = FALSE
  MaxCrashes = 0
SPECIFICATION Spec
INVARIANTS UserWorkNeverCommitted
