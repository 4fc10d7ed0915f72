\* Executors that only edit and create files, a commit scope that t2 may exceed,
\* restarts after crashes, rejected commits and dirty trees.
CONSTANTS
  t1 = t1
  t2 = t2
  t3 = t3
  f = f
  g = g
  u = u
  Tasks = {t1, t2}
  Deps <- ChainDeps
  Rank <- ChainRank
  Verified = {t1}
  Paths = {f, g}
  Dirts <- EditDirts
  Scope <- ScopeFG
  CommitPaths <- CommitF
  Byproducts = {}
  UserPaths = {}
  MaxAttempts = 2
  ResumeAttempts = 2
  OwnAttempts <- NoOwn
  FirstCount <- ZeroFirst
  CommitMayFail = FALSE
  MaxCrashes = 1
SPECIFICATION FairSpec
INVARIANTS OnlyOwnWorkCommitted WorkIsCommitted
PROPERTIES MissionSettles
