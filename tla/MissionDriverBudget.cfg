\* An interrupted attempt that had written two records.
CONSTANTS
  t1 = t1
  t2 = t2
  t3 = t3
  f = f
  g = g
  u = u
  Tasks = {t1, t2, t3}
  Deps <- TreeDeps
  Rank <- TreeRank
  Verified = {t1, t2}
  Paths = {}
  Dirts <- NoDirts
  Scope <- NoScope
  CommitPaths <- AllPaths
  Byproducts = {}
  UserPaths = {}
  MaxAttempts = 2
  ResumeAttempts = 2
  OwnAttempts <- NoOwn
  FirstCount <- ZeroFirst
  CommitMayFail = FALSE
  MaxCrashes = 1
SPECIFICATION Spec
PROPERTIES BudgetLeftIsKept
