SPECIFICATION FairSpec
CONSTANTS
  a = a
  b = b
  c = c
  d = d
  Free = Free
  Elsewhere = Elsewhere
  Task <- MCThree
  Deps <- MCDiamond
  Scope <- MCIsolated
  Targets <- MCNoTargets
  Locks <- MCNoLocks
  File <- MCFile
  NamedLock <- MCNone
  Rank <- MCRank
  Foreign <- MCNone
  Capable <- MCThree
  MaxWorkers = 2
  MaxRounds = 3
  MaxRetries = 0
  MaxRepair = 0
  MaxValidation = 1
  NoProgressLimit = 2
  Operators = TRUE
  UpsertMayFail = FALSE
  MaxCrashes = 0
PROPERTIES
  CancelHolds
  RunEnds
