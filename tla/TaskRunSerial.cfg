SPECIFICATION Spec
CONSTANTS
  a = a
  b = b
  c = c
  d = d
  Free = Free
  Elsewhere = Elsewhere
  Task <- MCThree
  Deps <- MCDiamond
  Scope <- MCWriters
  Targets <- MCWritesX
  Locks <- MCNoLocks
  File <- MCFile
  NamedLock <- MCNone
  Rank <- MCRank
  Foreign <- MCNone
  Capable <- MCThree
  MaxWorkers = 2
  MaxRounds = 4
  MaxRetries = 1
  MaxRepair = 1
  MaxValidation = 1
  NoProgressLimit = 2
  Operators = FALSE
  UpsertMayFail = TRUE
  MaxCrashes = 0
INVARIANTS
  Exclusion
  QueueInvariant
  EveryTaskEnds
  PackagesAreCompleted
PROPERTIES
  Isolation
