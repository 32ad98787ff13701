SPECIFICATION Spec
CONSTANTS
  a = a
  b = b
  c = c
  d = d
  Free = Free
  Elsewhere = Elsewhere
  Task <- MCFour
  Deps <- MCAfterB
  Scope <- MCOutside
  Targets <- MCNoTargets
  Locks <- MCLocksX
  File <- MCFile
  NamedLock <- MCNone
  Rank <- MCRank
  Foreign <- MCFile
  Capable <- MCThree
  MaxWorkers = 2
  MaxRounds = 4
  MaxRetries = 1
  MaxRepair = 1
  MaxValidation = 1
  NoProgressLimit = 2
  Operators = FALSE
  UpsertMayFail = FALSE
  MaxCrashes = 2
INVARIANTS
  DependenciesFirst
PROPERTIES
  CompletedNeverReruns
  NoReplay
