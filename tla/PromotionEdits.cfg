SPECIFICATION FairSpec
CONSTANTS
  r1 = r1
  r2 = r2
  f1 = f1
  f2 = f2
  f3 = f3
  Other = Other
  NoOne = NoOne
  Run <- MCRun
  File <- MCFile
  Touched <- MCTouched
  MaxEdits = 2
  MaxAttempts <- MCMaxAttempts
  MaxCrashes = 1
  MaxFaults = 1
  MaxTokens = 2
INVARIANTS PromotionInvariant AllOrNothing EditsSurvive
PROPERTY EveryPromotionEnds
CHECK_DEADLOCK FALSE
