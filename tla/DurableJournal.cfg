SPECIFICATION FairSpec
CONSTANTS
  e1 = e1
  e2 = e2
  e3 = e3
  p1 = p1
  p2 = p2
  Checkpoint = Checkpoint
  Nothing = Nothing
  Call <- MCCall
  Proc <- MCProc
  Wants <- MCWants
  Guarded <- MCGuarded
  MaxCrashes = 2
  MaxFaults = 2
INVARIANTS JournalInvariant AnswersAreTrue LastLineIsTheEvent
PROPERTY EveryCallEnds
CHECK_DEADLOCK FALSE
