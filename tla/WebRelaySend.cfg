SPECIFICATION FairSpec
CONSTANTS
  a = a
  b = b
  tab1 = tab1
  tab2 = tab2
  Nobody = Nobody
  Job <- MCOneJob
  Tab <- MCTab
  Chat <- MCChat
  MaxRequeues = 1
  MaxRestarts = 1
  Unfenced <- MCNone
  Reload = FALSE
PROPERTIES ImplementsAtMostOnce EveryJobEnds EveryTabIsFreed
CHECK_DEADLOCK FALSE
