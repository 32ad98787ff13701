SPECIFICATION Spec
CONSTANTS
  a = a
  b = b
  tab1 = tab1
  tab2 = tab2
  Nobody = Nobody
  Job <- MCJob
  Tab <- MCTab
  Chat <- MCChat
  MaxRequeues = 0
  MaxRestarts = 0
  Unfenced <- MCNone
  Reload = TRUE
SYMMETRY MCSymmetry
INVARIANT RelayInvariant
PROPERTY ReceiptsAreFinal
CHECK_DEADLOCK FALSE
