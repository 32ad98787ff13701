SPECIFICATION Spec
CONSTANTS
  a = a
  b = b
  tab1 = tab1
  tab2 = tab2
  Nobody = Nobody
  Job <- MCOneJob
  Tab <- MCTab
  Chat <- MCChat
  MaxRequeues = 1
  MaxRestarts = 1
  Unfenced <- MCOneJob
  Reload = FALSE
INVARIANT SafeToRetry
CHECK_DEADLOCK FALSE
