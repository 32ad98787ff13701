SPECIFICATION FairSpec
CONSTANTS
  x = x
  y = y
  v = v
  p = p
  q = q
  NoOp = NoOp
  NoProcess = NoProcess
  NoCall = NoCall
  Op <- MCMixed
  Process <- MCOneProcess
  Scope <- MCOneScope
  ScopeOf <- MCOneLock
  Machine <- MCMachine
  MachineOf <- MCMachineOf
  Observation <- MCObservation
  Cleanup <- MCCleanup
  Outcome = {"SUCCEEDED"}
  Request = {}
  RunRequest = {}
  ReleaseOnTerminal = TRUE
INVARIANT OneInFlight
PROPERTY SubmitEnds
