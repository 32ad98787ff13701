SPECIFICATION Spec
CONSTANTS
  x = x
  y = y
  v = v
  p = p
  q = q
  NoOp = NoOp
  NoProcess = NoProcess
  NoCall = NoCall
  Op <- MCEffects
  Process <- MCOneProcess
  Scope <- MCOneScope
  ScopeOf <- MCOneLock
  Machine <- MCMachine
  MachineOf <- MCMachineOf
  Observation <- MCNone
  Cleanup <- MCCleanup
  Outcome = {"SUCCEEDED", "UNCERTAIN"}
  Request = {"CANCEL_REQUESTED", "FAILED"}
  RunRequest = {"CANCELLED"}
  ReleaseOnTerminal = TRUE
INVARIANTS
  TypeOK
  Quarantine
  AtMostOnce
  AnswerIsDurable
PROPERTIES
  TerminalIsFinal
  ImplementsExclusiveEffect
