SPECIFICATION Spec
CONSTANTS
  a1 = a1
  a2 = a2
  b = b
  NoLease = NoLease
  NoClient = NoClient
  Idle = Idle
  Client <- MCClient
  Owner <- MCOwner
  OwnerOf <- MCOwnerOf
  Scope <- MCOneScope
  ScopeOf <- MCOneLock
  Resource = {"file"}
  TTL = 1
  MaxClock = 2
  MaxToken = 3
INVARIANTS
  TypeOK
  TokensUnique
PROPERTIES
  StaleNeverCommits
  LiveLeaseIsKept
  ImplementsFencedLease
