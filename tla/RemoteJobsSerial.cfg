SPECIFICATION FairSpec
CONSTANTS
  a = a
  client1 = client1
  client2 = client2
  agent1 = agent1
  Nobody = Nobody
  Job <- MCJob
  Client <- MCClient
  Agent <- MCAgent
  MaxRequeues = 1
  MaxCrashes = 1
INVARIANT RemoteInvariant
PROPERTIES RevokedStartsNothing ImplementsAtMostOnce EveryJobEnds
CHECK_DEADLOCK FALSE
