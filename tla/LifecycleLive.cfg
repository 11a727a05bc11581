SPECIFICATION FairSpec
CONSTANTS
  Sessions = {s1, s2}
  LongLived = {s2}
  Daemons = {d1}
  Foreground = TRUE
  Recycling = TRUE
  MaxFaults = 1
  None = None
  s1 = s1
  s2 = s2
  d1 = d1
INVARIANTS
  TypeOK
  StaleSocketOnlyOfKilled
  StopIsDelivered
  NobodyBlocks
PROPERTIES
  EveryCommandReturns
  AskedDaemonExits
  LifeSpec
