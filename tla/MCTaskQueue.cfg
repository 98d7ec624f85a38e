SPECIFICATION FairSpec
CONSTANTS
  Maintainers = {m1}
  Clients = {c1}
  NoThread = NoThread
  NRuns = 2
  Governed = {1}
  NFound = 1
  MaxPending = 1
  ListLimit = 2
  MaxCalls = 2
INVARIANTS
  TypeOK
  PendingWithinLimit
PROPERTIES
  NoPendingForever
  DeniedRunEnds
CHECK_DEADLOCK FALSE
