SPECIFICATION FairSpec
CONSTANTS
  Units = {u1, u2}
  Hosts = {u1}
  PoolSize = 1
  MaxCancels = 2
INVARIANTS
  TypeOK
  DurableOnlyIfEnded
  OkIsDurable
  UnclosedOnlyIfCancelledAsleep
PROPERTY EveryBlockEnds
