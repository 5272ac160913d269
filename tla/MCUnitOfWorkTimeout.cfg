SPECIFICATION Spec
CONSTANTS
  Units = {u1}
  Hosts = {}
  PoolSize = 1
  MaxCancels = 0
INVARIANT TimeoutIsMarked
