SPECIFICATION FairSpec
CONSTANTS
  Workers = {w1, w2}
  Keys = {k1, k2}
  NoOne = NoOne
  Faults <- AllFaults
  MaxFaults = 2
  MaxCleanup = 1
PROPERTY EveryKeyAnswered
