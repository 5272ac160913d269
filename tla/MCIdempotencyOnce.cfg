SPECIFICATION Spec
CONSTANTS
  Workers = {w1, w2}
  Keys = {k1}
  NoOne = NoOne
  Faults <- SlowProcessing
  MaxFaults = 1
  MaxCleanup = 1
INVARIANT ExactlyOnce
