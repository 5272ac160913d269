SPECIFICATION Spec
CONSTANTS
  Workers = {w1, w2, w3}
  Keys = {k1}
  NoOne = NoOne
  Faults <- AllFaults
  MaxFaults = 3
  MaxCleanup = 1
SYMMETRY Symmetry
INVARIANTS
  TypeOK
  RepetitionsAccountedFor
  MutualExclusion
  AckedWorkWasDone
PROPERTIES
  ResponseIsStable
  ImplementsOnceOnly
