SPECIFICATION FairSpec
CONSTANTS
  Requests = {r1, r2, h1}
  Exempt = {h1}
  MaxConcurrent = 1
INVARIANTS
  TypeOK
  SlotsConserved
  UnansweredWithinLimit
PROPERTIES
  CapacityReturns
  EveryRequestAnswered
