SPECIFICATION FairSpec
CONSTANTS
  Tasks = {t1, t2, t3}
  Nothing = Nothing
  InitialDelay = 1
  MaxDelay = 3
  BackoffFactor = 2
  MaxCloses = 2
INVARIANTS
  TypeOK
  DelayFollowsFailures
  FallbackCoherent
  OutcomeMatchesClient
  ClientHeldThroughout
PROPERTIES
  BackendIsStable
  BackoffEnds
