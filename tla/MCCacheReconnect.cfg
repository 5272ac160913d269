SPECIFICATION FairSpec
CONSTANTS
  Tasks = {t1, t2}
  Nothing = Nothing
  InitialDelay = 1
  MaxDelay = 3
  BackoffFactor = 2
  MaxCloses = 0
PROPERTY Reconnects
