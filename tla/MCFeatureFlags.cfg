SPECIFICATION FairSpec
CONSTANTS
  Workers = {w1, w2}
  Flags = {maintenance, registration}
  CriticalFlags = {maintenance}
  Maintenance = maintenance
  Others = {marker}
  MaxWrites = 3
  Threshold = 2
  MaxSize = 2
  Share = 2
INVARIANTS TypeOK KillSwitchHolds
PROPERTIES
  GrowsOnlyByMarkers
  ReadsRecover
