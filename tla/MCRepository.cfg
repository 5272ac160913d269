SPECIFICATION FairSpec
CONSTANTS
  Units = {u1, u2}
  Rows = {a, b}
  Existing = {a}
  Targets = {{a}, {a, b}}
  Managed = {u2}
  Nobody = Nobody
  Initial = Initial
  Absent = Absent
  Unread = Unread
  MaxCalls = 3
  Threshold = 2
  OtherRows = {0, 1, 2, 3}
  PageSizes = {1, 2, 3}
INVARIANTS
  TypeOK
  LostOnlyIfReadUnlocked
  AllOrNothing
  AnswersMatchCauses
  PagesCoverListing
PROPERTY EveryCallReturns
