SPECIFICATION Spec
CONSTANTS
  Requests = {r1}
  Exempt = {}
  MaxConcurrent = 1
PROPERTY TimedOutIsCancelled
