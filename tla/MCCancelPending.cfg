SPECIFICATION Spec
CONSTANTS
  Actions = {a1}
  Workers = {w1}
  MaxRetries = 1
  MaxDuplicates = 0
  MaxMishaps = 0
  MaxCancels = 1
  NoMessage = NoMessage
PROPERTIES
  CancelledDoesNotStart
CHECK_DEADLOCK FALSE
