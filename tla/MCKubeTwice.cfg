SPECIFICATION JobSpec
CONSTANTS
  Actions = {a1}
  Workers = {w1}
  MaxRetries = 1
  MaxDuplicates = 0
  MaxMishaps = 0
  MaxCancels = 0
  HiddenCreations = FALSE
  NoMessage = NoMessage
PROPERTIES
  NoSecondJobMeanwhile
CHECK_DEADLOCK FALSE
