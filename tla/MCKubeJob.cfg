SPECIFICATION JobFairSpec
CONSTANTS
  Actions = {a1}
  Workers = {w1, w2}
  MaxRetries = 1
  MaxDuplicates = 1
  MaxMishaps = 1
  MaxCancels = 0
  HiddenCreations = TRUE
  NoMessage = NoMessage
INVARIANTS
  JobIInv
  SuccessMeansJob
  JobsWithinRuns
PROPERTIES
  ImplementsActionLifecycle
CHECK_DEADLOCK FALSE
