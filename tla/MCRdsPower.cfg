SPECIFICATION PowerFairSpec
CONSTANTS
  a1 = a1
  a2 = a2
  Actions = {a1, a2}
  Missions <- MCMissions
  Workers = {w1, w2}
  MaxRetries = 2
  MaxDuplicates = 0
  MaxMishaps = 1
  MaxCancels = 0
  MaxUpsets = 1
  NoMessage = NoMessage
INVARIANTS
  
  PowerIInv
  CallsAreNotRepeated
  LoneActionIsNotRejected
PROPERTIES
  ImplementsActionLifecycle
CHECK_DEADLOCK FALSE
