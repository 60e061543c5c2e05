SPECIFICATION ChangeFairSpec
CONSTANTS
  Actions = {a1}
  Workers = {w1, w2}
  MaxRetries = 1
  MaxDuplicates = 1
  MaxMishaps = 1
  MaxCancels = 0
  MaxTroubles = 1
  MaxMoves = 1
  NoMessage = NoMessage
  Clusters <- MCClusters
INVARIANTS
  ChangeIInv
  SuccessMeansChange
  
  ChangesAreCounted
  RetriesHaveCause
PROPERTIES
  RestartLosesNothing
  ImplementsActionLifecycle
CHECK_DEADLOCK FALSE
