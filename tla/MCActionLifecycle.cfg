SPECIFICATION FairSpec
CONSTANTS
  Actions = {a1}
  Workers = {w1, w2}
  MaxRetries = 1
  MaxDuplicates = 2
  MaxMishaps = 2
  MaxCancels = 1
  NoMessage = NoMessage
INVARIANTS
  CopyCarriedOnce
  NothingForgotten
  
  IInv
PROPERTIES
  FinalIsFinal
  EventuallySettled
  ImplementsActionRecord
CHECK_DEADLOCK FALSE
