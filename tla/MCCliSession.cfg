SPECIFICATION FairSpec
CONSTANTS
  Procs = {p1, p2, p3}
  Posts = {p1, p2}
  NoSession = NoSession
  MaxRedirects = 4
  MaxMishaps = 2
INVARIANTS
  CliIInv
  CommandRunsOnce
  FailsForCause
  SavedSessionLasts
PROPERTIES
  EveryInvocationEnds
CHECK_DEADLOCK FALSE
