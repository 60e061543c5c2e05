SPECIFICATION FairSpec
CONSTANTS
  Browsers = {b1, b2}
  Tabs = {t1, t2}
  Nonces = {n1, n2, n3, n4}
  NoState = NoState
  NoSession = NoSession
  MaxMishaps = 2
INVARIANTS
  SessionIsOwn
  IInv
  LoneLoginSucceeds
PROPERTIES
  NoEndlessRedirect
