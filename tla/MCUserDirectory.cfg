SPECIFICATION FairSpec
CONSTANTS
  shared = shared
  own = own
  old = old
  new = new
  person = person
  act = act
  Tokens <- MCTokens
  Policies <- MCPolicies
  Requests = {r1, r2}
  NoRow = NoRow
  MaxChanges = 2
INVARIANTS
  DirectoryIInv
  AskedAsItsToken
  ServedAsDecided
PROPERTIES
  ListSettles
