SPECIFICATION Spec
CONSTANTS
  alice = alice
  bob = bob
  sre = sre
  opa = opa
  Users = {alice, bob, sre, opa}
  RolesOf <- MCRolesOf
  Grants <- MCGrants
  Everyone = {"default"}
  Null = Null
  Undefined = Undefined
  Username = Username
  NoReply = NoReply
  OpaUser = opa
  Redeliveries = TRUE
  Calls <- PostAndCancels
  Slots = {s1, s2}
  Actions = {a1, a2}
  Window = 0
  MaxTime = 1
  MaxLag = 0
  MaxNoOps = 1
SYMMETRY ThrottleSymmetry
INVARIANTS
  OnlyOwnersCancel
PROPERTIES
  RefusedForCause
