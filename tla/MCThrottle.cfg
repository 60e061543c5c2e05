SPECIFICATION Spec
CONSTANTS
  alice = alice
  bob = bob
  sre = sre
  opa = opa
  Users = {alice, bob, sre, opa}
  RolesOf <- MCRolesOf
  Grants <- MCGrants
  Everyone = {"default"}
  Null = Null
  Undefined = Undefined
  Username = Username
  NoReply = NoReply
  OpaUser = opa
  Redeliveries = FALSE
  Calls <- Posts
  Slots = {s1, s2}
  Actions = {a1, a2, a3, a4}
  Window = 0
  MaxTime = 1
  MaxLag = 1
  MaxNoOps = 1
SYMMETRY ThrottleSymmetry
INVARIANTS
  ThrottleIInv
  OvershootIsBounded
