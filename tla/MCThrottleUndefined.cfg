SPECIFICATION Spec
CONSTANTS
  alice = alice
  bob = bob
  sre = sre
  opa = opa
  Users = {alice, bob, sre, opa}
  RolesOf <- MCRolesOf
  Grants <- MCGrants
  Everyone = {"default"}
  Null = Null
  Undefined = Undefined
  Username = Username
  NoReply = NoReply
  OpaUser = opa
  Redeliveries = TRUE
  Calls <- Posts
  Slots = {s1}
  Actions = {a1}
  Window = 1
  MaxTime = 0
  MaxLag = 0
  MaxNoOps = Undefined
PROPERTIES
  NoMaxOpsMeansAllowed
