------------------------------- MODULE MCThrottle -------------------------------
\* The instances of Throttle that TLC checks: a user whose no-op is limited, a
\* user with the default role only, an SRE who may cancel any action, and OPA's
\* own account.
EXTENDS Throttle, TLC

CONSTANTS alice, bob, sre, opa, MaxNoOps

MCRolesOf == (alice :> {"limited"}) @@ (bob :> {}) @@ (sre :> {"sre"})
             @@ (opa :> {"opa"})
MCGrants ==
  [ default |-> DefaultRole,
    opa     |-> OpaRole,
    limited |-> {[obj |-> "no-op", max_ops |-> MaxNoOps, params |-> NoParams]},
    sre     |-> {[obj |-> "*", max_ops |-> Null, params |-> NoParams]} ]

Post(u) == [user |-> u, obj |-> "no-op"]
CancelBy(u) == [user |-> u, obj |-> "action-cancel"]
Posts == {Post(alice)}
PostAndCancels ==
  {Post(alice), CancelBy(alice), CancelBy(bob), CancelBy(sre)}

ThrottleSymmetry == Permutations(Slots) \cup Permutations(Actions)
=============================================================================
