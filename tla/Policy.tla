--------------------------------- MODULE Policy ---------------------------------
(***************************************************************************)
(* The decision OPA takes on a request: the Rego rules of the authz        *)
(* package as operators over the users and roles data they are loaded      *)
(* with.  A regular expression is the set of the values it matches; a      *)
(* parameter assignment is a function on the names of the parameters that  *)
(* are present.                                                            *)
(***************************************************************************)
EXTENDS Naturals, FiniteSets

CONSTANTS
  Users,       \* user names
  RolesOf,     \* RolesOf[u]: the role names data.users lists for user u
  Everyone,    \* the role names data.users lists for "*"
  Grants,      \* Grants[r]: the permissions of role r, a set of records
  Null,        \* the JSON null
  Undefined,   \* a key that is absent
  Username,    \* the pattern "$username"
  NoReply      \* what OPA has when it could not fetch the user's actions

\* max_ops of a permission is a number, null, or absent.
ASSUME RolesAssumption ==
  /\ RolesOf \in [Users -> SUBSET DOMAIN Grants]
  /\ Everyone \subseteq DOMAIN Grants
  /\ \A r \in DOMAIN Grants : \A p \in Grants[r] :
       p.max_ops \in Nat \cup {Null, Undefined}
  /\ Null \notin Nat /\ Undefined \notin Nat /\ Null # Undefined
  /\ Username # Null

Permissions(u) == UNION {Grants[r] : r \in RolesOf[u] \cup Everyone}

ObjectMatches(permission, obj) == permission.obj \in {"*", obj}

\* What everyone may cancel is their own.
ASSUME EveryoneAssumption ==
  \A r \in Everyone : \A p \in Grants[r] :
    ObjectMatches(p, "action-cancel") =>
      "owner" \in DOMAIN p.params /\ p.params["owner"] = Username

Matching(u, obj) == {p \in Permissions(u) : ObjectMatches(p, obj)}

\* Mutant of ParamMatches: "$username" is not compared.
ParamMatchesAnyone(pattern, value, u) == pattern = Username \/ value \in pattern

\* "$username" is the caller's own name, everything else a regular expression.
ParamMatches(pattern, value, u) ==
  IF pattern = Username THEN value = u ELSE value \in pattern

\* null asks for the parameter's absence, any other pattern for its presence.
ValidParams(expected, provided, u) ==
  \A k \in DOMAIN expected :
    IF expected[k] = Null
    THEN k \notin DOMAIN provided
    ELSE k \in DOMAIN provided /\ ParamMatches(expected[k], provided[k], u)

Authorized(u, obj, provided) ==
  \E p \in Matching(u, obj) : ValidParams(p.params, provided, u)

\* The actions that count against max_ops.
Relevant(reply, obj) == {x \in reply : x.name = obj /\ x.status # "CANCELLED"}

\* Mutant of WithinMaxOps: one action too many.
WithinMaxOpsInclusive(max_ops, obj, reply) ==
  /\ max_ops # Undefined
  /\ \/ max_ops \in {Null, 0}
     \/ reply # NoReply /\ Cardinality(Relevant(reply, obj)) <= max_ops

\* A permission without max_ops never satisfies the rule: the call that would
\* pass it on is undefined.
WithinMaxOps(max_ops, obj, reply) ==
  /\ max_ops # Undefined
  /\ \/ max_ops \in {Null, 0}
     \/ /\ reply # NoReply
        /\ Cardinality(Relevant(reply, obj)) < max_ops

\* Any permission on the object will do, whether or not its parameters match.
WithinRateLimits(u, obj, reply) ==
  \E p \in Matching(u, obj) : WithinMaxOps(p.max_ops, obj, reply)

-----------------------------------------------------------------------------
\* default_roles.yml
NoParams == [k \in {} |-> Null]
DefaultRole ==
  { [obj |-> "me", max_ops |-> Null, params |-> NoParams],
    [obj |-> "action-list", max_ops |-> Null, params |-> [action_user |-> Null]],
    [obj |-> "action-detail", max_ops |-> Null, params |-> [owner |-> Username]],
    [obj |-> "action-cancel", max_ops |-> Null, params |-> [owner |-> Username]] }
OpaRole ==
  { [obj |-> "action-list", max_ops |-> Null, params |-> NoParams] }
=============================================================================
