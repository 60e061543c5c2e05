-------------------------------- MODULE Throttle --------------------------------
(***************************************************************************)
(* Requests on their way through the API: authorization and rate limiting  *)
(* by OPA, which calls the API back for the user's recent actions, then    *)
(* the endpoint's write to the actions table.  Several requests are in     *)
(* progress at once (three replicas, one event loop each), the workers     *)
(* write to the records meanwhile (ActionRecord), and the query goes to a  *)
(* global secondary index that follows the table with a delay.             *)
(***************************************************************************)
EXTENDS Policy

CONSTANTS
  Slots,      \* requests that can be in progress at the same time
  Actions,    \* action ids
  Redeliveries,  \* TRUE if a task message may be delivered more than once
  Calls,      \* what callers ask for: records [user, obj]; obj is a rate
              \* limited action, or "action-cancel"
  OpaUser,    \* the service account OPA calls the API with
  Window,     \* OPA_MAX_AGE_MINUTES
  MaxTime,    \* bound: the clock
  MaxLag      \* bound: records whose last write the index does not have yet

\* The limit max_ops sets for a user who has no unlimited permission.
Limits(u, obj) == {p.max_ops : p \in Matching(u, obj)} \ {Undefined}
Limited(u, obj) == Limits(u, obj) # {} /\ Limits(u, obj) \cap {Null, 0} = {}
MaxOps(u, obj) == CHOOSE n \in Limits(u, obj) : \A k \in Limits(u, obj) : k <= n

\* Calls are the users', and there are finitely many limits.
ASSUME CallsAssumption ==
  /\ \A c \in Calls : c.user \in Users
  /\ \A u \in Users : \A obj \in {c.obj : c \in Calls} \cup {"action-cancel"} :
       Limited(u, obj) =>
         \E n \in Limits(u, obj) : \A k \in Limits(u, obj) : k <= n

ASSUME ThrottleAssumption ==
  /\ OpaUser \in Users /\ Null \notin Users
  /\ Window \in Nat /\ MaxTime \in Nat /\ MaxLag \in Nat
  /\ IsFiniteSet(Slots) /\ IsFiniteSet(Actions)

VARIABLES
  status, open,  \* the records, see ActionRecord
  about,         \* about[a]: owner, name and creation time of a's record
  updated,       \* updated[a]: the record's updated_at
  index,         \* index[a]: status and updated_at as the index has them
  slot,          \* slot[s]: the request in progress
  apiUp,         \* OPA's calls to the API are answered with 200
  clock,
  cancelledBy    \* who cancelled which action, pairs <<user, action>>

vars == <<status, open, about, updated, index, slot, apiUp, clock, cancelledBy>>

Record == INSTANCE ActionRecord

Free == [pc |-> "free"]
NoRecord == [owner |-> Null, name |-> Null, created |-> 0]
Row(a) == [status |-> status[a], updated |-> updated[a]]
Lagging == {a \in Actions : index[a] # Row(a)}

Init ==
  /\ Record!Init
  /\ about = [a \in Actions |-> NoRecord]
  /\ updated = [a \in Actions |-> 0]
  /\ index = [a \in Actions |-> [status |-> "NONE", updated |-> 0]]
  /\ slot = [s \in Slots |-> Free]
  /\ apiUp = TRUE
  /\ clock = 0
  /\ cancelledBy = {}

\* Mutant of Write: updated_at is not refreshed.
WriteUnstamped(a) ==
  /\ index' = [index EXCEPT ![a] = [status |-> status'[a], updated |-> updated[a]]]
  /\ UNCHANGED updated

\* A write to record a reaches the index at once, or later.
Write(a) ==
  /\ updated' = [updated EXCEPT ![a] = clock]
  /\ \/ index' = [index EXCEPT ![a] =
          [status |-> status'[a], updated |-> clock]]
     \/ /\ Cardinality(Lagging \cup {a}) <= MaxLag
        /\ UNCHANGED index

Propagate(a) ==
  /\ a \in Lagging
  /\ index' = [index EXCEPT ![a] = Row(a)]
  /\ UNCHANGED <<status, open, about, updated, slot, apiUp, clock, cancelledBy>>

-----------------------------------------------------------------------------
(***************************************************************************)
(* The request.                                                            *)
(***************************************************************************)

\* get_user has identified the caller.  action-cancel fetches the action first
\* and answers 404 if there is none.
Arrive(s, call) ==
  /\ slot[s].pc = "free"
  /\ \/ /\ call.obj # "action-cancel"
        /\ slot' = [slot EXCEPT ![s] =
             [pc |-> "asking", user |-> call.user, obj |-> call.obj,
              params |-> NoParams]]
     \/ /\ call.obj = "action-cancel"
        /\ \E a \in Actions :
             /\ status[a] # "NONE"
             /\ slot' = [slot EXCEPT ![s] =
                  [pc |-> "asking", user |-> call.user, obj |-> call.obj,
                   params |-> [owner |-> about[a].owner], action |-> a]]
  /\ UNCHANGED <<status, open, about, updated, index, apiUp, clock, cancelledBy>>

\* Mutant of RecentActions: the window is a minute too wide.
RecentActionsWider(u) ==
  {[id |-> a, name |-> about[a].name, status |-> index[a].status] :
     a \in {b \in Actions : /\ index[b].status # "NONE"
                            /\ about[b].owner = u
                            /\ index[b].updated + Window + 1 >= clock}}

\* find_by_owner: what the index says of the user's actions of the last minutes.
RecentActions(u) ==
  {[id |-> a, name |-> about[a].name, status |-> index[a].status] :
     a \in {b \in Actions : /\ index[b].status # "NONE"
                            /\ about[b].owner = u
                            /\ index[b].updated + Window >= clock}}

\* OPA's own request must pass OPA (a nested decision cannot ask back) before
\* the endpoint lists the actions of the user it names.
FetchRecentActions(u) ==
  IF /\ apiUp
     /\ Authorized(OpaUser, "action-list", [action_user |-> u])
     /\ WithinRateLimits(OpaUser, "action-list", NoReply)
  THEN RecentActions(u)
  ELSE NoReply

Decision(call) ==
  IF ~ Authorized(call.user, call.obj, call.params) THEN "403"
  ELSE IF ~ WithinRateLimits(call.user, call.obj, FetchRecentActions(call.user))
  THEN "429" ELSE "admitted"

\* The OPA query; without an answer within 5 seconds the request fails with 500.
\* No request modelled here has a path that OPA is not asked about.
Decide(s) ==
  /\ slot[s].pc = "asking"
  /\ slot' = [slot EXCEPT ![s].pc = Decision(slot[s])]
  /\ UNCHANGED <<status, open, about, updated, index, apiUp, clock, cancelledBy>>

\* The endpoint creates the record and publishes the task.
Create(s, a) ==
  /\ slot[s].pc = "admitted" /\ slot[s].obj # "action-cancel"
  /\ Record!Submit(a)
  /\ about' = [about EXCEPT ![a] =
       [owner |-> slot[s].user, name |-> slot[s].obj, created |-> clock]]
  /\ Write(a)
  /\ slot' = [slot EXCEPT ![s] = Free]
  /\ UNCHANGED <<apiUp, clock, cancelledBy>>

\* action-cancel writes to the action it fetched before it asked OPA.
CancelAction(s) ==
  /\ slot[s].pc = "admitted" /\ slot[s].obj = "action-cancel"
  /\ Record!Cancel(slot[s].action)
  /\ Write(slot[s].action)
  /\ cancelledBy' = cancelledBy \cup {<<slot[s].user, slot[s].action>>}
  /\ slot' = [slot EXCEPT ![s] = Free]
  /\ UNCHANGED <<about, apiUp, clock>>

\* The error response, a lost OPA answer, a crash: the request writes nothing.
GiveUp(s) ==
  /\ slot[s].pc # "free"
  /\ slot' = [slot EXCEPT ![s] = Free]
  /\ UNCHANGED <<status, open, about, updated, index, apiUp, clock, cancelledBy>>

-----------------------------------------------------------------------------
(***************************************************************************)
(* The rest of the system.                                                 *)
(***************************************************************************)

\* A worker writes RUNNING or a final state; with a redelivery it does so again
\* to a finished record, which counts as updated then.
WorkerWrites(a) ==
  /\ Record!Begin(a) \/ Record!Conclude(a)
  /\ Write(a)
  /\ UNCHANGED <<about, slot, apiUp, clock, cancelledBy>>

\* The API stops answering OPA (its token expires, the network fails), or does
\* so again.
Toggle ==
  /\ apiUp' = ~ apiUp
  /\ UNCHANGED <<status, open, about, updated, index, slot, clock, cancelledBy>>

Tick ==
  /\ clock < MaxTime
  /\ clock' = clock + 1
  /\ UNCHANGED <<status, open, about, updated, index, slot, apiUp, cancelledBy>>

Next ==
  \/ \E s \in Slots : \E c \in Calls : Arrive(s, c)
  \/ \E s \in Slots : Decide(s)
  \/ \E s \in Slots : \E a \in Actions : Create(s, a)
  \/ \E s \in Slots : CancelAction(s)
  \/ \E s \in Slots : GiveUp(s)
  \/ \E a \in Actions : WorkerWrites(a)
  \/ \E a \in Actions : Propagate(a)
  \/ Toggle
  \/ Tick

Spec == Init /\ [][Next]_vars

-----------------------------------------------------------------------------
(***************************************************************************)
(* What must hold.                                                         *)
(***************************************************************************)

Statuses == {"NONE", "PENDING", "RUNNING", "SUCCESS", "FAILURE", "CANCELLED"}
Objects == {c.obj : c \in Calls} \ {"action-cancel"}
Progress == {"asking", "403", "429", "admitted"}

\* A slot is free, or has a request for an action, or one for a cancel.
SlotStates ==
  {Free}
    \cup [pc : Progress, user : Users, obj : Objects, params : {NoParams}]
    \cup [pc : Progress, user : Users, obj : {"action-cancel"},
          params : [owner : Users], action : Actions]

\* Every variable has its type, and the index its lag.
TypeOK ==
  /\ status \in [Actions -> Statuses]
  /\ open \subseteq {a \in Actions : status[a] # "NONE"}
  /\ about \in [Actions -> [owner : Users, name : Objects, created : Nat] \cup {NoRecord}]
  /\ updated \in [Actions -> Nat]
  /\ index \in [Actions -> [status : Statuses, updated : Nat]]
  /\ \A a \in Actions : status[a] # "NONE" =>
       /\ about[a] # NoRecord
       /\ about[a].created <= updated[a] /\ updated[a] <= clock
  /\ slot \in [Slots -> SlotStates]
  /\ Cardinality(Lagging) <= MaxLag
  /\ apiUp \in BOOLEAN
  /\ clock \in 0..MaxTime
  /\ cancelledBy \subseteq Users \X Actions

\* The actions the user created within the window, but for the cancelled ones.
CreatedWithin(u, obj) ==
  {a \in Actions : /\ status[a] # "NONE"
                   /\ about[a].owner = u /\ about[a].name = obj
                   /\ about[a].created + Window >= clock
                   /\ \A v \in Users : <<v, a>> \notin cancelledBy}

\* Counting and creating are two steps of a request and the count comes from a
\* lagging index, so max_ops can be exceeded, but only by the requests that were
\* in progress together and the records the index was missing.
OvershootIsBounded ==
  \A u \in Users : \A c \in Calls :
    Limited(u, c.obj) =>
      Cardinality(CreatedWithin(u, c.obj))
        <= MaxOps(u, c.obj) - 1 + Cardinality(Slots) + MaxLag

\* A user may cancel own actions, or has a role that says so.
MayCancel(u, a) ==
  \/ u = about[a].owner
  \/ \E r \in RolesOf[u] : \E p \in Grants[r] : ObjectMatches(p, "action-cancel")

\* Whoever has only the default role's permission on action-cancel cancels
\* only own actions, though the request names an action and no owner.
OnlyOwnersCancel == \A pair \in cancelledBy : MayCancel(pair[1], pair[2])

\* What these rest on.  A cancel in progress is of an existing record, whose
\* owner it knows, and has been allowed if it is admitted; ...
CancelsKnowTheirAction ==
  \A s \in Slots : (slot[s].pc # "free" /\ slot[s].obj = "action-cancel") =>
    /\ status[slot[s].action] # "NONE"
    /\ slot[s].params.owner = about[slot[s].action].owner
    /\ slot[s].pc = "admitted" => MayCancel(slot[s].user, slot[s].action)

\* ... a cancelled record was cancelled by somebody; ...
CancelsAreKept ==
  /\ \A a \in Actions : status[a] = "CANCELLED" => \E u \in Users : <<u, a>> \in cancelledBy
  /\ \A pair \in cancelledBy : status[pair[2]] # "NONE"

\* ... and an admitted request counts before it has created its action.
Admitted(u, obj) ==
  {s \in Slots : slot[s].pc = "admitted" /\ slot[s].user = u /\ slot[s].obj = obj}

AdmittedWithinBound ==
  \A u \in Users : \A c \in Calls :
    Limited(u, c.obj) =>
      Cardinality(CreatedWithin(u, c.obj)) + Cardinality(Admitted(u, c.obj))
        <= MaxOps(u, c.obj) - 1 + Cardinality(Slots) + MaxLag

\* The inductive invariant.
ThrottleIInv ==
  /\ TypeOK
  /\ OnlyOwnersCancel
  /\ CancelsKnowTheirAction
  /\ CancelsAreKept
  /\ AdmittedWithinBound

\* While OPA's calls are answered, a request is refused for its rate only if the
\* user really has max_ops actions, of that name and not cancelled, that were
\* updated within the window, or the index has missed a write.
RefusedForCause ==
  [][\A s \in Slots :
       (slot[s].pc = "asking" /\ slot'[s].pc = "429" /\ apiUp /\ Lagging = {}
          /\ Limited(slot[s].user, slot[s].obj)) =>
         Cardinality({a \in Actions :
             /\ status[a] \notin {"NONE", "CANCELLED"}
             /\ about[a].owner = slot[s].user /\ about[a].name = slot[s].obj
             /\ updated[a] + Window >= clock})
           >= MaxOps(slot[s].user, slot[s].obj)]_vars

\* The comment on the rule: without max_ops the action is allowed.
NoMaxOpsMeansAllowed ==
  [][\A s \in Slots :
       (/\ slot[s].pc = "asking"
        /\ \E p \in Matching(slot[s].user, slot[s].obj) : p.max_ops = Undefined)
         => slot'[s].pc # "429"]_vars
=============================================================================
