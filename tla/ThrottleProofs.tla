----------------------------- MODULE ThrottleProofs -----------------------------
(***************************************************************************)
(* Theorems about Throttle: who can cancel what, who is admitted and who   *)
(* refused, and by how much a limit can be exceeded, for all roles and     *)
(* users, any number of requests at the same time, and any window and lag  *)
(* of the index.                                                           *)
(***************************************************************************)
EXTENDS Throttle, FiniteSetTheorems, TLAPS

\* A request in progress has its fields.
LEMMA SlotFields ==
  ASSUME TypeOK, NEW s \in Slots, slot[s].pc # "free"
  PROVE  /\ slot[s].pc \in Progress /\ slot[s].user \in Users
         /\ slot[s].obj # "action-cancel" =>
              slot[s] \in [pc : Progress, user : Users, obj : Objects, params : {NoParams}]
         /\ slot[s].obj = "action-cancel" =>
              slot[s] \in [pc : Progress, user : Users, obj : {"action-cancel"},
                           params : [owner : Users], action : Actions]
<1>1. slot[s] \in SlotStates
  BY DEF TypeOK
<1> QED
  BY <1>1 DEF SlotStates, Free, Objects

\* A write to a record keeps the index within its lag.
LEMMA WriteType ==
  ASSUME TypeOK, NEW a \in Actions, Write(a), clock' = clock,
         status' \in [Actions -> Statuses],
         \A b \in Actions \ {a} : status'[b] = status[b]
  PROVE  /\ updated' = [updated EXCEPT ![a] = clock]
         /\ updated' \in [Actions -> Nat]
         /\ index' \in [Actions -> [status : Statuses, updated : Nat]]
         /\ Cardinality(Lagging') <= MaxLag
<1> USE DEF TypeOK
<1>1. /\ updated' = [updated EXCEPT ![a] = clock]
      /\ updated' \in [Actions -> Nat] /\ clock \in Nat
  BY ThrottleAssumption DEF Write
<1>2. IsFiniteSet(Lagging) /\ IsFiniteSet(Lagging \cup {a})
  <2>1. IsFiniteSet(Lagging)
    BY FS_Subset, ThrottleAssumption DEF Lagging
  <2> QED
    BY <2>1, FS_AddElement
<1>3. \A b \in Actions \ {a} : Row(b)' = Row(b)
  BY <1>1 DEF Row
<1>4. CASE index' = [index EXCEPT ![a] = [status |-> status'[a], updated |-> clock]]
  <2>1. index' \in [Actions -> [status : Statuses, updated : Nat]]
    BY <1>1, <1>4
  <2>2. index'[a] = Row(a)'
    BY <1>1, <1>4 DEF Row
  <2>3. Lagging' \subseteq Lagging
    BY <1>3, <1>4, <2>2 DEF Lagging
  <2>4. Cardinality(Lagging') <= Cardinality(Lagging) /\ Cardinality(Lagging) \in Nat
        /\ Cardinality(Lagging') \in Nat
    BY <1>2, <2>3, FS_Subset, FS_CardinalityType
  <2>5. Cardinality(Lagging') <= MaxLag
    BY <2>4, ThrottleAssumption
  <2> QED
    BY <1>1, <2>1, <2>5
<1>5. CASE Cardinality(Lagging \cup {a}) <= MaxLag /\ UNCHANGED index
  <2>1. Lagging' \subseteq Lagging \cup {a}
    BY <1>3, <1>5 DEF Lagging
  <2>2. /\ Cardinality(Lagging') <= Cardinality(Lagging \cup {a})
        /\ Cardinality(Lagging \cup {a}) \in Nat /\ Cardinality(Lagging') \in Nat
    BY <1>2, <2>1, FS_Subset, FS_CardinalityType
  <2>3. Cardinality(Lagging') <= MaxLag
    BY <1>5, <2>2, ThrottleAssumption
  <2> QED
    BY <1>1, <1>5, <2>3
<1> QED
  BY <1>4, <1>5 DEF Write

\* A record is made by Create, and its owner, name and creation time stay.
LEMMA RecordIsKept ==
  ASSUME TypeOK, [Next]_vars, NEW a \in Actions
  PROVE  /\ status[a] # "NONE" => status'[a] # "NONE" /\ about'[a] = about[a]
         /\ (status[a] = "NONE" /\ status'[a] # "NONE") => \E s \in Slots : Create(s, a)
<1> USE DEF TypeOK
<1> DEFINE Kept == /\ status[a] # "NONE" => status'[a] # "NONE" /\ about'[a] = about[a]
                   /\ (status[a] = "NONE" /\ status'[a] # "NONE")
                        => \E s \in Slots : Create(s, a)
<1>1. ASSUME NEW s \in Slots, NEW b \in Actions, Create(s, b) PROVE Kept
  BY <1>1 DEF Create, Record!Submit
<1>2. ASSUME NEW s \in Slots, CancelAction(s) PROVE Kept
  BY <1>2, SlotFields DEF CancelAction, Record!Cancel
<1>3. ASSUME NEW b \in Actions, WorkerWrites(b) PROVE Kept
  BY <1>3 DEF WorkerWrites, Record!Begin, Record!Conclude
<1>4. ASSUME UNCHANGED <<status, about>> PROVE Kept
  BY <1>4
<1> QED
  BY <1>1, <1>2, <1>3, <1>4
     DEF Next, Arrive, Decide, GiveUp, Propagate, Toggle, Tick, vars

LEMMA TypeStep ==
  ASSUME TypeOK, [Next]_vars
  PROVE  TypeOK'
<1>0. /\ status \in [Actions -> Statuses]
      /\ open \subseteq {a \in Actions : status[a] # "NONE"}
      /\ about \in [Actions -> [owner : Users, name : Objects, created : Nat] \cup {NoRecord}]
      /\ updated \in [Actions -> Nat]
      /\ index \in [Actions -> [status : Statuses, updated : Nat]]
      /\ \A a \in Actions : status[a] # "NONE" =>
           /\ about[a] # NoRecord
           /\ about[a].created <= updated[a] /\ updated[a] <= clock
      /\ slot \in [Slots -> SlotStates]
      /\ Cardinality(Lagging) <= MaxLag
      /\ apiUp \in BOOLEAN
      /\ clock \in 0..MaxTime /\ clock \in Nat
      /\ cancelledBy \subseteq Users \X Actions
  BY ThrottleAssumption DEF TypeOK
\* Requests: a slot changes, and for the rest nothing.
<1>1. ASSUME slot' \in [Slots -> SlotStates],
             UNCHANGED <<status, open, about, updated, index, apiUp, clock, cancelledBy>>
      PROVE  TypeOK'
  BY <1>0, <1>1 DEF TypeOK, Lagging, Row
<1>2. ASSUME NEW s \in Slots, NEW c \in Calls, Arrive(s, c) PROVE TypeOK'
  <2>1. CASE c.obj # "action-cancel"
    <3>1. [pc |-> "asking", user |-> c.user, obj |-> c.obj, params |-> NoParams]
            \in SlotStates
      BY <2>1, CallsAssumption DEF SlotStates, Objects, Progress
    <3> QED
      BY <1>0, <1>1, <1>2, <2>1, <3>1 DEF Arrive
  <2>2. ASSUME NEW a \in Actions, status[a] # "NONE",
               slot' = [slot EXCEPT ![s] =
                  [pc |-> "asking", user |-> c.user, obj |-> c.obj,
                   params |-> [owner |-> about[a].owner], action |-> a]],
               c.obj = "action-cancel"
        PROVE  TypeOK'
    <3>1. about[a].owner \in Users
      BY <1>0, <2>2
    <3>2. [pc |-> "asking", user |-> c.user, obj |-> c.obj,
           params |-> [owner |-> about[a].owner], action |-> a] \in SlotStates
      BY <2>2, <3>1, CallsAssumption DEF SlotStates, Progress
    <3> QED
      BY <1>0, <1>1, <1>2, <2>2, <3>2 DEF Arrive
  <2> QED
    BY <1>2, <2>1, <2>2 DEF Arrive
<1>3. ASSUME NEW s \in Slots, Decide(s) PROVE TypeOK'
  <2>1. slot[s].pc # "free" /\ Decision(slot[s]) \in Progress
    BY <1>3 DEF Decide, Decision, Progress
  <2>2. [slot[s] EXCEPT !.pc = Decision(slot[s])] \in SlotStates
    BY <2>1, SlotFields DEF SlotStates
  <2>3. slot' = [slot EXCEPT ![s] = [slot[s] EXCEPT !.pc = Decision(slot[s])]]
    BY <1>3 DEF Decide
  <2> QED
    BY <1>0, <1>1, <1>3, <2>2, <2>3 DEF Decide
<1>4. ASSUME NEW s \in Slots, GiveUp(s) PROVE TypeOK'
  BY <1>0, <1>1, <1>4 DEF GiveUp, SlotStates
\* Writes to a record.
<1>5. ASSUME NEW a \in Actions, Write(a), UNCHANGED <<apiUp, clock>>,
             status' \in [Actions -> Statuses],
             \A b \in Actions \ {a} : status'[b] = status[b] /\ about'[b] = about[b],
             open' \subseteq {b \in Actions : status'[b] # "NONE"},
             about' \in [Actions ->
                          [owner : Users, name : Objects, created : Nat] \cup {NoRecord}],
             about'[a] # NoRecord, about'[a].created <= clock,
             slot' \in [Slots -> SlotStates],
             cancelledBy' \subseteq Users \X Actions
      PROVE  TypeOK'
  <2>1. /\ updated' = [updated EXCEPT ![a] = clock]
        /\ updated' \in [Actions -> Nat]
        /\ index' \in [Actions -> [status : Statuses, updated : Nat]]
        /\ Cardinality(Lagging') <= MaxLag
    BY <1>5, WriteType
  <2>2. \A b \in Actions : status'[b] # "NONE" =>
           /\ about'[b] # NoRecord
           /\ about'[b].created <= updated'[b] /\ updated'[b] <= clock'
    BY <1>0, <1>5, <2>1
  <2>3. apiUp' \in BOOLEAN /\ clock' \in 0..MaxTime
    BY <1>0, <1>5
  <2> QED
    BY <1>5, <2>1, <2>2, <2>3 DEF TypeOK
<1>6. ASSUME NEW s \in Slots, NEW a \in Actions, Create(s, a) PROVE TypeOK'
  <2>1. /\ slot[s].user \in Users /\ slot[s].obj \in Objects
        /\ slot' \in [Slots -> SlotStates]
    BY <1>0, <1>6, SlotFields DEF Create, SlotStates
  <2>2. /\ status' \in [Actions -> Statuses]
        /\ \A b \in Actions \ {a} : status'[b] = status[b]
        /\ open' \subseteq {b \in Actions : status'[b] # "NONE"}
    BY <1>0, <1>6 DEF Create, Record!Submit, Statuses
  <2>3. about'[a] = [owner |-> slot[s].user, name |-> slot[s].obj, created |-> clock]
    BY <1>0, <1>6 DEF Create
  <2>4. /\ about' \in [Actions ->
                         [owner : Users, name : Objects, created : Nat] \cup {NoRecord}]
        /\ \A b \in Actions \ {a} : about'[b] = about[b]
    BY <1>0, <1>6, <2>1 DEF Create
  <2>5. about'[a] # NoRecord /\ about'[a].created <= clock
    <3>1. slot[s].user # Null
      BY <2>1, ThrottleAssumption
    <3> QED
      BY <1>0, <2>3, <3>1 DEF NoRecord
  <2> QED
    BY <1>0, <1>5, <1>6, <2>1, <2>2, <2>4, <2>5 DEF Create
<1>7. ASSUME NEW s \in Slots, CancelAction(s) PROVE TypeOK'
  <2>1. /\ slot[s].action \in Actions /\ slot[s].user \in Users
        /\ slot' \in [Slots -> SlotStates]
    BY <1>0, <1>7, SlotFields DEF CancelAction, SlotStates
  <2>2. /\ status[slot[s].action] # "NONE"
        /\ status' \in [Actions -> Statuses]
        /\ \A b \in Actions \ {slot[s].action} : status'[b] = status[b]
        /\ open' \subseteq {b \in Actions : status'[b] # "NONE"}
    BY <1>0, <1>7 DEF CancelAction, Record!Cancel, Statuses
  <2> QED
    BY <1>0, <1>5, <1>7, <2>1, <2>2 DEF CancelAction
<1>8. ASSUME NEW a \in Actions, WorkerWrites(a) PROVE TypeOK'
  <2>1. /\ status[a] # "NONE"
        /\ status' \in [Actions -> Statuses]
        /\ \A b \in Actions \ {a} : status'[b] = status[b]
        /\ open' \subseteq {b \in Actions : status'[b] # "NONE"}
    BY <1>0, <1>8 DEF WorkerWrites, Record!Begin, Record!Conclude, Statuses
  <2> QED
    BY <1>0, <1>5, <1>8, <2>1 DEF WorkerWrites
\* The rest.
<1>9. ASSUME NEW a \in Actions, Propagate(a) PROVE TypeOK'
  <2>1. index' \in [Actions -> [status : Statuses, updated : Nat]]
    BY <1>0, <1>9 DEF Propagate, Row
  <2>2. Lagging' \subseteq Lagging /\ IsFiniteSet(Lagging)
    <3>1. IsFiniteSet(Lagging)
      BY FS_Subset, ThrottleAssumption DEF Lagging
    <3> QED
      BY <1>0, <1>9, <3>1 DEF Propagate, Lagging, Row
  <2>3. /\ Cardinality(Lagging') <= Cardinality(Lagging)
        /\ Cardinality(Lagging') \in Nat /\ Cardinality(Lagging) \in Nat
    BY <2>2, FS_Subset, FS_CardinalityType
  <2>4. Cardinality(Lagging') <= MaxLag
    BY <1>0, <2>3, ThrottleAssumption
  <2> QED
    BY <1>0, <1>9, <2>1, <2>4 DEF Propagate, TypeOK
<1>10. ASSUME Toggle PROVE TypeOK'
  <2>1. apiUp' \in BOOLEAN
    BY <1>10 DEF Toggle
  <2> QED
    BY <1>0, <1>10, <2>1 DEF Toggle, TypeOK, Lagging, Row
<1>11. ASSUME Tick PROVE TypeOK'
  <2>1. clock' \in 0..MaxTime /\ clock <= clock' /\ clock' \in Nat
    BY <1>0, <1>11, ThrottleAssumption DEF Tick
  <2>2. \A a \in Actions : status[a] # "NONE" => updated[a] <= clock'
    BY <1>0, <2>1
  <2> QED
    BY <1>0, <1>11, <2>1, <2>2 DEF Tick, TypeOK, Lagging, Row
<1>12. CASE UNCHANGED vars
  BY <1>0, <1>1, <1>12 DEF vars
<1> QED
  BY <1>2, <1>3, <1>4, <1>6, <1>7, <1>8, <1>9, <1>10, <1>11, <1>12 DEF Next

-----------------------------------------------------------------------------
\* What a user may cancel does not change once there is a record.
LEMMA MayCancelIsKept ==
  ASSUME TypeOK, [Next]_vars, NEW a \in Actions, status[a] # "NONE",
         NEW u \in Users, MayCancel(u, a)
  PROVE  MayCancel(u, a)'
  BY RecordIsKept DEF MayCancel

\* The policy admits a cancel to the owner the request names, or to a role.
LEMMA CancelIsAllowed ==
  ASSUME TypeOK, CancelsKnowTheirAction, NEW s \in Slots, slot[s].pc = "asking",
         slot[s].obj = "action-cancel", Decision(slot[s]) = "admitted"
  PROVE  MayCancel(slot[s].user, slot[s].action)
<1> DEFINE u == slot[s].user
           given == slot[s].params
<1>1. /\ u \in Users /\ given \in [owner : Users]
      /\ given.owner = about[slot[s].action].owner
  BY SlotFields DEF CancelsKnowTheirAction
<1>2. Authorized(u, "action-cancel", given)
  BY DEF Decision
<1> HIDE DEF u, given
<1>3. PICK p \in Matching(u, "action-cancel") : ValidParams(p.params, given, u)
  BY <1>2 DEF Authorized
<1>4. PICK r \in RolesOf[u] \cup Everyone : p \in Grants[r]
  BY <1>3 DEF Matching, Permissions
<1>5. ObjectMatches(p, "action-cancel")
  BY <1>3 DEF Matching
<1>6. CASE r \in RolesOf[u]
  BY <1>4, <1>5, <1>6 DEF MayCancel, u
<1>7. CASE r \in Everyone
  <2>1. "owner" \in DOMAIN p.params /\ p.params["owner"] = Username
    BY <1>4, <1>5, <1>7, EveryoneAssumption
  <2>2. given["owner"] = u
    BY <1>3, <2>1, RolesAssumption DEF ValidParams, ParamMatches
  <2> QED
    BY <1>1, <2>2 DEF MayCancel, u
<1> QED
  BY <1>6, <1>7

\* A cancel in progress goes on knowing its action.
LEMMA CancelsKnowStep ==
  ASSUME TypeOK, TypeOK', CancelsKnowTheirAction, [Next]_vars
  PROVE  CancelsKnowTheirAction'
<1> DEFINE Knows(s) ==
      (slot[s].pc # "free" /\ slot[s].obj = "action-cancel") =>
        /\ status[slot[s].action] # "NONE"
        /\ slot[s].params.owner = about[slot[s].action].owner
        /\ slot[s].pc = "admitted" => MayCancel(slot[s].user, slot[s].action)
<1>1. ASSUME NEW s \in Slots, slot'[s] = slot[s] PROVE Knows(s)'
  <2> SUFFICES ASSUME slot[s].pc # "free", slot[s].obj = "action-cancel",
                      NEW a, a = slot[s].action, NEW u, u = slot[s].user
               PROVE  /\ status'[a] # "NONE"
                      /\ slot[s].params.owner = about'[a].owner
                      /\ slot[s].pc = "admitted" => MayCancel(u, a)'
    BY <1>1 DEF MayCancel
  <2>1. a \in Actions /\ u \in Users
    BY SlotFields
  <2>2. /\ status[a] # "NONE" /\ slot[s].params.owner = about[a].owner
        /\ slot[s].pc = "admitted" => MayCancel(u, a)
    BY DEF CancelsKnowTheirAction
  <2> QED
    BY <2>1, <2>2, RecordIsKept, MayCancelIsKept
<1>2. ASSUME NEW s \in Slots, slot'[s].pc = "free" PROVE Knows(s)'
  BY <1>2
<1>3. ASSUME NEW s \in Slots, NEW c \in Calls, Arrive(s, c) PROVE Knows(s)'
  BY <1>3 DEF Arrive, TypeOK
<1>4. ASSUME NEW s \in Slots, Decide(s) PROVE Knows(s)'
  <2>1. CASE slot[s].obj = "action-cancel"
    <3>1. /\ slot'[s] = [slot[s] EXCEPT !.pc = Decision(slot[s])]
          /\ UNCHANGED <<status, about>>
          /\ slot[s] \in [pc : Progress, user : Users, obj : {"action-cancel"},
                           params : [owner : Users], action : Actions]
      BY <1>4, <2>1, SlotFields DEF Decide, TypeOK
    <3>2. /\ slot'[s].action = slot[s].action /\ slot'[s].params = slot[s].params
          /\ slot'[s].user = slot[s].user /\ slot'[s].pc = Decision(slot[s])
      BY <3>1
    <3>3. slot[s].pc = "asking"
      BY <1>4 DEF Decide
    <3>4. /\ status[slot[s].action] # "NONE"
          /\ slot[s].params.owner = about[slot[s].action].owner
      BY <2>1, <3>3 DEF CancelsKnowTheirAction
    <3>5. Decision(slot[s]) = "admitted" => MayCancel(slot[s].user, slot[s].action)
      BY <2>1, <3>3, CancelIsAllowed
    <3> QED
      BY <3>1, <3>2, <3>4, <3>5 DEF MayCancel
  <2>2. CASE slot[s].obj # "action-cancel"
    <3>1. /\ slot'[s] = [slot[s] EXCEPT !.pc = Decision(slot[s])]
          /\ slot[s] \in [pc : Progress, user : Users, obj : Objects, params : {NoParams}]
      BY <1>4, <2>2, SlotFields DEF Decide, TypeOK
    <3> QED
      BY <2>2, <3>1
  <2> QED
    BY <2>1, <2>2
<1>5. ASSUME NEW s \in Slots, NEW t \in Slots,
             \/ \E c \in Calls : Arrive(s, c)
             \/ Decide(s)
             \/ \E a \in Actions : Create(s, a)
             \/ CancelAction(s) \/ GiveUp(s)
      PROVE  Knows(t)'
  <2>1. CASE t # s
    <3>1. slot'[t] = slot[t]
      BY <1>5, <2>1 DEF Arrive, Decide, Create, CancelAction, GiveUp, TypeOK
    <3> QED
      BY <1>1, <3>1
  <2>2. CASE t = s
    <3>1. ASSUME (\E a \in Actions : Create(s, a)) \/ CancelAction(s) \/ GiveUp(s)
          PROVE  slot'[s].pc = "free"
      BY <3>1 DEF Create, CancelAction, GiveUp, TypeOK, Free
    <3> QED
      BY <1>2, <1>3, <1>4, <1>5, <2>2, <3>1
  <2> QED
    BY <2>1, <2>2
<1>6. ASSUME UNCHANGED slot, NEW s \in Slots PROVE Knows(s)'
  BY <1>1, <1>6
<1> HIDE DEF Knows
<1>7. \A s \in Slots : Knows(s)'
  BY <1>5, <1>6 DEF Next, WorkerWrites, Propagate, Toggle, Tick, vars
<1> QED
  BY <1>7 DEF Knows, CancelsKnowTheirAction

\* Only an admitted cancel cancels.
LEMMA CancelStep ==
  ASSUME TypeOK, CancelsKnowTheirAction, CancelsAreKept, OnlyOwnersCancel, [Next]_vars
  PROVE  CancelsAreKept' /\ OnlyOwnersCancel'
<1>1. ASSUME NEW pair \in cancelledBy
      PROVE  status'[pair[2]] # "NONE" /\ MayCancel(pair[1], pair[2])'
  <2>1. /\ pair[1] \in Users /\ pair[2] \in Actions
        /\ status[pair[2]] # "NONE" /\ MayCancel(pair[1], pair[2])
    BY DEF TypeOK, CancelsAreKept, OnlyOwnersCancel
  <2> QED
    BY <2>1, RecordIsKept, MayCancelIsKept
<1>2. ASSUME NEW s \in Slots, CancelAction(s)
      PROVE  CancelsAreKept' /\ OnlyOwnersCancel'
  <2> SUFFICES ASSUME NEW a, a = slot[s].action, NEW u, u = slot[s].user
               PROVE  CancelsAreKept' /\ OnlyOwnersCancel'
    OBVIOUS
  <2>1. /\ a \in Actions /\ u \in Users
        /\ MayCancel(u, a) /\ status[a] # "NONE"
        /\ cancelledBy' = cancelledBy \cup {<<u, a>>}
        /\ \A b \in Actions \ {a} : status'[b] = status[b]
    BY <1>2, SlotFields
       DEF CancelAction, CancelsKnowTheirAction, Record!Cancel, TypeOK
  <2>2. status'[a] # "NONE" /\ MayCancel(u, a)'
    BY <2>1, RecordIsKept, MayCancelIsKept
  <2>3. ASSUME NEW pair \in cancelledBy'
        PROVE  status'[pair[2]] # "NONE" /\ MayCancel(pair[1], pair[2])'
    <3>1. CASE pair \in cancelledBy
      BY <1>1, <3>1
    <3>2. CASE pair = <<u, a>>
      <4>1. pair[1] = u /\ pair[2] = a
        BY <3>2
      <4> QED
        BY <2>2, <4>1 DEF MayCancel
    <3> QED
      BY <2>1, <2>3, <3>1, <3>2
  <2>4. ASSUME NEW b \in Actions, status'[b] = "CANCELLED"
        PROVE  \E v \in Users : <<v, b>> \in cancelledBy'
    BY <2>1, <2>4 DEF CancelsAreKept
  <2> QED
    BY <2>3, <2>4 DEF OnlyOwnersCancel, CancelsAreKept
<1>3. ASSUME cancelledBy' = cancelledBy,
             \A b \in Actions : status'[b] = "CANCELLED" => status[b] = "CANCELLED"
      PROVE  CancelsAreKept' /\ OnlyOwnersCancel'
  BY <1>1, <1>3 DEF CancelsAreKept, OnlyOwnersCancel
<1>4. ASSUME NEW s \in Slots, NEW a \in Actions, Create(s, a)
      PROVE  CancelsAreKept' /\ OnlyOwnersCancel'
  BY <1>3, <1>4 DEF Create, Record!Submit, TypeOK
<1>5. ASSUME NEW a \in Actions, WorkerWrites(a)
      PROVE  CancelsAreKept' /\ OnlyOwnersCancel'
  BY <1>3, <1>5 DEF WorkerWrites, Record!Begin, Record!Conclude, TypeOK
<1>6. ASSUME UNCHANGED <<status, cancelledBy>>
      PROVE  CancelsAreKept' /\ OnlyOwnersCancel'
  BY <1>3, <1>6
<1> QED
  BY <1>2, <1>4, <1>5, <1>6 DEF Next, Arrive, Decide, GiveUp, Propagate, Toggle, Tick, vars

-----------------------------------------------------------------------------
\* A user who has limits has a largest one, and it is at least 1.
LEMMA LargestLimit ==
  ASSUME NEW u \in Users, NEW obj \in {c.obj : c \in Calls} \cup {"action-cancel"},
         Limited(u, obj)
  PROVE  /\ MaxOps(u, obj) \in Limits(u, obj)
         /\ MaxOps(u, obj) \in Nat \ {0}
         /\ \A k \in Limits(u, obj) : k \in Nat \ {0} /\ k <= MaxOps(u, obj)
<1>1. \E n \in Limits(u, obj) : \A k \in Limits(u, obj) : k <= n
  BY CallsAssumption
<1>2. /\ MaxOps(u, obj) \in Limits(u, obj)
      /\ \A k \in Limits(u, obj) : k <= MaxOps(u, obj)
  BY <1>1 DEF MaxOps
<1>3. ASSUME NEW k \in Limits(u, obj) PROVE k \in Nat \ {0}
  <2>1. PICK p \in Matching(u, obj) : k = p.max_ops /\ k # Undefined
    BY DEF Limits
  <2>2. PICK r \in DOMAIN Grants : p \in Grants[r]
    BY RolesAssumption DEF Matching, Permissions
  <2>3. k \in Nat \cup {Null}
    BY <2>1, <2>2, RolesAssumption
  <2> QED
    BY <2>3 DEF Limited
<1> QED
  BY <1>2, <1>3

LEMMA MaxOpsIsMax ==
  ASSUME NEW u \in Users, NEW c \in Calls, Limited(u, c.obj)
  PROVE  /\ MaxOps(u, c.obj) \in Limits(u, c.obj)
         /\ MaxOps(u, c.obj) \in Nat \ {0}
         /\ \A k \in Limits(u, c.obj) : k \in Nat \ {0} /\ k <= MaxOps(u, c.obj)
  BY LargestLimit

\* The actions of the user's that count against max_ops, by the index.
Counted(u, obj) ==
  {a \in Actions : /\ index[a].status \notin {"NONE", "CANCELLED"}
                   /\ about[a].owner = u /\ about[a].name = obj
                   /\ index[a].updated + Window >= clock}

\* OPA counts each of them once.
LEMMA EachCountsOnce ==
  ASSUME NEW u, NEW obj
  PROVE  /\ IsFiniteSet(Counted(u, obj))
         /\ Cardinality(Relevant(RecentActions(u), obj)) = Cardinality(Counted(u, obj))
<1> DEFINE C == Counted(u, obj)
           R == Relevant(RecentActions(u), obj)
           f == [a \in C |-> [id |-> a, name |-> about[a].name, status |-> index[a].status]]
<1>1. IsFiniteSet(C)
  BY FS_Subset, ThrottleAssumption DEF Counted
<1>2. \A a \in C : f[a] \in R
  BY DEF Counted, Relevant, RecentActions
<1>3. ASSUME NEW x \in R PROVE \E a \in C : f[a] = x
  <2>1. PICK a \in Actions :
          /\ x = [id |-> a, name |-> about[a].name, status |-> index[a].status]
          /\ index[a].status # "NONE" /\ about[a].owner = u
          /\ index[a].updated + Window >= clock
    BY DEF Relevant, RecentActions
  <2>2. about[a].name = obj /\ index[a].status # "CANCELLED"
    BY <2>1 DEF Relevant
  <2>3. a \in C
    BY <2>1, <2>2 DEF Counted
  <2> QED
    BY <2>1, <2>3
<1>4. ASSUME NEW a \in C, NEW b \in C, f[a] = f[b] PROVE a = b
  <2>1. f[a].id = a /\ f[b].id = b
    OBVIOUS
  <2> QED
    BY <1>4, <2>1
<1>5. f \in [C -> R]
  BY <1>2
<1> HIDE DEF f, C, R
<1>6. f \in Surjection(C, R) /\ f \in Injection(C, R)
  BY <1>3, <1>4, <1>5 DEF Surjection, Injection, IsInjective
<1>7. Cardinality(R) = Cardinality(C)
  BY <1>1, <1>6, FS_Surjection
<1> QED
  BY <1>1, <1>7 DEF C, R

\* A user who has limits is within them only if the API has answered OPA.
LEMMA WithinMeansCounted ==
  ASSUME NEW u \in Users, NEW obj \in {c.obj : c \in Calls} \cup {"action-cancel"},
         Limited(u, obj), WithinRateLimits(u, obj, FetchRecentActions(u))
  PROVE  apiUp /\ Cardinality(Counted(u, obj)) <= MaxOps(u, obj) - 1
<1>1. PICK p \in Matching(u, obj) : WithinMaxOps(p.max_ops, obj, FetchRecentActions(u))
  BY DEF WithinRateLimits
<1>2. p.max_ops \in Limits(u, obj)
  BY <1>1 DEF WithinMaxOps, Limits
<1>3. /\ FetchRecentActions(u) # NoReply
      /\ Cardinality(Relevant(FetchRecentActions(u), obj)) < p.max_ops
  BY <1>1, <1>2 DEF WithinMaxOps, Limited
<1>4. apiUp /\ FetchRecentActions(u) = RecentActions(u)
  BY <1>3 DEF FetchRecentActions
<1>5. Cardinality(Counted(u, obj)) < p.max_ops
  BY <1>3, <1>4, EachCountsOnce
<1>6. Cardinality(Counted(u, obj)) \in Nat
  BY EachCountsOnce, FS_CardinalityType
<1>7. p.max_ops \in Nat /\ p.max_ops <= MaxOps(u, obj) /\ MaxOps(u, obj) \in Nat
  BY <1>2, LargestLimit
<1>8. Cardinality(Counted(u, obj)) <= MaxOps(u, obj) - 1
  BY <1>5, <1>6, <1>7
<1> QED
  BY <1>4, <1>8

\* What the index does not count it has missed.
LEMMA CreatedIsCountedOrLags ==
  ASSUME TypeOK, CancelsAreKept, NEW u \in Users, NEW obj
  PROVE  CreatedWithin(u, obj) \subseteq Counted(u, obj) \cup Lagging
<1> SUFFICES ASSUME NEW a \in CreatedWithin(u, obj), a \notin Lagging
             PROVE  a \in Counted(u, obj)
  BY DEF CreatedWithin, Lagging
<1>1. /\ a \in Actions /\ status[a] # "NONE"
      /\ about[a].owner = u /\ about[a].name = obj
      /\ about[a].created + Window >= clock
  BY DEF CreatedWithin
<1>2. status[a] # "CANCELLED"
  BY DEF CreatedWithin, CancelsAreKept
<1>3. index[a].status = status[a] /\ index[a].updated = updated[a]
  BY <1>1 DEF Lagging, Row
<1>4. about[a].created \in Nat /\ updated[a] \in Nat /\ about[a].created <= updated[a]
  BY <1>1 DEF TypeOK
<1>5. updated[a] + Window >= clock
  BY <1>1, <1>4, ThrottleAssumption DEF TypeOK
<1> QED
  BY <1>1, <1>2, <1>3, <1>5 DEF Counted

\* A request is admitted while its user's actions are within the limit, but for
\* those the index has missed.
LEMMA AdmittedMeansRoom ==
  ASSUME TypeOK, CancelsAreKept, NEW u \in Users, NEW c \in Calls, Limited(u, c.obj),
         WithinRateLimits(u, c.obj, FetchRecentActions(u))
  PROVE  Cardinality(CreatedWithin(u, c.obj)) <= MaxOps(u, c.obj) - 1 + MaxLag
<1> DEFINE Cr == CreatedWithin(u, c.obj)
           Co == Counted(u, c.obj)
<1>1. IsFiniteSet(Co) /\ IsFiniteSet(Lagging)
  BY EachCountsOnce, FS_Subset, ThrottleAssumption DEF Lagging
<1>2. /\ IsFiniteSet(Co \cup Lagging) /\ IsFiniteSet(Co \cap Lagging)
      /\ Cardinality(Co \cup Lagging)
           = Cardinality(Co) + Cardinality(Lagging) - Cardinality(Co \cap Lagging)
  BY <1>1, FS_Union, FS_Intersection
<1>3. /\ Cardinality(Co) \in Nat /\ Cardinality(Lagging) \in Nat
      /\ Cardinality(Co \cap Lagging) \in Nat
  BY <1>1, <1>2, FS_CardinalityType
<1>4. Cr \subseteq Co \cup Lagging
  BY CreatedIsCountedOrLags
<1>5. /\ Cardinality(Cr) <= Cardinality(Co \cup Lagging)
      /\ Cardinality(Cr) \in Nat
  BY <1>2, <1>4, FS_Subset, FS_CardinalityType
<1>6. Cardinality(Co) <= MaxOps(u, c.obj) - 1 /\ Cardinality(Lagging) <= MaxLag
  BY WithinMeansCounted DEF TypeOK
<1>7. MaxOps(u, c.obj) \in Nat /\ MaxLag \in Nat
  BY MaxOpsIsMax, ThrottleAssumption
<1> HIDE DEF Cr, Co
<1>8. Cardinality(Cr) <= MaxOps(u, c.obj) - 1 + MaxLag
  BY <1>2, <1>3, <1>5, <1>6, <1>7
<1> QED
  BY <1>8 DEF Cr

-----------------------------------------------------------------------------
\* The sets of the bound are finite.
LEMMA BoundedSets ==
  ASSUME NEW u, NEW obj
  PROVE  /\ IsFiniteSet(CreatedWithin(u, obj)) /\ IsFiniteSet(Admitted(u, obj))
         /\ Cardinality(CreatedWithin(u, obj)) \in Nat
         /\ Cardinality(Admitted(u, obj)) \in Nat /\ Cardinality(Slots) \in Nat
         /\ Cardinality(Admitted(u, obj)) <= Cardinality(Slots)
<1>1. CreatedWithin(u, obj) \subseteq Actions /\ Admitted(u, obj) \subseteq Slots
  BY DEF CreatedWithin, Admitted
<1> QED
  BY <1>1, FS_Subset, FS_CardinalityType, ThrottleAssumption

\* Within(u, c): the bound for one user and one action.
Within(u, c) ==
  Cardinality(CreatedWithin(u, c.obj)) + Cardinality(Admitted(u, c.obj))
    <= MaxOps(u, c.obj) - 1 + Cardinality(Slots) + MaxLag

\* It stays when nothing is created or admitted.
LEMMA WithinShrinks ==
  ASSUME NEW u \in Users, NEW c \in Calls, Limited(u, c.obj), Within(u, c),
         CreatedWithin(u, c.obj)' \subseteq CreatedWithin(u, c.obj),
         Admitted(u, c.obj)' \subseteq Admitted(u, c.obj)
  PROVE  Within(u, c)'
<1> DEFINE A == CreatedWithin(u, c.obj)
           B == Admitted(u, c.obj)
<1>1. /\ IsFiniteSet(A) /\ IsFiniteSet(B)
      /\ Cardinality(A) \in Nat /\ Cardinality(B) \in Nat /\ Cardinality(Slots) \in Nat
  BY BoundedSets
<1>2. /\ Cardinality(A') <= Cardinality(A) /\ Cardinality(A') \in Nat
      /\ Cardinality(B') <= Cardinality(B) /\ Cardinality(B') \in Nat
  BY <1>1, FS_Subset, FS_CardinalityType
<1>3. MaxOps(u, c.obj) \in Nat /\ MaxLag \in Nat
  BY MaxOpsIsMax, ThrottleAssumption
<1>4. Cardinality(A) + Cardinality(B) <= MaxOps(u, c.obj) - 1 + Cardinality(Slots) + MaxLag
  BY DEF Within
<1> HIDE DEF A, B
<1>5. Cardinality(A') + Cardinality(B') <= MaxOps(u, c.obj) - 1 + Cardinality(Slots) + MaxLag
  BY <1>1, <1>2, <1>3, <1>4
<1> QED
  BY <1>5 DEF A, B, Within

\* It stays when an admitted request creates its action, ...
LEMMA WithinTrades ==
  ASSUME NEW u \in Users, NEW c \in Calls, Limited(u, c.obj), Within(u, c),
         NEW a, NEW s \in Admitted(u, c.obj),
         CreatedWithin(u, c.obj)' \subseteq CreatedWithin(u, c.obj) \cup {a},
         Admitted(u, c.obj)' \subseteq Admitted(u, c.obj) \ {s}
  PROVE  Within(u, c)'
<1> DEFINE A == CreatedWithin(u, c.obj)
           B == Admitted(u, c.obj)
<1>1. /\ IsFiniteSet(A) /\ IsFiniteSet(B)
      /\ Cardinality(A) \in Nat /\ Cardinality(B) \in Nat /\ Cardinality(Slots) \in Nat
  BY BoundedSets
<1> HIDE DEF A
<1>2. /\ IsFiniteSet(A \cup {a}) /\ Cardinality(A \cup {a}) <= Cardinality(A) + 1
      /\ IsFiniteSet(B \ {s}) /\ Cardinality(B \ {s}) = Cardinality(B) - 1
  <2>1. IsFiniteSet(A \cup {a}) /\ Cardinality(A \cup {a}) <= Cardinality(A) + 1
    <3>1. /\ IsFiniteSet(A \cup {a})
          /\ Cardinality(A \cup {a}) = IF a \in A THEN Cardinality(A) ELSE Cardinality(A) + 1
      BY <1>1, FS_AddElement, Zenon
    <3> QED
      BY <1>1, <3>1
  <2>2. s \in B
    OBVIOUS
  <2> HIDE DEF B
  <2>3. IsFiniteSet(B \ {s}) /\ Cardinality(B \ {s}) = Cardinality(B) - 1
    BY <1>1, <2>2, FS_RemoveElement
  <2> QED
    BY <2>1, <2>3
<1>3. /\ Cardinality(A') <= Cardinality(A \cup {a}) /\ Cardinality(A') \in Nat
      /\ Cardinality(B') <= Cardinality(B \ {s}) /\ Cardinality(B') \in Nat
      /\ Cardinality(A \cup {a}) \in Nat
  BY <1>2, FS_Subset, FS_CardinalityType DEF A
<1>4. MaxOps(u, c.obj) \in Nat /\ MaxLag \in Nat
  BY MaxOpsIsMax, ThrottleAssumption
<1>5. Cardinality(A) + Cardinality(B) <= MaxOps(u, c.obj) - 1 + Cardinality(Slots) + MaxLag
  BY DEF Within, A
<1> HIDE DEF B
<1>6. Cardinality(A') + Cardinality(B') <= MaxOps(u, c.obj) - 1 + Cardinality(Slots) + MaxLag
  BY <1>1, <1>2, <1>3, <1>4, <1>5
<1> QED
  BY <1>6 DEF A, B, Within

\* ... and is there whenever OPA admits a request.
LEMMA WithinStarts ==
  ASSUME TypeOK, CancelsAreKept, NEW u \in Users, NEW c \in Calls, Limited(u, c.obj),
         WithinRateLimits(u, c.obj, FetchRecentActions(u)),
         CreatedWithin(u, c.obj)' = CreatedWithin(u, c.obj)
  PROVE  Within(u, c)'
<1> DEFINE A == CreatedWithin(u, c.obj)
           B == Admitted(u, c.obj)
<1>1. /\ Cardinality(A) <= MaxOps(u, c.obj) - 1 + MaxLag
      /\ Cardinality(A) \in Nat /\ Cardinality(Slots) \in Nat
  BY BoundedSets, AdmittedMeansRoom
<1>2. Cardinality(B') <= Cardinality(Slots) /\ Cardinality(B') \in Nat
  <2>1. B' \subseteq Slots
    BY DEF Admitted
  <2> QED
    BY <2>1, FS_Subset, FS_CardinalityType, ThrottleAssumption
<1>3. MaxOps(u, c.obj) \in Nat /\ MaxLag \in Nat
  BY MaxOpsIsMax, ThrottleAssumption
<1>4. A' = A
  OBVIOUS
<1> HIDE DEF A, B
<1>5. Cardinality(A') + Cardinality(B') <= MaxOps(u, c.obj) - 1 + Cardinality(Slots) + MaxLag
  BY <1>1, <1>2, <1>3, <1>4
<1> QED
  BY <1>5 DEF A, B, Within

\* The bound is kept by every step.
LEMMA WithinStep ==
  ASSUME TypeOK, CancelsAreKept, AdmittedWithinBound, [Next]_vars,
         NEW u \in Users, NEW c \in Calls, Limited(u, c.obj)
  PROVE  Within(u, c)'
<1>0. Within(u, c)
  BY DEF AdmittedWithinBound, Within
<1>1. /\ cancelledBy \subseteq cancelledBy'
      /\ clock \in Nat /\ clock' \in Nat /\ clock <= clock'
      /\ \A a \in Actions : status[a] # "NONE" => about[a].created \in Nat
  <2>1. clock \in Nat /\ \A a \in Actions : status[a] # "NONE" => about[a].created \in Nat
    BY ThrottleAssumption DEF TypeOK
  <2>2. cancelledBy \subseteq cancelledBy'
    BY DEF Next, Arrive, Decide, Create, CancelAction, GiveUp, WorkerWrites,
           Propagate, Toggle, Tick, vars
  <2>3. clock' = clock \/ clock' = clock + 1
    BY DEF Next, Arrive, Decide, Create, CancelAction, GiveUp, WorkerWrites,
           Propagate, Toggle, Tick, vars
  <2> QED
    BY <2>1, <2>2, <2>3
\* A record that was there before the step was counted before it.
<1>2. ASSUME NEW a \in CreatedWithin(u, c.obj)', status[a] # "NONE"
      PROVE  a \in CreatedWithin(u, c.obj)
  <2>1. /\ a \in Actions
        /\ about'[a].owner = u /\ about'[a].name = c.obj
        /\ about'[a].created + Window >= clock'
        /\ \A v \in Users : <<v, a>> \notin cancelledBy'
    BY DEF CreatedWithin
  <2>2. about'[a] = about[a] /\ about[a].created \in Nat
    BY <1>1, <1>2, <2>1, RecordIsKept
  <2>3. about[a].created + Window >= clock
    BY <1>1, <2>1, <2>2, ThrottleAssumption
  <2> QED
    BY <1>1, <1>2, <2>1, <2>2, <2>3 DEF CreatedWithin
<1>3. ASSUME NEW s \in Slots, NEW a \in Actions, Create(s, a) PROVE Within(u, c)'
  <2>1. \A b \in Actions \ {a} : status'[b] = status[b]
    BY <1>3 DEF Create, Record!Submit, TypeOK
  <2>2. /\ slot[s].pc = "admitted"
        /\ slot' = [slot EXCEPT ![s] = Free]
        /\ about'[a].owner = slot[s].user /\ about'[a].name = slot[s].obj
    BY <1>3 DEF Create, TypeOK
  <2>3. Admitted(u, c.obj)' \subseteq Admitted(u, c.obj) \ {s}
    BY <2>2 DEF Admitted, Free, TypeOK
  <2>4. ASSUME NEW b \in CreatedWithin(u, c.obj)', b # a
        PROVE  b \in CreatedWithin(u, c.obj)
    <3>1. b \in Actions /\ status'[b] # "NONE"
      BY DEF CreatedWithin
    <3> QED
      BY <1>2, <2>1, <2>4, <3>1
  <2>5. CASE s \in Admitted(u, c.obj)
    <3>1. CreatedWithin(u, c.obj)' \subseteq CreatedWithin(u, c.obj) \cup {a}
      BY <2>4
    <3> QED
      BY <1>0, <2>3, <2>5, <3>1, WithinTrades
  <2>6. CASE s \notin Admitted(u, c.obj)
    <3>1. a \notin CreatedWithin(u, c.obj)'
      BY <2>2, <2>6 DEF CreatedWithin, Admitted
    <3>2. CreatedWithin(u, c.obj)' \subseteq CreatedWithin(u, c.obj)
      BY <2>4, <3>1
    <3> QED
      BY <1>0, <2>3, <3>2, WithinShrinks
  <2> QED
    BY <2>5, <2>6
\* Every other step makes no record.
<1>4. ASSUME \A s \in Slots : \A a \in Actions : ~ Create(s, a)
      PROVE  CreatedWithin(u, c.obj)' \subseteq CreatedWithin(u, c.obj)
  <2> SUFFICES ASSUME NEW a \in CreatedWithin(u, c.obj)'
               PROVE  status[a] # "NONE"
    BY <1>2
  <2>1. a \in Actions /\ status'[a] # "NONE"
    BY DEF CreatedWithin
  <2> QED
    BY <1>4, <2>1, RecordIsKept
<1>5. ASSUME Admitted(u, c.obj)' \subseteq Admitted(u, c.obj),
             \A s \in Slots : \A a \in Actions : ~ Create(s, a)
      PROVE  Within(u, c)'
  BY <1>0, <1>4, <1>5, WithinShrinks
<1>6. ASSUME NEW s \in Slots, Decide(s) PROVE Within(u, c)'
  <2>1. /\ UNCHANGED <<status, about, clock, cancelledBy>>
        /\ slot' = [slot EXCEPT ![s] = [slot[s] EXCEPT !.pc = Decision(slot[s])]]
        /\ slot[s].pc = "asking"
    BY <1>6 DEF Decide
  <2>2. CreatedWithin(u, c.obj)' = CreatedWithin(u, c.obj)
    BY <2>1 DEF CreatedWithin
  <2>3. CASE /\ Decision(slot[s]) = "admitted"
             /\ slot[s].user = u /\ slot[s].obj = c.obj
    <3>1. WithinRateLimits(u, c.obj, FetchRecentActions(u))
      BY <2>3 DEF Decision
    <3> QED
      BY <2>2, <3>1, WithinStarts
  <2>4. CASE ~ (/\ Decision(slot[s]) = "admitted"
                /\ slot[s].user = u /\ slot[s].obj = c.obj)
    <3>1. \A t \in Slots \ {s} : slot'[t] = slot[t]
      BY <2>1 DEF TypeOK
    <3>2. s \notin Admitted(u, c.obj)'
      <4>1. /\ slot'[s].user = slot[s].user /\ slot'[s].obj = slot[s].obj
            /\ slot'[s].pc = Decision(slot[s])
        BY <2>1, SlotFields DEF TypeOK
      <4> QED
        BY <2>4, <4>1 DEF Admitted
    <3>3. Admitted(u, c.obj)' \subseteq Admitted(u, c.obj)
      BY <3>1, <3>2 DEF Admitted
    <3> QED
      BY <1>0, <2>2, <3>3, WithinShrinks
  <2> QED
    BY <2>3, <2>4
\* A slot that becomes another one is not admitted.
<1>7. ASSUME NEW s \in Slots, slot'[s].pc # "admitted",
             \A t \in Slots \ {s} : slot'[t] = slot[t]
      PROVE  Admitted(u, c.obj)' \subseteq Admitted(u, c.obj)
  BY <1>7 DEF Admitted
<1>8. ASSUME NEW s \in Slots,
             (\E call \in Calls : Arrive(s, call)) \/ CancelAction(s) \/ GiveUp(s)
      PROVE  Admitted(u, c.obj)' \subseteq Admitted(u, c.obj)
  BY <1>7, <1>8 DEF Arrive, CancelAction, GiveUp, Free, TypeOK
<1>9. ASSUME UNCHANGED slot PROVE Admitted(u, c.obj)' \subseteq Admitted(u, c.obj)
  BY <1>9 DEF Admitted
<1> QED
  BY <1>3, <1>5, <1>6, <1>8, <1>9
     DEF Next, WorkerWrites, Propagate, Toggle, Tick, vars

-----------------------------------------------------------------------------
LEMMA ThrottleInit ==
  ASSUME Init
  PROVE  ThrottleIInv
<1>1. /\ status = [a \in Actions |-> "NONE"] /\ open = {}
  BY DEF Init, Record!Init
<1>2. Lagging = {} /\ Cardinality(Lagging) <= MaxLag
  <2>1. Lagging = {}
    BY <1>1 DEF Init, Lagging, Row
  <2> QED
    BY <2>1, FS_EmptySet, ThrottleAssumption
<1>3. TypeOK
  BY <1>1, <1>2, ThrottleAssumption DEF Init, TypeOK, SlotStates, Statuses
<1>4. OnlyOwnersCancel /\ CancelsKnowTheirAction /\ CancelsAreKept
  BY <1>1 DEF Init, OnlyOwnersCancel, CancelsKnowTheirAction, CancelsAreKept, Free
<1>5. ASSUME NEW u \in Users, NEW c \in Calls, Limited(u, c.obj)
      PROVE  Within(u, c)
  <2>1. CreatedWithin(u, c.obj) = {} /\ Admitted(u, c.obj) = {}
    BY <1>1 DEF Init, CreatedWithin, Admitted, Free
  <2>2. /\ Cardinality({}) = 0 /\ Cardinality(Slots) \in Nat
        /\ MaxOps(u, c.obj) \in Nat \ {0} /\ MaxLag \in Nat
    BY <1>5, FS_EmptySet, BoundedSets, MaxOpsIsMax, ThrottleAssumption
  <2>3. 0 + 0 <= MaxOps(u, c.obj) - 1 + Cardinality(Slots) + MaxLag
    BY <2>2
  <2> QED
    BY <2>1, <2>2, <2>3 DEF Within
<1> QED
  BY <1>3, <1>4, <1>5 DEF ThrottleIInv, AdmittedWithinBound, Within

LEMMA ThrottleStep ==
  ASSUME ThrottleIInv, [Next]_vars
  PROVE  ThrottleIInv'
<1> USE DEF ThrottleIInv
<1>1. TypeOK'
  BY TypeStep
<1>2. CancelsKnowTheirAction'
  BY <1>1, CancelsKnowStep
<1>3. CancelsAreKept' /\ OnlyOwnersCancel'
  BY CancelStep
<1>4. ASSUME NEW u \in Users, NEW c \in Calls, Limited(u, c.obj)
      PROVE  Within(u, c)'
  BY <1>4, WithinStep
<1>5. AdmittedWithinBound'
  BY <1>4 DEF AdmittedWithinBound, Within
<1> QED
  BY <1>1, <1>2, <1>3, <1>5

\* The inductive invariant holds: what is behind the theorems that follow.
THEOREM ThrottleInvariance == Spec => []ThrottleIInv
<1>1. Init => ThrottleIInv
  BY ThrottleInit
<1>2. ThrottleIInv /\ [Next]_vars => ThrottleIInv'
  BY ThrottleStep
<1> QED
  BY <1>1, <1>2, PTL DEF Spec

\* A limit is exceeded by no more than the requests that were in progress
\* together and the records the index was missing (rate_limiting.rego and
\* find_by_owner against create).
THEOREM OvershootBound == Spec => []OvershootIsBounded
<1>1. ThrottleIInv => OvershootIsBounded
  <2> SUFFICES ASSUME ThrottleIInv, NEW u \in Users, NEW c \in Calls, Limited(u, c.obj)
               PROVE  Cardinality(CreatedWithin(u, c.obj))
                        <= MaxOps(u, c.obj) - 1 + Cardinality(Slots) + MaxLag
    BY DEF OvershootIsBounded
  <2>1. Cardinality(CreatedWithin(u, c.obj)) + Cardinality(Admitted(u, c.obj))
          <= MaxOps(u, c.obj) - 1 + Cardinality(Slots) + MaxLag
    BY DEF ThrottleIInv, AdmittedWithinBound
  <2>2. /\ Cardinality(CreatedWithin(u, c.obj)) \in Nat
        /\ Cardinality(Admitted(u, c.obj)) \in Nat /\ Cardinality(Slots) \in Nat
        /\ MaxOps(u, c.obj) \in Nat /\ MaxLag \in Nat
    BY BoundedSets, MaxOpsIsMax, ThrottleAssumption
  <2> QED
    BY <2>1, <2>2
<1> QED
  BY <1>1, ThrottleInvariance, PTL

\* Who has no role for it cancels only own actions (action_cancel, whose owner
\* parameter comes from the record it fetched before the decision).
THEOREM OwnersCancel == Spec => []OnlyOwnersCancel
<1>1. ThrottleIInv => OnlyOwnersCancel
  BY DEF ThrottleIInv
<1> QED
  BY <1>1, ThrottleInvariance, PTL

\* What OPA needs of its own account and of a missing reply: it may list the
\* actions of every user, without a limit, and a list is not no reply.
OpaMayList ==
  /\ \A u \in Users : Authorized(OpaUser, "action-list", [action_user |-> u])
  /\ WithinRateLimits(OpaUser, "action-list", NoReply)
  /\ NoReply \notin SUBSET [id : Actions, name : Objects \cup {Null}, status : Statuses]

\* What a user who has limits and an answer is refused for: every limit reached.
LEMMA RefusedMeansCounted ==
  ASSUME TypeOK, OpaMayList, apiUp, NEW u \in Users,
         NEW obj \in {c.obj : c \in Calls} \cup {"action-cancel"}, Limited(u, obj),
         ~ WithinRateLimits(u, obj, FetchRecentActions(u))
  PROVE  Cardinality(Counted(u, obj)) >= MaxOps(u, obj)
<1>1. FetchRecentActions(u) = RecentActions(u)
  BY DEF FetchRecentActions, OpaMayList
<1>2. RecentActions(u) # NoReply
  <2>1. \A a \in Actions : about[a].name \in Objects \cup {Null}
    BY DEF TypeOK, NoRecord
  <2>2. \A a \in Actions : index[a].status \in Statuses
    BY DEF TypeOK
  <2>3. RecentActions(u)
          \subseteq [id : Actions, name : Objects \cup {Null}, status : Statuses]
    BY <2>1, <2>2 DEF RecentActions
  <2> QED
    BY <2>3 DEF OpaMayList
<1>3. MaxOps(u, obj) \in Limits(u, obj) /\ MaxOps(u, obj) \in Nat \ {0}
  BY LargestLimit
<1>4. PICK p \in Matching(u, obj) : p.max_ops = MaxOps(u, obj) /\ p.max_ops # Undefined
  BY <1>3 DEF Limits
<1>5. ~ (Cardinality(Relevant(RecentActions(u), obj)) < MaxOps(u, obj))
  BY <1>1, <1>2, <1>4 DEF WithinRateLimits, WithinMaxOps
<1>6. Cardinality(Counted(u, obj)) \in Nat
  BY EachCountsOnce, FS_CardinalityType
<1> QED
  BY <1>3, <1>5, <1>6, EachCountsOnce

\* A request leaves "asking" with OPA's decision on it, or is given up.
LEMMA AnswersAreDecisions ==
  ASSUME TypeOK, [Next]_vars, NEW s \in Slots, slot[s].pc = "asking",
         slot'[s].pc \notin {"asking", "free"}
  PROVE  slot'[s].pc = Decision(slot[s])
<1>1. ASSUME NEW t \in Slots,
             \/ \E c \in Calls : Arrive(t, c)
             \/ \E a \in Actions : Create(t, a)
             \/ CancelAction(t) \/ GiveUp(t)
      PROVE  slot'[s] = slot[s]
  <2>1. \A r \in Slots \ {t} : slot'[r] = slot[r]
    BY <1>1 DEF Arrive, Create, CancelAction, GiveUp, TypeOK
  <2>2. CASE \E c \in Calls : Arrive(t, c)
    <3>1. PICK c \in Calls : Arrive(t, c)
      BY <2>2
    <3>2. slot'[t].pc = "asking"
      BY <3>1 DEF Arrive, TypeOK
    <3> QED
      BY <2>1, <3>2
  <2>3. CASE (\E a \in Actions : Create(t, a)) \/ CancelAction(t) \/ GiveUp(t)
    <3>1. slot' = [slot EXCEPT ![t] = Free]
      BY <2>3 DEF Create, CancelAction, GiveUp
    <3>2. slot'[t].pc = "free"
      BY <3>1 DEF TypeOK, Free
    <3> QED
      BY <2>1, <3>2
  <2> QED
    BY <1>1, <2>2, <2>3
<1>2. ASSUME NEW t \in Slots, t # s, Decide(t) PROVE slot'[s] = slot[s]
  BY <1>2 DEF Decide, TypeOK
<1>3. Decide(s)
  BY <1>1, <1>2 DEF Next, WorkerWrites, Propagate, Toggle, Tick, vars
<1>4. slot' = [slot EXCEPT ![s] = [slot[s] EXCEPT !.pc = Decision(slot[s])]]
  BY <1>3 DEF Decide
<1> QED
  BY <1>4, SlotFields DEF TypeOK

\* While the API answers OPA, nobody is refused for a rate that was not reached
\* (within_rate_limits and find_by_owner).
THEOREM RefusalsHaveCause ==
  ASSUME OpaMayList
  PROVE  Spec => RefusedForCause
<1> DEFINE Real(u, obj) ==
      {a \in Actions : /\ status[a] \notin {"NONE", "CANCELLED"}
                       /\ about[a].owner = u /\ about[a].name = obj
                       /\ updated[a] + Window >= clock}
           Caused ==
      \A s \in Slots :
        (slot[s].pc = "asking" /\ slot'[s].pc = "429" /\ apiUp /\ Lagging = {}
           /\ Limited(slot[s].user, slot[s].obj))
          => Cardinality(Real(slot[s].user, slot[s].obj))
               >= MaxOps(slot[s].user, slot[s].obj)
<1>1. ASSUME TypeOK, [Next]_vars PROVE Caused
  <2> SUFFICES ASSUME NEW s \in Slots, slot[s].pc = "asking", slot'[s].pc = "429",
                      apiUp, Lagging = {}, Limited(slot[s].user, slot[s].obj),
                      NEW u, u = slot[s].user, NEW obj, obj = slot[s].obj
               PROVE  Cardinality(Real(u, obj)) >= MaxOps(u, obj)
    OBVIOUS
  <2>1. u \in Users /\ obj \in {c.obj : c \in Calls} \cup {"action-cancel"}
    BY <1>1, SlotFields DEF Objects
  <2>3. Decision(slot[s]) = "429"
    BY <1>1, AnswersAreDecisions
  <2>4. ~ WithinRateLimits(u, obj, FetchRecentActions(u))
    BY <2>3 DEF Decision
  <2>5. Cardinality(Counted(u, obj)) >= MaxOps(u, obj)
    BY <1>1, <2>1, <2>4, RefusedMeansCounted
  <2>6. \A a \in Actions : index[a] = Row(a)
    BY DEF Lagging
  <2>7. Counted(u, obj) = Real(u, obj)
    <3>1. ASSUME NEW a \in Actions
          PROVE  index[a].status = status[a] /\ index[a].updated = updated[a]
      <4>1. index[a] = Row(a)
        BY <2>6
      <4> QED
        BY <4>1 DEF Row
    <3>2. ASSUME NEW a \in Actions PROVE a \in Counted(u, obj) <=> a \in Real(u, obj)
      BY <3>1 DEF Counted
    <3>3. Counted(u, obj) \subseteq Actions /\ Real(u, obj) \subseteq Actions
      BY DEF Counted
    <3> HIDE DEF Real
    <3> QED
      BY <3>2, <3>3
  <2> QED
    BY <2>5, <2>7
<1>2. ThrottleIInv => TypeOK
  BY DEF ThrottleIInv
<1>3. TypeOK /\ [Next]_vars =>
        [\A s \in Slots :
           (slot[s].pc = "asking" /\ slot'[s].pc = "429" /\ apiUp /\ Lagging = {}
              /\ Limited(slot[s].user, slot[s].obj)) =>
             Cardinality({a \in Actions :
                 /\ status[a] \notin {"NONE", "CANCELLED"}
                 /\ about[a].owner = slot[s].user /\ about[a].name = slot[s].obj
                 /\ updated[a] + Window >= clock})
               >= MaxOps(slot[s].user, slot[s].obj)]_vars
  BY <1>1
<1> QED
  BY <1>2, <1>3, ThrottleInvariance, PTL DEF Spec, RefusedForCause

\* Who is limited is admitted on a count only, and while it is below max_ops: if
\* the call for the recent actions fails, the answer is no (within_rate_limits).
THEOREM AdmissionsAreCounted ==
  Spec =>
    [][\A s \in Slots :
         (slot[s].pc = "asking" /\ slot'[s].pc = "admitted"
            /\ Limited(slot[s].user, slot[s].obj)) =>
           /\ apiUp
           /\ Cardinality(Counted(slot[s].user, slot[s].obj))
                < MaxOps(slot[s].user, slot[s].obj)]_vars
<1>1. ASSUME TypeOK, [Next]_vars, NEW s \in Slots,
             slot[s].pc = "asking", slot'[s].pc = "admitted",
             Limited(slot[s].user, slot[s].obj)
      PROVE  /\ apiUp
             /\ Cardinality(Counted(slot[s].user, slot[s].obj))
                  < MaxOps(slot[s].user, slot[s].obj)
  <2>1. /\ slot[s].user \in Users
        /\ slot[s].obj \in {c.obj : c \in Calls} \cup {"action-cancel"}
    BY <1>1, SlotFields DEF Objects
  <2>2. WithinRateLimits(slot[s].user, slot[s].obj, FetchRecentActions(slot[s].user))
    BY <1>1, AnswersAreDecisions DEF Decision
  <2>3. /\ apiUp
        /\ Cardinality(Counted(slot[s].user, slot[s].obj))
             <= MaxOps(slot[s].user, slot[s].obj) - 1
    BY <1>1, <2>1, <2>2, WithinMeansCounted
  <2>4. /\ Cardinality(Counted(slot[s].user, slot[s].obj)) \in Nat
        /\ MaxOps(slot[s].user, slot[s].obj) \in Nat
    BY <1>1, <2>1, EachCountsOnce, FS_CardinalityType, LargestLimit
  <2> QED
    BY <2>3, <2>4
<1>2. ThrottleIInv => TypeOK
  BY DEF ThrottleIInv
<1>3. TypeOK /\ [Next]_vars =>
        [\A s \in Slots :
           (slot[s].pc = "asking" /\ slot'[s].pc = "admitted"
              /\ Limited(slot[s].user, slot[s].obj)) =>
             /\ apiUp
             /\ Cardinality(Counted(slot[s].user, slot[s].obj))
                  < MaxOps(slot[s].user, slot[s].obj)]_vars
  BY <1>1
<1> QED
  BY <1>2, <1>3, ThrottleInvariance, PTL DEF Spec
=============================================================================
