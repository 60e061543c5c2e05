-------------------------- MODULE WorkloadChangeProofs --------------------------
(***************************************************************************)
(* Theorems about WorkloadChange: the restart and delete actions live as   *)
(* ActionLifecycle says, and what they report of the object is true.       *)
(***************************************************************************)
EXTENDS WorkloadChange, ActionLifecycleProofs

\* Every step of a restart or delete, of its body, of the cluster is a step of
\* ActionLifecycle or leaves its variables alone.
LEMMA ChangeStepIsLifecycleStep == [ChangeNext]_changeVars => [Next]_vars
<1> SUFFICES ASSUME [ChangeNext]_changeVars PROVE [Next]_vars
  OBVIOUS
<1>1. CASE OutsideTasks
  BY <1>1 DEF OutsideTasks, Next
<1>2. ASSUME NEW a \in Actions, AskFor(a) PROVE [Next]_vars
  BY <1>2 DEF AskFor, Next
<1>3. ASSUME NEW w \in Workers, Proceed(w) \/ RequestFails(w) \/ AnswerLost(w)
      PROVE  [Next]_vars
  <2>1. RunAsksForRetry(w) \/ RunRaises(w) \/ RunReturns(w) \/ UNCHANGED vars
    BY <1>3 DEF Proceed, NotConnected, KindNotSupported, CheckPod, Change, NotFound,
                RequestFails, AnswerLost
  <2> QED
    BY <2>1 DEF Execute, Next
<1>4. ASSUME NEW w \in Workers, AroundChange(w) \/ Killed(w) PROVE [Next]_vars
  BY <1>4 DEF AroundChange, Killed, Execute, Next
<1>5. CASE Vanish \/ Move
  BY <1>5 DEF Vanish, Move
<1>6. CASE UNCHANGED changeVars
  BY <1>6 DEF changeVars
<1> QED
  BY <1>1, <1>2, <1>3, <1>4, <1>5, <1>6 DEF ChangeNext, ChangeExecute

\* WorkloadChange implements ActionLifecycle (without the fairness, which TLC
\* checks).
THEOREM ChangeImplementsLifecycle == ChangeSpec => Spec
<1>1. ChangeInit => Init
  BY DEF ChangeInit
<1> QED
  BY <1>1, ChangeStepIsLifecycleStep, PTL DEF ChangeSpec, Spec

\* The restart and delete actions keep ActionLifecycle's inductive invariant: one
\* carrier per copy, bounded runs, nothing forgotten.
THEOREM ChangeKeepsLifecycleInvariant == ChangeSpec => []IInv
  BY ChangeImplementsLifecycle, Invariance, PTL

\* Hence a restart or delete keeps what is proved of an action whatever its body
\* does: its record begins and ends as ActionRecord says, its final state stays,
\* SUCCESS and FAILURE tell how the body ended, and none is forgotten.
THEOREM ChangeKeepsPromises ==
  ChangeSpec => Record!Spec /\ FinalIsFinal /\ []OutcomeIsHonest /\ []NothingForgotten
  BY ChangeImplementsLifecycle, ImplementsRecordSafety, FinalStatesAreFinal, ReportsAreHonest,
     AcceptedIsNotForgotten

-----------------------------------------------------------------------------
\* Worker w sends the request that changes the object, and it is carried out.
Requested(w) ==
  /\ pc[w] = "running"
  /\ Patching(w) \/ Deleting(w)
  /\ Carried(w)
  /\ asked' = asked /\ moves' = moves /\ target' = target

\* The ways a step treats the object: a request changes it, a controller or a
\* user does, its termination ends, or nothing.
LEMMA ObjectSteps ==
  ASSUME ChangeTypeOK, [ChangeNext]_changeVars
  PROVE  /\ target' = target
         /\ \/ \E w \in Workers :
                 /\ Requested(w)
                 /\ RunReturns(w) \/ lost' = lost + 1
            \/ UNCHANGED <<object, changes, moves>>
            \/ /\ Vanish \/ Move
               /\ asked' = asked /\ changes' = changes
<1> USE DEF ChangeTypeOK
<1>1. CASE OutsideTasks
  BY <1>1 DEF OutsideTasks, work, counts
<1>2. ASSUME NEW a \in Actions, AskFor(a)
      PROVE  UNCHANGED <<target, object, changes, moves>>
  BY <1>2 DEF AskFor
<1>3. ASSUME NEW w \in Workers, Change(w) \/ AnswerLost(w)
      PROVE  /\ target' = target
             /\ Requested(w)
             /\ RunReturns(w) \/ lost' = lost + 1
  BY <1>3 DEF Change, AnswerLost, Requested, Patching, Deleting, Connected, Preparing,
              EndCall, RunReturns
<1>4. ASSUME NEW w \in Workers,
             \/ NotConnected(w) \/ KindNotSupported(w) \/ CheckPod(w) \/ NotFound(w)
             \/ RequestFails(w) \/ AroundChange(w) \/ Killed(w)
      PROVE  UNCHANGED <<target, object, changes, moves>>
  BY <1>4 DEF NotConnected, KindNotSupported, CheckPod, NotFound, RequestFails,
              AroundChange, Killed, EndCall, work, counts
<1>5. CASE Vanish \/ Move
  BY <1>5 DEF Vanish, Move, counts
<1>6. CASE UNCHANGED changeVars
  BY <1>6 DEF changeVars, work, counts
<1> QED
  BY <1>1, <1>2, <1>3, <1>4, <1>5, <1>6 DEF ChangeNext, ChangeExecute, Proceed

\* An object that is changed gets a new age and keeps its owner.
LEMMA AgedObject ==
  ASSUME NEW o \in Objects, NEW s \in {"live", "terminating", "absent"},
         NEW n \in [state : {s}, owned : {o.owned}, age : {o.age + 1}]
  PROVE  /\ n \in Objects /\ n.owned = o.owned
         /\ n.age = o.age + 1 /\ o.age \in Nat
<1>1. n = [state |-> s, owned |-> o.owned, age |-> o.age + 1]
  OBVIOUS
<1>2. o.owned \in BOOLEAN /\ o.age \in Nat
  BY DEF Objects
<1> QED
  BY <1>1, <1>2 DEF Objects

\* What stands under the name of age n.
LEMMA StandingObject ==
  ASSUME NEW n \in Nat \ {0}, NEW o \in Standing(n)
  PROVE  o \in Objects /\ o.age = n
<1>1. CASE o \in [state : {"live"}, owned : BOOLEAN, age : {n}]
  BY <1>1 DEF Objects
<1>2. CASE o \in [state : {"absent"}, owned : {FALSE}, age : {n}]
  <2>1. o = [state |-> "absent", owned |-> FALSE, age |-> n]
    BY <1>2
  <2> QED
    BY <2>1 DEF Objects
<1> QED
  BY <1>1, <1>2 DEF Standing

\* What a carried-out request does to object and counter.
LEMMA CarriedEffect ==
  ASSUME IInv, ChangeTypeOK, NEW w \in Workers, Requested(w)
  PROVE  LET a == job[w].act IN
         /\ a \in Actions
         /\ object' \in Objects
         /\ object'.owned = object.owned
         /\ object'.age \in {object.age, object.age + 1}
         /\ object'.age = object.age => object'.state = "terminating"
         /\ changes' \in [Actions -> Nat]
         /\ changes'[a] \in {changes[a], changes[a] + 1}
         /\ \A b \in Actions \ {a} : changes'[b] = changes[b]
<1>1. job[w].act \in Actions
  BY JobAction DEF Requested
<1>2. CASE UNCHANGED <<object, changes>> /\ object.state = "terminating"
  BY <1>1, <1>2 DEF ChangeTypeOK, Objects
<1>3. ASSUME NEW s \in {"absent", "terminating", object.state},
             object' \in [state : {s}, owned : {object.owned}, age : {object.age + 1}],
             changes' = [changes EXCEPT ![job[w].act] = @ + 1]
      PROVE  /\ object' \in Objects
             /\ object'.owned = object.owned
             /\ object'.age = object.age + 1
             /\ object.age \in Nat
             /\ changes' \in [Actions -> Nat]
             /\ changes'[job[w].act] = changes[job[w].act] + 1
             /\ \A b \in Actions \ {job[w].act} : changes'[b] = changes[b]
  <2>1. object \in Objects /\ changes \in [Actions -> Nat]
    BY DEF ChangeTypeOK
  <2>2. s \in {"live", "terminating", "absent"}
    BY <2>1 DEF Objects
  <2>3. changes[job[w].act] + 1 \in Nat
    BY <1>1, <2>1
  <2> QED
    BY <1>1, <1>3, <2>1, <2>2, <2>3, AgedObject
<1>4. \/ UNCHANGED <<object, changes>> /\ object.state = "terminating"
      \/ \E s \in {"absent", "terminating", object.state} :
           /\ object' \in [state : {s}, owned : {object.owned}, age : {object.age + 1}]
           /\ changes' = [changes EXCEPT ![job[w].act] = @ + 1]
  BY DEF Requested, Carried
<1> QED
  BY <1>1, <1>2, <1>3, <1>4

\* The object only ages; as long as it does not, it keeps its owner, and one that
\* is gone does not come back.
LEMMA ObjectAges ==
  ASSUME IInv, ChangeTypeOK, [ChangeNext]_changeVars
  PROVE  /\ object' \in Objects
         /\ object.age \in Nat /\ object'.age \in Nat /\ object.age <= object'.age
         /\ (object'.age = object.age /\ object'.state = "live") => object.state = "live"
         /\ object'.age = object.age => object'.owned = object.owned
         /\ moves' \in 0..MaxMoves
<1> USE DEF ChangeTypeOK
<1>0. object.age \in Nat /\ moves \in Nat
  BY ChangeAssumption DEF Objects
<1>1. ASSUME NEW w \in Workers, Requested(w)
      PROVE  /\ object' \in Objects /\ object.age <= object'.age
             /\ object'.age = object.age => object'.state # "live"
             /\ moves' = moves /\ object'.owned = object.owned
  BY <1>0, <1>1, CarriedEffect DEF Requested, Objects
<1>2. CASE Vanish
  <2>1. /\ object' \in Objects /\ object'.state = "absent" /\ object'.age = object.age
        /\ object'.owned = object.owned /\ moves' = moves
    BY <1>2 DEF Vanish, Objects, counts
  <2> QED
    BY <1>0, <2>1
<1>3. CASE Move
  <2>1. object' \in Standing(object.age + 1) /\ moves' = moves + 1 /\ moves < MaxMoves
    BY <1>3 DEF Move
  <2>2. object.age + 1 \in Nat \ {0}
    BY <1>0
  <2>3. object' \in Objects /\ object'.age = object.age + 1
    BY <2>1, <2>2, StandingObject
  <2> QED
    BY <1>0, <2>1, <2>3, ChangeAssumption
<1>4. CASE UNCHANGED <<object, changes, moves>>
  BY <1>0, <1>4
<1>5. object' \in Objects => object'.age \in Nat
  BY DEF Objects
<1> QED
  BY <1>0, <1>1, <1>2, <1>3, <1>4, <1>5, ObjectSteps

-----------------------------------------------------------------------------
\* Only a worker in the body of a pod's restart can be about to delete the pod.
LEMMA ChangeTypeStep ==
  ASSUME IInv, IInv', ChangeTypeOK, [ChangeNext]_changeVars
  PROVE  ChangeTypeOK'
<1>0. TypeOK /\ TypeOK' /\ object' \in Objects /\ moves' \in 0..MaxMoves
      /\ target' = target
  BY ObjectAges, ObjectSteps DEF IInv
<1> USE DEF ChangeTypeOK
<1>1. changes' \in [Actions -> Nat]
  BY ObjectSteps, CarriedEffect
<1>2. troubles' \in 0..MaxTroubles /\ lost' \in 0..troubles'
  BY ChangeAssumption
     DEF ChangeNext, OutsideTasks, AskFor, ChangeExecute, Proceed, NotConnected,
         KindNotSupported, CheckPod, Change, NotFound, RequestFails, AnswerLost,
         AroundChange, Killed, Vanish, Move, work, counts, changeVars
<1>3. asked' \in [Actions -> Nat]
  <2>1. ASSUME NEW a \in Actions, AskFor(a) PROVE asked' \in [Actions -> Nat]
    BY <2>1 DEF AskFor, Objects
  <2> QED
    BY <2>1
       DEF ChangeNext, OutsideTasks, ChangeExecute, Proceed, NotConnected,
           KindNotSupported, CheckPod, Change, NotFound, RequestFails, AnswerLost,
           EndCall, AroundChange, Killed, Vanish, Move, work, counts, changeVars
<1>m. missed' \in [Actions -> Nat]
  <2>1. ASSUME NEW w \in Workers, NotFound(w) PROVE missed' \in [Actions -> Nat]
    BY <2>1 DEF NotFound
  <2> QED
    BY <2>1
       DEF ChangeNext, OutsideTasks, AskFor, ChangeExecute, Proceed, NotConnected,
           KindNotSupported, CheckPod, Change, RequestFails, AnswerLost, EndCall,
           AroundChange, Killed, Vanish, Move, work, counts, changeVars
<1>s. seen' \in [Workers -> Nat]
  BY DEF ChangeNext, OutsideTasks, AskFor, ChangeExecute, Proceed, NotConnected,
         KindNotSupported, CheckPod, Change, NotFound, RequestFails, AnswerLost,
         EndCall, AroundChange, Killed, Vanish, Move, work, changeVars, Objects
<1> DEFINE Armed == {w \in Workers : seen[w] # 0}
<1> DEFINE Checked == {w \in Workers : pc[w] = "running" /\ kind = "Pod"
                                          /\ op[job[w].act] = "restart"}
<1>4. Armed' \subseteq Checked'
  <2>1. ASSUME seen' = seen,
               \A w \in Workers : pc[w] = "running"
                 => pc'[w] = pc[w] /\ job'[w] = job[w]
        PROVE  Armed' \subseteq Checked'
    BY <1>0, <2>1 DEF target
  <2>2. ASSUME NEW w \in Workers, Armed' \subseteq Armed \ {w},
               \A v \in Workers \ {w} : pc'[v] = pc[v] /\ job'[v] = job[v]
        PROVE  Armed' \subseteq Checked'
    BY <1>0, <2>2 DEF target
  <2>3. CASE OutsideTasks
    BY <1>0, <2>1, <2>3
       DEF OutsideTasks, PublishTask, AbortRequest, Cancel, Redeliver, Take, Receive,
           work, TypeOK
  <2>4. ASSUME NEW a \in Actions, AskFor(a) PROVE Armed' \subseteq Checked'
    BY <2>1, <2>4 DEF AskFor, CreateRecord
  <2>5. ASSUME NEW w \in Workers, EndCall(w),
               RunReturns(w) \/ RunAsksForRetry(w) \/ RunRaises(w) \/ Drop(w)
        PROVE  Armed' \subseteq Checked'
    BY <1>0, <2>2, <2>5 DEF EndCall, RunReturns, RunAsksForRetry, RunRaises, Drop,
                            Release, TypeOK
  <2>6. ASSUME NEW w \in Workers, NotConnected(w) \/ KindNotSupported(w)
        PROVE  Armed' \subseteq Checked'
    <3>1. w \notin Armed /\ Armed' = Armed
      BY <2>6 DEF NotConnected, KindNotSupported, Connected, Preparing, work
    <3>2. \A v \in Workers \ {w} : pc'[v] = pc[v] /\ job'[v] = job[v]
      BY <1>0, <2>6
         DEF NotConnected, KindNotSupported, RunAsksForRetry, RunRaises, TypeOK
    <3> HIDE DEF Armed, Checked
    <3> QED
      BY <2>2, <3>1, <3>2
  <2>7. ASSUME NEW w \in Workers, CheckPod(w) PROVE Armed' \subseteq Checked'
    <3>1. /\ seen[w] = 0 /\ pc[w] = "running" /\ kind = "Pod"
          /\ op[job[w].act] = "restart"
      BY <2>7 DEF CheckPod, Connected, Preparing
    <3>2. CASE seen' = [seen EXCEPT ![w] = object.age] /\ UNCHANGED vars
      <4>1. /\ pc' = pc /\ job' = job /\ kind' = kind /\ op' = op
            /\ Armed' \subseteq Armed \cup {w}
        BY <1>0, <3>2 DEF vars, target
      <4>2. Armed' \subseteq Checked
        BY <3>1, <4>1
      <4>3. Checked' = Checked
        BY <4>1
      <4> QED
        BY <4>2, <4>3
    <3>3. CASE seen' = seen /\ RunRaises(w)
      <4>1. /\ \A v \in Workers \ {w} : pc'[v] = pc[v] /\ job'[v] = job[v]
            /\ Armed' \subseteq Armed \ {w}
        BY <1>0, <3>1, <3>3 DEF RunRaises, TypeOK
      <4> QED
        BY <2>2, <4>1
    <3> QED
      BY <2>7, <3>2, <3>3 DEF CheckPod
  <2>8. ASSUME NEW w \in Workers, AroundChange(w) PROVE Armed' \subseteq Checked'
    BY <1>0, <2>1, <2>8
       DEF AroundChange, Start, StartFails, PublishRetry, Finish, Release, work, TypeOK
  <2>9. ASSUME UNCHANGED <<vars, seen>> PROVE Armed' \subseteq Checked'
    BY <2>1, <2>9 DEF vars
  <2> QED
    BY <2>3, <2>4, <2>5, <2>6, <2>7, <2>8, <2>9
       DEF ChangeNext, ChangeExecute, Proceed, Change, NotFound, RequestFails,
           AnswerLost, Killed, Vanish, Move, work, changeVars
<1> QED
  BY <1>0, <1>1, <1>2, <1>3, <1>m, <1>s, <1>4 DEF target

\* Who asked, asked before: a later change is a change since then.
LEMMA TouchedIsStable ==
  ASSUME IInv, ChangeTypeOK, [ChangeNext]_changeVars,
         NEW a \in Actions, asked[a] <= object.age
  PROVE  /\ asked'[a] <= object'.age
         /\ (request[a] # "none" /\ ~ Untouched(a)) => ~ Untouched(a)'
<1> USE DEF ChangeTypeOK
<1>0. /\ object.age \in Nat /\ object'.age \in Nat /\ object.age <= object'.age
      /\ (object'.age = object.age /\ object'.state = "live") => object.state = "live"
      /\ asked[a] \in Nat
  BY ObjectAges
<1>1. ASSUME NEW b \in Actions, AskFor(b)
      PROVE  /\ object' = object
             /\ a = b => asked'[a] = object.age /\ request[a] = "none"
             /\ a # b => asked'[a] = asked[a]
  BY <1>1 DEF AskFor, CreateRecord
<1>2. CASE asked' = asked
  BY <1>0, <1>2 DEF Untouched
<1>3. asked' = asked \/ \E b \in Actions : AskFor(b)
  BY DEF ChangeNext, OutsideTasks, ChangeExecute, Proceed, NotConnected,
         KindNotSupported, CheckPod, Change, NotFound, RequestFails, AnswerLost,
         EndCall, AroundChange, Killed, Vanish, Move, work, counts, changeVars
<1> QED
  BY <1>0, <1>1, <1>2, <1>3 DEF Untouched

\* An execution has succeeded before, or its request was carried out just now.
LEMMA SuccessIsAChange ==
  ASSUME IInv, ChangeTypeOK, [ChangeNext]_changeVars,
         NEW w \in Workers, pc'[w] = "succeeded"
  PROVE  /\ job'[w] = job[w] /\ pc[w] # "idle"
         /\ pc[w] = "succeeded" \/ Requested(w)
<1> DEFINE Done == /\ job'[w] = job[w] /\ pc[w] # "idle"
                   /\ pc[w] = "succeeded" \/ Requested(w)
<1>0. TypeOK
  BY DEF IInv
<1>1. ASSUME NEW v \in Workers,
             RunAsksForRetry(v) \/ RunRaises(v) \/ AroundChange(v) \/ Killed(v)
      PROVE  Done
  BY <1>0, <1>1
     DEF RunAsksForRetry, RunRaises, AfterRetryableError, AroundChange, Killed, Start,
         StartFails, PublishRetry, Finish, Drop, Release, TypeOK
<1>2. ASSUME NEW v \in Workers, Change(v) PROVE Done
  <2>1. CASE v = w
    BY <1>2, <2>1 DEF Change, EndCall, Requested, RunReturns
  <2>2. CASE v # w
    BY <1>0, <1>2, <2>2 DEF Change, RunReturns, TypeOK
  <2> QED
    BY <2>1, <2>2
<1>3. CASE OutsideTasks \/ \E a \in Actions : AskFor(a)
  BY <1>0, <1>3 DEF OutsideTasks, AskFor, CreateRecord, PublishTask, AbortRequest, Cancel,
                    Redeliver, Take, Receive, TypeOK
<1>4. ASSUME UNCHANGED vars PROVE Done
  BY <1>4 DEF vars
<1> QED
  BY <1>1, <1>2, <1>3, <1>4
     DEF ChangeNext, ChangeExecute, Proceed, NotConnected, KindNotSupported, CheckPod,
         NotFound, RequestFails, AnswerLost, Vanish, Move, changeVars

\* A pod that is about to be deleted is owned, or another than the one seen.
LEMMA SeenStep ==
  ASSUME IInv, ChangeTypeOK, [ChangeNext]_changeVars, SeenIsOwned
  PROVE  SeenIsOwned'
<1>1. /\ object.age \in Nat \ {0} /\ object'.age \in Nat \ {0} /\ object.age <= object'.age
      /\ object'.age = object.age => object'.owned = object.owned
  BY ObjectAges DEF Objects, ChangeTypeOK
<1>2. \/ seen' = seen
      \/ \E w \in Workers : \/ seen' = [seen EXCEPT ![w] = 0]
                           \/ /\ seen' = [seen EXCEPT ![w] = object.age]
                              /\ object.owned /\ object' = object
  BY DEF ChangeNext, OutsideTasks, AskFor, ChangeExecute, Proceed, NotConnected,
         KindNotSupported, CheckPod, Change, NotFound, RequestFails, AnswerLost,
         EndCall, AroundChange, Killed, Vanish, Move, work, changeVars
<1> QED
  BY <1>1, <1>2 DEF SeenIsOwned, ChangeTypeOK

\* An action has performed, or each of its changes is a lost answer.
LEMMA ChangeIsPerformed ==
  ASSUME IInv, ChangeTypeOK, ChangeTypeOK', [ChangeNext]_changeVars,
         NEW a \in Actions, a \in performed \/ changes[a] <= lost
  PROVE  a \in performed' \/ changes'[a] <= lost'
<1>1. /\ lost \in Nat /\ lost' \in Nat /\ changes[a] \in Nat /\ changes'[a] \in Nat
  BY ChangeAssumption DEF ChangeTypeOK
<1>2. lost <= lost'
  BY <1>1
     DEF ChangeNext, OutsideTasks, AskFor, ChangeExecute, Proceed, NotConnected,
         KindNotSupported, CheckPod, Change, NotFound, RequestFails, AnswerLost,
         AroundChange, Killed, Vanish, Move, work, counts, changeVars
<1>3. performed \subseteq performed'
  BY ChangeStepIsLifecycleStep
     DEF Next, CreateRecord, PublishTask, AbortRequest, Cancel, Redeliver, Take,
         Receive, Execute, Start, StartFails, RunReturns, RunAsksForRetry, RunRaises,
         PublishRetry, Finish, Drop, ghosts, vars
<1>4. ASSUME NEW w \in Workers, Requested(w), RunReturns(w) \/ lost' = lost + 1
      PROVE  a \in performed' \/ changes'[a] <= lost'
  <2>1. CASE a = job[w].act /\ RunReturns(w)
    BY <2>1 DEF RunReturns
  <2>2. /\ changes'[a] \in {changes[a], changes[a] + 1}
        /\ a # job[w].act => changes'[a] = changes[a]
    BY <1>4, CarriedEffect
  <2> QED
    BY <1>1, <1>2, <1>3, <1>4, <2>1, <2>2
<1>5. CASE changes' = changes
  BY <1>1, <1>2, <1>3, <1>5
<1> QED
  BY <1>4, <1>5, ObjectSteps

\* ChangeIInv is inductive, given ActionLifecycle's invariant.
LEMMA ChangeNextIInv ==
  ASSUME IInv, IInv', ChangeIInv, [ChangeNext]_changeVars
  PROVE  ChangeIInv'
<1> USE DEF ChangeIInv
<1>1. ChangeTypeOK'
  BY ChangeTypeStep
<1>2. \A a \in Actions : asked'[a] <= object'.age
  BY TouchedIsStable
<1>r. \A a \in Actions : InFlight(a) \/ status[a] = "SUCCESS" => request[a] # "none"
  BY DEF IInv, UnpublishedIsUntouched
<1>3. ASSUME NEW w \in Workers, pc'[w] = "succeeded" PROVE ~ Untouched(job[w].act)'
  <2>1. job'[w] = job[w] /\ job[w].act \in Actions /\ pc[w] # "idle"
    BY <1>3, SuccessIsAChange, JobAction
  <2>2. ASSUME NEW a \in Actions, a = job[w].act PROVE ~ Untouched(a)'
    <3>1. request[a] # "none"
      BY <1>r, <2>1, <2>2 DEF InFlight, Carries
    <3>2. CASE pc[w] = "succeeded"
      BY <2>2, <3>1, <3>2, TouchedIsStable
    <3>3. CASE Requested(w)
      <4>1. /\ asked'[a] = asked[a] /\ asked[a] \in Nat /\ asked[a] <= object.age
            /\ object.age \in Nat
        BY <3>3, ObjectAges DEF Requested, ChangeTypeOK
      <4>2. /\ object'.age \in {object.age, object.age + 1}
            /\ object'.age = object.age => object'.state = "terminating"
        BY <3>3, CarriedEffect
      <4> QED
        BY <4>1, <4>2 DEF Untouched
    <3> QED
      BY <1>3, <3>2, <3>3, SuccessIsAChange
  <2> QED
    BY <2>1, <2>2 DEF Untouched
<1>4. ASSUME NEW a \in Actions, status'[a] = "SUCCESS" PROVE ~ Untouched(a)'
  <2>1. ~ Untouched(a) /\ request[a] # "none"
    <3>1. CASE status[a] = "SUCCESS"
      BY <1>r, <3>1 DEF SuccessMeansChange
    <3>2. ASSUME NEW w \in Workers, pc[w] = "succeeded", job[w].act = a
          PROVE  ~ Untouched(a) /\ request[a] # "none"
      BY <1>r, <3>2 DEF InFlight, Carries
    <3> QED
      BY <1>4, <3>1, <3>2, ChangeStepIsLifecycleStep, SuccessIsWritten
  <2> QED
    BY <2>1, TouchedIsStable
<1>5. SeenIsOwned'
  BY SeenStep
<1>6. \A a \in Actions : a \in performed' \/ changes'[a] <= lost'
  BY <1>1, ChangeIsPerformed
<1> QED
  BY <1>1, <1>2, <1>3, <1>4, <1>5, <1>6 DEF SuccessMeansChange

\* The invariant holds in every reachable state.
THEOREM ChangeInvariance == ChangeSpec => []ChangeIInv
<1>1. ASSUME ChangeInit PROVE ChangeIInv
  <2>1. TypeOK
    BY <1>1, InitIInv DEF ChangeInit, IInv
  <2>2. object \in Objects /\ object.age = 1
    BY <1>1, StandingObject DEF ChangeInit
  <2>3. ChangeTypeOK
    BY <1>1, <2>1, <2>2, ChangeAssumption DEF ChangeInit, ChangeTypeOK
  <2> QED
    BY <1>1, <2>2, <2>3 DEF ChangeInit, ChangeIInv, SuccessMeansChange, SeenIsOwned, Init
<1>2. IInv /\ IInv' /\ ChangeIInv /\ [ChangeNext]_changeVars => ChangeIInv'
  BY ChangeNextIInv
<1> QED
  BY <1>1, <1>2, ChangeKeepsLifecycleInvariant, PTL DEF ChangeSpec

\* A restart or delete that reports SUCCESS has left the object changed since it
\* was asked for, whatever is retried, redelivered or lost on the way.
THEOREM ReportedChangeIsReal == ChangeSpec => []SuccessMeansChange
<1>1. ChangeIInv => SuccessMeansChange
  BY DEF ChangeIInv
<1> QED
  BY <1>1, ChangeInvariance, PTL

\* One that reports FAILURE and was not duplicated has made no change but those
\* whose answer was lost, though every error path ends there.
THEOREM ReportedFailureIsReal == ChangeSpec => []FailureMeansNoChange
<1>1. ChangeIInv /\ OutcomeIsHonest => FailureMeansNoChange
  BY DEF ChangeIInv, OutcomeIsHonest, FailureMeansNoChange
<1> QED
  BY <1>1, ChangeInvariance, ChangeImplementsLifecycle, ReportsAreHonest, PTL

\* Restarting a pod takes two requests, and what the second deletes is the owned
\* pod the first has seen, or one that has taken its name since: for any number of
\* workers that delete the same pod, lost answers and changes by others.
THEOREM PodsComeBack == ChangeSpec => RestartLosesNothing
<1> DEFINE Kept == \A a \in Actions :
             (kind = "Pod" /\ op[a] = "restart" /\ changes'[a] # changes[a]) =>
               \E w \in Workers :
                 /\ seen[w] # 0 /\ job[w].act = a
                 /\ object.owned \/ seen[w] < object.age
<1>1. IInv /\ ChangeIInv /\ [ChangeNext]_changeVars => [Kept]_changeVars
  <2> SUFFICES ASSUME IInv, ChangeIInv, [ChangeNext]_changeVars, NEW a \in Actions,
                      kind = "Pod", op[a] = "restart", changes'[a] # changes[a]
               PROVE  \E w \in Workers :
                        /\ seen[w] # 0 /\ job[w].act = a
                        /\ object.owned \/ seen[w] < object.age
    OBVIOUS
  <2>1. PICK w \in Workers : Requested(w)
    BY ObjectSteps DEF ChangeIInv
  <2>2. job[w].act = a
    BY <2>1, CarriedEffect DEF ChangeIInv
  <2>3. seen[w] # 0
    BY <2>1, <2>2 DEF Requested, Patching, Deleting
  <2>4. /\ seen[w] \in Nat /\ object.age \in Nat
        /\ seen[w] <= object.age /\ (seen[w] = object.age => object.owned)
    BY DEF ChangeIInv, ChangeTypeOK, Objects, SeenIsOwned
  <2> QED
    BY <2>2, <2>3, <2>4
<1> QED
  BY <1>1, ChangeInvariance, ChangeKeepsLifecycleInvariant, PTL
     DEF ChangeSpec, RestartLosesNothing

-----------------------------------------------------------------------------
\* Of all that can be wrong with a cluster, its token and its secret, hvac's own
\* errors alone end the look-up with an exception that is retried.
LEMMA OnlyHvacAsksForRetry ==
  ASSUME cluster \in Clusters, ~ HvacLetThrough
  PROVE  GetClusterConnectionData(cluster) # "retry"
<1>1. CASE ~ cluster.listed \/ cluster.tokens = {}
  BY <1>1 DEF GetClusterConnectionData
<1>2. ASSUME cluster.listed, NEW s \in cluster.tokens
      PROVE  GetClusterConnectionData(cluster) # "retry"
  <2>1. (CHOOSE t \in cluster.tokens : TRUE) = s
    BY ChangeAssumption
  <2>2. s.mount /\ (s.kv = 2 \/ s.access # "absent")
    BY <1>2 DEF HvacLetThrough
  <2>3. s.access \in {"granted", "forbidden", "absent"}
    BY ChangeAssumption
  <2>4. CASE s.kv = 2
    <3>1. ReadSecret(s) = ReadSecretV2(s)
      BY <2>2, <2>4 DEF ReadSecret
    <3>2. ReadSecretV2(s) # "retry"
      BY <2>3 DEF ReadSecretV2
    <3> QED
      BY <1>2, <2>1, <3>1, <3>2 DEF GetClusterConnectionData
  <2>5. CASE s.kv # 2
    <3>1. ReadSecret(s) = ReadSecretV1(s)
      BY <2>2, <2>5 DEF ReadSecret
    <3>2. ReadSecretV1(s) # "retry"
      BY <2>2, <2>3, <2>5 DEF ReadSecretV1
    <3> QED
      BY <1>2, <2>1, <3>1, <3>2 DEF GetClusterConnectionData
  <2> QED
    BY <2>4, <2>5
<1> QED
  BY <1>1, <1>2

\* The repetitions an action has had a cause for.
allowed == [a \in Actions |-> troubles + missed[a]]

\* A message has run as often as there was a cause to repeat it, its execution
\* once more.
Explained ==
  /\ \A m \in queue : runs[m.act][m.copy] <= allowed[m.act]
  /\ \A w \in Workers : Busy(w) =>
       runs[job[w].act][job[w].copy]
         <= allowed[job[w].act] + (IF pc[w] \in {"received", "retrying"} THEN 0 ELSE 1)
  /\ \A a \in Actions : \A c \in Copies : runs[a][c] <= 1 + allowed[a]

\* Runs are counted when an execution starts, and only its copy's.
LEMMA RunsStep ==
  ASSUME IInv, NEW w \in Workers, Start(w)
  PROVE  /\ Busy(w) /\ job[w] \in Messages
         /\ runs'[job[w].act][job[w].copy] = runs[job[w].act][job[w].copy] + 1
         /\ \A m \in Messages : ~ SameCopy(m, job[w])
              => runs'[m.act][m.copy] = runs[m.act][m.copy]
         /\ \A a \in Actions, c \in Copies :
              runs'[a][c] = runs[a][c] \/ (a = job[w].act /\ c = job[w].copy)
<1>1. Busy(w) /\ job[w] \in Messages
  BY BusyHoldsMessage DEF Start, Busy, IInv
<1>2. job[w].act \in Actions /\ job[w].copy \in Copies
  BY <1>1, MessageFields
<1>3. \A a \in Actions, c \in Copies :
        runs'[a][c] = IF a = job[w].act /\ c = job[w].copy
                      THEN runs[a][c] + 1 ELSE runs[a][c]
  BY <1>2 DEF Start, IInv, TypeOK
<1> QED
  BY <1>1, <1>2, <1>3, MessageFields DEF SameCopy

\* A repetition is allowed for each trouble, and for each 404 of the action's own.
LEMMA AllowedGrows ==
  ASSUME ChangeTypeOK, ChangeTypeOK', [ChangeNext]_changeVars
  PROVE  \A a \in Actions : /\ allowed[a] \in Nat /\ allowed'[a] \in Nat
                             /\ allowed[a] <= allowed'[a]
<1> SUFFICES ASSUME NEW a \in Actions
             PROVE  /\ allowed[a] \in Nat /\ allowed'[a] \in Nat
                    /\ allowed[a] <= allowed'[a]
  OBVIOUS
<1>1. /\ troubles \in Nat /\ troubles' \in Nat
      /\ missed[a] \in Nat /\ missed'[a] \in Nat /\ missed \in [Actions -> Nat]
  BY ChangeAssumption DEF ChangeTypeOK
<1>2. troubles <= troubles'
  BY <1>1
     DEF ChangeNext, OutsideTasks, AskFor, ChangeExecute, Proceed, NotConnected,
         KindNotSupported, CheckPod, Change, NotFound, RequestFails, AnswerLost,
         AroundChange, Killed, Vanish, Move, work, counts, changeVars
<1>3. missed[a] <= missed'[a]
  BY <1>1
     DEF ChangeNext, OutsideTasks, AskFor, ChangeExecute, Proceed, NotConnected,
         KindNotSupported, CheckPod, Change, NotFound, RequestFails, AnswerLost,
         EndCall, AroundChange, Killed, Vanish, Move, work, counts, changeVars
<1> QED
  BY <1>1, <1>2, <1>3 DEF allowed

\* No step repeats an execution, or publishes its retry, without a cause.
LEMMA ExplainedStep ==
  ASSUME IInv, IInv', ChangeTypeOK, ChangeTypeOK', Explained, [ChangeNext]_changeVars,
         GetClusterConnectionData(cluster) # "retry"
  PROVE  Explained'
<1> USE DEF Explained
<1>0. /\ TypeOK /\ TypeOK' /\ troubles \in Nat /\ missed \in [Actions -> Nat]
      /\ \A a \in Actions : /\ allowed[a] \in Nat /\ allowed'[a] \in Nat
                             /\ allowed[a] <= allowed'[a]
  BY AllowedGrows, ChangeAssumption DEF ChangeTypeOK, IInv
<1>m. /\ \A m \in queue : /\ m \in Messages /\ m.act \in Actions
                           /\ runs[m.act][m.copy] \in Nat
      /\ \A w \in Workers : Busy(w) => /\ job[w] \in Messages /\ job[w].act \in Actions
                                       /\ runs[job[w].act][job[w].copy] \in Nat
      /\ \A a \in Actions, c \in Copies : runs[a][c] \in Nat
  BY <1>0, MessageFields, BusyHoldsMessage DEF TypeOK, IInv
<1>1. ASSUME UNCHANGED <<queue, pc, job, runs>>
      PROVE  Explained'
  BY <1>0, <1>m, <1>1 DEF Busy
<1>2. ASSUME NEW a \in Actions, CreateRecord(a) \/ Cancel(a)
      PROVE  Explained'
  BY <1>0, <1>1, <1>2 DEF CreateRecord, Cancel, ghosts
<1>3. ASSUME NEW a \in Actions, PublishTask(a) \/ AbortRequest(a)
      PROVE  Explained'
  <2>1. runs[a][0] = 0
    BY <1>3 DEF PublishTask, AbortRequest, IInv, UnpublishedIsUntouched
  <2> QED
    <3>1. runs[FirstMessage(a).act][FirstMessage(a).copy] <= allowed'[FirstMessage(a).act]
      BY <1>0, <2>1, FirstMessageType
    <3>2. queue' = queue \/ queue' = queue \cup {FirstMessage(a)}
      BY <1>3 DEF PublishTask, AbortRequest
    <3>3. \A m \in queue' : runs[m.act][m.copy] <= allowed'[m.act]
      BY <1>0, <1>m, <3>1, <3>2
    <3> QED
      BY <1>0, <1>m, <1>3, <3>3 DEF PublishTask, AbortRequest, ghosts, Busy
<1>4. ASSUME NEW m \in queue, Redeliver(m) PROVE Explained'
  <2> DEFINE n == [m EXCEPT !.copy = copies[m.act] + 1]
  <2>1. m \in Messages /\ m.act \in Actions
    BY <1>m, MessageFields
  <2>2. copies[m.act] + 1 \in Copies /\ copies[m.act] \in Nat
    BY <1>0, <1>4, <2>1, BoundsAssumption DEF Redeliver, TypeOK, Copies
  <2>3. n.act = m.act /\ n.copy = copies[m.act] + 1
    BY <2>1, <2>2, CopyType
  <2>4. runs[n.act][n.copy] = 0
    BY <2>1, <2>2, <2>3 DEF IInv, CopiesAreNumbered
  <2> QED
    <3>1. queue' = queue \cup {n} /\ UNCHANGED <<pc, job, runs>>
      BY <1>4 DEF Redeliver, ghosts
    <3>2. runs[n.act][n.copy] <= allowed'[n.act]
      BY <1>0, <2>1, <2>3, <2>4
    <3> HIDE DEF n
    <3>3. \A k \in queue' : runs[k.act][k.copy] <= allowed'[k.act]
      BY <1>0, <1>m, <3>1, <3>2
    <3> QED
      BY <1>0, <1>m, <3>1, <3>3 DEF Busy
<1>5. ASSUME NEW w \in Workers, NEW m \in queue, Receive(w, m)
      PROVE  Explained'
  <2>1. /\ pc'[w] = "received" /\ job'[w] = m /\ runs' = runs /\ queue' \subseteq queue
        /\ \A v \in Workers \ {w} : pc'[v] = pc[v] /\ job'[v] = job[v]
    BY <1>0, <1>5 DEF Receive, ghosts, TypeOK
  <2> QED
    BY <1>0, <1>m, <1>5, <2>1 DEF Busy
<1>6. ASSUME NEW w \in Workers, Start(w) PROVE Explained'
  <2>1. ASSUME NEW m \in queue PROVE runs'[m.act][m.copy] <= allowed'[m.act]
    <3>1. ~ SameCopy(m, job[w])
      BY <1>6, RunsStep DEF IInv, CopyCarriedOnce, Busy
    <3> QED
      BY <1>0, <1>6, <1>m, <3>1, RunsStep
  <2>2. ASSUME NEW v \in Workers \ {w}, Busy(v)
        PROVE  runs'[job[v].act][job[v].copy] = runs[job[v].act][job[v].copy]
    <3>1. ~ SameCopy(job[v], job[w])
      BY <1>6, <2>2, RunsStep DEF IInv, CopyCarriedOnce, Busy
    <3> QED
      BY <1>6, <1>m, <2>2, <3>1, RunsStep
  <2>3. runs'[job[w].act][job[w].copy] <= allowed[job[w].act] + 1
    <3>1. pc[w] = "received"
      BY <1>6 DEF Start
    <3>2. runs[job[w].act][job[w].copy] <= allowed[job[w].act]
      BY <1>0, <1>m, <1>6, <3>1, RunsStep
    <3> QED
      BY <1>0, <1>6, <1>m, <3>2, RunsStep
  <2>4. /\ pc'[w] = "running" /\ UNCHANGED <<queue, job>>
        /\ \A v \in Workers \ {w} : pc'[v] = pc[v]
    BY <1>0, <1>6 DEF Start, TypeOK
  <2>5. \A a \in Actions : \A c \in Copies : runs'[a][c] <= 1 + allowed'[a]
    BY <1>0, <1>m, <1>6, <2>3, RunsStep
  <2>6. \A v \in Workers : Busy(v)' =>
          runs'[job[v].act][job[v].copy]
            <= allowed'[job[v].act] + (IF pc'[v] \in {"received", "retrying"} THEN 0 ELSE 1)
    <3> SUFFICES ASSUME NEW v \in Workers, Busy(v)'
                 PROVE  runs'[job[v].act][job[v].copy]
                   <= allowed'[job[v].act] + (IF pc'[v] \in {"received", "retrying"} THEN 0 ELSE 1)
      OBVIOUS
    <3>1. CASE v = w
      BY <1>0, <1>m, <1>6, <2>3, <2>4, <3>1, RunsStep
    <3>2. CASE v # w
      BY <1>0, <1>m, <2>2, <2>4, <3>2 DEF Busy
    <3> QED
      BY <3>1, <3>2
  <2> QED
    BY <1>0, <1>6, <2>1, <2>4, <2>5, <2>6
<1>7. ASSUME NEW w \in Workers, runs' = runs, queue' = queue, job' = job,
             pc[w] \in {"received", "running"},
             \/ pc'[w] \in {"failed", "succeeded"}
             \/ pc'[w] = "retrying" /\ allowed'[job[w].act] = allowed[job[w].act] + 1,
             \A v \in Workers \ {w} : pc'[v] = pc[v]
      PROVE  Explained'
  <2>1. \A v \in Workers : Busy(v)' =>
          runs[job[v].act][job[v].copy]
            <= allowed'[job[v].act] + (IF pc'[v] \in {"received", "retrying"} THEN 0 ELSE 1)
    BY <1>0, <1>7, <1>m DEF Busy
  <2>2. /\ \A m \in queue : runs[m.act][m.copy] <= allowed'[m.act]
        /\ \A a \in Actions : \A c \in Copies : runs[a][c] <= 1 + allowed'[a]
    BY <1>0, <1>7, <1>m
  <2> QED
    BY <1>7, <2>1, <2>2
<1>8. ASSUME NEW w \in Workers, PublishRetry(w) PROVE Explained'
  <2> DEFINE n == [job[w] EXCEPT !.retries = @ + 1]
  <2>1. job[w] \in Messages /\ job[w].retries < MaxRetries /\ Busy(w)
    BY <1>8, <1>m DEF PublishRetry, Busy, IInv, RetriesCountRuns
  <2>2. n.act = job[w].act /\ n.copy = job[w].copy
    BY <2>1, RetryType
  <2>3. runs[n.act][n.copy] <= allowed[n.act]
    BY <1>0, <1>8, <1>m, <2>1, <2>2 DEF PublishRetry
  <2>4. /\ pc'[w] = "idle" /\ runs' = runs /\ queue' = queue \cup {n}
        /\ \A v \in Workers \ {w} : pc'[v] = pc[v] /\ job'[v] = job[v]
    BY <1>0, <1>8 DEF PublishRetry, Release, ghosts, TypeOK
  <2> QED
    <3> HIDE DEF n
    <3>1. \A v \in Workers : Busy(v)' => v # w /\ Busy(v) /\ job'[v] = job[v] /\ pc'[v] = pc[v]
      BY <2>4 DEF Busy
    <3>2. runs'[n.act][n.copy] <= allowed'[n.act]
      BY <1>0, <1>m, <2>1, <2>2, <2>3, <2>4
    <3>3. \A m \in queue' : runs'[m.act][m.copy] <= allowed'[m.act]
      BY <1>0, <1>m, <2>4, <3>2
    <3>4. \A a \in Actions : \A c \in Copies : runs'[a][c] <= 1 + allowed'[a]
      BY <1>0, <1>m, <2>4
    <3> QED
      BY <1>0, <1>m, <2>4, <3>1, <3>3, <3>4
<1>9. ASSUME NEW w \in Workers, Finish(w) \/ Drop(w)
      PROVE  Explained'
  <2>1. /\ pc'[w] = "idle" /\ runs' = runs /\ queue' = queue
        /\ \A v \in Workers \ {w} : pc'[v] = pc[v] /\ job'[v] = job[v]
    BY <1>0, <1>9 DEF Finish, Drop, Release, ghosts, TypeOK
  <2> QED
    BY <1>0, <1>m, <2>1 DEF Busy
<1>10. CASE OutsideTasks
  BY <1>2, <1>3, <1>4, <1>5, <1>10 DEF OutsideTasks, Take
<1>11. ASSUME NEW a \in Actions, AskFor(a) PROVE Explained'
  BY <1>2, <1>11 DEF AskFor
<1>f. ASSUME NEW w \in Workers, RunRaises(w) \/ RunReturns(w) PROVE Explained'
  BY <1>0, <1>7, <1>f DEF RunRaises, RunReturns, ghosts, TypeOK
<1>r. ASSUME NEW w \in Workers, RunAsksForRetry(w),
             \/ troubles' = troubles + 1 /\ missed' = missed
             \/ troubles' = troubles /\ missed' = [missed EXCEPT ![job[w].act] = @ + 1]
      PROVE  Explained'
  <2>1. Busy(w) /\ job[w].act \in Actions
    BY <1>m, <1>r DEF RunAsksForRetry, Busy
  <2>2. allowed'[job[w].act] = allowed[job[w].act] + 1
    BY <1>0, <1>r, <2>1 DEF allowed
  <2> QED
    BY <1>0, <1>7, <1>r, <2>2 DEF RunAsksForRetry, AfterRetryableError, ghosts, TypeOK
<1>12. ASSUME NEW w \in Workers, NotConnected(w) \/ KindNotSupported(w) PROVE Explained'
  BY <1>f, <1>12 DEF NotConnected, KindNotSupported
<1>13. ASSUME NEW w \in Workers, RequestFails(w) PROVE Explained'
  BY <1>f, <1>r, <1>13 DEF RequestFails
<1>14. ASSUME NEW w \in Workers, CheckPod(w) \/ AnswerLost(w) \/ Change(w) PROVE Explained'
  <2>1. \/ RunReturns(w) \/ RunRaises(w)
        \/ RunAsksForRetry(w) /\ troubles' = troubles + 1 /\ missed' = missed
        \/ UNCHANGED vars
    BY <1>14 DEF CheckPod, AnswerLost, Change
  <2> QED
    BY <1>1, <1>f, <1>r, <2>1 DEF vars, ghosts
<1>15. ASSUME NEW w \in Workers, NotFound(w) PROVE Explained'
  BY <1>f, <1>r, <1>15 DEF NotFound
<1>16. ASSUME NEW w \in Workers, StartFails(w) PROVE Explained'
  BY <1>0, <1>7, <1>16 DEF StartFails, ghosts, TypeOK
<1>17. ASSUME NEW w \in Workers, AroundChange(w) \/ Killed(w) PROVE Explained'
  BY <1>6, <1>8, <1>9, <1>16, <1>17 DEF AroundChange, Killed
<1>18. CASE Vanish \/ Move
  BY <1>1, <1>18 DEF Vanish, Move, vars, ghosts
<1>19. CASE UNCHANGED changeVars
  BY <1>1, <1>19 DEF changeVars, vars, ghosts
<1> QED
  BY <1>10, <1>11, <1>12, <1>13, <1>14, <1>15, <1>17, <1>18, <1>19
     DEF ChangeNext, ChangeExecute, Proceed

\* A copy is executed again only for a failed or unanswered request or a DELETE
\* answered 404, and once for each, unless hvac's own error about the secret is let
\* through: for any number of actions, workers and copies and however cluster and
\* token are described.
THEOREM RetriesAreExplained == ChangeSpec => []RetriesHaveCause
<1> DEFINE Caused == ~ HvacLetThrough => Explained
<1>1. ChangeInit => Caused
  BY DEF ChangeInit, Init, Explained, allowed, Busy
<1>2. /\ IInv /\ IInv' /\ ChangeIInv /\ ChangeIInv' /\ Caused /\ [ChangeNext]_changeVars
      => Caused'
  <2> SUFFICES ASSUME IInv, IInv', ChangeIInv, ChangeIInv', Caused,
                      [ChangeNext]_changeVars, ~ HvacLetThrough'
               PROVE  Explained'
    OBVIOUS
  <2>1. ChangeTypeOK /\ ChangeTypeOK'
    BY DEF ChangeIInv
  <2>2. ~ HvacLetThrough
    BY <2>1, ObjectSteps DEF HvacLetThrough, target
  <2>3. GetClusterConnectionData(cluster) # "retry"
    BY <2>1, <2>2, OnlyHvacAsksForRetry DEF ChangeTypeOK
  <2> QED
    BY <2>1, <2>2, <2>3, ExplainedStep
<1>3. Caused /\ ChangeIInv => RetriesHaveCause
  <2> SUFFICES ASSUME Explained, ChangeIInv PROVE RetriesHaveCause
    BY DEF RetriesHaveCause
  <2>1. missed \in [Actions -> Nat] /\ troubles \in 0..MaxTroubles
    BY DEF ChangeIInv, ChangeTypeOK
  <2>2. ASSUME NEW a \in Actions PROVE 1 + allowed[a] = 1 + troubles + missed[a]
    <3>1. troubles \in Nat /\ missed[a] \in Nat
      BY <2>1, ChangeAssumption
    <3>2. allowed[a] = troubles + missed[a]
      BY DEF allowed
    <3> QED
      BY <3>1, <3>2
  <2> QED
    BY <2>2 DEF Explained, RetriesHaveCause
<1> QED
  BY <1>1, <1>2, <1>3, ChangeInvariance, ChangeKeepsLifecycleInvariant, PTL
     DEF ChangeSpec

-----------------------------------------------------------------------------
\* Every copy of an action has one change to make, and a lost answer is another.
Counted ==
  \A a \in Actions :
    /\ changes[a] + Cardinality(Pending(a)) <= copies[a] + 1 + lost
    /\ request[a] \in {"none", "created"} => changes[a] = 0

\* A step makes a change only at the cost of a copy or with a lost answer.
LEMMA CountedStep ==
  ASSUME IInv, IInv', ChangeTypeOK, ChangeTypeOK', Counted, [ChangeNext]_changeVars
  PROVE  Counted'
<1> SUFFICES ASSUME NEW a \in Actions
             PROVE  /\ changes'[a] + Cardinality(Pending(a)') <= copies'[a] + 1 + lost'
                    /\ request'[a] \in {"none", "created"} => changes'[a] = 0
  BY DEF Counted
<1> DEFINE card == Cardinality(Pending(a))
           card1 == Cardinality(Pending(a)')
<1>0. /\ card \in Nat /\ card1 \in Nat /\ copies[a] \in Nat /\ copies'[a] \in Nat
      /\ changes[a] \in Nat /\ changes'[a] \in Nat /\ lost \in Nat /\ lost' \in Nat
      /\ changes[a] + card <= copies[a] + 1 + lost
      /\ request[a] \in {"none", "created"} => changes[a] = 0
      /\ IsFiniteSet(Pending(a)) /\ IsFiniteSet(Pending(a)')
  BY PendingIsFinite, ChangeAssumption
     DEF IInv, TypeOK, ChangeTypeOK, Counted, Copies
<1>n. [Next]_vars
  BY ChangeStepIsLifecycleStep
<1>1. lost <= lost'
  BY <1>0
     DEF ChangeNext, OutsideTasks, AskFor, ChangeExecute, Proceed, NotConnected,
         KindNotSupported, CheckPod, Change, NotFound, RequestFails, AnswerLost,
         AroundChange, Killed, Vanish, Move, work, counts, changeVars
<1>2. request[a] \notin {"none", "created"} => request'[a] \notin {"none", "created"}
  BY <1>n, PublishedStays
<1>3. \/ card1 <= card /\ copies'[a] = copies[a]
      \/ /\ request[a] = "created" /\ copies'[a] = copies[a] /\ card1 <= 1
      \/ copies'[a] = copies[a] + 1 /\ card1 <= card + 1
  BY <1>n, PendingCount
<1>4. ASSUME changes'[a] = changes[a]
      PROVE  changes'[a] + card1 <= copies'[a] + 1 + lost'
  <2> HIDE DEF card, card1
  <2> QED
    BY <1>0, <1>1, <1>3, <1>4
<1>5. ASSUME NEW w \in Workers, Requested(w), job[w].act = a,
             RunReturns(w) \/ lost' = lost + 1
      PROVE  changes'[a] + card1 <= copies'[a] + 1 + lost'
  <2>1. changes'[a] \in {changes[a], changes[a] + 1}
    BY <1>5, CarriedEffect
  <2>2. CASE RunReturns(w)
    <3>0. pc'[w] # "retrying"
      BY <2>2 DEF RunReturns, IInv, TypeOK
    <3>1. /\ job[w].copy \in Pending(a) /\ copies'[a] = copies[a]
          /\ Pending(a)' \subseteq Pending(a) \ {job[w].copy}
      BY <1>5, <2>2, <3>0, PendingShrinks
    <3>3. card1 <= card - 1
      BY <1>0, <3>1, Counting
    <3> HIDE DEF card, card1
    <3> QED
      BY <1>0, <1>1, <2>1, <3>1, <3>3
  <2>3. CASE lost' = lost + 1 /\ ~ RunReturns(w)
    <3>1. request[a] # "created"
      BY <1>5 DEF Requested, IInv, UnpublishedIsUntouched, InFlight, Carries
    <3> HIDE DEF card, card1
    <3> QED
      BY <1>0, <1>3, <2>1, <2>3, <3>1
  <2> QED
    BY <1>5, <2>2, <2>3
<1>6. ASSUME NEW w \in Workers, Requested(w)
      PROVE  /\ request[job[w].act] \notin {"none", "created"}
             /\ a # job[w].act => changes'[a] = changes[a]
  <2>1. job[w].act \in Actions /\ (a # job[w].act => changes'[a] = changes[a])
    BY <1>6, CarriedEffect
  <2>2. request[job[w].act] \notin {"none", "created"}
    BY <1>6, <2>1 DEF Requested, IInv, UnpublishedIsUntouched, InFlight, Carries
  <2> QED
    BY <2>1, <2>2
<1>7. \/ changes'[a] = changes[a]
      \/ \E w \in Workers : /\ Requested(w) /\ job[w].act = a
                            /\ RunReturns(w) \/ lost' = lost + 1
  BY <1>6, ObjectSteps
<1>8. request'[a] \in {"none", "created"} => changes'[a] = 0
  BY <1>0, <1>2, <1>6, <1>7
<1> QED
  BY <1>4, <1>5, <1>7, <1>8

\* However often it is retried, an action changes the object once for each copy of
\* its message and once more for each lost answer, for any number of either.
THEOREM ChangesAreBounded == ChangeSpec => []ChangesAreCounted
<1>1. ChangeInit => Counted
  <2> SUFFICES ASSUME ChangeInit, NEW a \in Actions
               PROVE  /\ changes[a] + Cardinality(Pending(a)) <= copies[a] + 1 + lost
                      /\ changes[a] = 0
    BY DEF Counted
  <2>1. Pending(a) = {}
    BY DEF ChangeInit, Init, Pending, Carries
  <2>2. Cardinality(Pending(a)) = 0
    BY <2>1, FS_EmptySet
  <2> QED
    BY <2>2 DEF ChangeInit, Init
<1>2. /\ IInv /\ IInv' /\ ChangeIInv /\ ChangeIInv' /\ Counted /\ [ChangeNext]_changeVars
      => Counted'
  BY CountedStep DEF ChangeIInv
<1>3. IInv /\ ChangeIInv /\ Counted => ChangesAreCounted
  <2> SUFFICES ASSUME IInv, ChangeIInv, Counted, NEW a \in Actions
               PROVE  changes[a] <= copies[a] + 1 + lost
    BY DEF ChangesAreCounted
  <2>1. /\ Cardinality(Pending(a)) \in Nat /\ changes[a] \in Nat
        /\ copies[a] \in Nat /\ lost \in Nat
    BY PendingIsFinite, ChangeAssumption DEF IInv, TypeOK, ChangeIInv, ChangeTypeOK, Copies
  <2>2. changes[a] + Cardinality(Pending(a)) <= copies[a] + 1 + lost
    BY DEF Counted
  <2> QED
    BY <2>1, <2>2
<1> QED
  BY <1>1, <1>2, <1>3, ChangeInvariance, ChangeKeepsLifecycleInvariant, PTL
     DEF ChangeSpec
=============================================================================
