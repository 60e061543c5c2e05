----------------------------- MODULE RdsPowerProofs -----------------------------
(***************************************************************************)
(* Theorems about RdsPower: its tasks live as ActionLifecycle says, hence  *)
(* all that is proved of ActionLifecycle holds of the RDS actions, and a   *)
(* reported success stands.                                                *)
(***************************************************************************)
EXTENDS RdsPower, ActionLifecycleProofs

\* Every step of an RDS action, of its body, of AWS is a step of
\* ActionLifecycle or leaves its variables alone.
LEMMA PowerStepIsLifecycleStep == [PowerNext]_powerVars => [Next]_vars
<1> SUFFICES ASSUME [PowerNext]_powerVars PROVE [Next]_vars
  OBVIOUS
<1>1. CASE OutsideTasks
  BY <1>1 DEF OutsideTasks, Next
<1>2. ASSUME NEW w \in Workers, Poll(w) PROVE [Next]_vars
  <2>1. RunAsksForRetry(w) \/ RunRaises(w) \/ RunReturns(w) \/ UNCHANGED vars
    BY <1>2 DEF Poll, NoCredentials, NoDescription, FoundTarget, FoundBroken,
                FoundSource, FoundOther, GoAhead, Call, CallRefused, AnswerLost
  <2> QED
    BY <2>1 DEF Execute, Next
<1>3. ASSUME NEW w \in Workers, AroundPoll(w) \/ Killed(w) PROVE [Next]_vars
  BY <1>3 DEF AroundPoll, Killed, Execute, Next
<1>4. CASE Complete
  BY <1>4 DEF Complete
<1>5. CASE Drift
  BY <1>5 DEF Drift
<1>6. CASE UNCHANGED powerVars
  BY <1>6 DEF powerVars
<1> QED
  BY <1>1, <1>2, <1>3, <1>4, <1>5, <1>6 DEF PowerNext, PowerExecute

\* RdsPower implements ActionLifecycle (without the fairness, which TLC checks).
THEOREM PowerImplementsLifecycle == PowerSpec => Spec
<1>1. PowerInit => Init
  BY DEF PowerInit
<1> QED
  BY <1>1, PowerStepIsLifecycleStep, PTL DEF PowerSpec, Spec

\* The RDS actions keep ActionLifecycle's inductive invariant: one
\* carrier per copy, bounded polls, nothing forgotten.
THEOREM PowerKeepsLifecycleInvariant == PowerSpec => []IInv
  BY PowerImplementsLifecycle, Invariance, PTL

\* Hence an RDS action keeps what is proved of an action whatever its body does:
\* its record begins and ends as ActionRecord says, its final state stays,
\* SUCCESS and FAILURE tell how the body ended, and none is forgotten.
THEOREM PowerKeepsPromises ==
  PowerSpec => Record!Spec /\ FinalIsFinal /\ []OutcomeIsHonest /\ []NothingForgotten
  BY PowerImplementsLifecycle, ImplementsRecordSafety, FinalStatesAreFinal, ReportsAreHonest,
     AcceptedIsNotForgotten

-----------------------------------------------------------------------------
\* Accepted calls stay accepted.
LEMMA AcceptedGrows ==
  ASSUME PowerTypeOK, [PowerNext]_powerVars, NEW a \in Actions
  PROVE  /\ accepted'[a] \in Nat /\ accepted'[a] >= accepted[a]
         /\ wanted' = wanted
<1> USE DEF PowerTypeOK
<1> DEFINE Grows == /\ accepted'[a] \in Nat /\ accepted'[a] >= accepted[a]
                    /\ wanted' = wanted
<1>1. ASSUME NEW w \in Workers, Call(w) \/ AnswerLost(w) PROVE Grows
  BY <1>1 DEF Call, AnswerLost, Send
<1>2. ASSUME UNCHANGED <<accepted, wanted>> PROVE Grows
  BY <1>2
<1>3. ASSUME NEW w \in Workers, PowerExecute(w), ~ (Call(w) \/ AnswerLost(w))
      PROVE  UNCHANGED <<accepted, wanted>>
  BY <1>3 DEF PowerExecute, Poll, NoCredentials, NoDescription, FoundTarget,
              FoundBroken, FoundSource, FoundOther, GoAhead, CallRefused, AroundPoll,
              Killed, rds
<1>4. ASSUME OutsideTasks \/ Complete \/ Drift \/ UNCHANGED powerVars
      PROVE  UNCHANGED <<accepted, wanted>>
  BY <1>4 DEF OutsideTasks, Complete, Drift, powerVars, rds
<1> QED
  BY <1>1, <1>2, <1>3, <1>4 DEF PowerNext

\* What stands goes on standing, whatever step is taken: AWS accepts no call of
\* the same kind in the status it leads to.
LEMMA StandsIsStable ==
  ASSUME IInv, PowerTypeOK, [PowerNext]_powerVars, NEW a \in Actions, Stands(a)
  PROVE  Stands(a)'
<1>0. /\ \A c \in Actions : accepted'[c] \in Nat /\ accepted'[c] >= accepted[c]
      /\ wanted' = wanted
      /\ accepted \in [Actions -> Nat] /\ drifts \in Nat
  BY AcceptedGrows, UpsetsAssumption DEF PowerTypeOK
<1>a. Polls(a)' = Polls(a) /\ Opponents(a)' = Opponents(a)
  BY <1>0 DEF Polls, Opponents
<1>1. CASE ~ Polls(a)
  BY <1>0, <1>1, <1>a DEF Stands
<1>2. ASSUME NEW c \in Opponents(a), accepted[c] > 0, Polls(a) PROVE Stands(a)'
  <2>1. accepted'[c] > 0
    BY <1>0, <1>2 DEF Opponents
  <2> QED
    BY <1>2, <1>a, <2>1 DEF Stands
<1> USE DEF Stands
<1>3. ASSUME UNCHANGED <<instance, drifts>>, Polls(a) PROVE Stands(a)'
  BY <1>0, <1>2, <1>3, <1>a
<1>4. ASSUME NEW w \in Workers, Call(w) \/ AnswerLost(w), Polls(a) PROVE Stands(a)'
  <2> DEFINE b == job[w].act
  <2>1. pc[w] = "running" /\ b \in Actions /\ Send(w)
    BY <1>4, JobAction DEF Call, AnswerLost, RunAsksForRetry, RunReturns, RunRaises,
                           PowerTypeOK, Send
  <2>2. CASE ~ Accepts(b)
    BY <1>3, <1>4, <2>1, <2>2 DEF Send
  <2>3. CASE Accepts(b)
    <3>1. /\ accepted'[b] > 0
          /\ instance = Source(b) /\ instance' = Underway(b)
          /\ drifts' = drifts
      BY <1>0, <2>1, <2>3 DEF Send, Accepts
    <3>2. CASE drifts > 0
      BY <1>4, <1>a, <3>1, <3>2
    <3>3. CASE Polls(b) /\ wanted[b] # wanted[a]
      <4>1. b \in Opponents(a)
        BY <2>1, <3>3 DEF Opponents
      <4> QED
        BY <1>4, <1>a, <3>1, <4>1
    <3>4. CASE ~ Polls(b)
      <4>1. instance = "available" /\ instance' = "busy"
        BY <2>1, <3>1, <3>4 DEF Source, Underway, PowerTypeOK, Goals, Polls
      <4> QED
        BY <1>0, <1>2, <1>4, <1>a, <3>2, <4>1 DEF Polls
    <3>5. CASE Polls(b) /\ wanted[b] = wanted[a]
      <4>1. instance # wanted[a] /\ instance # "busy"
        BY <1>4, <3>1, <3>5 DEF Source, Polls
      <4> QED
        BY <1>2, <1>4, <3>2, <4>1
    <3> QED
      BY <3>3, <3>4, <3>5
  <2> QED
    BY <2>2, <2>3
<1>5. ASSUME NEW w \in Workers, PowerExecute(w), ~ (Call(w) \/ AnswerLost(w))
      PROVE  UNCHANGED <<instance, drifts>>
  BY <1>5 DEF PowerExecute, Poll, NoCredentials, NoDescription, FoundTarget,
              FoundBroken, FoundSource, FoundOther, GoAhead, CallRefused, AroundPoll,
              Killed, rds
<1>6. ASSUME OutsideTasks \/ UNCHANGED powerVars PROVE UNCHANGED <<instance, drifts>>
  BY <1>6 DEF OutsideTasks, powerVars, rds
<1>7. ASSUME Complete, Polls(a) PROVE Stands(a)'
  <2>1. drifts' = drifts
    BY <1>7 DEF Complete
  <2>2. CASE instance = wanted[a]
    BY <1>7, <2>2 DEF Complete, Polls
  <2>3. CASE wanted[a] = "available" /\ instance = "busy"
    BY <1>0, <1>7, <1>a, <2>3 DEF Complete
  <2> QED
    BY <1>2, <1>7, <1>a, <2>1, <2>2, <2>3
<1>8. ASSUME Drift, Polls(a) PROVE Stands(a)'
  BY <1>0, <1>8, <1>a DEF Drift
<1> QED
  BY <1>1, <1>3, <1>4, <1>5, <1>6, <1>7, <1>8 DEF PowerNext

\* An execution has succeeded before, its poll has just found the target, or AWS
\* has just accepted its reboot or snapshot.
LEMMA SuccessIsFound ==
  ASSUME IInv, [PowerNext]_powerVars, NEW w \in Workers, pc'[w] = "succeeded"
  PROVE  /\ job'[w] = job[w]
         /\ \/ pc[w] = "succeeded"
            \/ FoundTarget(w)
            \/ Call(w) /\ ~ Polls(job[w].act) /\ Accepts(job[w].act)
<1> USE DEF IInv, TypeOK
<1> DEFINE Found == /\ job'[w] = job[w]
                    /\ \/ pc[w] = "succeeded"
                       \/ FoundTarget(w)
                       \/ Call(w) /\ ~ Polls(job[w].act) /\ Accepts(job[w].act)
<1>1. CASE OutsideTasks
  BY <1>1 DEF OutsideTasks, CreateRecord, PublishTask, AbortRequest, Cancel,
              Redeliver, Take, Receive
<1>2. ASSUME NEW v \in Workers, Poll(v) PROVE Found
  <2>1. CASE FoundTarget(v)
    BY <2>1 DEF FoundTarget, RunReturns
  <2>2. CASE UNCHANGED vars
    BY <2>2 DEF vars
  <2>3. CASE RunAsksForRetry(v) \/ RunRaises(v)
    BY <2>3 DEF RunAsksForRetry, RunRaises, AfterRetryableError
  <2>4. CASE Call(v) /\ ~ Polls(job[v].act) /\ Accepts(job[v].act) /\ RunReturns(v)
    BY <2>4 DEF RunReturns
  <2> QED
    BY <1>2, <2>1, <2>2, <2>3, <2>4
       DEF Poll, NoCredentials, NoDescription, FoundBroken, FoundSource, FoundOther,
           GoAhead, Call, CallRefused, AnswerLost
<1>3. ASSUME NEW v \in Workers, AroundPoll(v) \/ Killed(v)
      PROVE  job'[w] = job[w] /\ pc[w] = "succeeded"
  BY <1>3 DEF AroundPoll, Killed, Start, StartFails, PublishRetry, Finish, Drop,
              Release
<1>4. CASE Complete \/ Drift \/ UNCHANGED powerVars
  BY <1>4 DEF Complete, Drift, powerVars, vars
<1> QED
  BY <1>1, <1>2, <1>3, <1>4 DEF PowerNext, PowerExecute

\* Only a worker that stays in the task body can be about to call AWS.
LEMMA PowerTypeStep ==
  ASSUME IInv, IInv', PowerTypeOK, [PowerNext]_powerVars
  PROVE  PowerTypeOK'
<1> USE DEF PowerTypeOK
<1>0. TypeOK /\ TypeOK'
  BY DEF IInv
<1>1. CASE OutsideTasks
  BY <1>0, <1>1 DEF OutsideTasks, CreateRecord, PublishTask, AbortRequest, Cancel,
              Redeliver, Take, Receive, rds, TypeOK
<1>2. ASSUME NEW w \in Workers, Poll(w) PROVE PowerTypeOK'
  <2>1. CASE Preparing(w) /\ UNCHANGED rds
                /\ (RunReturns(w) \/ RunAsksForRetry(w) \/ RunRaises(w))
    BY <1>0, <2>1 DEF Preparing, RunReturns, RunAsksForRetry, RunRaises, rds, TypeOK
  <2>2. CASE FoundSource(w) \/ GoAhead(w)
    BY <1>0, <2>2 DEF FoundSource, GoAhead, Polling, Preparing, vars
  <2>3. CASE Call(w) \/ AnswerLost(w)
    <3>1. pc[w] = "running" /\ job[w].act \in Actions /\ Send(w)
      BY <2>3, JobAction DEF Call, AnswerLost, Send
    <3>2. calling' \subseteq {v \in Workers : pc'[v] = "running"}
      BY <1>0, <2>3 DEF Call, AnswerLost, RunReturns, RunAsksForRetry, RunRaises,
                        TypeOK, vars
    <3>3. instance' \in InstanceStatus
      BY <3>1 DEF Send, Underway, InstanceStatus, Goals
    <3>4. /\ attempts' \in [Actions -> Nat] /\ accepted' \in [Actions -> Nat]
          /\ drifts' = drifts /\ wanted' = wanted
      BY <3>1 DEF Send
    <3>5. lost' \in 0..MaxUpsets
      BY <2>3, UpsetsAssumption DEF Call, AnswerLost
    <3> QED
      BY <1>0, <3>2, <3>3, <3>4, <3>5
  <2>4. CASE CallRefused(w)
    BY <1>0, <2>4 DEF CallRefused, RunRaises, TypeOK
  <2> QED
    BY <1>2, <2>1, <2>2, <2>3, <2>4 DEF Poll, NoCredentials, NoDescription, FoundTarget,
                                        FoundBroken, FoundOther, Polling
<1>3. ASSUME NEW w \in Workers, AroundPoll(w) PROVE PowerTypeOK'
  BY <1>0, <1>3 DEF AroundPoll, Start, StartFails, PublishRetry, Finish, Release,
                    rds, TypeOK
<1>4. ASSUME NEW w \in Workers, Killed(w) PROVE PowerTypeOK'
  BY <1>0, <1>4 DEF Killed, Drop, Release, TypeOK
<1>5. CASE Complete
  BY <1>0, <1>5 DEF Complete, InstanceStatus, vars
<1>6. CASE Drift
  BY <1>0, <1>6, UpsetsAssumption DEF Drift, vars
<1>7. CASE UNCHANGED powerVars
  BY <1>0, <1>7 DEF powerVars, rds, vars
<1> QED
  BY <1>1, <1>2, <1>3, <1>4, <1>5, <1>6, <1>7 DEF PowerNext, PowerExecute

\* PowerIInv is inductive, given ActionLifecycle's invariant.
LEMMA PowerNextIInv ==
  ASSUME IInv, IInv', PowerIInv, [PowerNext]_powerVars
  PROVE  PowerIInv'
<1>1. PowerTypeOK'
  BY PowerTypeStep DEF PowerIInv
<1>2. ASSUME NEW a \in Actions, status'[a] = "SUCCESS" PROVE Stands(a)'
  <2>1. Stands(a)
    BY <1>2, PowerStepIsLifecycleStep, SuccessIsWritten DEF PowerIInv, SuccessStands
  <2> QED
    BY <2>1, StandsIsStable DEF PowerIInv
<1>3. ASSUME NEW w \in Workers, pc'[w] = "succeeded" PROVE Stands(job[w].act)'
  <2>1. job'[w] = job[w] /\ pc[w] # "idle"
    BY <1>3, SuccessIsFound DEF FoundTarget, Polling, Preparing, Call, Send, PowerIInv,
                                PowerTypeOK
  <2>2. job[w].act \in Actions
    BY <2>1, JobAction
  <2>3. CASE pc[w] = "succeeded" \/ FoundTarget(w)
    <3>1. Stands(job[w].act)
      BY <2>3 DEF PowerIInv, FoundTarget, Polling, Stands
    <3>2. ASSUME NEW a \in Actions, Stands(a) PROVE Stands(a)'
      BY <3>2, StandsIsStable DEF PowerIInv
    <3> QED
      BY <2>1, <2>2, <3>1, <3>2 DEF Stands, Opponents, Polls
  <2>4. CASE Call(w) /\ ~ Polls(job[w].act) /\ Accepts(job[w].act)
    <3>1. accepted'[job[w].act] > 0 /\ wanted' = wanted
      BY <2>2, <2>4 DEF Call, Send, PowerIInv, PowerTypeOK
    <3> QED
      BY <2>1, <2>4, <3>1 DEF Stands, Polls
  <2> QED
    BY <1>3, <2>3, <2>4, SuccessIsFound
<1> QED
  BY <1>1, <1>2, <1>3 DEF PowerIInv, SuccessStands

\* The invariant holds in every reachable state.
THEOREM PowerInvariance == PowerSpec => []PowerIInv
<1>1. ASSUME PowerInit PROVE PowerIInv
  <2>1. TypeOK
    BY <1>1, InitIInv DEF PowerInit, IInv
  <2>2. PowerTypeOK
    BY <1>1, <2>1, UpsetsAssumption, MissionsAssumption
       DEF PowerInit, PowerTypeOK, InstanceStatus
  <2> QED
    BY <1>1, <2>2 DEF PowerInit, PowerIInv, SuccessStands, Init
<1>2. IInv /\ IInv' /\ PowerIInv /\ [PowerNext]_powerVars => PowerIInv'
  BY PowerNextIInv
<1> QED
  BY <1>1, <1>2, PowerKeepsLifecycleInvariant, PTL DEF PowerSpec

\* What a start or stop has reported stands until an opposite action or
\* something outside moves the instance, and a reported reboot or snapshot has
\* been accepted: for any number of actions, workers, polls, redeliveries and
\* crashes.
THEOREM ReportedSuccessStands == PowerSpec => []SuccessStands
<1>1. PowerIInv => SuccessStands
  BY DEF PowerIInv
<1> QED
  BY <1>1, PowerInvariance, PTL

-----------------------------------------------------------------------------
\* While no answer is lost, who has had a reboot or snapshot accepted has done it.
AcceptedIsPerformed ==
  lost = 0 => \A a \in Actions : (~ Polls(a) /\ accepted[a] > 0) => a \in performed

\* Nothing takes an action out of performed, a call out of accepted, and so on.
LEMMA CountersGrow ==
  ASSUME IInv, PowerTypeOK, [PowerNext]_powerVars
  PROVE  /\ performed \subseteq performed'
         /\ lost' = 0 => lost = 0
         /\ drifts' = 0 => drifts = 0
         /\ \A a \in Actions : copies'[a] = 0 => copies[a] = 0
<1>1. /\ performed \subseteq performed'
      /\ \A a \in Actions : copies'[a] = 0 => copies[a] = 0
  <2>1. ASSUME NEW m \in queue, Redeliver(m)
        PROVE  \A a \in Actions : copies'[a] = 0 => copies[a] = 0
    <3>1. m.act \in Actions /\ copies \in [Actions -> Nat]
      BY MessageFields, BoundsAssumption DEF IInv, TypeOK, Copies
    <3> QED
      BY <2>1, <3>1 DEF Redeliver
  <2> QED
    BY <2>1, PowerStepIsLifecycleStep
       DEF Next, CreateRecord, PublishTask, AbortRequest, Cancel, Redeliver, Take,
           Receive, Execute, Start, StartFails, RunReturns, RunAsksForRetry, RunRaises,
           PublishRetry, Finish, Drop, ghosts, vars
<1>2. /\ lost \in Nat /\ (lost' = lost \/ lost' = lost + 1)
      /\ drifts \in Nat /\ (drifts' = drifts \/ drifts' = drifts + 1)
  BY UpsetsAssumption
     DEF PowerNext, OutsideTasks, PowerExecute, Poll, NoCredentials, NoDescription,
         FoundTarget, FoundBroken, FoundSource, FoundOther, GoAhead, Call, CallRefused,
         AnswerLost, Send, AroundPoll, Killed, Complete, Drift, rds, powerVars, PowerTypeOK
<1> QED
  BY <1>1, <1>2

LEMMA AcceptedIsPerformedStep ==
  ASSUME IInv, PowerTypeOK, AcceptedIsPerformed, [PowerNext]_powerVars
  PROVE  AcceptedIsPerformed'
<1> SUFFICES ASSUME lost' = 0, NEW a \in Actions, ~ Polls(a)', accepted'[a] > 0
             PROVE  a \in performed'
  BY DEF AcceptedIsPerformed
<1>0. lost = 0 /\ performed \subseteq performed' /\ ~ Polls(a)
  BY CountersGrow, AcceptedGrows DEF Polls
<1>1. CASE accepted'[a] = accepted[a]
  BY <1>0, <1>1 DEF AcceptedIsPerformed
<1>2. ASSUME NEW w \in Workers, Call(w), accepted'[a] # accepted[a]
      PROVE  a \in performed'
  <2>1. a = job[w].act /\ Accepts(a)
    BY <1>2 DEF Call, Send, PowerTypeOK
  <2>2. RunReturns(w)
    BY <1>0, <1>2, <2>1 DEF Call
  <2> QED
    BY <2>1, <2>2 DEF RunReturns
<1>3. ASSUME NEW w \in Workers, AnswerLost(w) PROVE FALSE
  BY <1>0, <1>3 DEF AnswerLost
<1>4. ASSUME accepted' # accepted PROVE \E w \in Workers : Call(w) \/ AnswerLost(w)
  BY <1>4 DEF PowerNext, OutsideTasks, PowerExecute, Poll, NoCredentials, NoDescription,
              FoundTarget, FoundBroken, FoundSource, FoundOther, GoAhead, CallRefused,
              AroundPoll,
              Killed, Complete, Drift, rds, powerVars
<1> QED
  BY <1>1, <1>2, <1>3, <1>4

\* A reboot or snapshot that reports FAILURE, was not duplicated and lost no
\* answer has not touched the instance, though it may fail at every step.
THEOREM ReportedFailureIsUntouched == PowerSpec => []FailureMeansUntouched
<1>1. PowerInit => AcceptedIsPerformed
  BY DEF PowerInit, AcceptedIsPerformed
<1>2. PowerIInv => PowerTypeOK
  BY DEF PowerIInv
<1>3. IInv /\ PowerTypeOK /\ AcceptedIsPerformed /\ [PowerNext]_powerVars
        => AcceptedIsPerformed'
  BY AcceptedIsPerformedStep
<1>4. PowerTypeOK /\ AcceptedIsPerformed /\ OutcomeIsHonest => FailureMeansUntouched
  BY DEF PowerTypeOK, AcceptedIsPerformed, OutcomeIsHonest, FailureMeansUntouched
<1> QED
  BY <1>1, <1>2, <1>3, <1>4, PowerInvariance, PowerKeepsLifecycleInvariant,
     PowerImplementsLifecycle, ReportsAreHonest, PTL DEF PowerSpec

-----------------------------------------------------------------------------
\* Nothing but a itself, of which there is one copy, has touched the instance.
Lone(a) ==
  /\ Polls(a) /\ drifts = 0 /\ lost = 0 /\ copies[a] = 0
  /\ \A b \in Actions \ {a} : accepted[b] = 0

\* Who is about to call for it will be accepted: the instance cannot have moved
\* since it was described.
LoneIInv ==
  \A a \in Actions : Lone(a) =>
    /\ attempts[a] = accepted[a]
    /\ \A w \in calling : job[w].act = a => instance = Source(a)

\* One worker at a time executes an action that was not duplicated.
LEMMA OneExecutor ==
  ASSUME IInv, NEW a \in Actions, copies[a] = 0,
         NEW v \in Workers, NEW w \in Workers, Carries(v, a), Carries(w, a)
  PROVE  v = w
<1>1. job[v] \in Messages /\ job[w] \in Messages
  BY BusyHoldsMessage DEF IInv, Carries, Busy
<1>2. job[v].copy \in Nat /\ job[w].copy \in Nat
  BY <1>1, MessageFields, BoundsAssumption DEF Copies
<1>3. job[v].copy = 0 /\ job[w].copy = 0
  BY <1>2 DEF IInv, CopiesAreNumbered, Carries, Busy
<1> QED
  BY <1>3 DEF IInv, CopyCarriedOnce, Carries, SameCopy

LEMMA LoneStep ==
  ASSUME IInv, PowerTypeOK, LoneIInv, [PowerNext]_powerVars
  PROVE  LoneIInv'
<1> SUFFICES ASSUME NEW a \in Actions, Lone(a)'
             PROVE  /\ attempts'[a] = accepted'[a]
                    /\ \A w \in calling' : job'[w].act = a => instance' = Source(a)'
  BY DEF LoneIInv
<1> DEFINE Kept == /\ attempts'[a] = accepted'[a]
                   /\ \A w \in calling' : job'[w].act = a => instance' = Source(a)
<1>0. /\ wanted' = wanted /\ Source(a)' = Source(a)
      /\ accepted \in [Actions -> Nat] /\ attempts \in [Actions -> Nat]
      /\ calling \subseteq {w \in Workers : pc[w] = "running"}
  BY AcceptedGrows DEF Source, PowerTypeOK
<1>1. Lone(a)
  BY <1>0, CountersGrow, AcceptedGrows DEF Lone, Polls
<1>2. /\ attempts[a] = accepted[a]
      /\ \A w \in calling : job[w].act = a => instance = Source(a)
  BY <1>1 DEF LoneIInv
<1>3. ASSUME NEW w \in Workers, Call(w) PROVE Kept
  <2>1. /\ pc[w] = "running" /\ job' = job /\ w \in calling
        /\ calling' = calling \ {w} /\ Send(w)
    BY <1>3 DEF Call, Send, RunReturns, RunAsksForRetry, RunRaises
  <2>2. CASE job[w].act = a
    <3>1. Accepts(a)
      BY <1>1, <1>2, <2>1, <2>2 DEF Accepts, Lone, Polls
    <3>2. attempts'[a] = attempts[a] + 1 /\ accepted'[a] = accepted[a] + 1
      BY <1>0, <2>1, <2>2, <3>1 DEF Send
    <3>3. ASSUME NEW v \in calling', job'[v].act = a PROVE FALSE
      BY <1>0, <1>1, <2>1, <2>2, <3>3, OneExecutor DEF Carries, Lone
    <3> QED
      BY <1>2, <3>2, <3>3
  <2>3. ASSUME NEW b \in Actions \ {a}, job[w].act = b PROVE Kept
    <3>1. ~ Accepts(b)
      BY <1>0, <2>1, <2>3 DEF Send, Lone
    <3>2. UNCHANGED <<instance, accepted>> /\ attempts'[a] = attempts[a]
      BY <1>0, <2>1, <2>3, <3>1 DEF Send
    <3> QED
      BY <1>2, <2>1, <3>2
  <2> QED
    BY <2>1, <2>2, <2>3, JobAction
<1>4. ASSUME NEW w \in Workers, FoundSource(w) \/ GoAhead(w) PROVE Kept
  <2>1. /\ calling' = calling \cup {w} /\ UNCHANGED <<job, instance, attempts, accepted>>
        /\ Polls(job[w].act) => instance = Source(job[w].act)
    BY <1>4 DEF FoundSource, GoAhead, Preparing, vars
  <2> QED
    BY <1>1, <1>2, <2>1 DEF Lone
<1>5. ASSUME /\ UNCHANGED <<instance, attempts, accepted>> /\ calling' \subseteq calling
             /\ \A w \in calling' : job'[w] = job[w]
      PROVE  Kept
  BY <1>2, <1>5
<1>6. ASSUME NEW w \in Workers, PowerExecute(w),
             ~ (Call(w) \/ AnswerLost(w) \/ FoundSource(w) \/ GoAhead(w))
      PROVE  Kept
  <2>1. CASE Poll(w)
    <3>1. /\ UNCHANGED <<instance, attempts, accepted, job>>
          /\ calling' \subseteq calling
      BY <1>6, <2>1 DEF Poll, NoCredentials, NoDescription, FoundTarget, FoundBroken,
                        FoundOther, CallRefused, RunReturns, RunAsksForRetry, RunRaises,
                        rds
    <3> QED
      BY <1>5, <3>1
  <2>2. CASE AroundPoll(w)
    <3>1. UNCHANGED rds /\ (job' = job \/ pc[w] # "running")
      BY <2>2 DEF AroundPoll, Start, StartFails, PublishRetry, Finish
    <3>2. \A v \in Workers \ {w} : job'[v] = job[v]
      BY <2>2 DEF AroundPoll, Start, StartFails, PublishRetry, Finish, Release, IInv,
                  TypeOK
    <3> QED
      BY <1>0, <1>5, <3>1, <3>2 DEF rds
  <2>3. CASE Killed(w)
    BY <1>0, <1>5, <2>3 DEF Killed, Drop, Release, IInv, TypeOK
  <2> QED
    BY <1>6, <2>1, <2>2, <2>3 DEF PowerExecute
<1>7. ASSUME OutsideTasks PROVE Kept
  <2>1. \A w \in Workers : pc[w] = "running" => job'[w] = job[w]
    BY <1>7 DEF OutsideTasks, CreateRecord, PublishTask, AbortRequest, Cancel,
                Redeliver, Take, Receive, IInv, TypeOK
  <2> QED
    BY <1>0, <1>5, <1>7, <2>1 DEF OutsideTasks, rds
<1>8. ASSUME Complete PROVE Kept
  <2>1. instance # Source(a)
    BY <1>8 DEF Complete, Source
  <2> QED
    BY <1>2, <1>8, <2>1 DEF Complete, vars
<1>9. ASSUME Drift \/ \E w \in Workers : AnswerLost(w) PROVE FALSE
  BY <1>9, UpsetsAssumption DEF Drift, AnswerLost, Lone, PowerTypeOK
<1>10. ASSUME UNCHANGED powerVars PROVE Kept
  BY <1>5, <1>10 DEF powerVars, rds, vars
<1> QED
  BY <1>0, <1>3, <1>4, <1>6, <1>7, <1>8, <1>9, <1>10 DEF PowerNext, PowerExecute

\* A start or stop that is alone with the instance may crash and be retried at
\* every step: AWS rejects none of its calls for the status of the instance.
THEOREM LoneCallsAreAccepted == PowerSpec => []LoneActionIsNotRejected
<1>1. PowerInit => LoneIInv
  BY DEF PowerInit, LoneIInv
<1>2. PowerIInv => PowerTypeOK
  BY DEF PowerIInv
<1>3. IInv /\ PowerTypeOK /\ LoneIInv /\ [PowerNext]_powerVars => LoneIInv'
  BY LoneStep
<1>4. LoneIInv => LoneActionIsNotRejected
  BY DEF LoneIInv, Lone, LoneActionIsNotRejected
<1> QED
  BY <1>1, <1>2, <1>3, <1>4, PowerInvariance, PowerKeepsLifecycleInvariant, PTL
     DEF PowerSpec

-----------------------------------------------------------------------------
\* Where the instance is once a call of a has been accepted, until something moves
\* it back: nowhere a start or stop would call again.
Zone(a) == IF wanted[a] = "available" THEN {"starting", "available", "busy"}
           ELSE {"stopping", "stopped"}

\* The pending copies of a that are not about to call.
Waiting(a) ==
  {c \in Pending(a) : \A w \in calling : ~ (job[w].act = a /\ job[w].copy = c)}

\* A copy that has called, or need not, still has its call to its credit while the
\* instance is where a wants it; who moves the instance back pays for the next.
Spare(a) == IF Polls(a) /\ instance \in Zone(a) /\ Waiting(a) # {} THEN 1 ELSE 0

\* What moves the instance against a.
Setbacks(a) == IF Polls(a) THEN drifts + Cardinality(Moves(a)) ELSE 0

\* Every copy, every setback and every lost answer pays for a call.
CallsArePaid ==
  \A a \in Actions :
    /\ IsFiniteSet(Moves(a))
    /\ attempts[a] + Cardinality(Pending(a))
         <= copies[a] + 1 + lost + Setbacks(a) + Spare(a)
    /\ request[a] \in {"none", "created"} => attempts[a] = 0

\* A call accepted for an opponent is one more move, no other step is one.
LEMMA MovesStep ==
  ASSUME IInv, PowerTypeOK, [PowerNext]_powerVars, NEW a \in Actions, IsFiniteSet(Moves(a))
  PROVE  /\ IsFiniteSet(Moves(a)') /\ Cardinality(Moves(a)') >= Cardinality(Moves(a))
         /\ Cardinality(Moves(a)) \in Nat /\ Cardinality(Moves(a)') \in Nat
         /\ \A w \in Workers :
              (Send(w) /\ job[w].act \in Opponents(a) /\ Accepts(job[w].act))
                => Cardinality(Moves(a)') = Cardinality(Moves(a)) + 1
<1>0. /\ accepted \in [Actions -> Nat] /\ wanted' = wanted
      /\ Opponents(a)' = Opponents(a) /\ Opponents(a) \subseteq Actions
      /\ Cardinality(Moves(a)) \in Nat
  BY AcceptedGrows, FS_CardinalityType DEF PowerTypeOK, Opponents, Polls
<1>1. ASSUME \A b \in Opponents(a) : accepted'[b] = accepted[b]
      PROVE  Moves(a)' = Moves(a)
  BY <1>0, <1>1 DEF Moves
<1>2. ASSUME NEW b \in Opponents(a), accepted' = [accepted EXCEPT ![b] = @ + 1]
      PROVE  /\ IsFiniteSet(Moves(a)')
             /\ Cardinality(Moves(a)') = Cardinality(Moves(a)) + 1
  <2> DEFINE n == accepted[b]
             x == <<b, n + 1>>
  <2>1. /\ n \in Nat /\ accepted'[b] = n + 1
        /\ \A c \in Opponents(a) \ {b} : accepted'[c] = accepted[c]
    BY <1>0, <1>2
  <2>2. x \notin Moves(a)
    BY <2>1 DEF Moves
  <2>3. 1..(n + 1) = 1..n \cup {n + 1}
    BY <2>1
  <2>4. Moves(a)' = Moves(a) \cup {x}
    <3>1. ASSUME NEW y PROVE y \in Moves(a)' <=> y \in Moves(a) \/ y = x
      <4>1. y \in Moves(a)' <=> \E c \in Opponents(a) : y \in {c} \X (1..accepted'[c])
        BY <1>0 DEF Moves
      <4>2. y \in Moves(a) <=> \E c \in Opponents(a) : y \in {c} \X (1..accepted[c])
        BY DEF Moves
      <4>3. ASSUME NEW c \in Opponents(a)
            PROVE  y \in {c} \X (1..accepted'[c])
                     <=> y \in {c} \X (1..accepted[c]) \/ (c = b /\ y = x)
        BY <2>1, <2>3
      <4> HIDE DEF x, n
      <4> QED
        BY <4>1, <4>2, <4>3
    <3> QED
      BY <3>1
  <2> HIDE DEF x
  <2>5. /\ IsFiniteSet(Moves(a) \cup {x})
        /\ Cardinality(Moves(a) \cup {x})
             = IF x \in Moves(a) THEN Cardinality(Moves(a)) ELSE Cardinality(Moves(a)) + 1
    BY FS_AddElement, Zenon
  <2> QED
    BY <2>2, <2>4, <2>5, Zenon
<1>3. ASSUME NEW w \in Workers, Send(w)
      PROVE  /\ job[w].act \in Actions
             /\ job[w].act \in Opponents(a) /\ Accepts(job[w].act)
                  => accepted' = [accepted EXCEPT ![job[w].act] = @ + 1]
             /\ ~ (job[w].act \in Opponents(a) /\ Accepts(job[w].act))
                  => \A b \in Opponents(a) : accepted'[b] = accepted[b]
  <2>1. job[w].act \in Actions
    BY <1>3, JobAction DEF Send, PowerTypeOK
  <2> QED
    BY <1>0, <1>3, <2>1 DEF Send
<1>4. accepted' = accepted \/ \E w \in Workers : Send(w)
  BY DEF PowerNext, OutsideTasks, PowerExecute, Poll, NoCredentials, NoDescription,
         FoundTarget, FoundBroken, FoundSource, FoundOther, GoAhead, Call, CallRefused,
         AnswerLost,
         AroundPoll, Killed, Complete, Drift, rds, powerVars
<1>5. ASSUME NEW w \in Workers, Send(w), job[w].act \in Opponents(a), Accepts(job[w].act)
      PROVE  /\ IsFiniteSet(Moves(a)')
             /\ Cardinality(Moves(a)') = Cardinality(Moves(a)) + 1
  BY <1>2, <1>3, <1>5
<1>6. CASE Moves(a)' = Moves(a)
  BY <1>0, <1>5, <1>6
<1>7. CASE \E w \in Workers :
             Send(w) /\ job[w].act \in Opponents(a) /\ Accepts(job[w].act)
  BY <1>0, <1>5, <1>7
<1> QED
  BY <1>1, <1>3, <1>4, <1>6, <1>7

\* Who waits while the instance is where a wants it goes on waiting, or is done.
LEMMA SpareIsKept ==
  ASSUME NEW a \in Actions, wanted' = wanted,
         instance \in Zone(a) => instance' \in Zone(a),
         \A v \in calling' : job'[v].act = a => v \in calling /\ job'[v] = job[v]
  PROVE  /\ Spare(a) \in {0, 1} /\ Spare(a)' \in {0, 1}
         /\ \/ Spare(a)' >= Spare(a)
            \/ \E d \in Waiting(a) : d \notin Pending(a)'
<1>1. Spare(a) \in {0, 1} /\ Spare(a)' \in {0, 1}
  BY DEF Spare
<1>2. ASSUME Spare(a) = 1, \A d \in Waiting(a) : d \in Pending(a)'
      PROVE  Spare(a)' = 1
  <2>1. Polls(a) /\ instance \in Zone(a) /\ Waiting(a) # {}
    BY <1>2 DEF Spare
  <2>2. Polls(a)' /\ instance' \in Zone(a)'
    BY <2>1 DEF Polls, Zone
  <2>3. PICK d \in Waiting(a) : d \in Pending(a)'
    BY <1>2, <2>1
  <2>4. d \in Waiting(a)'
    BY <2>3 DEF Waiting
  <2> QED
    BY <2>2, <2>4 DEF Spare
<1> QED
  BY <1>1, <1>2

\* A worker that calls for a pays for it: with its copy, which is done or waits from
\* now on where nobody called before, or with the answer that is lost.
LEMMA CallIsPaid ==
  ASSUME IInv, IInv', PowerTypeOK, [PowerNext]_powerVars, NEW a \in Actions,
         NEW w \in Workers, Call(w) \/ AnswerLost(w), job[w].act = a
  PROVE  /\ request[a] \notin {"none", "created"} /\ copies' = copies
         /\ attempts'[a] = attempts[a] + 1
         /\ \/ /\ Cardinality(Pending(a)') <= Cardinality(Pending(a)) - 1
               /\ Spare(a)' >= Spare(a) \/ lost' = lost + 1
            \/ /\ Cardinality(Pending(a)') <= Cardinality(Pending(a))
               /\ \/ Spare(a) = 0 /\ Spare(a)' = 1
                  \/ Spare(a)' >= Spare(a) /\ lost' = lost + 1
<1> DEFINE c == job[w].copy
           pend == Cardinality(Pending(a))
           pend1 == Cardinality(Pending(a)')
<1>0. /\ TypeOK /\ pc[w] = "running" /\ Send(w) /\ w \in calling /\ wanted' = wanted
      /\ attempts'[a] = attempts[a] + 1
  BY AcceptedGrows DEF IInv, PowerTypeOK, Call, AnswerLost, Send
<1>1. request[a] \notin {"none", "created"}
  BY <1>0 DEF IInv, UnpublishedIsUntouched, InFlight, Carries
<1>2. /\ job' = job /\ copies' = copies
      /\ calling' \subseteq calling
  BY DEF Call, AnswerLost, RunReturns, RunAsksForRetry, RunRaises, vars
<1>3. /\ Spare(a) \in {0, 1} /\ Spare(a)' \in {0, 1}
      /\ IsFiniteSet(Pending(a)) /\ pend \in Nat /\ pend1 \in Nat
  BY PendingIsFinite DEF Spare
<1>4. Accepts(a) => Spare(a) = 0
  BY DEF Accepts, Spare, Source, Zone, Polls
<1>5. ASSUME ~ Accepts(a), \A d \in Waiting(a) : d \in Pending(a)'
      PROVE  Spare(a)' >= Spare(a)
  <2>1. instance' = instance
    BY <1>0, <1>5 DEF Send
  <2> QED
    BY <1>0, <1>2, <1>5, <2>1, SpareIsKept
<1>6. ASSUME RunReturns(w) \/ RunAsksForRetry(w) \/ RunRaises(w), pc'[w] # "retrying"
      PROVE  /\ pend1 <= pend - 1
             /\ Accepts(a) \/ Spare(a)' >= Spare(a)
  <2>1. c \in Pending(a) /\ Pending(a)' = Pending(a) \ {c}
    BY <1>6, PendingShrinks
  <2>2. pend1 <= pend - 1
    BY <1>3, <2>1, Counting
  <2>3. \A d \in Waiting(a) : d \in Pending(a)'
    BY <1>0, <2>1 DEF Waiting
  <2> QED
    BY <1>5, <2>2, <2>3
<1>7. ASSUME RunAsksForRetry(w), Accepts(a), Polls(a), pc'[w] = "retrying",
             calling' = calling \ {w}
      PROVE  pend1 <= pend /\ Spare(a)' = 1
  <2>1. job[w] \in Messages /\ c \in Copies
    BY <1>0, BusyHoldsMessage, MessageFields DEF IInv, Busy
  <2>2. /\ queue' = queue
        /\ \A v \in Workers \ {w} : pc'[v] = pc[v]
    BY <1>0, <1>7 DEF RunAsksForRetry, TypeOK
  <2>3. c \in Pending(a)' /\ Pending(a)' \subseteq Pending(a)
    BY <1>0, <1>2, <1>7, <2>1, <2>2 DEF Pending, Carries, Copies
  <2>4. \A v \in calling' : ~ (job'[v].act = a /\ job'[v].copy = c)
    <3>1. \A v \in calling \ {w} : v \in Workers \ {w} /\ pc[v] # "idle"
      BY DEF PowerTypeOK
    <3> QED
      BY <1>0, <1>2, <1>7, <3>1 DEF IInv, CopyCarriedOnce, SameCopy
  <2>5. c \in Waiting(a)'
    BY <2>3, <2>4 DEF Waiting
  <2>6. instance' \in Zone(a)' /\ Polls(a)'
    BY <1>0, <1>7 DEF Send, Underway, Zone, Polls
  <2>7. Spare(a)' = 1
    BY <2>5, <2>6 DEF Spare
  <2>8. pend1 <= pend
    BY <1>3, <2>3, Counting
  <2> QED
    BY <2>7, <2>8
<1> DEFINE PaidFor ==
             \/ /\ pend1 <= pend - 1
                /\ Spare(a)' >= Spare(a) \/ lost' = lost + 1
             \/ /\ pend1 <= pend
                /\ \/ Spare(a) = 0 /\ Spare(a)' = 1
                   \/ Spare(a)' >= Spare(a) /\ lost' = lost + 1
<1> HIDE DEF pend, pend1
<1>8. ASSUME Call(w) PROVE PaidFor
  <2>1. CASE pc'[w] = "retrying"
    <3>1. RunAsksForRetry(w) /\ Accepts(a) /\ Polls(a) /\ calling' = calling \ {w}
      BY <1>0, <1>8, <2>1 DEF Call, RunReturns, RunRaises, TypeOK
    <3> QED
      BY <1>4, <1>7, <2>1, <3>1
  <2>2. CASE pc'[w] # "retrying"
    <3>1. pend1 <= pend - 1 /\ (Accepts(a) \/ Spare(a)' >= Spare(a))
      BY <1>6, <1>8, <2>2 DEF Call
    <3>2. Spare(a)' >= Spare(a)
      BY <1>3, <1>4, <3>1
    <3> QED
      BY <3>1, <3>2
  <2> QED
    BY <2>1, <2>2
<1>9. ASSUME AnswerLost(w) PROVE PaidFor
  <2>0. lost' = lost + 1
    BY <1>9 DEF AnswerLost
  <2>1. CASE UNCHANGED <<vars, calling>>
    <3>1. Pending(a)' = Pending(a)
      BY <2>1 DEF Pending, Carries, Copies, vars
    <3>2. pend1 = pend
      BY <3>1 DEF pend, pend1
    <3>3. \A d \in Waiting(a) : d \in Pending(a)'
      BY <3>1 DEF Waiting
    <3>4. Spare(a)' >= Spare(a)
      BY <1>3, <1>4, <1>5, <3>3
    <3> QED
      BY <1>3, <2>0, <3>2, <3>4
  <2>2. CASE RunRaises(w)
    <3>1. pc'[w] # "retrying"
      BY <1>0, <2>2 DEF RunRaises, TypeOK
    <3> QED
      BY <1>6, <2>0, <2>2, <3>1
  <2> QED
    BY <1>9, <2>1, <2>2 DEF AnswerLost
<1>10. PaidFor
  BY <1>8, <1>9
<1> QED
  BY <1>0, <1>1, <1>2, <1>10 DEF pend, pend1

\* No other step calls for a, and one that uses up what a waiting copy has to its
\* credit is a setback.
LEMMA OtherStepsArePaid ==
  ASSUME IInv, PowerTypeOK, PowerTypeOK', [PowerNext]_powerVars, NEW a \in Actions,
         IsFiniteSet(Moves(a)),
         \A w \in Workers : Call(w) \/ AnswerLost(w) => job[w].act # a
  PROVE  /\ attempts'[a] = attempts[a]
         /\ \/ Spare(a) = 0
            \/ Setbacks(a)' >= Setbacks(a) + 1
            \/ Spare(a)' >= Spare(a)
            \/ \E d \in Waiting(a) : d \notin Pending(a)'
<1> DEFINE Kept == \/ Spare(a) = 0
                   \/ Setbacks(a)' >= Setbacks(a) + 1
                   \/ Spare(a)' >= Spare(a)
                   \/ \E d \in Waiting(a) : d \notin Pending(a)'
           Settled == instance \in Zone(a) => instance' \in Zone(a)
           NoCaller == \A v \in calling' : job'[v].act = a => v \in calling /\ job'[v] = job[v]
<1>0. /\ TypeOK /\ wanted' = wanted /\ Polls(a)' = Polls(a)
      /\ attempts \in [Actions -> Nat] /\ wanted \in [Actions -> Goals]
      /\ calling \subseteq {w \in Workers : pc[w] = "running"}
      /\ drifts \in Nat /\ drifts' \in Nat
  BY AcceptedGrows, UpsetsAssumption DEF IInv, PowerTypeOK, Polls
<1>1. ASSUME Settled, NoCaller PROVE Kept
  BY <1>0, <1>1, SpareIsKept
<1>2. ~ Polls(a) => Spare(a) = 0
  BY DEF Spare
<1>3. ASSUME NEW w \in Workers, Call(w) \/ AnswerLost(w)
      PROVE  attempts'[a] = attempts[a] /\ Kept
  <2> DEFINE b == job[w].act
  <2>1. /\ Send(w) /\ job' = job /\ calling' \subseteq calling /\ b # a
        /\ drifts' = drifts
    BY <1>3 DEF Call, AnswerLost, RunReturns, RunAsksForRetry, RunRaises, vars, Send
  <2>2. b \in Actions
    BY <1>0, <2>1, JobAction DEF Send
  <2>3. attempts'[a] = attempts[a]
    BY <1>0, <2>1, <2>2 DEF Send
  <2> HIDE DEF b
  <2>4. ASSUME Accepts(b), Polls(b), wanted[b] # wanted[a], Polls(a)
        PROVE  Setbacks(a)' >= Setbacks(a) + 1
    <3>1. b \in Opponents(a)
      BY <2>2, <2>4 DEF Opponents
    <3>2. /\ Cardinality(Moves(a)') = Cardinality(Moves(a)) + 1
          /\ Cardinality(Moves(a)) \in Nat
      BY <2>1, <2>4, <3>1, MovesStep DEF b
    <3> QED
      BY <1>0, <2>1, <2>4, <3>2 DEF Setbacks
  <2>5. ASSUME Accepts(b), Polls(b), wanted[b] = wanted[a] PROVE Spare(a) = 0
    BY <2>5 DEF Accepts, Source, Spare, Zone, Polls
  <2>6. ASSUME Accepts(b), ~ Polls(b) PROVE Settled
    <3>1. instance = "available" /\ instance' = "busy"
      BY <1>0, <2>1, <2>2, <2>6 DEF Send, Accepts, Source, Underway, Polls, Goals, b
    <3> QED
      BY <3>1 DEF Zone
  <2>7. ASSUME ~ Accepts(b) PROVE Settled
    BY <2>1, <2>7 DEF Send, b
  <2>8. NoCaller
    BY <2>1
  <2> QED
    BY <1>1, <1>2, <2>3, <2>4, <2>5, <2>6, <2>7, <2>8
<1>4. ASSUME NEW w \in Workers, FoundSource(w) \/ GoAhead(w)
      PROVE  attempts'[a] = attempts[a] /\ Kept
  <2>1. /\ calling' = calling \cup {w} /\ UNCHANGED <<job, instance, attempts>>
        /\ Polls(job[w].act) => instance = Source(job[w].act)
    BY <1>4 DEF FoundSource, GoAhead, Polling, Preparing, vars
  <2>2. CASE job[w].act = a
    BY <1>2, <2>1, <2>2 DEF Source, Spare, Zone, Polls
  <2>3. CASE job[w].act # a
    BY <1>1, <2>1, <2>3
  <2> QED
    BY <2>1, <2>2, <2>3
<1>5. ASSUME /\ UNCHANGED <<instance, attempts>> /\ calling' \subseteq calling
             /\ \A w \in calling' : job'[w] = job[w]
      PROVE  attempts'[a] = attempts[a] /\ Kept
  BY <1>1, <1>5
<1>6. ASSUME NEW w \in Workers, PowerExecute(w),
             ~ (Call(w) \/ AnswerLost(w) \/ FoundSource(w) \/ GoAhead(w))
      PROVE  attempts'[a] = attempts[a] /\ Kept
  <2>1. CASE Poll(w)
    <3>1. /\ UNCHANGED <<instance, attempts, accepted, job>>
          /\ calling' \subseteq calling
      BY <1>6, <2>1 DEF Poll, NoCredentials, NoDescription, FoundTarget, FoundBroken,
                        FoundOther, CallRefused, RunReturns, RunAsksForRetry, RunRaises,
                        rds
    <3> QED
      BY <1>5, <3>1
  <2>2. CASE AroundPoll(w)
    <3>1. UNCHANGED rds /\ (job' = job \/ pc[w] # "running")
      BY <2>2 DEF AroundPoll, Start, StartFails, PublishRetry, Finish
    <3>2. \A v \in Workers \ {w} : job'[v] = job[v]
      BY <1>0, <2>2 DEF AroundPoll, Start, StartFails, PublishRetry, Finish, Release, TypeOK
    <3> QED
      BY <1>0, <1>5, <3>1, <3>2 DEF rds
  <2>3. CASE Killed(w)
    BY <1>0, <1>5, <2>3 DEF Killed, Drop, Release, TypeOK
  <2> QED
    BY <1>6, <2>1, <2>2, <2>3 DEF PowerExecute
<1>7. ASSUME OutsideTasks PROVE attempts'[a] = attempts[a] /\ Kept
  <2>1. \A w \in Workers : pc[w] = "running" => job'[w] = job[w]
    BY <1>0, <1>7 DEF OutsideTasks, CreateRecord, PublishTask, AbortRequest, Cancel,
                      Redeliver, Take, Receive, TypeOK
  <2> QED
    BY <1>0, <1>5, <1>7, <2>1 DEF OutsideTasks, rds
<1>8. ASSUME Complete PROVE attempts'[a] = attempts[a] /\ Kept
  <2>1. Settled
    BY <1>8 DEF Complete, Zone
  <2>2. NoCaller /\ attempts'[a] = attempts[a]
    BY <1>8 DEF Complete, vars
  <2> QED
    BY <1>1, <2>1, <2>2
<1>9. ASSUME Drift PROVE attempts'[a] = attempts[a] /\ Kept
  <2>1. Moves(a)' = Moves(a)
    BY <1>9 DEF Drift, Moves, Opponents, Polls
  <2>2. Cardinality(Moves(a)) \in Nat /\ Cardinality(Moves(a)') = Cardinality(Moves(a))
    BY <2>1, FS_CardinalityType
  <2>3. Polls(a) => Setbacks(a)' >= Setbacks(a) + 1
    BY <1>0, <1>9, <2>2 DEF Drift, Setbacks
  <2> QED
    BY <1>2, <1>9, <2>3 DEF Drift
<1>10. ASSUME UNCHANGED powerVars PROVE attempts'[a] = attempts[a] /\ Kept
  BY <1>5, <1>10 DEF powerVars, rds, vars
<1> QED
  BY <1>3, <1>4, <1>6, <1>7, <1>8, <1>9, <1>10 DEF PowerNext, PowerExecute

\* Every step pays for the calls it makes.
LEMMA CallsArePaidStep ==
  ASSUME IInv, IInv', PowerTypeOK, PowerTypeOK', CallsArePaid, [PowerNext]_powerVars
  PROVE  CallsArePaid'
<1> SUFFICES
      ASSUME NEW a \in Actions
      PROVE  /\ IsFiniteSet(Moves(a)')
             /\ attempts'[a] + Cardinality(Pending(a)')
                  <= copies'[a] + 1 + lost' + Setbacks(a)' + Spare(a)'
             /\ request'[a] \in {"none", "created"} => attempts'[a] = 0
  BY DEF CallsArePaid
<1> DEFINE pend == Cardinality(Pending(a))
           pend1 == Cardinality(Pending(a)')
           back == Setbacks(a)
           back1 == Setbacks(a)'
           spare == Spare(a)
           spare1 == Spare(a)'
           Paid == attempts'[a] + pend1 <= copies'[a] + 1 + lost' + back1 + spare1
<1>n. [Next]_vars
  BY PowerStepIsLifecycleStep
<1>m. /\ IsFiniteSet(Moves(a)) /\ IsFiniteSet(Moves(a)')
      /\ Cardinality(Moves(a)') >= Cardinality(Moves(a))
      /\ Cardinality(Moves(a)) \in Nat /\ Cardinality(Moves(a)') \in Nat
  BY MovesStep DEF CallsArePaid
<1>d. /\ lost \in Nat /\ (lost' = lost \/ lost' = lost + 1)
      /\ drifts \in Nat /\ (drifts' = drifts \/ drifts' = drifts + 1)
  BY UpsetsAssumption
     DEF PowerNext, OutsideTasks, PowerExecute, Poll, NoCredentials, NoDescription,
         FoundTarget, FoundBroken, FoundSource, FoundOther, GoAhead, Call, CallRefused,
         AnswerLost, Send, AroundPoll, Killed, Complete, Drift, rds, powerVars, PowerTypeOK
<1>0. /\ pend \in Nat /\ pend1 \in Nat /\ spare \in {0, 1} /\ spare1 \in {0, 1}
      /\ copies[a] \in Nat /\ copies'[a] \in Nat
      /\ attempts[a] \in Nat /\ attempts'[a] \in Nat
  BY PendingIsFinite DEF Spare, IInv, TypeOK, PowerTypeOK, Copies
<1>1. back \in Nat /\ back1 \in Nat /\ back1 >= back
  <2>1. wanted' = wanted
    BY AcceptedGrows
  <2> QED
    BY <1>m, <1>d, <2>1 DEF Setbacks, Polls
<1>2. /\ attempts[a] + pend <= copies[a] + 1 + lost + back + spare
      /\ request[a] \in {"none", "created"} => attempts[a] = 0
  BY DEF CallsArePaid
<1>3. request[a] \notin {"none", "created"} => request'[a] \notin {"none", "created"}
  BY <1>n, PublishedStays
<1>4. ASSUME NEW w \in Workers, Call(w) \/ AnswerLost(w), job[w].act = a
      PROVE  Paid /\ request'[a] \notin {"none", "created"}
  <2>1. /\ request[a] \notin {"none", "created"} /\ copies' = copies
        /\ attempts'[a] = attempts[a] + 1
        /\ \/ pend1 <= pend - 1 /\ (spare1 >= spare \/ lost' = lost + 1)
           \/ /\ pend1 <= pend
              /\ \/ spare = 0 /\ spare1 = 1
                 \/ spare1 >= spare /\ lost' = lost + 1
    BY <1>4, CallIsPaid
  <2> HIDE DEF pend, pend1, back, back1, spare, spare1
  <2> QED
    BY <1>0, <1>1, <1>2, <1>3, <1>d, <2>1
<1>5. ASSUME \A w \in Workers : Call(w) \/ AnswerLost(w) => job[w].act # a
      PROVE  Paid /\ attempts'[a] = attempts[a]
  <2>1. /\ attempts'[a] = attempts[a]
        /\ \/ spare = 0
           \/ back1 >= back + 1
           \/ spare1 >= spare
           \/ \E d \in Waiting(a) : d \notin Pending(a)'
    BY <1>5, <1>m, OtherStepsArePaid
  <2>2. \/ copies'[a] = copies[a] /\ pend1 <= pend
        \/ request[a] = "created" /\ copies'[a] = copies[a] /\ pend1 <= 1
        \/ copies'[a] = copies[a] + 1 /\ pend1 <= pend + 1
    BY <1>n, PendingCount
  <2>3. CASE \E d \in Waiting(a) : d \notin Pending(a)'
    <3>1. \E d \in Pending(a) : d \notin Pending(a)'
      BY <2>3 DEF Waiting
    <3>2. \/ copies'[a] = copies[a] /\ pend1 <= pend - 1
          \/ copies'[a] = copies[a] + 1 /\ pend1 <= pend
      BY <1>n, <3>1, PendingCount
    <3> HIDE DEF pend, pend1, back, back1, spare, spare1
    <3> QED
      BY <1>0, <1>1, <1>2, <1>d, <2>1, <3>2
  <2>4. CASE spare = 0 \/ back1 >= back + 1 \/ spare1 >= spare
    <3> HIDE DEF pend, pend1, back, back1, spare, spare1
    <3> QED
      BY <1>0, <1>1, <1>2, <1>d, <2>1, <2>2, <2>4
  <2> QED
    BY <2>1, <2>3, <2>4
<1> QED
  BY <1>m, <1>2, <1>3, <1>4, <1>5

\* A start or stop does not repeat a call that is under way: whatever crashes, is
\* retried or delivered again, each copy, each move against it and each lost answer
\* accounts for one call; for any number of actions, workers and polls.
THEOREM CallsAreBounded == PowerSpec => []CallsAreNotRepeated
<1>1. PowerInit => CallsArePaid
  <2> SUFFICES ASSUME PowerInit, NEW a \in Actions
               PROVE  /\ IsFiniteSet(Moves(a))
                      /\ attempts[a] + Cardinality(Pending(a))
                           <= copies[a] + 1 + lost + Setbacks(a) + Spare(a)
                      /\ attempts[a] = 0
    BY DEF CallsArePaid
  <2>1. Pending(a) = {} /\ Moves(a) = {} /\ copies[a] = 0
    BY DEF PowerInit, Init, Pending, Carries, Moves, Opponents
  <2>2. IsFiniteSet(Moves(a)) /\ Cardinality(Moves(a)) = 0 /\ Cardinality(Pending(a)) = 0
    BY <2>1, FS_EmptySet
  <2>3. attempts[a] = 0 /\ lost = 0 /\ Setbacks(a) = 0 /\ Spare(a) \in {0, 1}
    BY <2>2 DEF PowerInit, Setbacks, Spare
  <2> QED
    BY <2>1, <2>2, <2>3
<1>2. /\ IInv /\ IInv' /\ PowerIInv /\ PowerIInv' /\ CallsArePaid /\ [PowerNext]_powerVars
      => CallsArePaid'
  BY CallsArePaidStep DEF PowerIInv
<1>3. IInv /\ PowerIInv /\ CallsArePaid => CallsAreNotRepeated
  <2> SUFFICES ASSUME IInv, PowerIInv, CallsArePaid, NEW a \in Actions
               PROVE  attempts[a] <= copies[a] + 1 + lost + Setbacks(a)
    BY DEF CallsAreNotRepeated, Setbacks
  <2>1. /\ attempts[a] + Cardinality(Pending(a))
             <= copies[a] + 1 + lost + Setbacks(a) + Spare(a)
        /\ IsFiniteSet(Moves(a))
    BY DEF CallsArePaid
  <2>2. /\ attempts[a] \in Nat /\ copies[a] \in Nat /\ lost \in Nat
        /\ Setbacks(a) \in Nat /\ Spare(a) \in {0, 1}
    BY <2>1, FS_CardinalityType, UpsetsAssumption
       DEF IInv, TypeOK, PowerIInv, PowerTypeOK, Copies, Setbacks, Spare
  <2>3. Cardinality(Pending(a)) \in Nat /\ IsFiniteSet(Pending(a))
    BY PendingIsFinite
  <2>4. Spare(a) = 1 => Cardinality(Pending(a)) # 0
    BY <2>3, FS_EmptySet DEF Spare, Waiting
  <2> QED
    BY <2>1, <2>2, <2>3, <2>4
<1> QED
  BY <1>1, <1>2, <1>3, PowerInvariance, PowerKeepsLifecycleInvariant, PTL DEF PowerSpec
=============================================================================
