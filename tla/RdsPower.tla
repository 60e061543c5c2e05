-------------------------------- MODULE RdsPower --------------------------------
(***************************************************************************)
(* The RDS actions on one instance: ActionLifecycle, with the task body    *)
(* worked out.  For a start or stop an execution of the body is one poll:  *)
(* look the resource and its credentials up, describe the instance, and    *)
(* succeed (target status), fail (terminal status), ask for a retry, or    *)
(* first call the AWS operation (source status).  Nothing ties the call to *)
(* the description: other tasks, other copies of the task, and AWS itself  *)
(* act in between.  A reboot or snapshot calls without looking, and what   *)
(* AWS answers is its outcome.                                             *)
(*                                                                         *)
(* AWS is external: it starts a stopped instance, stops, reboots or backs  *)
(* up an available one, rejects the calls in every other status, and moves *)
(* the instance on.  The snapshots asked for have one identifier, which    *)
(* AWS gives once.                                                         *)
(***************************************************************************)
EXTENDS ActionLifecycle, FiniteSets

CONSTANTS
  Missions,   \* what the actions may be for, functions from Actions to Goals
  MaxUpsets   \* bound: changes of the instance nobody here asked for, and lost
              \* answers of AWS

\* A start wants "available", a stop "stopped".
Goals == {"available", "stopped", "reboot", "snapshot"}

\* The status AWS reports: "busy" stands for modifying, backing-up, rebooting
\* and the like, "broken" for RDS_TERMINAL_ERROR_STATES and for any status that
\* is not in RdsInstanceStatus.
InstanceStatus == {"available", "stopped", "starting", "stopping", "busy", "broken"}

ASSUME MissionsAssumption == Missions \subseteq [Actions -> Goals]
ASSUME UpsetsAssumption == MaxUpsets \in Nat

VARIABLES
  wanted,    \* wanted[a]: the goal of action a
  instance,  \* the status of the RDS instance
  calling,   \* workers that have described it and are about to call AWS
  attempts,  \* attempts[a]: calls of action a that AWS has judged by the instance
  accepted,  \* accepted[a]: those AWS has accepted
  drifts,    \* changes of the instance nobody here asked for
  lost       \* calls whose answer was lost

rds == <<wanted, instance, calling, attempts, accepted, drifts, lost>>
powerVars == <<vars, rds>>

\* Starts and stops poll; reboots and snapshots are one call.
Polls(a) == wanted[a] \in {"available", "stopped"}

Source(a) == IF wanted[a] = "available" THEN "stopped" ELSE "available"
Underway(a) ==
  [available |-> "starting", stopped |-> "stopping", reboot |-> "busy",
   snapshot |-> "busy"][wanted[a]]

\* AWS accepts the call of a.
Accepts(a) ==
  /\ instance = Source(a)
  /\ wanted[a] = "snapshot" =>
       \A b \in Actions : wanted[b] = "snapshot" => accepted[b] = 0

PowerInit ==
  /\ Init
  /\ wanted \in Missions
  /\ instance \in {"available", "stopped"}
  /\ calling = {}
  /\ attempts = [a \in Actions |-> 0]
  /\ accepted = [a \in Actions |-> 0]
  /\ drifts = 0
  /\ lost = 0

-----------------------------------------------------------------------------
(***************************************************************************)
(* One execution of the task body by worker w.                             *)
(***************************************************************************)
Preparing(w) == pc[w] = "running" /\ w \notin calling
Polling(w) == Preparing(w) /\ Polls(job[w].act)

\* Vault does not hand out the AWS credentials: autoretry_for.
NoCredentials(w) == Preparing(w) /\ RunAsksForRetry(w) /\ UNCHANGED rds

\* The resource is unknown, or AWS refuses the description.
NoDescription(w) == Preparing(w) /\ RunRaises(w) /\ UNCHANGED rds

\* Mutant of FoundTarget: an instance under way counts as done.
FoundTargetOrUnderway(w) ==
  /\ Polling(w)
  /\ instance \in {wanted[job[w].act], Underway(job[w].act)}
  /\ RunReturns(w)
  /\ UNCHANGED rds

FoundTarget(w) ==
  /\ Polling(w)
  /\ instance = wanted[job[w].act]
  /\ RunReturns(w)
  /\ UNCHANGED rds

\* A terminal error status, or one that RdsInstanceStatus(...) does not accept.
FoundBroken(w) ==
  /\ Polling(w)
  /\ instance = "broken"
  /\ RunRaises(w)
  /\ UNCHANGED rds

\* Mutant of FoundSource: the call is repeated while it is under way.
FoundSourceOrUnderway(w) ==
  /\ Polling(w)
  /\ instance \in {Source(job[w].act), Underway(job[w].act)}
  /\ calling' = calling \cup {w}
  /\ UNCHANGED <<vars, wanted, instance, attempts, accepted, drifts, lost>>

FoundSource(w) ==
  /\ Polling(w)
  /\ instance = Source(job[w].act)
  /\ calling' = calling \cup {w}
  /\ UNCHANGED <<vars, wanted, instance, attempts, accepted, drifts, lost>>

\* A reboot or snapshot does not look.
GoAhead(w) ==
  /\ Preparing(w) /\ ~ Polls(job[w].act)
  /\ calling' = calling \cup {w}
  /\ UNCHANGED <<vars, wanted, instance, attempts, accepted, drifts, lost>>

\* Mutant of FoundOther: the next poll is a new task, not a retry.
FoundOtherStartsAnew(w) ==
  /\ Polling(w)
  /\ instance \in {"starting", "stopping", "busy"}
  /\ queue' = queue \cup {[job[w] EXCEPT !.retries = 0]}
  /\ Release(w)
  /\ UNCHANGED <<record, request, copies, ghosts, dropped, mishaps, cancels, rds>>

FoundOther(w) ==
  /\ Polling(w)
  /\ instance \in {"starting", "stopping", "busy"}
  /\ RunAsksForRetry(w)
  /\ UNCHANGED rds

\* The call reaches AWS.
Send(w) ==
  LET a == job[w].act IN
  /\ w \in calling
  /\ attempts' = [attempts EXCEPT ![a] = @ + 1]
  /\ IF Accepts(a)
     THEN /\ instance' = Underway(a)
          /\ accepted' = [accepted EXCEPT ![a] = @ + 1]
     ELSE UNCHANGED <<instance, accepted>>
  /\ UNCHANGED <<wanted, drifts>>

\* Mutant of Call: a reboot or snapshot goes on like a start, with another poll.
CallAndPoll(w) ==
  /\ Send(w)
  /\ calling' = calling \ {w}
  /\ IF Accepts(job[w].act) THEN RunAsksForRetry(w) ELSE RunRaises(w)
  /\ UNCHANGED lost

\* AWS answers: another poll if a start or stop is accepted, success if a reboot
\* or snapshot is.  A call rejected for the instance's status, or for a snapshot of
\* that name, is a ClientError, which nothing retries.
Call(w) ==
  /\ Send(w)
  /\ calling' = calling \ {w}
  /\ \/ Accepts(job[w].act) /\ Polls(job[w].act) /\ RunAsksForRetry(w)
     \/ Accepts(job[w].act) /\ ~ Polls(job[w].act) /\ RunReturns(w)
     \/ ~ Accepts(job[w].act) /\ RunRaises(w)
  /\ UNCHANGED lost

\* AWS, or the way to it, refuses the call for a reason of its own: rights, quotas,
\* its rate limits for longer than botocore tries.  That is no retry either.
CallRefused(w) ==
  /\ w \in calling
  /\ RunRaises(w)
  /\ calling' = calling \ {w}
  /\ UNCHANGED <<wanted, instance, attempts, accepted, drifts, lost>>

\* The answer is lost: botocore sends the call again, up to five times in all.
AnswerLost(w) ==
  /\ Send(w)
  /\ drifts + lost < MaxUpsets
  /\ lost' = lost + 1
  /\ \/ UNCHANGED <<vars, calling>>
     \/ RunRaises(w) /\ calling' = calling \ {w}

Poll(w) ==
  \/ NoCredentials(w)
  \/ NoDescription(w)
  \/ FoundTarget(w)
  \/ FoundBroken(w)
  \/ FoundSource(w)
  \/ FoundOther(w)
  \/ GoAhead(w)
  \/ Call(w)
  \/ CallRefused(w)
  \/ AnswerLost(w)

-----------------------------------------------------------------------------
(***************************************************************************)
(* The rest: the task around the body, and AWS.                            *)
(***************************************************************************)
AroundPoll(w) ==
  /\ Start(w) \/ StartFails(w) \/ PublishRetry(w) \/ Finish(w)
  /\ UNCHANGED rds

\* A killed worker does not make the call it was about to make.
Killed(w) ==
  /\ Drop(w)
  /\ calling' = calling \ {w}
  /\ UNCHANGED <<wanted, instance, attempts, accepted, drifts, lost>>

PowerExecute(w) == Poll(w) \/ AroundPoll(w) \/ Killed(w)

OutsideTasks ==
  /\ \/ \E a \in Actions : CreateRecord(a) \/ PublishTask(a) \/ AbortRequest(a)
                             \/ Cancel(a)
     \/ \E m \in queue : Redeliver(m)
     \/ \E w \in Workers : Take(w)
  /\ UNCHANGED rds

\* AWS completes what it was asked for.
Complete ==
  /\ \/ instance = "starting" /\ instance' = "available"
     \/ instance = "stopping" /\ instance' = "stopped"
     \/ instance = "busy" /\ instance' = "available"
  /\ UNCHANGED <<vars, wanted, calling, attempts, accepted, drifts, lost>>

\* Maintenance, failures, the console, the restart of an instance stopped for
\* seven days.
Drift ==
  /\ drifts + lost < MaxUpsets
  /\ instance' \in InstanceStatus \ {instance}
  /\ drifts' = drifts + 1
  /\ UNCHANGED <<vars, wanted, calling, attempts, accepted, lost>>

PowerNext ==
  \/ OutsideTasks
  \/ \E w \in Workers : PowerExecute(w)
  \/ Complete
  \/ Drift

PowerSpec == PowerInit /\ [][PowerNext]_powerVars

\* As in ActionLifecycle.  AWS owes nothing: the instance may be starting for
\* ever.
PowerFairness ==
  /\ \A w \in Workers :
       /\ WF_powerVars(Take(w) /\ UNCHANGED rds)
       /\ WF_powerVars(PowerExecute(w))
  /\ \A a \in Actions :
       WF_powerVars((PublishTask(a) \/ AbortRequest(a)) /\ UNCHANGED rds)

PowerFairSpec == PowerSpec /\ PowerFairness

-----------------------------------------------------------------------------
(***************************************************************************)
(* What must hold.                                                         *)
(***************************************************************************)

\* Every variable has its type.
PowerTypeOK ==
  /\ TypeOK
  /\ wanted \in [Actions -> Goals]
  /\ instance \in InstanceStatus
  /\ calling \subseteq {w \in Workers : pc[w] = "running"}
  /\ attempts \in [Actions -> Nat]
  /\ accepted \in [Actions -> Nat]
  /\ drifts \in 0..MaxUpsets
  /\ lost \in 0..MaxUpsets

Opponents(a) == {b \in Actions : Polls(b) /\ wanted[b] # wanted[a]}

\* The instance is in the status a start or stop asks for, or up but being
\* rebooted or backed up, unless an opposite action or something outside has
\* moved it.  A reboot or snapshot stands once AWS has accepted it.
Stands(a) ==
  IF Polls(a)
  THEN \/ instance = wanted[a]
       \/ wanted[a] = "available" /\ instance = "busy"
       \/ drifts > 0
       \/ \E b \in Opponents(a) : accepted[b] > 0
  ELSE accepted[a] > 0

\* A start or stop that reports SUCCESS has reached the status asked for, and
\* keeps it: no task reports an operation that is still under way, and no other
\* poll, copy or action of another kind undoes it.  A reboot or snapshot that
\* reports SUCCESS has been accepted.
SuccessStands == \A a \in Actions : status[a] = "SUCCESS" => Stands(a)

\* The inductive invariant: what is about to be reported stands, too.
PowerIInv ==
  /\ PowerTypeOK
  /\ SuccessStands
  /\ \A w \in Workers : pc[w] = "succeeded" => Stands(job[w].act)

\* A reboot or snapshot that reports FAILURE has not touched the instance, unless
\* SQS has duplicated it or an answer of AWS was lost (botocore's second call
\* is then rejected for what the first one did).
FailureMeansUntouched ==
  \A a \in Actions :
    (~ Polls(a) /\ status[a] = "FAILURE" /\ copies[a] = 0 /\ lost = 0)
      => accepted[a] = 0

\* The calls by which the opponents of a have moved the instance, each an action
\* and the number of its accepted call.
Moves(a) == UNION {{b} \X (1..accepted[b]) : b \in Opponents(a)}

\* A call is not sent again while the one before it is under way (AGENT.md asks
\* for it).  A start or stop calls once for each copy of its message, and once
\* more, whatever the number of its copies, each time an opposite action or
\* something outside has moved the instance back; a reboot or snapshot calls once
\* for each copy.  A lost answer costs one more call.  (A call refused for another
\* reason does not count: it moves nothing and ends its copy.)
CallsAreNotRepeated ==
  \A a \in Actions :
    attempts[a] <= copies[a] + 1 + lost +
                     IF Polls(a) THEN drifts + Cardinality(Moves(a)) ELSE 0

\* The docstring calls start and stop idempotent and safe to retry on worker
\* restart.  An action that is alone with the instance is: whichever of its
\* executions crash or are retried, AWS finds the instance ready for every call it
\* makes, unless the answer to one was lost.
LoneActionIsNotRejected ==
  \A a \in Actions :
    (/\ Polls(a)
     /\ drifts = 0 /\ lost = 0
     /\ copies[a] = 0
     /\ \A b \in Actions \ {a} : accepted[b] = 0)
    => attempts[a] = accepted[a]

\* With its body worked out, an action still lives as ActionLifecycle says, its
\* fairness included: polling ends, even if the instance is starting for ever
\* or a start and a stop undo each other's work.
ImplementsActionLifecycle == FairSpec
=============================================================================
