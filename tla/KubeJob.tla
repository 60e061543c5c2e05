--------------------------------- MODULE KubeJob ---------------------------------
(***************************************************************************)
(* The actions that create a Kubernetes Job: external-resource-flush-      *)
(* elasticache, whose task body waits for the Job, and openshift-trigger-  *)
(* cronjob, whose body does not.  ActionLifecycle, with the task body      *)
(* worked out.  A Job has a unique name, so nothing recognises the Job an  *)
(* earlier execution of the same action has created.                       *)
(*                                                                         *)
(* The cluster is external: a Job it has created runs, and ends as         *)
(* succeeded or as failed (more than backoff_limit pods have failed), or   *)
(* never.  An error of its API may hide that a request was carried out.    *)
(***************************************************************************)
EXTENDS ActionLifecycle, Sequences, FiniteSets

CONSTANT
  HiddenCreations  \* TRUE if a create request that fails may have made the Job

ASSUME HiddenAssumption == HiddenCreations \in BOOLEAN

VARIABLES
  waits,     \* waits[a]: wait_for_completion, TRUE if action a is a flush
  jobs,      \* jobs[a]: the states of the Jobs created for action a
  awaiting   \* awaiting[w]: the Job worker w waits for, its place in jobs, or 0

kube == <<waits, jobs, awaiting>>
jobVars == <<vars, kube>>

JobState == {"running", "succeeded", "failed"}

JobInit ==
  /\ Init
  /\ waits \in [Actions -> BOOLEAN]
  /\ jobs = [a \in Actions |-> <<>>]
  /\ awaiting = [w \in Workers |-> 0]

-----------------------------------------------------------------------------
(***************************************************************************)
(* One execution of the task body by worker w.                             *)
(***************************************************************************)
Preparing(w) == pc[w] = "running" /\ awaiting[w] = 0
Awaited(w) == jobs[job[w].act][awaiting[w]]

\* hvac's error about the secret of the cluster's token, or the API cannot read
\* the cron job.
NoConnection(w) == Preparing(w) /\ RunAsksForRetry(w) /\ UNCHANGED kube

\* No such resource, cluster or cron job, no token for the cluster (or a secret
\* without the field), or no output resource name.
NoSubject(w) == Preparing(w) /\ RunRaises(w) /\ UNCHANGED kube

AddJob(a) == jobs' = [jobs EXCEPT ![a] = Append(@, "running")]

CreateAndReturn(w) ==
  /\ Preparing(w)
  /\ ~ waits[job[w].act]
  /\ AddJob(job[w].act)
  /\ RunReturns(w)
  /\ UNCHANGED <<waits, awaiting>>

CreateAndWait(w) ==
  /\ Preparing(w)
  /\ waits[job[w].act]
  /\ AddJob(job[w].act)
  /\ awaiting' = [awaiting EXCEPT ![w] = Len(jobs[job[w].act]) + 1]
  /\ UNCHANGED <<vars, waits>>

\* Mutant of CreateFails: the request is repeated within the execution.
CreateFailsAndRepeats(w) ==
  /\ Preparing(w)
  /\ AddJob(job[w].act)
  /\ UNCHANGED <<vars, waits, awaiting>>

\* The create request ends in an ApiException, which is retried, or in an error
\* of the transport, which is not; the Job may have been created all the same.
CreateFails(w) ==
  /\ Preparing(w)
  /\ (HiddenCreations /\ AddJob(job[w].act)) \/ UNCHANGED jobs
  /\ RunAsksForRetry(w) \/ RunRaises(w)
  /\ UNCHANGED <<waits, awaiting>>

\* Mutant of StopWaiting: the worker does not forget the Job.
StopWaitingLate(w) == awaiting[w] # 0 /\ UNCHANGED awaiting

\* job_wait reads the Job every five seconds.  It goes on when the Job is not
\* found, has no status, or is neither succeeded nor failed.
StopWaiting(w) ==
  /\ awaiting[w] # 0
  /\ awaiting' = [awaiting EXCEPT ![w] = 0]

\* Mutant of JobSucceeded: a Job that no longer runs has succeeded.
JobSucceededOrFailed(w) ==
  /\ StopWaiting(w)
  /\ Awaited(w) # "running"
  /\ RunReturns(w)
  /\ UNCHANGED <<waits, jobs>>

JobSucceeded(w) ==
  /\ StopWaiting(w)
  /\ Awaited(w) = "succeeded"
  /\ RunReturns(w)
  /\ UNCHANGED <<waits, jobs>>

JobFailed(w) ==
  /\ StopWaiting(w)
  /\ Awaited(w) = "failed"
  /\ RunRaises(w)
  /\ UNCHANGED <<waits, jobs>>

\* The read raises another ApiException: the whole task is retried.
ReadFails(w) == StopWaiting(w) /\ RunAsksForRetry(w) /\ UNCHANGED <<waits, jobs>>

\* Mutant of WaitTimesOut: the time is not looked at while the Job runs.
WaitTimesOutLate(w) ==
  /\ StopWaiting(w)
  /\ Awaited(w) # "running"
  /\ RunRaises(w)
  /\ UNCHANGED <<waits, jobs>>

\* Ten minutes have passed, whatever the Job's state is now, or the transport
\* fails.
WaitTimesOut(w) == StopWaiting(w) /\ RunRaises(w) /\ UNCHANGED <<waits, jobs>>

RunJob(w) ==
  \/ NoConnection(w)
  \/ NoSubject(w)
  \/ CreateAndReturn(w)
  \/ CreateAndWait(w)
  \/ CreateFails(w)
  \/ JobSucceeded(w)
  \/ JobFailed(w)
  \/ ReadFails(w)
  \/ WaitTimesOut(w)

-----------------------------------------------------------------------------
(***************************************************************************)
(* The rest: the task around the body, and the cluster.                    *)
(***************************************************************************)
AroundJob(w) ==
  /\ Start(w) \/ StartFails(w) \/ PublishRetry(w) \/ Finish(w)
  /\ UNCHANGED kube

\* A killed worker waits no longer; the Job goes on.
Killed(w) ==
  /\ Drop(w)
  /\ awaiting' = [awaiting EXCEPT ![w] = 0]
  /\ UNCHANGED <<waits, jobs>>

JobExecute(w) == RunJob(w) \/ AroundJob(w) \/ Killed(w)

\* What the worker itself does next when nothing around it fails.
JobProceeds(w) ==
  \/ CreateAndReturn(w)
  \/ CreateAndWait(w)
  \/ JobSucceeded(w)
  \/ JobFailed(w)
  \/ WaitTimesOut(w)
  \/ AroundJob(w)

OutsideTasks ==
  /\ \/ \E a \in Actions : CreateRecord(a) \/ PublishTask(a) \/ AbortRequest(a)
                             \/ Cancel(a)
     \/ \E m \in queue : Redeliver(m)
     \/ \E w \in Workers : Take(w)
  /\ UNCHANGED kube

\* The cluster finishes a Job.
JobEnds(a) ==
  /\ \E i \in DOMAIN jobs[a], s \in {"succeeded", "failed"} :
       /\ jobs[a][i] = "running"
       /\ jobs' = [jobs EXCEPT ![a][i] = s]
  /\ UNCHANGED <<vars, waits, awaiting>>

JobNext ==
  \/ OutsideTasks
  \/ \E w \in Workers : JobExecute(w)
  \/ \E a \in Actions : JobEnds(a)

JobSpec == JobInit /\ [][JobNext]_jobVars

\* As in ActionLifecycle; the worker owes job_wait's timeout, the cluster owes
\* nothing.
JobFairness ==
  /\ \A w \in Workers :
       /\ WF_jobVars(Take(w) /\ UNCHANGED kube)
       /\ WF_jobVars(JobProceeds(w))
  /\ \A a \in Actions :
       WF_jobVars((PublishTask(a) \/ AbortRequest(a)) /\ UNCHANGED kube)

JobFairSpec == JobSpec /\ JobFairness

-----------------------------------------------------------------------------
(***************************************************************************)
(* What must hold.                                                         *)
(***************************************************************************)

\* Every variable has its type.
JobTypeOK ==
  /\ TypeOK
  /\ waits \in [Actions -> BOOLEAN]
  /\ jobs \in [Actions -> Seq(JobState)]
  /\ awaiting \in [Workers -> Nat]
  /\ \A w \in Workers :
       awaiting[w] # 0 =>
         /\ pc[w] = "running" /\ waits[job[w].act]
         /\ awaiting[w] \in DOMAIN jobs[job[w].act]

\* What a reports when it reports success: a trigger that a Job exists, a flush
\* that one has succeeded.
Delivered(a) == \E i \in DOMAIN jobs[a] : waits[a] => jobs[a][i] = "succeeded"

\* A flush reports SUCCESS only if a Job of that very action has succeeded, a
\* trigger only if one was created: not for a Job that still runs, has failed,
\* or belongs to another action, whatever was retried or redelivered.
SuccessMeansJob == \A a \in Actions : status[a] = "SUCCESS" => Delivered(a)

\* The executions of a's body so far, each a copy and the number of its run.
Executions(a) == UNION {{c} \X (1..runs[a][c]) : c \in Copies}

\* Every Job goes back to an execution of the task body of its own, so the
\* retries bound the Jobs: no error path of an execution creates a second one.
JobsWithinRuns == \A a \in Actions : Len(jobs[a]) <= Cardinality(Executions(a))

\* The copies of a in whose execution no Job has been asked for yet.
Unspent(a) ==
  {c \in Copies : \E w \in Workers :
     Preparing(w) /\ job[w].act = a /\ job[w].copy = c}

\* The inductive invariant, given ActionLifecycle's: a worker that is about to
\* report success has its Job as well, and who has yet to ask for a Job still has
\* an execution to his account.
JobIInv ==
  /\ JobTypeOK
  /\ SuccessMeansJob
  /\ \A w \in Workers : pc[w] = "succeeded" => Delivered(job[w].act)
  /\ \A a \in Actions :
       Len(jobs[a]) + Cardinality(Unspent(a)) <= Cardinality(Executions(a))

\* With its body worked out, an action still lives as ActionLifecycle says, its
\* fairness included: a Job that never ends blocks its worker for a while, but
\* not for ever.
ImplementsActionLifecycle == FairSpec

\* "On each retry, the task re-executes from scratch - it must not re-send an
\* API call that's already in progress" (AGENT.md): no Job is created for an
\* action that SQS has not duplicated while another Job of it runs, not even one
\* the action has waited for (the only kind there is without HiddenCreations).
NoSecondJobMeanwhile ==
  [][\A a \in Actions :
       (copies[a] = 0 /\ Len(jobs'[a]) > Len(jobs[a]))
         => \A i \in DOMAIN jobs[a] : jobs[a][i] # "running"]_jobVars
=============================================================================
