------------------------------ MODULE KubeJobProofs ------------------------------
(***************************************************************************)
(* Theorems about KubeJob: the Job actions live as ActionLifecycle says,   *)
(* hence all that is proved of ActionLifecycle holds of them, and a        *)
(* reported success has its Job.                                           *)
(***************************************************************************)
EXTENDS KubeJob, ActionLifecycleProofs, SequenceTheorems

\* Every step of a Job action, of its body, of the cluster is a step of
\* ActionLifecycle or leaves its variables alone.
LEMMA JobStepIsLifecycleStep == [JobNext]_jobVars => [Next]_vars
<1> SUFFICES ASSUME [JobNext]_jobVars PROVE [Next]_vars
  OBVIOUS
<1>1. CASE OutsideTasks
  BY <1>1 DEF OutsideTasks, Next
<1>2. ASSUME NEW w \in Workers, RunJob(w) PROVE [Next]_vars
  <2>1. RunAsksForRetry(w) \/ RunRaises(w) \/ RunReturns(w) \/ UNCHANGED vars
    BY <1>2 DEF RunJob, NoConnection, NoSubject, CreateAndReturn, CreateAndWait,
                CreateFails, JobSucceeded, JobFailed, ReadFails, WaitTimesOut
  <2> QED
    BY <2>1 DEF Execute, Next
<1>3. ASSUME NEW w \in Workers, AroundJob(w) \/ Killed(w) PROVE [Next]_vars
  BY <1>3 DEF AroundJob, Killed, Execute, Next
<1>4. ASSUME NEW a \in Actions, JobEnds(a) PROVE [Next]_vars
  BY <1>4 DEF JobEnds
<1>5. CASE UNCHANGED jobVars
  BY <1>5 DEF jobVars
<1> QED
  BY <1>1, <1>2, <1>3, <1>4, <1>5 DEF JobNext, JobExecute

\* KubeJob implements ActionLifecycle (without the fairness, which TLC checks).
THEOREM JobImplementsLifecycle == JobSpec => Spec
<1>1. JobInit => Init
  BY DEF JobInit
<1> QED
  BY <1>1, JobStepIsLifecycleStep, PTL DEF JobSpec, Spec

\* The Job actions keep ActionLifecycle's inductive invariant: one carrier per
\* copy, bounded runs, nothing forgotten.
THEOREM JobKeepsLifecycleInvariant == JobSpec => []IInv
  BY JobImplementsLifecycle, Invariance, PTL

\* Hence a flush or trigger keeps what is proved of an action whatever its body
\* does: its record begins and ends as ActionRecord says, its final state stays,
\* SUCCESS and FAILURE tell how the body ended, and none is forgotten.
THEOREM JobKeepsPromises ==
  JobSpec => Record!Spec /\ FinalIsFinal /\ []OutcomeIsHonest /\ []NothingForgotten
  BY JobImplementsLifecycle, ImplementsRecordSafety, FinalStatesAreFinal, ReportsAreHonest,
     AcceptedIsNotForgotten

-----------------------------------------------------------------------------
\* A Job more changes nothing about the Jobs there are.
LEMMA AddJobKeeps ==
  ASSUME jobs \in [Actions -> Seq(JobState)], NEW a \in Actions, AddJob(a)
  PROVE  /\ jobs' \in [Actions -> Seq(JobState)]
         /\ \A b \in Actions : \A i \in DOMAIN jobs[b] :
              i \in DOMAIN jobs'[b] /\ jobs'[b][i] = jobs[b][i]
         /\ Len(jobs[a]) + 1 \in DOMAIN jobs'[a]
<1>1. /\ Append(jobs[a], "running") \in Seq(JobState)
      /\ Len(Append(jobs[a], "running")) = Len(jobs[a]) + 1
      /\ \A i \in 1..Len(jobs[a]) : Append(jobs[a], "running")[i] = jobs[a][i]
  BY AppendProperties DEF JobState
<1>2. Len(jobs[a]) \in Nat /\ \A b \in Actions : DOMAIN jobs[b] = 1..Len(jobs[b])
  BY LenProperties
<1>3. jobs' \in [Actions -> Seq(JobState)]
  BY <1>1 DEF AddJob
<1>4. \A b \in Actions : DOMAIN jobs'[b] = 1..Len(jobs'[b])
  BY <1>3, LenProperties
<1>5. /\ jobs'[a] = Append(jobs[a], "running")
      /\ \A b \in Actions \ {a} : jobs'[b] = jobs[b]
  BY DEF AddJob
<1>6. ASSUME NEW b \in Actions, NEW i \in DOMAIN jobs[b]
      PROVE  i \in DOMAIN jobs'[b] /\ jobs'[b][i] = jobs[b][i]
  <2>1. CASE b = a
    BY <1>1, <1>2, <1>4, <1>5, <2>1
  <2>2. CASE b # a
    BY <1>5, <2>2
  <2> QED
    BY <2>1, <2>2
<1>7. Len(jobs[a]) + 1 \in DOMAIN jobs'[a]
  BY <1>1, <1>2, <1>4, <1>5
<1> QED
  BY <1>3, <1>6, <1>7

\* A step keeps the Jobs there are, but that one which runs may end.
JobsKept ==
  \A a \in Actions : \A i \in DOMAIN jobs[a] :
    /\ i \in DOMAIN jobs'[a]
    /\ jobs[a][i] = "succeeded" => jobs'[a][i] = "succeeded"

\* Jobs are added and end, and that is all; the cluster alone ends them.
LEMMA JobsAreKept ==
  ASSUME IInv, JobTypeOK, [JobNext]_jobVars
  PROVE  jobs' \in [Actions -> Seq(JobState)] /\ JobsKept /\ waits' = waits
<1> DEFINE Kept == jobs' \in [Actions -> Seq(JobState)] /\ JobsKept /\ waits' = waits
<1> USE DEF JobTypeOK
<1>1. ASSUME NEW w \in Workers, AddJob(job[w].act), pc[w] = "running", waits' = waits
      PROVE  Kept
  BY <1>1, JobAction, AddJobKeeps DEF JobsKept
<1>2. ASSUME UNCHANGED <<waits, jobs>> PROVE Kept
  BY <1>2 DEF JobsKept
<1>3. ASSUME NEW a \in Actions, JobEnds(a) PROVE Kept
  <2>1. PICK i \in DOMAIN jobs[a], s \in {"succeeded", "failed"} :
          jobs[a][i] = "running" /\ jobs' = [jobs EXCEPT ![a][i] = s]
    BY <1>3 DEF JobEnds
  <2>2. [jobs[a] EXCEPT ![i] = s] \in Seq(JobState)
    BY <2>1, ExceptSeq DEF JobState
  <2>3. /\ jobs'[a] = [jobs[a] EXCEPT ![i] = s]
        /\ \A b \in Actions \ {a} : jobs'[b] = jobs[b]
    BY <2>1
  <2>4. jobs' \in [Actions -> Seq(JobState)]
    BY <2>1, <2>2
  <2>5. ASSUME NEW b \in Actions, NEW k \in DOMAIN jobs[b]
        PROVE  /\ k \in DOMAIN jobs'[b]
               /\ jobs[b][k] = "succeeded" => jobs'[b][k] = "succeeded"
    BY <2>1, <2>3
  <2> QED
    BY <1>3, <2>4, <2>5 DEF JobsKept, JobEnds
<1>4. ASSUME NEW w \in Workers, RunJob(w) PROVE Kept
  BY <1>1, <1>2, <1>4
     DEF RunJob, Preparing, NoConnection, NoSubject, CreateAndReturn, CreateAndWait,
         CreateFails, JobSucceeded, JobFailed, ReadFails, WaitTimesOut, kube
<1>5. ASSUME NEW w \in Workers, AroundJob(w) \/ Killed(w) PROVE Kept
  BY <1>2, <1>5 DEF AroundJob, Killed, kube
<1>6. CASE OutsideTasks \/ UNCHANGED jobVars
  BY <1>2, <1>6 DEF OutsideTasks, jobVars, kube
<1> QED
  BY <1>3, <1>4, <1>5, <1>6 DEF JobNext, JobExecute

\* What is delivered stays delivered.
LEMMA DeliveredIsStable ==
  ASSUME JobsKept, waits' = waits, NEW a \in Actions, Delivered(a)
  PROVE  Delivered(a)'
BY DEF JobsKept, Delivered

\* An execution has succeeded before, has just seen its Job succeeded, or has
\* just created the Job nobody waits for.
LEMMA SuccessIsDelivered ==
  ASSUME IInv, JobTypeOK, [JobNext]_jobVars, NEW w \in Workers, pc'[w] = "succeeded",
         pc[w] = "succeeded" => Delivered(job[w].act)
  PROVE  job'[w] = job[w] /\ pc[w] # "idle" /\ Delivered(job[w].act)'
<1> USE DEF JobTypeOK
<1>0. TypeOK
  BY DEF IInv
<1>k. jobs' \in [Actions -> Seq(JobState)] /\ JobsKept /\ waits' = waits
  BY JobsAreKept
<1> DEFINE Found == job'[w] = job[w] /\ pc[w] # "idle" /\ Delivered(job[w].act)'
<1>1. ASSUME pc[w] = "succeeded", job'[w] = job[w] PROVE Found
  <2>1. job[w].act \in Actions
    BY <1>1, JobAction
  <2>2. Delivered(job[w].act)'
    BY <1>1, <1>k, <2>1 DEF Delivered, JobsKept
  <2> QED
    BY <1>1, <2>2
<1>2. CASE OutsideTasks
  BY <1>0, <1>1, <1>2 DEF OutsideTasks, CreateRecord, PublishTask, AbortRequest, Cancel,
                     Redeliver, Take, Receive, TypeOK
<1>3. ASSUME NEW v \in Workers, RunReturns(v), v = w \/ pc[w] = "succeeded",
             v = w => Delivered(job[v].act)'
      PROVE  Found
  BY <1>0, <1>1, <1>3 DEF RunReturns, TypeOK
<1>4. ASSUME NEW v \in Workers, RunJob(v) PROVE Found
  <2>1. CASE CreateAndReturn(v)
    <3>1. job[v].act \in Actions /\ AddJob(job[v].act) /\ ~ waits[job[v].act]
      BY <2>1, JobAction DEF CreateAndReturn, Preparing
    <3>2. Delivered(job[v].act)'
      <4>1. Len(jobs[job[v].act]) + 1 \in DOMAIN jobs'[job[v].act]
        BY <3>1, AddJobKeeps
      <4> QED
        BY <1>k, <2>1, <3>1, <4>1 DEF Delivered, CreateAndReturn, RunReturns
    <3> QED
      BY <1>0, <1>1, <2>1, <3>2 DEF CreateAndReturn, RunReturns, TypeOK
  <2>2. CASE JobSucceeded(v)
    <3>1. /\ pc[v] = "running" /\ awaiting[v] \in DOMAIN jobs[job[v].act]
          /\ jobs[job[v].act][awaiting[v]] = "succeeded"
          /\ jobs' = jobs /\ job' = job
      BY <2>2 DEF JobSucceeded, StopWaiting, Awaited, RunReturns
    <3>2. Delivered(job[v].act)'
      BY <3>1 DEF Delivered
    <3> QED
      BY <1>0, <1>1, <2>2, <3>2 DEF JobSucceeded, RunReturns, TypeOK
  <2>3. CASE RunAsksForRetry(v) \/ RunRaises(v) \/ UNCHANGED vars
    BY <1>0, <1>1, <2>3 DEF RunAsksForRetry, RunRaises, AfterRetryableError, vars, TypeOK
  <2> QED
    BY <1>4, <2>1, <2>2, <2>3
       DEF RunJob, NoConnection, NoSubject, CreateAndWait, CreateFails, JobFailed,
           ReadFails, WaitTimesOut
<1>5. ASSUME NEW v \in Workers, AroundJob(v) \/ Killed(v) PROVE Found
  BY <1>0, <1>1, <1>5 DEF AroundJob, Killed, Start, StartFails, PublishRetry, Finish,
                     Drop, Release, TypeOK
<1>6. ASSUME UNCHANGED vars PROVE Found
  BY <1>1, <1>6 DEF vars
<1> QED
  BY <1>2, <1>4, <1>5, <1>6 DEF JobNext, JobExecute, JobEnds, jobVars

\* A worker waits for a Job of its own flush, and while it executes the body only.
LEMMA JobTypeStep ==
  ASSUME IInv, IInv', JobTypeOK, [JobNext]_jobVars
  PROVE  JobTypeOK'
<1>0. TypeOK /\ TypeOK'
  BY DEF IInv
<1>k. jobs' \in [Actions -> Seq(JobState)] /\ JobsKept /\ waits' = waits
  BY JobsAreKept
<1> DEFINE Waits(w) == awaiting'[w] # 0 =>
                         /\ pc'[w] = "running" /\ waits'[job'[w].act]
                         /\ awaiting'[w] \in DOMAIN jobs'[job'[w].act]
<1>1. ASSUME NEW w \in Workers,
             awaiting'[w] = 0 \/ (/\ awaiting'[w] = awaiting[w] /\ job'[w] = job[w]
                                 /\ pc'[w] = pc[w])
      PROVE  Waits(w)
  <2>1. CASE awaiting'[w] = 0
    BY <2>1
  <2>2. CASE /\ awaiting'[w] # 0 /\ awaiting'[w] = awaiting[w] /\ job'[w] = job[w]
             /\ pc'[w] = pc[w]
    <3>1. pc[w] = "running" /\ job[w].act \in Actions
      BY <2>2, JobAction DEF JobTypeOK
    <3> QED
      BY <1>k, <2>2, <3>1 DEF JobTypeOK, JobsKept
  <2> QED
    BY <1>1, <2>1, <2>2
<1>2. \A w \in Workers : Waits(w)
  <2> SUFFICES ASSUME NEW w \in Workers PROVE Waits(w)
    OBVIOUS
  <2> USE DEF JobTypeOK
  <2>1. CASE OutsideTasks
    <3>1. awaiting' = awaiting
      BY <2>1 DEF OutsideTasks, kube
    <3>2. pc[w] = "running" => pc'[w] = pc[w] /\ job'[w] = job[w]
      BY <1>0, <2>1 DEF OutsideTasks, CreateRecord, PublishTask, AbortRequest, Cancel,
                   Redeliver, Take, Receive, TypeOK
    <3> QED
      BY <1>1, <3>1, <3>2
  <2>2. ASSUME NEW v \in Workers, RunJob(v) PROVE Waits(w)
    <3>1. CASE CreateAndWait(v) /\ v = w
      <4>1. /\ job[w].act \in Actions /\ pc[w] = "running" /\ UNCHANGED vars
            /\ AddJob(job[w].act) /\ waits[job[w].act]
            /\ awaiting'[w] \in {awaiting[w], Len(jobs[job[w].act]) + 1}
        BY <3>1, JobAction DEF CreateAndWait, Preparing
      <4>2. Len(jobs[job[w].act]) + 1 \in DOMAIN jobs'[job[w].act]
        BY <4>1, AddJobKeeps
      <4> QED
        BY <1>1, <1>k, <4>1, <4>2 DEF vars
    <3>2. CASE CreateAndWait(v) /\ v # w
      BY <1>1, <3>2 DEF CreateAndWait, vars
    <3>3. CASE StopWaiting(v) /\ v = w
      BY <1>1, <3>3 DEF StopWaiting
    <3>4. CASE Preparing(v) /\ UNCHANGED awaiting /\ v = w
      BY <1>1, <3>4 DEF Preparing
    <3>5. CASE v # w /\ (RunReturns(v) \/ RunAsksForRetry(v) \/ RunRaises(v))
               /\ awaiting'[w] = awaiting[w]
      BY <1>0, <1>1, <3>5 DEF RunReturns, RunAsksForRetry, RunRaises, TypeOK
    <3> QED
      BY <2>2, <3>1, <3>2, <3>3, <3>4, <3>5
         DEF RunJob, NoConnection, NoSubject, CreateAndReturn, CreateFails,
             JobSucceeded, JobFailed, ReadFails, WaitTimesOut, StopWaiting, kube
  <2>3. ASSUME NEW v \in Workers, AroundJob(v) PROVE Waits(w)
    <3>1. awaiting' = awaiting
      BY <2>3 DEF AroundJob, kube
    <3>2. pc[w] = "running" => pc'[w] = pc[w] /\ job'[w] = job[w]
      BY <1>0, <2>3 DEF AroundJob, Start, StartFails, PublishRetry, Finish, Release, TypeOK
    <3> QED
      BY <1>1, <3>1, <3>2
  <2>4. ASSUME NEW v \in Workers, Killed(v) PROVE Waits(w)
    BY <1>0, <1>1, <2>4 DEF Killed, Drop, Release, TypeOK
  <2>5. ASSUME UNCHANGED <<vars, awaiting>> PROVE Waits(w)
    BY <1>1, <2>5 DEF vars
  <2> QED
    BY <2>1, <2>2, <2>3, <2>4, <2>5 DEF JobNext, JobExecute, JobEnds, jobVars, kube
<1>3. awaiting' \in [Workers -> Nat]
  <2> USE DEF JobTypeOK
  <2>1. ASSUME NEW v \in Workers, RunJob(v) PROVE awaiting' \in [Workers -> Nat]
    <3>1. CASE CreateAndWait(v)
      <4>1. Len(jobs[job[v].act]) + 1 \in Nat
        BY <3>1, JobAction, LenProperties DEF CreateAndWait, Preparing
      <4> QED
        BY <3>1, <4>1 DEF CreateAndWait
    <3>2. CASE StopWaiting(v) \/ UNCHANGED awaiting
      BY <3>2 DEF StopWaiting
    <3> QED
      BY <2>1, <3>1, <3>2
         DEF RunJob, NoConnection, NoSubject, CreateAndReturn, CreateFails,
             JobSucceeded, JobFailed, ReadFails, WaitTimesOut, kube
  <2> QED
    BY <2>1 DEF JobNext, OutsideTasks, JobExecute, AroundJob, Killed, JobEnds, jobVars,
                kube
<1> QED
  BY <1>0, <1>2, <1>3, <1>k DEF JobTypeOK

-----------------------------------------------------------------------------
\* What the copies up to copies[a] can run within the budget.
Budget(a) == (0..copies[a]) \X (1..(MaxRetries + 1))

\* It counts (copies[a] + 1) * (MaxRetries + 1) executions.
LEMMA BudgetCounts ==
  ASSUME IInv, NEW a \in Actions
  PROVE  /\ IsFiniteSet(Budget(a))
         /\ Cardinality(Budget(a)) = (copies[a] + 1) * (MaxRetries + 1)
<1>1. copies[a] \in Nat /\ MaxRetries \in Nat
  BY BoundsAssumption DEF IInv, TypeOK, Copies
<1>2. IsFiniteSet(0..copies[a]) /\ Cardinality(0..copies[a]) = copies[a] + 1
  <2>1. /\ IsFiniteSet(0..copies[a])
        /\ Cardinality(0..copies[a]) = IF 0 > copies[a] THEN 0 ELSE copies[a] - 0 + 1
    BY <1>1, FS_Interval
  <2> QED
    BY <1>1, <2>1
<1>3. /\ IsFiniteSet(1..(MaxRetries + 1))
      /\ Cardinality(1..(MaxRetries + 1)) = MaxRetries + 1
  <2> DEFINE n == MaxRetries + 1
  <2>1. n \in Nat
    BY <1>1
  <2> HIDE DEF n
  <2>2. IsFiniteSet(1..n) /\ Cardinality(1..n) = IF 1 > n THEN 0 ELSE n - 1 + 1
    BY <2>1, FS_Interval
  <2>3. IsFiniteSet(1..n) /\ Cardinality(1..n) = n
    BY <2>1, <2>2
  <2> QED
    BY <2>3 DEF n
<1> QED
  BY <1>2, <1>3, FS_Product DEF Budget

\* Copies that SQS has not made have not run, the others within the budget.
LEMMA ExecutionsWithinBudget ==
  ASSUME IInv, NEW a \in Actions
  PROVE  Executions(a) \subseteq Budget(a)
<1> SUFFICES ASSUME NEW c \in Copies, NEW n \in 1..runs[a][c]
             PROVE  c \in 0..copies[a] /\ n \in 1..(MaxRetries + 1)
  BY DEF Executions, Budget
<1>1. /\ copies[a] \in Nat /\ c \in Nat /\ runs[a][c] \in Nat /\ MaxRetries \in Nat
  BY BoundsAssumption DEF IInv, TypeOK, Copies
<1>2. runs[a][c] <= MaxRetries + 1 /\ (c > copies[a] => runs[a][c] = 0)
  BY DEF IInv, RetryBudget, CopiesAreNumbered
<1> QED
  BY <1>1, <1>2

\* The executions are finitely many.
LEMMA ExecutionsAreFinite ==
  ASSUME IInv, NEW a \in Actions
  PROVE  IsFiniteSet(Executions(a)) /\ Cardinality(Executions(a)) \in Nat
BY BudgetCounts, ExecutionsWithinBudget, FS_Subset, FS_CardinalityType

\* And so are the copies that may still ask for a Job.
LEMMA UnspentIsFinite ==
  ASSUME NEW a \in Actions
  PROVE  /\ IsFiniteSet(Unspent(a)) /\ Cardinality(Unspent(a)) \in Nat
         /\ IsFiniteSet(Unspent(a)') /\ Cardinality(Unspent(a)') \in Nat
<1>1. IsFiniteSet(Copies)
  BY FS_Interval, BoundsAssumption DEF Copies
<1>2. Unspent(a) \in SUBSET Copies /\ Unspent(a)' \in SUBSET Copies
  BY DEF Unspent, Copies
<1> QED
  BY <1>1, <1>2, FS_Subset, FS_CardinalityType

\* An execution that begins is one more that may ask for a Job.
LEMMA StartIsUnspent ==
  ASSUME IInv, IInv', JobTypeOK, NEW w \in Workers, Start(w), UNCHANGED kube,
         NEW a \in Actions
  PROVE  \/ Executions(a)' = Executions(a) /\ Unspent(a)' \subseteq Unspent(a)
         \/ \E e, c : /\ e \notin Executions(a)
                      /\ Executions(a)' = Executions(a) \cup {e}
                      /\ Unspent(a)' \subseteq Unspent(a) \cup {c}
<1> DEFINE m == job[w]
           e == <<m.copy, runs[m.act][m.copy] + 1>>
<1>0. TypeOK
  BY DEF IInv
<1>1. /\ pc[w] = "received" /\ pc'[w] = "running" /\ m \in Messages
      /\ \A v \in Workers \ {w} : pc'[v] = pc[v]
      /\ UNCHANGED <<job, awaiting>>
      /\ runs' = [runs EXCEPT ![m.act][m.copy] = @ + 1]
  BY <1>0, BusyHoldsMessage DEF Start, kube, IInv, Busy, TypeOK
<1>2. m.act \in Actions /\ m.copy \in Copies /\ runs[m.act][m.copy] \in Nat
  BY <1>0, <1>1, MessageFields DEF TypeOK
<1>3. CASE m.act # a
  <2>1. runs'[a] = runs[a]
    BY <1>0, <1>1, <1>2, <1>3 DEF TypeOK
  <2>2. Executions(a)' = Executions(a)
    BY <2>1 DEF Executions, Copies
  <2>3. Unspent(a)' \subseteq Unspent(a)
    BY <1>1, <1>3 DEF Unspent, Preparing, Copies
  <2> QED
    BY <2>2, <2>3
<1>4. CASE m.act = a
  <2>1. /\ runs'[a][m.copy] = runs[a][m.copy] + 1
        /\ \A c \in Copies \ {m.copy} : runs'[a][c] = runs[a][c]
    BY <1>0, <1>1, <1>2, <1>4 DEF TypeOK
  <2>2. 1..(runs[a][m.copy] + 1) = 1..runs[a][m.copy] \cup {runs[a][m.copy] + 1}
    BY <1>2, <1>4
  <2>3. e \notin Executions(a)
    BY <1>2, <1>4 DEF Executions
  <2>4. Executions(a)' = Executions(a) \cup {e}
    <3>1. ASSUME NEW x
          PROVE  x \in Executions(a)' <=> x \in Executions(a) \/ x = e
      <4>1. x \in Executions(a)' <=> \E c \in Copies : x \in {c} \X (1..runs'[a][c])
        BY DEF Executions, Copies
      <4>2. x \in Executions(a) <=> \E c \in Copies : x \in {c} \X (1..runs[a][c])
        BY DEF Executions
      <4>3. ASSUME NEW c \in Copies
            PROVE  x \in {c} \X (1..runs'[a][c])
                     <=> x \in {c} \X (1..runs[a][c]) \/ (c = m.copy /\ x = e)
        BY <1>2, <1>4, <2>1, <2>2
      <4> HIDE DEF e, m
      <4> QED
        BY <1>2, <4>1, <4>2, <4>3
    <3> QED
      BY <3>1
  <2>5. Unspent(a)' \subseteq Unspent(a) \cup {m.copy}
    BY <1>1, <1>4 DEF Unspent, Preparing, Copies
  <2> QED
    BY <2>3, <2>4, <2>5
<1> QED
  BY <1>3, <1>4

\* Who asks for a Job spends his copy's execution.
LEMMA RequestSpends ==
  ASSUME IInv, IInv', NEW w \in Workers, Preparing(w),
         UNCHANGED <<job, runs>>,
         awaiting'[w] # 0 \/ pc'[w] # "running",
         \A v \in Workers \ {w} : pc'[v] = pc[v] /\ awaiting'[v] = awaiting[v],
         NEW a \in Actions
  PROVE  /\ Executions(a)' = Executions(a)
         /\ Unspent(a)' \subseteq Unspent(a)
         /\ job[w].act = a => /\ job[w].copy \in Unspent(a)
                              /\ Unspent(a)' \subseteq Unspent(a) \ {job[w].copy}
<1>1. job[w] \in Messages /\ job[w].copy \in Copies
  BY BusyHoldsMessage, MessageFields DEF IInv, Preparing, Busy
<1>2. \A v \in Workers \ {w} : pc[v] # "idle" => ~ SameCopy(job[v], job[w])
  BY DEF IInv, CopyCarriedOnce, Preparing
<1>3. Executions(a)' = Executions(a)
  BY DEF Executions, Copies
<1>4. Unspent(a)' \subseteq Unspent(a)
  BY DEF Unspent, Preparing, Copies
<1>5. ASSUME job[w].act = a
      PROVE  job[w].copy \in Unspent(a) /\ job[w].copy \notin Unspent(a)'
  BY <1>1, <1>2, <1>5 DEF Unspent, Preparing, SameCopy, Copies
<1> QED
  BY <1>3, <1>4, <1>5

\* A step that counts no execution counts no Job either, and one that adds a Job
\* takes a copy's execution.
LEMMA SpentStep ==
  ASSUME IInv, IInv', JobIInv, [JobNext]_jobVars
  PROVE  \A a \in Actions :
           Len(jobs'[a]) + Cardinality(Unspent(a)') <= Cardinality(Executions(a)')
<1> SUFFICES ASSUME NEW a \in Actions
             PROVE  Len(jobs'[a]) + Cardinality(Unspent(a)') <= Cardinality(Executions(a)')
  OBVIOUS
<1> DEFINE open == Cardinality(Unspent(a))
           open1 == Cardinality(Unspent(a)')
           done == Cardinality(Executions(a))
           done1 == Cardinality(Executions(a)')
           Spent == Len(jobs'[a]) + open1 <= done1
<1>0. /\ TypeOK /\ JobTypeOK /\ jobs \in [Actions -> Seq(JobState)]
      /\ Len(jobs[a]) + open <= done
  BY DEF IInv, JobIInv, JobTypeOK
<1>1. jobs' \in [Actions -> Seq(JobState)]
  BY <1>0, JobsAreKept
<1>2. /\ Len(jobs[a]) \in Nat /\ Len(jobs'[a]) \in Nat
      /\ open \in Nat /\ open1 \in Nat /\ done \in Nat
      /\ IsFiniteSet(Unspent(a)) /\ IsFiniteSet(Executions(a))
  BY <1>0, <1>1, LenProperties, UnspentIsFinite, ExecutionsAreFinite
<1>3. /\ Unspent(a)' \subseteq Unspent(a) => open1 <= open
      /\ \A c \in Unspent(a) : Unspent(a)' \subseteq Unspent(a) \ {c} => open1 <= open - 1
      /\ \A c : Unspent(a)' \subseteq Unspent(a) \cup {c} => open1 <= open + 1
  BY <1>2, Counting
<1>4. ASSUME Executions(a)' = Executions(a), Unspent(a)' \subseteq Unspent(a),
             Len(jobs'[a]) = Len(jobs[a])
      PROVE  Spent
  <2>1. done1 = done
    BY <1>4
  <2> HIDE DEF open, open1, done, done1
  <2> QED
    BY <1>0, <1>2, <1>3, <1>4, <2>1
<1>5. ASSUME NEW w \in Workers, Start(w), UNCHANGED kube PROVE Spent
  <2>1. jobs' = jobs
    BY <1>5 DEF kube
  <2>2. ASSUME NEW e, NEW c, e \notin Executions(a),
               Executions(a)' = Executions(a) \cup {e},
               Unspent(a)' \subseteq Unspent(a) \cup {c}
        PROVE  Spent
    <3>0. Cardinality(Executions(a) \cup {e})
            = IF e \in Executions(a) THEN done ELSE done + 1
      BY <1>2, FS_AddElement, Zenon
    <3>1. done1 = done + 1
      BY <2>2, <3>0, Zenon
    <3>2. open1 <= open + 1
      BY <1>3, <2>2
    <3> HIDE DEF open, open1, done, done1
    <3> QED
      BY <1>0, <1>2, <2>1, <3>1, <3>2
  <2> QED
    BY <1>0, <1>4, <1>5, <2>1, <2>2, StartIsUnspent
<1>6. ASSUME NEW w \in Workers, Preparing(w), UNCHANGED <<job, runs>>,
             awaiting'[w] # 0 \/ pc'[w] # "running",
             \A v \in Workers \ {w} : pc'[v] = pc[v] /\ awaiting'[v] = awaiting[v],
             AddJob(job[w].act) \/ jobs' = jobs
      PROVE  Spent
  <2>1. /\ Executions(a)' = Executions(a) /\ Unspent(a)' \subseteq Unspent(a)
        /\ job[w].act = a => /\ job[w].copy \in Unspent(a)
                             /\ Unspent(a)' \subseteq Unspent(a) \ {job[w].copy}
    BY <1>6, RequestSpends
  <2>2. CASE Len(jobs'[a]) = Len(jobs[a])
    BY <1>4, <2>1, <2>2
  <2>3. CASE Len(jobs'[a]) # Len(jobs[a])
    <3>1. job[w].act \in Actions
      BY <1>6, JobAction DEF Preparing
    <3>2. job[w].act = a /\ jobs'[a] = Append(jobs[a], "running")
      BY <1>0, <1>6, <2>3, <3>1 DEF AddJob
    <3>3. Len(jobs'[a]) = Len(jobs[a]) + 1
      BY <1>0, <3>2, AppendProperties DEF JobState
    <3>4. open1 <= open - 1
      BY <1>3, <2>1, <3>2
    <3>5. done1 = done
      BY <2>1
    <3> HIDE DEF open, open1, done, done1
    <3> QED
      BY <1>0, <1>2, <3>3, <3>4, <3>5
  <2> QED
    BY <2>2, <2>3
<1>7. ASSUME runs' = runs, jobs' = jobs,
             \A w \in Workers : Preparing(w)' => Preparing(w) /\ job'[w] = job[w]
      PROVE  Spent
  <2>1. Executions(a)' = Executions(a)
    BY <1>7 DEF Executions, Copies
  <2>2. Unspent(a)' \subseteq Unspent(a)
    BY <1>7 DEF Unspent, Copies
  <2> QED
    BY <1>4, <1>7, <2>1, <2>2
<1>8. ASSUME NEW w \in Workers, RunJob(w) PROVE Spent
  <2>1. CASE Preparing(w)
    <3>1. /\ UNCHANGED <<job, runs>>
          /\ awaiting'[w] # 0 \/ pc'[w] # "running"
          /\ \A v \in Workers \ {w} : pc'[v] = pc[v] /\ awaiting'[v] = awaiting[v]
          /\ AddJob(job[w].act) \/ jobs' = jobs
      <4>1. CASE CreateAndWait(w)
        <5>1. Len(jobs[job[w].act]) + 1 # 0
          BY <1>0, <2>1, JobAction, LenProperties DEF Preparing
        <5> QED
          BY <1>0, <4>1, <5>1 DEF CreateAndWait, vars, ghosts, JobTypeOK
      <4>2. CASE /\ RunReturns(w) \/ RunAsksForRetry(w) \/ RunRaises(w)
                 /\ awaiting' = awaiting /\ (AddJob(job[w].act) \/ jobs' = jobs)
        BY <1>0, <4>2 DEF RunReturns, RunAsksForRetry, RunRaises, AfterRetryableError,
                          ghosts, TypeOK
      <4> QED
        BY <1>8, <2>1, <4>1, <4>2
           DEF RunJob, Preparing, NoConnection, NoSubject, CreateAndReturn, CreateFails,
               JobSucceeded, JobFailed, ReadFails, WaitTimesOut, StopWaiting, kube
    <3> QED
      BY <1>6, <2>1, <3>1
  <2>2. CASE ~ Preparing(w)
    <3>1. /\ StopWaiting(w) /\ (RunReturns(w) \/ RunAsksForRetry(w) \/ RunRaises(w))
          /\ jobs' = jobs
      BY <1>8, <2>2
         DEF RunJob, NoConnection, NoSubject, CreateAndReturn, CreateAndWait, CreateFails,
             JobSucceeded, JobFailed, ReadFails, WaitTimesOut
    <3>2. /\ UNCHANGED <<job, runs>> /\ pc'[w] # "running"
          /\ \A v \in Workers \ {w} : pc'[v] = pc[v] /\ awaiting'[v] = awaiting[v]
      BY <1>0, <3>1 DEF StopWaiting, RunReturns, RunAsksForRetry, RunRaises,
                        AfterRetryableError, ghosts, TypeOK, JobTypeOK
    <3> QED
      BY <1>7, <3>1, <3>2 DEF Preparing
  <2> QED
    BY <2>1, <2>2
<1>9. ASSUME NEW w \in Workers,
             \/ UNCHANGED kube /\ (StartFails(w) \/ PublishRetry(w) \/ Finish(w))
             \/ Killed(w)
      PROVE  Spent
  <2>1. /\ runs' = runs /\ jobs' = jobs /\ pc'[w] # "running"
        /\ \A v \in Workers \ {w} :
             pc'[v] = pc[v] /\ job'[v] = job[v] /\ awaiting'[v] = awaiting[v]
    BY <1>0, <1>9 DEF Killed, StartFails, PublishRetry, Finish, Drop, Release, ghosts, kube,
                      TypeOK, JobTypeOK
  <2> QED
    BY <1>7, <2>1 DEF Preparing
<1>10. CASE OutsideTasks
  <2>1. /\ UNCHANGED <<runs, jobs, awaiting>>
        /\ \A w \in Workers : pc'[w] = "running" => pc[w] = "running" /\ job'[w] = job[w]
    BY <1>0, <1>10 DEF OutsideTasks, CreateRecord, PublishTask, AbortRequest, Cancel,
                       Redeliver, Take, Receive, ghosts, kube, TypeOK
  <2> QED
    BY <1>7, <2>1 DEF Preparing
<1>11. ASSUME NEW b \in Actions, JobEnds(b) PROVE Spent
  <2>1. UNCHANGED <<pc, job, runs, awaiting>>
    BY <1>11 DEF JobEnds, vars, ghosts
  <2>2. Executions(a)' = Executions(a) /\ Unspent(a)' \subseteq Unspent(a)
    BY <2>1 DEF Executions, Unspent, Preparing, Copies
  <2>3. Len(jobs'[a]) = Len(jobs[a])
    <3>1. PICK i \in DOMAIN jobs[b], s \in {"succeeded", "failed"} :
            jobs' = [jobs EXCEPT ![b][i] = s]
      BY <1>11 DEF JobEnds
    <3>2. DOMAIN jobs'[a] = DOMAIN jobs[a]
      BY <1>0, <3>1
    <3>3. DOMAIN jobs[a] = 1..Len(jobs[a]) /\ DOMAIN jobs'[a] = 1..Len(jobs'[a])
      BY <1>0, <1>1, LenProperties
    <3> QED
      BY <1>2, <3>2, <3>3
  <2> QED
    BY <1>4, <2>2, <2>3
<1>12. CASE UNCHANGED jobVars
  BY <1>7, <1>12 DEF jobVars, vars, ghosts, kube, Preparing
<1> QED
  BY <1>5, <1>8, <1>9, <1>10, <1>11, <1>12 DEF JobNext, JobExecute, AroundJob

\* JobIInv is inductive, given ActionLifecycle's invariant.
LEMMA JobNextIInv ==
  ASSUME IInv, IInv', JobIInv, [JobNext]_jobVars
  PROVE  JobIInv'
<1>1. JobTypeOK'
  BY JobTypeStep DEF JobIInv
<1>2. ASSUME NEW w \in Workers, pc'[w] = "succeeded" PROVE Delivered(job[w].act)'
  BY <1>2, SuccessIsDelivered DEF JobIInv
<1>3. ASSUME NEW a \in Actions, status'[a] = "SUCCESS" PROVE Delivered(a)'
  <2>1. Delivered(a)
    BY <1>3, JobStepIsLifecycleStep, SuccessIsWritten DEF JobIInv, SuccessMeansJob
  <2> QED
    BY <2>1, DeliveredIsStable, JobsAreKept DEF JobIInv
<1> QED
  BY <1>1, <1>2, <1>3, SpentStep DEF JobIInv, SuccessMeansJob

\* The invariant holds in every reachable state.
THEOREM JobInvariance == JobSpec => []JobIInv
<1>1. ASSUME JobInit PROVE JobIInv
  <2>1. TypeOK
    BY <1>1, InitIInv DEF JobInit, IInv
  <2>2. JobTypeOK
    BY <1>1, <2>1, EmptySeq DEF JobInit, JobTypeOK
  <2>3. ASSUME NEW a \in Actions
        PROVE  Len(jobs[a]) + Cardinality(Unspent(a)) <= Cardinality(Executions(a))
    <3>1. Unspent(a) = {} /\ Executions(a) = {} /\ Len(jobs[a]) = 0
      BY <1>1 DEF JobInit, Init, Unspent, Preparing, Executions
    <3> QED
      BY <3>1, FS_EmptySet
  <2> QED
    BY <1>1, <2>2, <2>3 DEF JobInit, JobIInv, SuccessMeansJob, Init
<1>2. IInv /\ IInv' /\ JobIInv /\ [JobNext]_jobVars => JobIInv'
  BY JobNextIInv
<1> QED
  BY <1>1, <1>2, JobKeepsLifecycleInvariant, PTL DEF JobSpec

\* A flush that reports SUCCESS has had a Job of its own succeed, a trigger has
\* created one: for any number of actions, workers, retries, redeliveries and
\* crashes.
THEOREM ReportedJobIsReal == JobSpec => []SuccessMeansJob
<1>1. JobIInv => SuccessMeansJob
  BY DEF JobIInv
<1> QED
  BY <1>1, JobInvariance, PTL

-----------------------------------------------------------------------------
\* No error path of an execution creates a second Job: there are at most as many
\* Jobs as executions, for any number of actions, workers, crashes and copies.
THEOREM JobsAreWithinRuns == JobSpec => []JobsWithinRuns
<1>1. IInv /\ JobIInv => JobsWithinRuns
  <2> SUFFICES ASSUME IInv, JobIInv, NEW a \in Actions
               PROVE  Len(jobs[a]) <= Cardinality(Executions(a))
    BY DEF JobsWithinRuns
  <2>1. /\ Cardinality(Unspent(a)) \in Nat /\ Cardinality(Executions(a)) \in Nat
        /\ Len(jobs[a]) \in Nat
    BY UnspentIsFinite, ExecutionsAreFinite, LenProperties DEF JobIInv, JobTypeOK
  <2>2. Len(jobs[a]) + Cardinality(Unspent(a)) <= Cardinality(Executions(a))
    BY DEF JobIInv
  <2> QED
    BY <2>1, <2>2
<1> QED
  BY <1>1, JobInvariance, JobKeepsLifecycleInvariant, PTL

\* Hence max_retries bounds what an action leaves behind in the cluster: at most
\* MaxRetries + 1 Jobs for each copy of its message that SQS delivers.
THEOREM JobsAreBounded ==
  JobSpec => [](\A a \in Actions : Len(jobs[a]) <= (copies[a] + 1) * (MaxRetries + 1))
<1>1. IInv /\ JobIInv /\ JobsWithinRuns
        => \A a \in Actions : Len(jobs[a]) <= (copies[a] + 1) * (MaxRetries + 1)
  <2> SUFFICES ASSUME IInv, JobIInv, JobsWithinRuns, NEW a \in Actions
               PROVE  Len(jobs[a]) <= (copies[a] + 1) * (MaxRetries + 1)
    OBVIOUS
  <2>1. Cardinality(Executions(a)) <= Cardinality(Budget(a))
    BY ExecutionsWithinBudget, BudgetCounts, FS_Subset
  <2>2. /\ Len(jobs[a]) <= Cardinality(Executions(a))
        /\ Cardinality(Budget(a)) = (copies[a] + 1) * (MaxRetries + 1)
    BY BudgetCounts DEF JobsWithinRuns
  <2>3. /\ Len(jobs[a]) \in Nat /\ Cardinality(Executions(a)) \in Nat
        /\ Cardinality(Budget(a)) \in Nat
    BY ExecutionsAreFinite, BudgetCounts, LenProperties, FS_CardinalityType
       DEF JobIInv, JobTypeOK
  <2> QED
    BY <2>1, <2>2, <2>3
<1> QED
  BY <1>1, JobsAreWithinRuns, JobInvariance, JobKeepsLifecycleInvariant, PTL
=============================================================================
