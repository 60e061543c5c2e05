---------------------------- MODULE ActionLifecycle ----------------------------
(***************************************************************************)
(* The life of an action: the record the API writes to DynamoDB, the task  *)
(* message it puts on SQS, and the Celery workers that execute the message *)
(* and write the outcome back to the record.                               *)
(*                                                                         *)
(* The three parts share nothing but the action id, and no write to the    *)
(* record is conditional (db/models/_base.py, Table.update): whatever      *)
(* order the parts' steps are taken in is the order the record sees.       *)
(*                                                                         *)
(* A task message is acknowledged when its execution starts (acks_late is  *)
(* not set, celery/app.py), so an execution that ends without publishing a *)
(* retry or writing a final state is gone.  SQS delivers at least once:    *)
(* Redeliver makes another copy of a queued message.  A copy keeps its     *)
(* number through its retries, which makes queue and workers carry at most *)
(* one message of every copy and the set of messages a faithful bag.       *)
(***************************************************************************)
EXTENDS Naturals

CONSTANTS
  Actions,        \* action ids, one per POST request
  Workers,        \* Celery worker processes (solo pool: one task at a time)
  MaxRetries,     \* Task.max_retries: 3, or 60 for the RDS start and stop tasks
  MaxDuplicates,  \* bound: further copies SQS delivers of one action's messages
  MaxMishaps,     \* bound: crashes, failed writes and failed publishes
  MaxCancels,     \* bound: action-cancel requests
  NoMessage       \* what an idle worker holds

Status == {"PENDING", "RUNNING", "SUCCESS", "FAILURE", "CANCELLED"}
Final  == {"SUCCESS", "FAILURE"}
Copies == 0..MaxDuplicates
Messages == [act : Actions, copy : Copies, retries : 0..MaxRetries]

ASSUME BoundsAssumption ==
  /\ MaxRetries \in Nat
  /\ MaxDuplicates \in Nat
  /\ MaxMishaps \in Nat
  /\ MaxCancels \in Nat

ASSUME NoMessageAssumption == NoMessage \notin Messages

VARIABLES
  status,     \* the record's status attribute; "NONE" while there is no record
  request,    \* how far the POST that creates the action has got
  queue,      \* task messages on SQS that no worker has acknowledged
  pc,         \* pc[w]: where worker w is in the execution of its message
  job,        \* job[w]: the message worker w executes
  copies,     \* copies[a]: copies of a's messages SQS has made
  runs,       \* runs[a][c]: executions of the task body by copy c of action a
  performed,  \* actions whose task body has returned normally
  dropped,    \* actions one of whose executions ended without a trace
  mishaps,    \* crashes, failed writes and failed publishes so far
  cancels     \* action-cancel requests so far

record == <<status>>
ghosts == <<runs, performed>>
vars == <<status, request, queue, pc, job, copies, runs, performed, dropped,
          mishaps, cancels>>

Carries(w, a) == pc[w] # "idle" /\ job[w].act = a

\* Something may still execute a: a queued message or a worker.
InFlight(a) == (\E m \in queue : m.act = a) \/ (\E w \in Workers : Carries(w, a))

-----------------------------------------------------------------------------
(***************************************************************************)
(* The API: POST on one of the nine action endpoints, and action-cancel.   *)
(***************************************************************************)

Init ==
  /\ status = [a \in Actions |-> "NONE"]
  /\ request = [a \in Actions |-> "none"]
  /\ queue = {}
  /\ pc = [w \in Workers |-> "idle"]
  /\ job = [w \in Workers |-> NoMessage]
  /\ copies = [a \in Actions |-> 0]
  /\ runs = [a \in Actions |-> [c \in Copies |-> 0]]
  /\ performed = {}
  /\ dropped = {}
  /\ mishaps = 0
  /\ cancels = 0

FirstMessage(a) == [act |-> a, copy |-> 0, retries |-> 0]

\* Mutant of CreateRecord: the task is published before its record is created.
CreateRecordLate(a) ==
  /\ request[a] = "none"
  /\ queue' = queue \cup {FirstMessage(a)}
  /\ status' = [status EXCEPT ![a] = "PENDING"]
  /\ request' = [request EXCEPT ![a] = "created"]
  /\ UNCHANGED <<pc, job, copies, ghosts, dropped, mishaps, cancels>>

\* The endpoint's dependency creates the record before the endpoint runs.
CreateRecord(a) ==
  /\ request[a] = "none"
  /\ status' = [status EXCEPT ![a] = "PENDING"]
  /\ request' = [request EXCEPT ![a] = "created"]
  /\ UNCHANGED <<queue, pc, job, copies, ghosts, dropped, mishaps, cancels>>

\* The endpoint publishes the task under the action's id and answers 202.
PublishTask(a) ==
  /\ request[a] = "created"
  /\ queue' = queue \cup {FirstMessage(a)}
  /\ request' = [request EXCEPT ![a] = "accepted"]
  /\ UNCHANGED <<record, pc, job, copies, ghosts, dropped, mishaps, cancels>>

\* The endpoint dies, or apply_async raises, before or after SQS has taken the
\* message.  Nothing removes the record.
AbortRequest(a) ==
  /\ request[a] = "created"
  /\ mishaps < MaxMishaps
  /\ \/ UNCHANGED queue
     \/ queue' = queue \cup {FirstMessage(a)}
  /\ request' = [request EXCEPT ![a] = "failed"]
  /\ mishaps' = mishaps + 1
  /\ UNCHANGED <<record, pc, job, copies, ghosts, dropped, cancels>>

\* get_or_404 needs the record; nothing asks for its status, and the task is
\* not revoked.  (The read and the write are one step: the write does not
\* depend on what was read, and a record never disappears.)
Cancel(a) ==
  /\ status[a] # "NONE"
  /\ cancels < MaxCancels
  /\ status' = [status EXCEPT ![a] = "CANCELLED"]
  /\ cancels' = cancels + 1
  /\ UNCHANGED <<request, queue, pc, job, copies, ghosts, dropped, mishaps>>

-----------------------------------------------------------------------------
(***************************************************************************)
(* SQS and the workers.                                                    *)
(***************************************************************************)

\* SQS keeps a copy of a message it delivers: the visibility timeout expires
\* before the acknowledgement, or the acknowledged message is delivered again.
Redeliver(m) ==
  /\ copies[m.act] < MaxDuplicates
  /\ queue' = queue \cup {[m EXCEPT !.copy = copies[m.act] + 1]}
  /\ copies' = [copies EXCEPT ![m.act] = @ + 1]
  /\ UNCHANGED <<record, request, pc, job, ghosts, dropped, mishaps, cancels>>

\* Mutant of Receive: the message is not acknowledged.
ReceiveUnacknowledged(w, m) ==
  /\ pc[w] = "idle"
  /\ pc' = [pc EXCEPT ![w] = "received"]
  /\ job' = [job EXCEPT ![w] = m]
  /\ UNCHANGED <<record, request, queue, copies, ghosts, dropped, mishaps, cancels>>

\* A worker takes any message (a standard queue keeps no order) and
\* acknowledges it before it executes it.
Receive(w, m) ==
  /\ pc[w] = "idle"
  /\ queue' = queue \ {m}
  /\ pc' = [pc EXCEPT ![w] = "received"]
  /\ job' = [job EXCEPT ![w] = m]
  /\ UNCHANGED <<record, request, copies, ghosts, dropped, mishaps, cancels>>

\* Mutant of Start: before_start does not write the record.
StartSilently(w) ==
  /\ pc[w] = "received"
  /\ pc' = [pc EXCEPT ![w] = "running"]
  /\ runs' = [runs EXCEPT ![job[w].act][job[w].copy] = @ + 1]
  /\ UNCHANGED <<record, request, queue, job, copies, performed, dropped, mishaps,
                 cancels>>

\* before_start: the record is RUNNING, whatever it was.
Start(w) ==
  LET m == job[w] IN
  /\ pc[w] = "received"
  /\ pc' = [pc EXCEPT ![w] = "running"]
  /\ status' = [status EXCEPT ![m.act] = "RUNNING"]
  /\ runs' = [runs EXCEPT ![m.act][m.copy] = @ + 1]
  /\ UNCHANGED <<request, queue, job, copies, performed, dropped, mishaps,
                 cancels>>

\* before_start raises, its write applied or not: the tracer goes to on_failure,
\* the body does not run.
StartFails(w) ==
  /\ pc[w] = "received"
  /\ mishaps < MaxMishaps
  /\ pc' = [pc EXCEPT ![w] = "failed"]
  /\ \/ UNCHANGED record
     \/ status' = [status EXCEPT ![job[w].act] = "RUNNING"]
  /\ mishaps' = mishaps + 1
  /\ UNCHANGED <<request, queue, job, copies, ghosts, dropped, cancels>>

\* The task body returns.
RunReturns(w) ==
  /\ pc[w] = "running"
  /\ pc' = [pc EXCEPT ![w] = "succeeded"]
  /\ performed' = performed \cup {job[w].act}
  /\ UNCHANGED <<record, request, queue, job, copies, runs, dropped, mishaps,
                 cancels>>

\* Task.retry raises instead of publishing when the next retry would be number
\* max_retries + 1.
AfterRetryableError(m) == IF m.retries + 1 > MaxRetries THEN "failed" ELSE "retrying"

\* The body raises ApiException or VaultError (autoretry_for), or asks for
\* another poll (self.retry).
RunAsksForRetry(w) ==
  /\ pc[w] = "running"
  /\ pc' = [pc EXCEPT ![w] = AfterRetryableError(job[w])]
  /\ UNCHANGED <<record, request, queue, job, copies, ghosts, dropped, mishaps,
                 cancels>>

\* The body raises anything else.
RunRaises(w) ==
  /\ pc[w] = "running"
  /\ pc' = [pc EXCEPT ![w] = "failed"]
  /\ UNCHANGED <<record, request, queue, job, copies, ghosts, dropped, mishaps,
                 cancels>>

Release(w) ==
  /\ pc' = [pc EXCEPT ![w] = "idle"]
  /\ job' = [job EXCEPT ![w] = NoMessage]

\* retry() publishes the next message, on_retry only logs: the record stays
\* RUNNING while the message waits for its countdown.
PublishRetry(w) ==
  /\ pc[w] = "retrying"
  /\ queue' = queue \cup {[job[w] EXCEPT !.retries = @ + 1]}
  /\ Release(w)
  /\ UNCHANGED <<record, request, copies, ghosts, dropped, mishaps, cancels>>

\* Mutant of Finish: a failure leaves the record alone.
FinishSuccessOnly(w) ==
  /\ pc[w] \in {"succeeded", "failed"}
  /\ status' = IF pc[w] = "failed" THEN status
               ELSE [status EXCEPT ![job[w].act] = "SUCCESS"]
  /\ Release(w)
  /\ UNCHANGED <<request, queue, copies, ghosts, dropped, mishaps, cancels>>

\* Mutant of Finish: every execution that ends is a success.
FinishAsSuccess(w) ==
  /\ pc[w] \in {"succeeded", "failed"}
  /\ status' = [status EXCEPT ![job[w].act] = "SUCCESS"]
  /\ Release(w)
  /\ UNCHANGED <<request, queue, copies, ghosts, dropped, mishaps, cancels>>

\* on_success or on_failure writes the final state.
Finish(w) ==
  /\ pc[w] \in {"succeeded", "failed"}
  /\ status' = [status EXCEPT
       ![job[w].act] = IF pc[w] = "succeeded" THEN "SUCCESS" ELSE "FAILURE"]
  /\ Release(w)
  /\ UNCHANGED <<request, queue, copies, ghosts, dropped, mishaps, cancels>>

\* The worker is killed, the retry cannot be published (Reject), or the write
\* of the final state fails: the acknowledged message is gone and the record
\* keeps the status it had.
Drop(w) ==
  /\ pc[w] # "idle"
  /\ mishaps < MaxMishaps
  /\ dropped' = dropped \cup {job[w].act}
  /\ mishaps' = mishaps + 1
  /\ Release(w)
  /\ UNCHANGED <<record, request, queue, copies, ghosts, cancels>>

-----------------------------------------------------------------------------
Take(w) == \E m \in queue : Receive(w, m)

Execute(w) ==
  \/ Start(w)
  \/ StartFails(w)
  \/ RunReturns(w)
  \/ RunAsksForRetry(w)
  \/ RunRaises(w)
  \/ PublishRetry(w)
  \/ Finish(w)
  \/ Drop(w)

Next ==
  \/ \E a \in Actions : CreateRecord(a)
  \/ \E a \in Actions : PublishTask(a)
  \/ \E a \in Actions : AbortRequest(a)
  \/ \E a \in Actions : Cancel(a)
  \/ \E m \in queue : Redeliver(m)
  \/ \E w \in Workers : Take(w)
  \/ \E w \in Workers : Execute(w)

Spec == Init /\ [][Next]_vars

\* The worker processes keep polling SQS and keep executing what they took; a
\* killed pod is replaced.  A request handler that created a record goes on to
\* publish the task or fails.  Nothing makes a user send a request.
Fairness ==
  /\ \A w \in Workers : WF_vars(Take(w)) /\ WF_vars(Execute(w))
  /\ \A a \in Actions : WF_vars(PublishTask(a) \/ AbortRequest(a))

FairSpec == Spec /\ Fairness

-----------------------------------------------------------------------------
(***************************************************************************)
(* What must hold.                                                         *)
(***************************************************************************)

\* Every variable has its type.
TypeOK ==
  /\ status \in [Actions -> Status \cup {"NONE"}]
  /\ request \in [Actions -> {"none", "created", "accepted", "failed"}]
  /\ queue \subseteq Messages
  /\ pc \in [Workers -> {"idle", "received", "running", "retrying",
                         "succeeded", "failed"}]
  /\ job \in [Workers -> Messages \cup {NoMessage}]
  /\ copies \in [Actions -> Copies]
  /\ runs \in [Actions -> [Copies -> Nat]]
  /\ performed \subseteq Actions
  /\ dropped \subseteq Actions
  /\ mishaps \in 0..MaxMishaps
  /\ cancels \in 0..MaxCancels

SameCopy(m, n) == m.act = n.act /\ m.copy = n.copy

\* A copy of a task is in one place: no retry is published while the execution
\* that asked for it, or an earlier message of the same copy, still exists.
\* Hence two workers never execute the same copy, and an action SQS has not
\* duplicated is executed by one worker at a time, through all its retries.
CopyCarriedOnce ==
  /\ \A m, n \in queue : SameCopy(m, n) => m = n
  /\ \A w \in Workers : pc[w] # "idle" =>
       /\ \A m \in queue : ~ SameCopy(m, job[w])
       /\ \A v \in Workers \ {w} : pc[v] # "idle" => ~ SameCopy(job[v], job[w])

\* An action whose POST was answered 202 and whose record says PENDING or
\* RUNNING is really on its way: a message is queued or a worker has it, unless
\* an execution was dropped.  A record that would stay PENDING or RUNNING for
\* ever thus always has a crash or a failed write in its past.
NothingForgotten ==
  \A a \in Actions :
    (request[a] = "accepted" /\ status[a] \in {"PENDING", "RUNNING"}
       /\ a \notin dropped) => InFlight(a)

\* max_retries bounds the executions of the task body, the first one included,
\* of each copy SQS delivers, whatever crashes and redeliveries there are.
RetryBudget ==
  \A a \in Actions : \A c \in Copies : runs[a][c] <= MaxRetries + 1

Busy(w) == pc[w] # "idle"

\* What the safety properties rest on, each part preserved by every step given
\* the others.  An idle worker holds nothing; ...
IdleHoldsNothing == \A w \in Workers : Busy(w) <=> job[w] # NoMessage

\* ... before its task is published an action has neither messages nor runs, and
\* its record is at most cancelled; ...
UnpublishedIsUntouched ==
  \A a \in Actions :
    /\ status[a] = "NONE" <=> request[a] = "none"
    /\ request[a] \in {"none", "created"} =>
         /\ ~ InFlight(a)
         /\ status[a] \in {"NONE", "PENDING", "CANCELLED"}
         /\ runs[a][0] = 0

\* ... the copies in flight are among those SQS has made, and the others have
\* not run; ...
CopiesAreNumbered ==
  /\ \A m \in queue : m.copy <= copies[m.act]
  /\ \A w \in Workers : Busy(w) => job[w].copy <= copies[job[w].act]
  /\ \A a \in Actions : \A c \in Copies : c > copies[a] => runs[a][c] = 0

\* ... a message knows how often its copy has run; ...
RetriesCountRuns ==
  /\ \A m \in queue : runs[m.act][m.copy] <= m.retries
  /\ \A w \in Workers : Busy(w) =>
       /\ runs[job[w].act][job[w].copy]
            <= job[w].retries + (IF pc[w] = "received" THEN 0 ELSE 1)
       /\ pc[w] = "retrying" => job[w].retries < MaxRetries

\* ... and a final state of an action that was not duplicated closes it.
FinalIsClosed ==
  \A a \in Actions : (copies[a] = 0 /\ status[a] \in Final) => ~ InFlight(a)

\* The inductive invariant.
IInv ==
  /\ TypeOK
  /\ IdleHoldsNothing
  /\ CopyCarriedOnce
  /\ UnpublishedIsUntouched
  /\ CopiesAreNumbered
  /\ RetriesCountRuns
  /\ RetryBudget
  /\ NothingForgotten
  /\ FinalIsClosed

\* SUCCESS is written for actions whose task body has returned only, FAILURE for
\* actions whose body has not, unless SQS has duplicated the action; and when
\* nothing of an action is in flight any more, it was neither duplicated,
\* dropped nor cancelled, its record tells which way the body ended.
OutcomeIsHonest ==
  \A a \in Actions :
    /\ status[a] = "SUCCESS" => a \in performed
    /\ (status[a] = "FAILURE" /\ copies[a] = 0) => a \notin performed
    /\ (request[a] = "accepted" /\ ~ InFlight(a) /\ copies[a] = 0
          /\ a \notin dropped /\ cancels = 0)
       => status[a] = (IF a \in performed THEN "SUCCESS" ELSE "FAILURE")

\* What OutcomeIsHonest rests on: who reports success has done the work, and work
\* that is done is done for the first time and not done again, unless SQS has
\* duplicated the action.
DoneOnce ==
  /\ \A w \in Workers : pc[w] = "succeeded" => job[w].act \in performed
  /\ \A a \in performed :
       /\ request[a] \notin {"none", "created"}
       /\ copies[a] = 0 =>
            /\ \A m \in queue : m.act # a
            /\ \A w \in Workers : Carries(w, a) => pc[w] = "succeeded"

\* SUCCESS and FAILURE are final: no step takes the record of an action that
\* SQS has not duplicated out of them, except a cancel.
FinalIsFinal ==
  [][\A a \in Actions :
       (copies[a] = 0 /\ status[a] \in Final)
         => status'[a] \in {status[a], "CANCELLED"}]_vars

\* Every accepted action ends: some day its record is in a final state or
\* CANCELLED, or an execution of it was dropped.
EventuallySettled ==
  \A a \in Actions :
    (request[a] = "accepted")
      ~> (status[a] \in Final \cup {"CANCELLED"} \/ a \in dropped)

\* The detailed system implements the caller's view of an action.
Record == INSTANCE ActionRecord WITH
  open <- {a \in Actions : request[a] = "created" \/ InFlight(a)},
  Redeliveries <- MaxDuplicates > 0

\* Seen through its record, an action begins and ends as ActionRecord says,
\* whatever queue, workers, crashes and cancels do underneath: nothing changes
\* a record nobody works on but a cancel, and nobody works on one for ever.
ImplementsActionRecord == Record!FairSpec

\* action_cancel's docstring and description: it cancels a pending action.  One
\* whose execution has not begun does not begin.
CancelledDoesNotStart ==
  [][\A a \in Actions : status[a] = "CANCELLED" => runs'[a] = runs[a]]_vars
=============================================================================
