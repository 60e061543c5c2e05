# A verification of automated-actions

TLA+ modules for the part of this repository that has to be right under
concurrency, failure and delay: the life of an action from the POST request to
the final state of its record, the rate limit and the login in front of it, the
task bodies that look at something outside and change it, and the command line
client whose processes share a session. TLC checks them on small instances;
TLAPS proves the most important results for every instance.

Run `tlc -config X.cfg M` for the pairs in the table of runs, `tlapm M.tla` for
the eight modules of proofs (`...Proofs`). Paths below are relative to `src/packages/`; `P` is
`automated_actions/automated_actions`.

## The system

| component | state | operations | talks to |
|---|---|---|---|
| Action endpoints (`P/api/v1/views`) | none; an event loop and a thread pool per replica, three replicas | nine POST endpoints: a dependency creates the record, the endpoint publishes the task and answers 202; list, detail, cancel | OPA, DynamoDB, SQS |
| Action record (`P/db/models/_action.py`, `_base.py`) | a DynamoDB row per action: status, owner, name, result, created_at, updated_at; a global secondary index on owner and updated_at | create, set_status, set_final_state, find_by_owner, get_or_404; no write is conditional | read and written by API and workers |
| Task base class and broker (`P/celery/automated_action_task.py`, `app.py`) | SQS messages; what a worker executes | before_start, body, on_success, on_failure, on_retry, autoretry for ApiException and VaultError | SQS (at least once, early acknowledgement), DynamoDB |
| Task bodies (`P/celery/*/tasks.py`) with their clients (`automated_actions_utils`) | that of AWS and the clusters | RDS start, stop, reboot, snapshot; ElastiCache flush; workload restart, delete; cron job trigger; no-op | AWS, Kubernetes, Vault, GraphQL |
| Authorization (`P/auth.py` OPA, `opa/authz/*.rego`) | roles and users (data) | authorized, within_rate_limits, objects; calls the API back for the user's recent actions | API, OPA's own token |
| Login (`P/auth.py` OpenIDConnect, BearerTokenAuth) | signed cookies, tokens | login, callback, logout, token check | identity provider |
| User directory (`P/db/models/_user.py`) | a row per email | load, set_allowed_actions | DynamoDB |
| Lookups (`automated_actions_utils`: `cluster_connection.py`, `external_resource.py`, `vault_client.py`) | none | what app-interface and Vault have about a cluster or resource; which of their errors Celery retries | GraphQL, Vault |
| Command line client (`automated_actions_cli`) | the file of cookies that all invocations of a user share | kinit, load, me(), the command, redirects and SPNEGO, save at exit | API, identity provider |
| Generated client, start-up, metrics | configuration | - | API |

What is hard here: nothing but the action id ties record, message and execution
together; the record has many writers and no condition; the message is
acknowledged before it is executed and may be delivered again; the rate limit is
decided on an index that lags, before the record it should count exists; task
bodies look at an outside system in one call and change it in another, do not
learn what a call did whose answer is lost, and are re-executed from scratch by
every retry; browser tabs share one cookie and client processes one file. `PROJECT.json` lists each hazard with
its line and the properties that would catch it.

## The modules

| module | models | state and actions |
|---|---|---|
| `ActionRecord` | what a caller who polls an action may rely on (abstract) | `status`, `open`; Submit, Begin, Conclude, Abandon, Cancel |
| `ActionLifecycle` | record, request, SQS, workers, retries, crashes | below |
| `Policy` | the Rego rules as operators on roles and users | no state |
| `Throttle` | requests in progress, the decision, the index, time; EXTENDS `Policy`, its records are an instance of `ActionRecord` | Arrive, Decide, Create, CancelAction, GiveUp; WorkerWrites, Propagate, Toggle, Tick |
| `RdsPower` | the bodies of the four RDS actions on one instance; EXTENDS `ActionLifecycle` | a poll: NoCredentials, NoDescription, FoundTarget, FoundBroken, FoundSource, FoundOther; GoAhead (reboot, snapshot); Call, CallRefused, AnswerLost, Killed; AWS: Complete, Drift |
| `KubeJob` | the bodies that create a Kubernetes Job; EXTENDS `ActionLifecycle` | NoConnection, NoSubject, CreateAndReturn, CreateAndWait, CreateFails, JobSucceeded, JobFailed, ReadFails, WaitTimesOut; the cluster: JobEnds |
| `Lookups` | how the look-up of a cluster's connection ends: ok, an error Celery retries, another error | no state |
| `WorkloadChange` | the bodies of restart and delete on one object; EXTENDS `ActionLifecycle` and `Lookups` | NotConnected, KindNotSupported, CheckPod, Change, NotFound, RequestFails, AnswerLost, Killed; the cluster: Vanish, Move |
| `UserDirectory` | the users table and the requests that keep it | a request: Get, Known, Rename, Create (User.load), Ask (OPA), Unchanged, SetAllowed, Leave; CatchUp, ChangePolicy |
| `OidcLogin` | browser logins in several tabs | Open, Serve, EnforceLogin, LoadFails; Login, Authenticate, Deny, CheckState, InvalidState, Exchange, CodeIsSpent, ExchangeFails; Duplicate, Close, Logout, SessionEnds, StateExpires |
| `CliSession` | invocations of the client that share the cookie file | Launch, Load, Answer, Redirect, LogIn, Negotiate, Unauthorized, OpenFile, WriteFile; KinitFails, NegotiationFails, TokenRefused, CallFails, Kill; SessionEnds, Outage |
| `ActionLifecycleProofs`, `ThrottleProofs`, `RdsPowerProofs`, `KubeJobProofs`, `WorkloadChangeProofs`, `UserDirectoryProofs`, `OidcLoginProofs`, `CliSessionProofs` | theorems | |
| `MC...` | constants of the instances | |

Definitions whose comment begins with "Mutant of" are not part of a model: each
is a plausible mistake in one definition, with which one of the properties
fails.

### ActionLifecycle

`status[a]` is the record's attribute ("NONE" while there is none), `request[a]`
how far the POST has got, `queue` the unacknowledged messages, `pc[w]` and
`job[w]` what a worker does. CreateRecord is the endpoint's dependency,
PublishTask its `apply_async`, AbortRequest a crash or broker error between the
two. Receive takes any message and acknowledges it; Start is `before_start`;
RunReturns, RunAsksForRetry and RunRaises are the ways a body can end;
PublishRetry and Finish are what Celery's tracer then does with `on_retry`,
`on_success` and `on_failure`. Drop is everything that loses the execution after
the acknowledgement: a killed worker, a retry that cannot be published, a failed
write of the final state. Redeliver is SQS delivering once more. A message
carries the number of its copy; that number is not in the code (both copies
have the same task id), it only distinguishes the copies in the bag of messages.

The countdown of a retry is not modelled: a published retry may be taken at any
time. A Cancel reads and writes in one step: the value read is not used in the
write. `runs`, `performed`, `dropped` and the counters are history.

### Throttle

A request first has its caller and, for action-cancel, the owner of the action
it fetched (Arrive), then the answer of OPA (Decide), then its effect (Create or
CancelAction). The decision calls the API back: FetchRecentActions asks the
same policy whether OPA's own account may list another user's actions, then reads
`index`, which a write reaches at once or by a later Propagate. Roles are those
of `default_roles.yml` plus a limited user and an SRE role. Time advances in
units of the window's; created_at and updated_at are in the same unit. Nested
decisions take no time (OPA waits for them inside its evaluation). A worker's
write is any that its task class makes; `Redeliveries` says whether a task may be
delivered again, which reopens a closed record and renews its updated_at. It is
FALSE in the run `throttle`, for its size, and TRUE in the other two; the theorems
hold for both.

### RdsPower, KubeJob and WorkloadChange

All three are ActionLifecycle with the nondeterministic body replaced by the
code's, and with AWS or the cluster as an environment that owes nothing. All
three implement ActionLifecycle, so what holds of it holds of them.

In RdsPower the description and the branch on it are one step and the AWS call is
another, because everything else can happen in between. Reboot and snapshot
call without looking (GoAhead). What AWS accepts is external: it starts a
stopped instance, stops, reboots or backs up an available one, takes a snapshot
identifier once, and rejects the rest. When the answer to an accepted call is
lost, botocore sends the call again, which AWS judges anew (AnswerLost). AWS, or the
way to it, may also refuse for a reason that has nothing to do with the instance
(CallRefused: rights, quotas, no connection). In KubeJob a Job is its place in the sequence of Jobs the action has created; an
error of the create request may or may not have created it. The second is always
possible, the first where `HiddenCreations` is TRUE, as in `kube_job`. It is FALSE
in `kube_twice`, so that the second Job that run finds is due to an error of a read
while the first is waited for.

In WorkloadChange an object is a name that may hold one incarnation after
another; `age` grows with each of them, with a deletion and with a rollout.
CheckPod reads the owner of a pod and keeps the age of the one it found owned
(`seen`), Change is the patch or the delete, in a step of its own; between the two
the pod may be exchanged or orphaned (Move) or go (Vanish). RestartLosesNothing
allows the delete of a pod without an owner only if it became so after the check of
the worker that deletes it. `missed` counts the 404s of an action, `lost` the
answers that were lost; both are history. An AnswerLost carries out the request and tells the task of an
ApiException, which is retried. The look-up in front of it is a case distinction
on the cluster's description (`Lookups`): GraphQL knows it or not, with or
without an automation token, and Vault answers as the mount, its version and the
policy make it. What a look-up of a secret ends as is not uniform: a forbidden
secret is an exception of the client's own and final, a path missing in a
version 1 engine is hvac's and is retried, and a version that is absent in
app-interface arrives as the string "None" and raises ValueError. A mount whose
configuration cannot be read is retried as well. RetriesHaveCause names these two
as HvacLetThrough: nobody mends them by trying again, yet the code does.

### UserDirectory and OidcLogin

A request of UserDirectory begins with a verified token, whether it came as a
bearer token or from a session; OidcLogin is how a browser gets that session,
and its Serve stands for the whole of UserDirectory. Every call to DynamoDB and
to OPA is a step of its own. A `get` is eventually consistent (pynamodb's
default), so it may return `copy[e]`, one older version of the row; an update
returns the whole new item, which replaces the user in memory. So if
another request renames the row between a request's load and its SetAllowed, the
latter goes on, and creates its action, under the other name. Nothing says which
of a caller's names is right; ServedAsDecided says that it is one of them, and
never another caller's. The display name is written with the username and left
out. OPA is loaded with one policy at a time for all replicas.

In OidcLogin a state token is a nonce and the browser it was made for; the
second is history, used by SessionIsOwn only. Checking the cookie (CheckState)
and setting the new ones (Exchange) are two steps, because the code awaits the
token endpoint in between. The page a login returns to travels in the token and
is left out, and so are HTTP methods and the lexical check of that page.

### CliSession

A step is one thing another process or server can see: the load of the file, an
answer, the opening of the file for the save (which empties it) and the write.
The redirects from API to provider and back are two each, counted by Follow;
Negotiate is one 401 handled by the SPNEGO flow, with httpx's count of redirects
started again. A session has the name of the process it was made for. The
version check, the choice of server and the rendering are left out.

## Runs

| run | module, cfg | bounds | shows |
|---|---|---|---|
| action_lifecycle | MCActionLifecycle | 1 action, 2 workers, 1 retry, 2 duplicates, 2 mishaps, 1 cancel | CopyCarriedOnce, NothingForgotten, OutcomeIsHonest, IInv, FinalIsFinal, EventuallySettled; ImplementsActionRecord (refinement, with fairness) |
| cancel_pending | MCActionLifecycle, MCCancelPending.cfg | 1 action, 1 worker, 1 retry, 1 cancel | violated: CancelledDoesNotStart |
| throttle | MCThrottle | 2 slots, 4 actions, max_ops 1, time 0..1, window 0, 1 lagging entry | ThrottleIInv, OvershootIsBounded |
| throttle_cancels | MCThrottle, MCThrottleCancels.cfg | 2 slots, 2 actions, owner, stranger, SRE | OnlyOwnersCancel, RefusedForCause with cancelled actions |
| throttle_undefined | MCThrottle, MCThrottleUndefined.cfg | 1 slot, 1 action | violated: NoMaxOpsMeansAllowed |
| rds_power | MCRdsPower | a start with a stop or a reboot, or two snapshots; 2 workers, 2 retries, 1 mishap, 1 upset (a change from outside or a lost answer) | FailureMeansUntouched, PowerIInv, CallsAreNotRepeated, LoneActionIsNotRejected, ImplementsActionLifecycle |
| kube_job | KubeJob, MCKubeJob.cfg | 1 action, flush or trigger, 2 workers, 1 retry, 1 duplicate, 1 mishap | JobIInv, SuccessMeansJob, JobsWithinRuns, ImplementsActionLifecycle |
| kube_twice | KubeJob, MCKubeTwice.cfg | 1 action, 1 worker, 1 retry | violated: NoSecondJobMeanwhile |
| workload_change | MCWorkloadChange | 1 action, restart or delete, 4 kinds of object, 5 kinds of cluster, 2 workers, 1 retry, 1 duplicate, 1 mishap, 1 failed or lost request, 1 move | ChangeIInv, SuccessMeansChange, FailureMeansNoChange, ChangesAreCounted, RetriesHaveCause, RestartLosesNothing, ImplementsActionLifecycle |
| user_directory | MCUserDirectory | 2 requests, 2 emails, one with two usernames, 2 policies, 2 changes | DirectoryIInv, AskedAsItsToken, ServedAsDecided, ListSettles |
| oidc_login | OidcLogin, MCOidcLogin.cfg | 2 tabs of the same or of two browsers, 2 mishaps | SessionIsOwn, IInv, LoneLoginSucceeds, NoEndlessRedirect |
| cli_session | CliSession, MCCliSession.cfg | 3 invocations, 2 of them a POST, max_redirects 4, 2 mishaps | CliIInv, CommandRunsOnce, FailsForCause, SavedSessionLasts, EveryInvocationEnds |

Why the bounds are enough for what is asked: actions of ActionLifecycle only
meet at a worker, and three copies of one action on two workers meet there in
the same way as two actions do, and share a record as well; actions that share
more, an instance, are two in rds_power, and the theorems hold for any number.
One retry already has a first, a middle and an exhausted attempt; the start of
an instance needs two retries to succeed after its call (call, under way, done);
the overshoot of the rate limit has three parts (the limit, the slots, the lag)
and four actions can exceed their sum by one. The default of 3 and the 60 polls
are covered by the theorems, which hold for every MaxRetries. The clusters of
workload_change are one for each way a look-up can end (a token, a forbidden one, a
cluster that is not listed) and one for each of hvac's errors that comes through (a
path absent in version 1, a mount that cannot be read). rds_power has no duplicates,
which would not fit in its time: that a redelivered task of an RDS action does no harm is
left to the theorems, which hold for any number of duplicates. Three invocations are two that write the file over each
other and one that loads it; two redirects each way fit in max_redirects 4, a
fifth does not. The models of the life of an action stop when all is done, and so
do the client's processes, so those cfgs switch the deadlock check off; those of
Throttle, UserDirectory and OidcLogin never stop. Symmetry is used in the runs of
Throttle, which check no liveness.

Two requests meet at one row in every way two requests can, and two changes of
the policy there and back are what a comparison with a stale list needs. Two
tabs overlap at each other's cookie, or hand a callback from one browser to
another; which of the two, `browser` decides in the initial state.

What the violated properties show is in the findings of `PROJECT.json`: a
cancelled action still runs; a permission without `max_ops` is never within its
limit; an error while waiting for a Job makes a second one. More things the
models do, without a run of their own: a cancel also rewrites a finished action
(FinalIsFinal excepts it); simultaneous requests pass a limit together
(OvershootIsBounded says how many); a delete whose answer is lost is retried,
finds nothing and ends as FAILURE (FailureMeansNoChange excepts it); two
processes that write the cookie file over each other can leave it torn, and the
next one fails (FailsForCause, SavedSessionLasts).

### Fairness

Worker processes keep polling the queue and keep executing what they took (a
killed pod is replaced by the Deployment), so Take and Execute are weakly fair
per worker. A request handler that has created a record goes on or fails, so
PublishTask and AbortRequest together are weakly fair. Nothing is assumed of
users, SQS redelivery, crashes, AWS or the cluster: that polling and waiting end
although the outside never answers is due to max_retries and job_wait's timeout.
In KubeJob and WorkloadChange the fair step is the worker's own, not an error
around it. In UserDirectory a request that is in progress ends, and DynamoDB's copies
converge; that requests keep coming is a premise of ListSettles, not fairness. In
OidcLogin a redirect is followed, a handler answers and the provider recognises
the user; closing a tab, logging out, expiry and failure are never owed, and the
last three happen MaxMishaps times (a user who logs out for ever, or a DynamoDB that
fails for ever, is redirected for ever). In CliSession a process that runs goes on and servers answer
(Proceed); errors, kills, expiry and outages are never owed, and there are
MaxMishaps of them.

## Proofs

No theorem bounds the numbers of actions, workers, requests, tabs, processes,
retries, duplicates or mishaps; the assumptions are the named ASSUMEs of the
modules, which TLC evaluates in every run. Each safety property and action
property that a run checks is stated by a theorem. The inductive invariants are
checked by TLC too, in the run of their module; what a proof needs besides is
defined in the module of proofs, next to its use.

`ActionLifecycleProofs` proves that IInv is an invariant, from the assumptions
that the bounds are naturals and NoMessage is no message. None of the
properties is inductive by itself. CopyCarriedOnce needs to know that an
unpublished action has no message and that the copies in flight are numbered up
to `copies`; RetryBudget needs that a message's `retries` is at least the runs
of its copy (RetriesCountRuns); NothingForgotten needs CopyCarriedOnce and that a
final state closes an action that was not duplicated (FinalIsClosed), so that a
record which is RUNNING has a carrier. There is a lemma per action.
TypeCorrectness, SingleCarrier, AcceptedIsNotForgotten, RunsAreBounded and
FinalStatesAreFinal follow. ReportsAreHonest (OutcomeIsHonest) needs one thing
more, that work which is done is not done again (DoneOnce).
ImplementsRecordSafety shows that initial states and steps of ActionLifecycle
are those of ActionRecord under the refinement mapping. EventuallySettled rests on
AcceptedIsNotForgotten, RunsAreBounded and the fairness of the workers.

The module ends with a way to count that others use. Pending(a) is the set of the
copies of action a in flight whose work is not done: queued, or with a worker that
has not come to the end of the body. It is empty at first, grows by one with the
publication and with each redelivery, and otherwise only shrinks (PendingStep); a
body that ends for good takes its copy out (PendingShrinks). To bound how often something is done
outside, one proves that every copy in Pending has one of it in reserve.

`RdsPowerProofs`, `KubeJobProofs` and `WorkloadChangeProofs` each prove that the
module implements ActionLifecycle without its fairness
(PowerImplementsLifecycle, JobImplementsLifecycle, ChangeImplementsLifecycle),
hence keeps IInv and the promises of the lifecycle (PowerKeepsPromises,
JobKeepsPromises, ChangeKeepsPromises: the steps of ActionRecord, FinalIsFinal,
OutcomeIsHonest, NothingForgotten), and then, with IInv as a fact of both states
of a step:

- RdsPower: a reported success stands (PowerInvariance, ReportedSuccessStands).
  AWS accepts no start in the status a start leads to, so only an opposite call,
  or something outside, moves the instance away; the invariant must also speak of
  successes not written yet. A failed reboot or snapshot has touched nothing
  (ReportedFailureIsUntouched), because an accepted call ends its only copy. A
  start or stop that is alone is never rejected for the status of its instance
  (LoneCallsAreAccepted): while
  one worker at most executes it, what it has seen of the instance still holds
  when it calls. And the calls an action makes are counted (CallsAreBounded, by
  CallsArePaid): a copy in Pending has one call in reserve, and a rejected call
  uses it up. A start or stop whose call is accepted polls on, so its copy is
  still in Pending; but now the instance is on its way to where it is wanted, or
  there (Zone), and while it stays there nobody begins to call. So one call more is allowed while that is so and a copy waits
  (Spare), and whoever moves the instance back, an accepted call of an opposite
  action or something outside, pays for it. What the opponents have moved is the
  cardinality of a set of pairs (Moves), for which there are lemmas, and no sum.
- KubeJob: SUCCESS means a Job that was created, and has succeeded if it was
  waited for (JobInvariance, ReportedJobIsReal). An action has no more Jobs than
  executions (JobsAreWithinRuns), hence at most max_retries + 1 for each copy
  (JobsAreBounded). The inductive form says that the Jobs there are and the
  executions that have yet to ask for one (Unspent) are together no more than the
  executions (Executions, pairs of copy and number): a create request spends its
  execution, whether or not it fails after it was carried out.
- WorkloadChange: SUCCESS means a changed object (ReportedChangeIsReal), FAILURE
  one that was not changed but by requests whose answer was lost, unless the message
  was duplicated (ReportedFailureIsReal), all from ChangeInvariance. A restart deletes
  the owned pod it has seen, or one that came or lost its owner after the check
  (PodsComeBack), because a pod that is about to be deleted is owned or younger
  than the one seen (SeenIsOwned). The number of changes is bounded by
  copies and lost answers (ChangesAreBounded): each copy in Pending has one change
  in reserve. And unless hvac's own error comes through, a copy is executed again for a
  failed or unanswered request or a 404 only, and once for each (RetriesAreExplained):
  by cases on the description of cluster and secret, of which a cluster has at most
  one, the look-up asks for no retry, and each execution after a copy's first is
  paid for by one of the counted troubles.

`ThrottleProofs` proves ThrottleInvariance for any roles, users, window, lag and
number of slots, from RolesAssumption (a max_ops is a number, null or absent),
EveryoneAssumption (what everyone may cancel is their own, as in
`default_roles.yml`) and CallsAssumption (the limits of an action have a
largest). OwnersCancel follows by the rules themselves: a permission that
matches either comes from a role of the user's or demands that the owner be the
user, and the owner in the request is the record's, which does not change.
OvershootBound is a counting argument: at the moment of admission the actions the
index counts are fewer than max_ops, those it does not count are among the
lagging ones, and a record that was not cancelled is counted once; from then on
each admitted request has one place among the slots, which it gives up when it
creates its action. RefusalsHaveCause, the converse, has hypotheses of its own:
OPA's account may list everybody's actions without a limit, and a failed call is
not mistaken for a list (OpaMayList). AdmissionsAreCounted needs none of them: who
is limited is never admitted without a count, so a callback that fails, or is
itself refused, is a refusal. That requests, cancels and workers take only steps of
ActionRecord needs no theorem: the actions of Throttle are made of them.

`UserDirectoryProofs` proves DirectoryInvariance, OpaIsAskedRight and
AnswersShowTheirDecision: a request updates rows that exist only, so that the item
an update returns is its email's, with a name of one of its tokens; and the name
OPA is asked with is settled by the request's own step, Known, Rename or Create,
right before. SettledListStays is the safety half of ListSettles: when the row has
OPA's list, no copy misses the row, and no request in progress is about to create
it or has an earlier policy's answer, that remains so until the policy changes. (An
email with two names need not settle: its requests write the lists of both.)

`OidcLoginProofs` proves LoginInvariance for any finite number of browsers and
tabs, hence that a session comes from a login of the browser that has it
(SessionsAreOwn) and that a login is turned away only for a reason
(LoneLoginsSucceed), from the assumptions that neither NoState nor NoSession is a real value and that there are
at least as many nonces as tabs and browsers together. The code compares the
token of the URL with the cookie and only later sends the code on, when the
cookie may be another; so the invariant says what the comparison has found
(ExchangeIsOwn), which needs that a cookie is the browser's own (CookieIsOwn).
That a login finds an unused nonce is a counting argument (NewStateIsNew): the
tab that begins it holds no token (TokenIsOfLogin). LoneLoginsSucceed rests on
AloneIsAhead: while no other login, duplicate or mishap came across a login, it
has its browser's one cookie, its code is unspent, and no other tab of the
browser can reach the exchange, whose answer would delete that cookie. Codes sent
on by other browsers are of their own tokens (ExchangeIsOwn), so they do not
spend this one. RedirectsAreFinite is the safety half of NoEndlessRedirect: a
number of redirects left (Left), at most 6 (MaxMishaps + 1), that is smaller after
each redirect that is followed and that nobody else's step makes larger. It rests
on an exchange leaving an accepted session, so that only a mishap, worth six,
sends a request to the login once more.

`CliSessionProofs` proves CliInvariance, CommandsRunOnce, FailuresHaveCause and
SessionsLast for any number of processes and any max_redirects of at least 2.
While nothing goes wrong an invocation is in one of few situations (Untroubled):
before the login, in it with at most one 401 and no redirects left over, or after
it with an accepted session; so the command finds one, a save writes one, and a
torn file is one that is being written (FileIsWhole). InvocationsAreFinite is the
safety half of EveryInvocationEnds: each step of an invocation, those that go wrong
included, leaves fewer to take, of 21 (max_redirects + 2) at most, and nobody
else's step leaves more. A 401 starts httpx's count of redirects again, and is
itself counted (num_401s), so a 401 weighs more than all redirects between two.

Only model-checked: liveness and the fairness of the refinements
(EventuallySettled, ListSettles, NoEndlessRedirect, EveryInvocationEnds,
ImplementsActionRecord, ImplementsActionLifecycle), which is beyond the prover.
Proved is the safety that each rests on: the bounds and the stability named above
for the first four, and the refinements without fairness.

## Not modelled

The no-op body (the choice of outcome in ActionLifecycle is all it can do). The
verification and issue of bearer tokens (no state), and invocations of the client
with AA_TOKEN, which call me() and the command and share nothing. The filters of external
resources, GraphQL queries, and the contents of secrets, results and task
arguments: data without a protocol; how a look-up in front of an RDS action or a
Job fails is a choice there. Start-up, configuration, metrics, formatting, the
generated client and the building of commands from it. A read of job_wait that hangs
(the client sets no timeout for a request): in KubeJob every read is answered or
fails. Regular expressions are
the sets they match. The 256 KB limit of SQS and DynamoDB throttling appear as
failed writes and publishes.

## Plan

1. done: ActionLifecycle, ActionRecord, Policy, Throttle, RdsPower with all four
   RDS actions, KubeJob, WorkloadChange with Lookups, UserDirectory, OidcLogin,
   CliSession; a module of proofs for each.
2. left: a composition of OidcLogin and CliSession, whose interface, a session the
   API accepts or not, is one set in both: an abstract session that both implement.
