----------------------------- MODULE WorkloadChange -----------------------------
(***************************************************************************)
(* The actions openshift-workload-restart and openshift-workload-delete on *)
(* one object of a cluster: ActionLifecycle, with the task body worked out.*)
(* A restart of a Deployment, StatefulSet or DaemonSet patches its pod     *)
(* template; a restart of a Pod looks who owns it and deletes it in a      *)
(* second call; a delete deletes.  Every retry starts from scratch.        *)
(*                                                                         *)
(* The cluster is external: a deleted object goes at once or terminates    *)
(* for a while, a controller or a user brings one of the same name back,   *)
(* an error may hide that a request was carried out.                       *)
(***************************************************************************)
EXTENDS ActionLifecycle, Lookups

CONSTANTS
  Clusters,     \* the clusters to look up (see Lookups), one per behaviour
  MaxTroubles,  \* bound: failed or lost requests
  MaxMoves      \* bound: changes of the object nobody here asked for

ASSUME ChangeAssumption ==
  /\ MaxTroubles \in Nat
  /\ MaxMoves \in Nat
  /\ \A c \in Clusters : \A s, t \in c.tokens :
       s = t /\ s.access \in {"granted", "forbidden", "absent"}

VARIABLES
  op,        \* op[a]: what action a asks for
  kind,      \* the object's kind: "unserved" if the cluster's API has no such kind
  cluster,   \* where it is, as app-interface and Vault describe the cluster
  object,    \* the object of that name: state, owner, and its age, which grows
             \* with every incarnation, deletion and rollout
  seen,      \* seen[w]: the age of the pod that worker w has found properly
             \* owned and is about to delete, or 0
  asked,     \* asked[a]: the object's age when a's record was created
  changes,   \* changes[a]: how often an execution of a has changed the object
  missed,    \* missed[a]: how often a DELETE of a was answered 404
  troubles,  \* requests that failed or whose answer was lost
  lost,      \* those that were carried out and whose answer was lost
  moves      \* changes of the object nobody here asked for

target == <<op, kind, cluster>>
counts == <<asked, changes, missed, troubles, lost, moves>>
work == <<target, object, seen, counts>>
changeVars == <<vars, work>>

Kinds == {"Workload", "Pod", "Other", "unserved"}
Objects == [state : {"live", "terminating", "absent"}, owned : BOOLEAN, age : Nat \ {0}]

\* What there may be under the name, but for what the actions here do.
Standing(age) == [state : {"live"}, owned : BOOLEAN, age : {age}]
                   \cup [state : {"absent"}, owned : {FALSE}, age : {age}]

ChangeInit ==
  /\ Init
  /\ op \in [Actions -> {"restart", "delete"}]
  /\ kind \in Kinds
  /\ cluster \in Clusters
  /\ object \in Standing(1)
  /\ seen = [w \in Workers |-> 0]
  /\ asked = [a \in Actions |-> 0]
  /\ changes = [a \in Actions |-> 0]
  /\ missed = [a \in Actions |-> 0]
  /\ troubles = 0
  /\ lost = 0
  /\ moves = 0

-----------------------------------------------------------------------------
(***************************************************************************)
(* One execution of the task body by worker w.                             *)
(***************************************************************************)
Preparing(w) == pc[w] = "running" /\ seen[w] = 0

Connected(w) == Preparing(w) /\ GetClusterConnectionData(cluster) = "ok"

\* The connection data cannot be had.
NotConnected(w) ==
  /\ Preparing(w)
  /\ \/ GetClusterConnectionData(cluster) = "retry" /\ RunAsksForRetry(w)
     \/ GetClusterConnectionData(cluster) = "fatal" /\ RunRaises(w)
  /\ UNCHANGED work

Restartable == {"Workload", "Pod"}

\* OpenshiftResourceKindNotSupportedError, or the dynamic client knows no such
\* kind: neither is an ApiException.
KindNotSupported(w) ==
  /\ Connected(w)
  /\ \/ op[job[w].act] = "restart" /\ kind \notin Restartable
     \/ kind = "unserved"
  /\ RunRaises(w)
  /\ UNCHANGED work

\* Mutant of CheckPod: a pod nobody owns is left alone.
CheckPodKindly(w) ==
  /\ Connected(w)
  /\ op[job[w].act] = "restart" /\ kind = "Pod"
  /\ \/ /\ object.state # "absent" /\ object.owned
        /\ seen' = [seen EXCEPT ![w] = object.age]
        /\ UNCHANGED vars
     \/ /\ object.state = "absent" \/ ~ object.owned
        /\ RunReturns(w)
        /\ UNCHANGED seen
  /\ UNCHANGED <<target, object, counts>>

\* Mutant of CheckPod: the owner is not looked at.
CheckPodExists(w) ==
  /\ Connected(w)
  /\ op[job[w].act] = "restart" /\ kind = "Pod"
  /\ \/ /\ object.state # "absent"
        /\ seen' = [seen EXCEPT ![w] = object.age]
        /\ UNCHANGED vars
     \/ /\ object.state = "absent"
        /\ RunRaises(w)
        /\ UNCHANGED seen
  /\ UNCHANGED <<target, object, counts>>

\* The pod is read; it must exist and belong to a ReplicaSet or StatefulSet.
CheckPod(w) ==
  /\ Connected(w)
  /\ op[job[w].act] = "restart" /\ kind = "Pod"
  /\ \/ /\ object.state # "absent" /\ object.owned
        /\ seen' = [seen EXCEPT ![w] = object.age]
        /\ UNCHANGED vars
     \/ /\ object.state = "absent" \/ ~ object.owned
        /\ RunRaises(w)
        /\ UNCHANGED seen
  /\ UNCHANGED <<target, object, counts>>

\* The worker's next request patches, or deletes, the object.
Patching(w) == Connected(w) /\ op[job[w].act] = "restart" /\ kind = "Workload"
Deleting(w) ==
  \/ seen[w] # 0
  \/ Connected(w) /\ op[job[w].act] = "delete" /\ kind # "unserved"

\* What the request does to an object that exists.
Carried(w) ==
  /\ object.state # "absent"
  /\ IF Deleting(w) /\ object.state = "terminating"
     THEN UNCHANGED <<object, changes>>
     ELSE /\ object' \in [state : IF Deleting(w) THEN {"absent", "terminating"}
                                  ELSE {object.state},
                          owned : {object.owned}, age : {object.age + 1}]
          /\ changes' = [changes EXCEPT ![job[w].act] = @ + 1]

\* Mutant of EndCall: the worker is still about to delete the pod.
EndCallLate(w) == UNCHANGED <<seen, target, asked, moves>>

EndCall(w) == seen' = [seen EXCEPT ![w] = 0] /\ UNCHANGED <<target, asked, moves>>

\* Mutant of Change: the task goes on until the object is gone or replaced.
ChangeAgain(w) ==
  /\ Patching(w) \/ Deleting(w)
  /\ Carried(w)
  /\ RunAsksForRetry(w)
  /\ EndCall(w)
  /\ UNCHANGED <<missed, troubles, lost>>

\* The request is carried out and answered.
Change(w) ==
  /\ Patching(w) \/ Deleting(w)
  /\ Carried(w)
  /\ RunReturns(w)
  /\ EndCall(w)
  /\ UNCHANGED <<missed, troubles, lost>>

\* Mutant of NotFound: no answer but success ends an execution.
NotFoundForEver(w) ==
  /\ Patching(w) \/ Deleting(w)
  /\ object.state = "absent"
  /\ queue' = queue \cup {[job[w] EXCEPT !.retries = 0]}
  /\ Release(w)
  /\ EndCall(w)
  /\ UNCHANGED <<record, request, copies, ghosts, dropped, mishaps, cancels>>
  /\ UNCHANGED <<object, changes, missed, troubles, lost>>

\* 404: rolling_restart turns it into an exception of its own; a delete lets it
\* through, and it is an ApiException.
NotFound(w) ==
  /\ object.state = "absent"
  /\ \/ Patching(w) /\ RunRaises(w) /\ UNCHANGED missed
     \/ /\ Deleting(w) /\ RunAsksForRetry(w)
        /\ missed' = [missed EXCEPT ![job[w].act] = @ + 1]
  /\ EndCall(w)
  /\ UNCHANGED <<object, changes, troubles, lost>>

\* A request fails, to Vault, app-interface or the cluster: VaultError and
\* ApiException are retried, errors of the transport and of GraphQL are not.
RequestFails(w) ==
  /\ pc[w] = "running"
  /\ troubles < MaxTroubles
  /\ troubles' = troubles + 1
  /\ RunAsksForRetry(w) \/ RunRaises(w)
  /\ EndCall(w)
  /\ UNCHANGED <<object, changes, missed, lost>>

\* The request is carried out, but ends in a 5xx, or its answer is lost.  The
\* transport sends a DELETE again (configuration.retries), never a PATCH.
AnswerLost(w) ==
  /\ Patching(w) \/ Deleting(w)
  /\ Carried(w)
  /\ troubles < MaxTroubles
  /\ troubles' = troubles + 1
  /\ lost' = lost + 1
  /\ \/ (RunAsksForRetry(w) \/ RunRaises(w)) /\ EndCall(w)
     \/ Deleting(w) /\ UNCHANGED <<vars, seen, target, asked, moves>>
  /\ UNCHANGED missed

Proceed(w) ==
  \/ NotConnected(w)
  \/ KindNotSupported(w)
  \/ CheckPod(w)
  \/ Change(w)
  \/ NotFound(w)

-----------------------------------------------------------------------------
(***************************************************************************)
(* The rest: the task around the body, the API, and the cluster.           *)
(***************************************************************************)
AroundChange(w) ==
  /\ Start(w) \/ StartFails(w) \/ PublishRetry(w) \/ Finish(w)
  /\ UNCHANGED work

\* A killed worker does not delete the pod it was about to delete.
Killed(w) ==
  /\ Drop(w)
  /\ EndCall(w)
  /\ UNCHANGED <<object, changes, missed, troubles, lost>>

ChangeExecute(w) ==
  Proceed(w) \/ RequestFails(w) \/ AnswerLost(w) \/ AroundChange(w) \/ Killed(w)

AskFor(a) ==
  /\ CreateRecord(a)
  /\ asked' = [asked EXCEPT ![a] = object.age]
  /\ UNCHANGED <<target, object, seen, changes, missed, troubles, lost, moves>>

OutsideTasks ==
  /\ \/ \E a \in Actions : PublishTask(a) \/ AbortRequest(a) \/ Cancel(a)
     \/ \E m \in queue : Redeliver(m)
     \/ \E w \in Workers : Take(w)
  /\ UNCHANGED work

\* A terminating object is gone at last.
Vanish ==
  /\ object.state = "terminating"
  /\ object' = [object EXCEPT !.state = "absent"]
  /\ UNCHANGED <<vars, target, seen, counts>>

\* A controller brings an owned object back under its name (a StatefulSet's
\* pod), or a user creates, deletes, adopts or orphans one.
Move ==
  /\ moves < MaxMoves
  /\ moves' = moves + 1
  /\ object' \in Standing(object.age + 1)
  /\ UNCHANGED <<vars, target, seen, asked, changes, missed, troubles, lost>>

ChangeNext ==
  \/ \E a \in Actions : AskFor(a)
  \/ OutsideTasks
  \/ \E w \in Workers : ChangeExecute(w)
  \/ Vanish
  \/ Move

ChangeSpec == ChangeInit /\ [][ChangeNext]_changeVars

\* As in ActionLifecycle: the worker's own steps, whatever fails around it.
ChangeFairness ==
  /\ \A w \in Workers :
       /\ WF_changeVars(Take(w) /\ UNCHANGED work)
       /\ WF_changeVars(Proceed(w) \/ AroundChange(w))
  /\ \A a \in Actions :
       WF_changeVars((PublishTask(a) \/ AbortRequest(a)) /\ UNCHANGED work)

ChangeFairSpec == ChangeSpec /\ ChangeFairness

-----------------------------------------------------------------------------
(***************************************************************************)
(* What must hold.                                                         *)
(***************************************************************************)

\* Every variable has its type.
ChangeTypeOK ==
  /\ TypeOK
  /\ op \in [Actions -> {"restart", "delete"}]
  /\ kind \in Kinds
  /\ cluster \in Clusters
  /\ object \in Objects
  /\ seen \in [Workers -> Nat]
  /\ \A w \in Workers : seen[w] # 0 =>
       pc[w] = "running" /\ kind = "Pod" /\ op[job[w].act] = "restart"
  /\ asked \in [Actions -> Nat]
  /\ changes \in [Actions -> Nat]
  /\ missed \in [Actions -> Nat]
  /\ troubles \in 0..MaxTroubles
  /\ lost \in 0..troubles
  /\ moves \in 0..MaxMoves

\* The object stands as it did when a was asked for.
Untouched(a) == object.state = "live" /\ object.age = asked[a]

\* No action reports SUCCESS and leaves the object it was asked about as it was:
\* not a refused pod, not after a retry, not for a second copy.
SuccessMeansChange ==
  \A a \in Actions : status[a] = "SUCCESS" => ~ Untouched(a)

\* An action that reports FAILURE, and that SQS has not duplicated, has made no
\* change but those whose answer it never got: whatever else fails, before, after
\* or in a retry, what it knows to be done it does not report as failed.  (A
\* delete whose answer is lost is retried, finds nothing, and fails.)
FailureMeansNoChange ==
  \A a \in Actions :
    (status[a] = "FAILURE" /\ copies[a] = 0) => changes[a] <= lost

\* An action changes the object once for each copy of its message, and once more
\* for each lost answer: no retry for another reason, a request that failed among
\* them, restarts or deletes again what an earlier execution has.
ChangesAreCounted ==
  \A a \in Actions : changes[a] <= copies[a] + 1 + lost

\* A worker that is about to delete a pod has seen an owner, and while the pod is
\* the one it has seen the owner is there.
SeenIsOwned ==
  \A w \in Workers : seen[w] <= object.age /\ (seen[w] = object.age => object.owned)

\* What these rest on, given ActionLifecycle's invariant: an action is asked for
\* before it changes the object, which only ages; who reports success has left
\* the object changed; a pod that is about to be deleted is still owned, or no
\* longer the one that was seen; and only a lost answer hides a change from its
\* own execution.
ChangeIInv ==
  /\ ChangeTypeOK
  /\ \A a \in Actions : asked[a] <= object.age
  /\ SuccessMeansChange
  /\ \A w \in Workers : pc[w] = "succeeded" => ~ Untouched(job[w].act)
  /\ SeenIsOwned
  /\ \A a \in Actions : a \in performed \/ changes[a] <= lost

\* A restart looks at the pod's owner in one request and deletes the pod, by its
\* name, in another.  It deletes nothing it has not looked at, and a pod without
\* an owner only if somebody has exchanged or orphaned it between the look and the
\* deletion, however often others have done so before.
RestartLosesNothing ==
  [][\A a \in Actions :
       (kind = "Pod" /\ op[a] = "restart" /\ changes'[a] # changes[a]) =>
         \E w \in Workers :
           /\ seen[w] # 0 /\ job[w].act = a
           /\ object.owned \/ seen[w] < object.age]_changeVars

\* The secret cannot be read, and hvac's own error tells the task: the mount's
\* configuration is not readable, or an engine of version 1 lacks the path.
HvacLetThrough ==
  \E s \in cluster.tokens : cluster.listed /\
    \/ ~ s.mount
    \/ s.kv # 2 /\ s.access = "absent"

\* A copy is executed again for two reasons only, a failed or unanswered request
\* and a DELETE answered 404, and once for each: whatever else is wrong with
\* cluster, token or secret fails at once.  The exception is hvac's own error about
\* the secret, which nobody mends by trying again either: being a VaultError, it
\* is retried, unlike those the client has exceptions for.
RetriesHaveCause ==
  HvacLetThrough \/
    \A a \in Actions : \A c \in Copies : runs[a][c] <= 1 + troubles + missed[a]

\* With its body worked out, an action still lives as ActionLifecycle says, its
\* fairness included.
ImplementsActionLifecycle == FairSpec
=============================================================================
