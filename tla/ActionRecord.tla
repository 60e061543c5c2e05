------------------------------ MODULE ActionRecord ------------------------------
(***************************************************************************)
(* What a caller of the API may rely on when it polls an action: the       *)
(* status of the record and whether the system still works on the action.  *)
(* Queue, workers, retries and failures are not part of this view.         *)
(***************************************************************************)
CONSTANTS
  Actions,      \* action ids
  Redeliveries  \* TRUE if a task message may be delivered more than once

VARIABLES
  status,  \* the record's status, "NONE" while there is no record
  open     \* actions the system may still work on

vars == <<status, open>>

Init ==
  /\ status = [a \in Actions |-> "NONE"]
  /\ open = {}

\* A POST creates the record.
Submit(a) ==
  /\ status[a] = "NONE"
  /\ status' = [status EXCEPT ![a] = "PENDING"]
  /\ open' = open \cup {a}

\* An execution starts, for the first time, for a retry, or after a cancel.
Begin(a) ==
  /\ a \in open
  /\ status' = [status EXCEPT ![a] = "RUNNING"]
  /\ UNCHANGED open

\* An execution ends.  It cannot succeed without having started.  Only a
\* redelivered action may still be worked on afterwards.
Conclude(a) ==
  /\ a \in open
  /\ \E s \in {"SUCCESS", "FAILURE"} :
       /\ s = "SUCCESS" => status[a] # "PENDING"
       /\ status' = [status EXCEPT ![a] = s]
  /\ open' = open \ {a} \/ (Redeliveries /\ open' = open)

\* The system loses an action: its record keeps the status it had.
Abandon(a) ==
  /\ a \in open
  /\ open' = open \ {a}
  /\ UNCHANGED status

\* A cancel overwrites whatever the status is and stops nothing.
Cancel(a) ==
  /\ status[a] # "NONE"
  /\ status' = [status EXCEPT ![a] = "CANCELLED"]
  /\ UNCHANGED open

Close(a) == Conclude(a) \/ Abandon(a)

Next == \E a \in Actions : Submit(a) \/ Begin(a) \/ Close(a) \/ Cancel(a)

Spec == Init /\ [][Next]_vars

\* The system does not work on an action for ever.
FairSpec == Spec /\ \A a \in Actions : WF_vars(Close(a))
=============================================================================
