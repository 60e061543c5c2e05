------------------------- MODULE ActionLifecycleProofs -------------------------
(***************************************************************************)
(* Safety of ActionLifecycle for every set of actions and workers and      *)
(* every bound, by the inductive invariant IInv.                           *)
(***************************************************************************)
EXTENDS ActionLifecycle, FiniteSetTheorems, TLAPS

\* A message names an action, one of its copies and a retry within the budget.
LEMMA MessageFields ==
  ASSUME NEW m \in Messages
  PROVE  /\ m.act \in Actions
         /\ m.copy \in Copies
         /\ m.copy \in Nat
         /\ m.retries \in 0..MaxRetries
         /\ m.retries \in Nat
  BY BoundsAssumption DEF Messages, Copies

\* The first message of an action is a message.
LEMMA FirstMessageType ==
  ASSUME NEW a \in Actions
  PROVE  /\ FirstMessage(a) \in Messages
         /\ FirstMessage(a).act = a
         /\ FirstMessage(a).copy = 0
         /\ FirstMessage(a).retries = 0
  BY BoundsAssumption DEF FirstMessage, Messages, Copies

\* The message of a further copy differs from the copied one in its number.
LEMMA CopyType ==
  ASSUME NEW m \in Messages, NEW c \in Copies
  PROVE  LET n == [m EXCEPT !.copy = c] IN
         n \in Messages /\ n.act = m.act /\ n.copy = c /\ n.retries = m.retries
  BY BoundsAssumption DEF Messages, Copies

\* The message of the next retry is the same copy's.
LEMMA RetryType ==
  ASSUME NEW m \in Messages, m.retries < MaxRetries
  PROVE  LET n == [m EXCEPT !.retries = @ + 1] IN
         /\ n \in Messages /\ n.act = m.act /\ n.copy = m.copy
         /\ n.retries = m.retries + 1
  BY BoundsAssumption DEF Messages, Copies

\* A busy worker holds a message.
LEMMA BusyHoldsMessage ==
  ASSUME TypeOK, IdleHoldsNothing, NEW w \in Workers, Busy(w)
  PROVE  job[w] \in Messages
  BY DEF TypeOK, IdleHoldsNothing

-----------------------------------------------------------------------------
\* The invariant holds initially.
LEMMA InitIInv == Init => IInv
  <1> SUFFICES ASSUME Init PROVE IInv
    OBVIOUS
  <1> USE BoundsAssumption, NoMessageAssumption DEF Init
  <1>1. TypeOK
    BY DEF TypeOK, Copies, Status
  <1>2. IdleHoldsNothing
    BY DEF IdleHoldsNothing, Busy
  <1>3. CopyCarriedOnce
    BY DEF CopyCarriedOnce
  <1>4. \A a \in Actions : ~ InFlight(a)
    BY DEF InFlight, Carries
  <1>5. UnpublishedIsUntouched
    <2>1. 0 \in Copies
      BY DEF Copies
    <2> QED
      BY <1>4, <2>1 DEF UnpublishedIsUntouched
  <1>6. CopiesAreNumbered
    BY DEF CopiesAreNumbered, Busy
  <1>7. RetriesCountRuns
    BY DEF RetriesCountRuns, Busy
  <1>8. RetryBudget
    BY DEF RetryBudget
  <1>9. NothingForgotten
    BY DEF NothingForgotten
  <1>10. FinalIsClosed
    BY DEF FinalIsClosed, Final
  <1> QED
    BY <1>1, <1>2, <1>3, <1>5, <1>6, <1>7, <1>8, <1>9, <1>10 DEF IInv

-----------------------------------------------------------------------------
\* A new record has no messages yet.
LEMMA CreateRecordIInv ==
  ASSUME IInv, NEW a \in Actions, CreateRecord(a)
  PROVE  IInv'
  <1> USE BoundsAssumption DEF IInv, CreateRecord, ghosts, record
  <1>1. TypeOK'
    BY DEF TypeOK, Status
  <1>2. IdleHoldsNothing'
    BY DEF IdleHoldsNothing, Busy
  <1>3. CopyCarriedOnce'
    BY DEF CopyCarriedOnce
  <1>4. \A b \in Actions : InFlight(b)' <=> InFlight(b)
    BY DEF InFlight, Carries
  <1>5. UnpublishedIsUntouched'
    BY <1>4 DEF UnpublishedIsUntouched, TypeOK
  <1>6. CopiesAreNumbered'
    BY DEF CopiesAreNumbered, Busy
  <1>7. RetriesCountRuns'
    BY DEF RetriesCountRuns, Busy
  <1>8. RetryBudget'
    BY DEF RetryBudget
  <1>9. NothingForgotten'
    BY <1>4 DEF NothingForgotten, TypeOK
  <1>10. FinalIsClosed'
    BY <1>4 DEF FinalIsClosed, Final, TypeOK
  <1> QED
    BY <1>1, <1>2, <1>3, <1>5, <1>6, <1>7, <1>8, <1>9, <1>10

\* The published message is the only one of its action.
LEMMA PublishTaskIInv ==
  ASSUME IInv, NEW a \in Actions, PublishTask(a)
  PROVE  IInv'
  <1> USE BoundsAssumption DEF IInv, PublishTask, ghosts, record
  <1>1. TypeOK'
    BY FirstMessageType DEF TypeOK
  <1>2. IdleHoldsNothing'
    BY DEF IdleHoldsNothing, Busy
  <1>3. CopyCarriedOnce'
    <2>1. \A m \in queue : m.act # a
      BY DEF UnpublishedIsUntouched, InFlight
    <2>2. \A w \in Workers : pc[w] # "idle" => job[w].act # a
      BY DEF UnpublishedIsUntouched, InFlight, Carries
    <2> QED
      BY <2>1, <2>2, FirstMessageType DEF CopyCarriedOnce, SameCopy
  <1>4. \A b \in Actions : InFlight(b)' <=> InFlight(b) \/ b = a
    BY FirstMessageType DEF InFlight, Carries
  <1>5. UnpublishedIsUntouched'
    BY <1>4 DEF UnpublishedIsUntouched, TypeOK
  <1>6. CopiesAreNumbered'
    BY FirstMessageType DEF CopiesAreNumbered, Busy, TypeOK, Copies
  <1>7. RetriesCountRuns'
    BY FirstMessageType DEF RetriesCountRuns, UnpublishedIsUntouched, Busy
  <1>8. RetryBudget'
    BY DEF RetryBudget
  <1>9. NothingForgotten'
    BY <1>4 DEF NothingForgotten, TypeOK
  <1>10. FinalIsClosed'
    <2>1. status[a] \notin Final
      BY DEF UnpublishedIsUntouched, Final
    <2> QED
      BY <1>4, <2>1 DEF FinalIsClosed
  <1> QED
    BY <1>1, <1>2, <1>3, <1>5, <1>6, <1>7,
       <1>8, <1>9, <1>10

\* An aborted request leaves at most the message it would have published.
LEMMA AbortRequestIInv ==
  ASSUME IInv, NEW a \in Actions, AbortRequest(a)
  PROVE  IInv'
  <1> USE BoundsAssumption DEF IInv, AbortRequest, ghosts, record
  <1>1. TypeOK'
    BY FirstMessageType DEF TypeOK
  <1>2. IdleHoldsNothing'
    BY DEF IdleHoldsNothing, Busy
  <1>3. CopyCarriedOnce'
    <2>1. \A m \in queue : m.act # a
      BY DEF UnpublishedIsUntouched, InFlight
    <2>2. \A w \in Workers : pc[w] # "idle" => job[w].act # a
      BY DEF UnpublishedIsUntouched, InFlight, Carries
    <2> QED
      BY <2>1, <2>2, FirstMessageType DEF CopyCarriedOnce, SameCopy
  <1>4. \A b \in Actions : b # a => (InFlight(b)' <=> InFlight(b))
    BY FirstMessageType DEF InFlight, Carries
  <1>5. UnpublishedIsUntouched'
    BY <1>4 DEF UnpublishedIsUntouched, TypeOK
  <1>6. CopiesAreNumbered'
    BY FirstMessageType DEF CopiesAreNumbered, Busy, TypeOK, Copies
  <1>7. RetriesCountRuns'
    BY FirstMessageType DEF RetriesCountRuns, UnpublishedIsUntouched, Busy
  <1>8. RetryBudget'
    BY DEF RetryBudget
  <1>9. NothingForgotten'
    BY <1>4 DEF NothingForgotten, TypeOK
  <1>10. FinalIsClosed'
    <2>1. status[a] \notin Final
      BY DEF UnpublishedIsUntouched, Final
    <2> QED
      BY <1>4, <2>1 DEF FinalIsClosed
  <1> QED
    BY <1>1, <1>2, <1>3, <1>5, <1>6, <1>7, <1>8, <1>9, <1>10

\* A cancel touches the record only.
LEMMA CancelIInv ==
  ASSUME IInv, NEW a \in Actions, Cancel(a)
  PROVE  IInv'
  <1> USE BoundsAssumption DEF IInv, Cancel, ghosts, record
  <1>1. TypeOK'
    BY DEF TypeOK, Status
  <1>2. IdleHoldsNothing'
    BY DEF IdleHoldsNothing, Busy
  <1>3. CopyCarriedOnce'
    BY DEF CopyCarriedOnce
  <1>4. \A b \in Actions : InFlight(b)' <=> InFlight(b)
    BY DEF InFlight, Carries
  <1>5. UnpublishedIsUntouched'
    BY <1>4 DEF UnpublishedIsUntouched, TypeOK
  <1>6. CopiesAreNumbered'
    BY DEF CopiesAreNumbered, Busy
  <1>7. RetriesCountRuns'
    BY DEF RetriesCountRuns, Busy
  <1>8. RetryBudget'
    BY DEF RetryBudget
  <1>9. NothingForgotten'
    BY <1>4 DEF NothingForgotten, TypeOK
  <1>10. FinalIsClosed'
    BY <1>4 DEF FinalIsClosed, Final, TypeOK
  <1> QED
    BY <1>1, <1>2, <1>3, <1>5, <1>6, <1>7,
       <1>8, <1>9, <1>10

-----------------------------------------------------------------------------
\* The new copy's number is used by no other message.
LEMMA RedeliverIInv ==
  ASSUME IInv, NEW m \in queue, Redeliver(m)
  PROVE  IInv'
  <1> DEFINE n == [m EXCEPT !.copy = copies[m.act] + 1]
  <1> USE BoundsAssumption DEF IInv, Redeliver, ghosts, record
  <1>0. /\ m \in Messages /\ m.act \in Actions /\ m.retries \in Nat
        /\ copies[m.act] + 1 \in Copies /\ copies[m.act] \in Nat
        /\ n \in Messages /\ n.act = m.act /\ n.copy = copies[m.act] + 1
        /\ n.retries = m.retries
    <2>1. m \in Messages /\ m.act \in Actions /\ m.retries \in Nat
      BY MessageFields DEF TypeOK
    <2>2. copies[m.act] + 1 \in Copies /\ copies[m.act] \in Nat
      BY <2>1 DEF TypeOK, Copies
    <2> QED
      BY <2>1, <2>2, CopyType
  <1>1. TypeOK'
    BY <1>0 DEF TypeOK
  <1>2. IdleHoldsNothing'
    BY DEF IdleHoldsNothing, Busy
  <1>3. CopyCarriedOnce'
    <2>1. \A k \in queue : ~ SameCopy(k, n)
      BY <1>0, MessageFields DEF CopiesAreNumbered, SameCopy, TypeOK
    <2>2. \A w \in Workers : pc[w] # "idle" => ~ SameCopy(n, job[w])
      BY <1>0, MessageFields, BusyHoldsMessage
         DEF CopiesAreNumbered, SameCopy, TypeOK, Busy
    <2> QED
      BY <2>1, <2>2 DEF CopyCarriedOnce, SameCopy
  <1>4. \A b \in Actions : InFlight(b)' <=> InFlight(b)
    BY <1>0 DEF InFlight, Carries
  <1>5. UnpublishedIsUntouched'
    BY <1>4 DEF UnpublishedIsUntouched
  <1>5a. \A b \in Actions : copies[b] \in Nat /\ copies'[b] \in Nat
                              /\ copies[b] <= copies'[b]
    BY <1>0 DEF TypeOK, Copies
  <1>5b. n.copy <= copies'[n.act]
    BY <1>0 DEF TypeOK
  <1>6. CopiesAreNumbered'
    <2>1. \A k \in queue' : k.copy <= copies'[k.act]
      <3>1. ASSUME NEW k \in queue PROVE k.copy <= copies'[k.act]
        <4>1. k.copy \in Nat /\ k.act \in Actions
          BY MessageFields DEF TypeOK
        <4> QED
          BY <1>5a, <4>1 DEF CopiesAreNumbered
      <3> QED
        BY <1>5b, <3>1
    <2>2. ASSUME NEW w \in Workers, Busy(w)
          PROVE  job[w].copy <= copies'[job[w].act]
      <3>1. job[w].copy \in Nat /\ job[w].act \in Actions
        BY <2>2, BusyHoldsMessage, MessageFields
      <3> QED
        BY <1>5a, <2>2, <3>1 DEF CopiesAreNumbered
    <2>3. ASSUME NEW b \in Actions, NEW c \in Copies, c > copies'[b]
          PROVE  runs[b][c] = 0
      <3>1. c \in Nat
        BY DEF Copies
      <3> QED
        BY <1>5a, <2>3, <3>1 DEF CopiesAreNumbered
    <2> QED
      BY <2>1, <2>2, <2>3 DEF CopiesAreNumbered, Busy
  <1>7. RetriesCountRuns'
    <2>1. runs[n.act][n.copy] = 0
      BY <1>0 DEF CopiesAreNumbered
    <2>2. runs[n.act][n.copy] <= n.retries
      BY <1>0, <2>1
    <2> QED
      BY <2>2 DEF RetriesCountRuns, Busy
  <1>8. RetryBudget'
    BY DEF RetryBudget
  <1>9. NothingForgotten'
    BY <1>4 DEF NothingForgotten
  <1>10. FinalIsClosed'
    BY <1>0, <1>4 DEF FinalIsClosed, TypeOK, Copies
  <1> QED
    BY <1>1, <1>2, <1>3, <1>5, <1>6, <1>7, <1>8, <1>9, <1>10

\* A worker takes over the message it acknowledges.
LEMMA ReceiveIInv ==
  ASSUME IInv, NEW w \in Workers, NEW m \in queue, Receive(w, m)
  PROVE  IInv'
  <1> USE BoundsAssumption, NoMessageAssumption DEF IInv, Receive, ghosts, record
  <1>0. m \in Messages /\ m.act \in Actions /\ m.retries \in Nat
    BY MessageFields DEF TypeOK
  <1>1. TypeOK'
    BY <1>0 DEF TypeOK
  <1>2. IdleHoldsNothing'
    BY <1>0 DEF IdleHoldsNothing, Busy, TypeOK
  <1>3. CopyCarriedOnce'
    BY <1>0 DEF CopyCarriedOnce, SameCopy, TypeOK
  <1>4. \A b \in Actions : InFlight(b)' <=> InFlight(b)
    BY <1>0 DEF InFlight, Carries, TypeOK
  <1>5. UnpublishedIsUntouched'
    BY <1>4 DEF UnpublishedIsUntouched
  <1>6. CopiesAreNumbered'
    BY <1>0 DEF CopiesAreNumbered, Busy, TypeOK
  <1>7. RetriesCountRuns'
    BY <1>0 DEF RetriesCountRuns, Busy, TypeOK
  <1>8. RetryBudget'
    BY DEF RetryBudget
  <1>9. NothingForgotten'
    BY <1>4 DEF NothingForgotten
  <1>10. FinalIsClosed'
    BY <1>4 DEF FinalIsClosed
  <1> QED
    BY <1>1, <1>2, <1>3, <1>5, <1>6, <1>7, <1>8, <1>9, <1>10

\* An execution that starts uses the run its message still has.
LEMMA StartIInv ==
  ASSUME IInv, NEW w \in Workers, Start(w)
  PROVE  IInv'
  <1> DEFINE m == job[w]
  <1> USE BoundsAssumption DEF IInv, Start, record
  <1>0. /\ m \in Messages /\ m.act \in Actions /\ m.copy \in Copies
        /\ m.retries \in 0..MaxRetries /\ Busy(w)
        /\ runs[m.act][m.copy] \in Nat /\ runs[m.act][m.copy] <= m.retries
        /\ m.copy <= copies[m.act]
    <2>1. Busy(w) /\ m \in Messages
      BY BusyHoldsMessage DEF Busy
    <2>2. m.act \in Actions /\ m.copy \in Copies /\ m.retries \in 0..MaxRetries
      BY <2>1, MessageFields
    <2> QED
      BY <2>1, <2>2 DEF TypeOK, RetriesCountRuns, CopiesAreNumbered
  <1>a. \A a \in Actions, c \in Copies :
          runs'[a][c] = IF a = m.act /\ c = m.copy
                        THEN runs[a][c] + 1 ELSE runs[a][c]
    BY <1>0 DEF TypeOK
  <1>1. TypeOK'
    <2>1. runs' \in [Actions -> [Copies -> Nat]]
      BY <1>0 DEF TypeOK
    <2> QED
      BY <1>0, <2>1 DEF TypeOK, Status
  <1>2. IdleHoldsNothing'
    BY DEF IdleHoldsNothing, Busy, TypeOK
  <1>3. CopyCarriedOnce'
    BY DEF CopyCarriedOnce, TypeOK
  <1>4. \A b \in Actions : InFlight(b)' <=> InFlight(b)
    BY DEF InFlight, Carries, TypeOK
  <1>b. InFlight(m.act)
    BY <1>0 DEF InFlight, Carries, Busy
  <1>5. UnpublishedIsUntouched'
    <2>1. 0 \in Copies
      BY DEF Copies
    <2> QED
      BY <1>0, <1>4, <1>a, <1>b, <2>1 DEF UnpublishedIsUntouched, TypeOK
  <1>6. CopiesAreNumbered'
    <2>1. m.copy \in Nat /\ copies[m.act] \in Nat
      BY <1>0 DEF TypeOK, Copies
    <2>2. \A a \in Actions : \A c \in Copies : (c > copies[a])' => runs'[a][c] = 0
      <3> SUFFICES ASSUME NEW a \in Actions, NEW c \in Copies, c > copies[a]
                   PROVE  runs'[a][c] = 0
        OBVIOUS
      <3>1. c \in Nat /\ copies[a] \in Nat
        BY DEF TypeOK, Copies
      <3>2. ~ (a = m.act /\ c = m.copy)
        BY <1>0, <2>1, <3>1
      <3> QED
        BY <1>a, <3>2 DEF CopiesAreNumbered
    <2> QED
      BY <2>2 DEF CopiesAreNumbered, Busy, TypeOK
  <1>7. RetriesCountRuns'
    <2>1. ASSUME NEW k \in queue PROVE runs'[k.act][k.copy] <= k.retries
      <3>1. k \in Messages
        BY DEF TypeOK
      <3>2. ~ (k.act = m.act /\ k.copy = m.copy)
        BY <1>0 DEF CopyCarriedOnce, SameCopy, Busy
      <3> QED
        BY <1>a, <3>1, <3>2, MessageFields DEF RetriesCountRuns
    <2>2. ASSUME NEW v \in Workers \ {w}, Busy(v)
          PROVE  runs'[job[v].act][job[v].copy] = runs[job[v].act][job[v].copy]
      <3>1. job[v] \in Messages
        BY <2>2, BusyHoldsMessage
      <3>2. ~ (job[v].act = m.act /\ job[v].copy = m.copy)
        BY <1>0, <2>2 DEF CopyCarriedOnce, SameCopy, Busy
      <3> QED
        BY <1>a, <3>1, <3>2, MessageFields
    <2>3. runs'[m.act][m.copy] <= m.retries + 1
      BY <1>0, <1>a
    <2>4. \A v \in Workers : Busy(v)' <=> Busy(v)
      BY DEF Busy, TypeOK
    <2>5. pc'[w] = "running" /\ \A v \in Workers \ {w} : pc'[v] = pc[v]
      BY DEF TypeOK
    <2> QED
      BY <2>1, <2>2, <2>3, <2>4, <2>5 DEF RetriesCountRuns
  <1>8. RetryBudget'
    BY <1>0, <1>a DEF RetryBudget, TypeOK
  <1>9. NothingForgotten'
    BY <1>0, <1>4, <1>b DEF NothingForgotten, TypeOK
  <1>10. FinalIsClosed'
    BY <1>0, <1>4 DEF FinalIsClosed, Final, TypeOK
  <1> QED
    BY <1>1, <1>2, <1>3, <1>5, <1>6, <1>7, <1>8, <1>9, <1>10

\* An execution that cannot start goes straight to on_failure.
LEMMA StartFailsIInv ==
  ASSUME IInv, NEW w \in Workers, StartFails(w)
  PROVE  IInv'
  <1> USE BoundsAssumption DEF IInv, StartFails, ghosts, record
  <1>0. /\ job[w] \in Messages /\ job[w].act \in Actions
        /\ job[w].retries \in 0..MaxRetries /\ InFlight(job[w].act)
        /\ runs[job[w].act][job[w].copy] \in Nat
    <2>1. job[w] \in Messages
      BY BusyHoldsMessage DEF Busy
    <2> QED
      BY <2>1, MessageFields DEF InFlight, Carries, TypeOK
  <1>1. TypeOK'
    BY <1>0 DEF TypeOK, Status
  <1>2. IdleHoldsNothing'
    BY DEF IdleHoldsNothing, Busy, TypeOK
  <1>3. CopyCarriedOnce'
    BY DEF CopyCarriedOnce, TypeOK
  <1>4. \A b \in Actions : InFlight(b)' <=> InFlight(b)
    BY DEF InFlight, Carries, TypeOK
  <1>5. UnpublishedIsUntouched'
    BY <1>0, <1>4 DEF UnpublishedIsUntouched, TypeOK
  <1>6. CopiesAreNumbered'
    BY DEF CopiesAreNumbered, Busy, TypeOK
  <1>7. RetriesCountRuns'
    BY <1>0 DEF RetriesCountRuns, Busy, TypeOK
  <1>8. RetryBudget'
    BY DEF RetryBudget
  <1>9. NothingForgotten'
    BY <1>0, <1>4 DEF NothingForgotten, TypeOK
  <1>10. FinalIsClosed'
    BY <1>0, <1>4 DEF FinalIsClosed, Final, TypeOK
  <1> QED
    BY <1>1, <1>2, <1>3, <1>5, <1>6, <1>7, <1>8, <1>9, <1>10

\* A body that returns stays with its worker until on_success.
LEMMA RunReturnsIInv ==
  ASSUME IInv, NEW w \in Workers, RunReturns(w)
  PROVE  IInv'
  <1> USE BoundsAssumption DEF IInv, RunReturns, ghosts, record
  <1>0. /\ job[w] \in Messages /\ job[w].act \in Actions
        /\ job[w].retries \in 0..MaxRetries /\ InFlight(job[w].act)
        /\ runs[job[w].act][job[w].copy] \in Nat
    <2>1. job[w] \in Messages
      BY BusyHoldsMessage DEF Busy
    <2> QED
      BY <2>1, MessageFields DEF InFlight, Carries, TypeOK
  <1>1. TypeOK'
    BY <1>0 DEF TypeOK
  <1>2. IdleHoldsNothing'
    BY DEF IdleHoldsNothing, Busy, TypeOK
  <1>3. CopyCarriedOnce'
    BY DEF CopyCarriedOnce, TypeOK
  <1>4. \A b \in Actions : InFlight(b)' <=> InFlight(b)
    BY DEF InFlight, Carries, TypeOK
  <1>5. UnpublishedIsUntouched'
    BY <1>0, <1>4 DEF UnpublishedIsUntouched, TypeOK
  <1>6. CopiesAreNumbered'
    BY DEF CopiesAreNumbered, Busy, TypeOK
  <1>7. RetriesCountRuns'
    BY <1>0 DEF RetriesCountRuns, Busy, TypeOK
  <1>8. RetryBudget'
    BY DEF RetryBudget
  <1>9. NothingForgotten'
    BY <1>0, <1>4 DEF NothingForgotten, TypeOK
  <1>10. FinalIsClosed'
    BY <1>0, <1>4 DEF FinalIsClosed, TypeOK
  <1> QED
    BY <1>1, <1>2, <1>3, <1>5, <1>6, <1>7, <1>8, <1>9, <1>10

\* A retry is on its way only while the budget has one.
LEMMA RunAsksForRetryIInv ==
  ASSUME IInv, NEW w \in Workers, RunAsksForRetry(w)
  PROVE  IInv'
  <1> USE BoundsAssumption DEF IInv, RunAsksForRetry, AfterRetryableError, ghosts, record
  <1>0. /\ job[w] \in Messages /\ job[w].act \in Actions
        /\ job[w].retries \in 0..MaxRetries /\ InFlight(job[w].act)
        /\ runs[job[w].act][job[w].copy] \in Nat
    <2>1. job[w] \in Messages
      BY BusyHoldsMessage DEF Busy
    <2> QED
      BY <2>1, MessageFields DEF InFlight, Carries, TypeOK
  <1>1. TypeOK'
    BY <1>0 DEF TypeOK
  <1>2. IdleHoldsNothing'
    BY DEF IdleHoldsNothing, Busy, TypeOK
  <1>3. CopyCarriedOnce'
    BY DEF CopyCarriedOnce, TypeOK
  <1>4. \A b \in Actions : InFlight(b)' <=> InFlight(b)
    BY DEF InFlight, Carries, TypeOK
  <1>5. UnpublishedIsUntouched'
    BY <1>0, <1>4 DEF UnpublishedIsUntouched, TypeOK
  <1>6. CopiesAreNumbered'
    BY DEF CopiesAreNumbered, Busy, TypeOK
  <1>7. RetriesCountRuns'
    BY <1>0 DEF RetriesCountRuns, Busy, TypeOK
  <1>8. RetryBudget'
    BY DEF RetryBudget
  <1>9. NothingForgotten'
    BY <1>0, <1>4 DEF NothingForgotten, TypeOK
  <1>10. FinalIsClosed'
    BY <1>0, <1>4 DEF FinalIsClosed, TypeOK
  <1> QED
    BY <1>1, <1>2, <1>3, <1>5, <1>6, <1>7, <1>8, <1>9, <1>10

\* A body that raises stays with its worker until on_failure.
LEMMA RunRaisesIInv ==
  ASSUME IInv, NEW w \in Workers, RunRaises(w)
  PROVE  IInv'
  <1> USE BoundsAssumption DEF IInv, RunRaises, ghosts, record
  <1>0. /\ job[w] \in Messages /\ job[w].act \in Actions
        /\ job[w].retries \in 0..MaxRetries /\ InFlight(job[w].act)
        /\ runs[job[w].act][job[w].copy] \in Nat
    <2>1. job[w] \in Messages
      BY BusyHoldsMessage DEF Busy
    <2> QED
      BY <2>1, MessageFields DEF InFlight, Carries, TypeOK
  <1>1. TypeOK'
    BY <1>0 DEF TypeOK
  <1>2. IdleHoldsNothing'
    BY DEF IdleHoldsNothing, Busy, TypeOK
  <1>3. CopyCarriedOnce'
    BY DEF CopyCarriedOnce, TypeOK
  <1>4. \A b \in Actions : InFlight(b)' <=> InFlight(b)
    BY DEF InFlight, Carries, TypeOK
  <1>5. UnpublishedIsUntouched'
    BY <1>0, <1>4 DEF UnpublishedIsUntouched, TypeOK
  <1>6. CopiesAreNumbered'
    BY DEF CopiesAreNumbered, Busy, TypeOK
  <1>7. RetriesCountRuns'
    BY <1>0 DEF RetriesCountRuns, Busy, TypeOK
  <1>8. RetryBudget'
    BY DEF RetryBudget
  <1>9. NothingForgotten'
    BY <1>0, <1>4 DEF NothingForgotten, TypeOK
  <1>10. FinalIsClosed'
    BY <1>0, <1>4 DEF FinalIsClosed, TypeOK
  <1> QED
    BY <1>1, <1>2, <1>3, <1>5, <1>6, <1>7, <1>8, <1>9, <1>10

-----------------------------------------------------------------------------
\* The retry's message replaces the execution that asked for it.
LEMMA PublishRetryIInv ==
  ASSUME IInv, NEW w \in Workers, PublishRetry(w)
  PROVE  IInv'
  <1> DEFINE n == [job[w] EXCEPT !.retries = @ + 1]
  <1> USE BoundsAssumption, NoMessageAssumption
      DEF IInv, PublishRetry, Release, ghosts, record
  <1>0. /\ job[w] \in Messages /\ job[w].act \in Actions /\ job[w].copy \in Copies
        /\ n \in Messages /\ n.act = job[w].act /\ n.copy = job[w].copy
        /\ n.retries = job[w].retries + 1 /\ Busy(w)
        /\ runs[n.act][n.copy] <= n.retries
        /\ n.copy <= copies[n.act]
    <2>1. Busy(w) /\ job[w] \in Messages
      BY BusyHoldsMessage DEF Busy
    <2>2. /\ job[w].retries < MaxRetries
          /\ runs[job[w].act][job[w].copy] <= job[w].retries + 1
          /\ job[w].copy <= copies[job[w].act]
      BY <2>1 DEF RetriesCountRuns, CopiesAreNumbered
    <2> QED
      BY <2>1, <2>2, MessageFields, RetryType
  <1>1. TypeOK'
    BY <1>0 DEF TypeOK
  <1>2. IdleHoldsNothing'
    BY DEF IdleHoldsNothing, Busy, TypeOK
  <1>3. CopyCarriedOnce'
    <2>1. \A k \in queue : ~ SameCopy(k, n) /\ ~ SameCopy(n, k)
      BY <1>0 DEF CopyCarriedOnce, SameCopy, Busy
    <2>2. \A v \in Workers \ {w} : Busy(v) => ~ SameCopy(n, job[v])
      BY <1>0 DEF CopyCarriedOnce, SameCopy, Busy
    <2>3. /\ pc'[w] = "idle"
          /\ \A v \in Workers \ {w} : pc'[v] = pc[v] /\ job'[v] = job[v]
      BY DEF TypeOK
    <2>4. queue' = queue \cup {n}
      OBVIOUS
    <2> QED
      BY <2>1, <2>2, <2>3, <2>4 DEF CopyCarriedOnce, Busy
  <1>4. \A b \in Actions : InFlight(b)' <=> InFlight(b)
    <2>1. /\ pc'[w] = "idle"
          /\ \A v \in Workers \ {w} : pc'[v] = pc[v] /\ job'[v] = job[v]
      BY DEF TypeOK
    <2>2. queue' = queue \cup {n}
      OBVIOUS
    <2> QED
      BY <1>0, <2>1, <2>2 DEF InFlight, Carries, Busy
  <1>5. UnpublishedIsUntouched'
    BY <1>4 DEF UnpublishedIsUntouched
  <1>6. CopiesAreNumbered'
    BY <1>0 DEF CopiesAreNumbered, Busy, TypeOK
  <1>7. RetriesCountRuns'
    BY <1>0 DEF RetriesCountRuns, Busy, TypeOK
  <1>8. RetryBudget'
    BY DEF RetryBudget
  <1>9. NothingForgotten'
    BY <1>4 DEF NothingForgotten
  <1>10. FinalIsClosed'
    BY <1>4 DEF FinalIsClosed
  <1> QED
    BY <1>1, <1>2, <1>3, <1>5, <1>6, <1>7, <1>8, <1>9, <1>10

\* The worker of an action SQS has not duplicated is all that is in flight of it.
LEMMA OnlyCarrier ==
  ASSUME IInv, NEW w \in Workers, Busy(w), copies[job[w].act] = 0
  PROVE  /\ \A m \in queue : m.act # job[w].act
         /\ \A v \in Workers \ {w} : ~ Carries(v, job[w].act)
  <1> USE DEF IInv
  <1>1. /\ job[w] \in Messages /\ job[w].act \in Actions /\ job[w].copy = 0
    BY BusyHoldsMessage, MessageFields DEF CopiesAreNumbered
  <1>2. \A m \in queue : m.act = job[w].act => m.copy = 0
    BY MessageFields DEF CopiesAreNumbered, TypeOK
  <1>3. \A v \in Workers : Carries(v, job[w].act) => job[v].copy = 0
    BY BusyHoldsMessage, MessageFields DEF CopiesAreNumbered, Carries, Busy
  <1> QED
    BY <1>1, <1>2, <1>3 DEF CopyCarriedOnce, SameCopy, Carries, Busy

\* on_success and on_failure end the execution of the worker, and with it the
\* action if it was not duplicated.
LEMMA FinishIInv ==
  ASSUME IInv, NEW w \in Workers, Finish(w)
  PROVE  IInv'
  <1> DEFINE a == job[w].act
  <1> USE BoundsAssumption, NoMessageAssumption
      DEF IInv, Finish, Release, ghosts, record
  <1>0. /\ job[w] \in Messages /\ a \in Actions /\ Busy(w) /\ InFlight(a)
    BY BusyHoldsMessage, MessageFields DEF Busy, InFlight, Carries
  <1>a. /\ pc'[w] = "idle"
        /\ \A v \in Workers \ {w} : pc'[v] = pc[v] /\ job'[v] = job[v]
        /\ status'[a] \in Final
        /\ \A b \in Actions \ {a} : status'[b] = status[b]
    BY <1>0 DEF TypeOK, Final
  <1>1. TypeOK'
    BY <1>0 DEF TypeOK, Status
  <1>2. IdleHoldsNothing'
    BY DEF IdleHoldsNothing, Busy, TypeOK
  <1>3. CopyCarriedOnce'
    BY <1>a DEF CopyCarriedOnce
  <1>4. \A b \in Actions : /\ InFlight(b)' => InFlight(b)
                           /\ b # a /\ InFlight(b) => InFlight(b)'
    BY <1>a DEF InFlight, Carries
  <1>5. UnpublishedIsUntouched'
    BY <1>0, <1>4, <1>a DEF UnpublishedIsUntouched, Final
  <1>6. CopiesAreNumbered'
    BY <1>a DEF CopiesAreNumbered, Busy
  <1>7. RetriesCountRuns'
    BY <1>a DEF RetriesCountRuns, Busy
  <1>8. RetryBudget'
    BY DEF RetryBudget
  <1>9. NothingForgotten'
    BY <1>4, <1>a DEF NothingForgotten, Final
  <1>10. FinalIsClosed'
    <2>1. ASSUME NEW b \in Actions, b = a, copies[b] = 0
          PROVE  ~ InFlight(b)'
      <3>1. /\ \A m \in queue : m.act # b
            /\ \A v \in Workers \ {w} : ~ Carries(v, b)
        BY <1>0, <2>1, OnlyCarrier
      <3> QED
        BY <1>a, <3>1 DEF InFlight, Carries
    <2>2. ASSUME NEW b \in Actions, b # a, copies[b] = 0, status'[b] \in Final
          PROVE  ~ InFlight(b)'
      BY <1>4, <1>a, <2>2 DEF FinalIsClosed
    <2> QED
      BY <2>1, <2>2 DEF FinalIsClosed, Final
  <1> QED
    BY <1>1, <1>2, <1>3, <1>5, <1>6, <1>7, <1>8, <1>9, <1>10

\* A dropped execution is on record as dropped.
LEMMA DropIInv ==
  ASSUME IInv, NEW w \in Workers, Drop(w)
  PROVE  IInv'
  <1> DEFINE a == job[w].act
  <1> USE BoundsAssumption, NoMessageAssumption
      DEF IInv, Drop, Release, ghosts, record
  <1>0. /\ job[w] \in Messages /\ a \in Actions /\ Busy(w) /\ InFlight(a)
    BY BusyHoldsMessage, MessageFields DEF Busy, InFlight, Carries
  <1>a. /\ pc'[w] = "idle"
        /\ \A v \in Workers \ {w} : pc'[v] = pc[v] /\ job'[v] = job[v]
    BY <1>0 DEF TypeOK
  <1>1. TypeOK'
    BY <1>0 DEF TypeOK
  <1>2. IdleHoldsNothing'
    BY DEF IdleHoldsNothing, Busy, TypeOK
  <1>3. CopyCarriedOnce'
    BY <1>a DEF CopyCarriedOnce
  <1>4. \A b \in Actions : /\ InFlight(b)' => InFlight(b)
                           /\ b # a /\ InFlight(b) => InFlight(b)'
    BY <1>a DEF InFlight, Carries
  <1>5. UnpublishedIsUntouched'
    BY <1>4 DEF UnpublishedIsUntouched
  <1>6. CopiesAreNumbered'
    BY <1>a DEF CopiesAreNumbered, Busy
  <1>7. RetriesCountRuns'
    BY <1>a DEF RetriesCountRuns, Busy
  <1>8. RetryBudget'
    BY DEF RetryBudget
  <1>9. NothingForgotten'
    BY <1>4 DEF NothingForgotten
  <1>10. FinalIsClosed'
    BY <1>4 DEF FinalIsClosed
  <1> QED
    BY <1>1, <1>2, <1>3, <1>5, <1>6, <1>7, <1>8, <1>9, <1>10

-----------------------------------------------------------------------------
\* Every step of the system preserves the invariant.
LEMMA NextIInv == IInv /\ [Next]_vars => IInv'
  <1> SUFFICES ASSUME IInv, [Next]_vars PROVE IInv'
    OBVIOUS
  <1>1. ASSUME NEW a \in Actions,
               CreateRecord(a) \/ PublishTask(a) \/ AbortRequest(a) \/ Cancel(a)
        PROVE  IInv'
    BY <1>1, CreateRecordIInv, PublishTaskIInv, AbortRequestIInv, CancelIInv
  <1>2. ASSUME NEW m \in queue, Redeliver(m)
        PROVE  IInv'
    BY <1>2, RedeliverIInv
  <1>3. ASSUME NEW w \in Workers, Take(w)
        PROVE  IInv'
    BY <1>3, ReceiveIInv DEF Take
  <1>4. ASSUME NEW w \in Workers, Execute(w)
        PROVE  IInv'
    BY <1>4, StartIInv, StartFailsIInv, RunReturnsIInv, RunAsksForRetryIInv,
       RunRaisesIInv, PublishRetryIInv, FinishIInv, DropIInv DEF Execute
  <1>5. CASE UNCHANGED vars
    <2> USE <1>5 DEF vars, IInv
    <2>1. \A b \in Actions : InFlight(b)' <=> InFlight(b)
      BY DEF InFlight, Carries
    <2>2. TypeOK' /\ IdleHoldsNothing' /\ CopyCarriedOnce'
      BY DEF TypeOK, IdleHoldsNothing, CopyCarriedOnce, Busy
    <2>3. UnpublishedIsUntouched' /\ NothingForgotten' /\ FinalIsClosed'
      BY <2>1 DEF UnpublishedIsUntouched, NothingForgotten, FinalIsClosed
    <2>4. CopiesAreNumbered' /\ RetriesCountRuns' /\ RetryBudget'
      BY DEF CopiesAreNumbered, RetriesCountRuns, RetryBudget, Busy
    <2> QED
      BY <2>2, <2>3, <2>4
  <1> QED
    BY <1>1, <1>2, <1>3, <1>4, <1>5 DEF Next

\* IInv is an invariant of the system.
THEOREM Invariance == Spec => []IInv
  BY InitIInv, NextIInv, PTL DEF Spec

\* Every variable always has its type.
THEOREM TypeCorrectness == Spec => []TypeOK
  <1>1. IInv => TypeOK
    BY DEF IInv
  <1> QED
    BY <1>1, Invariance, PTL

\* A copy of a task is never in two places, so that two workers never execute
\* the same copy (celery/app.py: early acknowledgement, retry by republishing).
THEOREM SingleCarrier == Spec => []CopyCarriedOnce
  <1>1. IInv => CopyCarriedOnce
    BY DEF IInv
  <1> QED
    BY <1>1, Invariance, PTL

\* An accepted action that is PENDING or RUNNING is in flight, unless a worker
\* crash or a failed write dropped it.
THEOREM AcceptedIsNotForgotten == Spec => []NothingForgotten
  <1>1. IInv => NothingForgotten
    BY DEF IInv
  <1> QED
    BY <1>1, Invariance, PTL

\* No copy of a task runs more than max_retries + 1 times.
THEOREM RunsAreBounded == Spec => []RetryBudget
  <1>1. IInv => RetryBudget
    BY DEF IInv
  <1> QED
    BY <1>1, Invariance, PTL

\* The record of an action that was not redelivered leaves SUCCESS and FAILURE
\* only for CANCELLED: set_status and set_final_state write without a condition,
\* but nothing is in flight any more that could call them.
THEOREM FinalStatesAreFinal == Spec => FinalIsFinal
  <1> DEFINE Kept == \A a \in Actions :
               (copies[a] = 0 /\ status[a] \in Final)
                 => status'[a] \in {status[a], "CANCELLED"}
  <1>1. IInv /\ [Next]_vars => [Kept]_vars
    <2> SUFFICES ASSUME IInv, [Next]_vars, NEW a \in Actions,
                        copies[a] = 0, status[a] \in Final
                 PROVE  status'[a] \in {status[a], "CANCELLED"}
      OBVIOUS
    <2>1. ~ InFlight(a)
      BY DEF IInv, FinalIsClosed
    <2>2. \A w \in Workers : pc[w] # "idle" => job[w].act # a
      BY <2>1 DEF InFlight, Carries
    <2>3. request[a] # "none"
      BY DEF IInv, UnpublishedIsUntouched, Final
    <2>4. CASE \E b \in Actions : CreateRecord(b) \/ Cancel(b)
      BY <2>3, <2>4 DEF CreateRecord, Cancel, IInv, TypeOK
    <2>5. CASE \E w \in Workers : Execute(w)
      BY <2>2, <2>5 DEF Execute, Start, StartFails, RunReturns, RunAsksForRetry,
         RunRaises, PublishRetry, Finish, Drop, Release, record, ghosts, IInv, TypeOK
    <2>6. CASE UNCHANGED status
      BY <2>6
    <2> QED
      BY <2>4, <2>5, <2>6
         DEF Next, PublishTask, AbortRequest, Redeliver, Take, Receive, record, vars
  <1> QED
    BY <1>1, Invariance, PTL DEF Spec, FinalIsFinal
-----------------------------------------------------------------------------
\* A busy worker's action is an action.
LEMMA JobAction ==
  ASSUME IInv, NEW w \in Workers, pc[w] # "idle"
  PROVE  job[w].act \in Actions
  BY BusyHoldsMessage, MessageFields DEF IInv, Busy

\* A record becomes SUCCESS only when the worker that executed it says so.
LEMMA SuccessIsWritten ==
  ASSUME IInv, [Next]_vars, NEW a \in Actions, status'[a] = "SUCCESS"
  PROVE  \/ status[a] = "SUCCESS"
         \/ \E w \in Workers : pc[w] = "succeeded" /\ job[w].act = a
<1> USE DEF IInv, TypeOK, record
<1>1. ASSUME NEW b \in Actions,
             CreateRecord(b) \/ PublishTask(b) \/ AbortRequest(b) \/ Cancel(b)
      PROVE  status[a] = "SUCCESS"
  BY <1>1 DEF CreateRecord, PublishTask, AbortRequest, Cancel
<1>2. ASSUME NEW m \in queue, Redeliver(m) PROVE status[a] = "SUCCESS"
  BY <1>2 DEF Redeliver
<1>3. ASSUME NEW w \in Workers, Take(w) PROVE status[a] = "SUCCESS"
  BY <1>3 DEF Take, Receive
<1>4. ASSUME NEW w \in Workers, Execute(w)
      PROVE  \/ status[a] = "SUCCESS"
             \/ pc[w] = "succeeded" /\ job[w].act = a
  BY <1>4 DEF Execute, Start, StartFails, RunReturns, RunAsksForRetry, RunRaises,
              PublishRetry, Finish, Drop
<1>5. CASE UNCHANGED vars
  BY <1>5 DEF vars
<1> QED
  BY <1>1, <1>2, <1>3, <1>4, <1>5 DEF Next

-----------------------------------------------------------------------------
\* Work is done once, whatever the step.
LEMMA DoneOnceStep ==
  ASSUME IInv, IInv', DoneOnce, [Next]_vars
  PROVE  DoneOnce'
<1> USE DEF DoneOnce
<1>0. TypeOK /\ TypeOK'
  BY DEF IInv
<1>1. ASSUME NEW a \in Actions,
             CreateRecord(a) \/ PublishTask(a) \/ AbortRequest(a) \/ Cancel(a)
      PROVE  DoneOnce'
  BY <1>0, <1>1, FirstMessageType
     DEF CreateRecord, PublishTask, AbortRequest, Cancel, record, ghosts, Carries, TypeOK
<1>2. ASSUME NEW m \in queue, Redeliver(m) PROVE DoneOnce'
  <2>1. /\ m.act \in Actions /\ copies'[m.act] # 0
        /\ \A a \in Actions \ {m.act} : copies'[a] = copies[a]
        /\ \A k \in queue' : k \in queue \/ k.act = m.act
    <3>1. m \in Messages /\ m.act \in Actions
      BY <1>0, MessageFields DEF TypeOK
    <3>2. copies[m.act] + 1 \in Copies /\ copies[m.act] + 1 # 0
      BY <1>0, <1>2, <3>1, BoundsAssumption DEF Redeliver, TypeOK, Copies
    <3>3. [m EXCEPT !.copy = copies[m.act] + 1].act = m.act
      BY <3>1, <3>2, CopyType
    <3> QED
      BY <1>0, <1>2, <3>1, <3>2, <3>3 DEF Redeliver, TypeOK
  <2> QED
    BY <1>0, <1>2, <2>1 DEF Redeliver, record, ghosts, Carries, TypeOK
<1>3. ASSUME NEW w \in Workers, NEW m \in queue, Receive(w, m) PROVE DoneOnce'
  BY <1>0, <1>3 DEF Receive, record, ghosts, Carries, TypeOK
<1>4. ASSUME NEW w \in Workers, Execute(w) PROVE DoneOnce'
  <2>1. CASE Start(w) \/ StartFails(w) \/ RunAsksForRetry(w) \/ RunRaises(w)
    <3>1. /\ pc[w] \in {"received", "running"} /\ pc'[w] \notin {"idle", "succeeded"}
          /\ \A v \in Workers \ {w} : pc'[v] = pc[v]
          /\ UNCHANGED <<request, queue, job, copies, performed>>
      BY <1>0, <2>1 DEF Start, StartFails, RunAsksForRetry, RunRaises,
                        AfterRetryableError, record, ghosts, TypeOK
    <3> QED
      BY <3>1 DEF Carries
  <2>2. CASE RunReturns(w)
    <3> DEFINE a == job[w].act
    <3>1. /\ a \in Actions /\ pc[w] = "running" /\ pc'[w] = "succeeded"
          /\ \A v \in Workers \ {w} : pc'[v] = pc[v]
          /\ UNCHANGED <<request, queue, job, copies>>
          /\ performed' = performed \cup {a}
      BY <1>0, <2>2, JobAction DEF RunReturns, record, ghosts, TypeOK
    <3>2. request[a] \notin {"none", "created"}
      BY <3>1 DEF IInv, UnpublishedIsUntouched, InFlight, Carries
    <3>3. copies[a] = 0 => /\ \A m \in queue : m.act # a
                           /\ \A v \in Workers \ {w} : ~ Carries(v, a)
      BY <3>1, OnlyCarrier DEF Busy
    <3> QED
      BY <3>1, <3>2, <3>3 DEF Carries
  <2>3. CASE PublishRetry(w)
    <3>1. /\ job[w] \in Messages /\ job[w].retries < MaxRetries
      BY <2>3, BusyHoldsMessage DEF PublishRetry, IInv, Busy, RetriesCountRuns
    <3>2. \A m \in queue' : m \in queue \/ m.act = job[w].act
      BY <2>3, <3>1, RetryType DEF PublishRetry
    <3>3. /\ pc[w] = "retrying" /\ pc'[w] = "idle"
          /\ \A v \in Workers \ {w} : pc'[v] = pc[v] /\ job'[v] = job[v]
          /\ UNCHANGED <<request, copies, performed>>
      BY <1>0, <2>3 DEF PublishRetry, Release, record, ghosts, TypeOK
    <3> QED
      BY <3>2, <3>3 DEF Carries
  <2>4. CASE Finish(w) \/ Drop(w)
    <3>1. /\ pc'[w] = "idle"
          /\ \A v \in Workers \ {w} : pc'[v] = pc[v] /\ job'[v] = job[v]
          /\ UNCHANGED <<request, queue, copies, performed>>
      BY <1>0, <2>4 DEF Finish, Drop, Release, record, ghosts, TypeOK
    <3> QED
      BY <3>1 DEF Carries
  <2> QED
    BY <1>4, <2>1, <2>2, <2>3, <2>4 DEF Execute
<1>5. CASE UNCHANGED vars
  BY <1>5 DEF vars, Carries
<1> QED
  BY <1>1, <1>2, <1>3, <1>4, <1>5 DEF Next, Take

\* An action nothing works on any more was not worked on, but for the step that
\* ends its last execution: until then it keeps its record.
LEMMA HonestStep ==
  ASSUME IInv, IInv', DoneOnce, OutcomeIsHonest, [Next]_vars
  PROVE  OutcomeIsHonest'
<1> SUFFICES ASSUME NEW a \in Actions
             PROVE  /\ status'[a] = "SUCCESS" => a \in performed'
                    /\ (status'[a] = "FAILURE" /\ copies'[a] = 0) => a \notin performed'
                    /\ (/\ request'[a] = "accepted" /\ ~ InFlight(a)'
                        /\ copies'[a] = 0 /\ a \notin dropped' /\ cancels' = 0)
                       => status'[a] = (IF a \in performed' THEN "SUCCESS" ELSE "FAILURE")
  BY DEF OutcomeIsHonest
<1>0. TypeOK /\ TypeOK'
  BY DEF IInv
<1>1. status'[a] = "SUCCESS" => a \in performed'
  <2>1. performed \subseteq performed'
    BY DEF Next, CreateRecord, PublishTask, AbortRequest, Cancel, Redeliver, Take,
           Receive, Execute, Start, StartFails, RunReturns, RunAsksForRetry, RunRaises,
           PublishRetry, Finish, Drop, ghosts, vars
  <2> QED
    BY <2>1, SuccessIsWritten DEF OutcomeIsHonest, DoneOnce
<1>2. ASSUME request'[a] = "accepted", ~ InFlight(a)', copies'[a] = 0,
             a \notin dropped', cancels' = 0
      PROVE  status'[a] = (IF a \in performed' THEN "SUCCESS" ELSE "FAILURE")
  <2> DEFINE Ended == status'[a] = (IF a \in performed' THEN "SUCCESS" ELSE "FAILURE")
             Quiet == /\ request[a] = "accepted" /\ ~ InFlight(a) /\ copies[a] = 0
                      /\ a \notin dropped /\ cancels = 0
                      /\ status'[a] = status[a]
                      /\ a \in performed' <=> a \in performed
  <2>0. Quiet => Ended
    BY DEF OutcomeIsHonest
  <2>1. ASSUME NEW b \in Actions,
               CreateRecord(b) \/ PublishTask(b) \/ AbortRequest(b) \/ Cancel(b)
        PROVE  Ended
    <3>1. CASE Cancel(b)
      BY <1>0, <1>2, <3>1 DEF Cancel, TypeOK
    <3>2. CASE PublishTask(b) /\ a = b
      BY <1>2, <3>2, FirstMessageType DEF PublishTask, InFlight
    <3>3. CASE (CreateRecord(b) \/ AbortRequest(b)) /\ a = b
      BY <1>0, <1>2, <3>3 DEF CreateRecord, AbortRequest, TypeOK
    <3>4. CASE ~ Cancel(b) /\ a # b
      <4>1. ~ InFlight(a)
        BY <1>2, <2>1, <3>4 DEF CreateRecord, PublishTask, AbortRequest, InFlight, Carries
      <4> QED
        BY <1>0, <1>2, <2>0, <2>1, <3>4, <4>1
           DEF CreateRecord, PublishTask, AbortRequest, ghosts, record, TypeOK
    <3> QED
      BY <2>1, <3>1, <3>2, <3>3, <3>4
  <2>2. ASSUME NEW m \in queue, Redeliver(m) PROVE Ended
    <3>1. m.act # a
      BY <1>0, <1>2, <2>2, MessageFields DEF Redeliver, TypeOK, Copies
    <3>2. ~ InFlight(a)
      BY <1>2, <2>2 DEF Redeliver, InFlight, Carries
    <3> QED
      BY <1>0, <1>2, <2>0, <2>2, <3>1, <3>2 DEF Redeliver, ghosts, record, TypeOK
  <2>3. ASSUME NEW w \in Workers, NEW m \in queue, Receive(w, m) PROVE Ended
    <3>1. ~ InFlight(a)
      BY <1>0, <1>2, <2>3 DEF Receive, InFlight, Carries, TypeOK
    <3> QED
      BY <1>2, <2>0, <2>3, <3>1 DEF Receive, ghosts, record
  <2>4. ASSUME NEW w \in Workers, Execute(w) PROVE Ended
    <3>1. job[w].act \in Actions /\ Busy(w)
      BY <2>4, JobAction DEF Execute, Start, StartFails, RunReturns, RunAsksForRetry,
         RunRaises, PublishRetry, Finish, Drop, Busy
    <3>2. CASE job[w].act # a
      <4>1. ~ InFlight(a)
        BY <1>0, <1>2, <2>4, <3>1, <3>2
           DEF Execute, Start, StartFails, RunReturns, RunAsksForRetry, RunRaises,
               PublishRetry, Finish, Drop, Release, InFlight, Carries, TypeOK, Busy
      <4> QED
        BY <1>0, <1>2, <2>0, <2>4, <3>1, <3>2, <4>1
           DEF Execute, Start, StartFails, RunReturns, RunAsksForRetry, RunRaises,
               PublishRetry, Finish, Drop, ghosts, record, TypeOK
    <3>3. CASE job[w].act = a /\ Finish(w)
      <4>1. copies[a] = 0 /\ Carries(w, a)
        BY <1>2, <3>1, <3>3 DEF Finish, Carries, Busy
      <4>2. a \in performed <=> pc[w] = "succeeded"
        BY <3>3, <4>1 DEF DoneOnce
      <4> QED
        BY <1>0, <3>3, <4>2 DEF Finish, ghosts, TypeOK
    <3>4. CASE job[w].act = a /\ Drop(w)
      BY <1>2, <3>4 DEF Drop
    <3>5. CASE job[w].act = a /\ PublishRetry(w)
      <4>1. job[w] \in Messages /\ job[w].retries < MaxRetries
        BY <3>1, <3>5, BusyHoldsMessage DEF PublishRetry, IInv, RetriesCountRuns
      <4> QED
        BY <1>2, <3>5, <4>1, RetryType DEF PublishRetry, InFlight
    <3>6. CASE job[w].act = a /\ ~ Finish(w) /\ ~ Drop(w) /\ ~ PublishRetry(w)
      <4>1. pc'[w] # "idle" /\ job'[w].act = a
        BY <1>0, <2>4, <3>6
           DEF Execute, Start, StartFails, RunReturns, RunAsksForRetry, RunRaises,
               AfterRetryableError, TypeOK
      <4> QED
        BY <1>2, <4>1 DEF InFlight, Carries
    <3> QED
      BY <3>2, <3>3, <3>4, <3>5, <3>6
  <2>5. CASE UNCHANGED vars
    <3>1. ~ InFlight(a)
      BY <1>2, <2>5 DEF vars, InFlight, Carries
    <3> QED
      BY <1>2, <2>0, <2>5, <3>1 DEF vars
  <2> QED
    BY <2>1, <2>2, <2>3, <2>4, <2>5 DEF Next, Take
<1>3. ASSUME status'[a] = "FAILURE", copies'[a] = 0
      PROVE  a \notin performed'
  <2> DEFINE Undone == a \notin performed'
  <2>0. ASSUME status[a] = "FAILURE", copies[a] = 0
        PROVE  ~ InFlight(a) /\ a \notin performed
    BY <2>0 DEF IInv, FinalIsClosed, Final, OutcomeIsHonest
  <2>1. ASSUME NEW b \in Actions,
               CreateRecord(b) \/ PublishTask(b) \/ AbortRequest(b) \/ Cancel(b)
        PROVE  Undone
    BY <1>0, <1>3, <2>0, <2>1
       DEF CreateRecord, PublishTask, AbortRequest, Cancel, ghosts, record, TypeOK
  <2>2. ASSUME NEW m \in queue, Redeliver(m) PROVE Undone
    <3>1. m.act # a /\ m.act \in Actions
      BY <1>0, <1>3, <2>2, MessageFields DEF Redeliver, TypeOK, Copies
    <3> QED
      BY <1>0, <1>3, <2>0, <2>2, <3>1 DEF Redeliver, ghosts, record, TypeOK
  <2>3. ASSUME NEW w \in Workers, Take(w) PROVE Undone
    BY <1>3, <2>0, <2>3 DEF Take, Receive, ghosts, record
  <2>4. ASSUME NEW w \in Workers, Execute(w) PROVE Undone
    <3>1. CASE RunReturns(w)
      <4>1. status[a] = "FAILURE" /\ copies[a] = 0
        BY <1>3, <3>1 DEF RunReturns, record
      <4>2. job[w].act # a
        BY <2>0, <3>1, <4>1 DEF RunReturns, InFlight, Carries
      <4> QED
        BY <2>0, <3>1, <4>1, <4>2 DEF RunReturns
    <3>2. CASE Finish(w) /\ job[w].act = a /\ pc[w] = "failed"
      BY <1>3, <3>2 DEF Finish, ghosts, DoneOnce, Carries
    <3>3. CASE Finish(w) /\ (job[w].act # a \/ pc[w] = "succeeded")
      BY <1>0, <1>3, <2>0, <3>3 DEF Finish, ghosts, TypeOK
    <3>4. CASE \/ Start(w) \/ StartFails(w) \/ RunAsksForRetry(w) \/ RunRaises(w)
               \/ PublishRetry(w) \/ Drop(w)
      BY <1>0, <1>3, <2>0, <3>4
         DEF Start, StartFails, RunAsksForRetry, RunRaises, PublishRetry, Drop, ghosts,
             record, TypeOK
    <3> QED
      BY <2>4, <3>1, <3>2, <3>3, <3>4 DEF Execute, Finish
  <2>5. CASE UNCHANGED vars
    BY <1>3, <2>0, <2>5 DEF vars
  <2> QED
    BY <2>1, <2>2, <2>3, <2>4, <2>5 DEF Next
<1> QED
  BY <1>1, <1>2, <1>3

\* Work is done once, and reported as it is.
LEMMA HonestInvariance == Spec => [](DoneOnce /\ OutcomeIsHonest)
<1>1. Init => DoneOnce /\ OutcomeIsHonest
  BY DEF Init, DoneOnce, OutcomeIsHonest
<1>2. /\ IInv /\ IInv' /\ DoneOnce /\ OutcomeIsHonest /\ [Next]_vars
      => DoneOnce' /\ OutcomeIsHonest'
  BY DoneOnceStep, HonestStep
<1> QED
  BY <1>1, <1>2, Invariance, PTL DEF Spec

\* SUCCESS is reported for work that was done only, FAILURE for work that was not
\* unless SQS has duplicated the action, and an action that has ended undisturbed
\* has the outcome of its body: for any number of actions, workers and retries,
\* though no write of a status is conditional.
THEOREM ReportsAreHonest == Spec => []OutcomeIsHonest
  BY HonestInvariance, PTL

-----------------------------------------------------------------------------
(***************************************************************************)
(* The caller's view, ActionRecord: what the record shows of the queue and *)
(* the workers underneath.                                                 *)
(***************************************************************************)
Open == {a \in Actions : request[a] = "created" \/ InFlight(a)}

\* An execution that has started is on record: nothing says PENDING any more.
StartedIsOnRecord ==
  \A w \in Workers :
    pc[w] \in {"running", "retrying", "succeeded"} => status[job[w].act] # "PENDING"

\* Only a POST writes PENDING, and nothing of its action is executed then.
LEMMA StartedStep ==
  ASSUME IInv, StartedIsOnRecord, [Next]_vars
  PROVE  StartedIsOnRecord'
<1> USE DEF StartedIsOnRecord
<1>0. TypeOK
  BY DEF IInv
<1>j. \A w \in Workers : Busy(w) => job[w].act \in Actions
  BY JobAction DEF Busy
<1>1. ASSUME NEW a \in Actions, CreateRecord(a) PROVE StartedIsOnRecord'
  <2>1. \A w \in Workers : pc[w] # "idle" => job[w].act # a
    BY <1>1 DEF CreateRecord, IInv, UnpublishedIsUntouched, InFlight, Carries
  <2> QED
    BY <1>0, <1>1, <1>j, <2>1 DEF CreateRecord, Busy, TypeOK
<1>2. ASSUME NEW a \in Actions, PublishTask(a) \/ AbortRequest(a) \/ Cancel(a)
      PROVE  StartedIsOnRecord'
  BY <1>0, <1>2, <1>j DEF PublishTask, AbortRequest, Cancel, record, Busy, TypeOK
<1>3. ASSUME NEW m \in queue, Redeliver(m) PROVE StartedIsOnRecord'
  BY <1>3 DEF Redeliver, record
<1>4. ASSUME NEW w \in Workers, Take(w) PROVE StartedIsOnRecord'
  BY <1>0, <1>4 DEF Take, Receive, record, TypeOK
<1>5. ASSUME NEW w \in Workers, Execute(w) PROVE StartedIsOnRecord'
  BY <1>0, <1>5, <1>j
     DEF Execute, Start, StartFails, RunReturns, RunAsksForRetry, RunRaises,
         AfterRetryableError, PublishRetry, Finish, Drop, Release, record, Busy, TypeOK
<1>6. CASE UNCHANGED vars
  BY <1>6 DEF vars
<1> QED
  BY <1>1, <1>2, <1>3, <1>4, <1>5, <1>6 DEF Next

\* When a worker lets go of an action, SQS must have duplicated it for anything
\* else to work on it.
LEMMA LetGo ==
  ASSUME IInv, NEW w \in Workers, Busy(w), Release(w), UNCHANGED <<queue, request>>,
         NEW a \in Actions, job[w].act = a
  PROVE  \/ Open' = Open \ {a}
         \/ Open' = Open /\ MaxDuplicates > 0
<1>0. TypeOK
  BY DEF IInv
<1>1. /\ pc'[w] = "idle"
      /\ \A v \in Workers \ {w} : pc'[v] = pc[v] /\ job'[v] = job[v]
  BY <1>0 DEF Release, TypeOK
<1>2. InFlight(a)
  BY DEF InFlight, Carries, Busy
<1>3. request[a] # "created"
  BY <1>2 DEF IInv, UnpublishedIsUntouched
<1>4. \A b \in Actions \ {a} : InFlight(b)' <=> InFlight(b)
  BY <1>1 DEF InFlight, Carries
<1>5. CASE InFlight(a)'
  <2>1. copies[a] # 0
    BY <1>1, <1>5, OnlyCarrier DEF InFlight, Carries
  <2>2. MaxDuplicates > 0
    BY <1>0, <2>1, BoundsAssumption DEF TypeOK, Copies
  <2> QED
    BY <1>2, <1>4, <1>5, <2>2 DEF Open
<1>6. CASE ~ InFlight(a)'
  BY <1>3, <1>4, <1>6 DEF Open
<1> QED
  BY <1>5, <1>6

\* Every step is one of the record's, or the caller does not see it.
LEMMA StepIsRecordStep ==
  ASSUME IInv, StartedIsOnRecord, [Next]_vars
  PROVE  [Record!Next]_(Record!vars)
<1> DEFINE Seen == [Record!Next]_(Record!vars)
<1>0. TypeOK
  BY DEF IInv
<1>s. ASSUME status' = status, Open' = Open PROVE Seen
  BY <1>s DEF Record!vars, Open
<1>1. ASSUME NEW a \in Actions, CreateRecord(a) PROVE Seen
  <2>1. status[a] = "NONE" /\ ~ InFlight(a)
    BY <1>1 DEF CreateRecord, IInv, UnpublishedIsUntouched
  <2>2. Open' = Open \cup {a}
    BY <1>0, <1>1 DEF CreateRecord, Open, InFlight, Carries, TypeOK
  <2> QED
    BY <1>1, <2>1, <2>2 DEF CreateRecord, Open, Record!Next, Record!Submit
<1>2. ASSUME NEW a \in Actions, PublishTask(a) \/ AbortRequest(a) PROVE Seen
  <2>1. /\ status' = status /\ a \in Open /\ request'[a] # "created"
        /\ \A b \in Actions \ {a} : request'[b] = request[b]
        /\ UNCHANGED <<pc, job>>
    BY <1>0, <1>2 DEF PublishTask, AbortRequest, Open, record, TypeOK
  <2>2. CASE queue' = queue \cup {FirstMessage(a)}
    <3>1. Open' = Open
      BY <2>1, <2>2, FirstMessageType DEF Open, InFlight, Carries
    <3> QED
      BY <1>s, <2>1, <3>1
  <2>3. CASE queue' = queue
    <3>1. ~ InFlight(a)
      BY <1>2 DEF PublishTask, AbortRequest, IInv, UnpublishedIsUntouched
    <3>2. Open' = Open \ {a}
      BY <2>1, <2>3, <3>1 DEF Open, InFlight, Carries
    <3> QED
      BY <2>1, <3>2 DEF Open, Record!Next, Record!Close, Record!Abandon
  <2> QED
    BY <1>2, <2>2, <2>3 DEF PublishTask, AbortRequest
<1>3. ASSUME NEW a \in Actions, Cancel(a) PROVE Seen
  <2>1. Open' = Open
    BY <1>3 DEF Cancel, Open, InFlight, Carries
  <2> QED
    BY <1>3, <2>1 DEF Cancel, Open, Record!Next, Record!Cancel
<1>4. ASSUME NEW m \in queue, Redeliver(m) PROVE Seen
  <2>1. m \in Messages /\ m.act \in Actions /\ copies[m.act] + 1 \in Copies
    BY <1>0, <1>4, MessageFields, BoundsAssumption DEF Redeliver, TypeOK, Copies
  <2>2. [m EXCEPT !.copy = copies[m.act] + 1].act = m.act
    BY <2>1, CopyType
  <2>3. Open' = Open
    BY <1>4, <2>2 DEF Redeliver, Open, InFlight, Carries
  <2> QED
    BY <1>4, <1>s, <2>3 DEF Redeliver, record
<1>5. ASSUME NEW w \in Workers, NEW m \in queue, Receive(w, m) PROVE Seen
  <2>1. Open' = Open
    BY <1>0, <1>5 DEF Receive, Open, InFlight, Carries, TypeOK
  <2> QED
    BY <1>5, <1>s, <2>1 DEF Receive, record
<1>6. ASSUME NEW w \in Workers, Execute(w) PROVE Seen
  <2> DEFINE a == job[w].act
  <2>0. Busy(w) /\ a \in Actions /\ a \in Open
    <3>1. Busy(w)
      BY <1>6 DEF Execute, Start, StartFails, RunReturns, RunAsksForRetry, RunRaises,
                  PublishRetry, Finish, Drop, Busy
    <3> QED
      BY <3>1, JobAction DEF Open, InFlight, Carries, Busy
  <2>1. CASE Start(w) \/ StartFails(w) \/ RunReturns(w) \/ RunAsksForRetry(w)
               \/ RunRaises(w)
    <3>1. Open' = Open
      <4>1. /\ pc[w] # "idle" /\ pc'[w] # "idle"
            /\ \A v \in Workers \ {w} : pc'[v] = pc[v]
            /\ UNCHANGED <<request, queue, job>>
        BY <1>0, <2>1 DEF Start, StartFails, RunReturns, RunAsksForRetry, RunRaises,
                          AfterRetryableError, TypeOK
      <4> QED
        BY <4>1 DEF Open, InFlight, Carries
    <3>2. \/ status' = status
          \/ status' = [status EXCEPT ![a] = "RUNNING"]
      BY <2>1 DEF Start, StartFails, RunReturns, RunAsksForRetry, RunRaises, record
    <3> QED
      BY <1>s, <2>0, <3>1, <3>2 DEF Open, Record!Next, Record!Begin
  <2>2. CASE PublishRetry(w)
    <3>1. job[w] \in Messages /\ job[w].retries < MaxRetries
      BY <2>0, <2>2, BusyHoldsMessage DEF PublishRetry, IInv, RetriesCountRuns
    <3>2. [job[w] EXCEPT !.retries = @ + 1].act = a
      BY <3>1, RetryType
    <3>3. /\ pc'[w] = "idle" /\ pc[w] # "idle"
          /\ \A v \in Workers \ {w} : pc'[v] = pc[v] /\ job'[v] = job[v]
          /\ queue' = queue \cup {[job[w] EXCEPT !.retries = @ + 1]}
          /\ request' = request /\ status' = status
      BY <1>0, <2>2 DEF PublishRetry, Release, record, TypeOK
    <3>4. Open' = Open
      BY <3>2, <3>3 DEF Open, InFlight, Carries
    <3> QED
      BY <1>s, <3>3, <3>4
  <2>3. CASE Finish(w)
    <3>1. Open' = Open \ {a} \/ (Open' = Open /\ MaxDuplicates > 0)
      BY <2>0, <2>3, LetGo DEF Finish
    <3>2. PICK s \in {"SUCCESS", "FAILURE"} :
            /\ s = "SUCCESS" => status[a] # "PENDING"
            /\ status' = [status EXCEPT ![a] = s]
      BY <2>3 DEF Finish, StartedIsOnRecord
    <3> QED
      BY <2>0, <3>1, <3>2 DEF Open, Record!Next, Record!Close, Record!Conclude
  <2>4. CASE Drop(w)
    <3>1. Open' = Open \ {a} \/ Open' = Open
      BY <2>0, <2>4, LetGo DEF Drop
    <3>2. status' = status
      BY <2>4 DEF Drop, record
    <3> QED
      BY <1>s, <2>0, <3>1, <3>2 DEF Open, Record!Next, Record!Close, Record!Abandon
  <2> QED
    BY <1>6, <2>1, <2>2, <2>3, <2>4 DEF Execute
<1>7. CASE UNCHANGED vars
  <2>1. Open' = Open
    BY <1>7 DEF vars, Open, InFlight, Carries
  <2> QED
    BY <1>7, <1>s, <2>1 DEF vars
<1> QED
  BY <1>1, <1>2, <1>3, <1>4, <1>5, <1>6, <1>7 DEF Next, Take

\* What a caller who polls the record sees is what ActionRecord promises (its
\* safety; TLC checks its fairness): no status but a cancel's changes once
\* nothing works on the action, and none skips the start.
THEOREM ImplementsRecordSafety == Spec => Record!Spec
<1>1. Init => Record!Init /\ StartedIsOnRecord
  BY DEF Init, Record!Init, StartedIsOnRecord, InFlight, Carries
<1>2. IInv /\ StartedIsOnRecord /\ [Next]_vars => StartedIsOnRecord'
  BY StartedStep
<1>3. IInv /\ StartedIsOnRecord /\ [Next]_vars => [Record!Next]_(Record!vars)
  BY StepIsRecordStep
<1> QED
  BY <1>1, <1>2, <1>3, Invariance, PTL DEF Spec, Record!Spec

-----------------------------------------------------------------------------
\* The copies of a that have yet to do their work.
Pending(a) ==
  {c \in Copies : \/ \E m \in queue : m.act = a /\ m.copy = c
                  \/ \E w \in Workers : /\ Carries(w, a) /\ job[w].copy = c
                                        /\ pc[w] \notin {"succeeded", "failed"}}

\* A set counts at most as many elements as one it is part of, at least one less
\* without one of them, at most one more with another.
LEMMA Counting ==
  ASSUME NEW S, IsFiniteSet(S), NEW T
  PROVE  /\ T \subseteq S => Cardinality(T) <= Cardinality(S)
         /\ \A x \in S : T \subseteq S \ {x} => Cardinality(T) <= Cardinality(S) - 1
         /\ \A x : T \subseteq S \cup {x} => Cardinality(T) <= Cardinality(S) + 1
<1>0. Cardinality(S) \in Nat
  BY FS_CardinalityType
<1>1. ASSUME T \subseteq S PROVE Cardinality(T) <= Cardinality(S)
  BY <1>1, FS_Subset
<1>2. ASSUME NEW x \in S, T \subseteq S \ {x}
      PROVE  Cardinality(T) <= Cardinality(S) - 1
  <2>1. IsFiniteSet(S \ {x}) /\ Cardinality(S \ {x}) = Cardinality(S) - 1
    BY FS_RemoveElement
  <2>2. Cardinality(T) <= Cardinality(S \ {x})
    BY <1>2, <2>1, FS_Subset
  <2> QED
    BY <2>1, <2>2
<1>3. ASSUME NEW x, T \subseteq S \cup {x}
      PROVE  Cardinality(T) <= Cardinality(S) + 1
  <2>1. /\ IsFiniteSet(S \cup {x})
        /\ Cardinality(S \cup {x}) = IF x \in S THEN Cardinality(S) ELSE Cardinality(S) + 1
    BY FS_AddElement
  <2>2. Cardinality(T) <= Cardinality(S \cup {x})
    BY <1>3, <2>1, FS_Subset
  <2>3. IsFiniteSet(T)
    BY <1>3, <2>1, FS_Subset
  <2>4. Cardinality(T) \in Nat
    BY <2>3, FS_CardinalityType
  <2> QED
    BY <1>0, <2>1, <2>2, <2>4
<1> QED
  BY <1>1, <1>2, <1>3

\* They are finitely many.
LEMMA PendingIsFinite ==
  ASSUME NEW a \in Actions
  PROVE  /\ IsFiniteSet(Pending(a)) /\ Cardinality(Pending(a)) \in Nat
         /\ IsFiniteSet(Pending(a)') /\ Cardinality(Pending(a)') \in Nat
<1>1. IsFiniteSet(Copies)
  BY FS_Interval, BoundsAssumption DEF Copies
<1>2. Pending(a) \in SUBSET Copies /\ Pending(a)' \in SUBSET Copies
  BY DEF Pending, Copies
<1> QED
  BY <1>1, <1>2, FS_Subset, FS_CardinalityType

\* A step adds a copy when SQS does, or when the task is published.
LEMMA PendingStep ==
  ASSUME IInv, [Next]_vars, NEW a \in Actions
  PROVE  /\ \/ Pending(a)' \subseteq Pending(a) /\ copies'[a] = copies[a]
            \/ /\ request[a] = "created" /\ copies'[a] = copies[a]
               /\ Pending(a) = {} /\ Pending(a)' \subseteq {0}
            \/ copies'[a] = copies[a] + 1 /\ \E c : Pending(a)' \subseteq Pending(a) \cup {c}
<1> DEFINE Fewer == Pending(a)' \subseteq Pending(a) /\ copies'[a] = copies[a]
           Taken == Fewer \/ /\ request[a] = "created" /\ copies'[a] = copies[a]
                             /\ Pending(a) = {} /\ Pending(a)' \subseteq {0}
                          \/ /\ copies'[a] = copies[a] + 1
                             /\ \E c : Pending(a)' \subseteq Pending(a) \cup {c}
<1>0. TypeOK
  BY DEF IInv
<1>1. ASSUME UNCHANGED <<queue, pc, job, copies>> PROVE Fewer
  BY <1>1 DEF Pending, Carries, Copies
<1>2. ASSUME NEW b \in Actions, CreateRecord(b) \/ Cancel(b) PROVE Fewer
  BY <1>1, <1>2 DEF CreateRecord, Cancel
<1>3. ASSUME NEW b \in Actions, PublishTask(b) \/ AbortRequest(b) PROVE Taken
  <2>1. /\ queue' \subseteq queue \cup {FirstMessage(b)} /\ request[b] = "created"
        /\ UNCHANGED <<pc, job, copies>>
    BY <1>3 DEF PublishTask, AbortRequest
  <2>2. CASE a # b
    BY <2>1, <2>2, FirstMessageType DEF Pending, Carries, Copies
  <2>3. CASE a = b
    <3>1. ~ InFlight(a)
      BY <2>1, <2>3 DEF IInv, UnpublishedIsUntouched
    <3>2. Pending(a) = {}
      BY <3>1 DEF Pending, InFlight
    <3>3. Pending(a)' \subseteq {0}
      BY <2>1, <2>3, <3>1, FirstMessageType DEF Pending, InFlight, Carries
    <3> QED
      BY <2>1, <2>3, <3>2, <3>3
  <2> QED
    BY <2>2, <2>3
<1>4. ASSUME NEW m \in queue, Redeliver(m) PROVE Taken
  <2> DEFINE n == [m EXCEPT !.copy = copies[m.act] + 1]
  <2>1. m \in Messages /\ m.act \in Actions
    BY <1>0, MessageFields DEF TypeOK
  <2>2. copies[m.act] + 1 \in Copies
    BY <1>0, <1>4, <2>1, BoundsAssumption DEF Redeliver, TypeOK, Copies
  <2>3. n.act = m.act
    BY <2>1, <2>2, CopyType
  <2>4. /\ queue' = queue \cup {n} /\ UNCHANGED <<pc, job>>
        /\ copies' = [copies EXCEPT ![m.act] = @ + 1]
    BY <1>4 DEF Redeliver
  <2> HIDE DEF n
  <2>5. CASE m.act # a
    BY <1>0, <2>1, <2>3, <2>4, <2>5 DEF Pending, Carries, Copies, TypeOK
  <2>6. CASE m.act = a
    <3>1. copies'[a] = copies[a] + 1
      BY <1>0, <2>4, <2>6 DEF TypeOK
    <3>2. Pending(a)' \subseteq Pending(a) \cup {n.copy}
      BY <2>4 DEF Pending, Carries, Copies
    <3> QED
      BY <3>1, <3>2
  <2> QED
    BY <2>5, <2>6
<1>5. ASSUME NEW w \in Workers, NEW m \in queue, Receive(w, m) PROVE Fewer
  <2>1. /\ pc'[w] = "received" /\ job'[w] = m /\ queue' \subseteq queue
        /\ copies' = copies
        /\ \A v \in Workers \ {w} : pc'[v] = pc[v] /\ job'[v] = job[v]
    BY <1>0, <1>5 DEF Receive, TypeOK
  <2> QED
    BY <2>1 DEF Pending, Carries, Copies
<1>6. ASSUME NEW w \in Workers, PublishRetry(w) PROVE Fewer
  <2> DEFINE n == [job[w] EXCEPT !.retries = @ + 1]
  <2>1. job[w] \in Messages /\ job[w].retries < MaxRetries
    BY <1>6, BusyHoldsMessage DEF PublishRetry, Busy, IInv, RetriesCountRuns
  <2>2. n.act = job[w].act /\ n.copy = job[w].copy
    BY <2>1, RetryType
  <2>3. /\ pc[w] = "retrying" /\ pc'[w] = "idle" /\ queue' = queue \cup {n}
        /\ copies' = copies
        /\ \A v \in Workers \ {w} : pc'[v] = pc[v] /\ job'[v] = job[v]
    BY <1>0, <1>6 DEF PublishRetry, Release, TypeOK
  <2> HIDE DEF n
  <2> QED
    BY <2>2, <2>3 DEF Pending, Carries, Copies
<1>7. ASSUME NEW w \in Workers, Finish(w) \/ Drop(w) PROVE Fewer
  <2>1. /\ pc'[w] = "idle" /\ queue' = queue /\ copies' = copies
        /\ \A v \in Workers \ {w} : pc'[v] = pc[v] /\ job'[v] = job[v]
    BY <1>0, <1>7 DEF Finish, Drop, Release, TypeOK
  <2> QED
    BY <2>1 DEF Pending, Carries, Copies
<1>8. ASSUME NEW w \in Workers,
             \/ Start(w) \/ StartFails(w) \/ RunReturns(w) \/ RunAsksForRetry(w)
             \/ RunRaises(w)
      PROVE  Fewer
  <2>1. /\ pc[w] \in {"received", "running"} /\ UNCHANGED <<queue, job, copies>>
        /\ \A v \in Workers \ {w} : pc'[v] = pc[v]
    BY <1>0, <1>8 DEF Start, StartFails, RunReturns, RunAsksForRetry, RunRaises, TypeOK
  <2> QED
    BY <2>1 DEF Pending, Carries, Copies
<1>9. CASE UNCHANGED vars
  BY <1>1, <1>9 DEF vars
<1> QED
  BY <1>2, <1>3, <1>4, <1>5, <1>6, <1>7, <1>8, <1>9 DEF Next, Take, Execute

\* What is published, or given up, stays so.
LEMMA PublishedStays ==
  ASSUME IInv, [Next]_vars, NEW a \in Actions, request[a] \notin {"none", "created"}
  PROVE  request'[a] \notin {"none", "created"}
<1>1. ASSUME NEW b \in Actions, CreateRecord(b) \/ PublishTask(b) \/ AbortRequest(b)
      PROVE  request'[a] \notin {"none", "created"}
  BY <1>1 DEF CreateRecord, PublishTask, AbortRequest, IInv, TypeOK
<1>2. \/ request' = request
      \/ \E b \in Actions : CreateRecord(b) \/ PublishTask(b) \/ AbortRequest(b)
  BY DEF Next, Cancel, Redeliver, Take, Receive, Execute, Start, StartFails, RunReturns,
         RunAsksForRetry, RunRaises, PublishRetry, Finish, Drop, vars
<1> QED
  BY <1>1, <1>2

\* The same of numbers: a step adds a pending copy when SQS makes one or the task is
\* published, and counts one less if a pending copy d is done.
LEMMA PendingCount ==
  ASSUME IInv, [Next]_vars, NEW a \in Actions
  PROVE  /\ \/ /\ copies'[a] = copies[a]
               /\ Cardinality(Pending(a)') <= Cardinality(Pending(a))
            \/ /\ request[a] = "created" /\ copies'[a] = copies[a]
               /\ Cardinality(Pending(a)') <= 1
            \/ /\ copies'[a] = copies[a] + 1
               /\ Cardinality(Pending(a)') <= Cardinality(Pending(a)) + 1
         /\ \A d \in Pending(a) : d \notin Pending(a)' =>
              \/ /\ copies'[a] = copies[a]
                 /\ Cardinality(Pending(a)') <= Cardinality(Pending(a)) - 1
              \/ /\ copies'[a] = copies[a] + 1
                 /\ Cardinality(Pending(a)') <= Cardinality(Pending(a))
<1> DEFINE P == Pending(a)
           P1 == Pending(a)'
           One == copies'[a] = copies[a] + 1
           Same == copies'[a] = copies[a]
<1>1. /\ IsFiniteSet(P) /\ Cardinality(P) \in Nat /\ Cardinality(P1) \in Nat
  BY PendingIsFinite
<1>2. \/ P1 \subseteq P /\ Same
      \/ request[a] = "created" /\ Same /\ P = {} /\ P1 \subseteq {0}
      \/ One /\ \E c : P1 \subseteq P \cup {c}
  BY PendingStep
<1> HIDE DEF P, P1, One, Same
<1>3. \/ Same /\ Cardinality(P1) <= Cardinality(P)
      \/ request[a] = "created" /\ Same /\ Cardinality(P1) <= 1
      \/ One /\ Cardinality(P1) <= Cardinality(P) + 1
  <2>1. /\ P1 \subseteq P => Cardinality(P1) <= Cardinality(P)
        /\ \A c : P1 \subseteq P \cup {c} => Cardinality(P1) <= Cardinality(P) + 1
    BY <1>1, Counting
  <2>2. P1 \subseteq {0} => Cardinality(P1) <= 1
    <3>1. IsFiniteSet({0}) /\ Cardinality({0}) = 1
      BY FS_Singleton
    <3> QED
      BY <3>1, Counting
  <2> QED
    BY <1>2, <2>1, <2>2
<1>4. ASSUME NEW d \in P, d \notin P1
      PROVE  \/ Same /\ Cardinality(P1) <= Cardinality(P) - 1
             \/ One /\ Cardinality(P1) <= Cardinality(P)
  <2> DEFINE R == P \ {d}
  <2>1. IsFiniteSet(R) /\ Cardinality(R) = Cardinality(P) - 1
    BY <1>1, FS_RemoveElement
  <2>2. P1 \subseteq P => P1 \subseteq R
    BY <1>4
  <2>3. \A c : P1 \subseteq P \cup {c} => P1 \subseteq R \cup {c}
    BY <1>4
  <2> HIDE DEF R
  <2>4. /\ P1 \subseteq R => Cardinality(P1) <= Cardinality(R)
        /\ \A c : P1 \subseteq R \cup {c} => Cardinality(P1) <= Cardinality(R) + 1
    BY <2>1, Counting
  <2>5. \/ Same /\ Cardinality(P1) <= Cardinality(R)
        \/ One /\ Cardinality(P1) <= Cardinality(R) + 1
    BY <1>2, <1>4, <2>2, <2>3, <2>4
  <2> QED
    BY <1>1, <2>1, <2>5
<1> QED
  BY <1>3, <1>4 DEF P, P1, One, Same

\* An execution that ends for good takes its copy with it.
LEMMA PendingShrinks ==
  ASSUME IInv, NEW w \in Workers, RunReturns(w) \/ RunAsksForRetry(w) \/ RunRaises(w),
         pc'[w] # "retrying", NEW a \in Actions, job[w].act = a
  PROVE  /\ job[w].copy \in Pending(a)
         /\ Pending(a)' = Pending(a) \ {job[w].copy}
         /\ copies' = copies
<1>0. TypeOK
  BY DEF IInv
<1>1. /\ pc[w] = "running" /\ pc'[w] \in {"succeeded", "failed"}
      /\ \A v \in Workers \ {w} : pc'[v] = pc[v]
      /\ UNCHANGED <<queue, job, copies>>
  BY <1>0 DEF RunReturns, RunAsksForRetry, RunRaises, AfterRetryableError, TypeOK
<1>2. job[w].copy \in Copies
  BY <1>1, BusyHoldsMessage, MessageFields DEF IInv, Busy
<1>3. /\ \A m \in queue : m.act = a => m.copy # job[w].copy
      /\ \A v \in Workers \ {w} : Carries(v, a) => job[v].copy # job[w].copy
  BY <1>1 DEF IInv, CopyCarriedOnce, SameCopy, Carries
<1> QED
  BY <1>1, <1>2, <1>3 DEF Pending, Carries, Copies
=============================================================================
