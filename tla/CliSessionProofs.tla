---------------------------- MODULE CliSessionProofs ----------------------------
(***************************************************************************)
(* Theorems about CliSession: a command is carried out once, a login comes *)
(* before it, the file keeps a session, and each step brings an invocation *)
(* nearer to its end, for any number of invocations at the same time and   *)
(* any bound on redirects that lets a login through.                       *)
(***************************************************************************)
EXTENDS CliSession, TLAPS

\* The actions of an invocation, by how they can change it.
Starts(p) == Launch(p) \/ Load(p) \/ KinitFails(p)
Calls(p) ==
  \/ Answer(p) \/ Redirect(p) \/ LogIn(p) \/ Negotiate(p) \/ NegotiationFails(p)
  \/ TokenRefused(p) \/ Unauthorized(p) \/ CallFails(p)
Exits(p) == OpenFile(p) \/ WriteFile(p) \/ Kill(p)

LEMMA NextSteps ==
  Next => \/ \E p \in Procs : Starts(p) \/ Calls(p) \/ Exits(p)
          \/ \E s \in Procs : SessionEnds(s)
          \/ Outage
  BY DEF Next, Proceed, GoesWrong, Starts, Calls, Exits

LEMMA MishapType ==
  ASSUME mishaps \in 0..MaxMishaps, Mishap
  PROVE  mishaps' \in 0..MaxMishaps /\ mishaps' > 0
  BY CliAssumption DEF Mishap

\* A call follows redirects or fails.
LEMMA FollowType ==
  ASSUME TypeOK, NEW p \in Procs, NEW server \in {"api", "provider"}, Follow(p, server)
  PROVE  /\ hops' \in [Procs -> 0..MaxRedirects]
         /\ at' \in [Procs -> {"api", "provider"}]
         /\ \/ UNCHANGED <<pc, result>>
            \/ Fail(p)
  BY CliAssumption DEF Follow, TypeOK

LEMMA TypeStep ==
  ASSUME TypeOK, [Next]_vars
  PROVE  TypeOK'
<1> USE DEF TypeOK, Goto, Fail, NewCall, call, outside
<1>1. ASSUME NEW p \in Procs, Starts(p) PROVE TypeOK'
  BY <1>1, MishapType DEF Starts, Launch, Load, KinitFails
<1>2. ASSUME NEW p \in Procs, Answer(p) PROVE TypeOK'
  BY <1>2, CliAssumption DEF Answer, Max401s
<1>3. ASSUME NEW p \in Procs, Redirect(p) PROVE TypeOK'
  BY <1>3, FollowType DEF Redirect
<1>4. ASSUME NEW p \in Procs, LogIn(p) PROVE TypeOK'
  BY <1>4, FollowType DEF LogIn
<1>5. ASSUME NEW p \in Procs,
             Negotiate(p) \/ NegotiationFails(p) \/ TokenRefused(p) \/ Unauthorized(p)
      PROVE  TypeOK'
  BY <1>5, MishapType, CliAssumption
     DEF Negotiate, NegotiationFails, TokenRefused, Unauthorized, Max401s
<1>6. ASSUME NEW p \in Procs, CallFails(p) PROVE TypeOK'
  BY <1>6, MishapType DEF CallFails
<1>7. ASSUME NEW p \in Procs, Exits(p) PROVE TypeOK'
  <2>1. CASE OpenFile(p) \/ Kill(p)
    BY <2>1, MishapType DEF OpenFile, Kill
  <2>2. CASE WriteFile(p)
    <3>1. overlaid' \in BOOLEAN
      BY <2>2 DEF WriteFile
    <3>2. file' \in {"absent", "torn", NoSession} \cup Procs
      BY <2>2 DEF WriteFile
    <3> QED
      BY <2>2, <3>1, <3>2 DEF WriteFile
  <2> QED
    BY <1>7, <2>1, <2>2 DEF Exits
<1>8. ASSUME Outage \/ \E s \in Procs : SessionEnds(s) PROVE TypeOK'
  BY <1>8, MishapType DEF Outage, SessionEnds
<1>9. CASE UNCHANGED vars
  BY <1>9 DEF vars
<1> QED
  BY <1>1, <1>2, <1>3, <1>4, <1>5, <1>6, <1>7, <1>8, <1>9, NextSteps DEF Calls

\* Mishaps are never undone.
LEMMA MishapsGrow ==
  ASSUME TypeOK, [Next]_vars, mishaps' = 0
  PROVE  mishaps = 0 /\ UNCHANGED mishaps
<1>1. mishaps' = mishaps \/ Mishap
  BY NextSteps DEF Starts, Launch, Load, KinitFails, Calls, Answer, Redirect, LogIn,
                   Negotiate, NegotiationFails, TokenRefused, Unauthorized, CallFails,
                   Exits, OpenFile, WriteFile, Kill, SessionEnds, Outage, vars
<1> QED
  BY <1>1, MishapType DEF TypeOK

-----------------------------------------------------------------------------
\* A command is carried out by the last answer of its call, and by none before.
LEMMA RunsOnceStep ==
  ASSUME TypeOK, CommandRunsOnce, \A p \in Procs : NotYet(p), [Next]_vars
  PROVE  CommandRunsOnce' /\ \A p \in Procs : NotYet(p)'
<1> USE DEF TypeOK, CommandRunsOnce, NotYet, Goto, Fail
<1> DEFINE Once == CommandRunsOnce' /\ \A p \in Procs : NotYet(p)'
<1>0. mishaps' = 0 => mishaps = 0
  BY MishapsGrow
<1>1. ASSUME NEW p \in Procs, Starts(p) PROVE Once
  BY <1>0, <1>1, MishapType DEF Starts, Launch, Load, KinitFails
<1>2. ASSUME NEW p \in Procs, Answer(p) PROVE Once
  BY <1>0, <1>2 DEF Answer, Calling
<1>3. ASSUME NEW p \in Procs, Redirect(p) \/ LogIn(p) \/ Unauthorized(p) PROVE Once
  <2>1. /\ pc[p] \in {"me", "command"} /\ UNCHANGED created
        /\ UNCHANGED <<pc, result>> \/ Fail(p)
    BY <1>3 DEF Redirect, LogIn, Unauthorized, Challenged, Calling, Follow
  <2> QED
    BY <1>0, <2>1
<1>4. ASSUME NEW p \in Procs, Negotiate(p) \/ NegotiationFails(p) \/ TokenRefused(p)
      PROVE  Once
  BY <1>0, <1>4 DEF Negotiate, NegotiationFails, TokenRefused
<1>5. ASSUME NEW p \in Procs, CallFails(p) PROVE Once
  BY <1>0, <1>5, MishapType DEF CallFails
<1>6. ASSUME NEW p \in Procs, Exits(p) PROVE Once
  BY <1>0, <1>6, MishapType DEF Exits, OpenFile, WriteFile, Kill
<1>7. ASSUME Outage \/ \E s \in Procs : SessionEnds(s) PROVE Once
  BY <1>0, <1>7 DEF Outage, SessionEnds
<1>8. CASE UNCHANGED vars
  BY <1>8 DEF vars
<1> QED
  BY <1>1, <1>2, <1>3, <1>4, <1>5, <1>6, <1>7, <1>8, NextSteps DEF Calls

-----------------------------------------------------------------------------
\* The steps that are no mishap.
LEMMA SmoothSteps ==
  ASSUME TypeOK, [Next]_vars, mishaps' = 0
  PROVE  \/ \E p \in Procs : \/ Launch(p) \/ Load(p) \/ Answer(p) \/ Redirect(p)
                             \/ LogIn(p) \/ Negotiate(p) \/ Unauthorized(p)
                             \/ OpenFile(p) \/ WriteFile(p)
         \/ UNCHANGED vars
<1>1. ~ Mishap
  BY MishapType DEF TypeOK
<1> QED
  BY <1>1 DEF Next, Proceed, GoesWrong, KinitFails, NegotiationFails, TokenRefused,
              CallFails, Kill, SessionEnds, Outage

\* Nobody troubles another one: a login adds a session.
LEMMA OthersUntroubled ==
  ASSUME NEW q \in Procs, Untroubled(q),
         pc'[q] = pc[q], jar'[q] = jar[q], at'[q] = at[q], tries'[q] = tries[q],
         hops'[q] = hops[q], result'[q] = result[q],
         q \in signed' <=> q \in signed, q \in known' <=> q \in known,
         live \subseteq live'
  PROVE  Untroubled(q)'
  BY DEF Untroubled

\* A redirect or 401 while nothing has gone wrong is one of the first login, and
\* does not end it.
LEMMA LoginGoesOn ==
  ASSUME TypeOK, NEW p \in Procs, Untroubled(p), serving
  PROVE  /\ Redirect(p) => /\ pc[p] = "me" /\ jar[p] \notin live
                           /\ hops' = [hops EXCEPT ![p] = @ + 2]
                           /\ at' = [at EXCEPT ![p] = "provider"]
                           /\ UNCHANGED <<pc, result>>
         /\ LogIn(p) => /\ pc[p] = "me"
                        /\ hops' = [hops EXCEPT ![p] = @ + 2]
                        /\ at' = [at EXCEPT ![p] = "api"]
                        /\ UNCHANGED <<pc, result>>
         /\ Negotiate(p) => pc[p] = "me" /\ tries[p] = 0
         /\ ~ Unauthorized(p)
<1> USE DEF Untroubled, Calling, TypeOK
<1>1. ASSUME Redirect(p)
      PROVE  /\ pc[p] = "me" /\ jar[p] \notin live /\ at[p] = "api"
             /\ hops[p] = 0 /\ Follow(p, "provider")
  BY <1>1 DEF Redirect, Served, Login
<1>2. ASSUME LogIn(p) PROVE pc[p] = "me" /\ hops[p] = 0 /\ Follow(p, "api")
  BY <1>2 DEF LogIn
<1>3. ASSUME Challenged(p) PROVE pc[p] = "me" /\ tries[p] = 0
  BY <1>3 DEF Challenged
<1>4. ASSUME NEW server, Follow(p, server), hops[p] = 0
      PROVE  /\ hops' = [hops EXCEPT ![p] = @ + 2]
             /\ at' = [at EXCEPT ![p] = server]
             /\ UNCHANGED <<pc, result>>
  BY <1>4, CliAssumption DEF Follow
<1>5. Redirect(p) => /\ pc[p] = "me" /\ jar[p] \notin live
                     /\ hops' = [hops EXCEPT ![p] = @ + 2]
                     /\ at' = [at EXCEPT ![p] = "provider"]
                     /\ UNCHANGED <<pc, result>>
  BY <1>1, <1>4
<1>6. LogIn(p) => /\ pc[p] = "me"
                  /\ hops' = [hops EXCEPT ![p] = @ + 2]
                  /\ at' = [at EXCEPT ![p] = "api"]
                  /\ UNCHANGED <<pc, result>>
  BY <1>2, <1>4
<1>7. Negotiate(p) => pc[p] = "me" /\ tries[p] = 0
  BY <1>3 DEF Negotiate
<1>8. ~ Unauthorized(p)
  BY <1>3 DEF Unauthorized, Max401s
<1> QED
  BY <1>5, <1>6, <1>7, <1>8

\* While nothing goes wrong, every invocation stays as Untroubled says.
LEMMA UntroubledStep ==
  ASSUME TypeOK, serving, \A p \in Procs : Untroubled(p),
         file \in {"absent", "torn"} \cup live, [Next]_vars, mishaps' = 0
  PROVE  \A p \in Procs : Untroubled(p)'
<1> USE DEF Goto, Fail, NewCall, call, outside, TypeOK
<1>1. ASSUME NEW p \in Procs, Launch(p) \/ Load(p), NEW q \in Procs
      PROVE  Untroubled(q)'
  <2>1. ASSUME Launch(p) PROVE Untroubled(p)'
    BY <2>1 DEF Launch, Untroubled
  <2>3. ASSUME Load(p) PROVE Untroubled(p)'
    <3>1. mishaps' = mishaps /\ pc[p] = "starting" /\ UNCHANGED <<live, known, call>>
      BY <2>3 DEF Load
    <3>2. /\ jar[p] = NoSession /\ at[p] = "api" /\ tries[p] = 0 /\ hops[p] = 0
          /\ p \notin known \cup signed
      BY <3>1 DEF Untroubled
    <3>3. CASE file = "torn"
      BY <2>3, <3>1, <3>2, <3>3 DEF Load, Untroubled
    <3>4. CASE file # "torn"
      <4>1. pc'[p] = "me" /\ jar'[p] \in live \cup {NoSession}
        BY <2>3, <3>1, <3>4 DEF Load
      <4> QED
        BY <3>1, <3>2, <4>1 DEF Untroubled
    <3> QED
      BY <3>3, <3>4
  <2>2. CASE q # p
    BY <1>1, <2>2, OthersUntroubled DEF Launch, Load
  <2> QED
    BY <1>1, <2>1, <2>2, <2>3
<1>2. ASSUME NEW p \in Procs, Answer(p), NEW q \in Procs PROVE Untroubled(q)'
  <2>1. CASE q = p
    BY <1>2, <2>1 DEF Answer, Served, Untroubled
  <2>2. CASE q # p
    BY <1>2, <2>2, OthersUntroubled DEF Answer
  <2> QED
    BY <2>1, <2>2
<1>3. ASSUME NEW p \in Procs, Redirect(p), NEW q \in Procs PROVE Untroubled(q)'
  <2>0. /\ pc[p] = "me" /\ jar[p] \notin live
        /\ hops' = [hops EXCEPT ![p] = @ + 2]
        /\ at' = [at EXCEPT ![p] = "provider"]
        /\ UNCHANGED <<pc, result>>
    BY <1>3, LoginGoesOn
  <2>1. CASE q = p
    BY <1>3, <2>0, <2>1 DEF Redirect, Calling, Untroubled
  <2>2. CASE q # p
    BY <1>3, <2>0, <2>2, OthersUntroubled DEF Redirect
  <2> QED
    BY <2>1, <2>2
<1>4. ASSUME NEW p \in Procs, LogIn(p), NEW q \in Procs PROVE Untroubled(q)'
  <2>0. /\ pc[p] = "me"
        /\ hops' = [hops EXCEPT ![p] = @ + 2]
        /\ at' = [at EXCEPT ![p] = "api"]
        /\ UNCHANGED <<pc, result>>
    BY <1>4, LoginGoesOn
  <2>1. CASE q = p
    BY <1>4, <2>0, <2>1 DEF LogIn, Untroubled
  <2>2. CASE q # p
    BY <1>4, <2>0, <2>2, OthersUntroubled DEF LogIn
  <2> QED
    BY <2>1, <2>2
<1>5. ASSUME NEW p \in Procs, Negotiate(p), NEW q \in Procs PROVE Untroubled(q)'
  <2>0. pc[p] = "me" /\ tries[p] = 0
    BY <1>5, LoginGoesOn
  <2>1. CASE q = p
    BY <1>5, <2>0, <2>1 DEF Negotiate, Challenged, Calling, Untroubled
  <2>2. CASE q # p
    BY <1>5, <2>0, <2>2, OthersUntroubled DEF Negotiate
  <2> QED
    BY <2>1, <2>2
<1>6. ASSUME NEW p \in Procs, OpenFile(p) \/ WriteFile(p), NEW q \in Procs
      PROVE  Untroubled(q)'
  <2>1. CASE q = p
    BY <1>6, <2>1 DEF OpenFile, WriteFile, Untroubled
  <2>2. CASE q # p
    BY <1>6, <2>2, OthersUntroubled DEF OpenFile, WriteFile
  <2> QED
    BY <2>1, <2>2
<1>7. ASSUME UNCHANGED vars, NEW q \in Procs PROVE Untroubled(q)'
  BY <1>7, OthersUntroubled DEF vars
<1> QED
  BY <1>1, <1>2, <1>3, <1>4, <1>5, <1>6, <1>7, SmoothSteps, LoginGoesOn

\* ... fails for no other reason than the file, ...
LEMMA FailsForCauseStep ==
  ASSUME CliIInv, [Next]_vars
  PROVE  FailsForCause'
<1> SUFFICES ASSUME mishaps' = 0, NEW q \in Procs, result'[q] = "failed"
             PROVE  /\ pc'[q] = "ended" /\ jar'[q] = NoSession /\ at'[q] = "api"
                    /\ tries'[q] = 0
  BY DEF FailsForCause
<1> DEFINE Caused == /\ pc'[q] = "ended" /\ jar'[q] = NoSession /\ at'[q] = "api"
                     /\ tries'[q] = 0
<1>0. /\ TypeOK /\ mishaps = 0 /\ serving /\ \A p \in Procs : Untroubled(p)
      /\ result[q] = "failed" => /\ pc[q] = "ended" /\ jar[q] = NoSession
                                 /\ at[q] = "api" /\ tries[q] = 0
  BY MishapsGrow DEF CliIInv, FailsForCause
<1> USE DEF Goto, Fail, NewCall, call, outside, TypeOK
<1>1. ASSUME NEW p \in Procs, Launch(p) \/ Load(p) PROVE Caused
  BY <1>0, <1>1 DEF Launch, Load, Untroubled
<1>2. ASSUME NEW p \in Procs, Answer(p) PROVE Caused
  BY <1>0, <1>2 DEF Answer, Calling
<1>3. ASSUME NEW p \in Procs, Redirect(p) \/ LogIn(p) \/ Negotiate(p) PROVE Caused
  <2>1. pc[p] = "me" /\ UNCHANGED <<pc, result>>
    BY <1>0, <1>3, LoginGoesOn DEF Negotiate
  <2>2. p # q
    BY <1>0, <2>1
  <2> QED
    BY <1>0, <1>3, <2>1, <2>2, LoginGoesOn DEF Redirect, LogIn, Negotiate
<1>4. ASSUME NEW p \in Procs, OpenFile(p) \/ WriteFile(p) PROVE Caused
  BY <1>0, <1>4 DEF OpenFile, WriteFile
<1>5. ASSUME UNCHANGED vars PROVE Caused
  BY <1>0, <1>5 DEF vars
<1> QED
  BY <1>0, <1>1, <1>2, <1>3, <1>4, <1>5, SmoothSteps, LoginGoesOn

\* ... and leaves the file whole.
LEMMA FileStep ==
  ASSUME CliIInv, [Next]_vars, mishaps' = 0
  PROVE  /\ serving'
         /\ file' \in {"absent", "torn"} \cup live'
         /\ ~ overlaid' => FileIsWhole'
<1>0. /\ TypeOK /\ mishaps = 0 /\ serving /\ \A p \in Procs : Untroubled(p)
      /\ file \in {"absent", "torn"} \cup live
      /\ ~ overlaid => FileIsWhole
  BY MishapsGrow DEF CliIInv
<1> DEFINE Good == /\ serving'
                   /\ file' \in {"absent", "torn"} \cup live'
                   /\ ~ overlaid' => FileIsWhole'
<1> USE DEF Goto, Fail, call, outside, TypeOK, FileIsWhole
<1>1. ASSUME /\ UNCHANGED <<file, serving, overlaid>> /\ live \subseteq live'
             /\ \A p \in Procs : (pc'[p] = "saving") <=> (pc[p] = "saving")
             /\ \A p \in Procs : (pc'[p] = "ended" /\ result'[p] = "ok")
                                    => pc[p] = "ended" /\ result[p] = "ok"
      PROVE  Good
  BY <1>0, <1>1
<1>2. ASSUME NEW p \in Procs, Launch(p) \/ Load(p) PROVE Good
  BY <1>0, <1>1, <1>2 DEF Launch, Load
<1>3. ASSUME NEW p \in Procs, Answer(p) PROVE Good
  BY <1>0, <1>1, <1>3 DEF Answer, Calling
<1>4. ASSUME NEW p \in Procs, Redirect(p) \/ LogIn(p) \/ Negotiate(p) PROVE Good
  <2>1. UNCHANGED <<pc, result>>
    BY <1>0, <1>4, LoginGoesOn DEF Negotiate
  <2> QED
    BY <1>0, <1>1, <1>4, <2>1 DEF Redirect, LogIn, Negotiate
<1>5. ASSUME NEW p \in Procs, OpenFile(p) PROVE Good
  BY <1>0, <1>5 DEF OpenFile
<1>6. ASSUME NEW p \in Procs, WriteFile(p) PROVE Good
  <2>1. /\ UNCHANGED <<serving, live>> /\ pc[p] = "saving" /\ jar[p] \in live
        /\ file' \in {jar[p], "torn"}
        /\ ~ overlaid' => file' = jar[p]
    BY <1>0, <1>6 DEF WriteFile, Untroubled
  <2>2. jar[p] \notin {"absent", "torn"}
    BY <1>0, <2>1, CliAssumption
  <2> QED
    BY <2>1, <2>2, <1>0
<1>7. ASSUME UNCHANGED vars PROVE Good
  BY <1>0, <1>1, <1>7 DEF vars
<1> QED
  BY <1>0, <1>2, <1>3, <1>4, <1>5, <1>6, <1>7, SmoothSteps, LoginGoesOn

\* The invariant holds in every reachable state.
THEOREM CliInvariance == Spec => []CliIInv
<1>1. ASSUME Init PROVE CliIInv
  <2>1. TypeOK
    <3>1. overlaid \in BOOLEAN /\ serving \in BOOLEAN
      BY <1>1 DEF Init
    <3>2. mishaps \in 0..MaxMishaps /\ 0 \in 0..MaxRedirects /\ 0 \in 0..Max401s
      BY <1>1, CliAssumption DEF Init, Max401s
    <3> QED
      BY <1>1, <3>1, <3>2 DEF Init, TypeOK
  <2>2. CommandRunsOnce /\ FailsForCause /\ \A p \in Procs : NotYet(p)
    BY <1>1 DEF Init, CommandRunsOnce, FailsForCause, NotYet
  <2>3. serving /\ file = "absent" /\ FileIsWhole
    BY <1>1 DEF Init, FileIsWhole
  <2>4. \A p \in Procs : Untroubled(p)
    BY <1>1 DEF Init, Untroubled
  <2> QED
    BY <2>1, <2>2, <2>3, <2>4 DEF CliIInv
<1>2. ASSUME CliIInv, [Next]_vars PROVE CliIInv'
  <2>1. TypeOK' /\ CommandRunsOnce' /\ \A p \in Procs : NotYet(p)'
    BY <1>2, TypeStep, RunsOnceStep DEF CliIInv
  <2>2. FailsForCause'
    BY <1>2, FailsForCauseStep
  <2>3. ASSUME mishaps' = 0
        PROVE  /\ serving' /\ file' \in {"absent", "torn"} \cup live'
               /\ \A p \in Procs : Untroubled(p)'
               /\ ~ overlaid' => FileIsWhole'
    BY <1>2, <2>3, MishapsGrow, UntroubledStep, FileStep DEF CliIInv
  <2> QED
    BY <2>1, <2>2, <2>3 DEF CliIInv
<1> QED
  BY <1>1, <1>2, PTL DEF Spec

\* No redirect, 401 or repetition carries a command out twice, and the exit code
\* is right about it.
THEOREM CommandsRunOnce == Spec => []CommandRunsOnce
<1>1. CliIInv => CommandRunsOnce
  BY DEF CliIInv
<1> QED
  BY <1>1, CliInvariance, PTL

\* While nothing goes wrong an invocation, one with a POST too, is not sent to
\* the login by its command, and fails only if it has loaded a torn file.
THEOREM FailuresHaveCause == Spec => []FailsForCause
<1>1. CliIInv => FailsForCause
  BY DEF CliIInv
<1> QED
  BY <1>1, CliInvariance, PTL

\* However many invocations share the file, it keeps a session, unless two have
\* written it over each other.
THEOREM SessionsLast == Spec => []SavedSessionLasts
<1>1. CliIInv => SavedSessionLasts
  BY DEF CliIInv, FileIsWhole, SavedSessionLasts
<1> QED
  BY <1>1, CliInvariance, PTL
-----------------------------------------------------------------------------
(***************************************************************************)
(* Why an invocation ends: each of its steps brings it nearer to the end,  *)
(* and nobody else's step takes it back.  A step goes on to the next part  *)
(* of the invocation, or handles a 401 (there are Max401s of them, and     *)
(* each starts the count of redirects again), or follows redirects, or     *)
(* loses a refused token.                                                  *)
(***************************************************************************)
Part(p) ==
  CASE pc[p] = "idle"     -> 6
    [] pc[p] = "starting" -> 5
    [] pc[p] = "me"       -> 4
    [] pc[p] = "command"  -> 3
    [] pc[p] = "exiting"  -> 2
    [] pc[p] = "saving"   -> 1
    [] OTHER              -> 0

\* What a call may still do between two 401 answers, and what is left of it.
Round == MaxRedirects + 2
Detours(p) ==
  Round * (Max401s - tries[p]) + (MaxRedirects - hops[p]) + (IF p \in signed THEN 1 ELSE 0)

Left(p) == 3 * Round * Part(p) + Detours(p)

LEMMA PartsAndDetours ==
  ASSUME TypeOK, NEW p \in Procs
  PROVE  Part(p) \in 0..6 /\ Detours(p) \in 0..(3 * Round - 1) /\ Round \in Nat
<1>1. /\ Round \in Nat /\ tries[p] \in 0..2 /\ MaxRedirects - hops[p] \in 0..MaxRedirects
  BY CliAssumption DEF TypeOK, Max401s, Round
<1>2. Round * (2 - tries[p]) \in 0..(2 * Round)
  BY <1>1
<1>3. Detours(p) \in 0..(3 * Round - 1)
  BY <1>1, <1>2, CliAssumption DEF Detours, Max401s, Round
<1> QED
  BY <1>1, <1>3 DEF Part, TypeOK

\* The part of the invocation weighs more than its detours.
LEMMA NearerInPart ==
  ASSUME NEW r \in Nat, NEW k \in 0..6, NEW n \in 0..6, k < n,
         NEW d \in 0..(3 * r - 1), NEW e \in 0..(3 * r - 1)
  PROVE  3 * r * k + d < 3 * r * n + e
<1>1. 3 * r * n = 3 * r * k + 3 * r * (n - k)
  OBVIOUS
<1>2. 3 * r * (n - k) >= 3 * r
  OBVIOUS
<1> QED
  BY <1>1, <1>2

\* An invocation that goes on to its next part is nearer to its end, ...
LEMMA NextPartIsNearer ==
  ASSUME TypeOK, TypeOK', NEW p \in Procs, Part(p)' < Part(p)
  PROVE  Left(p)' < Left(p)
<1>1. /\ Part(p) \in 0..6 /\ Detours(p) \in 0..(3 * Round - 1) /\ Round \in Nat
  BY PartsAndDetours
<1>2. /\ Part(p)' \in 0..6 /\ Detours(p)' \in 0..(3 * Round - 1)
  <2>1. (Part(p) \in 0..6 /\ Detours(p) \in 0..(3 * Round - 1))'
    BY PartsAndDetours, PTL
  <2> QED
    BY <2>1 DEF Round
<1>3. 3 * Round * Part(p)' + Detours(p)' < 3 * Round * Part(p) + Detours(p)
  BY <1>1, <1>2, NearerInPart
<1> QED
  BY <1>3 DEF Left, Round

\* ... and so is one that has fewer detours left in the same part.
LEMMA FewerDetoursIsNearer ==
  ASSUME TypeOK, TypeOK', NEW p \in Procs, Part(p)' = Part(p), Detours(p)' < Detours(p)
  PROVE  Left(p)' < Left(p)
<1>1. /\ Part(p) \in 0..6 /\ Detours(p) \in 0..(3 * Round - 1) /\ Round \in Nat
  BY PartsAndDetours
<1>2. Detours(p)' \in 0..(3 * Round - 1)
  <2>1. (Detours(p) \in 0..(3 * Round - 1))'
    BY PartsAndDetours, PTL
  <2> QED
    BY <2>1 DEF Round
<1>3. 3 * Round * Part(p) \in Nat
  BY <1>1
<1>4. 3 * Round * Part(p)' = 3 * Round * Part(p)
  OBVIOUS
<1>5. 3 * Round * Part(p)' + Detours(p)' < 3 * Round * Part(p) + Detours(p)
  BY <1>1, <1>2, <1>3, <1>4
<1> QED
  BY <1>5 DEF Left, Round

Moves(p) == Launch(p) \/ Proceed(p) \/ GoesWrong(p)

\* Each step of an invocation brings it nearer to its end.
LEMMA MovesAreNearer ==
  ASSUME TypeOK, TypeOK', NEW p \in Procs, Moves(p)
  PROVE  Left(p)' < Left(p)
<1>0. /\ DOMAIN pc = Procs /\ DOMAIN tries = Procs /\ DOMAIN hops = Procs
      /\ pc[p] \in {"idle", "starting", "me", "command", "exiting", "saving", "ended"}
      /\ tries[p] \in 0..2 /\ hops[p] \in 0..MaxRedirects /\ MaxRedirects \in Nat
  BY CliAssumption DEF TypeOK, Max401s
<1>1. CASE Fail(p) /\ pc[p] \in {"me", "command"}
  <2>1. Part(p)' < Part(p)
    BY <1>0, <1>1 DEF Part, Fail, Goto
  <2> QED
    BY <2>1, NextPartIsNearer
<1>2. CASE \/ Launch(p) \/ KinitFails(p) \/ Load(p) \/ Answer(p)
           \/ OpenFile(p) \/ WriteFile(p) \/ Kill(p)
  <2>1. Part(p)' < Part(p)
    <3>1. CASE Launch(p) \/ KinitFails(p) \/ Load(p)
      BY <1>0, <3>1 DEF Part, Launch, KinitFails, Load, Goto
    <3>2. CASE Answer(p)
      BY <1>0, <3>2 DEF Part, Answer, Calling, Goto
    <3>3. CASE OpenFile(p) \/ WriteFile(p) \/ Kill(p)
      BY <1>0, <3>3 DEF Part, OpenFile, WriteFile, Kill, Goto
    <3> QED
      BY <1>2, <3>1, <3>2, <3>3
  <2> QED
    BY <2>1, NextPartIsNearer
<1>3. CASE Redirect(p) \/ LogIn(p)
  <2>1. pc[p] \in {"me", "command"} /\ UNCHANGED tries /\ signed' \subseteq signed
    BY <1>3 DEF Redirect, LogIn, Calling
  <2>2. Fail(p) \/ (UNCHANGED pc /\ hops'[p] = hops[p] + 2)
    BY <1>0, <1>3 DEF Redirect, LogIn, Follow
  <2>3. CASE UNCHANGED pc /\ hops'[p] = hops[p] + 2
    <3>1. Part(p)' = Part(p)
      BY <2>3 DEF Part
    <3>2. Detours(p)' < Detours(p)
      <4>1. Round * (Max401s - tries[p]) \in Nat
        BY <1>0 DEF Round, Max401s
      <4>2. (Round * (Max401s - tries[p]))' = Round * (Max401s - tries[p])
        BY <2>1 DEF Round, Max401s
      <4>3. (MaxRedirects - hops[p])' = (MaxRedirects - hops[p]) - 2
        BY <1>0, <2>3
      <4> QED
        BY <1>0, <2>1, <4>1, <4>2, <4>3 DEF Detours
    <3> QED
      BY <3>1, <3>2, FewerDetoursIsNearer
  <2> QED
    BY <1>1, <2>1, <2>2, <2>3
<1>4. CASE Negotiate(p) \/ NegotiationFails(p)
  <2>1. /\ UNCHANGED pc /\ tries[p] \in {0, 1}
        /\ tries'[p] = tries[p] + 1 /\ hops'[p] = 0
        /\ p \notin signed
    BY <1>0, <1>4 DEF Negotiate, NegotiationFails, Challenged, Max401s
  <2>2. Part(p)' = Part(p)
    BY <2>1 DEF Part
  <2>3. Detours(p)' < Detours(p)
    <3>1. /\ Round \in Nat /\ Round = MaxRedirects + 2
      BY <1>0 DEF Round
    <3>2. (Round * (Max401s - tries[p]))' = Round * (Max401s - tries[p]) - Round
      <4>1. CASE tries[p] = 0
        BY <2>1, <3>1, <4>1 DEF Max401s, Round
      <4>2. CASE tries[p] = 1
        BY <2>1, <3>1, <4>2 DEF Max401s, Round
      <4> QED
        BY <2>1, <4>1, <4>2
    <3>3. Round * (Max401s - tries[p]) \in Nat
      BY <1>0, <3>1 DEF Max401s
    <3>4. (MaxRedirects - hops[p])' = MaxRedirects /\ MaxRedirects - hops[p] \in Nat
      BY <1>0, <2>1
    <3> QED
      BY <1>0, <2>1, <3>1, <3>2, <3>3, <3>4 DEF Detours
  <2> QED
    BY <2>2, <2>3, FewerDetoursIsNearer
<1>5. CASE TokenRefused(p)
  <2>1. UNCHANGED <<pc, tries, hops>> /\ p \in signed /\ p \notin signed'
    BY <1>5 DEF TokenRefused
  <2>2. Part(p)' = Part(p)
    BY <2>1 DEF Part
  <2>3. Detours(p)' < Detours(p)
    <3>1. Round * (Max401s - tries[p]) \in Nat
      BY <1>0 DEF Round, Max401s
    <3>2. /\ (Round * (Max401s - tries[p]))' = Round * (Max401s - tries[p])
          /\ (MaxRedirects - hops[p])' = MaxRedirects - hops[p]
      BY <2>1 DEF Round, Max401s
    <3> QED
      BY <1>0, <2>1, <3>1, <3>2 DEF Detours
  <2> QED
    BY <2>2, <2>3, FewerDetoursIsNearer
<1>6. CASE Unauthorized(p) \/ CallFails(p)
  BY <1>1, <1>6 DEF Unauthorized, CallFails, Challenged, Calling
<1> QED
  BY <1>2, <1>3, <1>4, <1>5, <1>6 DEF Moves, Proceed, GoesWrong

\* What others do does not concern an invocation's way.
LEMMA OthersDoNotSetBack ==
  ASSUME TypeOK, [Next]_vars, NEW p \in Procs, ~ Moves(p)
  PROVE  Left(p)' = Left(p)
<1>1. pc'[p] = pc[p] /\ tries'[p] = tries[p] /\ hops'[p] = hops[p]
      /\ (p \in signed' <=> p \in signed)
  <2> USE DEF TypeOK, Goto, Fail, NewCall, call, outside
  <2>1. ASSUME NEW q \in Procs, q # p, Starts(q) \/ Exits(q)
        PROVE  /\ pc'[p] = pc[p] /\ UNCHANGED <<tries, hops, signed>>
    BY <2>1 DEF Starts, Launch, Load, KinitFails, Exits, OpenFile, WriteFile, Kill
  <2>2. ASSUME NEW q \in Procs, q # p, Calls(q)
        PROVE  /\ pc'[p] = pc[p] /\ tries'[p] = tries[p] /\ hops'[p] = hops[p]
               /\ (p \in signed' <=> p \in signed)
    <3>1. CASE Answer(q) \/ Unauthorized(q) \/ CallFails(q)
      BY <2>2, <3>1 DEF Answer, Unauthorized, CallFails
    <3>2. CASE Redirect(q) \/ LogIn(q)
      BY <2>2, <3>2 DEF Redirect, LogIn, Follow
    <3>3. CASE Negotiate(q) \/ NegotiationFails(q) \/ TokenRefused(q)
      BY <2>2, <3>3 DEF Negotiate, NegotiationFails, TokenRefused
    <3> QED
      BY <2>2, <3>1, <3>2, <3>3 DEF Calls
  <2>3. ASSUME Outage \/ \E s \in Procs : SessionEnds(s)
        PROVE  UNCHANGED <<pc, tries, hops, signed>>
    BY <2>3 DEF Outage, SessionEnds
  <2>4. CASE UNCHANGED vars
    BY <2>4 DEF vars
  <2>5. ~ (Starts(p) \/ Calls(p) \/ Exits(p))
    BY DEF Moves, Proceed, GoesWrong, Starts, Calls, Exits
  <2> QED
    BY <2>1, <2>2, <2>3, <2>4, <2>5, NextSteps
<1> QED
  BY <1>1 DEF Left, Part, Detours, Round, Max401s

\* An invocation takes at most as many steps as are left when it is launched,
\* whatever the servers answer and however often they refuse it: neither
\* redirects (max_redirects) nor 401 answers (num_401s) go round for ever.
\* EveryInvocationEnds is this and the fairness of its steps.
THEOREM InvocationsAreFinite ==
  Spec => /\ [][\A p \in Procs : IF Moves(p) THEN Left(p)' < Left(p)
                                             ELSE Left(p)' = Left(p)]_vars
          /\ [](\A p \in Procs : Left(p) \in 0..(21 * (MaxRedirects + 2)))
<1>1. CliIInv /\ [Next]_vars =>
        [\A p \in Procs : IF Moves(p) THEN Left(p)' < Left(p)
                                      ELSE Left(p)' = Left(p)]_vars
  BY TypeStep, MovesAreNearer, OthersDoNotSetBack DEF CliIInv
<1>2. CliIInv => \A p \in Procs : Left(p) \in 0..(21 * (MaxRedirects + 2))
  <2> SUFFICES ASSUME CliIInv, NEW p \in Procs
               PROVE  Left(p) \in 0..(21 * (MaxRedirects + 2))
    OBVIOUS
  <2>1. /\ Part(p) \in 0..6 /\ Detours(p) \in 0..(3 * Round - 1)
        /\ Round \in Nat /\ Round = MaxRedirects + 2
    BY PartsAndDetours DEF CliIInv, Round
  <2>2. 3 * Round * Part(p) \in 0..(18 * Round)
    BY <2>1
  <2> QED
    BY <2>1, <2>2 DEF Left
<1> QED
  BY <1>1, <1>2, CliInvariance, PTL DEF Spec
=============================================================================
