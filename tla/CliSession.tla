------------------------------- MODULE CliSession -------------------------------
(***************************************************************************)
(* The command line client with Kerberos: invocations, one process each,   *)
(* that share the file of cookies.  An invocation gets a ticket, loads the *)
(* file, calls me() to be logged in, makes its call, and at exit saves its *)
(* cookies over the file.  Nothing locks the file.                         *)
(*                                                                         *)
(* A call without an accepted session is redirected to the login and on to *)
(* the identity provider, which answers 401 until it gets a SPNEGO token   *)
(* (HTTPSPNEGOAuth), and back to where the call began.  Redirects keep the *)
(* method, and the login has no POST: a POST is not redirected further.    *)
(*                                                                         *)
(* The API and the identity provider are external here; OidcLogin has the  *)
(* API's side of a login.                                                  *)
(***************************************************************************)
EXTENDS Naturals

CONSTANTS
  Procs,         \* invocations; the session a process gets has its name
  Posts,         \* those whose command is a POST; the others' is a GET
  NoSession,     \* what a jar without a session cookie holds
  MaxRedirects,  \* httpx's max_redirects, 20
  MaxMishaps     \* bound: kills, failed requests, outages, ended sessions, ...

Max401s == 2

ASSUME CliAssumption ==
  /\ Posts \subseteq Procs
  /\ NoSession \notin Procs
  /\ {"absent", "torn"} \cap (Procs \cup {NoSession}) = {}
  /\ MaxRedirects \in Nat /\ MaxRedirects >= 2
  /\ MaxMishaps \in Nat

VARIABLES
  file,      \* the file: "absent", "torn" if it cannot be parsed, or its session
  pc,        \* pc[p]: where invocation p is
  jar,       \* jar[p]: the session among p's cookies
  at,        \* at[p]: the server p's call has been redirected to
  tries,     \* tries[p]: 401 answers p's call has handled (num_401s)
  hops,      \* hops[p]: redirects since the call was last sent (httpx counts the
             \* 401 answers, too, which changes a bound of 20 by two)
  signed,    \* processes whose request carries a SPNEGO token
  known,     \* processes with a session of the provider (never saved)
  result,    \* result[p]: how p has ended
  created,   \* created[p]: how often the API has carried p's command out
  live,      \* sessions the API accepts
  serving,   \* the API can serve a session at all (DynamoDB answers)
  mishaps,   \* kills, failures, outages, ended sessions so far
  overlaid   \* two processes have written the file over each other

call == <<at, tries, hops, signed>>
outside == <<live, serving>>
vars == <<file, pc, jar, call, known, result, created, outside, mishaps, overlaid>>

Init ==
  /\ file = "absent"
  /\ pc = [p \in Procs |-> "idle"]
  /\ jar = [p \in Procs |-> NoSession]
  /\ at = [p \in Procs |-> "api"]
  /\ tries = [p \in Procs |-> 0]
  /\ hops = [p \in Procs |-> 0]
  /\ signed = {}
  /\ known = {}
  /\ result = [p \in Procs |-> "none"]
  /\ created = [p \in Procs |-> 0]
  /\ live = {}
  /\ serving = TRUE
  /\ mishaps = 0
  /\ overlaid = FALSE

Goto(p, place) == pc' = [pc EXCEPT ![p] = place]
Fail(p) == Goto(p, "exiting") /\ result' = [result EXCEPT ![p] = "failed"]
Mishap == mishaps < MaxMishaps /\ mishaps' = mishaps + 1

\* A new call starts at the API, with a new run of the authentication flow.
NewCall(p) ==
  /\ at' = [at EXCEPT ![p] = "api"]
  /\ tries' = [tries EXCEPT ![p] = 0]
  /\ hops' = [hops EXCEPT ![p] = 0]
  /\ signed' = signed \ {p}

-----------------------------------------------------------------------------
(***************************************************************************)
(* Start-up.                                                               *)
(***************************************************************************)

\* There is a ticket, or kinit gets one.
Launch(p) ==
  /\ pc[p] = "idle"
  /\ Goto(p, "starting")
  /\ UNCHANGED <<file, jar, call, known, result, created, outside, mishaps, overlaid>>

\* kinit fails, and so does the invocation, before it has looked at the file.
KinitFails(p) ==
  /\ pc[p] = "starting"
  /\ Mishap
  /\ Goto(p, "ended")
  /\ result' = [result EXCEPT ![p] = "failed"]
  /\ UNCHANGED <<file, jar, call, known, created, outside, overlaid>>

\* Mutant of Load: the save at exit is registered first.
LoadAfterRegister(p) ==
  /\ pc[p] = "starting"
  /\ IF file = "torn" THEN Fail(p) /\ UNCHANGED jar
     ELSE /\ Goto(p, "me")
          /\ jar' = [jar EXCEPT ![p] = IF file = "absent" THEN NoSession ELSE file]
          /\ UNCHANGED result
  /\ UNCHANGED <<file, call, known, created, outside, mishaps, overlaid>>

\* Mutant of Load: nothing enforces the login before the command.
LoadOnly(p) ==
  /\ pc[p] = "starting"
  /\ IF file = "torn"
     THEN Goto(p, "ended") /\ result' = [result EXCEPT ![p] = "failed"]
          /\ UNCHANGED jar
     ELSE /\ Goto(p, "command")
          /\ jar' = [jar EXCEPT ![p] = IF file = "absent" THEN NoSession ELSE file]
          /\ UNCHANGED result
  /\ UNCHANGED <<file, call, known, created, outside, mishaps, overlaid>>

\* The absence of the file is fine, a LoadError is not; it is raised before the
\* save at exit is registered.  Then me() is called.
Load(p) ==
  /\ pc[p] = "starting"
  /\ \/ /\ file = "torn"
        /\ Goto(p, "ended")
        /\ result' = [result EXCEPT ![p] = "failed"]
        /\ UNCHANGED jar
     \/ /\ file # "torn"
        /\ Goto(p, "me")
        /\ jar' = [jar EXCEPT ![p] = IF file = "absent" THEN NoSession ELSE file]
        /\ UNCHANGED result
  /\ UNCHANGED <<file, call, known, created, outside, mishaps, overlaid>>

-----------------------------------------------------------------------------
(***************************************************************************)
(* The calls: me(), then the command.                                      *)
(***************************************************************************)
Calling(p, server) == pc[p] \in {"me", "command"} /\ at[p] = server
Served(p) == serving /\ jar[p] \in live
Login(p) == pc[p] = "me" \/ p \notin Posts

\* Mutant of Answer: the command is sent again when it has been answered.
AnswerTwice(p) ==
  /\ Calling(p, "api") /\ Served(p)
  /\ pc[p] = "command" => created' = [created EXCEPT ![p] = @ + 1]
  /\ pc[p] = "me" => UNCHANGED created
  /\ IF created[p] = 0 THEN Goto(p, "command") /\ UNCHANGED result
     ELSE Goto(p, "exiting") /\ result' = [result EXCEPT ![p] = "ok"]
  /\ NewCall(p)
  /\ UNCHANGED <<file, jar, known, outside, mishaps, overlaid>>

\* The session is accepted and the API answers.
Answer(p) ==
  /\ Calling(p, "api") /\ Served(p)
  /\ \/ pc[p] = "me" /\ Goto(p, "command") /\ UNCHANGED <<result, created>>
     \/ /\ pc[p] = "command"
        /\ Goto(p, "exiting")
        /\ result' = [result EXCEPT ![p] = "ok"]
        /\ created' = [created EXCEPT ![p] = @ + 1]
  /\ NewCall(p)
  /\ UNCHANGED <<file, jar, known, outside, mishaps, overlaid>>

\* Mutant of Follow: redirects are not counted.
FollowAnyway(p, server) ==
  /\ at' = [at EXCEPT ![p] = server]
  /\ UNCHANGED <<hops, pc, result>>

\* Two redirects lead from a server to the next: by the login to the provider,
\* by the callback to the API.  httpx gives up after max_redirects.
Follow(p, server) ==
  \/ /\ hops[p] + 2 <= MaxRedirects
     /\ hops' = [hops EXCEPT ![p] = @ + 2]
     /\ at' = [at EXCEPT ![p] = server]
     /\ UNCHANGED <<pc, result>>
  \/ /\ hops[p] + 2 > MaxRedirects
     /\ Fail(p)
     /\ UNCHANGED <<hops, at>>

\* The session is not accepted: to the login, or 405 for a POST.
Redirect(p) ==
  /\ Calling(p, "api") /\ ~ Served(p)
  /\ \/ Login(p) /\ Follow(p, "provider")
     \/ ~ Login(p) /\ Fail(p) /\ UNCHANGED <<hops, at>>
  /\ UNCHANGED <<file, jar, tries, signed, known, created, outside, mishaps, overlaid>>

\* The provider knows the user and sends p back; the callback sets the session.
LogIn(p) ==
  /\ Calling(p, "provider")
  /\ p \in known \cup signed
  /\ known' = known \cup {p}
  /\ Follow(p, "api")
  /\ signed' = signed \ {p}
  /\ jar' = [jar EXCEPT ![p] = p]
  /\ live' = live \cup {p}
  /\ UNCHANGED <<file, tries, created, serving, mishaps, overlaid>>

Challenged(p) == Calling(p, "provider") /\ p \notin known \cup signed

\* Mutant of Negotiate: the 401 answers are not counted.
NegotiateAgain(p) ==
  /\ Challenged(p)
  /\ tries' = [tries EXCEPT ![p] = @ + 1]
  /\ hops' = [hops EXCEPT ![p] = 0]
  /\ signed' = signed \cup {p}
  /\ UNCHANGED <<file, pc, jar, at, known, result, created, outside, mishaps, overlaid>>

\* handle_response: the request is sent again with a token of a new context.
Negotiate(p) ==
  /\ Challenged(p)
  /\ tries[p] < Max401s
  /\ tries' = [tries EXCEPT ![p] = @ + 1]
  /\ hops' = [hops EXCEPT ![p] = 0]
  /\ signed' = signed \cup {p}
  /\ UNCHANGED <<file, pc, jar, at, known, result, created, outside, mishaps, overlaid>>

\* set_auth_header fails: the request is sent again as it was.
NegotiationFails(p) ==
  /\ Challenged(p)
  /\ tries[p] < Max401s
  /\ Mishap
  /\ tries' = [tries EXCEPT ![p] = @ + 1]
  /\ hops' = [hops EXCEPT ![p] = 0]
  /\ UNCHANGED <<file, pc, jar, at, signed, known, result, created, outside, overlaid>>

\* The provider does not take the token and answers 401 once more.
TokenRefused(p) ==
  /\ Calling(p, "provider") /\ p \in signed \ known
  /\ Mishap
  /\ signed' = signed \ {p}
  /\ UNCHANGED <<file, pc, jar, at, tries, hops, known, result, created, outside, overlaid>>

\* The last 401 is returned to the caller.
Unauthorized(p) ==
  /\ Challenged(p)
  /\ tries[p] = Max401s
  /\ Fail(p)
  /\ UNCHANGED <<file, jar, call, known, created, outside, mishaps, overlaid>>

\* Any other error: no connection, no answer in time, an error status, no
\* mutual authentication.  The API may have carried the command out.
CallFails(p) ==
  /\ pc[p] \in {"me", "command"}
  /\ Mishap
  /\ Fail(p)
  /\ \/ UNCHANGED created
     \/ /\ pc[p] = "command" /\ at[p] = "api" /\ Served(p)
        /\ created' = [created EXCEPT ![p] = @ + 1]
  /\ UNCHANGED <<file, jar, call, known, outside, overlaid>>

-----------------------------------------------------------------------------
(***************************************************************************)
(* Exit: cookiejar.save opens the file, which empties it, then writes all. *)
(***************************************************************************)
OpenFile(p) ==
  /\ pc[p] = "exiting"
  /\ Goto(p, "saving")
  /\ file' = "torn"
  /\ UNCHANGED <<jar, call, known, result, created, outside, mishaps, overlaid>>

\* What another process has written since is overwritten from its start; the
\* rest of a longer text stays behind.
WriteFile(p) ==
  /\ pc[p] = "saving"
  /\ Goto(p, "ended")
  /\ \/ file = "torn" /\ file' = jar[p] /\ UNCHANGED overlaid
     \/ file # "torn" /\ file' \in {jar[p], "torn"} /\ overlaid' = TRUE
  /\ UNCHANGED <<jar, call, known, result, created, outside, mishaps>>

\* A killed process saves nothing.
Kill(p) ==
  /\ pc[p] \notin {"idle", "ended"}
  /\ Mishap
  /\ Goto(p, "ended")
  /\ result' = [result EXCEPT ![p] = "failed"]
  /\ UNCHANGED <<file, jar, call, known, created, outside, overlaid>>

\* A session expires.
SessionEnds(s) ==
  /\ s \in live
  /\ Mishap
  /\ live' = live \ {s}
  /\ UNCHANGED <<file, pc, jar, call, known, result, created, serving, overlaid>>

\* Whatever fails while the API serves a session, it redirects to the login.
Outage ==
  /\ serving
  /\ Mishap
  /\ serving' = FALSE
  /\ UNCHANGED <<file, pc, jar, call, known, result, created, live, overlaid>>

Proceed(p) ==
  \/ Load(p)
  \/ Answer(p)
  \/ Redirect(p)
  \/ LogIn(p)
  \/ Negotiate(p)
  \/ Unauthorized(p)
  \/ OpenFile(p)
  \/ WriteFile(p)

GoesWrong(p) ==
  KinitFails(p) \/ NegotiationFails(p) \/ TokenRefused(p) \/ CallFails(p) \/ Kill(p)

Next ==
  \/ \E p \in Procs : Launch(p)
  \/ \E p \in Procs : Proceed(p)
  \/ \E p \in Procs : GoesWrong(p)
  \/ \E s \in Procs : SessionEnds(s)
  \/ Outage

Spec == Init /\ [][Next]_vars

\* A process runs, and servers answer.
FairSpec == Spec /\ \A p \in Procs : WF_vars(Proceed(p))

-----------------------------------------------------------------------------
(***************************************************************************)
(* What must hold.                                                         *)
(***************************************************************************)

\* Every variable has its type.
TypeOK ==
  /\ file \in {"absent", "torn", NoSession} \cup Procs
  /\ pc \in [Procs -> {"idle", "starting", "me", "command", "exiting", "saving", "ended"}]
  /\ jar \in [Procs -> Procs \cup {NoSession}]
  /\ at \in [Procs -> {"api", "provider"}]
  /\ tries \in [Procs -> 0..Max401s]
  /\ hops \in [Procs -> 0..MaxRedirects]
  /\ signed \subseteq Procs
  /\ known \subseteq Procs
  /\ result \in [Procs -> {"none", "ok", "failed"}]
  /\ created \in [Procs -> Nat]
  /\ live \subseteq Procs
  /\ serving \in BOOLEAN
  /\ mishaps \in 0..MaxMishaps
  /\ overlaid \in BOOLEAN

\* The exit code is right about the command, which is carried out once at most:
\* neither a redirect nor a repetition for a 401 sends it a second time.
CommandRunsOnce ==
  \A p \in Procs :
    /\ created[p] <= 1
    /\ result[p] = "ok" => created[p] = 1
    /\ (result[p] = "failed" /\ mishaps = 0) => created[p] = 0

\* While nothing goes wrong, an invocation fails only because the file was torn
\* when it loaded it, hence while another one was writing it or after two had
\* written it over each other: a POST, too, finds an accepted session.
FailsForCause ==
  \A p \in Procs :
    (result[p] = "failed" /\ mishaps = 0)
      => pc[p] = "ended" /\ jar[p] = NoSession /\ at[p] = "api" /\ tries[p] = 0

\* "persist the session cookie set during login so subsequent CLI invocations
\* don't have to redo the full SSO" (cli.py): once an invocation has succeeded,
\* and nothing has gone wrong, the file holds an accepted session whenever nobody
\* writes it, whichever of the invocations that ran at the same time saved last,
\* and whatever one that could not load the file did.
SavedSessionLasts ==
  (/\ mishaps = 0 /\ ~ overlaid
   /\ \E p \in Procs : pc[p] = "ended" /\ result[p] = "ok"
   /\ \A p \in Procs : pc[p] # "saving")
  => file \in live

\* What these rest on.  A command that has not been called has not been carried
\* out; ...
NotYet(p) ==
  pc[p] \in {"idle", "starting", "me", "command"} => created[p] = 0 /\ result[p] = "none"

\* ... while nothing goes wrong, a login is needed once, takes one 401, and comes
\* before the command; who exits has an accepted session; ...
Untroubled(p) ==
  /\ jar[p] \in live \cup {NoSession}
  /\ pc[p] \in {"idle", "starting"} => jar[p] = NoSession /\ at[p] = "api"
  /\ (pc[p] \in {"idle", "starting"} \/ (pc[p] = "me" /\ at[p] = "api" /\ jar[p] \notin live))
       => p \notin known \cup signed /\ tries[p] = 0 /\ hops[p] = 0
  /\ (pc[p] = "me" /\ at[p] = "provider")
       => /\ p \notin known
          /\ IF p \in signed THEN tries[p] = 1 /\ hops[p] = 0 ELSE tries[p] = 0
  /\ pc[p] = "command" => jar[p] \in live /\ at[p] = "api"
  /\ pc[p] \in {"exiting", "saving"} => jar[p] \in live /\ result[p] = "ok"

\* ... and the file is torn while it is written only, and there after.
FileIsWhole ==
  /\ (\A p \in Procs : pc[p] # "saving") => file # "torn"
  /\ (\E p \in Procs : pc[p] = "saving" \/ (pc[p] = "ended" /\ result[p] = "ok"))
       => file # "absent"

\* The inductive invariant.
CliIInv ==
  /\ TypeOK
  /\ CommandRunsOnce
  /\ FailsForCause
  /\ \A p \in Procs : NotYet(p)
  /\ mishaps = 0 =>
       /\ serving
       /\ file \in {"absent", "torn"} \cup live
       /\ \A p \in Procs : Untroubled(p)
       /\ ~ overlaid => FileIsWhole

\* Every invocation ends, though the API may send it back to the login for ever
\* and the provider may refuse its tokens.
EveryInvocationEnds ==
  \A p \in Procs : (pc[p] = "starting") ~> (pc[p] = "ended")
=============================================================================
