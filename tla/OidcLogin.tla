------------------------------- MODULE OidcLogin -------------------------------
(***************************************************************************)
(* Browser logins: a request without an accepted session is redirected to  *)
(* /login, from there to the identity provider, back to /callback, and     *)
(* from there to where it began.  The server keeps nothing of this: the    *)
(* signed state travels in the URL and in the cookie oidc_state, the       *)
(* access token in the cookie session.  Cookies belong to a browser,       *)
(* logins to a tab, and a request takes the cookies of the moment it is    *)
(* sent while its answer sets those of the moment it arrives.              *)
(*                                                                         *)
(* Pages are left out: the state carries the page with it.  The provider   *)
(* is external; its codes can be used once.                                *)
(***************************************************************************)
EXTENDS Naturals, FiniteSets

CONSTANTS
  Browsers,
  Tabs,         \* tabs of browsers
  Nonces,       \* what tells one state token from another
  NoState,
  NoSession,
  MaxMishaps    \* bound: expiries, failures and logouts

ASSUME LoginAssumption ==
  /\ MaxMishaps \in Nat
  /\ NoState \notin Nonces \X Browsers
  /\ NoSession \notin Browsers \X BOOLEAN
  /\ IsFiniteSet(Nonces) /\ IsFiniteSet(Tabs) /\ IsFiniteSet(Browsers)
  /\ Cardinality(Nonces) >= Cardinality(Tabs) + Cardinality(Browsers)

VARIABLES
  browser,   \* browser[t]: whose cookies tab t has; never changes
  tab,       \* tab[t]: where the tab is, with which state token
  cookie,    \* cookie[b]: the state token in oidc_state
  session,   \* session[b]: the browser whose login made the session, and
             \* whether server and provider still accept it
  spent,     \* state tokens whose code the provider has exchanged
  mishaps

vars == <<browser, tab, cookie, session, spent, mishaps>>

At(place, state, alone) == [at |-> place, state |-> state, alone |-> alone]
Idle == At("idle", NoState, FALSE)
States == Nonces \X Browsers
Places == {"idle", "request", "login", "provider", "callback", "exchange",
           "served", "rejected"}

Init ==
  /\ browser \in [Tabs -> Browsers]
  /\ tab = [t \in Tabs |-> Idle]
  /\ cookie = [b \in Browsers |-> NoState]
  /\ session = [b \in Browsers |-> NoSession]
  /\ spent = {}
  /\ mishaps = 0

Goes(t, place) == tab' = [tab EXCEPT ![t] = [@ EXCEPT !.at = place]]

\* The request ends in an error page.
Rejects(t, alone) ==
  tab' = [tab EXCEPT ![t] = At("rejected", NoState, alone)]

Mishap == mishaps < MaxMishaps /\ mishaps' = mishaps + 1

LoggingIn(t) == tab[t].at \in {"provider", "callback", "exchange"}
Others(t) == {u \in Tabs \ {t} : browser[u] = browser[t]}

\* alone is history: from /login on, no other login of the browser, no duplicate
\* of its callback there and no mishap came across this one.
Disturbing(U) ==
  [u \in Tabs |-> IF u \in U THEN [tab[u] EXCEPT !.alone = FALSE] ELSE tab[u]]

-----------------------------------------------------------------------------
(***************************************************************************)
(* A request for a page.                                                   *)
(***************************************************************************)
Open(t) ==
  /\ tab[t].at \in {"idle", "served", "rejected"}
  /\ tab' = [tab EXCEPT ![t] = At("request", NoState, FALSE)]
  /\ UNCHANGED <<browser, cookie, session, spent, mishaps>>

Accepted(b) == session[b] # NoSession /\ session[b][2]

\* The session is accepted and User.load works (see UserDirectory).
Serve(t) ==
  /\ tab[t].at = "request"
  /\ Accepted(browser[t])
  /\ Goes(t, "served")
  /\ UNCHANGED <<browser, cookie, session, spent, mishaps>>

\* No session, too old a session, or a token the provider no longer knows.
EnforceLogin(t) ==
  /\ tab[t].at = "request"
  /\ ~ Accepted(browser[t])
  /\ Goes(t, "login")
  /\ UNCHANGED <<browser, cookie, session, spent, mishaps>>

\* Any error in there, the provider's or DynamoDB's, looks like a bad session.
LoadFails(t) ==
  /\ tab[t].at = "request"
  /\ Accepted(browser[t])
  /\ Mishap
  /\ Goes(t, "login")
  /\ UNCHANGED <<browser, cookie, session, spent>>

-----------------------------------------------------------------------------
(***************************************************************************)
(* /login and /callback.                                                   *)
(***************************************************************************)
About == {tab[t].state : t \in Tabs} \cup {cookie[b] : b \in Browsers}

\* A token that is not about any more; the unused nonces are all alike.  The
\* browser it is made for is history, the code does not know it.
NewState(b) ==
  <<CHOOSE n \in Nonces : \A c \in Browsers : <<n, c>> \notin About, b>>

\* Mutant of GiveState: a login in progress keeps its cookie.
GiveStateOnce(b, state) ==
  cookie' = IF cookie[b] = NoState THEN [cookie EXCEPT ![b] = state] ELSE cookie

\* A new state token, in the redirect and in the browser's one cookie.
GiveState(b, state) == cookie' = [cookie EXCEPT ![b] = state]

Login(t) ==
  /\ tab[t].at = "login"
  /\ GiveState(browser[t], NewState(browser[t]))
  /\ tab' = [Disturbing(Others(t)) EXCEPT ![t] =
       At("provider", NewState(browser[t]),
          \A u \in Others(t) : ~ LoggingIn(u))]
  /\ spent' = spent \ {NewState(browser[t])}
  /\ UNCHANGED <<browser, session, mishaps>>

\* The provider knows the user and redirects to /callback with a code.
Authenticate(t) ==
  /\ tab[t].at = "provider"
  /\ Goes(t, "callback")
  /\ UNCHANGED <<browser, cookie, session, spent, mishaps>>

\* The provider turns the user away, or redirects without a code.
Deny(t) ==
  /\ tab[t].at = "provider"
  /\ Mishap
  /\ Rejects(t, FALSE)
  /\ UNCHANGED <<browser, cookie, session, spent>>

\* Mutant of Matches: any cookie will do.
MatchesAny(t) == cookie[browser[t]] # NoState

Matches(t) == cookie[browser[t]] = tab[t].state

\* The state in the URL is the one in the cookie; the code is sent on.
CheckState(t) ==
  /\ tab[t].at = "callback"
  /\ Matches(t)
  /\ Goes(t, "exchange")
  /\ UNCHANGED <<browser, cookie, session, spent, mishaps>>

InvalidState(t) ==
  /\ tab[t].at = "callback"
  /\ ~ Matches(t)
  /\ Rejects(t, tab[t].alone)
  /\ UNCHANGED <<browser, cookie, session, spent, mishaps>>

\* A spent code matters while another tab may still send it.
SpendCode(t) ==
  spent' = {s \in spent \cup {tab[t].state} :
              \E u \in Tabs \ {t} : tab[u].state = s}

\* Mutant of StartSession: the answer sets no session.
StartNoSession(b, owner) == UNCHANGED session

StartSession(b, owner) == session' = [session EXCEPT ![b] = <<owner, TRUE>>]

\* The answer removes oidc_state, whichever login's it is by now.
Exchange(t) ==
  /\ tab[t].at = "exchange"
  /\ tab[t].state \notin spent
  /\ SpendCode(t)
  /\ StartSession(browser[t], tab[t].state[2])
  /\ cookie' = [cookie EXCEPT ![browser[t]] = NoState]
  /\ tab' = [tab EXCEPT ![t] = At("request", NoState, FALSE)]
  /\ UNCHANGED <<browser, mishaps>>

CodeIsSpent(t) ==
  /\ tab[t].at = "exchange"
  /\ tab[t].state \in spent
  /\ Rejects(t, tab[t].alone)
  /\ UNCHANGED <<browser, cookie, session, spent, mishaps>>

\* The token request fails otherwise; the code is as good as spent.
ExchangeFails(t) ==
  /\ tab[t].at = "exchange"
  /\ Mishap
  /\ SpendCode(t)
  /\ Rejects(t, FALSE)
  /\ UNCHANGED <<browser, cookie, session>>

-----------------------------------------------------------------------------
(***************************************************************************)
(* What else happens to tabs and cookies.                                  *)
(***************************************************************************)

\* The redirect to the callback is followed again: reloaded, or as a link in
\* another tab or another browser.
Duplicate(t, u) ==
  /\ tab[t].at = "callback"
  /\ tab[u].at = "idle"
  /\ tab' = [Disturbing({v \in Others(u) : tab[v].state = tab[t].state})
               EXCEPT ![u] = At("callback", tab[t].state, FALSE)]
  /\ UNCHANGED <<browser, cookie, session, spent, mishaps>>

\* The server may have sent the code on all the same.
Close(t) ==
  /\ tab[t].at # "idle"
  /\ tab' = [tab EXCEPT ![t] = Idle]
  /\ \/ UNCHANGED spent
     \/ tab[t].at = "exchange" /\ SpendCode(t)
  /\ UNCHANGED <<browser, cookie, session, mishaps>>

\* Only the browser forgets the session.
Logout(b) ==
  /\ session[b] # NoSession
  /\ Mishap
  /\ session' = [session EXCEPT ![b] = NoSession]
  /\ UNCHANGED <<browser, tab, cookie, spent>>

\* session_timeout_secs have passed, or the provider has ended the session.
SessionEnds(b) ==
  /\ Accepted(b)
  /\ Mishap
  /\ session' = [session EXCEPT ![b] = <<@[1], FALSE>>]
  /\ UNCHANGED <<browser, tab, cookie, spent>>

\* Cookie and signature have the same maximal age, counted from /login.
StateExpires(b) ==
  /\ cookie[b] # NoState
  /\ Mishap
  /\ cookie' = [cookie EXCEPT ![b] = NoState]
  /\ tab' = Disturbing({t \in Tabs : browser[t] = b})
  /\ UNCHANGED <<browser, session, spent>>

\* A redirect is followed, a handler answers, the provider recognises the user.
Follow(t) ==
  \/ Serve(t)
  \/ EnforceLogin(t)
  \/ Login(t)
  \/ Authenticate(t)
  \/ CheckState(t)
  \/ InvalidState(t)
  \/ Exchange(t)
  \/ CodeIsSpent(t)

Next ==
  \/ \E t \in Tabs : Open(t)
  \/ \E t \in Tabs : Follow(t)
  \/ \E t \in Tabs : LoadFails(t) \/ Deny(t) \/ ExchangeFails(t)
  \/ \E t, u \in Tabs : Duplicate(t, u)
  \/ \E t \in Tabs : Close(t)
  \/ \E b \in Browsers : Logout(b) \/ SessionEnds(b) \/ StateExpires(b)

Spec == Init /\ [][Next]_vars

FairSpec == Spec /\ \A t \in Tabs : WF_vars(Follow(t))

-----------------------------------------------------------------------------
(***************************************************************************)
(* What must hold.                                                         *)
(***************************************************************************)
\* Every variable has its type, and a login in progress has its token.
TypeOK ==
  /\ browser \in [Tabs -> Browsers]
  /\ tab \in [Tabs -> [at : Places, state : States \cup {NoState},
                       alone : BOOLEAN]]
  /\ cookie \in [Browsers -> States \cup {NoState}]
  /\ session \in [Browsers -> (Browsers \X BOOLEAN) \cup {NoSession}]
  /\ spent \subseteq States
  /\ mishaps \in 0..MaxMishaps
  /\ \A t \in Tabs : LoggingIn(t) => tab[t].state # NoState

\* The comment in login(): a callback is bound to the browser that started the
\* login.  A session comes from a login of that very browser, though a callback
\* may be followed twice, late, or elsewhere.
SessionIsOwn ==
  \A b \in Browsers : session[b] # NoSession => session[b][1] = b

\* A browser's cookie holds a token made for it.
CookieIsOwn ==
  \A b \in Browsers : cookie[b] # NoState => cookie[b][2] = b

\* A code is sent on with a token of the browser that sends it.
ExchangeIsOwn ==
  \A t \in Tabs : tab[t].at = "exchange" => tab[t].state[2] = browser[t]

\* A tab that is not logging in holds no token.
TokenIsOfLogin ==
  \A t \in Tabs : ~ LoggingIn(t) => tab[t].state = NoState

\* A browser has only tokens made for it, so the state that was compared with its
\* cookie is its own; and a tab that is not logging in holds no token, so an
\* unused nonce is left.
TokenIInv ==
  /\ TypeOK
  /\ CookieIsOwn
  /\ ExchangeIsOwn
  /\ TokenIsOfLogin
  /\ SessionIsOwn

\* A login that is alone has the cookie and an unspent code, and what else its
\* browser follows is the callback of another login, which will be turned away.
AloneIsAhead ==
  \A t \in Tabs : tab[t].alone =>
    /\ LoggingIn(t)
    /\ cookie[browser[t]] = tab[t].state
    /\ tab[t].state \notin spent
    /\ \A u \in Others(t) : LoggingIn(u) =>
         tab[u].at = "callback" /\ tab[u].state # tab[t].state

\* The inductive invariant that SessionIsOwn and LoneLoginSucceeds rest on.
IInv == TokenIInv /\ AloneIsAhead

\* A login fails only for a reason: a mishap, or another login or a duplicate
\* in the same browser, which shares its one cookie.
LoneLoginSucceeds ==
  \A t \in Tabs : tab[t].at = "rejected" => ~ tab[t].alone

\* However many tabs log in, and although every failure is answered with one
\* more redirect, a request ends: no redirect goes round for ever.
NoEndlessRedirect ==
  \A t \in Tabs :
    tab[t].at = "request" ~> tab[t].at \in {"served", "rejected", "idle"}
=============================================================================
