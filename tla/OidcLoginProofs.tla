---------------------------- MODULE OidcLoginProofs ----------------------------
(***************************************************************************)
(* Theorems about OidcLogin: for any number of browsers and tabs, a        *)
(* session comes from a login of the browser that has it, a login that is  *)
(* alone succeeds, and redirects do not go round.                          *)
(***************************************************************************)
EXTENDS OidcLogin, FiniteSetTheorems, TLAPS

\* The values of a function are no more than its arguments.
LEMMA ValuesBound ==
  ASSUME NEW S, IsFiniteSet(S), NEW f, f = [x \in S |-> f[x]]
  PROVE  /\ IsFiniteSet({f[x] : x \in S})
         /\ Cardinality({f[x] : x \in S}) <= Cardinality(S)
<1> DEFINE T == {f[x] : x \in S}
<1>1. f \in Surjection(S, T)
  BY DEF Surjection
<1> QED
  BY <1>1, FS_Surjection

\* Fewer tokens are about than there are nonces, so a tab that begins its login
\* gets a new one.
LEMMA NewStateIsNew ==
  ASSUME TokenIInv, NEW t \in Tabs, tab[t].at = "login"
  PROVE  /\ NewState(browser[t]) \in States
         /\ NewState(browser[t])[2] = browser[t]
<1> DEFINE held == [u \in Tabs \ {t} |-> tab[u].state]
           ofTabs == {held[u] : u \in Tabs \ {t}}
           ofCookies == {cookie[b] : b \in Browsers}
           used == About \ {NoState}
           Free(n) == \A c \in Browsers : <<n, c>> \notin About
<1>1. /\ IsFiniteSet(Tabs) /\ IsFiniteSet(Browsers) /\ IsFiniteSet(Nonces)
      /\ Cardinality(Nonces) >= Cardinality(Tabs) + Cardinality(Browsers)
  BY LoginAssumption
<1>2. /\ IsFiniteSet(Tabs \ {t})
      /\ Cardinality(Tabs \ {t}) = Cardinality(Tabs) - 1
  BY <1>1, FS_RemoveElement
<1>3. IsFiniteSet(ofTabs) /\ Cardinality(ofTabs) <= Cardinality(Tabs) - 1
  BY <1>2, ValuesBound
<1>4. cookie = [b \in Browsers |-> cookie[b]]
  BY DEF TokenIInv, TypeOK
<1>5. IsFiniteSet(ofCookies) /\ Cardinality(ofCookies) <= Cardinality(Browsers)
  BY <1>1, <1>4, ValuesBound
<1>6. tab[t].state = NoState
  BY DEF TokenIInv, TokenIsOfLogin, LoggingIn
<1>7. used \subseteq ofTabs \cup ofCookies
  BY <1>6 DEF About
<1>8. /\ IsFiniteSet(ofTabs \cup ofCookies)
      /\ Cardinality(ofTabs \cup ofCookies) < Cardinality(Nonces)
  <2> HIDE DEF ofTabs, ofCookies
  <2>1. /\ IsFiniteSet(ofTabs \cup ofCookies)
        /\ Cardinality(ofTabs \cup ofCookies) =
             Cardinality(ofTabs) + Cardinality(ofCookies)
               - Cardinality(ofTabs \cap ofCookies)
    BY <1>3, <1>5, FS_Union
  <2>2. IsFiniteSet(ofTabs \cap ofCookies)
    BY <1>3, FS_Subset
  <2>3. /\ Cardinality(ofTabs) \in Nat /\ Cardinality(ofCookies) \in Nat
        /\ Cardinality(ofTabs \cap ofCookies) \in Nat
        /\ Cardinality(Nonces) \in Nat /\ Cardinality(Tabs) \in Nat
        /\ Cardinality(Browsers) \in Nat
    BY <1>1, <1>3, <1>5, <2>2, FS_CardinalityType
  <2> QED
    BY <1>1, <1>3, <1>5, <2>1, <2>3
<1>9. IsFiniteSet(used) /\ Cardinality(used) < Cardinality(Nonces)
  <2> HIDE DEF ofTabs, ofCookies, used
  <2>1. /\ IsFiniteSet(used)
        /\ Cardinality(used) <= Cardinality(ofTabs \cup ofCookies)
    BY <1>7, <1>8, FS_Subset
  <2>2. /\ Cardinality(used) \in Nat /\ Cardinality(Nonces) \in Nat
        /\ Cardinality(ofTabs \cup ofCookies) \in Nat
    BY <1>1, <1>8, <2>1, FS_CardinalityType
  <2> QED
    BY <1>8, <2>1, <2>2
<1>10. \E n \in Nonces : Free(n)
  <2> SUFFICES ASSUME \A n \in Nonces : ~ Free(n) PROVE FALSE
    OBVIOUS
  <2> DEFINE carrier == [n \in Nonces |-> <<n, CHOOSE c \in Browsers : <<n, c>> \in About>>]
  <2>1. \A n \in Nonces : carrier[n] \in About /\ carrier[n] # NoState
    <3> TAKE n \in Nonces
    <3>1. \E c \in Browsers : <<n, c>> \in About
      OBVIOUS
    <3>2. carrier[n] \in About /\ carrier[n] \in Nonces \X Browsers
      BY <3>1
    <3> QED
      BY <3>2, LoginAssumption
  <2>2. carrier \in Injection(Nonces, used)
    <3>1. carrier \in [Nonces -> used]
      BY <2>1
    <3>2. \A m, n \in Nonces : carrier[m] = carrier[n] => m = n
      OBVIOUS
    <3> QED
      BY <3>1, <3>2 DEF Injection, IsInjective
  <2>3. Cardinality(Nonces) <= Cardinality(used)
    <3> HIDE DEF carrier, used
    <3> QED
      BY <1>9, <2>2, FS_Injection
  <2>4. Cardinality(Nonces) \in Nat /\ Cardinality(used) \in Nat
    <3> HIDE DEF used
    <3> QED
      BY <1>1, <1>9, FS_CardinalityType
  <2> QED
    <3> HIDE DEF used
    <3> QED
      BY <1>9, <2>3, <2>4
<1> DEFINE fresh == CHOOSE n \in Nonces : Free(n)
<1>11. fresh \in Nonces
  <2> HIDE DEF Free
  <2> QED
    BY <1>10
<1>12. browser[t] \in Browsers
  BY DEF TokenIInv, TypeOK
<1>13. NewState(browser[t]) = <<fresh, browser[t]>>
  BY DEF NewState
<1> HIDE DEF fresh
<1> QED
  BY <1>11, <1>12, <1>13 DEF States

-----------------------------------------------------------------------------
\* The invariant holds initially.
LEMMA InitTokenIInv == Init => TokenIInv
<1> SUFFICES ASSUME Init PROVE TokenIInv
  OBVIOUS
<1> USE LoginAssumption DEF Init
<1>1. TypeOK
  BY DEF TypeOK, Idle, At, Places, LoggingIn
<1>2. CookieIsOwn
  BY DEF CookieIsOwn
<1>3. ExchangeIsOwn
  BY DEF ExchangeIsOwn, Idle, At
<1>4. TokenIsOfLogin
  BY DEF TokenIsOfLogin, Idle, At
<1>5. SessionIsOwn
  BY DEF SessionIsOwn
<1> QED
  BY <1>1, <1>2, <1>3, <1>4, <1>5 DEF TokenIInv

\* What TokenIInv says of the tabs, one tab at a time.
TabOK(u) ==
  /\ tab[u] \in [at : Places, state : States \cup {NoState}, alone : BOOLEAN]
  /\ LoggingIn(u) => tab[u].state # NoState
  /\ tab[u].at = "exchange" => tab[u].state[2] = browser[u]
  /\ ~ LoggingIn(u) => tab[u].state = NoState

\* And of the browsers.
BrowserOK(b) ==
  /\ cookie[b] \in States \cup {NoState}
  /\ cookie[b] # NoState => cookie[b][2] = b
  /\ session[b] \in (Browsers \X BOOLEAN) \cup {NoSession}
  /\ session[b] # NoSession => session[b][1] = b

\* The shape of the state.
Shape ==
  /\ browser \in [Tabs -> Browsers]
  /\ tab = [t \in Tabs |-> tab[t]]
  /\ cookie = [b \in Browsers |-> cookie[b]]
  /\ session = [b \in Browsers |-> session[b]]
  /\ spent \subseteq States
  /\ mishaps \in 0..MaxMishaps

\* The invariant, tab by tab and browser by browser.
EachOK ==
  /\ Shape
  /\ \A u \in Tabs : TabOK(u)
  /\ \A b \in Browsers : BrowserOK(b)

\* The two ways to state the invariant agree.
LEMMA TokenIInvIsEachOK == TokenIInv <=> EachOK
<1>1. TypeOK <=>
        /\ Shape
        /\ \A u \in Tabs :
             /\ tab[u] \in [at : Places, state : States \cup {NoState}, alone : BOOLEAN]
             /\ LoggingIn(u) => tab[u].state # NoState
        /\ \A b \in Browsers :
             /\ cookie[b] \in States \cup {NoState}
             /\ session[b] \in (Browsers \X BOOLEAN) \cup {NoSession}
  BY DEF TypeOK, Shape
<1> QED
  BY <1>1 DEF TokenIInv, EachOK, TabOK, BrowserOK, CookieIsOwn, ExchangeIsOwn,
              TokenIsOfLogin, SessionIsOwn

\* The bound of the mishaps holds.
LEMMA MishapType ==
  ASSUME mishaps \in 0..MaxMishaps, Mishap \/ UNCHANGED mishaps
  PROVE  mishaps' \in 0..MaxMishaps
  BY LoginAssumption DEF Mishap

\* A tab that shows an error page holds nothing.
LEMMA RejectsOK ==
  ASSUME tab = [u \in Tabs |-> tab[u]], NEW t \in Tabs, NEW alone \in BOOLEAN,
         Rejects(t, alone)
  PROVE  /\ TabOK(t)'
         /\ \A u \in Tabs \ {t} : tab'[u] = tab[u]
         /\ tab' = [u \in Tabs |-> tab'[u]]
<1> DEFINE page == At("rejected", NoState, alone)
<1>1. /\ page \in [at : Places, state : States \cup {NoState}, alone : BOOLEAN]
      /\ page.at = "rejected" /\ page.state = NoState
  BY DEF At, Places
<1>2. tab' = [tab EXCEPT ![t] = page]
  BY DEF Rejects
<1> HIDE DEF page
<1>3. /\ tab'[t] = page
      /\ \A u \in Tabs \ {t} : tab'[u] = tab[u]
      /\ tab' = [u \in Tabs |-> tab'[u]]
  BY <1>2
<1> QED
  BY <1>1, <1>3 DEF TabOK, LoggingIn

\* A step of one tab that leaves the browsers alone.
LEMMA TabSteps ==
  ASSUME TokenIInv, NEW t \in Tabs,
         Open(t) \/ Serve(t) \/ EnforceLogin(t) \/ LoadFails(t)
           \/ Authenticate(t) \/ Deny(t) \/ CheckState(t) \/ InvalidState(t)
           \/ CodeIsSpent(t)
  PROVE  TokenIInv'
<1> USE LoginAssumption
<1>1. Shape /\ (\A u \in Tabs : TabOK(u)) /\ (\A b \in Browsers : BrowserOK(b))
  BY TokenIInvIsEachOK DEF EachOK
<1>2. UNCHANGED <<browser, cookie, session, spent>> /\ mishaps' \in 0..MaxMishaps
  <2>1. /\ UNCHANGED <<browser, cookie, session, spent>>
        /\ Mishap \/ UNCHANGED mishaps
    BY DEF Open, Serve, EnforceLogin, LoadFails, Authenticate, Deny, CheckState,
           InvalidState, CodeIsSpent
  <2> QED
    BY <1>1, <2>1, MishapType DEF Shape
<1>3. /\ TabOK(t)'
      /\ \A u \in Tabs \ {t} : tab'[u] = tab[u]
      /\ tab' = [u \in Tabs |-> tab'[u]]
  <2>1. CASE Deny(t) \/ InvalidState(t) \/ CodeIsSpent(t)
    <3>1. tab[t].alone \in BOOLEAN
      BY <1>1 DEF TabOK
    <3>2. Rejects(t, FALSE) \/ Rejects(t, tab[t].alone)
      BY <2>1 DEF Deny, InvalidState, CodeIsSpent
    <3> QED
      BY <1>1, <3>1, <3>2, RejectsOK DEF Shape
  <2>2. CASE Serve(t) \/ EnforceLogin(t) \/ LoadFails(t) \/ Authenticate(t)
    BY <1>1, <2>2 DEF Shape, TabOK, Serve, EnforceLogin, LoadFails,
                      Authenticate, Goes, LoggingIn, Places
  <2>3. CASE CheckState(t)
    <3>1. cookie[browser[t]] # NoState => cookie[browser[t]][2] = browser[t]
      BY <1>1 DEF Shape, BrowserOK
    <3> QED
      BY <1>1, <2>3, <3>1 DEF Shape, TabOK, CheckState, Matches, Goes,
                              LoggingIn, Places
  <2>4. CASE Open(t)
    BY <1>1, <2>4 DEF Shape, TabOK, Open, At, LoggingIn, Places
  <2> QED
    BY <2>1, <2>2, <2>3, <2>4
<1>4. \A u \in Tabs : TabOK(u)'
  BY <1>1, <1>2, <1>3 DEF TabOK, LoggingIn
<1>5. \A b \in Browsers : BrowserOK(b)'
  BY <1>1, <1>2 DEF BrowserOK
<1>6. Shape'
  BY <1>1, <1>2, <1>3 DEF Shape
<1>7. EachOK'
  BY <1>4, <1>5, <1>6 DEF EachOK
<1> QED
  BY <1>7, TokenIInvIsEachOK, PTL

\* A login begins: the new token is made for the browser that gets it.
LEMMA LoginStep ==
  ASSUME TokenIInv, NEW t \in Tabs, Login(t)
  PROVE  TokenIInv'
<1> USE LoginAssumption
<1>1. Shape /\ (\A u \in Tabs : TabOK(u)) /\ (\A b \in Browsers : BrowserOK(b))
  BY TokenIInvIsEachOK DEF EachOK
<1> DEFINE new == NewState(browser[t])
<1>2. new \in States /\ new[2] = browser[t] /\ new # NoState
  BY NewStateIsNew DEF Login, States
<1>3. /\ cookie' = [cookie EXCEPT ![browser[t]] = new]
      /\ tab' = [Disturbing(Others(t)) EXCEPT ![t] =
           At("provider", new, \A u \in Others(t) : ~ LoggingIn(u))]
      /\ spent' = spent \ {new}
      /\ UNCHANGED <<browser, session, mishaps>>
  BY DEF Login, GiveState
<1> HIDE DEF new
<1>4. TabOK(t)'
  BY <1>1, <1>2, <1>3 DEF Shape, TabOK, Disturbing, At, LoggingIn, Places
<1>5. ASSUME NEW u \in Tabs \ {t} PROVE TabOK(u)'
  BY <1>1, <1>3, <1>5 DEF Shape, TabOK, Disturbing, LoggingIn
<1>6. \A b \in Browsers : BrowserOK(b)'
  BY <1>1, <1>2, <1>3 DEF Shape, BrowserOK
<1>7. Shape'
  BY <1>1, <1>3 DEF Shape, Disturbing
<1>8. EachOK'
  BY <1>4, <1>5, <1>6, <1>7 DEF EachOK
<1> QED
  BY <1>8, TokenIInvIsEachOK, PTL

\* Only tokens are remembered as spent.
LEMMA SpendCodeType ==
  ASSUME NEW t \in Tabs, spent \subseteq States, tab[t].state \in States,
         SpendCode(t)
  PROVE  spent' \subseteq States
  BY DEF SpendCode

\* A code is sent on: the session is that of the browser whose token it is.
LEMMA ExchangeSteps ==
  ASSUME TokenIInv, NEW t \in Tabs, Exchange(t) \/ ExchangeFails(t)
  PROVE  TokenIInv'
<1> USE LoginAssumption
<1>1. Shape /\ (\A u \in Tabs : TabOK(u)) /\ (\A b \in Browsers : BrowserOK(b))
  BY TokenIInvIsEachOK DEF EachOK
<1>2. /\ browser[t] \in Browsers
      /\ tab[t].state \in States
      /\ tab[t].state[2] = browser[t]
  BY <1>1 DEF Shape, TabOK, LoggingIn, Exchange, ExchangeFails
<1>3. spent' \subseteq States
  BY <1>1, <1>2, SpendCodeType DEF Shape, Exchange, ExchangeFails
<1>4. /\ UNCHANGED browser
      /\ mishaps' \in 0..MaxMishaps
  <2>1. UNCHANGED browser /\ (Mishap \/ UNCHANGED mishaps)
    BY DEF Exchange, ExchangeFails
  <2> QED
    BY <1>1, <2>1, MishapType DEF Shape
<1>5. /\ TabOK(t)'
      /\ \A u \in Tabs \ {t} : tab'[u] = tab[u]
      /\ tab' = [u \in Tabs |-> tab'[u]]
  <2>1. CASE Exchange(t)
    BY <1>1, <2>1 DEF Shape, TabOK, Exchange, At, LoggingIn, Places
  <2>2. CASE ExchangeFails(t)
    BY <1>1, <2>2, RejectsOK DEF Shape, ExchangeFails
  <2> QED
    BY <2>1, <2>2
<1>6. \A u \in Tabs : TabOK(u)'
  BY <1>1, <1>4, <1>5 DEF TabOK, LoggingIn
<1>7. /\ \A b \in Browsers : BrowserOK(b)'
      /\ cookie' = [b \in Browsers |-> cookie'[b]]
      /\ session' = [b \in Browsers |-> session'[b]]
  <2>1. CASE Exchange(t)
    BY <1>1, <1>2, <2>1 DEF Shape, BrowserOK, Exchange, StartSession
  <2>2. CASE ExchangeFails(t)
    BY <1>1, <2>2 DEF Shape, BrowserOK, ExchangeFails
  <2> QED
    BY <2>1, <2>2
<1>8. Shape'
  BY <1>1, <1>3, <1>4, <1>5, <1>7 DEF Shape
<1>9. EachOK'
  BY <1>6, <1>7, <1>8 DEF EachOK
<1> QED
  BY <1>9, TokenIInvIsEachOK, PTL

\* A callback followed twice, here or in another browser, and a closed tab.
LEMMA UserSteps ==
  ASSUME TokenIInv, NEW t \in Tabs, Close(t) \/ \E u \in Tabs : Duplicate(t, u)
  PROVE  TokenIInv'
<1> USE LoginAssumption
<1>1. Shape /\ (\A u \in Tabs : TabOK(u)) /\ (\A b \in Browsers : BrowserOK(b))
  BY TokenIInvIsEachOK DEF EachOK
<1>2. CASE Close(t)
  <2>1. spent' \subseteq States
    <3>1. CASE tab[t].at = "exchange" /\ SpendCode(t)
      BY <1>1, <3>1, SpendCodeType DEF Shape, TabOK, LoggingIn
    <3> QED
      BY <1>1, <1>2, <3>1 DEF Shape, Close
  <2>2. /\ tab' = [tab EXCEPT ![t] = Idle]
        /\ UNCHANGED <<browser, cookie, session, mishaps>>
    BY <1>2 DEF Close
  <2>3. \A u \in Tabs : TabOK(u)'
    BY <1>1, <2>2 DEF Shape, TabOK, Idle, At, LoggingIn, Places
  <2>4. \A b \in Browsers : BrowserOK(b)'
    BY <1>1, <2>2 DEF BrowserOK
  <2>5. Shape'
    BY <1>1, <2>1, <2>2 DEF Shape
  <2>6. EachOK'
    BY <2>3, <2>4, <2>5 DEF EachOK
  <2> QED
    BY <2>6, TokenIInvIsEachOK, PTL
<1>3. ASSUME NEW u \in Tabs, Duplicate(t, u) PROVE TokenIInv'
  <2>1. /\ tab' = [Disturbing({v \in Others(u) : tab[v].state = tab[t].state})
                    EXCEPT ![u] = At("callback", tab[t].state, FALSE)]
        /\ tab[t].at = "callback"
        /\ UNCHANGED <<browser, cookie, session, spent, mishaps>>
    BY <1>3 DEF Duplicate
  <2>2. TabOK(u)'
    BY <1>1, <2>1 DEF Shape, TabOK, Disturbing, At, LoggingIn, Places
  <2>3. ASSUME NEW v \in Tabs \ {u} PROVE TabOK(v)'
    BY <1>1, <2>1, <2>3 DEF Shape, TabOK, Disturbing, LoggingIn
  <2>4. \A b \in Browsers : BrowserOK(b)'
    BY <1>1, <2>1 DEF BrowserOK
  <2>5. Shape'
    BY <1>1, <2>1 DEF Shape, Disturbing
  <2>6. EachOK'
    BY <2>2, <2>3, <2>4, <2>5 DEF EachOK
  <2> QED
    BY <2>6, TokenIInvIsEachOK, PTL
<1> QED
  BY <1>2, <1>3

\* Cookies go: a logout, the end of a session, an expired state.
LEMMA CookieSteps ==
  ASSUME TokenIInv, NEW b \in Browsers, Logout(b) \/ SessionEnds(b) \/ StateExpires(b)
  PROVE  TokenIInv'
<1> USE LoginAssumption
<1>1. Shape /\ (\A u \in Tabs : TabOK(u)) /\ (\A c \in Browsers : BrowserOK(c))
  BY TokenIInvIsEachOK DEF EachOK
<1>2. /\ UNCHANGED <<browser, spent>>
      /\ mishaps' \in 0..MaxMishaps
  BY <1>1, MishapType DEF Shape, Logout, SessionEnds, StateExpires
<1>3. /\ \A u \in Tabs : TabOK(u)'
      /\ tab' = [u \in Tabs |-> tab'[u]]
  <2>1. CASE UNCHANGED tab
    BY <1>1, <1>2, <2>1 DEF Shape, TabOK, LoggingIn
  <2>2. CASE tab' = Disturbing({t \in Tabs : browser[t] = b})
    BY <1>1, <1>2, <2>2 DEF Shape, TabOK, Disturbing, LoggingIn
  <2> QED
    BY <2>1, <2>2 DEF Logout, SessionEnds, StateExpires
<1>4. /\ \A c \in Browsers : BrowserOK(c)'
      /\ cookie' = [c \in Browsers |-> cookie'[c]]
      /\ session' = [c \in Browsers |-> session'[c]]
  <2>1. CASE Logout(b)
    BY <1>1, <2>1 DEF Shape, BrowserOK, Logout
  <2>2. CASE SessionEnds(b)
    BY <1>1, <2>2 DEF Shape, BrowserOK, SessionEnds, Accepted
  <2>3. CASE StateExpires(b)
    BY <1>1, <2>3 DEF Shape, BrowserOK, StateExpires
  <2> QED
    BY <2>1, <2>2, <2>3
<1>5. Shape'
  BY <1>1, <1>2, <1>3, <1>4 DEF Shape
<1>6. EachOK'
  BY <1>3, <1>4, <1>5 DEF EachOK
<1> QED
  BY <1>6, TokenIInvIsEachOK, PTL

-----------------------------------------------------------------------------
\* A browser has only tokens made for it, and a session only from one of these,
\* in every reachable state, whatever is closed, duplicated or expires.
LEMMA TokenStep ==
  ASSUME TokenIInv, [Next]_vars
  PROVE  TokenIInv'
<1>1. CASE UNCHANGED vars
  BY <1>1 DEF vars, TokenIInv, TypeOK, CookieIsOwn, ExchangeIsOwn,
              TokenIsOfLogin, SessionIsOwn, LoggingIn
<1>2. ASSUME NEW t \in Tabs, Open(t) PROVE TokenIInv'
  BY <1>2, TabSteps
<1>3. ASSUME NEW t \in Tabs, Follow(t) PROVE TokenIInv'
  BY <1>3, TabSteps, LoginStep, ExchangeSteps DEF Follow
<1>4. ASSUME NEW t \in Tabs, LoadFails(t) \/ Deny(t) \/ ExchangeFails(t)
      PROVE  TokenIInv'
  BY <1>4, TabSteps, ExchangeSteps
<1>5. ASSUME NEW t \in Tabs, Close(t) \/ \E u \in Tabs : Duplicate(t, u)
      PROVE  TokenIInv'
  BY <1>5, UserSteps
<1>6. ASSUME NEW b \in Browsers, Logout(b) \/ SessionEnds(b) \/ StateExpires(b)
      PROVE  TokenIInv'
  BY <1>6, CookieSteps
<1> QED
  BY <1>1, <1>2, <1>3, <1>4, <1>5, <1>6 DEF Next

-----------------------------------------------------------------------------
\* What AloneIsAhead says of one tab.
Ahead(t) ==
  /\ LoggingIn(t)
  /\ cookie[browser[t]] = tab[t].state
  /\ tab[t].state \notin spent
  /\ \A u \in Others(t) : LoggingIn(u) =>
       tab[u].at = "callback" /\ tab[u].state # tab[t].state

\* A step of a tab that keeps the cookies and the spent codes: if it stays alone
\* it stays ahead, and no other tab of its browser gets past it.
LEMMA AheadTabSteps ==
  ASSUME TokenIInv, AloneIsAhead, NEW t \in Tabs,
         Open(t) \/ Serve(t) \/ EnforceLogin(t) \/ LoadFails(t)
           \/ Authenticate(t) \/ Deny(t) \/ CheckState(t) \/ InvalidState(t)
           \/ CodeIsSpent(t)
  PROVE  AloneIsAhead'
<1> SUFFICES ASSUME NEW a \in Tabs, tab'[a].alone PROVE Ahead(a)'
  BY DEF AloneIsAhead, Ahead
<1>1. /\ UNCHANGED <<browser, cookie, spent>>
      /\ \A u \in Tabs \ {t} : tab'[u] = tab[u]
  <2>1. UNCHANGED <<browser, cookie, spent>>
    BY DEF Open, Serve, EnforceLogin, LoadFails, Authenticate, Deny, CheckState,
           InvalidState, CodeIsSpent
  <2>2. \A u \in Tabs \ {t} : tab'[u] = tab[u]
    BY DEF TokenIInv, TypeOK, Open, Serve, EnforceLogin, LoadFails,
           Authenticate, Deny, CheckState, InvalidState, CodeIsSpent, Goes, Rejects
  <2> QED
    BY <2>1, <2>2
<1>2. \/ /\ LoggingIn(t) /\ tab'[t].state = tab[t].state
         /\ tab'[t].alone = tab[t].alone
         /\ \/ tab[t].at = "provider" /\ tab'[t].at = "callback"
            \/ /\ tab[t].at = "callback" /\ tab'[t].at = "exchange"
               /\ cookie[browser[t]] = tab[t].state
      \/ ~ LoggingIn(t)' /\ ~ tab'[t].alone
  <2>1. tab[t].alone => Ahead(t)
    BY DEF AloneIsAhead, Ahead
  <2>2. /\ tab \in [Tabs -> [at : Places, state : States \cup {NoState},
                             alone : BOOLEAN]]
        /\ tab[t].alone \in BOOLEAN
    BY DEF TokenIInv, TypeOK
  <2>3. CASE Deny(t) \/ Open(t)
    BY <2>2, <2>3 DEF Deny, Open, Rejects, At, LoggingIn
  <2>4. CASE Serve(t) \/ EnforceLogin(t) \/ LoadFails(t)
    BY <2>1, <2>2, <2>4 DEF Serve, EnforceLogin, LoadFails, Goes, Ahead, LoggingIn
  <2>5. CASE Authenticate(t)
    BY <2>2, <2>5 DEF Authenticate, Goes, LoggingIn
  <2>6. CASE CheckState(t)
    BY <2>2, <2>6 DEF CheckState, Matches, Goes, LoggingIn
  <2>7. CASE InvalidState(t) \/ CodeIsSpent(t)
    <3>1. ~ tab[t].alone
      BY <2>1, <2>7 DEF InvalidState, CodeIsSpent, Matches, Ahead
    <3> QED
      BY <2>2, <2>7, <3>1 DEF InvalidState, CodeIsSpent, Rejects, At, LoggingIn
  <2> QED
    BY <2>3, <2>4, <2>5, <2>6, <2>7
<1>3. tab[a].alone /\ Ahead(a)
  BY <1>1, <1>2 DEF AloneIsAhead, Ahead
<1>4. /\ LoggingIn(a)' /\ tab'[a].state = tab[a].state
  <2>1. CASE a = t
    BY <1>2, <2>1 DEF LoggingIn
  <2>2. CASE a # t
    BY <1>1, <1>3, <2>2 DEF Ahead, LoggingIn
  <2> QED
    BY <2>1, <2>2
<1>5. ASSUME NEW u \in Others(a), LoggingIn(u)'
      PROVE  tab'[u].at = "callback" /\ tab'[u].state # tab'[a].state
  <2>1. CASE u = t
    BY <1>2, <1>3, <1>4, <1>5, <2>1 DEF Ahead, Others, LoggingIn
  <2>2. CASE u # t
    BY <1>1, <1>3, <1>4, <1>5, <2>2 DEF Ahead, Others, LoggingIn
  <2> QED
    BY <2>1, <2>2
<1>6. Others(a)' = Others(a)
  BY <1>1 DEF Others
<1> QED
  BY <1>1, <1>3, <1>4, <1>5, <1>6 DEF Ahead

\* A login begins alone when no other is under way in its browser, and ends the
\* others' being alone.
LEMMA AheadLogin ==
  ASSUME TokenIInv, AloneIsAhead, NEW t \in Tabs, Login(t)
  PROVE  AloneIsAhead'
<1> SUFFICES ASSUME NEW a \in Tabs, tab'[a].alone PROVE Ahead(a)'
  BY DEF AloneIsAhead, Ahead
<1> DEFINE new == NewState(browser[t])
<1>1. new[2] = browser[t]
  BY NewStateIsNew DEF Login
<1>2. /\ cookie' = [cookie EXCEPT ![browser[t]] = new]
      /\ tab' = [Disturbing(Others(t)) EXCEPT ![t] =
           At("provider", new, \A u \in Others(t) : ~ LoggingIn(u))]
      /\ spent' = spent \ {new}
      /\ UNCHANGED <<browser, session, mishaps>>
      /\ ~ LoggingIn(t)
  BY DEF Login, GiveState, LoggingIn
<1> HIDE DEF new
<1>3. /\ browser \in [Tabs -> Browsers]
      /\ tab \in [Tabs -> [at : Places, state : States \cup {NoState},
                           alone : BOOLEAN]]
      /\ cookie \in [Browsers -> States \cup {NoState}]
  BY DEF TokenIInv, TypeOK
<1>4. /\ tab'[t].at = "provider" /\ tab'[t].state = new
      /\ tab'[t].alone = (\A u \in Others(t) : ~ LoggingIn(u))
      /\ \A u \in Tabs \ {t} :
           /\ tab'[u].at = tab[u].at /\ tab'[u].state = tab[u].state
           /\ u \notin Others(t) => tab'[u].alone = tab[u].alone
           /\ u \in Others(t) => ~ tab'[u].alone
      /\ cookie'[browser[t]] = new
      /\ \A b \in Browsers \ {browser[t]} : cookie'[b] = cookie[b]
  BY <1>2, <1>3 DEF Disturbing, At, Others
<1>5. Others(a)' = Others(a)
  BY <1>2 DEF Others
<1>6. CASE a = t
  <2>1. \A u \in Others(a) : ~ LoggingIn(u)'
    BY <1>4, <1>6 DEF LoggingIn, Others
  <2>2. LoggingIn(a)' /\ cookie'[browser'[a]] = tab'[a].state
    BY <1>2, <1>4, <1>6 DEF LoggingIn
  <2>3. tab'[a].state \notin spent'
    <3>1. tab'[a].state = new /\ spent' = spent \ {new}
      BY <1>2, <1>4, <1>6
    <3> QED
      BY <3>1
  <2> QED
    BY <1>5, <2>1, <2>2, <2>3 DEF Ahead
<1>7. CASE a # t
  <2>1. browser[a] # browser[t] /\ tab[a].alone
    BY <1>4, <1>7 DEF Others
  <2>2. Ahead(a)
    BY <2>1 DEF AloneIsAhead, Ahead
  <2>3. browser[a] \in Browsers \ {browser[t]}
    BY <1>3, <2>1
  <2>4. \A u \in Others(a) : u # t /\ u \in Tabs
    BY <2>1 DEF Others
  <2>5. LoggingIn(a)' /\ cookie'[browser'[a]] = tab'[a].state
    BY <1>2, <1>4, <1>7, <2>2, <2>3 DEF Ahead, LoggingIn
  <2>6. tab'[a].state \notin spent'
    BY <1>2, <1>4, <1>7, <2>2 DEF Ahead
  <2>7. ASSUME NEW u \in Others(a), LoggingIn(u)'
        PROVE  tab'[u].at = "callback" /\ tab'[u].state # tab'[a].state
    BY <1>4, <1>7, <2>2, <2>4, <2>7 DEF Ahead, LoggingIn
  <2> QED
    BY <1>5, <2>5, <2>6, <2>7 DEF Ahead
<1> QED
  BY <1>6, <1>7

\* A code that is sent on is one of its own browser's, and no other tab of that
\* browser is alone: cookies and codes of a login that is alone stay.
LEMMA AheadExchange ==
  ASSUME TokenIInv, AloneIsAhead, NEW t \in Tabs,
         Exchange(t) \/ ExchangeFails(t)
  PROVE  AloneIsAhead'
<1> SUFFICES ASSUME NEW a \in Tabs, tab'[a].alone PROVE Ahead(a)'
  BY DEF AloneIsAhead, Ahead
<1>1. /\ UNCHANGED browser
      /\ tab[t].at = "exchange"
      /\ SpendCode(t)
      /\ \/ cookie' = [cookie EXCEPT ![browser[t]] = NoState]
         \/ UNCHANGED cookie
      /\ \/ tab' = [tab EXCEPT ![t] = At("request", NoState, FALSE)]
         \/ tab' = [tab EXCEPT ![t] = At("rejected", NoState, FALSE)]
  BY DEF Exchange, ExchangeFails, Rejects
<1>2. /\ browser \in [Tabs -> Browsers]
      /\ tab \in [Tabs -> [at : Places, state : States \cup {NoState},
                           alone : BOOLEAN]]
      /\ cookie \in [Browsers -> States \cup {NoState}]
  BY DEF TokenIInv, TypeOK
<1>3. /\ ~ LoggingIn(t)' /\ ~ tab'[t].alone
      /\ \A u \in Tabs \ {t} : tab'[u] = tab[u]
  BY <1>1, <1>2 DEF At, LoggingIn
<1>4. a # t /\ tab[a].alone
  BY <1>3
<1>5. Ahead(a)
  BY <1>4 DEF AloneIsAhead, Ahead
<1>6. browser[a] # browser[t]
  BY <1>1, <1>4, <1>5 DEF Ahead, Others, LoggingIn
<1>7. tab[a].state # tab[t].state
  <2>1. tab[t].state[2] = browser[t]
    BY <1>1 DEF TokenIInv, ExchangeIsOwn
  <2>2. tab[a].state[2] = browser[a]
    BY <1>2, <1>5 DEF Ahead, TokenIInv, TypeOK, CookieIsOwn
  <2> QED
    BY <1>6, <2>1, <2>2
<1>8. tab'[a].state \notin spent'
  BY <1>1, <1>3, <1>4, <1>5, <1>7 DEF SpendCode, Ahead
<1>9. cookie'[browser[a]] = cookie[browser[a]]
  BY <1>1, <1>2, <1>6
<1>10. Others(a)' = Others(a) /\ \A u \in Others(a) : u \in Tabs \ {t}
  BY <1>1, <1>6 DEF Others
<1> QED
  BY <1>1, <1>3, <1>4, <1>5, <1>8, <1>9, <1>10 DEF Ahead, LoggingIn

\* A tab closes; the server may have sent its code on.
LEMMA AheadClose ==
  ASSUME TokenIInv, AloneIsAhead, NEW t \in Tabs, Close(t)
  PROVE  AloneIsAhead'
<1> SUFFICES ASSUME NEW a \in Tabs, tab'[a].alone PROVE Ahead(a)'
  BY DEF AloneIsAhead, Ahead
<1>1. /\ UNCHANGED <<browser, cookie>>
      /\ tab' = [tab EXCEPT ![t] = At("idle", NoState, FALSE)]
      /\ UNCHANGED spent \/ (tab[t].at = "exchange" /\ SpendCode(t))
  BY DEF Close, Idle
<1>2. /\ browser \in [Tabs -> Browsers]
      /\ tab \in [Tabs -> [at : Places, state : States \cup {NoState},
                           alone : BOOLEAN]]
      /\ cookie \in [Browsers -> States \cup {NoState}]
  BY DEF TokenIInv, TypeOK
<1>3. /\ ~ LoggingIn(t)' /\ ~ tab'[t].alone
      /\ \A u \in Tabs \ {t} : tab'[u] = tab[u]
  BY <1>1, <1>2 DEF At, LoggingIn
<1>4. a # t /\ tab[a].alone
  BY <1>3
<1>5. Ahead(a)
  BY <1>4 DEF AloneIsAhead, Ahead
<1>6. tab'[a].state \notin spent'
  <2>1. CASE tab[t].at = "exchange" /\ SpendCode(t)
    <3>1. browser[a] # browser[t]
      BY <1>4, <1>5, <2>1 DEF Ahead, Others, LoggingIn
    <3>2. tab[t].state[2] = browser[t]
      BY <2>1 DEF TokenIInv, ExchangeIsOwn
    <3>3. tab[a].state[2] = browser[a]
      BY <1>2, <1>5 DEF Ahead, TokenIInv, TypeOK, CookieIsOwn
    <3> QED
      BY <1>3, <1>4, <1>5, <2>1, <3>1, <3>2, <3>3 DEF SpendCode, Ahead
  <2>2. CASE UNCHANGED spent
    BY <1>3, <1>4, <1>5, <2>2 DEF Ahead
  <2> QED
    BY <1>1, <2>1, <2>2
<1>7. Others(a)' = Others(a)
  BY <1>1 DEF Others
<1>8. ASSUME NEW u \in Others(a), LoggingIn(u)'
      PROVE  tab'[u].at = "callback" /\ tab'[u].state # tab'[a].state
  BY <1>3, <1>4, <1>5, <1>8 DEF Ahead, LoggingIn, Others
<1> QED
  BY <1>1, <1>3, <1>4, <1>5, <1>6, <1>7, <1>8 DEF Ahead, LoggingIn

\* A callback followed again is a callback: with the token of a login that is
\* alone in that browser it ends that, with another's it will be turned away.
LEMMA AheadDuplicate ==
  ASSUME TokenIInv, AloneIsAhead, NEW t \in Tabs, NEW d \in Tabs, Duplicate(t, d)
  PROVE  AloneIsAhead'
<1> SUFFICES ASSUME NEW a \in Tabs, tab'[a].alone PROVE Ahead(a)'
  BY DEF AloneIsAhead, Ahead
<1> DEFINE same == {v \in Others(d) : tab[v].state = tab[t].state}
<1>1. /\ tab' = [Disturbing(same) EXCEPT ![d] =
                   At("callback", tab[t].state, FALSE)]
      /\ UNCHANGED <<browser, cookie, spent>>
  BY DEF Duplicate
<1>2. \A v \in Tabs : v \in same <=> v \in Others(d) /\ tab[v].state = tab[t].state
  BY DEF Others
<1> HIDE DEF same
<1>3. tab \in [Tabs -> [at : Places, state : States \cup {NoState},
                        alone : BOOLEAN]]
  BY DEF TokenIInv, TypeOK
<1>4. /\ tab'[d].at = "callback" /\ tab'[d].state = tab[t].state
      /\ ~ tab'[d].alone
      /\ \A u \in Tabs \ {d} :
           /\ tab'[u].at = tab[u].at /\ tab'[u].state = tab[u].state
           /\ u \in same => ~ tab'[u].alone
           /\ u \notin same => tab'[u].alone = tab[u].alone
  BY <1>1, <1>3 DEF Disturbing, At
<1>5. a # d /\ a \notin same /\ tab[a].alone
  BY <1>4
<1>6. Ahead(a)
  BY <1>5 DEF AloneIsAhead, Ahead
<1>7. Others(a)' = Others(a)
  BY <1>1 DEF Others
<1>8. ASSUME NEW u \in Others(a), LoggingIn(u)'
      PROVE  tab'[u].at = "callback" /\ tab'[u].state # tab'[a].state
  <2>1. CASE u = d
    <3>1. a \in Others(d)
      BY <1>5, <1>8, <2>1 DEF Others
    <3> QED
      BY <1>2, <1>4, <1>5, <2>1, <3>1
  <2>2. CASE u # d
    BY <1>4, <1>5, <1>6, <1>8, <2>2 DEF Ahead, LoggingIn, Others
  <2> QED
    BY <2>1, <2>2
<1>9. LoggingIn(a)' /\ cookie'[browser'[a]] = tab'[a].state
  BY <1>1, <1>4, <1>5, <1>6 DEF Ahead, LoggingIn
<1>10. tab'[a].state \notin spent'
  BY <1>1, <1>4, <1>5, <1>6 DEF Ahead
<1> QED
  BY <1>7, <1>8, <1>9, <1>10 DEF Ahead

\* An expired state takes the cookie from the logins of one browser, and none of
\* them is alone any more; sessions do not matter to a login.
LEMMA AheadCookies ==
  ASSUME TokenIInv, AloneIsAhead, NEW b \in Browsers,
         Logout(b) \/ SessionEnds(b) \/ StateExpires(b)
  PROVE  AloneIsAhead'
<1>1. CASE UNCHANGED <<browser, tab, cookie, spent>>
  BY <1>1 DEF AloneIsAhead, LoggingIn, Others
<1>2. CASE StateExpires(b)
  <2> SUFFICES ASSUME NEW a \in Tabs, tab'[a].alone PROVE Ahead(a)'
    BY DEF AloneIsAhead, Ahead
  <2>1. /\ cookie' = [cookie EXCEPT ![b] = NoState]
        /\ tab' = Disturbing({t \in Tabs : browser[t] = b})
        /\ UNCHANGED <<browser, spent>>
    BY <1>2 DEF StateExpires
  <2>2. /\ browser \in [Tabs -> Browsers]
        /\ tab \in [Tabs -> [at : Places, state : States \cup {NoState},
                             alone : BOOLEAN]]
        /\ cookie \in [Browsers -> States \cup {NoState}]
    BY DEF TokenIInv, TypeOK
  <2>3. \A u \in Tabs :
          /\ tab'[u].at = tab[u].at /\ tab'[u].state = tab[u].state
          /\ tab'[u].alone => tab[u].alone /\ browser[u] # b
    BY <2>1, <2>2 DEF Disturbing
  <2>4. tab[a].alone /\ browser[a] # b
    BY <2>3
  <2>5. Ahead(a)
    BY <2>4 DEF AloneIsAhead, Ahead
  <2>6. cookie'[browser[a]] = cookie[browser[a]]
    BY <2>1, <2>2, <2>4
  <2>7. Others(a)' = Others(a) /\ \A u \in Others(a) : u \in Tabs
    BY <2>1 DEF Others
  <2> QED
    BY <2>1, <2>3, <2>5, <2>6, <2>7 DEF Ahead, LoggingIn
<1> QED
  BY <1>1, <1>2 DEF Logout, SessionEnds

\* No step lets another login of the browser past one that is alone.
LEMMA AheadStep ==
  ASSUME TokenIInv, AloneIsAhead, [Next]_vars
  PROVE  AloneIsAhead'
<1>1. CASE UNCHANGED vars
  BY <1>1 DEF vars, AloneIsAhead, LoggingIn, Others
<1>2. ASSUME NEW t \in Tabs, Open(t) \/ Follow(t) PROVE AloneIsAhead'
  BY <1>2, AheadTabSteps, AheadLogin, AheadExchange DEF Follow
<1>3. ASSUME NEW t \in Tabs, LoadFails(t) \/ Deny(t) \/ ExchangeFails(t)
      PROVE  AloneIsAhead'
  BY <1>3, AheadTabSteps, AheadExchange
<1>4. ASSUME NEW t \in Tabs, Close(t) \/ \E u \in Tabs : Duplicate(t, u)
      PROVE  AloneIsAhead'
  BY <1>4, AheadClose, AheadDuplicate
<1>5. ASSUME NEW b \in Browsers, Logout(b) \/ SessionEnds(b) \/ StateExpires(b)
      PROVE  AloneIsAhead'
  BY <1>5, AheadCookies
<1> QED
  BY <1>1, <1>2, <1>3, <1>4, <1>5 DEF Next

-----------------------------------------------------------------------------
\* Every reachable state has the invariant: tokens are with their browsers, and
\* a login that is alone is ahead of whatever else its browser follows.
THEOREM LoginInvariance == Spec => []IInv
<1>1. Init => IInv
  <2>1. Init => AloneIsAhead
    BY DEF Init, AloneIsAhead, Idle, At
  <2> QED
    BY <2>1, InitTokenIInv DEF IInv
<1>2. IInv /\ [Next]_vars => IInv'
  BY TokenStep, AheadStep DEF IInv
<1> QED
  BY <1>1, <1>2, PTL DEF Spec

\* The comment in login(), for any number of browsers and tabs: a session comes
\* from a login of the browser that has it.
THEOREM SessionsAreOwn == Spec => []SessionIsOwn
<1>1. IInv => SessionIsOwn
  BY DEF IInv, TokenIInv
<1> QED
  BY <1>1, LoginInvariance, PTL

\* callback() turns away only a login that something came across: another login
\* or a duplicate in its browser, whose cookie they share, or a mishap.
THEOREM LoneLoginsSucceed == Spec => []LoneLoginSucceeds
<1>1. IInv => LoneLoginSucceeds
  BY DEF IInv, AloneIsAhead, LoneLoginSucceeds, LoggingIn
<1> QED
  BY <1>1, LoginInvariance, PTL

-----------------------------------------------------------------------------
(***************************************************************************)
(* Why no redirect goes round for ever: a browser that has been through    *)
(* the login is accepted, unless something ends its session, and a mishap  *)
(* is worth the redirects it costs.                                        *)
(***************************************************************************)
OnTheWay(t) == tab[t].at \notin {"idle", "served", "rejected"}

Stage(t) ==
  CASE tab[t].at = "request"  -> IF Accepted(browser[t]) THEN 1 ELSE 6
    [] tab[t].at = "login"    -> 5
    [] tab[t].at = "provider" -> 4
    [] tab[t].at = "callback" -> 3
    [] tab[t].at = "exchange" -> 2
    [] OTHER                  -> 0

\* The redirects that are left for tab t.
Left(t) == 6 * (MaxMishaps - mishaps) + Stage(t)

\* The answer of the callback makes a session that is accepted.
LEMMA NewSessionIsAccepted ==
  ASSUME NEW owner \in Browsers
  PROVE  <<owner, TRUE>> # NoSession /\ <<owner, TRUE>>[2]
<1>1. <<owner, TRUE>> \in Browsers \X BOOLEAN
  OBVIOUS
<1>2. <<owner, TRUE>> # NoSession
  BY <1>1, LoginAssumption
<1>3. <<owner, TRUE>>[2] = TRUE
  OBVIOUS
<1>4. <<owner, TRUE>>[2]
  BY <1>3, Zenon
<1> QED
  BY <1>2, <1>4

\* A tab stays where it is when something comes across its login.
LEMMA DisturbedStays ==
  ASSUME TypeOK, NEW t \in Tabs, NEW U
  PROVE  Disturbing(U)[t].at = tab[t].at
<1>1. tab[t] \in [at : Places, state : States \cup {NoState}, alone : BOOLEAN]
  BY DEF TypeOK
<1> QED
  BY <1>1 DEF Disturbing

\* A redirect that is followed is one less, ...
LEMMA FollowIsNearer ==
  ASSUME TypeOK, NEW t \in Tabs, Follow(t)
  PROVE  OnTheWay(t) /\ Left(t)' < Left(t)
<1>0. /\ browser[t] \in Browsers /\ DOMAIN tab = Tabs /\ DOMAIN session = Browsers
      /\ tab[t] \in [at : Places, state : States \cup {NoState}, alone : BOOLEAN]
      /\ mishaps \in 0..MaxMishaps /\ MaxMishaps \in Nat
  BY LoginAssumption DEF TypeOK
<1>1. UNCHANGED <<browser, mishaps>>
  BY DEF Follow, Serve, EnforceLogin, Login, Authenticate, CheckState, InvalidState,
         Exchange, CodeIsSpent
<1>2. OnTheWay(t) /\ Stage(t)' < Stage(t)
  <2>1. CASE Serve(t) \/ EnforceLogin(t)
    BY <1>0, <1>1, <2>1 DEF Serve, EnforceLogin, Goes, Stage, OnTheWay, Accepted
  <2>2. CASE Login(t) \/ Authenticate(t) \/ CheckState(t)
    BY <1>0, <1>1, <2>2
       DEF Login, Authenticate, CheckState, Disturbing, Goes, At, Stage, OnTheWay
  <2>3. CASE InvalidState(t) \/ CodeIsSpent(t)
    BY <1>0, <1>1, <2>3 DEF InvalidState, CodeIsSpent, Rejects, At, Stage, OnTheWay
  <2>4. CASE Exchange(t)
    <3>1. /\ tab[t].at = "exchange" /\ tab'[t].at = "request"
          /\ session'[browser[t]] = <<tab[t].state[2], TRUE>>
      BY <1>0, <2>4 DEF Exchange, StartSession, At
    <3>2. tab[t].state[2] \in Browsers
      BY <1>0, <3>1 DEF TypeOK, LoggingIn, States
    <3>3. Accepted(browser[t])'
      BY <1>1, <3>1, <3>2, NewSessionIsAccepted DEF Accepted
    <3> QED
      BY <3>1, <3>3 DEF Stage, OnTheWay
  <2> QED
    BY <2>1, <2>2, <2>3, <2>4 DEF Follow
<1>3. Stage(t) \in 0..6 /\ Stage(t)' \in 0..6
  BY DEF Stage
<1> QED
  BY <1>0, <1>1, <1>2, <1>3 DEF Left

\* ... and nothing else makes it more, but for a request the user makes.
LEMMA NothingSetsBack ==
  ASSUME TypeOK, [Next]_vars, NEW t \in Tabs, OnTheWay(t)
  PROVE  Left(t)' <= Left(t)
<1>0. /\ browser[t] \in Browsers /\ DOMAIN tab = Tabs /\ DOMAIN session = Browsers
      /\ mishaps \in 0..MaxMishaps /\ MaxMishaps \in Nat
      /\ Stage(t) \in 0..6 /\ Stage(t)' \in 0..6
  BY LoginAssumption DEF TypeOK, Stage
<1>1. UNCHANGED browser
  BY DEF Next, Open, Follow, Serve, EnforceLogin, LoadFails, Login, Authenticate, Deny,
         CheckState, InvalidState, Exchange, CodeIsSpent, ExchangeFails, Duplicate,
         Close, Logout, SessionEnds, StateExpires, vars
\* A mishap is worth six redirects, and those it costs are five.
<1>2. ASSUME Mishap, Stage(t)' <= Stage(t) + 5 PROVE Left(t)' <= Left(t)
  BY <1>0, <1>2 DEF Mishap, Left
<1>3. ASSUME UNCHANGED mishaps, Stage(t)' <= Stage(t) PROVE Left(t)' <= Left(t)
  BY <1>0, <1>3 DEF Left
<1>4. ASSUME UNCHANGED session, tab'[t].at = tab[t].at PROVE Stage(t)' = Stage(t)
  BY <1>1, <1>4 DEF Stage, Accepted
<1>5. ASSUME NEW u \in Tabs, Follow(u) PROVE Left(t)' <= Left(t)
  <2>1. CASE u = t
    <3>1. Left(t)' < Left(t)
      BY <1>5, <2>1, FollowIsNearer
    <3>2. UNCHANGED mishaps
      BY <1>5 DEF Follow, Serve, EnforceLogin, Login, Authenticate, CheckState,
                  InvalidState, Exchange, CodeIsSpent
    <3> QED
      BY <1>0, <3>1, <3>2 DEF Left
  <2>2. CASE u # t
    <3>1. tab'[t].at = tab[t].at /\ UNCHANGED mishaps
      <4>1. CASE Login(u)
        <5>1. DOMAIN Disturbing(Others(u)) = Tabs
          BY DEF Disturbing
        <5> QED
          BY <2>2, <4>1, <5>1, DisturbedStays DEF Login
      <4>2. CASE \/ Serve(u) \/ EnforceLogin(u) \/ Authenticate(u) \/ CheckState(u)
                \/ InvalidState(u) \/ Exchange(u) \/ CodeIsSpent(u)
        BY <1>0, <2>2, <4>2
           DEF Serve, EnforceLogin, Authenticate, CheckState, InvalidState, Exchange,
               CodeIsSpent, Goes, Rejects
      <4> QED
        BY <1>5, <4>1, <4>2 DEF Follow
    <3>2. UNCHANGED session \/ Accepted(browser[t])' \/ session'[browser[t]] = session[browser[t]]
      <4>1. CASE Exchange(u)
        <5>1. /\ tab[u].state[2] \in Browsers /\ browser[u] \in Browsers
          BY <4>1 DEF TypeOK, LoggingIn, States, Exchange
        <5>2. session' = [session EXCEPT ![browser[u]] = <<tab[u].state[2], TRUE>>]
          BY <4>1 DEF Exchange, StartSession
        <5>3. CASE browser[t] = browser[u]
          <6>1. session'[browser[u]] = <<tab[u].state[2], TRUE>>
            BY <1>0, <5>1, <5>2
          <6> QED
            BY <1>1, <5>1, <5>3, <6>1, NewSessionIsAccepted DEF Accepted
        <5>4. CASE browser[t] # browser[u]
          BY <1>0, <5>2, <5>4
        <5> QED
          BY <5>3, <5>4
      <4>2. CASE ~ Exchange(u)
        BY <1>5, <4>2 DEF Follow, Serve, EnforceLogin, Login, Authenticate, CheckState,
                          InvalidState, CodeIsSpent
      <4> QED
        BY <4>1, <4>2
    <3>3. Stage(t)' <= Stage(t)
      BY <1>1, <3>1, <3>2 DEF Stage, Accepted
    <3> QED
      BY <1>3, <3>1, <3>3
  <2> QED
    BY <2>1, <2>2
<1>6. ASSUME NEW u \in Tabs, Open(u) PROVE Left(t)' <= Left(t)
  <2>1. u # t
    BY <1>6 DEF Open, OnTheWay
  <2>2. tab'[t].at = tab[t].at /\ UNCHANGED <<mishaps, session>>
    BY <1>0, <1>6, <2>1 DEF Open
  <2> QED
    BY <1>0, <1>3, <1>4, <2>2
<1>7. ASSUME NEW u \in Tabs, LoadFails(u) \/ Deny(u) \/ ExchangeFails(u)
      PROVE  Left(t)' <= Left(t)
  <2>1. Mishap /\ UNCHANGED session
    BY <1>7 DEF LoadFails, Deny, ExchangeFails
  <2>2. CASE u # t
    <3>1. tab'[t].at = tab[t].at
      BY <1>0, <1>7, <2>2 DEF LoadFails, Deny, ExchangeFails, Goes, Rejects, TypeOK
    <3> QED
      BY <1>0, <1>2, <1>4, <2>1, <3>1
  <2>3. CASE u = t
    <3>1. tab'[t].at \in {"login", "rejected"}
      BY <1>0, <1>7, <2>3 DEF LoadFails, Deny, ExchangeFails, Goes, Rejects, At, TypeOK
    <3>2. Stage(t) >= 1 /\ Stage(t)' <= 5
      BY <3>1 DEF Stage, OnTheWay, TypeOK, Places
    <3> QED
      BY <1>0, <1>2, <2>1, <3>2
  <2> QED
    BY <2>2, <2>3
<1>8. ASSUME NEW u \in Tabs, NEW v \in Tabs, Duplicate(u, v) PROVE Left(t)' <= Left(t)
  <2>1. v # t
    BY <1>8 DEF Duplicate, OnTheWay
  <2>2. tab'[t].at = tab[t].at /\ UNCHANGED <<mishaps, session>>
    <3> DEFINE D == Disturbing({x \in Others(v) : tab[x].state = tab[u].state})
    <3>1. D[t].at = tab[t].at
      BY DisturbedStays
    <3>2. tab' = [D EXCEPT ![v] = At("callback", tab[u].state, FALSE)]
      BY <1>8 DEF Duplicate
    <3>3. DOMAIN D = Tabs
      BY DEF Disturbing
    <3> HIDE DEF D
    <3> QED
      BY <1>8, <2>1, <3>1, <3>2, <3>3 DEF Duplicate
  <2> QED
    BY <1>0, <1>3, <1>4, <2>2
<1>9. ASSUME NEW u \in Tabs, Close(u) PROVE Left(t)' <= Left(t)
  <2>1. UNCHANGED <<mishaps, session>> /\ (tab'[t].at = tab[t].at \/ tab'[t].at = "idle")
    BY <1>0, <1>9 DEF Close, Idle, At
  <2>2. tab'[t].at = "idle" => Stage(t)' = 0
    BY DEF Stage
  <2> QED
    BY <1>0, <1>3, <1>4, <2>1, <2>2
<1>10. ASSUME NEW b \in Browsers, Logout(b) \/ SessionEnds(b) \/ StateExpires(b)
       PROVE  Left(t)' <= Left(t)
  <2>1. Mishap /\ tab'[t].at = tab[t].at
    BY <1>10, DisturbedStays DEF Logout, SessionEnds, StateExpires
  <2>2. Stage(t)' <= Stage(t) + 5
    BY <1>1, <2>1 DEF Stage
  <2> QED
    BY <1>2, <2>1, <2>2
<1>11. CASE UNCHANGED vars
  BY <1>0, <1>3, <1>4, <1>11 DEF vars
<1> QED
  BY <1>5, <1>6, <1>7, <1>8, <1>9, <1>10, <1>11 DEF Next

\* However many tabs and browsers log in, whoever is sent to /login, turned away
\* or answered with an error, the redirects a request still has before it become
\* fewer with each that is followed (enforce_login, login, callback), and nobody
\* else's steps add any.  NoEndlessRedirect is this and the fairness of Follow.
THEOREM RedirectsAreFinite ==
  Spec => /\ [][\A t \in Tabs : OnTheWay(t) =>
                  /\ Left(t)' <= Left(t)
                  /\ Follow(t) => Left(t)' < Left(t)]_vars
          /\ [](\A t \in Tabs : Left(t) \in 0..(6 * (MaxMishaps + 1)))
<1>1. IInv /\ [Next]_vars =>
        [\A t \in Tabs : OnTheWay(t) =>
           /\ Left(t)' <= Left(t)
           /\ Follow(t) => Left(t)' < Left(t)]_vars
  BY FollowIsNearer, NothingSetsBack DEF IInv, TokenIInv
<1>2. IInv => \A t \in Tabs : Left(t) \in 0..(6 * (MaxMishaps + 1))
  <2> SUFFICES ASSUME TypeOK, NEW t \in Tabs
               PROVE  Left(t) \in 0..(6 * (MaxMishaps + 1))
    BY DEF IInv, TokenIInv
  <2>1. Stage(t) \in 0..6 /\ mishaps \in 0..MaxMishaps /\ MaxMishaps \in Nat
    BY LoginAssumption DEF TypeOK, Stage
  <2> QED
    BY <2>1 DEF Left
<1> QED
  BY <1>1, <1>2, LoginInvariance, PTL DEF Spec
=============================================================================
