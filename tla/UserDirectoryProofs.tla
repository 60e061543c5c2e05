-------------------------- MODULE UserDirectoryProofs --------------------------
(***************************************************************************)
(* Theorems about UserDirectory, for any number of concurrent requests,    *)
(* tokens, policies and changes of the policy.                             *)
(***************************************************************************)
EXTENDS UserDirectory, TLAPS

\* A token names a user and an email, a list is what a policy gives a user.
LEMMA DirectoryTypes ==
  /\ \A t \in Tokens : /\ t.email \in Emails /\ t.username \in Usernames
                        /\ t.username \in NamesOf(t.email)
  /\ \A p \in Policies : \A u \in Usernames : p[u] \in Lists
  /\ NoRow \notin Row
  BY DirectoryAssumption DEF Emails, Usernames, Lists, Row, NamesOf

\* A request in progress has a token.
LEMMA RequestFields ==
  ASSUME TypeOK, NEW r \in Requests, req[r].pc # "free"
  PROVE  /\ req[r].token \in Tokens
         /\ Email(r) \in Emails
         /\ req[r].user \in Row \cup {NoRow}
         /\ req[r].pc # "read" => req[r].user \in Row
         /\ req[r].pc \notin {"read", "loaded"} =>
              /\ req[r].asked \in Usernames /\ req[r].objects \in Lists
              /\ req[r].pc \in {"refused", "admitted", "serving"}
<1>1. req[r] \in RequestStates
  BY DEF TypeOK
<1> QED
  BY <1>1, DirectoryTypes DEF RequestStates, Free, Email

\* What a request does to itself leaves the other ones alone.
Holds(r) ==
  /\ req[r] \in RequestStates
  /\ (req[r].pc # "free" /\ req[r].user # NoRow) =>
       row[Email(r)] # NoRow /\ req[r].user.username \in NamesOf(Email(r))
  /\ req[r].pc = "loaded" => req[r].user.username = req[r].token.username
  /\ req[r].pc \in {"refused", "admitted", "serving"}
       => req[r].asked = req[r].token.username
  /\ req[r].pc = "serving" =>
       /\ req[r].user.allowed = req[r].objects
       /\ req[r].user.username \in NamesOf(Email(r))

Table ==
  /\ row \in [Emails -> Row \cup {NoRow}]
  /\ copy \in [Emails -> Row \cup {NoRow}]
  /\ policy \in Policies
  /\ changes \in 0..MaxChanges
  /\ \A e \in Emails :
       /\ copy[e] # NoRow => row[e] # NoRow
       /\ row[e] # NoRow => row[e].username \in NamesOf(e)
       /\ copy[e] # NoRow => copy[e].username \in NamesOf(e)

LEMMA IInvIsEach ==
  DirectoryIInv <=> /\ Table
                    /\ req = [r \in Requests |-> req[r]]
                    /\ \A r \in Requests : Holds(r)
  BY DEF DirectoryIInv, Table, Holds, TypeOK, AskedAsItsToken, ServedAsDecided

\* No step takes a row away.
LEMMA PutKeeps ==
  ASSUME Table, NEW e \in Emails, NEW item \in Row, Put(e, item),
         item.username \in NamesOf(e),
         UNCHANGED <<policy, changes>>
  PROVE  /\ Table'
         /\ row'[e] # NoRow
         /\ \A f \in Emails : row[f] # NoRow => row'[f] # NoRow
  BY DirectoryTypes DEF Table, Put

\* A request that goes on changes only itself.
LEMMA OneGoesOn ==
  ASSUME DirectoryIInv, Table', NEW r \in Requests, NEW new,
         req' = [req EXCEPT ![r] = new], Holds(r)',
         \A f \in Emails : row[f] # NoRow => row'[f] # NoRow
  PROVE  DirectoryIInv'
<1>1. /\ req' = [s \in Requests |-> req'[s]]
      /\ \A s \in Requests \ {r} : req'[s] = req[s]
  BY DEF DirectoryIInv, TypeOK
<1>2. ASSUME NEW s \in Requests \ {r} PROVE Holds(s)'
  <2>1. Holds(s)
    BY IInvIsEach
  <2>2. Email(s)' = Email(s) /\ (req[s].pc # "free" => Email(s) \in Emails)
    BY <1>1, RequestFields DEF Email, DirectoryIInv
  <2> QED
    BY <1>1, <2>1, <2>2 DEF Holds
<1> QED
  BY <1>1, <1>2
     DEF DirectoryIInv, Table, Holds, TypeOK, AskedAsItsToken, ServedAsDecided

-----------------------------------------------------------------------------
\* User.load leaves a row with the token's name, and the user it is.
LEMMA LoadSteps ==
  ASSUME DirectoryIInv, NEW r \in Requests,
         Known(r) \/ Rename(r) \/ Create(r) \/ \E t \in Tokens : Get(r, t)
  PROVE  DirectoryIInv'
<1>0. Table /\ Holds(r) /\ TypeOK
  BY IInvIsEach DEF DirectoryIInv
<1>1. ASSUME NEW t \in Tokens, Get(r, t) PROVE DirectoryIInv'
  <2>1. PICK seen \in {row[t.email], copy[t.email]} :
          req' = [req EXCEPT ![r] = [pc |-> "read", token |-> t, user |-> seen]]
    BY <1>1 DEF Get
  <2>2. req'[r] = [pc |-> "read", token |-> t, user |-> seen]
    BY <1>0, <2>1 DEF TypeOK
  <2>3. /\ t.email \in Emails /\ seen \in Row \cup {NoRow}
        /\ seen # NoRow => /\ row[t.email] # NoRow
                           /\ seen.username \in NamesOf(t.email)
    BY <1>0, DirectoryTypes DEF Table
  <2>4. Table' /\ UNCHANGED row
    BY <1>0, <1>1 DEF Get, Table
  <2>5. Holds(r)'
    BY <2>2, <2>3, <2>4 DEF Holds, RequestStates, Email
  <2> QED
    BY <2>1, <2>4, <2>5, OneGoesOn
<1>2. ASSUME Known(r) PROVE DirectoryIInv'
  <2>1. /\ req' = [req EXCEPT ![r] = [req[r] EXCEPT !.pc = "loaded"]]
        /\ req[r].pc = "read" /\ req[r].user # NoRow
        /\ req[r].user.username = req[r].token.username
    BY <1>2 DEF Known
  <2>2. req[r] \in [pc : {"read"}, token : Tokens, user : Row \cup {NoRow}]
    BY <1>0, <2>1 DEF Holds, RequestStates, Free
  <2>3. /\ req'[r] \in [pc : {"loaded"}, token : Tokens, user : Row]
        /\ req'[r].token = req[r].token /\ req'[r].user = req[r].user
    BY <1>0, <2>1, <2>2 DEF TypeOK
  <2>4. Table' /\ UNCHANGED row
    BY <1>0, <1>2 DEF Known, Table
  <2>5. Holds(r)'
    BY <1>0, <2>1, <2>3, <2>4 DEF Holds, RequestStates, Email
  <2> QED
    BY <2>1, <2>4, <2>5, OneGoesOn
<1>3. ASSUME NEW item \in Row, req[r].pc = "read", Put(Email(r), item),
             item.username = req[r].token.username,
             req' = [req EXCEPT ![r] = [@ EXCEPT !.pc = "loaded", !.user = item]],
             UNCHANGED <<policy, changes>>
      PROVE  DirectoryIInv'
  <2>1. req[r] \in [pc : {"read"}, token : Tokens, user : Row \cup {NoRow}]
    BY <1>0, <1>3 DEF Holds, RequestStates, Free
  <2>2. req' = [req EXCEPT ![r] = [req[r] EXCEPT !.pc = "loaded", !.user = item]]
    BY <1>3
  <2>3. /\ req'[r].pc = "loaded" /\ req'[r].user = item
        /\ req'[r].token = req[r].token
        /\ req'[r] \in [pc : {"loaded"}, token : Tokens, user : Row]
    <3>1. ASSUME NEW q \in [pc : {"read"}, token : Tokens, user : Row \cup {NoRow}],
                 NEW n, n = [q EXCEPT !.pc = "loaded", !.user = item]
          PROVE  /\ n.pc = "loaded" /\ n.user = item /\ n.token = q.token
                 /\ n \in [pc : {"loaded"}, token : Tokens, user : Row]
      BY <3>1
    <3> QED
      BY <1>0, <2>1, <2>2, <3>1 DEF TypeOK
  <2>4. Email(r) \in Emails /\ req[r].token \in Tokens /\ Email(r)' = Email(r)
    BY <1>0, <1>3, <2>3, RequestFields DEF Email
  <2>n. item.username \in NamesOf(Email(r))
    BY <1>3, <2>4, DirectoryTypes DEF Email
  <2>5. /\ Table' /\ row'[Email(r)] # NoRow
        /\ \A f \in Emails : row[f] # NoRow => row'[f] # NoRow
    BY <1>0, <1>3, <2>4, <2>n, PutKeeps
  <2>6. Holds(r)'
    BY <1>3, <2>3, <2>4, <2>5, <2>n DEF Holds, RequestStates
  <2> QED
    BY <2>2, <2>5, <2>6, OneGoesOn
<1>4. ASSUME Rename(r) PROVE DirectoryIInv'
  <2>1. row[Email(r)] \in Row /\ req[r].token.username \in Usernames
    BY <1>0, <1>4, RequestFields, DirectoryTypes DEF Rename, Holds, Table
  <2>2. [row[Email(r)] EXCEPT !.username = req[r].token.username]
          = [username |-> req[r].token.username, allowed |-> row[Email(r)].allowed]
    BY <2>1 DEF Row
  <2>3. [row[Email(r)] EXCEPT !.username = req[r].token.username] \in Row
    BY <2>1, <2>2 DEF Row
  <2> QED
    BY <1>3, <1>4, <2>2, <2>3 DEF Rename
<1>5. ASSUME Create(r) PROVE DirectoryIInv'
  <2>1. req[r].token.username \in Usernames
    BY <1>0, <1>5, RequestFields, DirectoryTypes DEF Create
  <2>2. [username |-> req[r].token.username, allowed |-> {}] \in Row
    BY <2>1 DEF Row
  <2> QED
    BY <1>3, <1>5, <2>2 DEF Create
<1> QED
  BY <1>1, <1>2, <1>4, <1>5

\* The query and what follows use the name and the list of this request.
LEMMA DecisionSteps ==
  ASSUME DirectoryIInv, NEW r \in Requests, Ask(r) \/ Settle(r) \/ Leave(r)
  PROVE  DirectoryIInv'
<1>0. Table /\ Holds(r) /\ TypeOK
  BY IInvIsEach DEF DirectoryIInv
<1> DEFINE Answered == [pc : {"refused", "admitted", "serving"}, token : Tokens,
                        user : Row, asked : Usernames, objects : Lists]
<1>1. ASSUME Ask(r) PROVE DirectoryIInv'
  <2>1. PICK verdict \in {"admitted", "refused"} :
          req' = [req EXCEPT ![r] =
            [pc |-> verdict, token |-> req[r].token, user |-> req[r].user,
             asked |-> req[r].user.username,
             objects |-> policy[req[r].user.username]]]
    BY <1>1 DEF Ask
  <2>2. req'[r] = [pc |-> verdict, token |-> req[r].token, user |-> req[r].user,
                   asked |-> req[r].user.username,
                   objects |-> policy[req[r].user.username]]
    BY <1>0, <2>1 DEF TypeOK
  <2>3. req[r].pc = "loaded" /\ req[r].token \in Tokens /\ req[r].user \in Row
    BY <1>0, <1>1, RequestFields DEF Ask
  <2>4. policy[req[r].user.username] \in Lists
    BY <1>0, <2>3, DirectoryTypes DEF Table, Row
  <2>5. req'[r] \in Answered
    BY <2>2, <2>3, <2>4 DEF Row
  <2>6. Table' /\ UNCHANGED row
    BY <1>0, <1>1 DEF Ask, Table
  <2>7. Holds(r)'
    BY <1>0, <2>2, <2>3, <2>5, <2>6 DEF Holds, RequestStates, Email
  <2> QED
    BY <2>1, <2>6, <2>7, OneGoesOn
<1>2. ASSUME Unchanged(r) PROVE DirectoryIInv'
  <2>1. req[r] \in Answered
    BY <1>0, <1>2 DEF Holds, RequestStates, Free, Unchanged
  <2>2. req' = [req EXCEPT ![r] = [req[r] EXCEPT !.pc = "serving"]]
    BY <1>2 DEF Unchanged
  <2>3. /\ req'[r] \in Answered /\ req'[r].pc = "serving"
        /\ req'[r].token = req[r].token /\ req'[r].user = req[r].user
        /\ req'[r].asked = req[r].asked /\ req'[r].objects = req[r].objects
    BY <1>0, <2>1, <2>2 DEF TypeOK
  <2>4. Table' /\ UNCHANGED row
    BY <1>0, <1>2 DEF Unchanged, Table
  <2>5. Holds(r)'
    <3>1. req[r].user # NoRow
      BY <2>1, DirectoryTypes
    <3> QED
      BY <1>0, <1>2, <2>3, <2>4, <3>1 DEF Holds, RequestStates, Email, Unchanged
  <2> QED
    BY <2>2, <2>4, <2>5, OneGoesOn
<1>3. ASSUME SetAllowed(r) PROVE DirectoryIInv'
  <2> DEFINE item == [row[Email(r)] EXCEPT !.allowed = req[r].objects]
  <2>1. req[r] \in Answered /\ req[r].pc = "admitted"
    BY <1>0, <1>3 DEF Holds, RequestStates, Free, SetAllowed
  <2>2. /\ Email(r) \in Emails /\ row[Email(r)] \in Row
    BY <1>0, <2>1, RequestFields, DirectoryTypes DEF Holds, Table
  <2>3. /\ item \in Row /\ item.allowed = req[r].objects
        /\ item.username \in NamesOf(Email(r))
    <3>1. item = [username |-> row[Email(r)].username, allowed |-> req[r].objects]
      BY <2>2 DEF Row
    <3>2. row[Email(r)].username \in NamesOf(Email(r))
      BY <1>0, <2>2, DirectoryTypes DEF Table
    <3> QED
      BY <2>1, <2>2, <3>1, <3>2 DEF Row
  <2> HIDE DEF item
  <2>4. /\ req' = [req EXCEPT ![r] = [@ EXCEPT !.pc = "serving", !.user = item]]
        /\ Put(Email(r), item) /\ UNCHANGED <<policy, changes>>
    BY <1>3 DEF SetAllowed, item
  <2>5. req' = [req EXCEPT ![r] = [req[r] EXCEPT !.pc = "serving", !.user = item]]
    BY <2>4
  <2>6. /\ req'[r].pc = "serving" /\ req'[r].user = item
        /\ req'[r].token = req[r].token
        /\ req'[r].asked = req[r].asked /\ req'[r].objects = req[r].objects
        /\ req'[r] \in Answered
    <3>1. ASSUME NEW q \in Answered,
                 NEW n, n = [q EXCEPT !.pc = "serving", !.user = item]
          PROVE  /\ n.pc = "serving" /\ n.user = item /\ n.token = q.token
                 /\ n.asked = q.asked /\ n.objects = q.objects
                 /\ n \in Answered
      BY <2>3, <3>1
    <3> QED
      BY <1>0, <2>1, <2>5, <3>1 DEF TypeOK
  <2>7. /\ Table' /\ row'[Email(r)] # NoRow
        /\ \A f \in Emails : row[f] # NoRow => row'[f] # NoRow
    BY <1>0, <2>2, <2>3, <2>4, PutKeeps
  <2>8. Holds(r)'
    <3>1. Email(r)' = Email(r)
      BY <2>6 DEF Email
    <3> QED
      BY <1>0, <2>1, <2>3, <2>6, <2>7, <3>1 DEF Holds, RequestStates
  <2> QED
    BY <2>5, <2>7, <2>8, OneGoesOn
<1>4. ASSUME Leave(r) PROVE DirectoryIInv'
  <2>1. req'[r] = Free /\ Table' /\ UNCHANGED row
    BY <1>0, <1>4 DEF Leave, Table, TypeOK
  <2>2. Holds(r)'
    BY <2>1 DEF Holds, RequestStates, Free
  <2> QED
    BY <1>4, <2>1, <2>2, OneGoesOn DEF Leave
<1> QED
  BY <1>1, <1>2, <1>3, <1>4 DEF Settle

\* The invariant holds in every reachable state.
THEOREM DirectoryInvariance == Spec => []DirectoryIInv
<1>1. ASSUME Init PROVE DirectoryIInv
  BY <1>1, DirectoryAssumption
     DEF Init, DirectoryIInv, TypeOK, AskedAsItsToken, ServedAsDecided, RequestStates,
         Free
<1>2. ASSUME DirectoryIInv, [Next]_vars PROVE DirectoryIInv'
  <2>1. ASSUME NEW r \in Requests, Handle(r) \/ \E t \in Tokens : Get(r, t)
        PROVE  DirectoryIInv'
    BY <1>2, <2>1, LoadSteps, DecisionSteps DEF Handle
  <2>2. ASSUME UNCHANGED req, Table', UNCHANGED row PROVE DirectoryIInv'
    BY <1>2, <2>2 DEF DirectoryIInv, Table, TypeOK, AskedAsItsToken, ServedAsDecided,
                      Email
  <2>3. ASSUME NEW e \in Emails, CatchUp(e) PROVE DirectoryIInv'
    BY <1>2, <2>2, <2>3, IInvIsEach DEF CatchUp, Table
  <2>4. ASSUME ChangePolicy PROVE DirectoryIInv'
    BY <1>2, <2>2, <2>4, IInvIsEach, DirectoryAssumption DEF ChangePolicy, Table
  <2>5. CASE UNCHANGED vars
    BY <1>2, <2>2, <2>5, IInvIsEach DEF vars, Table
  <2> QED
    BY <1>2, <2>1, <2>3, <2>4, <2>5 DEF Next
<1> QED
  BY <1>1, <1>2, PTL DEF Spec

\* Whatever requests with other tokens of the email do to its row meanwhile, OPA
\* is asked in the name on the caller's token.
THEOREM OpaIsAskedRight == Spec => []AskedAsItsToken
<1>1. DirectoryIInv => AskedAsItsToken
  BY DEF DirectoryIInv
<1> QED
  BY <1>1, DirectoryInvariance, PTL

\* An answer shows the decision taken for it, not another request's.
THEOREM AnswersShowTheirDecision == Spec => []ServedAsDecided
<1>1. DirectoryIInv => ServedAsDecided
  BY DEF DirectoryIInv
<1> QED
  BY <1>1, DirectoryInvariance, PTL

-----------------------------------------------------------------------------
(***************************************************************************)
(* A row that has settled, of an email with one name.  Its list is OPA's,  *)
(* no copy misses it any more, and no request in progress will create it   *)
(* anew or write an answer of an earlier policy.                           *)
(***************************************************************************)
HasOneName(t) == \A u \in Tokens : u.email = t.email => u = t

OfEmail(r, e) == req[r].pc # "free" /\ Email(r) = e

\* Nothing that request r does can unsettle the row of token t.
Follows(r, t) ==
  /\ req[r].user # NoRow
  /\ req[r].pc \in {"refused", "admitted", "serving"} =>
       req[r].objects = policy[t.username]

Settled(t) ==
  /\ row[t.email] # NoRow /\ row[t.email].allowed = policy[t.username]
  /\ copy[t.email] # NoRow
  /\ \A r \in Requests : OfEmail(r, t.email) => Follows(r, t)

\* A request that goes on keeps it so if what it has now follows, too.
LEMMA OthersFollow ==
  ASSUME TypeOK, NEW t \in Tokens, Settled(t), NEW r \in Requests, NEW new,
         req' = [req EXCEPT ![r] = new], UNCHANGED policy,
         OfEmail(r, t.email)' => Follows(r, t)'
  PROVE  \A s \in Requests : OfEmail(s, t.email)' => Follows(s, t)'
<1>1. ASSUME NEW s \in Requests \ {r}, OfEmail(s, t.email)' PROVE Follows(s, t)'
  <2>1. req'[s] = req[s]
    BY DEF TypeOK
  <2>2. OfEmail(s, t.email)
    BY <1>1, <2>1 DEF OfEmail, Email
  <2>3. Follows(s, t)
    BY <2>2 DEF Settled
  <2> QED
    BY <2>1, <2>3 DEF Follows
<1> QED
  BY <1>1

\* A request of the email, once settled, does not unsettle it.
LEMMA RequestKeepsSettled ==
  ASSUME DirectoryIInv, DirectoryIInv', NEW t \in Tokens, HasOneName(t), Settled(t),
         NEW r \in Requests, Handle(r) \/ \E u \in Tokens : Get(r, u)
  PROVE  Settled(t)'
<1>0. /\ TypeOK /\ Holds(r) /\ policy' = policy
      /\ row[t.email] \in Row /\ t.email \in Emails /\ t.username \in Usernames
  <2>1. TypeOK /\ Holds(r)
    BY IInvIsEach DEF DirectoryIInv
  <2>2. policy' = policy
    BY DEF Handle, Get, Known, Rename, Create, Ask, Settle, Unchanged, SetAllowed, Leave
  <2> QED
    BY <2>1, <2>2, DirectoryTypes DEF Settled, TypeOK
\* The token of a request of this email is t, and its user has t's name.
<1>1. OfEmail(r, t.email) =>
        req[r].token = t /\ Follows(r, t) /\ req[r].user.username = t.username
  <2> SUFFICES ASSUME OfEmail(r, t.email)
               PROVE  req[r].token = t /\ Follows(r, t) /\ req[r].user.username = t.username
    OBVIOUS
  <2>1. req[r].token = t
    BY <1>0, RequestFields DEF OfEmail, Email, HasOneName
  <2>2. Follows(r, t)
    BY DEF Settled
  <2>3. req[r].user.username \in NamesOf(t.email)
    BY <1>0, <2>2 DEF OfEmail, Follows, Holds
  <2>4. req[r].user.username = t.username
    BY <2>3 DEF NamesOf, HasOneName
  <2> QED
    BY <2>1, <2>2, <2>4
<1>2. ASSUME UNCHANGED <<row, copy>>, NEW new, req' = [req EXCEPT ![r] = new],
             OfEmail(r, t.email)' => Follows(r, t)'
      PROVE  Settled(t)'
  BY <1>0, <1>2, OthersFollow DEF Settled
<1>3. ASSUME NEW u \in Tokens, Get(r, u) PROVE Settled(t)'
  <2>1. PICK seen \in {row[u.email], copy[u.email]} :
          req' = [req EXCEPT ![r] = [pc |-> "read", token |-> u, user |-> seen]]
    BY <1>3 DEF Get
  <2>2. req'[r] = [pc |-> "read", token |-> u, user |-> seen]
    BY <1>0, <2>1 DEF TypeOK
  <2>3. OfEmail(r, t.email)' => Follows(r, t)'
    BY <2>2 DEF OfEmail, Email, Follows, Settled
  <2> QED
    BY <1>2, <1>3, <2>1, <2>3 DEF Get
<1>4. ASSUME Known(r) PROVE Settled(t)'
  <2>1. /\ req' = [req EXCEPT ![r] = [req[r] EXCEPT !.pc = "loaded"]]
        /\ req[r].pc = "read"
    BY <1>4 DEF Known
  <2>2. req[r] \in [pc : {"read"}, token : Tokens, user : Row \cup {NoRow}]
    BY <1>0, <2>1 DEF Holds, RequestStates, Free
  <2>3. /\ req'[r].pc = "loaded" /\ req'[r].token = req[r].token
        /\ req'[r].user = req[r].user
    BY <1>0, <2>1, <2>2 DEF TypeOK
  <2>4. OfEmail(r, t.email)' => Follows(r, t)'
    BY <1>1, <2>1, <2>3 DEF OfEmail, Email, Follows
  <2> QED
    BY <1>2, <1>4, <2>1, <2>4 DEF Known
\* A new row, or a new name, is another email's.
<1>5. ASSUME Rename(r) \/ Create(r) PROVE Settled(t)'
  <2>1. ~ OfEmail(r, t.email) /\ Email(r) # t.email /\ req[r].pc = "read"
    BY <1>1, <1>5 DEF Rename, Create, OfEmail, Follows
  <2>2. PICK item : /\ Put(Email(r), item)
                    /\ req' = [req EXCEPT ![r] =
                         [req[r] EXCEPT !.pc = "loaded", !.user = item]]
    BY <1>5 DEF Rename, Create
  <2>3. row'[t.email] = row[t.email] /\ copy'[t.email] = copy[t.email]
    BY <1>0, <2>1, <2>2 DEF Put, TypeOK
  <2>4. req[r] \in [pc : {"read"}, token : Tokens, user : Row \cup {NoRow}]
    BY <1>0, <2>1 DEF Holds, RequestStates, Free
  <2>5. ~ OfEmail(r, t.email)'
    BY <1>0, <2>1, <2>2, <2>4 DEF OfEmail, Email, TypeOK
  <2> QED
    BY <1>0, <2>2, <2>3, <2>5, OthersFollow DEF Settled
<1>6. ASSUME Ask(r) PROVE Settled(t)'
  <2>1. PICK verdict \in {"admitted", "refused"} :
          req' = [req EXCEPT ![r] =
            [pc |-> verdict, token |-> req[r].token, user |-> req[r].user,
             asked |-> req[r].user.username, objects |-> policy[req[r].user.username]]]
    BY <1>6 DEF Ask
  <2>2. /\ req'[r].token = req[r].token /\ req'[r].user = req[r].user
        /\ req'[r].objects = policy[req[r].user.username]
    BY <1>0, <2>1 DEF TypeOK
  <2>3. OfEmail(r, t.email)' => Follows(r, t)'
    BY <1>0, <1>1, <1>6, <2>2 DEF OfEmail, Email, Follows, Ask
  <2> QED
    BY <1>2, <1>6, <2>1, <2>3 DEF Ask
<1>7. ASSUME Unchanged(r) PROVE Settled(t)'
  <2>1. /\ req' = [req EXCEPT ![r] = [req[r] EXCEPT !.pc = "serving"]]
        /\ req[r].pc = "admitted"
    BY <1>7 DEF Unchanged
  <2>2. req[r] \in [pc : {"refused", "admitted", "serving"}, token : Tokens, user : Row,
                    asked : Usernames, objects : Lists]
    BY <1>0, <2>1 DEF Holds, RequestStates, Free
  <2>3. /\ req'[r].token = req[r].token /\ req'[r].user = req[r].user
        /\ req'[r].objects = req[r].objects
    BY <1>0, <2>1, <2>2 DEF TypeOK
  <2>4. OfEmail(r, t.email)' => Follows(r, t)'
    BY <1>0, <1>1, <2>1, <2>3 DEF OfEmail, Email, Follows
  <2> QED
    BY <1>2, <1>7, <2>1, <2>4 DEF Unchanged
\* An answer that is written is the policy's.
<1>8. ASSUME SetAllowed(r) PROVE Settled(t)'
  <2> DEFINE item == [row[Email(r)] EXCEPT !.allowed = req[r].objects]
  <2>1. /\ req' = [req EXCEPT ![r] = [req[r] EXCEPT !.pc = "serving", !.user = item]]
        /\ req[r].pc = "admitted" /\ Put(Email(r), item)
    BY <1>8 DEF SetAllowed
  <2>2. req[r] \in [pc : {"refused", "admitted", "serving"}, token : Tokens, user : Row,
                    asked : Usernames, objects : Lists]
    BY <1>0, <2>1 DEF Holds, RequestStates, Free
  <2>3. req[r].user # NoRow
    BY <2>2, DirectoryTypes
  <2>4. row[Email(r)] \in Row
    BY <1>0, <2>1, <2>3, RequestFields DEF Holds, TypeOK
  <2>5. item \in Row /\ item.allowed = req[r].objects
    BY <2>2, <2>4 DEF Row
  <2> HIDE DEF item
  <2>6. /\ req'[r].token = req[r].token /\ req'[r].user = item
        /\ req'[r].objects = req[r].objects
    BY <1>0, <2>1, <2>2 DEF TypeOK
  <2>7. item # NoRow
    BY <2>5, DirectoryTypes
  <2>8. OfEmail(r, t.email)' => Follows(r, t)'
    BY <1>0, <1>1, <2>1, <2>6, <2>7 DEF OfEmail, Email, Follows
  <2>9. \A s \in Requests : OfEmail(s, t.email)' => Follows(s, t)'
    BY <1>0, <2>1, <2>8, OthersFollow
  <2>10. /\ row'[t.email] # NoRow /\ row'[t.email].allowed = policy[t.username]
         /\ copy'[t.email] # NoRow
    <3>1. CASE Email(r) = t.email
      <4>1. req[r].objects = policy[t.username]
        BY <1>1, <2>1, <3>1 DEF OfEmail, Follows
      <4>2. row'[t.email] = item /\ copy'[t.email] \in {item, copy[t.email]}
        BY <1>0, <2>1, <3>1 DEF Put, TypeOK
      <4> QED
        BY <2>5, <2>7, <4>1, <4>2 DEF Settled
    <3>2. CASE Email(r) # t.email
      <4>1. row'[t.email] = row[t.email] /\ copy'[t.email] = copy[t.email]
        BY <1>0, <2>1, <3>2 DEF Put, TypeOK
      <4> QED
        BY <4>1 DEF Settled
    <3> QED
      BY <3>1, <3>2
  <2> QED
    BY <1>0, <2>9, <2>10 DEF Settled
<1>9. ASSUME Leave(r) PROVE Settled(t)'
  <2>1. req' = [req EXCEPT ![r] = Free] /\ ~ OfEmail(r, t.email)'
    BY <1>0, <1>9 DEF Leave, OfEmail, Free, TypeOK
  <2> QED
    BY <1>2, <1>9, <2>1 DEF Leave
<1> QED
  BY <1>3, <1>4, <1>5, <1>6, <1>7, <1>8, <1>9 DEF Handle, Settle

\* set_allowed_actions compares the list with one that may be stale and writes it
\* without a condition; yet a row that has settled stays so, whatever requests are
\* in progress and come, until OPA is loaded with another policy.  This is the
\* safety half of ListSettles.
THEOREM SettledListStays ==
  Spec => [][\A t \in Tokens :
               (HasOneName(t) /\ Settled(t) /\ policy' = policy) => Settled(t)']_vars
<1>1. ASSUME DirectoryIInv, DirectoryIInv', [Next]_vars, NEW t \in Tokens,
             HasOneName(t), Settled(t), policy' = policy
      PROVE  Settled(t)'
  <2>1. ASSUME NEW r \in Requests, Handle(r) \/ \E u \in Tokens : Get(r, u)
        PROVE  Settled(t)'
    BY <1>1, <2>1, RequestKeepsSettled
  <2>2. ASSUME NEW e \in Emails, CatchUp(e) PROVE Settled(t)'
    <3>1. copy'[t.email] \in {row[t.email], copy[t.email]} /\ UNCHANGED <<row, req>>
      BY <1>1, <2>2 DEF CatchUp, DirectoryIInv, TypeOK
    <3> QED
      BY <1>1, <3>1 DEF Settled, OfEmail, Email, Follows
  <2>3. ~ ChangePolicy
    BY <1>1 DEF ChangePolicy
  <2>4. CASE UNCHANGED vars
    BY <1>1, <2>4 DEF vars, Settled, OfEmail, Email, Follows
  <2> QED
    BY <1>1, <2>1, <2>2, <2>3, <2>4 DEF Next
<1>2. DirectoryIInv /\ DirectoryIInv' /\ [Next]_vars =>
        [\A t \in Tokens :
           (HasOneName(t) /\ Settled(t) /\ policy' = policy) => Settled(t)']_vars
  BY <1>1
<1> QED
  BY <1>2, DirectoryInvariance, PTL DEF Spec
=============================================================================
