----------------------------- MODULE UserDirectory -----------------------------
(***************************************************************************)
(* The users table and the requests that keep it: every request loads the  *)
(* row of its caller's email (User.load), asks OPA in the caller's name,   *)
(* and stores the actions OPA allows (set_allowed_actions).  No write is   *)
(* conditional and nothing is locked, so requests of one email interleave  *)
(* at every call to DynamoDB and OPA.                                      *)
(*                                                                         *)
(* A get of DynamoDB is eventually consistent: it may answer with an       *)
(* older row.  One lagging copy stands for the replicas it may ask.  The   *)
(* display name, the other attribute of a token that load compares, is     *)
(* left out: it is written exactly when the username is.                   *)
(***************************************************************************)
EXTENDS Naturals

CONSTANTS
  Requests,    \* requests that can be in progress at the same time
  Tokens,      \* what callers present, records [email, username]
  Policies,    \* what OPA may be loaded with: functions from user names to
               \* the sets of actions their roles name
  NoRow,       \* the table has no item for the email
  MaxChanges   \* bound: changes of the policy

Emails == {t.email : t \in Tokens}
Usernames == {t.username : t \in Tokens}
Lists == {p[u] : p \in Policies, u \in Usernames}

ASSUME DirectoryAssumption ==
  /\ MaxChanges \in Nat
  /\ \A p \in Policies : DOMAIN p = Usernames
  /\ NoRow \notin [username : Usernames, allowed : Lists \cup {{}}]

VARIABLES
  row,       \* row[e]: the item of email e
  copy,      \* copy[e]: what an eventually consistent read may still return
  req,       \* req[r]: the request in progress
  policy,    \* what OPA is loaded with
  changes    \* how often it changed

vars == <<row, copy, req, policy, changes>>

Free == [pc |-> "free"]

Init ==
  /\ row = [e \in Emails |-> NoRow]
  /\ copy = row
  /\ req = [r \in Requests |-> Free]
  /\ policy \in Policies
  /\ changes = 0

-----------------------------------------------------------------------------
(***************************************************************************)
(* User.load: a read, then for a new or renamed user a write.              *)
(***************************************************************************)
Email(r) == req[r].token.email

\* The lagging copy has the new item at once, or later.
Put(e, item) ==
  /\ row' = [row EXCEPT ![e] = item]
  /\ copy' = [copy EXCEPT ![e] = item] \/ UNCHANGED copy

\* The caller's token has been verified; load reads the row.
Get(r, t) ==
  /\ req[r].pc = "free"
  /\ \E seen \in {row[t.email], copy[t.email]} :
       req' = [req EXCEPT ![r] = [pc |-> "read", token |-> t, user |-> seen]]
  /\ UNCHANGED <<row, copy, policy, changes>>

\* Mutant of Known: whoever has a row is known.
KnownByEmail(r) ==
  /\ req[r].pc = "read"
  /\ req[r].user # NoRow
  /\ req' = [req EXCEPT ![r].pc = "loaded"]
  /\ UNCHANGED <<row, copy, policy, changes>>

Known(r) ==
  /\ req[r].pc = "read"
  /\ req[r].user # NoRow /\ req[r].user.username = req[r].token.username
  /\ req' = [req EXCEPT ![r].pc = "loaded"]
  /\ UNCHANGED <<row, copy, policy, changes>>

\* The update sets the names of whatever item is there now, and the user in
\* memory is what the item has become.
Rename(r) ==
  /\ req[r].pc = "read"
  /\ req[r].user # NoRow /\ req[r].user.username # req[r].token.username
  /\ LET item == [row[Email(r)] EXCEPT !.username = req[r].token.username] IN
       /\ Put(Email(r), item)
       /\ req' = [req EXCEPT ![r] = [@ EXCEPT !.pc = "loaded", !.user = item]]
  /\ UNCHANGED <<policy, changes>>

\* Mutant of Create: the item is not saved.
CreateInMemory(r) ==
  /\ req[r].pc = "read"
  /\ req[r].user = NoRow
  /\ req' = [req EXCEPT ![r].pc = "loaded",
       ![r].user = [username |-> req[r].token.username, allowed |-> {}]]
  /\ UNCHANGED <<row, copy, policy, changes>>

\* save puts the item, whether or not there is one by now.
Create(r) ==
  /\ req[r].pc = "read"
  /\ req[r].user = NoRow
  /\ LET item == [username |-> req[r].token.username, allowed |-> {}] IN
       /\ Put(Email(r), item)
       /\ req' = [req EXCEPT ![r] = [@ EXCEPT !.pc = "loaded", !.user = item]]
  /\ UNCHANGED <<policy, changes>>

-----------------------------------------------------------------------------
(***************************************************************************)
(* The OPA query, and what follows it.                                     *)
(***************************************************************************)

\* OPA answers with its verdict and, whatever the verdict, the list; the
\* verdict depends on the request and the caller's rate (see Throttle).
Ask(r) ==
  /\ req[r].pc = "loaded"
  /\ \E verdict \in {"admitted", "refused"} :
       req' = [req EXCEPT ![r] =
         [pc |-> verdict, token |-> @.token, user |-> @.user,
          asked |-> @.user.username, objects |-> policy[@.user.username]]]
  /\ UNCHANGED <<row, copy, policy, changes>>

\* set_allowed_actions compares with the user in memory ...
Unchanged(r) ==
  /\ req[r].pc = "admitted"
  /\ req[r].objects = req[r].user.allowed
  /\ req' = [req EXCEPT ![r].pc = "serving"]
  /\ UNCHANGED <<row, copy, policy, changes>>

\* Mutant of SetAllowed: the user in memory is not refreshed.
SetAllowedInTable(r) ==
  /\ req[r].pc = "admitted"
  /\ req[r].objects # req[r].user.allowed
  /\ Put(Email(r), [row[Email(r)] EXCEPT !.allowed = req[r].objects])
  /\ req' = [req EXCEPT ![r].pc = "serving"]
  /\ UNCHANGED <<policy, changes>>

\* Mutant of SetAllowed: the item is not updated.
SetAllowedInMemory(r) ==
  /\ req[r].pc = "admitted"
  /\ req[r].objects # req[r].user.allowed
  /\ req' = [req EXCEPT ![r].pc = "serving", ![r].user.allowed = req[r].objects]
  /\ UNCHANGED <<row, copy, policy, changes>>

\* ... and otherwise updates the item, which is read back as a whole.
SetAllowed(r) ==
  /\ req[r].pc = "admitted"
  /\ req[r].objects # req[r].user.allowed
  /\ LET item == [row[Email(r)] EXCEPT !.allowed = req[r].objects] IN
       /\ Put(Email(r), item)
       /\ req' = [req EXCEPT ![r] = [@ EXCEPT !.pc = "serving", !.user = item]]
  /\ UNCHANGED <<policy, changes>>

Settle(r) == Unchanged(r) \/ SetAllowed(r)

\* The endpoint uses the user in memory (me returns it, an action is created in
\* its name) and answers; or the request is refused, or fails where it is.
Leave(r) ==
  /\ req[r].pc # "free"
  /\ req' = [req EXCEPT ![r] = Free]
  /\ UNCHANGED <<row, copy, policy, changes>>

-----------------------------------------------------------------------------
\* DynamoDB's copies converge.
CatchUp(e) ==
  /\ copy[e] # row[e]
  /\ copy' = [copy EXCEPT ![e] = row[e]]
  /\ UNCHANGED <<row, req, policy, changes>>

\* OPA is loaded with other roles or users.
ChangePolicy ==
  /\ changes < MaxChanges
  /\ changes' = changes + 1
  /\ policy' \in Policies \ {policy}
  /\ UNCHANGED <<row, copy, req>>

Handle(r) == Known(r) \/ Rename(r) \/ Create(r) \/ Ask(r) \/ Settle(r) \/ Leave(r)

Next ==
  \/ \E r \in Requests : \E t \in Tokens : Get(r, t)
  \/ \E r \in Requests : Handle(r)
  \/ \E e \in Emails : CatchUp(e)
  \/ ChangePolicy

Spec == Init /\ [][Next]_vars

\* A request that is in progress ends, and the table's copies converge; nobody
\* has to send a request.
FairSpec ==
  /\ Spec
  /\ \A r \in Requests : WF_vars(Handle(r))
  /\ \A e \in Emails : WF_vars(CatchUp(e))

-----------------------------------------------------------------------------
(***************************************************************************)
(* What must hold.                                                         *)
(***************************************************************************)
Row == [username : Usernames, allowed : Lists \cup {{}}]

\* A request is free, has read its row, has loaded its user, or has OPA's answer.
RequestStates ==
  {Free}
    \cup [pc : {"read"}, token : Tokens, user : Row \cup {NoRow}]
    \cup [pc : {"loaded"}, token : Tokens, user : Row]
    \cup [pc : {"refused", "admitted", "serving"}, token : Tokens, user : Row,
          asked : Usernames, objects : Lists]

\* Every variable has its type.
TypeOK ==
  /\ row \in [Emails -> Row \cup {NoRow}]
  /\ copy \in [Emails -> Row \cup {NoRow}]
  /\ req \in [Requests -> RequestStates]
  /\ policy \in Policies
  /\ changes \in 0..MaxChanges

\* OPA is asked in the name on the caller's token, though the name is taken
\* from a row that requests with another token of the same email rewrite.
AskedAsItsToken ==
  \A r \in Requests :
    req[r].pc \in {"refused", "admitted", "serving"} =>
      req[r].asked = req[r].token.username

\* The names under which the caller with email e has tokens.
NamesOf(e) == {t.username : t \in {u \in Tokens : u.email = e}}

\* What the endpoint sees, and me returns, are the actions OPA allowed in this
\* very request, not those another request or an earlier read left there; and the
\* name it creates an action under is the caller's, though after the item was read
\* back it may be the name on another of the caller's tokens.
ServedAsDecided ==
  \A r \in Requests :
    req[r].pc = "serving" =>
      /\ req[r].user.allowed = req[r].objects
      /\ req[r].user.username \in NamesOf(Email(r))

\* The inductive invariant.  Whoever has been read from the table has a row there,
\* so that every update finds an item; a row has one of its caller's names, and a
\* loaded user the token's.
DirectoryIInv ==
  /\ TypeOK
  /\ AskedAsItsToken
  /\ ServedAsDecided
  /\ \A e \in Emails :
       /\ copy[e] # NoRow => row[e] # NoRow
       /\ \A item \in {row[e], copy[e]} : item # NoRow => item.username \in NamesOf(e)
  /\ \A r \in Requests :
       /\ (req[r].pc # "free" /\ req[r].user # NoRow) =>
            row[Email(r)] # NoRow /\ req[r].user.username \in NamesOf(Email(r))
       /\ req[r].pc = "loaded" => req[r].user.username = req[r].token.username

\* The list ends up right although it is compared with a stale one and written
\* after other requests: with one name per email, if requests of the email are
\* settled again and again, its row is in the end what OPA allows that name.
ListSettles ==
  \A t \in Tokens :
    (\A u \in Tokens : u.email = t.email => u = t) =>
      ([]<><<\E r \in Requests : Settle(r) /\ Email(r) = t.email>>_vars
         => <>[](row[t.email] # NoRow
                   /\ row[t.email].allowed = policy[t.username]))
=============================================================================
