---------------------------- MODULE MCUserDirectory ----------------------------
\* The instance of UserDirectory that TLC checks: a service account whose token
\* was issued anew under another name, and a person; a policy that grants one
\* action more or less.
EXTENDS UserDirectory

CONSTANTS shared, own, old, new, person, act

Token(e, u) == [email |-> e, username |-> u]
MCTokens == {Token(shared, old), Token(shared, new), Token(own, person)}

Granting(U) == [u \in {old, new, person} |-> IF u \in U THEN {act} ELSE {}]
MCPolicies == {Granting({old}), Granting({old, person})}
=============================================================================
