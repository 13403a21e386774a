----------------------------- MODULE MCRequestPath -----------------------------
(* Two users, two credentials, and grants that differ in scope and expiry.   *)
EXTENDS RequestPath, TLC


MCScope == {"tools:echo", "notes:read", "notes:write"}

\* Everything for ever, or to read the notes until the clock moves on.
Everything == [scopes |-> MCScope, expires |-> Never]
ReadForAWhile == [scopes |-> {"notes:read"}, expires |-> 1]
MCGrant == {Everything, ReadForAWhile}

\* Users and credentials are interchangeable.
Interchangeable == Permutations(Subject) \cup Permutations(TokenId)

===============================================================================
