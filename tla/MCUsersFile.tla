------------------------------ MODULE MCUsersFile ------------------------------
(* Small deployments of the Store.  Two writers always; whether they share a *)
(* process, and so a mutex, is the configuration's choice.                   *)
EXTENDS UsersFileRefinement, TLC

CONSTANTS r1, r2, w1, w2, server, cli, cli2

\* Two goroutines of one process, as in the concurrency tests of the Store.
SharedThread == {w1, w2}
SharedStoreOf == (w1 :> cli) @@ (w2 :> cli)

\* The server reads while one command line changes the file.
ServedThread == {r1, r2, w1}
ServedStoreOf == (r1 :> server) @@ (r2 :> server) @@ (w1 :> cli)

\* Two command lines at once.
ApartStoreOf == (w1 :> cli) @@ (w2 :> cli2)

\* Credentials are interchangeable, and so are the two writers.
Interchangeable == Permutations(TokenId) \cup Permutations({w1, w2})

===============================================================================
