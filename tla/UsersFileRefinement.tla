-------------------------- MODULE UsersFileRefinement --------------------------
(***************************************************************************)
(* The refinement mapping from UsersFile to CredentialStore: a save takes  *)
(* effect with its rename, anything else when load has returned.           *)
(***************************************************************************)
EXTENDS UsersFile

PhaseOf(t) ==
  IF pc[t] = "idle" THEN "idle"
  ELSE IF pc[t] \in {"done", "refused"} THEN "answered" ELSE "pending"

Promise ==
  INSTANCE CredentialStore WITH
    Process <- {ThreadsOf(s) : s \in Store},
    phase <- [t \in Thread |-> PhaseOf(t)],
    res <- [t \in Thread |-> IF PhaseOf(t) = "answered" THEN res[t] ELSE NoResult]

\* Each call of the Store takes effect atomically, at its rename or at its
\* load, whatever fails and whoever crashes in between (store.go: load, compute,
\* save under one mutex).
ImplementsCredentialStore == Promise!Spec

===============================================================================
