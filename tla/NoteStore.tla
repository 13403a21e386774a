------------------------------- MODULE NoteStore -------------------------------
(***************************************************************************)
(* The port both note adapters implement (internal/port/port.go): Add and  *)
(* List take effect at one instant between call and answer, a list is the  *)
(* owner's notes in the order they were stored, and nobody else's.         *)
(***************************************************************************)
EXTENDS NotesData

CONSTANTS
  Thread,
  Durable  \* do the notes outlive the process?

VARIABLES
  byOwner,  \* the notes of each owner, in order of insertion
  kept,     \* those that survive a power loss
  phase, call, res

vars == <<byOwner, kept, phase, call, res>>

Init ==
  /\ byOwner = [o \in Owner |-> <<>>]
  /\ kept = byOwner
  /\ phase = [t \in Thread |-> "idle"]
  /\ call = [t \in Thread |-> NoCall]
  /\ res = [t \in Thread |-> NoResult]

Invoke(t) ==
  /\ phase[t] = "idle"
  /\ phase' = [phase EXCEPT ![t] = "pending"]
  /\ \E c \in Call : call' = [call EXCEPT ![t] = c]
  /\ UNCHANGED <<byOwner, kept, res>>

Answer(t, result) ==
  /\ phase[t] = "pending"
  /\ phase' = [phase EXCEPT ![t] = "answered"]
  /\ res' = [res EXCEPT ![t] = result]
  /\ UNCHANGED <<kept, call>>

Add(t) ==
  /\ call[t].kind = "add"
  /\ call[t].owner \in Owner
  /\ \E at \in Time :
       LET note == NewNote(call[t], at) IN
       /\ byOwner' = [byOwner EXCEPT ![call[t].owner] = Append(@, note)]
       /\ Answer(t, Success(<<note>>))

List(t) ==
  /\ call[t].kind = "list"
  /\ Answer(t, Success(NotesOf(byOwner, call[t].owner)))
  /\ UNCHANGED byOwner

\* An add without an owner is refused.
Refuse(t) ==
  /\ call[t].kind = "add"
  /\ call[t].owner = EmptyOwner
  /\ Answer(t, Failure("noOwner"))
  /\ UNCHANGED byOwner

\* An operation that fails says so and changes nothing.
Fail(t) == Answer(t, Failure("error")) /\ UNCHANGED byOwner

Respond(t) ==
  /\ phase[t] = "answered"
  /\ phase' = [phase EXCEPT ![t] = "idle"]
  /\ call' = [call EXCEPT ![t] = NoCall]
  /\ res' = [res EXCEPT ![t] = NoResult]
  /\ UNCHANGED <<byOwner, kept>>

Die ==
  /\ phase' = [t \in Thread |-> "idle"]
  /\ call' = [t \in Thread |-> NoCall]
  /\ res' = [t \in Thread |-> NoResult]

Crash == Die /\ byOwner' = (IF Durable THEN byOwner ELSE kept) /\ UNCHANGED kept

\* The notes fall back to what they once were, no earlier than when they were
\* last written back.
PowerLoss == Die /\ byOwner' = kept /\ UNCHANGED kept

WriteBack == Durable /\ kept' = byOwner /\ UNCHANGED <<byOwner, phase, call, res>>

Next ==
  \/ \E t \in Thread : Invoke(t) \/ Add(t) \/ List(t) \/ Refuse(t) \/ Fail(t) \/ Respond(t)
  \/ Crash \/ PowerLoss \/ WriteBack

Spec == Init /\ [][Next]_vars

===============================================================================
