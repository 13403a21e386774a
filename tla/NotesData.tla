------------------------------- MODULE NotesData -------------------------------
(***************************************************************************)
(* Notes, calls and answers of port.NoteStore.  The random id of a note is *)
(* named after the call that added it (a number), which also stands for    *)
(* its body.                                                               *)
(***************************************************************************)
EXTENDS Naturals, Sequences

CONSTANTS
  Owner,
  EmptyOwner,  \* the empty string given as an owner
  MaxAdds,     \* bound: calls of Add
  MaxTime      \* bound: the clock that stamps CreatedAt

ASSUME OwnerAssumption == EmptyOwner \notin Owner
ASSUME NotesBoundAssumption == MaxAdds \in Nat /\ MaxTime \in Nat

Time == 0 .. MaxTime

Note == [id : 1 .. MaxAdds, owner : Owner, at : Time]

Call == [kind : {"add"}, owner : Owner \cup {EmptyOwner}, id : 1 .. MaxAdds]
          \cup [kind : {"list"}, owner : Owner \cup {EmptyOwner}]

NoCall == [kind |-> "none"]

Result == [code : {"none", "ok", "noOwner", "error"}, notes : Seq(Note)]

Success(notes) == [code |-> "ok", notes |-> notes]
Failure(code) == [code |-> code, notes |-> <<>>]
NoResult == Failure("none")

NewNote(call, at) == [id |-> call.id, owner |-> call.owner, at |-> at]

\* An owner with no notes has an empty list, and so has the empty owner.
NotesOf(byOwner, owner) == IF owner \in Owner THEN byOwner[owner] ELSE <<>>

===============================================================================
