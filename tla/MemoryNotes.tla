------------------------------ MODULE MemoryNotes ------------------------------
(***************************************************************************)
(* The in-memory adapter (internal/adapter/out/notes/memory/memory.go):    *)
(* handler goroutines share a map behind a RWMutex.  Add makes its note,   *)
(* id and CreatedAt included, before it takes the lock; the append is a    *)
(* read of the slice and a write of the map entry.                         *)
(***************************************************************************)
EXTENDS NotesData, FiniteSets

CONSTANTS
  Thread,
  MaxCrash  \* bound: crashes of the process

ASSUME CrashBoundAssumption == MaxCrash \in Nat

VARIABLES
  byOwner,
  writer,   \* the threads that hold the mutex for writing
  readers,  \* and for reading
  pc, call,
  note,     \* the note an Add has made
  slice,    \* the slice an append has read
  res,
  clock,
  adds,     \* calls of Add so far
  crashes

locals == <<pc, call, note, slice, res>>
vars == <<byOwner, writer, readers, locals, clock, adds, crashes>>

NoNote == [id |-> 0]

TypeOK ==
  /\ byOwner \in [Owner -> Seq(Note)]
  /\ writer \subseteq Thread /\ readers \subseteq Thread
  /\ pc \in [Thread -> {"idle", "called", "stamped", "locked", "appending", "listing", "done"}]
  /\ call \in [Thread -> Call \cup {NoCall}]
  /\ note \in [Thread -> Note \cup {NoNote}]
  /\ slice \in [Thread -> Seq(Note)]
  /\ res \in [Thread -> Result]
  /\ clock \in Time
  /\ adds \in 0 .. MaxAdds
  /\ crashes \in 0 .. MaxCrash

Init ==
  /\ byOwner = [o \in Owner |-> <<>>]
  /\ writer = {} /\ readers = {}
  /\ pc = [t \in Thread |-> "idle"]
  /\ call = [t \in Thread |-> NoCall]
  /\ note = [t \in Thread |-> NoNote]
  /\ slice = [t \in Thread |-> <<>>]
  /\ res = [t \in Thread |-> NoResult]
  /\ clock = 0
  /\ adds = 0
  /\ crashes = 0

Step(t, from, to) == pc[t] = from /\ pc' = [pc EXCEPT ![t] = to]

BeginAdd(t, owner) ==
  /\ Step(t, "idle", "called")
  /\ adds < MaxAdds
  /\ adds' = adds + 1
  /\ call' = [call EXCEPT ![t] = [kind |-> "add", owner |-> owner, id |-> adds + 1]]
  /\ UNCHANGED <<byOwner, writer, readers, note, slice, res, clock, crashes>>

BeginList(t, owner) ==
  /\ Step(t, "idle", "called")
  /\ call' = [call EXCEPT ![t] = [kind |-> "list", owner |-> owner]]
  /\ UNCHANGED <<byOwner, writer, readers, note, slice, res, clock, adds, crashes>>

RefuseNoOwner(t) ==
  /\ Step(t, "called", "done")
  /\ call[t].kind = "add" /\ call[t].owner = EmptyOwner
  /\ res' = [res EXCEPT ![t] = Failure("noOwner")]
  /\ UNCHANGED <<byOwner, writer, readers, call, note, slice, clock, adds, crashes>>

\* MUTANT of Stamp: the check for an owner is forgotten.
StampForNobody(t) ==
  /\ Step(t, "called", "stamped")
  /\ call[t].kind = "add"
  /\ note' = [note EXCEPT ![t] = NewNote(call[t], clock)]
  /\ UNCHANGED <<byOwner, writer, readers, call, slice, res, clock, adds, crashes>>

\* The note exists, with its CreatedAt, while its thread still waits.
Stamp(t) ==
  /\ Step(t, "called", "stamped")
  /\ call[t].kind = "add" /\ call[t].owner \in Owner
  /\ note' = [note EXCEPT ![t] = NewNote(call[t], clock)]
  /\ UNCHANGED <<byOwner, writer, readers, call, slice, res, clock, adds, crashes>>

\* MUTANT of Lock: a read lock is taken for the append.
LockForReading(t) ==
  /\ Step(t, "stamped", "locked")
  /\ writer = {}
  /\ readers' = readers \cup {t}
  /\ UNCHANGED <<byOwner, writer, call, note, slice, res, clock, adds, crashes>>

Lock(t) ==
  /\ Step(t, "stamped", "locked")
  /\ writer = {} /\ readers = {}
  /\ writer' = {t}
  /\ UNCHANGED <<byOwner, readers, call, note, slice, res, clock, adds, crashes>>

AppendReads(t) ==
  /\ Step(t, "locked", "appending")
  /\ slice' = [slice EXCEPT ![t] = byOwner[call[t].owner]]
  /\ UNCHANGED <<byOwner, writer, readers, call, note, res, clock, adds, crashes>>

AppendWrites(t) ==
  /\ Step(t, "appending", "done")
  /\ byOwner' = [byOwner EXCEPT ![call[t].owner] = Append(slice[t], note[t])]
  /\ res' = [res EXCEPT ![t] = Success(<<note[t]>>)]
  /\ UNCHANGED <<writer, readers, call, note, slice, clock, adds, crashes>>

RLock(t) ==
  /\ Step(t, "called", "listing")
  /\ call[t].kind = "list"
  /\ writer = {}
  /\ readers' = readers \cup {t}
  /\ UNCHANGED <<byOwner, writer, call, note, slice, res, clock, adds, crashes>>

List(t) ==
  /\ Step(t, "listing", "done")
  /\ res' = [res EXCEPT ![t] = Success(NotesOf(byOwner, call[t].owner))]
  /\ UNCHANGED <<byOwner, writer, readers, call, note, slice, clock, adds, crashes>>

\* MUTANT of Return: an early return that forgets to unlock.
ReturnKeepsLock(t) ==
  /\ Step(t, "done", "idle")
  /\ readers' = readers \ {t}
  /\ call' = [call EXCEPT ![t] = NoCall]
  /\ note' = [note EXCEPT ![t] = NoNote]
  /\ slice' = [slice EXCEPT ![t] = <<>>]
  /\ res' = [res EXCEPT ![t] = NoResult]
  /\ UNCHANGED <<byOwner, writer, clock, adds, crashes>>

\* The deferred Unlock or RUnlock, and the answer.
Return(t) ==
  /\ Step(t, "done", "idle")
  /\ writer' = writer \ {t}
  /\ readers' = readers \ {t}
  /\ call' = [call EXCEPT ![t] = NoCall]
  /\ note' = [note EXCEPT ![t] = NoNote]
  /\ slice' = [slice EXCEPT ![t] = <<>>]
  /\ res' = [res EXCEPT ![t] = NoResult]
  /\ UNCHANGED <<byOwner, clock, adds, crashes>>

\* The notes live as long as the process.
Crash ==
  /\ crashes < MaxCrash
  /\ crashes' = crashes + 1
  /\ byOwner' = [o \in Owner |-> <<>>]
  /\ writer' = {} /\ readers' = {}
  /\ pc' = [t \in Thread |-> "idle"]
  /\ call' = [t \in Thread |-> NoCall]
  /\ note' = [t \in Thread |-> NoNote]
  /\ slice' = [t \in Thread |-> <<>>]
  /\ res' = [t \in Thread |-> NoResult]
  /\ UNCHANGED <<clock, adds>>

Tick ==
  /\ clock < MaxTime
  /\ clock' = clock + 1
  /\ UNCHANGED <<byOwner, writer, readers, locals, adds, crashes>>

Acquire(t) == Lock(t) \/ RLock(t)

Proceed(t) ==
  RefuseNoOwner(t) \/ Stamp(t) \/ AppendReads(t) \/ AppendWrites(t) \/ List(t) \/ Return(t)

Next ==
  \/ \E t \in Thread :
       \/ \E owner \in Owner \cup {EmptyOwner} : BeginAdd(t, owner) \/ BeginList(t, owner)
       \/ Acquire(t)
       \/ Proceed(t)
  \/ Crash
  \/ Tick

Spec == Init /\ [][Next]_vars

\* Goroutines are scheduled; a RWMutex lets a waiting writer in before later
\* readers, and readers after that writer.
FairSpec == Spec /\ \A t \in Thread : WF_vars(Proceed(t)) /\ SF_vars(Acquire(t))

-----------------------------------------------------------------------------

PhaseOf(t) == IF pc[t] = "idle" THEN "idle" ELSE IF pc[t] = "done" THEN "answered" ELSE "pending"

Port ==
  INSTANCE NoteStore WITH
    Durable <- FALSE,
    kept <- [o \in Owner |-> <<>>],
    phase <- [t \in Thread |-> PhaseOf(t)],
    res <- [t \in Thread |-> IF pc[t] = "done" THEN res[t] ELSE NoResult]

\* The map behind its RWMutex keeps the port's promise under any interleaving:
\* no note is lost or doubled, and a list is what the owner had at one instant.
ImplementsNoteStore == Port!Spec

\* Readers and writers never shut each other out for good.
EveryCallReturns == \A t \in Thread : pc[t] = "called" ~> pc[t] = "idle"

===============================================================================
