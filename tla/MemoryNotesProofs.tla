--------------------------- MODULE MemoryNotesProofs ---------------------------
(***************************************************************************)
(* The in-memory adapter implements the port, for any number of threads,   *)
(* owners, notes and crashes: its map is read and written under a RWMutex, *)
(* so the slice an append has read is still the owner's notes when it      *)
(* writes.                                                                 *)
(***************************************************************************)
EXTENDS MemoryNotes, TLAPS

\* The writer excludes everybody, a reader every writer.
LockInv ==
  \A t \in Thread :
    /\ pc[t] \in {"locked", "appending"} => writer = {t} /\ readers = {}
    /\ pc[t] = "listing" => t \in readers /\ writer = {}

\* A thread on its way to the append has made the note of its call.
CallInv ==
  \A t \in Thread :
    /\ pc[t] \in {"stamped", "locked", "appending"} =>
         /\ call[t].kind = "add" /\ call[t].owner \in Owner
         /\ \E at \in Time : note[t] = NewNote(call[t], at)
    /\ pc[t] = "listing" => call[t].kind = "list"

\* The slice an append has read is what the owner has.
SliceInv ==
  \A t \in Thread : pc[t] = "appending" => slice[t] = byOwner[call[t].owner]

Inv == TypeOK /\ LockInv /\ CallInv /\ SliceInv

-----------------------------------------------------------------------------
(* Data.                                                                    *)

\* An answer with well-typed notes is a result.
LEMMA ResultTypes ==
  /\ \A notes \in Seq(Note) : Success(notes) \in Result
  /\ \A code \in {"none", "noOwner", "error"} : Failure(code) \in Result
  /\ NoResult \in Result
<1>1. <<>> \in Seq(Note)
  OBVIOUS
<1> QED
  BY <1>1 DEF Success, Failure, NoResult, Result

\* The note an add for an owner makes is a note.
LEMMA NewNoteType ==
  ASSUME NEW c \in Call \cup {NoCall}, c.kind = "add", c.owner \in Owner, NEW at \in Time
  PROVE  NewNote(c, at) \in Note
<1>1. c.id \in 1 .. MaxAdds
  BY DEF Call, NoCall
<1> QED
  BY <1>1 DEF NewNote, Note

\* What an owner is shown is a list of notes.
LEMMA NotesOfType ==
  ASSUME NEW map \in [Owner -> Seq(Note)], NEW owner
  PROVE  NotesOf(map, owner) \in Seq(Note)
  BY DEF NotesOf

-----------------------------------------------------------------------------
(* The invariant.                                                           *)

\* NewStore's state.
LEMMA InvInit == Init => Inv
<1> SUFFICES ASSUME Init PROVE Inv
  OBVIOUS
<1>1. TypeOK
  BY ResultTypes, NotesBoundAssumption, CrashBoundAssumption DEF Init, TypeOK, Time
<1> QED
  BY <1>1 DEF Init, Inv, LockInv, CallInv, SliceInv

\* No step leaves the types.
LEMMA TypeStep == TypeOK /\ CallInv /\ [Next]_vars => TypeOK'
<1> SUFFICES ASSUME TypeOK, CallInv, [Next]_vars PROVE TypeOK'
  OBVIOUS
<1>1. ASSUME NEW t \in Thread, NEW owner \in Owner \cup {EmptyOwner}, BeginAdd(t, owner)
      PROVE  TypeOK'
  <2>1. adds' \in 0 .. MaxAdds /\ adds + 1 \in 1 .. MaxAdds
    BY <1>1, NotesBoundAssumption DEF BeginAdd, TypeOK
  <2>2. [kind |-> "add", owner |-> owner, id |-> adds + 1] \in Call
    BY <2>1 DEF Call
  <2>3. call' \in [Thread -> Call \cup {NoCall}]
    BY <1>1, <2>2 DEF BeginAdd, TypeOK
  <2> QED
    BY <1>1, <2>1, <2>3 DEF BeginAdd, Step, TypeOK
<1>2. ASSUME NEW t \in Thread, NEW owner \in Owner \cup {EmptyOwner}, BeginList(t, owner)
      PROVE  TypeOK'
  <2>1. [kind |-> "list", owner |-> owner] \in Call
    BY DEF Call
  <2>2. call' \in [Thread -> Call \cup {NoCall}]
    BY <1>2, <2>1 DEF BeginList, TypeOK
  <2> QED
    BY <1>2, <2>2 DEF BeginList, Step, TypeOK
<1>3. ASSUME NEW t \in Thread, RefuseNoOwner(t) PROVE TypeOK'
  BY <1>3, ResultTypes DEF RefuseNoOwner, Step, TypeOK
<1>4. ASSUME NEW t \in Thread, Stamp(t) PROVE TypeOK'
  <2>1. NewNote(call[t], clock) \in Note
    BY <1>4, NewNoteType DEF Stamp, TypeOK
  <2> QED
    BY <1>4, <2>1 DEF Stamp, Step, TypeOK
<1>5. ASSUME NEW t \in Thread, Acquire(t) PROVE TypeOK'
  BY <1>5 DEF Acquire, Lock, RLock, Step, TypeOK
<1>6. ASSUME NEW t \in Thread, AppendReads(t) PROVE TypeOK'
  <2>1. call[t].owner \in Owner
    BY <1>6 DEF AppendReads, Step, CallInv
  <2> QED
    BY <1>6, <2>1 DEF AppendReads, Step, TypeOK
<1>7. ASSUME NEW t \in Thread, AppendWrites(t) PROVE TypeOK'
  <2>1. call[t].owner \in Owner /\ note[t] \in Note
    <3>1. pc[t] = "appending" /\ call[t] \in Call \cup {NoCall}
      BY <1>7 DEF AppendWrites, Step, TypeOK
    <3>2. PICK at \in Time : note[t] = NewNote(call[t], at)
      BY <3>1 DEF CallInv
    <3> QED
      BY <3>1, <3>2, NewNoteType DEF CallInv
  <2>2. Append(slice[t], note[t]) \in Seq(Note) /\ <<note[t]>> \in Seq(Note)
    BY <2>1 DEF TypeOK
  <2>3. byOwner' \in [Owner -> Seq(Note)]
    BY <1>7, <2>1, <2>2 DEF AppendWrites, TypeOK
  <2>4. res' \in [Thread -> Result]
    BY <1>7, <2>2, ResultTypes DEF AppendWrites, TypeOK
  <2> QED
    BY <1>7, <2>3, <2>4 DEF AppendWrites, Step, TypeOK
<1>8. ASSUME NEW t \in Thread, List(t) PROVE TypeOK'
  <2>1. Success(NotesOf(byOwner, call[t].owner)) \in Result
    BY NotesOfType, ResultTypes DEF TypeOK
  <2> QED
    BY <1>8, <2>1 DEF List, Step, TypeOK
<1>9. ASSUME NEW t \in Thread, Return(t) PROVE TypeOK'
  BY <1>9, ResultTypes DEF Return, Step, TypeOK
<1>10. CASE Crash
  BY <1>10, ResultTypes, CrashBoundAssumption DEF Crash, TypeOK
<1>11. CASE Tick
  BY <1>11, NotesBoundAssumption DEF Tick, TypeOK, Time, locals
<1>12. CASE UNCHANGED vars
  BY <1>12 DEF vars, locals, TypeOK
<1> QED
  BY <1>1, <1>2, <1>3, <1>4, <1>5, <1>6, <1>7, <1>8, <1>9, <1>10, <1>11, <1>12 DEF Next, Proceed

\* A lock is taken only when it is free, and released by its holder.
LEMMA LockStep == TypeOK /\ LockInv /\ [Next]_vars => LockInv'
<1> SUFFICES ASSUME TypeOK, LockInv, [Next]_vars PROVE LockInv'
  OBVIOUS
<1> USE DEF TypeOK, LockInv
<1>1. ASSUME NEW t \in Thread, NEW owner, BeginAdd(t, owner) \/ BeginList(t, owner)
      PROVE  LockInv'
  BY <1>1 DEF BeginAdd, BeginList, Step
<1>2. ASSUME NEW t \in Thread, Acquire(t) PROVE LockInv'
  BY <1>2 DEF Acquire, Lock, RLock, Step
<1>3. ASSUME NEW t \in Thread, Proceed(t) PROVE LockInv'
  BY <1>3 DEF Proceed, RefuseNoOwner, Stamp, AppendReads, AppendWrites, List, Return, Step
<1>4. CASE Crash
  BY <1>4 DEF Crash
<1>5. CASE Tick \/ UNCHANGED vars
  BY <1>5 DEF Tick, vars, locals
<1> QED
  BY <1>1, <1>2, <1>3, <1>4, <1>5 DEF Next

\* A note is made once, from the call and the clock.
LEMMA CallStep == TypeOK /\ CallInv /\ [Next]_vars => CallInv'
<1> SUFFICES ASSUME TypeOK, CallInv, [Next]_vars PROVE CallInv'
  OBVIOUS
<1>1. ASSUME NEW t \in Thread, NEW owner, BeginAdd(t, owner) \/ BeginList(t, owner)
      PROVE  CallInv'
  <2>1. pc'[t] = "called" /\ UNCHANGED note
    BY <1>1 DEF BeginAdd, BeginList, Step, TypeOK
  <2>2. \A u \in Thread \ {t} : pc'[u] = pc[u] /\ call'[u] = call[u]
    BY <1>1 DEF BeginAdd, BeginList, Step, TypeOK
  <2> QED
    BY <2>1, <2>2 DEF CallInv
<1>2. ASSUME NEW t \in Thread, Acquire(t) PROVE CallInv'
  BY <1>2 DEF Acquire, Lock, RLock, Step, TypeOK, CallInv
<1>3. ASSUME NEW t \in Thread, Stamp(t) PROVE CallInv'
  BY <1>3 DEF Stamp, Step, TypeOK, CallInv
<1>4. ASSUME NEW t \in Thread, Proceed(t), ~ Stamp(t) PROVE CallInv'
  BY <1>4 DEF Proceed, RefuseNoOwner, AppendReads, AppendWrites, List, Return, Step, TypeOK, CallInv
<1>5. CASE Crash
  BY <1>5 DEF Crash, CallInv
<1>6. CASE Tick \/ UNCHANGED vars
  BY <1>6 DEF Tick, vars, locals, CallInv
<1> QED
  BY <1>1, <1>2, <1>3, <1>4, <1>5, <1>6 DEF Next

\* Nobody writes the map between the two halves of an append.
LEMMA SliceStep == TypeOK /\ LockInv /\ CallInv /\ SliceInv /\ [Next]_vars => SliceInv'
<1> SUFFICES ASSUME TypeOK, LockInv, CallInv, SliceInv, [Next]_vars PROVE SliceInv'
  OBVIOUS
<1>1. ASSUME NEW t \in Thread, NEW owner, BeginAdd(t, owner) \/ BeginList(t, owner)
      PROVE  SliceInv'
  BY <1>1 DEF BeginAdd, BeginList, Step, TypeOK, SliceInv
<1>2. ASSUME NEW t \in Thread, Acquire(t) PROVE SliceInv'
  BY <1>2 DEF Acquire, Lock, RLock, Step, TypeOK, SliceInv
<1>3. ASSUME NEW t \in Thread, AppendReads(t) PROVE SliceInv'
  BY <1>3 DEF AppendReads, Step, TypeOK, SliceInv
<1>4. ASSUME NEW t \in Thread, AppendWrites(t) PROVE SliceInv'
  <2>1. ASSUME NEW u \in Thread, pc'[u] = "appending" PROVE FALSE
    BY <1>4, <2>1 DEF AppendWrites, Step, TypeOK, LockInv
  <2> QED
    BY <2>1 DEF SliceInv
<1>5. ASSUME NEW t \in Thread, RefuseNoOwner(t) \/ Stamp(t) \/ List(t) \/ Return(t) PROVE SliceInv'
  BY <1>5 DEF RefuseNoOwner, Stamp, List, Return, Step, TypeOK, SliceInv
<1>6. CASE Crash
  BY <1>6 DEF Crash, SliceInv
<1>7. CASE Tick \/ UNCHANGED vars
  BY <1>7 DEF Tick, vars, locals, SliceInv
<1> QED
  BY <1>1, <1>2, <1>3, <1>4, <1>5, <1>6, <1>7 DEF Next, Proceed

\* So the invariant holds throughout.
LEMMA Invariant == Spec => []Inv
<1>1. Inv /\ [Next]_vars => Inv'
  BY TypeStep, LockStep, CallStep, SliceStep DEF Inv
<1> QED
  BY <1>1, InvInit, PTL DEF Spec

\* Every variable of the in-memory adapter keeps its type.
THEOREM TypeCorrect == Spec => []TypeOK
<1>1. Inv => TypeOK
  BY DEF Inv
<1> QED
  BY <1>1, Invariant, PTL

-----------------------------------------------------------------------------
(* The refinement: each step of the adapter is one of the port, or none.    *)

\* Both specifications mean the same by a note, a call and an answer.
LEMMA SameData ==
  /\ Port!NoCall = NoCall /\ Port!NoResult = NoResult /\ Port!Call = Call /\ Port!Time = Time
  /\ \A c, at : Port!NewNote(c, at) = NewNote(c, at)
  /\ \A notes : Port!Success(notes) = Success(notes)
  /\ \A code : Port!Failure(code) = Failure(code)
  /\ \A map, owner : Port!NotesOf(map, owner) = NotesOf(map, owner)
  BY DEF Port!NoCall, Port!NoResult, Port!Call, Port!Time, Port!NewNote, Port!Success,
     Port!Failure, Port!NotesOf, NoCall, NoResult, Call, Time, NewNote, Success, Failure, NotesOf

\* What thread t has answered, and has not delivered.
AnswerOf(t) == IF pc[t] = "done" THEN res[t] ELSE NoResult

\* A step in which no call begins, takes effect or ends is none of the port.
LEMMA Stutters ==
  ASSUME UNCHANGED <<byOwner, call>>,
         \A u \in Thread : (PhaseOf(u))' = PhaseOf(u) /\ (AnswerOf(u))' = AnswerOf(u)
  PROVE  UNCHANGED Port!vars
  BY DEF Port!vars, AnswerOf

\* A step that only moves a thread on between its call and its answer.
LEMMA Pending ==
  ASSUME TypeOK, NEW t \in Thread, NEW from, NEW to, Step(t, from, to),
         from \notin {"idle", "done"}, to \notin {"idle", "done"}, UNCHANGED <<byOwner, call, res>>
  PROVE  UNCHANGED Port!vars
<1>1. \A u \in Thread : (PhaseOf(u))' = PhaseOf(u) /\ (AnswerOf(u))' = AnswerOf(u)
  BY DEF Step, PhaseOf, AnswerOf, TypeOK
<1> QED
  BY <1>1, Stutters

\* A call that is done has its answer.
LEMMA Answers ==
  ASSUME TypeOK, NEW t \in Thread, NEW from, Step(t, from, "done"), from \notin {"idle", "done"},
         NEW result, res' = [res EXCEPT ![t] = result], UNCHANGED call
  PROVE  Port!Answer(t, result)
<1>1. /\ pc[t] = from /\ pc' = [pc EXCEPT ![t] = "done"]
      /\ pc \in [Thread -> {"idle", "called", "stamped", "locked", "appending", "listing", "done"}]
      /\ res \in [Thread -> Result]
  BY DEF Step, TypeOK
<1>2. [u \in Thread |-> PhaseOf(u)]' = [[u \in Thread |-> PhaseOf(u)] EXCEPT ![t] = "answered"]
  BY <1>1 DEF PhaseOf
<1>3. [u \in Thread |-> AnswerOf(u)]' = [[u \in Thread |-> AnswerOf(u)] EXCEPT ![t] = result]
  BY <1>1 DEF AnswerOf
<1>4. PhaseOf(t) = "pending"
  BY <1>1 DEF PhaseOf
<1> QED
  BY <1>2, <1>3, <1>4 DEF Port!Answer, AnswerOf

\* An add takes effect when the map entry is written: the slice that was read
\* is still the owner's.
LEMMA AppendAdds ==
  ASSUME Inv, NEW t \in Thread, AppendWrites(t)
  PROVE  Port!Add(t)
<1> TypeOK /\ pc[t] = "appending"
  BY DEF Inv, AppendWrites, Step
<1>1. /\ call[t].kind = "add" /\ call[t].owner \in Owner
      /\ slice[t] = byOwner[call[t].owner]
  BY DEF Inv, CallInv, SliceInv
<1>2. PICK at \in Time : note[t] = Port!NewNote(call[t], at)
  BY SameData DEF Inv, CallInv
<1> DEFINE made == Port!NewNote(call[t], at)
<1>3. byOwner' = [byOwner EXCEPT ![call[t].owner] = Append(@, made)]
  BY <1>1, <1>2 DEF AppendWrites
<1>4. Port!Answer(t, Port!Success(<<made>>))
  BY <1>2, SameData, Answers DEF AppendWrites, Port!Answer
<1> QED
  BY <1>1, <1>3, <1>4, SameData DEF Port!Add

\* A call begins as the port lets it.
LEMMA BeginInvokes ==
  ASSUME TypeOK, NEW t \in Thread, NEW owner \in Owner \cup {EmptyOwner},
         BeginAdd(t, owner) \/ BeginList(t, owner)
  PROVE  Port!Invoke(t)
<1>1. /\ pc[t] = "idle" /\ pc' = [pc EXCEPT ![t] = "called"] /\ UNCHANGED <<byOwner, res>>
      /\ pc \in [Thread -> {"idle", "called", "stamped", "locked", "appending", "listing", "done"}]
  BY DEF BeginAdd, BeginList, Step, TypeOK
<1>2. PICK c \in Call : call' = [call EXCEPT ![t] = c]
  <2>1. CASE BeginAdd(t, owner)
    <3>1. adds + 1 \in 1 .. MaxAdds
      BY <2>1, NotesBoundAssumption DEF BeginAdd, TypeOK
    <3>2. [kind |-> "add", owner |-> owner, id |-> adds + 1] \in Call
      BY <3>1 DEF Call
    <3> QED
      BY <2>1, <3>2 DEF BeginAdd
  <2>2. CASE BeginList(t, owner)
    <3>1. [kind |-> "list", owner |-> owner] \in Call
      BY DEF Call
    <3> QED
      BY <2>2, <3>1 DEF BeginList
  <2> QED
    BY <2>1, <2>2
<1>3. [u \in Thread |-> PhaseOf(u)]' = [[u \in Thread |-> PhaseOf(u)] EXCEPT ![t] = "pending"]
  BY <1>1 DEF PhaseOf
<1>4. [u \in Thread |-> AnswerOf(u)]' = [u \in Thread |-> AnswerOf(u)]
  BY <1>1 DEF AnswerOf
<1>5. PhaseOf(t) = "idle"
  BY <1>1 DEF PhaseOf
<1> QED
  BY <1>1, <1>2, <1>3, <1>4, <1>5, SameData DEF Port!Invoke, AnswerOf

\* The deferred unlock delivers the answer.
LEMMA ReturnResponds ==
  ASSUME TypeOK, NEW t \in Thread, Return(t)
  PROVE  Port!Respond(t)
<1>1. /\ pc[t] = "done" /\ pc' = [pc EXCEPT ![t] = "idle"] /\ UNCHANGED byOwner
      /\ pc \in [Thread -> {"idle", "called", "stamped", "locked", "appending", "listing", "done"}]
      /\ res' = [res EXCEPT ![t] = NoResult] /\ call' = [call EXCEPT ![t] = NoCall]
  BY DEF Return, Step, TypeOK
<1>2. [u \in Thread |-> PhaseOf(u)]' = [[u \in Thread |-> PhaseOf(u)] EXCEPT ![t] = "idle"]
  BY <1>1 DEF PhaseOf
<1>3. [u \in Thread |-> AnswerOf(u)]' = [[u \in Thread |-> AnswerOf(u)] EXCEPT ![t] = NoResult]
  BY <1>1 DEF AnswerOf, TypeOK
<1>4. PhaseOf(t) = "answered"
  BY <1>1 DEF PhaseOf
<1> QED
  BY <1>1, <1>2, <1>3, <1>4, SameData DEF Port!Respond, AnswerOf

\* Each step of the adapter is one of the port, or leaves it alone.
LEMMA PortStep == Inv /\ [Next]_vars => [Port!Next]_(Port!vars)
<1> SUFFICES ASSUME Inv, [Next]_vars PROVE Port!Next \/ UNCHANGED Port!vars
  OBVIOUS
<1> TypeOK
  BY DEF Inv
<1>1. ASSUME NEW t \in Thread, NEW owner \in Owner \cup {EmptyOwner},
             BeginAdd(t, owner) \/ BeginList(t, owner)
      PROVE  Port!Next
  BY <1>1, BeginInvokes DEF Port!Next
<1>2. ASSUME NEW t \in Thread, Acquire(t) PROVE UNCHANGED Port!vars
  BY <1>2, Pending DEF Acquire, Lock, RLock
<1>3. ASSUME NEW t \in Thread, RefuseNoOwner(t) PROVE Port!Next
  <2>1. Port!Answer(t, Port!Failure("noOwner"))
    BY <1>3, SameData, Answers DEF RefuseNoOwner, Port!Answer
  <2> QED
    BY <1>3, <2>1 DEF RefuseNoOwner, Port!Refuse, Port!Next
<1>4. ASSUME NEW t \in Thread, Stamp(t) \/ AppendReads(t) PROVE UNCHANGED Port!vars
  BY <1>4, Pending DEF Stamp, AppendReads
<1>5. ASSUME NEW t \in Thread, AppendWrites(t) PROVE Port!Next
  BY <1>5, AppendAdds DEF Port!Next
<1>6. ASSUME NEW t \in Thread, List(t) PROVE Port!Next
  <2>1. call[t].kind = "list"
    BY <1>6 DEF List, Step, Inv, CallInv
  <2>2. Port!Answer(t, Port!Success(Port!NotesOf(byOwner, call[t].owner)))
    BY <1>6, SameData, Answers DEF List, Port!Answer
  <2> QED
    BY <1>6, <2>1, <2>2 DEF List, Port!List, Port!Next
<1>7. ASSUME NEW t \in Thread, Return(t) PROVE Port!Next
  BY <1>7, ReturnResponds DEF Port!Next
<1>8. CASE Crash
  <2>1. \A u \in Thread : (PhaseOf(u))' = "idle" /\ (AnswerOf(u))' = NoResult
    BY <1>8 DEF Crash, PhaseOf, AnswerOf
  <2> QED
    BY <1>8, <2>1, SameData DEF Crash, Port!Crash, Port!Die, Port!Next, AnswerOf
<1>9. CASE Tick \/ UNCHANGED vars
  <2>1. UNCHANGED <<byOwner, call, pc, res>>
    BY <1>9 DEF Tick, vars, locals
  <2> QED
    BY <2>1, Stutters DEF PhaseOf, AnswerOf
<1> QED
  BY <1>1, <1>2, <1>3, <1>4, <1>5, <1>6, <1>7, <1>8, <1>9 DEF Next, Proceed

\* The in-memory adapter implements the port.
THEOREM MemoryKeepsPort == Spec => ImplementsNoteStore
<1>1. Init => Port!Init
  BY SameData DEF Init, Port!Init, PhaseOf
<1> QED
  BY <1>1, PortStep, Invariant, PTL DEF Spec, ImplementsNoteStore, Port!Spec

===============================================================================
