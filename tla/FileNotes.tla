------------------------------- MODULE FileNotes -------------------------------
(***************************************************************************)
(* The JSON-file adapter (internal/adapter/out/notes/file/file.go) in one  *)
(* process, the scope its package comment claims: every operation takes    *)
(* the mutex and reads the file; Add replaces the file by rename.  Any     *)
(* step can fail, the process can die between any two, the power can fail, *)
(* and the operator may break the file by hand and repair it.              *)
(***************************************************************************)
EXTENDS NotesData, Sublists, FiniteSets

CONSTANTS
  Thread,
  MaxCrash,  \* bound: crashes of the process
  MaxSlip,   \* bound: times the file is broken by hand
  MaxLoss    \* bound: power losses

ASSUME FaultBoundAssumption == MaxCrash \in Nat /\ MaxSlip \in Nat /\ MaxLoss \in Nat

VARIABLES
  file,    \* its syntax, and the flat list of notes in it
  disk,    \* the version of it a power loss falls back to
  synced,  \* has the data of the present version reached the disk?
  lock,    \* the threads that hold the mutex
  pc, call,
  draft,   \* the list an Add is about to save
  tmp,     \* the temporary file of its save
  res,
  clock,
  adds,
  acked,   \* history: the notes whose Add has answered
  crashes, slips, losses

files == <<file, disk, synced>>
locals == <<pc, call, draft, tmp, res>>
vars == <<files, lock, locals, clock, adds, acked, crashes, slips, losses>>

Saving == {"saving", "written", "synced"}

TypeOK ==
  /\ {file, disk} \subseteq [form : {"missing", "json", "malformed", "torn"}, notes : Seq(Note)]
  /\ synced \in BOOLEAN
  /\ lock \subseteq Thread
  /\ pc \in [Thread -> {"idle", "called", "refused", "locked", "done"} \cup Saving]
  /\ call \in [Thread -> Call \cup {NoCall}]
  /\ draft \in [Thread -> Seq(Note)]
  /\ tmp \in [Thread -> {"none", "written", "synced"}]
  /\ res \in [Thread -> Result]
  /\ clock \in Time
  /\ adds \in 0 .. MaxAdds
  /\ acked \subseteq Note
  /\ crashes \in 0 .. MaxCrash /\ slips \in 0 .. MaxSlip /\ losses \in 0 .. MaxLoss

NoFile == [form |-> "missing", notes |-> <<>>]

\* Renamed into place before its data was on the disk.
TornFile == [form |-> "torn", notes |-> <<>>]

Init ==
  /\ file = NoFile /\ disk = NoFile
  /\ synced = TRUE
  /\ lock = {}
  /\ pc = [t \in Thread |-> "idle"]
  /\ call = [t \in Thread |-> NoCall]
  /\ draft = [t \in Thread |-> <<>>]
  /\ tmp = [t \in Thread |-> "none"]
  /\ res = [t \in Thread |-> NoResult]
  /\ clock = 0
  /\ adds = 0
  /\ acked = {}
  /\ crashes = 0 /\ slips = 0 /\ losses = 0

Readable == file.form # "malformed"

Step(t, from, to) == pc[t] = from /\ pc' = [pc EXCEPT ![t] = to]

Unchanged == UNCHANGED <<clock, adds, acked, crashes, slips, losses>>

BeginAdd(t, owner) ==
  /\ Step(t, "idle", "called")
  /\ adds < MaxAdds
  /\ adds' = adds + 1
  /\ call' = [call EXCEPT ![t] = [kind |-> "add", owner |-> owner, id |-> adds + 1]]
  /\ UNCHANGED <<files, lock, draft, tmp, res, clock, acked, crashes, slips, losses>>

BeginList(t, owner) ==
  /\ Step(t, "idle", "called")
  /\ call' = [call EXCEPT ![t] = [kind |-> "list", owner |-> owner]]
  /\ UNCHANGED <<files, lock, draft, tmp, res>> /\ Unchanged

RefuseNoOwner(t) ==
  /\ Step(t, "called", "refused")
  /\ call[t].kind = "add" /\ call[t].owner = EmptyOwner
  /\ res' = [res EXCEPT ![t] = Failure("noOwner")]
  /\ UNCHANGED <<files, lock, call, draft, tmp>> /\ Unchanged

\* MUTANT of Acquire: the check for an owner is forgotten.
AcquireForNobody(t) ==
  /\ Step(t, "called", "locked")
  /\ lock = {}
  /\ lock' = {t}
  /\ UNCHANGED <<files, call, draft, tmp, res>> /\ Unchanged

\* MUTANT of Acquire: the mutex is forgotten.
AcquireWithoutMutex(t) ==
  /\ Step(t, "called", "locked")
  /\ ~ (call[t].kind = "add" /\ call[t].owner = EmptyOwner)
  /\ UNCHANGED <<files, lock, call, draft, tmp, res>> /\ Unchanged

Acquire(t) ==
  /\ Step(t, "called", "locked")
  /\ ~ (call[t].kind = "add" /\ call[t].owner = EmptyOwner)
  /\ lock = {}
  /\ lock' = {t}
  /\ UNCHANGED <<files, call, draft, tmp, res>> /\ Unchanged

\* The file is malformed, or cannot be read.
LoadFails(t) ==
  /\ Step(t, "locked", "done")
  /\ res' = [res EXCEPT ![t] = Failure("error")]
  /\ UNCHANGED <<files, lock, call, draft, tmp>> /\ Unchanged

\* MUTANT of AddLoads: the newest note comes first.
AddPrepends(t) ==
  /\ Step(t, "locked", "saving")
  /\ call[t].kind = "add" /\ Readable
  /\ LET note == NewNote(call[t], clock) IN
     /\ draft' = [draft EXCEPT ![t] = <<note>> \o file.notes]
     /\ res' = [res EXCEPT ![t] = Success(<<note>>)]
  /\ UNCHANGED <<files, lock, call, tmp>> /\ Unchanged

\* MUTANT of AddLoads: a malformed file is taken for an empty one.
AddStartsOver(t) ==
  /\ Step(t, "locked", "saving")
  /\ call[t].kind = "add"
  /\ LET note == NewNote(call[t], clock) IN
     /\ draft' = [draft EXCEPT ![t] = Append(IF Readable THEN file.notes ELSE <<>>, note)]
     /\ res' = [res EXCEPT ![t] = Success(<<note>>)]
  /\ UNCHANGED <<files, lock, call, tmp>> /\ Unchanged

\* The note is made, and stamped, once the file has been read.
AddLoads(t) ==
  /\ Step(t, "locked", "saving")
  /\ call[t].kind = "add" /\ Readable
  /\ LET note == NewNote(call[t], clock) IN
     /\ draft' = [draft EXCEPT ![t] = Append(file.notes, note)]
     /\ res' = [res EXCEPT ![t] = Success(<<note>>)]
  /\ UNCHANGED <<files, lock, call, tmp>> /\ Unchanged

OwnedBy(notes, owner) == Sublist(notes, {n \in Note : n.owner = owner})

ListLoads(t) ==
  /\ Step(t, "locked", "done")
  /\ call[t].kind = "list" /\ Readable
  /\ res' = [res EXCEPT ![t] = Success(OwnedBy(file.notes, call[t].owner))]
  /\ UNCHANGED <<files, lock, call, draft, tmp>> /\ Unchanged

\* CreateTemp and Write; then Sync; Close and Chmod come with the Rename.
WriteTemp(t) ==
  /\ Step(t, "saving", "written")
  /\ tmp' = [tmp EXCEPT ![t] = "written"]
  /\ UNCHANGED <<files, lock, call, draft, res>> /\ Unchanged

\* MUTANT of SyncTemp: the file is closed without having been synced.
CloseWithoutSync(t) ==
  /\ Step(t, "written", "synced")
  /\ UNCHANGED <<files, lock, call, draft, tmp, res>> /\ Unchanged

SyncTemp(t) ==
  /\ Step(t, "written", "synced")
  /\ tmp' = [tmp EXCEPT ![t] = "synced"]
  /\ UNCHANGED <<files, lock, call, draft, res>> /\ Unchanged

\* The directory is not synced: the disk learns of the new name later.
Rename(t) ==
  /\ Step(t, "synced", "done")
  /\ file' = [form |-> "json", notes |-> draft[t]]
  /\ synced' = (tmp[t] = "synced")
  /\ tmp' = [tmp EXCEPT ![t] = "none"]
  /\ UNCHANGED <<disk, lock, call, draft, res>> /\ Unchanged

SaveFails(t) ==
  /\ pc[t] \in Saving
  /\ Step(t, pc[t], "done")
  /\ tmp' = [tmp EXCEPT ![t] = "none"]
  /\ res' = [res EXCEPT ![t] = Failure("error")]
  /\ UNCHANGED <<files, lock, call, draft>> /\ Unchanged

Forget(T) ==
  /\ pc' = [t \in Thread |-> IF t \in T THEN "idle" ELSE pc[t]]
  /\ call' = [t \in Thread |-> IF t \in T THEN NoCall ELSE call[t]]
  /\ draft' = [t \in Thread |-> IF t \in T THEN <<>> ELSE draft[t]]
  /\ tmp' = [t \in Thread |-> IF t \in T THEN "none" ELSE tmp[t]]
  /\ res' = [t \in Thread |-> IF t \in T THEN NoResult ELSE res[t]]
  /\ lock' = lock \ T

Return(t) ==
  /\ pc[t] \in {"done", "refused"}
  /\ Forget({t})
  /\ acked' = IF call[t].kind = "add" /\ res[t].code = "ok"
              THEN acked \cup {res[t].notes[1]} ELSE acked
  /\ UNCHANGED <<files, clock, adds, crashes, slips, losses>>

Crash ==
  /\ crashes < MaxCrash
  /\ crashes' = crashes + 1
  /\ Forget(Thread)
  /\ UNCHANGED <<files, clock, adds, acked, slips, losses>>

\* The operator's editor, at a time when no save is under way.
Edit(form) ==
  /\ \A t \in Thread : pc[t] \notin Saving
  /\ file' = [file EXCEPT !.form = form]
  /\ synced' = TRUE
  /\ UNCHANGED <<disk, lock, locals, clock, adds, acked, crashes, losses>>

Break ==
  /\ file.form = "json" /\ Edit("malformed")
  /\ slips < MaxSlip /\ slips' = slips + 1

Repair ==
  /\ file.form = "malformed" /\ Edit("json")
  /\ UNCHANGED slips

\* The kernel writes the directory back, and the power fails.
Flush ==
  /\ losses < MaxLoss
  /\ disk' = IF synced THEN file ELSE TornFile
  /\ UNCHANGED <<file, synced, lock, locals>> /\ Unchanged

PowerLoss ==
  /\ losses < MaxLoss
  /\ losses' = losses + 1
  /\ file' = disk
  /\ synced' = TRUE
  /\ Forget(Thread)
  /\ UNCHANGED <<disk, clock, adds, acked, crashes, slips>>

Tick ==
  /\ clock < MaxTime
  /\ clock' = clock + 1
  /\ UNCHANGED <<files, lock, locals, adds, acked, crashes, slips, losses>>

Next ==
  \/ \E t \in Thread :
       \/ \E owner \in Owner \cup {EmptyOwner} : BeginAdd(t, owner) \/ BeginList(t, owner)
       \/ RefuseNoOwner(t) \/ Acquire(t)
       \/ LoadFails(t) \/ AddLoads(t) \/ ListLoads(t)
       \/ WriteTemp(t) \/ SyncTemp(t) \/ Rename(t) \/ SaveFails(t)
       \/ Return(t)
  \/ Crash
  \/ Break
  \/ Repair
  \/ Flush
  \/ PowerLoss
  \/ Tick

Spec == Init /\ [][Next]_vars

-----------------------------------------------------------------------------

PhaseOf(t) ==
  IF pc[t] = "idle" THEN "idle"
  ELSE IF pc[t] \in {"done", "refused"} THEN "answered" ELSE "pending"

Port ==
  INSTANCE NoteStore WITH
    Durable <- TRUE,
    byOwner <- [o \in Owner |-> OwnedBy(file.notes, o)],
    kept <- [o \in Owner |-> OwnedBy(disk.notes, o)],
    phase <- [t \in Thread |-> PhaseOf(t)],
    res <- [t \in Thread |-> IF PhaseOf(t) = "answered" THEN res[t] ELSE NoResult]

\* The flat file keeps the port's promise, one list per owner, through failed
\* saves, crashes and power losses.
ImplementsNoteStore == Port!Spec

\* A note whose Add has answered is in the file from then on, whatever fails
\* later, a file broken by hand included (load refuses to start over on it; a
\* power loss may bring an older file back: save does not sync the directory).
NoNoteLost ==
  losses = 0 => \A n \in acked : \E i \in DOMAIN file.notes : file.notes[i] = n

\* The file is a whole document at every instant and after a power loss: load
\* would take one that is empty for a store without notes.
NeverTorn == file.form # "torn"

\* The notes are in order of their CreatedAt, whatever the interleaving: the
\* stamp is taken under the mutex that orders the insertions.
OldestFirst ==
  \A i, j \in DOMAIN file.notes : i < j => file.notes[i].at <= file.notes[j].at

===============================================================================
