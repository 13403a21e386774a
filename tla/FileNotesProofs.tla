---------------------------- MODULE FileNotesProofs ----------------------------
(***************************************************************************)
(* Theorems about the notes file, for any number of threads, owners, notes *)
(* and faults: what is never lost, torn or out of order, and that the flat *)
(* list keeps the port's promise of a list per owner.                      *)
(***************************************************************************)
EXTENDS FileNotes, SublistsProofs

Holding == {"locked", "done"} \cup Saving

FileType == [form : {"missing", "json", "malformed", "torn"}, notes : Seq(Note)]

\* TypeOK, but for the answers.
TypeInv ==
  /\ file \in FileType /\ disk \in FileType
  /\ synced \in BOOLEAN
  /\ lock \subseteq Thread
  /\ pc \in [Thread -> {"idle", "called", "refused", "locked", "done"} \cup Saving]
  /\ call \in [Thread -> Call \cup {NoCall}]
  /\ draft \in [Thread -> Seq(Note)]
  /\ tmp \in [Thread -> {"none", "written", "synced"}]
  /\ DOMAIN res = Thread /\ res = [t \in Thread |-> res[t]]
  /\ clock \in Time
  /\ adds \in 0 .. MaxAdds
  /\ acked \subseteq Note
  /\ losses \in Nat

\* Whoever is past Acquire holds the mutex alone, and an Add past it has an owner.
LockInv ==
  \A t \in Thread : pc[t] \in Holding =>
    /\ lock = {t}
    /\ call[t].kind = "add" => call[t] \in Call /\ call[t].owner \in Owner

\* Nothing reaches the place of the file that is not on the disk.
WholeInv ==
  /\ file.form # "torn" /\ disk.form # "torn"
  /\ synced
  /\ \A t \in Thread : pc[t] = "synced" => tmp[t] = "synced"

\* The notes of a file were stamped in order, none of them in the future.
InOrder(notes) ==
  /\ \A i \in DOMAIN notes : notes[i].at <= clock
  /\ \A i, j \in DOMAIN notes : i < j => notes[i].at <= notes[j].at

OrderInv == InOrder(file.notes) /\ InOrder(disk.notes)

\* A draft is the file as it is now and the note the Add will answer.
SaveInv ==
  \A t \in Thread : pc[t] \in Saving =>
    /\ call[t].kind = "add"
    /\ res[t].code = "ok" /\ res[t].notes[1] \in Note
    /\ res[t].notes[1].at <= clock
    /\ \A i \in DOMAIN file.notes : file.notes[i].at <= res[t].notes[1].at
    /\ draft[t] = Append(file.notes, res[t].notes[1])

InFile(n) == \E i \in DOMAIN file.notes : file.notes[i] = n

\* The note of an Add that is about to answer is in the file.
DoneInv ==
  \A t \in Thread :
    /\ pc[t] = "done" /\ call[t].kind = "add" /\ res[t].code = "ok" =>
         res[t].notes[1] \in Note /\ InFile(res[t].notes[1])
    /\ pc[t] = "refused" => res[t].code # "ok"

Inv ==
  /\ TypeInv /\ LockInv /\ WholeInv /\ OrderInv /\ SaveInv /\ DoneInv
  /\ NoNoteLost

\* What Append does to a list of notes.
LEMMA AppendNote ==
  ASSUME NEW s \in Seq(Note), NEW n \in Note
  PROVE  /\ Append(s, n) \in Seq(Note)
         /\ DOMAIN Append(s, n) = DOMAIN s \cup {Len(s) + 1}
         /\ \A i \in DOMAIN s : Append(s, n)[i] = s[i] /\ i < Len(s) + 1 /\ i # Len(s) + 1
         /\ Append(s, n)[Len(s) + 1] = n
  OBVIOUS

\* A note keeps its place in the list it was appended to.
LEMMA AppendKeeps ==
  ASSUME NEW s \in Seq(Note), NEW n \in Note, NEW c \in Nat,
         \A i \in DOMAIN s : s[i].at <= c,
         \A i, j \in DOMAIN s : i < j => s[i].at <= s[j].at,
         n.at <= c, \A i \in DOMAIN s : s[i].at <= n.at
  PROVE  /\ \A i \in DOMAIN Append(s, n) : Append(s, n)[i].at <= c
         /\ \A i, j \in DOMAIN Append(s, n) :
              i < j => Append(s, n)[i].at <= Append(s, n)[j].at
<1>1. \A i \in DOMAIN s : i \in 1 .. Len(s)
  OBVIOUS
<1>2. \A i \in DOMAIN s \cup {Len(s) + 1} : ~ (Len(s) + 1 < i)
  BY <1>1
<1> QED
  BY <1>2, AppendNote

\* New opens a file that is missing.
LEMMA InitInv == Init => Inv
<1> SUFFICES ASSUME Init PROVE Inv
  OBVIOUS
<1> USE FaultBoundAssumption, NotesBoundAssumption DEF Init
<1>1. TypeInv
  BY DEF TypeInv, FileType, NoFile, Saving, Time
<1>2. LockInv /\ WholeInv /\ SaveInv /\ DoneInv
  BY DEF LockInv, WholeInv, SaveInv, DoneInv, Holding, Saving, NoFile
<1>3. OrderInv /\ NoNoteLost
  BY DEF OrderInv, InOrder, NoNoteLost, NoFile
<1> QED
  BY <1>1, <1>2, <1>3 DEF Inv

\* What a step that leaves the files alone must show of one thread's locals.
LEMMA QuietStep ==
  ASSUME Inv, TypeInv', LockInv', UNCHANGED <<files, clock, acked, losses>>,
         \A t \in Thread : pc'[t] = "synced" => tmp'[t] = "synced",
         SaveInv', DoneInv'
  PROVE  Inv'
  BY DEF Inv, WholeInv, OrderInv, InOrder, NoNoteLost, InFile, files

\* While one thread is past Acquire, no other is.
LEMMA Alone ==
  ASSUME LockInv, NEW t \in Thread, pc[t] \in Holding, NEW u \in Thread, u # t
  PROVE  pc[u] \notin Holding
  BY DEF LockInv

\* The clock moves on.
LEMMA TickInv == Inv /\ Tick => Inv'
<1> SUFFICES ASSUME Inv, Tick PROVE Inv'
  OBVIOUS
<1> USE NotesBoundAssumption DEF Inv, TypeInv, Tick, files, locals
<1>1. TypeInv' /\ LockInv' /\ WholeInv'
  BY DEF LockInv, WholeInv, Time, Holding, Saving
<1>2. \A n \in Note : n.at \in Nat
  BY DEF Note, Time
<1>3. OrderInv'
  <2>1. ASSUME NEW notes \in Seq(Note), InOrder(notes)
        PROVE  \A i \in DOMAIN notes : notes[i].at <= clock'
    <3>1. \A i \in DOMAIN notes : notes[i] \in Note
      OBVIOUS
    <3> QED
      BY <2>1, <3>1, <1>2 DEF InOrder, Time
  <2>2. file.notes \in Seq(Note) /\ disk.notes \in Seq(Note)
    BY DEF FileType
  <2> QED
    BY <2>1, <2>2 DEF OrderInv, InOrder
<1>4. SaveInv'
  BY <1>2 DEF SaveInv, Time, Saving
<1>5. DoneInv' /\ NoNoteLost'
  BY DEF DoneInv, NoNoteLost, InFile
<1> QED
  BY <1>1, <1>3, <1>4, <1>5

\* An Add loads the file, and stamps its note.
LEMMA AddLoadsInv == ASSUME Inv, NEW t \in Thread, AddLoads(t) PROVE Inv'
<1> USE DEF Inv, TypeInv, AddLoads, Step, Unchanged, files
<1> DEFINE n == NewNote(call[t], clock)
<1>1. n \in Note /\ n.at = clock
  BY DEF NewNote, Note, LockInv, Holding, Call
<1>2. res'[t] = Success(<<n>>) /\ res'[t].code = "ok" /\ res'[t].notes[1] = n
  BY DEF Success
<1>3. file.notes \in Seq(Note)
  BY DEF FileType
<1>4. TypeInv'
  <2>1. draft' \in [Thread -> Seq(Note)]
    BY <1>1, <1>3, AppendNote
  <2>2. DOMAIN res' = Thread /\ res' = [u \in Thread |-> res'[u]]
    OBVIOUS
  <2>3. pc' \in [Thread -> {"idle", "called", "refused", "locked", "done"} \cup Saving]
    BY DEF Saving
  <2> QED
    BY <2>1, <2>2, <2>3
<1>5. LockInv' /\ \A u \in Thread : pc'[u] = "synced" => tmp'[u] = "synced"
  BY DEF LockInv, WholeInv, Holding, Saving
<1>6. \A u \in Thread : u # t => pc'[u] \notin Holding
  BY Alone DEF Holding
<1>7. SaveInv'
  BY <1>1, <1>2, <1>6 DEF SaveInv, Holding, OrderInv, InOrder, Time
<1>8. DoneInv'
  BY <1>6 DEF DoneInv, Holding
<1> QED
  BY <1>4, <1>5, <1>7, <1>8, QuietStep

\* A save puts the note in its place.
LEMMA RenameInv == ASSUME Inv, NEW t \in Thread, Rename(t) PROVE Inv'
<1> USE DEF Inv, TypeInv, Rename, Step, Unchanged
<1> DEFINE n == res[t].notes[1]
<1>1. /\ n \in Note /\ n.at <= clock /\ call[t].kind = "add"
      /\ draft[t] = Append(file.notes, n)
      /\ \A i \in DOMAIN file.notes : file.notes[i].at <= n.at
  BY DEF SaveInv, Saving
<1>2. file.notes \in Seq(Note) /\ Append(file.notes, n) \in Seq(Note)
  BY <1>1, AppendNote DEF FileType
<1>3. file' = [form |-> "json", notes |-> Append(file.notes, n)]
  BY <1>1
<1>4. TypeInv'
  BY <1>2, <1>3 DEF FileType
<1>5. LockInv'
  BY DEF LockInv, Holding, Saving
<1>6. WholeInv'
  BY DEF WholeInv
<1>7. OrderInv'
  <2>1. clock \in Nat
    BY NotesBoundAssumption DEF Time
  <2>2. InOrder(Append(file.notes, n))
    BY <1>1, <1>2, <2>1, AppendKeeps DEF OrderInv, InOrder
  <2>3. file'.notes = Append(file.notes, n) /\ disk' = disk /\ clock' = clock
    BY <1>3
  <2> QED
    BY <2>2, <2>3 DEF OrderInv, InOrder
<1>8. \A u \in Thread : u # t => pc'[u] \notin Holding
  BY Alone DEF Holding, Saving
<1>9. SaveInv'
  BY <1>8 DEF SaveInv, Holding, Saving
<1>10. InFile(n)' /\ \A m : InFile(m) => InFile(m)'
  BY <1>1, <1>2, <1>3, AppendNote DEF InFile
<1>11. DoneInv'
  BY <1>1, <1>8, <1>10 DEF DoneInv, Holding
<1>12. NoNoteLost'
  BY <1>10 DEF NoNoteLost, InFile
<1> QED
  BY <1>4, <1>5, <1>6, <1>7, <1>9, <1>11, <1>12

\* The steps of a thread before it has loaded the file.
LEMMA EntryInv ==
  ASSUME Inv, NEW t \in Thread, NEW owner \in Owner \cup {EmptyOwner},
         \/ BeginAdd(t, owner) \/ BeginList(t, owner) \/ RefuseNoOwner(t) \/ Acquire(t)
  PROVE  Inv'
<1> USE NotesBoundAssumption, OwnerAssumption DEF Inv, TypeInv, Step, Unchanged, files
<1>1. CASE BeginAdd(t, owner) \/ BeginList(t, owner)
  <2>1. adds' \in 0 .. MaxAdds /\ (BeginAdd(t, owner) => adds + 1 \in 1 .. MaxAdds)
    BY <1>1 DEF BeginAdd, BeginList
  <2>2. call' \in [Thread -> Call \cup {NoCall}]
    <3>1. CASE BeginAdd(t, owner)
      <4>1. [kind |-> "add", owner |-> owner, id |-> adds + 1] \in Call
        BY <2>1, <3>1 DEF Call
      <4> QED
        BY <3>1, <4>1 DEF BeginAdd
    <3>2. CASE BeginList(t, owner)
      <4>1. [kind |-> "list", owner |-> owner] \in Call
        BY DEF Call
      <4> QED
        BY <3>2, <4>1 DEF BeginList
    <3> QED
      BY <1>1, <3>1, <3>2
  <2>3. \A u \in Thread : pc'[u] \in Holding \/ pc'[u] = "done" => u # t
    BY <1>1 DEF BeginAdd, BeginList, Holding, Saving
  <2>4. TypeInv'
    <3>1. pc' \in [Thread -> {"idle", "called", "refused", "locked", "done"} \cup Saving]
      BY <1>1 DEF BeginAdd, BeginList
    <3>2. /\ UNCHANGED <<file, disk, synced, lock, draft, tmp, res, clock, losses>>
          /\ acked' = acked
      BY <1>1 DEF BeginAdd, BeginList
    <3> QED
      BY <2>1, <2>2, <3>1, <3>2
  <2>5. LockInv' /\ SaveInv' /\ DoneInv' /\ \A u \in Thread : pc'[u] = "synced" => tmp'[u] = "synced"
    <3>1. \A u \in Thread : u # t => pc'[u] = pc[u] /\ call'[u] = call[u]
      BY <1>1 DEF BeginAdd, BeginList
    <3>2. pc'[t] = "called" /\ UNCHANGED <<file, lock, draft, tmp, res, clock>>
      BY <1>1 DEF BeginAdd, BeginList
    <3>3. LockInv'
      BY <3>1, <3>2, SMTT(30) DEF LockInv, Holding, Saving
    <3>4. SaveInv'
      BY <3>1, <3>2 DEF SaveInv, Saving
    <3>5. DoneInv'
      BY <3>1, <3>2 DEF DoneInv, InFile
    <3> QED
      BY <3>1, <3>2, <3>3, <3>4, <3>5 DEF WholeInv
  <2> QED
    BY <1>1, <2>4, <2>5, QuietStep DEF BeginAdd, BeginList
<1>2. CASE RefuseNoOwner(t)
  <2>1. TypeInv'
    BY <1>2 DEF RefuseNoOwner
  <2>2. LockInv' /\ SaveInv' /\ DoneInv' /\ \A u \in Thread : pc'[u] = "synced" => tmp'[u] = "synced"
    BY <1>2 DEF RefuseNoOwner, Failure, LockInv, SaveInv, DoneInv, InFile, WholeInv, Holding, Saving
  <2> QED
    BY <1>2, <2>1, <2>2, QuietStep DEF RefuseNoOwner
<1>3. CASE Acquire(t)
  <2>1. TypeInv'
    BY <1>3 DEF Acquire
  <2>2. LockInv'
    BY <1>3 DEF Acquire, LockInv, Holding, Saving, Call, NoCall
  <2>3. SaveInv' /\ DoneInv' /\ \A u \in Thread : pc'[u] = "synced" => tmp'[u] = "synced"
    BY <1>3 DEF Acquire, SaveInv, DoneInv, InFile, WholeInv, Saving
  <2> QED
    BY <1>3, <2>1, <2>2, <2>3, QuietStep DEF Acquire
<1> QED
  BY <1>1, <1>2, <1>3

\* The steps past Acquire that leave the file alone.
LEMMA LockedInv ==
  ASSUME Inv, NEW t \in Thread,
         \/ LoadFails(t) \/ ListLoads(t) \/ WriteTemp(t) \/ SyncTemp(t) \/ SaveFails(t)
  PROVE  Inv'
<1> USE DEF Inv, TypeInv, Step, Unchanged, files, Saving
<1>1. CASE LoadFails(t) \/ SaveFails(t)
  <2>1. res' = [res EXCEPT ![t] = Failure("error")] /\ res'[t].code = "error"
    BY <1>1 DEF LoadFails, SaveFails, Failure
  <2>2. TypeInv'
    <3>1. CASE LoadFails(t)
      BY <2>1, <3>1 DEF LoadFails
    <3>2. CASE SaveFails(t)
      <4>1. tmp' \in [Thread -> {"none", "written", "synced"}]
        BY <3>2 DEF SaveFails
      <4>2. pc' \in [Thread -> {"idle", "called", "refused", "locked", "done"} \cup Saving]
        BY <3>2 DEF SaveFails
      <4>3. DOMAIN res' = Thread /\ res' = [u \in Thread |-> res'[u]]
        BY <2>1
      <4> QED
        BY <3>2, <4>1, <4>2, <4>3 DEF SaveFails
    <3> QED
      BY <1>1, <3>1, <3>2
  <2>3. LockInv'
    BY <1>1 DEF LoadFails, SaveFails, LockInv, Holding
  <2>4. SaveInv' /\ DoneInv' /\ \A u \in Thread : pc'[u] = "synced" => tmp'[u] = "synced"
    <3>1. \A u \in Thread : u # t => pc'[u] = pc[u] /\ res'[u] = res[u] /\ tmp'[u] = tmp[u]
      BY <1>1, <2>1 DEF LoadFails, SaveFails
    <3>2. pc'[t] = "done" /\ UNCHANGED <<file, call, draft, clock>>
      BY <1>1 DEF LoadFails, SaveFails
    <3>3. SaveInv'
      BY <3>1, <3>2 DEF SaveInv
    <3>4. DoneInv'
      <4>1. SUFFICES ASSUME NEW u \in Thread
                     PROVE  (/\ pc[u] = "done" /\ call[u].kind = "add" /\ res[u].code = "ok" =>
                                  res[u].notes[1] \in Note /\ InFile(res[u].notes[1])
                             /\ pc[u] = "refused" => res[u].code # "ok")'
        BY DEF DoneInv
      <4>2. CASE u = t
        BY <2>1, <3>2, <4>2
      <4>3. CASE u # t
        <5>1. /\ pc[u] = "done" /\ call[u].kind = "add" /\ res[u].code = "ok" =>
                   res[u].notes[1] \in Note /\ InFile(res[u].notes[1])
              /\ pc[u] = "refused" => res[u].code # "ok"
          BY DEF DoneInv
        <5>2. pc'[u] = pc[u] /\ call' = call /\ res'[u] = res[u] /\ file' = file
          BY <3>1, <3>2, <4>3
        <5> QED
          BY <5>1, <5>2 DEF InFile
      <4> QED
        BY <4>2, <4>3
    <3> QED
      BY <3>1, <3>2, <3>3, <3>4 DEF WholeInv
  <2> QED
    BY <1>1, <2>2, <2>3, <2>4, QuietStep DEF LoadFails, SaveFails
<1>2. CASE ListLoads(t)
  <2>1. TypeInv'
    <3>1. pc' \in [Thread -> {"idle", "called", "refused", "locked", "done"} \cup Saving]
      BY <1>2 DEF ListLoads
    <3>2. UNCHANGED <<file, disk, synced, call, draft, tmp, clock, adds, acked, losses>>
      BY <1>2 DEF ListLoads
    <3>3. lock' \subseteq Thread
      BY <1>2 DEF ListLoads
    <3>4. DOMAIN res' = Thread /\ res' = [u \in Thread |-> res'[u]]
      BY <1>2 DEF ListLoads
    <3> QED
      BY <3>1, <3>2, <3>3, <3>4
  <2>2. LockInv'
    BY <1>2 DEF ListLoads, LockInv, Holding
  <2>3. SaveInv' /\ DoneInv' /\ \A u \in Thread : pc'[u] = "synced" => tmp'[u] = "synced"
    BY <1>2 DEF ListLoads, SaveInv, DoneInv, InFile, WholeInv
  <2> QED
    BY <1>2, <2>1, <2>2, <2>3, QuietStep DEF ListLoads
<1>3. CASE WriteTemp(t) \/ SyncTemp(t)
  <2>1. TypeInv'
    <3>1. tmp' \in [Thread -> {"none", "written", "synced"}]
      BY <1>3 DEF WriteTemp, SyncTemp
    <3>2. pc' \in [Thread -> {"idle", "called", "refused", "locked", "done"} \cup Saving]
      BY <1>3 DEF WriteTemp, SyncTemp
    <3>3. UNCHANGED <<file, disk, synced, lock, call, draft, res, clock, adds, acked, losses>>
      BY <1>3 DEF WriteTemp, SyncTemp
    <3> QED
      BY <3>1, <3>2, <3>3
  <2>2. LockInv'
    BY <1>3 DEF WriteTemp, SyncTemp, LockInv, Holding
  <2>3. SaveInv' /\ DoneInv' /\ \A u \in Thread : pc'[u] = "synced" => tmp'[u] = "synced"
    <3>1. \A u \in Thread : u # t => pc'[u] = pc[u] /\ tmp'[u] = tmp[u]
      BY <1>3 DEF WriteTemp, SyncTemp
    <3>2. /\ pc[t] \in Saving /\ pc'[t] \in Saving
          /\ pc'[t] = "synced" => tmp'[t] = "synced"
      BY <1>3 DEF WriteTemp, SyncTemp
    <3>3. UNCHANGED <<file, call, draft, res, clock>>
      BY <1>3 DEF WriteTemp, SyncTemp
    <3> QED
      BY <3>1, <3>2, <3>3 DEF SaveInv, DoneInv, InFile, WholeInv
  <2> QED
    BY <1>3, <2>1, <2>2, <2>3, QuietStep DEF WriteTemp, SyncTemp
<1> QED
  BY <1>1, <1>2, <1>3

\* What the end of any set of threads leaves.
LEMMA ForgetFacts ==
  ASSUME TypeInv, LockInv, NEW T \in SUBSET Thread, Forget(T)
  PROVE  /\ lock' \subseteq Thread
         /\ pc' \in [Thread -> {"idle", "called", "refused", "locked", "done"} \cup Saving]
         /\ call' \in [Thread -> Call \cup {NoCall}]
         /\ draft' \in [Thread -> Seq(Note)]
         /\ tmp' \in [Thread -> {"none", "written", "synced"}]
         /\ DOMAIN res' = Thread /\ res' = [t \in Thread |-> res'[t]]
         /\ LockInv'
         /\ \A t \in Thread : pc'[t] # "idle" =>
              /\ t \notin T /\ pc'[t] = pc[t] /\ call'[t] = call[t] /\ draft'[t] = draft[t]
              /\ tmp'[t] = tmp[t] /\ res'[t] = res[t]
<1> USE DEF TypeInv, Forget
<1>1. \A t \in Thread : pc'[t] # "idle" =>
        /\ t \notin T /\ pc'[t] = pc[t] /\ call'[t] = call[t] /\ draft'[t] = draft[t]
        /\ tmp'[t] = tmp[t] /\ res'[t] = res[t]
  OBVIOUS
<1>2. LockInv'
  BY <1>1 DEF LockInv, Holding, Saving
<1>3. draft' \in [Thread -> Seq(Note)]
  <2>1. <<>> \in Seq(Note)
    OBVIOUS
  <2> QED
    BY <2>1
<1> QED
  BY <1>1, <1>2, <1>3

\* A return ends one thread, and an Add may have been acknowledged.
LEMMA ReturnInv == ASSUME Inv, NEW t \in Thread, Return(t) PROVE Inv'
<1> USE DEF Inv, Return
<1> DEFINE n == res[t].notes[1]
<1>1. acked' = acked \/ (acked' = acked \cup {n} /\ n \in Note /\ InFile(n))
  BY DEF DoneInv
<1>2. TypeInv' /\ LockInv'
  BY <1>1, ForgetFacts DEF TypeInv, files
<1>3. WholeInv'
  BY ForgetFacts DEF WholeInv, files
<1>4. OrderInv' /\ NoNoteLost'
  BY <1>1 DEF OrderInv, InOrder, NoNoteLost, InFile, files
<1>5. SaveInv' /\ DoneInv'
  <2>1. \A u \in Thread : pc'[u] # "idle" =>
          pc'[u] = pc[u] /\ call'[u] = call[u] /\ draft'[u] = draft[u] /\ res'[u] = res[u]
    BY ForgetFacts
  <2>2. file' = file /\ clock' = clock
    BY DEF files
  <2> QED
    BY <2>1, <2>2 DEF SaveInv, DoneInv, InFile, Saving
<1> QED
  BY <1>2, <1>3, <1>4, <1>5

\* A crash ends them all.
LEMMA CrashInv == ASSUME Inv, Crash PROVE Inv'
<1> USE DEF Inv, Crash
<1>1. Forget(Thread) /\ \A t \in Thread : pc'[t] = "idle"
  BY DEF Forget
<1>2. TypeInv' /\ LockInv'
  BY <1>1, ForgetFacts DEF TypeInv, files
<1>3. WholeInv' /\ OrderInv' /\ NoNoteLost'
  BY <1>1 DEF WholeInv, OrderInv, InOrder, NoNoteLost, files
<1>4. SaveInv' /\ DoneInv'
  BY <1>1 DEF SaveInv, DoneInv, Saving
<1> QED
  BY <1>2, <1>3, <1>4

\* A power loss also takes the file back to the version on the disk.
LEMMA PowerLossInv == ASSUME Inv, PowerLoss PROVE Inv'
<1> USE DEF Inv, PowerLoss
<1>1. Forget(Thread) /\ \A t \in Thread : pc'[t] = "idle"
  BY DEF Forget
<1>2. losses' \in Nat /\ losses' # 0
  BY DEF TypeInv
<1>3. TypeInv' /\ LockInv'
  BY <1>1, <1>2, ForgetFacts DEF TypeInv
<1>4. WholeInv' /\ OrderInv' /\ NoNoteLost'
  BY <1>1, <1>2 DEF WholeInv, OrderInv, InOrder, NoNoteLost
<1>5. SaveInv' /\ DoneInv'
  BY <1>1 DEF SaveInv, DoneInv, Saving
<1> QED
  BY <1>3, <1>4, <1>5

\* An edit by hand changes the form of the file and none of its notes, and is not made
\* during a save; the write-back copies the file.
LEMMA EditInv == ASSUME Inv, Break \/ Repair \/ Flush PROVE Inv'
<1> USE DEF Inv
<1>1. CASE Break \/ Repair
  <2>1. PICK form \in {"malformed", "json"} : Edit(form)
    BY <1>1 DEF Break, Repair
  <2>2. file' = [file EXCEPT !.form = form] /\ file'.notes = file.notes
    BY <2>1 DEF Edit, TypeInv, FileType
  <2>3. \A t \in Thread : pc[t] \notin Saving
    BY <2>1 DEF Edit
  <2>4. file' \in FileType
    BY <2>2 DEF TypeInv, FileType
  <2>7. TypeInv' /\ LockInv' /\ WholeInv'
    BY <2>1, <2>2, <2>4 DEF Edit, TypeInv, LockInv, WholeInv, locals
  <2>5. OrderInv' /\ NoNoteLost'
    BY <2>1, <2>2 DEF Edit, OrderInv, InOrder, NoNoteLost
  <2>6. SaveInv' /\ DoneInv'
    BY <2>1, <2>2, <2>3 DEF Edit, SaveInv, DoneInv, InFile, locals
  <2> QED
    BY <2>5, <2>6, <2>7
<1>2. CASE Flush
  <2>1. disk' = file
    BY <1>2 DEF Flush, WholeInv
  <2>2. TypeInv' /\ LockInv' /\ WholeInv'
    BY <1>2, <2>1 DEF Flush, Unchanged, TypeInv, LockInv, WholeInv, locals
  <2>3. OrderInv' /\ NoNoteLost' /\ SaveInv' /\ DoneInv'
    BY <1>2, <2>1 DEF Flush, Unchanged, OrderInv, InOrder, NoNoteLost, SaveInv, DoneInv,
                      InFile, locals
  <2> QED
    BY <2>2, <2>3
<1> QED
  BY <1>1, <1>2

\* Every step keeps the invariant.
LEMMA StepInv == Inv /\ [Next]_vars => Inv'
<1> SUFFICES ASSUME Inv, [Next]_vars PROVE Inv'
  OBVIOUS
<1>1. ASSUME NEW t \in Thread, NEW owner \in Owner \cup {EmptyOwner},
             BeginAdd(t, owner) \/ BeginList(t, owner)
      PROVE  Inv'
  BY <1>1, EntryInv
<1>2. ASSUME NEW t \in Thread, RefuseNoOwner(t) \/ Acquire(t) PROVE Inv'
  BY <1>2, EntryInv
<1>3. ASSUME NEW t \in Thread,
             LoadFails(t) \/ ListLoads(t) \/ WriteTemp(t) \/ SyncTemp(t) \/ SaveFails(t)
      PROVE  Inv'
  BY <1>3, LockedInv
<1>4. ASSUME NEW t \in Thread, AddLoads(t) \/ Rename(t) \/ Return(t) PROVE Inv'
  BY <1>4, AddLoadsInv, RenameInv, ReturnInv
<1>5. CASE Crash \/ PowerLoss \/ Break \/ Repair \/ Flush \/ Tick
  BY <1>5, CrashInv, PowerLossInv, EditInv, TickInv
<1>6. CASE UNCHANGED vars
  BY <1>6 DEF vars, files, locals, Inv, TypeInv, LockInv, WholeInv, OrderInv, InOrder, SaveInv,
              DoneInv, InFile, NoNoteLost
<1> QED
  BY <1>1, <1>2, <1>3, <1>4, <1>5, <1>6 DEF Next

\* The invariant of every behaviour.
LEMMA Invariance == Spec => []Inv
  BY InitInv, StepInv, PTL DEF Spec

\* At every instant and after every power loss the notes file is a whole document:
\* save syncs the temporary file before it renames it.
THEOREM FileIsWhole == Spec => []NeverTorn
<1>1. Inv => NeverTorn
  BY DEF Inv, WholeInv, NeverTorn
<1> QED
  BY <1>1, Invariance, PTL

\* Until the first power loss, a note whose Add has answered is in the file, however
\* many threads add, whatever fails and however often the file is broken by hand.
THEOREM NotesAreKept == Spec => []NoNoteLost
<1>1. Inv => NoNoteLost
  BY DEF Inv
<1> QED
  BY <1>1, Invariance, PTL

\* File order is the order of CreatedAt: the mutex orders stamps as it orders saves.
THEOREM FileInOrder == Spec => []OldestFirst
<1>1. Inv => OldestFirst
  BY DEF Inv, OrderInv, InOrder, OldestFirst
<1> QED
  BY <1>1, Invariance, PTL

-----------------------------------------------------------------------------
(* Types and answers.                                                       *)

\* The note a save is about is the one its call made.
AnswerInv ==
  \A t \in Thread : pc[t] \in Saving =>
    \E at \in Time : res[t] = Success(<<NewNote(call[t], at)>>)

FullInv == Inv /\ TypeOK /\ AnswerInv

\* An answer with well-typed notes is a result.
LEMMA ResultTypes ==
  /\ \A notes \in Seq(Note) : Success(notes) \in Result
  /\ \A code \in {"none", "noOwner", "error"} : Failure(code) \in Result
  /\ NoResult \in Result
<1>1. <<>> \in Seq(Note)
  OBVIOUS
<1> QED
  BY <1>1 DEF Success, Failure, NoResult, Result

\* What an owner has of a list of notes is a list of notes, and nobody's is empty.
LEMMA OwnedByType ==
  ASSUME NEW notes \in Seq(Note), NEW owner
  PROVE  /\ OwnedBy(notes, owner) \in Seq(Note)
         /\ owner = EmptyOwner => OwnedBy(notes, owner) = <<>>
<1> DEFINE mine == {n \in Note : n.owner = owner}
<1>1. Sublist(notes, mine) \in Seq(Note)
  BY SublistType
<1>2. ASSUME owner = EmptyOwner PROVE Sublist(notes, mine) = <<>>
  <2>1. mine = {}
    BY <1>2, OwnerAssumption DEF Note
  <2> QED
    BY <2>1, SublistOfNone
<1> QED
  BY <1>1, <1>2 DEF OwnedBy

\* A note is appended to what its owner has, and to no other list.
LEMMA OwnedByAppend ==
  ASSUME NEW notes \in Seq(Note), NEW n \in Note, NEW owner
  PROVE  OwnedBy(Append(notes, n), owner) =
           IF n.owner = owner THEN Append(OwnedBy(notes, owner), n) ELSE OwnedBy(notes, owner)
  BY SublistAppend DEF OwnedBy

\* The lists of all owners, then, when a note is appended.
LEMMA ListsAppend ==
  ASSUME NEW notes \in Seq(Note), NEW n \in Note
  PROVE  [o \in Owner |-> OwnedBy(Append(notes, n), o)] =
           [[o \in Owner |-> OwnedBy(notes, o)] EXCEPT ![n.owner] = Append(@, n)]
<1>1. \A o : OwnedBy(Append(notes, n), o) =
               IF n.owner = o THEN Append(OwnedBy(notes, o), n) ELSE OwnedBy(notes, o)
  BY OwnedByAppend
<1> QED
  BY <1>1

\* New's state.
LEMMA InitFull == Init => FullInv
<1> SUFFICES ASSUME Init PROVE FullInv
  OBVIOUS
<1>1. TypeOK
  <2>1. <<>> \in Seq(Note)
    OBVIOUS
  <2> QED
    BY <2>1, ResultTypes, FaultBoundAssumption, NotesBoundAssumption
    DEF Init, TypeOK, NoFile, Time
<1> QED
  BY <1>1, InitInv DEF FullInv, Init, AnswerInv, Saving

\* The answers have the type of an answer.
LEMMA ResultStep == FullInv /\ Inv' /\ [Next]_vars => res' \in [Thread -> Result]
<1> SUFFICES ASSUME FullInv, Inv', [Next]_vars PROVE res' \in [Thread -> Result]
  OBVIOUS
<1> res \in [Thread -> Result]
  BY DEF FullInv, TypeOK
<1>1. ASSUME NEW t \in Thread, RefuseNoOwner(t) \/ LoadFails(t) \/ SaveFails(t)
      PROVE  res' \in [Thread -> Result]
  BY <1>1, ResultTypes DEF RefuseNoOwner, LoadFails, SaveFails
<1>2. ASSUME NEW t \in Thread, AddLoads(t) PROVE res' \in [Thread -> Result]
  <2>1. NewNote(call[t], clock) \in Note
    BY <1>2 DEF AddLoads, Step, FullInv, Inv, TypeInv, LockInv, Holding, NewNote, Note, Call
  <2>2. <<NewNote(call[t], clock)>> \in Seq(Note)
    BY <2>1
  <2> QED
    BY <1>2, <2>2, ResultTypes DEF AddLoads
<1>3. ASSUME NEW t \in Thread, ListLoads(t) PROVE res' \in [Thread -> Result]
  <2>1. OwnedBy(file.notes, call[t].owner) \in Seq(Note)
    BY OwnedByType DEF FullInv, Inv, TypeInv, FileType
  <2> QED
    BY <1>3, <2>1, ResultTypes DEF ListLoads
<1>4. ASSUME NEW T \in SUBSET Thread, Forget(T) PROVE res' \in [Thread -> Result]
  BY <1>4, ResultTypes DEF Forget
<1>5. ASSUME UNCHANGED res PROVE res' \in [Thread -> Result]
  BY <1>5
<1> QED
  BY <1>1, <1>2, <1>3, <1>4, <1>5
  DEF Next, vars, locals, BeginAdd, BeginList, Acquire, WriteTemp, SyncTemp, Rename, Return, Crash,
      PowerLoss, Break, Repair, Edit, Flush, Tick

\* The bounds are kept.
LEMMA BoundStep ==
  TypeOK /\ [Next]_vars =>
    (/\ adds \in 0 .. MaxAdds
     /\ crashes \in 0 .. MaxCrash /\ slips \in 0 .. MaxSlip /\ losses \in 0 .. MaxLoss)'
<1> SUFFICES ASSUME TypeOK, [Next]_vars
             PROVE  /\ adds' \in 0 .. MaxAdds
                    /\ crashes' \in 0 .. MaxCrash /\ slips' \in 0 .. MaxSlip
                    /\ losses' \in 0 .. MaxLoss
  OBVIOUS
<1> USE FaultBoundAssumption, NotesBoundAssumption DEF TypeOK
<1>1. ASSUME UNCHANGED <<adds, crashes, slips, losses>>
      PROVE  /\ adds' \in 0 .. MaxAdds
             /\ crashes' \in 0 .. MaxCrash /\ slips' \in 0 .. MaxSlip
             /\ losses' \in 0 .. MaxLoss
  BY <1>1
<1>2. ASSUME NEW t \in Thread, NEW owner, BeginAdd(t, owner)
      PROVE  /\ adds' \in 0 .. MaxAdds
             /\ crashes' \in 0 .. MaxCrash /\ slips' \in 0 .. MaxSlip
             /\ losses' \in 0 .. MaxLoss
  BY <1>2 DEF BeginAdd
<1>3. CASE Crash
  BY <1>3 DEF Crash
<1>4. CASE Break \/ Repair
  BY <1>4 DEF Break, Repair, Edit
<1>5. CASE PowerLoss
  BY <1>5 DEF PowerLoss
<1>6. ASSUME NEW t \in Thread,
             \/ \E owner \in Owner \cup {EmptyOwner} : BeginList(t, owner)
             \/ RefuseNoOwner(t) \/ Acquire(t)
             \/ LoadFails(t) \/ AddLoads(t) \/ ListLoads(t)
             \/ WriteTemp(t) \/ SyncTemp(t) \/ Rename(t) \/ SaveFails(t) \/ Return(t)
      PROVE  UNCHANGED <<adds, crashes, slips, losses>>
  BY <1>6 DEF BeginList, RefuseNoOwner, Acquire, LoadFails, AddLoads, ListLoads, WriteTemp,
              SyncTemp, Rename, SaveFails, Return, Unchanged
<1>7. CASE Flush \/ Tick \/ UNCHANGED vars
  <2>1. UNCHANGED <<adds, crashes, slips, losses>>
    BY <1>7 DEF Flush, Tick, vars, Unchanged
  <2> QED
    BY <1>1, <2>1
<1> HIDE DEF TypeOK
<1> QED
  BY <1>1, <1>2, <1>3, <1>4, <1>5, <1>6, <1>7 DEF Next

\* Every variable keeps its type.
LEMMA TypeStep == FullInv /\ Inv' /\ [Next]_vars => TypeOK'
<1> SUFFICES ASSUME FullInv, Inv', [Next]_vars PROVE TypeOK'
  OBVIOUS
<1>1. res' \in [Thread -> Result]
  BY ResultStep
<1>2. (/\ adds \in 0 .. MaxAdds
       /\ crashes \in 0 .. MaxCrash /\ slips \in 0 .. MaxSlip /\ losses \in 0 .. MaxLoss)'
  BY BoundStep DEF FullInv
<1>3. TypeInv'
  BY DEF Inv
<1> QED
  BY <1>1, <1>2, <1>3 DEF TypeOK, TypeInv, FileType

\* A note is made once, from the call and the clock.
LEMMA AnswerStep == FullInv /\ [Next]_vars => AnswerInv'
<1> SUFFICES ASSUME FullInv, [Next]_vars PROVE AnswerInv'
  OBVIOUS
<1> TypeOK /\ AnswerInv
  BY DEF FullInv
<1> USE DEF Saving
<1>1. ASSUME NEW t \in Thread, AddLoads(t) PROVE AnswerInv'
  <2>1. clock \in Time /\ res'[t] = Success(<<NewNote(call'[t], clock)>>)
    BY <1>1 DEF AddLoads, TypeOK
  <2>2. \A u \in Thread \ {t} : pc'[u] = pc[u] /\ call'[u] = call[u] /\ res'[u] = res[u]
    BY <1>1 DEF AddLoads, Step, TypeOK
  <2> QED
    BY <2>1, <2>2 DEF AnswerInv
<1>2. ASSUME NEW t \in Thread,
             \A u \in Thread \ {t} : pc'[u] = pc[u] /\ call'[u] = call[u] /\ res'[u] = res[u],
             pc'[t] \in Saving => pc[t] \in Saving /\ call'[t] = call[t] /\ res'[t] = res[t]
      PROVE  AnswerInv'
  BY <1>2 DEF AnswerInv
<1>3. ASSUME NEW t \in Thread, NEW owner, BeginAdd(t, owner) \/ BeginList(t, owner)
      PROVE  AnswerInv'
  BY <1>2, <1>3 DEF BeginAdd, BeginList, Step, TypeOK
<1>4. ASSUME NEW t \in Thread,
             \/ RefuseNoOwner(t) \/ Acquire(t) \/ LoadFails(t) \/ ListLoads(t)
             \/ WriteTemp(t) \/ SyncTemp(t) \/ Rename(t) \/ SaveFails(t)
      PROVE  AnswerInv'
  BY <1>2, <1>4 DEF RefuseNoOwner, Acquire, LoadFails, ListLoads, WriteTemp, SyncTemp, Rename,
                    SaveFails, Step, TypeOK
<1>5. ASSUME NEW T \in SUBSET Thread, Forget(T) PROVE AnswerInv'
  BY <1>5 DEF Forget, AnswerInv
<1>6. ASSUME UNCHANGED locals PROVE AnswerInv'
  BY <1>6 DEF locals, AnswerInv
<1> QED
  BY <1>1, <1>3, <1>4, <1>5, <1>6
  DEF Next, vars, Return, Crash, PowerLoss, Break, Repair, Edit, Flush, Tick

\* So all of it holds throughout.
LEMMA FullInvariance == Spec => []FullInv
<1>1. FullInv /\ [Next]_vars => FullInv'
  BY StepInv, TypeStep, AnswerStep DEF FullInv
<1> QED
  BY <1>1, InitFull, PTL DEF Spec

\* Every variable of the file adapter keeps its type.
THEOREM TypeCorrect == Spec => []TypeOK
<1>1. FullInv => TypeOK
  BY DEF FullInv
<1> QED
  BY <1>1, FullInvariance, PTL

-----------------------------------------------------------------------------
(* The refinement: each step of the adapter is one of the port, or none.    *)

\* Both specifications mean the same by a note, a call and an answer.
LEMMA SameData ==
  /\ Port!NoCall = NoCall /\ Port!NoResult = NoResult /\ Port!Call = Call /\ Port!Time = Time
  /\ \A c, at : Port!NewNote(c, at) = NewNote(c, at)
  /\ \A notes : Port!Success(notes) = Success(notes)
  /\ \A code : Port!Failure(code) = Failure(code)
  /\ \A map, owner : Port!NotesOf(map, owner) = NotesOf(map, owner)
  BY DEF Port!NoCall, Port!NoResult, Port!Call, Port!Time, Port!NewNote, Port!Success,
     Port!Failure, Port!NotesOf, NoCall, NoResult, Call, Time, NewNote, Success, Failure, NotesOf

\* What thread t has answered, and has not delivered.
AnswerOf(t) == IF PhaseOf(t) = "answered" THEN res[t] ELSE NoResult

\* A step in which no note is stored, and no call begins, takes effect or ends.
LEMMA Stutters ==
  ASSUME UNCHANGED <<file.notes, disk.notes, call>>,
         \A u \in Thread : (PhaseOf(u))' = PhaseOf(u) /\ (AnswerOf(u))' = AnswerOf(u)
  PROVE  UNCHANGED Port!vars
  BY DEF Port!vars, AnswerOf

\* A step that only moves a thread on between its call and its answer.
LEMMA Pending ==
  ASSUME TypeOK, NEW t \in Thread, NEW from, NEW to, Step(t, from, to),
         from \notin {"idle", "done", "refused"}, to \notin {"idle", "done", "refused"},
         UNCHANGED <<files, call>>, \A u \in Thread \ {t} : res'[u] = res[u]
  PROVE  UNCHANGED Port!vars
<1>1. \A u \in Thread : (PhaseOf(u))' = PhaseOf(u) /\ (AnswerOf(u))' = AnswerOf(u)
  BY DEF Step, PhaseOf, AnswerOf, TypeOK
<1> QED
  BY <1>1, Stutters DEF files

\* A call that is done, or refused, has its answer.
LEMMA Answers ==
  ASSUME TypeOK, NEW t \in Thread, NEW from, NEW to \in {"done", "refused"}, Step(t, from, to),
         from \notin {"idle", "done", "refused"},
         NEW result, res' = [res EXCEPT ![t] = result], UNCHANGED <<disk, call>>
  PROVE  Port!Answer(t, result)
<1>1. /\ pc[t] = from /\ pc' = [pc EXCEPT ![t] = to]
      /\ pc \in [Thread -> {"idle", "called", "refused", "locked", "done"} \cup Saving]
      /\ res \in [Thread -> Result]
  BY DEF Step, TypeOK
<1>2. [u \in Thread |-> PhaseOf(u)]' = [[u \in Thread |-> PhaseOf(u)] EXCEPT ![t] = "answered"]
  BY <1>1 DEF PhaseOf
<1>3. [u \in Thread |-> AnswerOf(u)]' = [[u \in Thread |-> AnswerOf(u)] EXCEPT ![t] = result]
  BY <1>1 DEF AnswerOf, PhaseOf
<1>4. PhaseOf(t) = "pending"
  BY <1>1 DEF PhaseOf
<1> QED
  BY <1>2, <1>3, <1>4 DEF Port!Answer, AnswerOf

\* An add takes effect when the file is replaced.
LEMMA RenameAdds ==
  ASSUME FullInv, NEW t \in Thread, Rename(t)
  PROVE  Port!Add(t)
<1> TypeOK /\ pc[t] = "synced" /\ file.notes \in Seq(Note)
  BY DEF FullInv, Rename, Step, Inv, TypeInv, FileType
<1>1. call[t].kind = "add" /\ call[t] \in Call /\ call[t].owner \in Owner
  BY DEF FullInv, Inv, SaveInv, LockInv, Holding, Saving
<1>2. PICK at \in Time : res[t] = Success(<<NewNote(call[t], at)>>)
  BY DEF FullInv, AnswerInv, Saving
<1> DEFINE made == NewNote(call[t], at)
           owner == call[t].owner
<1>3. res[t].notes[1] = made /\ made.owner = owner
  BY <1>2 DEF Success, NewNote
<1>4. made \in Note /\ draft[t] = Append(file.notes, made)
  BY <1>3 DEF FullInv, Inv, SaveInv, Saving
<1>5. file'.notes = Append(file.notes, made)
  BY <1>4 DEF Rename
<1>6. [o \in Owner |-> OwnedBy(file.notes, o)]' =
        [[o \in Owner |-> OwnedBy(file.notes, o)] EXCEPT ![owner] = Append(@, made)]
  <2>1. PICK n \in Note : n = made
    BY <1>4
  <2>2. [o \in Owner |-> OwnedBy(file.notes, o)]' = [o \in Owner |-> OwnedBy(Append(file.notes, n), o)]
    BY <1>5, <2>1
  <2>3. [o \in Owner |-> OwnedBy(Append(file.notes, n), o)] =
          [[o \in Owner |-> OwnedBy(file.notes, o)] EXCEPT ![n.owner] = Append(@, n)]
    BY ListsAppend
  <2>4. n.owner = owner
    BY <1>3, <2>1
  <2> HIDE DEF made, owner
  <2> QED
    BY <2>1, <2>2, <2>3, <2>4
<1>7. Port!Answer(t, Success(<<made>>))
  <2>1. res' = [res EXCEPT ![t] = Success(<<made>>)]
    BY <1>2 DEF Rename, TypeOK
  <2> QED
    BY <2>1, Answers DEF Rename, Port!Answer
<1> QED
  BY <1>1, <1>2, <1>6, <1>7, SameData DEF Port!Add, Port!Answer

\* A list takes effect when the file is read.
LEMMA LoadLists ==
  ASSUME FullInv, NEW t \in Thread, ListLoads(t)
  PROVE  Port!List(t)
<1> TypeOK /\ file.notes \in Seq(Note) /\ call[t].kind = "list"
  BY DEF FullInv, ListLoads, Inv, TypeInv, FileType
<1>1. call[t].owner \in Owner \cup {EmptyOwner}
  BY DEF TypeOK, Call, NoCall
<1>2. NotesOf([o \in Owner |-> OwnedBy(file.notes, o)], call[t].owner)
        = OwnedBy(file.notes, call[t].owner)
  BY <1>1, OwnedByType, OwnerAssumption DEF NotesOf
<1>3. Port!Answer(t, Success(OwnedBy(file.notes, call[t].owner)))
  BY Answers DEF ListLoads, Port!Answer, files
<1>4. UNCHANGED [o \in Owner |-> OwnedBy(file.notes, o)]
  BY DEF ListLoads, files
<1> QED
  BY <1>2, <1>3, <1>4, SameData DEF Port!List, Port!Answer

\* A call begins as the port lets it.
LEMMA BeginInvokes ==
  ASSUME TypeOK, NEW t \in Thread, NEW owner \in Owner \cup {EmptyOwner},
         BeginAdd(t, owner) \/ BeginList(t, owner)
  PROVE  Port!Invoke(t)
<1>1. /\ pc[t] = "idle" /\ pc' = [pc EXCEPT ![t] = "called"] /\ UNCHANGED <<file, disk, res>>
      /\ pc \in [Thread -> {"idle", "called", "refused", "locked", "done"} \cup Saving]
  BY DEF BeginAdd, BeginList, Step, TypeOK, files
<1>2. PICK c \in Call : call' = [call EXCEPT ![t] = c]
  <2>1. CASE BeginAdd(t, owner)
    <3>1. adds + 1 \in 1 .. MaxAdds
      BY <2>1, NotesBoundAssumption DEF BeginAdd, TypeOK
    <3>2. [kind |-> "add", owner |-> owner, id |-> adds + 1] \in Call
      BY <3>1 DEF Call
    <3> QED
      BY <2>1, <3>2 DEF BeginAdd
  <2>2. CASE BeginList(t, owner)
    <3>1. [kind |-> "list", owner |-> owner] \in Call
      BY DEF Call
    <3> QED
      BY <2>2, <3>1 DEF BeginList
  <2> QED
    BY <2>1, <2>2
<1>3. [u \in Thread |-> PhaseOf(u)]' = [[u \in Thread |-> PhaseOf(u)] EXCEPT ![t] = "pending"]
  BY <1>1 DEF PhaseOf
<1>4. [u \in Thread |-> AnswerOf(u)]' = [u \in Thread |-> AnswerOf(u)]
  BY <1>1 DEF AnswerOf, PhaseOf
<1>5. PhaseOf(t) = "idle"
  BY <1>1 DEF PhaseOf
<1> QED
  BY <1>1, <1>2, <1>3, <1>4, <1>5, SameData DEF Port!Invoke, AnswerOf

\* The deferred unlock delivers the answer.
LEMMA ReturnResponds ==
  ASSUME TypeOK, NEW t \in Thread, Return(t)
  PROVE  Port!Respond(t)
<1>1. /\ pc[t] \in {"done", "refused"} /\ pc' = [pc EXCEPT ![t] = "idle"]
      /\ UNCHANGED <<file, disk>>
      /\ pc \in [Thread -> {"idle", "called", "refused", "locked", "done"} \cup Saving]
  BY DEF Return, Forget, TypeOK, files
<1>2. res' = [res EXCEPT ![t] = NoResult] /\ call' = [call EXCEPT ![t] = NoCall]
  BY DEF Return, Forget, TypeOK
<1>3. [u \in Thread |-> PhaseOf(u)]' = [[u \in Thread |-> PhaseOf(u)] EXCEPT ![t] = "idle"]
  BY <1>1 DEF PhaseOf
<1>4. [u \in Thread |-> AnswerOf(u)]' = [[u \in Thread |-> AnswerOf(u)] EXCEPT ![t] = NoResult]
  BY <1>1, <1>2 DEF AnswerOf, PhaseOf, TypeOK
<1>5. PhaseOf(t) = "answered"
  BY <1>1 DEF PhaseOf
<1> QED
  BY <1>1, <1>2, <1>3, <1>4, <1>5, SameData DEF Port!Respond, AnswerOf

\* Each step of the adapter is one of the port, or leaves it alone.
LEMMA PortStep == FullInv /\ [Next]_vars => [Port!Next]_(Port!vars)
<1> SUFFICES ASSUME FullInv, [Next]_vars PROVE Port!Next \/ UNCHANGED Port!vars
  OBVIOUS
<1> TypeOK
  BY DEF FullInv
<1>1. ASSUME NEW t \in Thread, NEW owner \in Owner \cup {EmptyOwner},
             BeginAdd(t, owner) \/ BeginList(t, owner)
      PROVE  Port!Next
  BY <1>1, BeginInvokes DEF Port!Next
<1>2. ASSUME NEW t \in Thread, RefuseNoOwner(t) PROVE Port!Next
  <2>1. Port!Answer(t, Failure("noOwner"))
    BY <1>2, Answers DEF RefuseNoOwner, Port!Answer, files
  <2>2. UNCHANGED file.notes
    BY <1>2 DEF RefuseNoOwner, files
  <2> QED
    BY <1>2, <2>1, <2>2, SameData DEF RefuseNoOwner, Port!Refuse, Port!Next, Port!Answer
<1>3. ASSUME NEW t \in Thread, Acquire(t) \/ AddLoads(t) \/ WriteTemp(t) \/ SyncTemp(t)
      PROVE  UNCHANGED Port!vars
  <2>1. UNCHANGED <<files, call>> /\ \A u \in Thread \ {t} : res'[u] = res[u]
    BY <1>3 DEF Acquire, AddLoads, WriteTemp, SyncTemp, TypeOK
  <2> QED
    BY <1>3, <2>1, Pending DEF Acquire, AddLoads, WriteTemp, SyncTemp
<1>4. ASSUME NEW t \in Thread, LoadFails(t) \/ SaveFails(t) PROVE Port!Next
  <2>1. UNCHANGED <<file, disk, call>> /\ res' = [res EXCEPT ![t] = Failure("error")]
    BY <1>4 DEF LoadFails, SaveFails, files
  <2>2. Port!Answer(t, Failure("error"))
    BY <1>4, <2>1, Answers DEF LoadFails, SaveFails, Saving, Port!Answer
  <2> QED
    BY <2>1, <2>2, SameData DEF Port!Fail, Port!Next, Port!Answer
<1>5. ASSUME NEW t \in Thread, Rename(t) \/ ListLoads(t) \/ Return(t) PROVE Port!Next
  BY <1>5, RenameAdds, LoadLists, ReturnResponds DEF Port!Next
<1>6. ASSUME Forget(Thread)
      PROVE  Port!Die
  <2>1. \A u \in Thread : (PhaseOf(u))' = "idle" /\ (AnswerOf(u))' = NoResult
    BY <1>6 DEF Forget, PhaseOf, AnswerOf
  <2>2. call' = [u \in Thread |-> NoCall]
    BY <1>6 DEF Forget
  <2> QED
    BY <2>1, <2>2, SameData DEF Port!Die, AnswerOf
<1>7. CASE Crash
  <2>1. UNCHANGED <<file, disk>>
    BY <1>7 DEF Crash, files
  <2> QED
    BY <1>6, <1>7, <2>1 DEF Crash, Port!Crash, Port!Next
<1>8. CASE PowerLoss
  <2>1. file' = disk /\ disk' = disk
    BY <1>8 DEF PowerLoss
  <2> QED
    BY <1>6, <1>8, <2>1 DEF PowerLoss, Port!PowerLoss, Port!Next
<1>9. CASE Flush
  <2>1. disk' = file /\ file' = file /\ UNCHANGED <<pc, call, res>>
    BY <1>9 DEF Flush, FullInv, Inv, WholeInv, locals
  <2> QED
    BY <2>1 DEF PhaseOf, Port!WriteBack, Port!Next
<1>10. CASE Break \/ Repair \/ Tick \/ UNCHANGED vars
  <2>1. UNCHANGED <<file.notes, disk, pc, call, res>>
    BY <1>10 DEF Break, Repair, Edit, Tick, vars, files, locals, FullInv, Inv, TypeInv, FileType
  <2> QED
    BY <2>1, Stutters DEF PhaseOf, AnswerOf
<1> QED
  BY <1>1, <1>2, <1>3, <1>4, <1>5, <1>7, <1>8, <1>9, <1>10 DEF Next

\* The flat file implements the port, a list per owner, through failed saves, crashes,
\* power losses and files broken by hand.
THEOREM FileKeepsPort == Spec => ImplementsNoteStore
<1>1. Init => Port!Init
  <2> SUFFICES ASSUME Init PROVE Port!Init
    OBVIOUS
  <2>1. \A o \in Owner : OwnedBy(<<>>, o) = <<>>
    BY SublistEmpty DEF OwnedBy
  <2>2. file.notes = <<>> /\ disk.notes = <<>>
    BY DEF Init, NoFile
  <2> QED
    BY <2>1, <2>2, SameData DEF Init, Port!Init, PhaseOf
<1> QED
  BY <1>1, PortStep, FullInvariance, PTL DEF Spec, ImplementsNoteStore, Port!Spec

===============================================================================
