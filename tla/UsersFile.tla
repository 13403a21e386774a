------------------------------- MODULE UsersFile -------------------------------
(***************************************************************************)
(* The users-file Store (internal/adapter/out/auth/local/store.go), step   *)
(* by step: threads of one or several processes, each process with its own *)
(* Store and so its own mutex, call it on one file.  An operation locks,   *)
(* loads, computes a new document, and saves it through a temporary file;  *)
(* every one of those steps can fail and a process can die between them.   *)
(* Nothing but the mutex of one Store keeps two writers apart.             *)
(***************************************************************************)
EXTENDS UsersDocument, Naturals

CONSTANTS
  Thread,       \* goroutines that call a Store
  Store,        \* one Store per process: the server, and each CLI process
  StoreOf,      \* the Store each thread calls
  Writer,       \* threads that issue, create or revoke (the server's only read)
  EditAnytime,  \* does the operator edit the file by hand during a save too?
  MaxCrash,     \* bound: processes killed
  MaxEdit,      \* bound: edits of the file by hand
  MaxLoss       \* bound: power losses

ASSUME StoreAssumption == StoreOf \in [Thread -> Store]
ASSUME WriterAssumption == Writer \subseteq Thread
ASSUME SwitchAssumption == EditAnytime \in BOOLEAN
ASSUME BoundAssumption == MaxCrash \in Nat /\ MaxEdit \in Nat /\ MaxLoss \in Nat

VARIABLES
  file,     \* the users file as a reader sees it
  disk,     \* the version of it a power loss falls back to
  synced,   \* has the data of the present version reached the disk?
  lock,     \* lock[s]: the threads holding the mutex of Store s
  pc,       \* how far thread t is into its call
  call,     \* the call of thread t
  draft,    \* the document thread t is about to save
  tmp,      \* the temporary file of thread t's save
  res,      \* what thread t's call returns, if nothing goes wrong from here on
  minted,   \* every id drawn from the random source so far
  issued,   \* history: ids some issue has returned to its caller
  asked,    \* history: ids some call was asked to revoke
  revoked,  \* history: ids whose revocation was reported done
  crashes, edits, losses

docVars == <<file, disk, synced>>
threadVars == <<pc, call, draft, tmp, res>>
ghosts == <<issued, asked, revoked>>
budgets == <<crashes, edits, losses>>
vars == <<docVars, lock, threadVars, minted, ghosts, budgets>>

Saving == {"saving", "written", "synced"}
Holding == {"locked", "done"} \cup Saving
Step == {"idle", "called", "refused"} \cup Holding

TypeOK ==
  /\ file \in File
  /\ disk \in File
  /\ synced \in BOOLEAN
  /\ lock \in [Store -> SUBSET Thread]
  /\ pc \in [Thread -> Step]
  /\ call \in [Thread -> Call \cup {NoCall}]
  /\ draft \in [Thread -> Document]
  /\ tmp \in [Thread -> {"none", "written", "synced"}]
  /\ res \in [Thread -> Result]
  /\ minted \in SUBSET TokenId
  /\ issued \in SUBSET TokenId
  /\ asked \in SUBSET TokenId
  /\ revoked \in SUBSET TokenId
  /\ crashes \in 0 .. MaxCrash
  /\ edits \in 0 .. MaxEdit
  /\ losses \in 0 .. MaxLoss

Init ==
  /\ file = NoFile
  /\ disk = NoFile
  /\ synced = TRUE
  /\ lock = [s \in Store |-> {}]
  /\ pc = [t \in Thread |-> "idle"]
  /\ call = [t \in Thread |-> NoCall]
  /\ draft = [t \in Thread |-> NoUsers]
  /\ tmp = [t \in Thread |-> "none"]
  /\ res = [t \in Thread |-> NoResult]
  /\ minted = {} /\ issued = {} /\ asked = {} /\ revoked = {}
  /\ crashes = 0 /\ edits = 0 /\ losses = 0

-----------------------------------------------------------------------------
(* Calling, locking and reading.                                            *)

Begin(t, c) ==
  /\ pc[t] = "idle"
  /\ t \in Writer \/ ReadOnly(c)
  /\ pc' = [pc EXCEPT ![t] = "called"]
  /\ call' = [call EXCEPT ![t] = c]
  /\ asked' = IF c.kind = "revoke" THEN asked \cup {c.id} ELSE asked
  /\ UNCHANGED <<docVars, lock, draft, tmp, res, minted, issued, revoked, budgets>>

\* The empty subject is refused before the mutex is taken.
RefuseEmptySubject(t) ==
  /\ pc[t] = "called"
  /\ NamesNobody(call[t])
  /\ pc' = [pc EXCEPT ![t] = "refused"]
  /\ res' = [res EXCEPT ![t] = Refusal("emptySubject")]
  /\ UNCHANGED <<docVars, lock, call, draft, tmp, minted, ghosts, budgets>>

\* MUTANT of Acquire: the mutex is forgotten.
AcquireWithoutMutex(t) ==
  /\ pc[t] = "called"
  /\ ~ NamesNobody(call[t])
  /\ pc' = [pc EXCEPT ![t] = "locked"]
  /\ UNCHANGED <<docVars, lock, call, draft, tmp, res, minted, ghosts, budgets>>

Acquire(t) ==
  /\ pc[t] = "called"
  /\ ~ NamesNobody(call[t])
  /\ lock[StoreOf[t]] = {}
  /\ lock' = [lock EXCEPT ![StoreOf[t]] = {t}]
  /\ pc' = [pc EXCEPT ![t] = "locked"]
  /\ UNCHANGED <<docVars, call, draft, tmp, res, minted, ghosts, budgets>>

\* The mutex is held and load has returned a document.
Loads(t, kind) == pc[t] = "locked" /\ call[t].kind = kind /\ Readable(file)

\* The operation is over without a save.
Finish(t, result) ==
  /\ pc' = [pc EXCEPT ![t] = "done"]
  /\ res' = [res EXCEPT ![t] = result]
  /\ UNCHANGED <<docVars, lock, call, draft, tmp, minted, ghosts, budgets>>

\* The operation has computed the document it wants on disk.
StartSave(t, doc, result) ==
  /\ pc' = [pc EXCEPT ![t] = "saving"]
  /\ draft' = [draft EXCEPT ![t] = doc]
  /\ res' = [res EXCEPT ![t] = result]
  /\ UNCHANGED <<docVars, lock, call, tmp, ghosts, budgets>>

\* load fails: the file is malformed, or reading it does.
ReadFails(t) == pc[t] = "locked" /\ Finish(t, Refusal("unreadable"))

\* MUTANT of FindByTokenHash: the token is answered without its user.
FindsBareToken(t) ==
  /\ Loads(t, "find")
  /\ Finish(t, IF call[t].id \in Ids(file.doc)
               THEN Answer("ok", [tokens |-> MatchOf(file.doc, call[t].id).tokens])
               ELSE Refusal("noMatch"))

FindByTokenHash(t) ==
  /\ Loads(t, "find")
  /\ Finish(t, IF call[t].id \in Ids(file.doc)
               THEN Answer("ok", MatchOf(file.doc, call[t].id))
               ELSE Refusal("noMatch"))

Users(t) == Loads(t, "list") /\ Finish(t, Answer("ok", file.doc))

IssueToken(t) ==
  /\ Loads(t, "issue")
  /\ MayIssue(file.doc, call[t])
  /\ \E id \in TokenId \ minted :
       LET tk == NewToken(id, call[t]) IN
       /\ minted' = minted \cup {id}
       /\ StartSave(t, WithToken(file.doc, tk),
                    Answer("ok", WithToken(NoUsers, tk)))

UserNotFound(t) ==
  /\ Loads(t, "issue")
  /\ ~ MayIssue(file.doc, call[t])
  /\ Finish(t, Refusal("userNotFound"))

\* The random source has no bytes for a new token.
MintFails(t) ==
  /\ Loads(t, "issue")
  /\ MayIssue(file.doc, call[t])
  /\ Finish(t, Refusal("mintFailed"))

CreateUser(t) ==
  /\ Loads(t, "create")
  /\ ~ Provisioned(file.doc, call[t].subject)
  /\ StartSave(t, WithUser(file.doc, call[t].subject),
               Answer("ok", WithUser(NoUsers, call[t].subject)))
  /\ UNCHANGED minted

UserExists(t) ==
  /\ Loads(t, "create")
  /\ Provisioned(file.doc, call[t].subject)
  /\ Finish(t, Refusal("userExists"))

\* MUTANT of RevokeToken: the record is dropped from memory and never saved.
RevokeWithoutSave(t) ==
  /\ Loads(t, "revoke")
  /\ call[t].id \in Ids(file.doc)
  /\ Finish(t, Refusal("ok"))

RevokeToken(t) ==
  /\ Loads(t, "revoke")
  /\ call[t].id \in Ids(file.doc)
  /\ StartSave(t, WithoutToken(file.doc, call[t].id), Refusal("ok"))
  /\ UNCHANGED minted

TokenNotFound(t) ==
  /\ Loads(t, "revoke")
  /\ call[t].id \notin Ids(file.doc)
  /\ Finish(t, Refusal("tokenNotFound"))

-----------------------------------------------------------------------------
(* save: a temporary file beside the real one, synced, renamed over it.     *)

SaveStep(t, from, to) ==
  /\ pc[t] = from
  /\ pc' = [pc EXCEPT ![t] = to]
  /\ UNCHANGED <<lock, call, draft, res, minted, ghosts, budgets>>

\* The temporary file is created, narrowed to its owner, and written.
WriteTemp(t) ==
  /\ SaveStep(t, "saving", "written")
  /\ tmp' = [tmp EXCEPT ![t] = "written"]
  /\ UNCHANGED docVars

\* MUTANT of SyncTemp: the file is closed without having been synced.
CloseWithoutSync(t) ==
  /\ SaveStep(t, "written", "synced")
  /\ UNCHANGED <<docVars, tmp>>

SyncTemp(t) ==
  /\ SaveStep(t, "written", "synced")
  /\ tmp' = [tmp EXCEPT ![t] = "synced"]
  /\ UNCHANGED docVars

\* The directory is not synced: the disk learns of the new name later.
Rename(t) ==
  /\ SaveStep(t, "synced", "done")
  /\ file' = JsonFile(draft[t])
  /\ synced' = (tmp[t] = "synced")
  /\ tmp' = [tmp EXCEPT ![t] = "none"]
  /\ UNCHANGED disk

\* MUTANT of SaveFails: the error of save is dropped.
SaveFailsSilently(t) ==
  /\ pc[t] \in Saving
  /\ pc' = [pc EXCEPT ![t] = "done"]
  /\ tmp' = [tmp EXCEPT ![t] = "none"]
  /\ UNCHANGED <<docVars, lock, call, draft, res, minted, ghosts, budgets>>

\* Any of the calls of save fails; the deferred Remove takes the file away.
SaveFails(t) ==
  /\ pc[t] \in Saving
  /\ pc' = [pc EXCEPT ![t] = "done"]
  /\ res' = [res EXCEPT ![t] = Refusal("ioError")]
  /\ tmp' = [tmp EXCEPT ![t] = "none"]
  /\ UNCHANGED <<docVars, lock, call, draft, minted, ghosts, budgets>>

\* MUTANT of Return: a call that fails to read the file does not unlock.
ReturnKeepsMutex(t) ==
  /\ pc[t] \in {"done", "refused"}
  /\ pc' = [pc EXCEPT ![t] = "idle"]
  /\ lock' = [lock EXCEPT ![StoreOf[t]] = IF res[t].code = "unreadable" THEN @ ELSE @ \ {t}]
  /\ call' = [call EXCEPT ![t] = NoCall]
  /\ draft' = [draft EXCEPT ![t] = NoUsers]
  /\ res' = [res EXCEPT ![t] = NoResult]
  /\ UNCHANGED <<docVars, tmp, minted, ghosts, budgets>>

\* The deferred Unlock, and the answer to the caller.
Return(t) ==
  /\ pc[t] \in {"done", "refused"}
  /\ pc' = [pc EXCEPT ![t] = "idle"]
  /\ lock' = [lock EXCEPT ![StoreOf[t]] = @ \ {t}]
  /\ call' = [call EXCEPT ![t] = NoCall]
  /\ draft' = [draft EXCEPT ![t] = NoUsers]
  /\ res' = [res EXCEPT ![t] = NoResult]
  /\ issued' = IF call[t].kind = "issue" /\ res[t].code = "ok"
               THEN issued \cup Ids(res[t].doc) ELSE issued
  /\ revoked' = IF call[t].kind = "revoke" /\ res[t].code = "ok"
                THEN revoked \cup {call[t].id} ELSE revoked
  /\ UNCHANGED <<docVars, tmp, minted, asked, budgets>>

-----------------------------------------------------------------------------
(* The environment: processes killed, the operator's editor, the disk.      *)

\* The threads in T are gone with all they held.  A temporary file they leave
\* is never looked at again: CreateTemp picks a fresh name.
Stop(T) ==
  /\ pc' = [t \in Thread |-> IF t \in T THEN "idle" ELSE pc[t]]
  /\ lock' = [s \in Store |-> lock[s] \ T]
  /\ call' = [t \in Thread |-> IF t \in T THEN NoCall ELSE call[t]]
  /\ draft' = [t \in Thread |-> IF t \in T THEN NoUsers ELSE draft[t]]
  /\ tmp' = [t \in Thread |-> IF t \in T THEN "none" ELSE tmp[t]]
  /\ res' = [t \in Thread |-> IF t \in T THEN NoResult ELSE res[t]]
  /\ UNCHANGED <<minted, ghosts>>

ThreadsOf(s) == {t \in Thread : StoreOf[t] = s}

Crash(s) ==
  /\ crashes < MaxCrash
  /\ crashes' = crashes + 1
  /\ Stop(ThreadsOf(s))
  /\ UNCHANGED <<docVars, edits, losses>>

\* An editor and a save at the same time lose one of the two; the models that
\* are about something else keep them apart.
MayEdit == edits < MaxEdit /\ (EditAnytime \/ \A t \in Thread : pc[t] \notin Saving)

Edit(f) ==
  /\ MayEdit
  /\ edits' = edits + 1
  /\ file' = f
  /\ synced' = TRUE
  /\ UNCHANGED <<disk, lock, threadVars, minted, ghosts, crashes, losses>>

\* By hand the operator provisions a user, disables one, enables one again.
EditStatus(subject, status) ==
  /\ Readable(file)
  /\ status # file.doc.status[subject]
  /\ Edit(JsonFile(WithStatus(file.doc, subject, status)))

\* A slip of the editor, and its repair.
EditBreaks ==
  /\ file.form = "json"
  /\ Edit([form |-> "malformed", doc |-> file.doc])

EditRepairs ==
  /\ file.form = "malformed"
  /\ Edit(JsonFile(file.doc))

\* The kernel writes the directory back; a file that was not synced may be
\* named there before it has any data.  Of no interest once no power loss is
\* left.
Flush ==
  /\ losses < MaxLoss
  /\ disk' = IF synced THEN file ELSE TornFile
  /\ UNCHANGED <<file, synced, lock, threadVars, minted, ghosts, budgets>>

PowerLoss ==
  /\ losses < MaxLoss
  /\ losses' = losses + 1
  /\ file' = disk
  /\ synced' = TRUE
  /\ Stop(Thread)
  /\ UNCHANGED <<disk, crashes, edits>>

-----------------------------------------------------------------------------

\* What a thread does once it has its turn; Begin is the caller's choice.
Proceed(t) ==
  \/ RefuseEmptySubject(t)
  \/ ReadFails(t)
  \/ FindByTokenHash(t) \/ Users(t)
  \/ IssueToken(t) \/ UserNotFound(t) \/ MintFails(t)
  \/ CreateUser(t) \/ UserExists(t)
  \/ RevokeToken(t) \/ TokenNotFound(t)
  \/ WriteTemp(t) \/ SyncTemp(t) \/ Rename(t) \/ SaveFails(t)
  \/ Return(t)

Operator ==
  \/ \E subject \in Subject, status \in {"enabled", "disabled"} : EditStatus(subject, status)
  \/ EditBreaks
  \/ EditRepairs

Next ==
  \/ \E t \in Thread : (\E c \in Call : Begin(t, c)) \/ Acquire(t) \/ Proceed(t)
  \/ \E s \in Store : Crash(s)
  \/ Operator
  \/ Flush
  \/ PowerLoss

Spec == Init /\ [][Next]_vars

\* A runnable goroutine is scheduled, and sync.Mutex does not starve a waiter.
FairSpec == Spec /\ \A t \in Thread : WF_vars(Proceed(t)) /\ SF_vars(Acquire(t))

-----------------------------------------------------------------------------

\* A revocation the caller was told of is final: the record is never in the
\* file again, whatever the other threads had read before (a power loss may
\* bring an older file back: save syncs the file, not the directory).
RevokedStaysRevoked ==
  losses = 0 => revoked \cap Ids(file.doc) = {}

\* A credential handed to its caller stays in the file until somebody asks for
\* its revocation, through every other operation, every failed save, every
\* crash and every slip of the editor: no update is lost.
NoLostIssue ==
  losses = 0 => issued \ asked \subseteq Ids(file.doc)

\* The file is a whole document at every instant and after a power loss: no
\* crash or failure of save leaves a truncated one.
NeverTorn == file.form # "torn"

\* A user the operator disabled by hand stays disabled until they are enabled
\* by hand: no operation on other users or tokens brings them back.
DisabledStaysDisabled ==
  [][\A s \in Subject :
       file.doc.status[s] = "disabled" /\ file'.doc.status[s] # "disabled"
         => edits' # edits \/ losses' # losses]_vars

\* Every call returns (or its process dies), however many threads contend for
\* the mutex and whatever step of the save fails: each path unlocks.
EveryCallReturns == \A t \in Thread : pc[t] = "called" ~> pc[t] = "idle"

===============================================================================
