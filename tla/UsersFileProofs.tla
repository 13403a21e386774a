---------------------------- MODULE UsersFileProofs ----------------------------
(***************************************************************************)
(* Theorems about the Store for any number of threads, processes, users    *)
(* and credentials, and any bounds.  Typing, mutual exclusion and the      *)
(* wholeness of the file hold however the processes are arranged; that no  *)
(* update is lost needs all writers behind one mutex, and that each call   *)
(* takes effect at one instant, and no operation brings a disabled user    *)
(* back, also that the operator does not edit the file during a save.      *)
(***************************************************************************)
EXTENDS UsersFileRefinement, TLAPS

(* What the document operators return, and what they do to the ids on file. *)

\* The empty document is one, and holds no token.
LEMMA NoUsersType == NoUsers \in Document /\ Ids(NoUsers) = {}
  BY DEF NoUsers, Document, Status, Ids

\* Changing a status by hand leaves the ids on file alone.
LEMMA WithStatusFacts ==
  ASSUME NEW doc \in Document, NEW s \in Subject, NEW st \in Status
  PROVE  WithStatus(doc, s, st) \in Document /\ Ids(WithStatus(doc, s, st)) = Ids(doc)
  BY DEF WithStatus, Document, Ids

\* CreateUser's document has the tokens it had.
LEMMA WithUserFacts ==
  ASSUME NEW doc \in Document, NEW s \in Subject
  PROVE  WithUser(doc, s) \in Document /\ Ids(WithUser(doc, s)) = Ids(doc)
  BY WithStatusFacts DEF WithUser, Status

\* IssueToken's document has the new id and all it had.
LEMMA WithTokenFacts ==
  ASSUME NEW doc \in Document, NEW tk \in Token
  PROVE  /\ WithToken(doc, tk) \in Document
         /\ Ids(WithToken(doc, tk)) = Ids(doc) \cup {tk.id}
  BY DEF WithToken, Document, Token, Status, Ids

\* RevokeToken's document has every id but the revoked one.
LEMMA WithoutTokenFacts ==
  ASSUME NEW doc \in Document, NEW id
  PROVE  /\ WithoutToken(doc, id) \in Document
         /\ Ids(WithoutToken(doc, id)) = Ids(doc) \ {id}
  BY DEF WithoutToken, Document, Ids

\* What FindByTokenHash hands back is a part of a document.
LEMMA MatchOfType ==
  ASSUME NEW doc \in Document, NEW id
  PROVE  MatchOf(doc, id) \in Document
  BY DEF MatchOf, Document, Status

\* The ids on file are token ids.
LEMMA IdsType ==
  ASSUME NEW doc \in Document
  PROVE  Ids(doc) \subseteq TokenId
  BY DEF Ids, Document, Token

\* An answer is a result, with its code and document.
LEMMA AnswerType ==
  ASSUME NEW doc \in Document, NEW code \in Code
  PROVE  /\ Answer(code, doc) \in Result
         /\ Answer(code, doc).code = code
         /\ Answer(code, doc).doc = doc
  BY DEF Answer, Result

\* A refusal is a result that carries no token.
LEMMA RefusalType ==
  ASSUME NEW code \in Code
  PROVE  /\ Refusal(code) \in Result
         /\ Refusal(code).code = code
         /\ Refusal(code).doc = NoUsers
  BY AnswerType, NoUsersType DEF Refusal

\* Before it answers, a call has no success to report.
LEMMA NoResultType == NoResult \in Result /\ NoResult.code = "none"
  BY RefusalType DEF NoResult, Code

\* The states of the users file that load can meet.
LEMMA FileTypes ==
  /\ NoFile \in File /\ NoFile.doc = NoUsers /\ NoFile.form = "missing"
  /\ TornFile \in File /\ TornFile.doc = NoUsers
  /\ \A doc \in Document : /\ JsonFile(doc) \in File
                           /\ JsonFile(doc).doc = doc
                           /\ JsonFile(doc).form = "json"
  BY NoUsersType DEF NoFile, TornFile, JsonFile, File

\* What a call carries follows from its kind.
LEMMA CallKinds ==
  ASSUME NEW c \in Call \cup {NoCall}
  PROVE  /\ c.kind = "issue" => c \in Call /\ c.subject \in Subject \cup {EmptySubject} /\ c.grant \in Grant
         /\ c.kind = "create" => c \in Call /\ c.subject \in Subject \cup {EmptySubject}
         /\ c.kind = "revoke" => c \in Call /\ c.id \in TokenId
         /\ c.kind = "find" => c \in Call /\ c.id \in TokenId
  BY DEF Call, NoCall

-----------------------------------------------------------------------------
(* Typing.  A thread that holds the mutex has been through the check for the *)
(* empty subject: without that, a new token need not have an owner.          *)

SubjectNamed == \A t \in Thread : pc[t] \in Holding => ~ NamesNobody(call[t])

\* NewStore's state is well typed.
LEMMA TypeInit == Init => TypeOK
  BY NoUsersType, NoResultType, FileTypes, BoundAssumption
  DEF Init, TypeOK, Step, Holding, Saving, NoCall

\* Answering without a save keeps the types.
LEMMA FinishType ==
  ASSUME TypeOK, NEW t \in Thread, NEW result \in Result, Finish(t, result)
  PROVE  TypeOK'
  BY DEF TypeOK, Finish, docVars, ghosts, budgets, Step, Holding

\* So does handing a document to save.
LEMMA StartSaveType ==
  ASSUME TypeOK, NEW t \in Thread, NEW doc \in Document, NEW result \in Result,
         StartSave(t, doc, result), minted' \in SUBSET TokenId
  PROVE  TypeOK'
  BY DEF TypeOK, StartSave, docVars, ghosts, budgets, Step, Holding, Saving

\* So does the end of any set of threads.
LEMMA StopType ==
  ASSUME TypeOK, NEW T \in SUBSET Thread, Stop(T)
  PROVE  /\ lock' \in [Store -> SUBSET Thread]
         /\ pc' \in [Thread -> Step]
         /\ call' \in [Thread -> Call \cup {NoCall}]
         /\ draft' \in [Thread -> Document]
         /\ tmp' \in [Thread -> {"none", "written", "synced"}]
         /\ res' \in [Thread -> Result]
         /\ minted' \in SUBSET TokenId
         /\ issued' \in SUBSET TokenId
         /\ asked' \in SUBSET TokenId
         /\ revoked' \in SUBSET TokenId
  BY NoUsersType, NoResultType DEF TypeOK, Stop, ghosts, Step

\* So does an edit of the file by hand.
LEMMA EditType ==
  ASSUME TypeOK, NEW f \in File, Edit(f)
  PROVE  TypeOK'
  BY BoundAssumption DEF TypeOK, Edit, MayEdit, threadVars, ghosts

\* No step lets a call that names nobody past the check.
LEMMA SubjectStep == TypeOK /\ SubjectNamed /\ [Next]_vars => SubjectNamed'
<1> SUFFICES ASSUME TypeOK, SubjectNamed, [Next]_vars, NEW u \in Thread, pc'[u] \in Holding
             PROVE  ~ NamesNobody(call'[u])
  BY DEF SubjectNamed, NamesNobody
<1> USE DEF TypeOK, SubjectNamed, Holding, Saving, docVars, threadVars, ghosts, budgets
<1>1. ASSUME NEW t \in Thread, NEW c \in Call, Begin(t, c) PROVE ~ NamesNobody(call'[u])
  BY <1>1 DEF Begin
<1>2. ASSUME NEW t \in Thread, Acquire(t) PROVE ~ NamesNobody(call'[u])
  BY <1>2 DEF Acquire
<1>3. ASSUME NEW t \in Thread, Proceed(t) PROVE ~ NamesNobody(call'[u])
  <2>1. CASE RefuseEmptySubject(t)
    BY <2>1 DEF RefuseEmptySubject
  <2>2. CASE \/ ReadFails(t) \/ FindByTokenHash(t) \/ Users(t)
            \/ UserNotFound(t) \/ MintFails(t) \/ UserExists(t) \/ TokenNotFound(t)
    <3>1. pc[t] = "locked" /\ \E result : Finish(t, result)
      BY <2>2 DEF ReadFails, FindByTokenHash, Users, UserNotFound, MintFails, UserExists,
                  TokenNotFound, Loads
    <3> QED
      BY <3>1 DEF Finish
  <2>3. CASE IssueToken(t) \/ CreateUser(t) \/ RevokeToken(t)
    <3>1. pc[t] = "locked" /\ \E doc, result : StartSave(t, doc, result)
      BY <2>3 DEF IssueToken, CreateUser, RevokeToken, Loads
    <3> QED
      BY <3>1 DEF StartSave
  <2>4. CASE WriteTemp(t) \/ SyncTemp(t) \/ Rename(t)
    BY <2>4 DEF WriteTemp, SyncTemp, Rename, SaveStep
  <2>5. CASE SaveFails(t) \/ Return(t)
    BY <2>5 DEF SaveFails, Return
  <2> QED
    BY <1>3, <2>1, <2>2, <2>3, <2>4, <2>5 DEF Proceed
<1>4. ASSUME NEW T \in SUBSET Thread, Stop(T) PROVE ~ NamesNobody(call'[u])
  BY <1>4 DEF Stop
<1>5. CASE Operator \/ Flush
  BY <1>5 DEF Operator, EditStatus, EditBreaks, EditRepairs, Edit, Flush
<1>6. CASE UNCHANGED vars
  BY <1>6 DEF vars
<1> QED
  BY <1>1, <1>2, <1>3, <1>4, <1>5, <1>6 DEF Next, Crash, PowerLoss, ThreadsOf

\* Every step keeps the types.
LEMMA TypeStep == TypeOK /\ SubjectNamed /\ [Next]_vars => TypeOK'
<1> SUFFICES ASSUME TypeOK, SubjectNamed, [Next]_vars PROVE TypeOK'
  OBVIOUS
<1> file \in File /\ file.doc \in Document /\ disk \in File
  BY DEF TypeOK, File
<1>1. ASSUME NEW t \in Thread, NEW c \in Call, Begin(t, c) PROVE TypeOK'
  BY <1>1, CallKinds DEF TypeOK, Begin, docVars, budgets, Step
<1>2. ASSUME NEW t \in Thread, Acquire(t) PROVE TypeOK'
  BY <1>2, StoreAssumption DEF TypeOK, Acquire, docVars, ghosts, budgets, Step, Holding
<1>3. ASSUME NEW t \in Thread, Proceed(t) PROVE TypeOK'
  <2> call[t] \in Call \cup {NoCall} /\ res[t] \in Result
    BY DEF TypeOK
  <2> DEFINE c == call[t]
  <2>a. pc[t] = "locked" /\ c.kind \in {"issue", "create"} => c.subject \in Subject
    BY CallKinds DEF SubjectNamed, NamesNobody, Holding
  <2>1. CASE RefuseEmptySubject(t)
    BY <2>1, RefusalType DEF RefuseEmptySubject, TypeOK, docVars, ghosts, budgets, Step, Code
  <2>2. CASE ReadFails(t)
    BY <2>2, RefusalType, FinishType DEF ReadFails, Code
  <2>3. CASE FindByTokenHash(t)
    BY <2>3, RefusalType, AnswerType, MatchOfType, FinishType DEF FindByTokenHash, Code
  <2>4. CASE Users(t)
    BY <2>4, AnswerType, FinishType DEF Users, Code
  <2>5. CASE IssueToken(t)
    <3>1. PICK id \in TokenId \ minted :
            /\ minted' = minted \cup {id}
            /\ StartSave(t, WithToken(file.doc, NewToken(id, c)),
                         Answer("ok", WithToken(NoUsers, NewToken(id, c))))
      BY <2>5 DEF IssueToken
    <3>2. NewToken(id, c) \in Token
      BY <2>5, <2>a, CallKinds DEF IssueToken, Loads, NewToken, Token
    <3>3. minted' \in SUBSET TokenId
      BY <3>1 DEF TypeOK
    <3>4. /\ WithToken(file.doc, NewToken(id, c)) \in Document
          /\ Answer("ok", WithToken(NoUsers, NewToken(id, c))) \in Result
      BY <3>2, WithTokenFacts, NoUsersType, AnswerType DEF Code
    <3> QED
      BY <3>1, <3>3, <3>4, StartSaveType
  <2>6. CASE UserNotFound(t)
    BY <2>6, RefusalType, FinishType DEF UserNotFound, Code
  <2>7. CASE MintFails(t)
    BY <2>7, RefusalType, FinishType DEF MintFails, Code
  <2>8. CASE CreateUser(t)
    BY <2>8, <2>a, WithUserFacts, NoUsersType, AnswerType, StartSaveType DEF CreateUser, Loads, TypeOK, Code
  <2>9. CASE UserExists(t)
    BY <2>9, RefusalType, FinishType DEF UserExists, Code
  <2>10. CASE RevokeToken(t)
    BY <2>10, WithoutTokenFacts, RefusalType, StartSaveType DEF RevokeToken, TypeOK, Code
  <2>11. CASE TokenNotFound(t)
    BY <2>11, RefusalType, FinishType DEF TokenNotFound, Code
  <2>12. CASE WriteTemp(t) \/ SyncTemp(t)
    BY <2>12 DEF WriteTemp, SyncTemp, SaveStep, TypeOK, docVars, ghosts, budgets, Step, Holding, Saving
  <2>13. CASE Rename(t)
    BY <2>13, FileTypes DEF Rename, SaveStep, TypeOK, ghosts, budgets, Step, Holding
  <2>14. CASE SaveFails(t)
    BY <2>14, RefusalType DEF SaveFails, TypeOK, docVars, ghosts, budgets, Step, Holding, Code
  <2>15. CASE Return(t)
    <3>1. issued' \in SUBSET TokenId
      BY <2>15, IdsType DEF Return, TypeOK, Result
    <3>2. revoked' \in SUBSET TokenId
      BY <2>15, CallKinds DEF Return, TypeOK
    <3>3. lock' \in [Store -> SUBSET Thread]
      BY <2>15, StoreAssumption DEF Return, TypeOK
    <3> QED
      BY <2>15, <3>1, <3>2, <3>3, NoUsersType, NoResultType
      DEF Return, TypeOK, docVars, budgets, Step
  <2> QED
    BY <1>3, <2>1, <2>2, <2>3, <2>4, <2>5, <2>6, <2>7, <2>8, <2>9, <2>10, <2>11,
       <2>12, <2>13, <2>14, <2>15 DEF Proceed
<1>4. ASSUME NEW s \in Store, Crash(s) PROVE TypeOK'
  <2>1. ThreadsOf(s) \in SUBSET Thread
    BY DEF ThreadsOf
  <2> QED
    BY <1>4, <2>1, StopType, BoundAssumption DEF Crash, docVars, TypeOK
<1>5. CASE Operator
  <2>1. ASSUME NEW s \in Subject, NEW st \in {"enabled", "disabled"}, EditStatus(s, st)
        PROVE  TypeOK'
    BY <2>1, WithStatusFacts, FileTypes, EditType DEF EditStatus, Status
  <2>2. CASE EditBreaks
    BY <2>2, EditType DEF EditBreaks, File
  <2>3. CASE EditRepairs
    BY <2>3, FileTypes, EditType DEF EditRepairs
  <2> QED
    BY <1>5, <2>1, <2>2, <2>3 DEF Operator
<1>6. CASE Flush
  BY <1>6, FileTypes DEF Flush, TypeOK, threadVars, ghosts, budgets
<1>7. CASE PowerLoss
  <2>1. Thread \in SUBSET Thread
    OBVIOUS
  <2> QED
    BY <1>7, <2>1, StopType, BoundAssumption DEF PowerLoss, TypeOK
<1>8. CASE UNCHANGED vars
  BY <1>8 DEF vars, docVars, threadVars, ghosts, budgets, TypeOK
<1> QED
  BY <1>1, <1>2, <1>3, <1>4, <1>5, <1>6, <1>7, <1>8 DEF Next

\* Every variable keeps its type, in every deployment.
THEOREM TypeCorrect == Spec => []TypeOK
<1>1. Init => TypeOK /\ SubjectNamed
  BY TypeInit DEF Init, SubjectNamed, Holding, Saving
<1> QED
  BY <1>1, TypeStep, SubjectStep, PTL DEF Spec

-----------------------------------------------------------------------------
(* Mutual exclusion, and the wholeness of the file: no assumption on how    *)
(* the threads are spread over processes.                                   *)

LockInv == \A t \in Thread : pc[t] \in Holding => lock[StoreOf[t]] = {t}

\* Between Lock and the deferred Unlock a thread has the mutex to itself.
LEMMA LockStep == TypeOK /\ LockInv /\ [Next]_vars => LockInv'
<1> SUFFICES ASSUME TypeOK, LockInv, [Next]_vars, NEW u \in Thread, pc'[u] \in Holding
             PROVE  lock'[StoreOf[u]] = {u}
  BY DEF LockInv
<1> USE StoreAssumption DEF TypeOK, LockInv, Holding, Saving, docVars, threadVars, ghosts, budgets
<1>1. ASSUME NEW t \in Thread, NEW c \in Call, Begin(t, c) PROVE lock'[StoreOf[u]] = {u}
  BY <1>1 DEF Begin
<1>2. ASSUME NEW t \in Thread, Acquire(t) PROVE lock'[StoreOf[u]] = {u}
  BY <1>2 DEF Acquire
<1>3. ASSUME NEW t \in Thread, Proceed(t) PROVE lock'[StoreOf[u]] = {u}
  <2>1. CASE RefuseEmptySubject(t)
    BY <2>1 DEF RefuseEmptySubject
  <2>2. CASE \/ ReadFails(t) \/ FindByTokenHash(t) \/ Users(t)
            \/ UserNotFound(t) \/ MintFails(t) \/ UserExists(t) \/ TokenNotFound(t)
    <3>1. pc[t] = "locked" /\ \E result : Finish(t, result)
      BY <2>2 DEF ReadFails, FindByTokenHash, Users, UserNotFound, MintFails, UserExists,
                  TokenNotFound, Loads
    <3> QED
      BY <3>1 DEF Finish
  <2>3. CASE IssueToken(t) \/ CreateUser(t) \/ RevokeToken(t)
    <3>1. pc[t] = "locked" /\ \E doc, result : StartSave(t, doc, result)
      BY <2>3 DEF IssueToken, CreateUser, RevokeToken, Loads
    <3> QED
      BY <3>1 DEF StartSave
  <2>4. CASE WriteTemp(t) \/ SyncTemp(t) \/ Rename(t)
    BY <2>4 DEF WriteTemp, SyncTemp, Rename, SaveStep
  <2>5. CASE SaveFails(t)
    BY <2>5 DEF SaveFails
  <2>6. CASE Return(t)
    BY <2>6 DEF Return
  <2> QED
    BY <1>3, <2>1, <2>2, <2>3, <2>4, <2>5, <2>6 DEF Proceed
<1>4. ASSUME NEW T \in SUBSET Thread, Stop(T) PROVE lock'[StoreOf[u]] = {u}
  BY <1>4 DEF Stop
<1>5. CASE Operator \/ Flush
  BY <1>5 DEF Operator, EditStatus, EditBreaks, EditRepairs, Edit, Flush
<1>6. CASE UNCHANGED vars
  BY <1>6 DEF vars
<1> QED
  BY <1>1, <1>2, <1>3, <1>4, <1>5, <1>6 DEF Next, Crash, PowerLoss, ThreadsOf

WholeInv ==
  /\ NeverTorn
  /\ disk.form # "torn"
  /\ synced
  /\ \A t \in Thread : pc[t] = "synced" => tmp[t] = "synced"

\* save renames only a file it has synced.
LEMMA WholeStep == TypeOK /\ WholeInv /\ [Next]_vars => WholeInv'
<1> SUFFICES ASSUME TypeOK, WholeInv, [Next]_vars PROVE WholeInv'
  OBVIOUS
<1> USE DEF TypeOK, WholeInv, NeverTorn, docVars, threadVars, ghosts, budgets
<1>1. ASSUME NEW t \in Thread, NEW c \in Call, Begin(t, c) PROVE WholeInv'
  BY <1>1 DEF Begin
<1>2. ASSUME NEW t \in Thread, Acquire(t) PROVE WholeInv'
  BY <1>2 DEF Acquire
<1>3. ASSUME NEW t \in Thread, Proceed(t) PROVE WholeInv'
  <2>1. CASE RefuseEmptySubject(t)
    BY <2>1 DEF RefuseEmptySubject
  <2>2. CASE \/ ReadFails(t) \/ FindByTokenHash(t) \/ Users(t)
            \/ UserNotFound(t) \/ MintFails(t) \/ UserExists(t) \/ TokenNotFound(t)
    <3>1. \E result : Finish(t, result)
      BY <2>2 DEF ReadFails, FindByTokenHash, Users, UserNotFound, MintFails, UserExists,
                  TokenNotFound
    <3> QED
      BY <3>1 DEF Finish
  <2>3. CASE IssueToken(t) \/ CreateUser(t) \/ RevokeToken(t)
    <3>1. \E doc, result : StartSave(t, doc, result)
      BY <2>3 DEF IssueToken, CreateUser, RevokeToken
    <3> QED
      BY <3>1 DEF StartSave
  <2>4. CASE WriteTemp(t) \/ SyncTemp(t)
    BY <2>4 DEF WriteTemp, SyncTemp, SaveStep
  <2>5. CASE Rename(t)
    BY <2>5, FileTypes DEF Rename, SaveStep
  <2>6. CASE SaveFails(t) \/ Return(t)
    BY <2>6 DEF SaveFails, Return
  <2> QED
    BY <1>3, <2>1, <2>2, <2>3, <2>4, <2>5, <2>6 DEF Proceed
<1>4. ASSUME NEW s \in Store, Crash(s) PROVE WholeInv'
  BY <1>4 DEF Crash, Stop
<1>5. CASE Operator
  BY <1>5 DEF Operator, EditStatus, EditBreaks, EditRepairs, Edit, JsonFile
<1>6. CASE Flush
  BY <1>6 DEF Flush
<1>7. CASE PowerLoss
  BY <1>7 DEF PowerLoss, Stop
<1>8. CASE UNCHANGED vars
  BY <1>8 DEF vars
<1> QED
  BY <1>1, <1>2, <1>3, <1>4, <1>5, <1>6, <1>7, <1>8 DEF Next

\* No crash, no failure of save and no power loss leaves a truncated file.
THEOREM FileIsWhole == Spec => []NeverTorn
<1>1. Init => WholeInv
  BY FileTypes DEF Init, WholeInv, NeverTorn
<1>2. WholeInv => NeverTorn
  BY DEF WholeInv
<1> QED
  BY <1>1, <1>2, TypeCorrect, WholeStep, PTL DEF Spec

-----------------------------------------------------------------------------
(* No update is lost, when every writer calls one and the same Store.       *)

OneWriterProcess == \A t, u \in Writer : StoreOf[t] = StoreOf[u]

Changes(t) == call[t].kind \in {"issue", "create", "revoke"}

\* The server's threads only read, so two threads that change the file are in
\* one process.
KindInv ==
  \A t \in Thread : /\ Changes(t) => t \in Writer
                    /\ pc[t] \in Saving => Changes(t)
                    /\ call[t].kind = "revoke" => call[t].id \in asked

\* Ids are drawn once: what was not minted is nowhere.
MintedInv == Ids(file.doc) \cup Ids(disk.doc) \cup revoked \subseteq minted

\* A draft is still the update of the file as it is now.
SaveInv ==
  \A t \in Thread : pc[t] \in Saving =>
    /\ call[t].kind = "issue" => /\ Ids(draft[t]) = Ids(file.doc) \cup Ids(res[t].doc)
                                /\ Ids(res[t].doc) \subseteq minted \ revoked
    /\ call[t].kind = "create" => Ids(draft[t]) = Ids(file.doc)
    /\ call[t].kind = "revoke" => /\ Ids(draft[t]) = Ids(file.doc) \ {call[t].id}
                                 /\ call[t].id \in minted

\* A success about to be reported is in the file.
DoneInv ==
  \A t \in Thread : pc[t] \in {"done", "refused"} /\ res[t].code = "ok" =>
    /\ pc[t] = "done"
    /\ call[t].kind = "issue" => Ids(res[t].doc) \subseteq Ids(file.doc)
    /\ call[t].kind = "revoke" => call[t].id \in minted \ Ids(file.doc)

RecordInv ==
  /\ KindInv /\ MintedInv /\ SaveInv /\ DoneInv
  /\ RevokedStaysRevoked /\ NoLostIssue

\* Under the mutex a thread that changes the file is alone.
LEMMA Alone ==
  ASSUME OneWriterProcess, LockInv, KindInv,
         NEW t \in Thread, NEW u \in Thread, Changes(t), Changes(u),
         pc[t] \in Holding, pc[u] \in Holding
  PROVE  t = u
  BY DEF OneWriterProcess, LockInv, KindInv

\* At the start nothing was issued, asked for or revoked.
LEMMA RecordInit == Init => RecordInv
  BY NoUsersType, FileTypes
  DEF Init, RecordInv, KindInv, MintedInv, SaveInv, DoneInv, RevokedStaysRevoked, NoLostIssue,
      Changes, NoCall, Saving

\* A step that changes neither the file nor the histories, and leaves thread t
\* reporting no success of a change.
LEMMA RecordFinish ==
  ASSUME TypeOK, RecordInv, NEW t \in Thread, NEW result, Finish(t, result),
         result.code = "ok" => ~ Changes(t)
  PROVE  RecordInv'
  BY DEF TypeOK, RecordInv, KindInv, MintedInv, SaveInv, DoneInv, RevokedStaysRevoked,
         NoLostIssue, Changes, Finish, docVars, ghosts, budgets, Saving

\* load, then a draft that updates what load read.
LEMMA RecordStart ==
  ASSUME TypeOK, RecordInv, NEW t \in Thread, NEW doc, NEW result, StartSave(t, doc, result),
         Changes(t), minted \subseteq minted',
         call[t].kind = "issue" => /\ Ids(doc) = Ids(file.doc) \cup Ids(result.doc)
                                   /\ Ids(result.doc) \subseteq minted' \ revoked,
         call[t].kind = "create" => Ids(doc) = Ids(file.doc),
         call[t].kind = "revoke" => /\ Ids(doc) = Ids(file.doc) \ {call[t].id}
                                    /\ call[t].id \in minted
  PROVE  RecordInv'
<1> USE DEF TypeOK, RecordInv, StartSave, docVars, ghosts, budgets, Changes, Saving
<1>1. KindInv' /\ MintedInv' /\ DoneInv' /\ RevokedStaysRevoked' /\ NoLostIssue'
  BY DEF KindInv, MintedInv, DoneInv, RevokedStaysRevoked, NoLostIssue
<1>2. SaveInv'
  BY DEF SaveInv
<1> QED
  BY <1>1, <1>2

\* The draft renamed over the file is still its update: nobody else wrote.
LEMMA RecordRename ==
  ASSUME OneWriterProcess, TypeOK, LockInv, RecordInv, NEW t \in Thread, Rename(t)
  PROVE  RecordInv'
<1> USE DEF RecordInv, Rename, SaveStep, ghosts, budgets
<1>1. pc[t] = "synced" /\ pc' = [pc EXCEPT ![t] = "done"] /\ pc \in [Thread -> Step]
  BY DEF TypeOK
<1>2. Changes(t) /\ pc[t] \in Saving /\ pc[t] \in Holding
  BY <1>1 DEF KindInv, Saving, Holding
<1>3. file'.doc = draft[t]
  BY FileTypes DEF TypeOK
<1>4. KindInv'
  BY <1>1 DEF KindInv, Changes, Saving
<1>5. Ids(draft[t]) \subseteq minted
  BY <1>2 DEF SaveInv, MintedInv, Changes
<1>6. MintedInv'
  BY <1>3, <1>5 DEF MintedInv
<1>7. ASSUME NEW u \in Thread, pc'[u] \in Saving PROVE FALSE
  BY <1>1, <1>2, <1>4, <1>7, Alone DEF KindInv, Saving, Holding, Changes
<1>8. SaveInv'
  BY <1>7 DEF SaveInv
<1>9. ASSUME NEW u \in Thread, pc'[u] \in {"done", "refused"}, res'[u].code = "ok", Changes(u)
      PROVE  u = t
  BY <1>1, <1>2, <1>9, Alone DEF DoneInv, Holding
<1>10. DoneInv'
  <2> SUFFICES ASSUME NEW u \in Thread, pc'[u] \in {"done", "refused"}, res'[u].code = "ok"
               PROVE  /\ pc'[u] = "done"
                      /\ call'[u].kind = "issue" => Ids(res'[u].doc) \subseteq Ids(file'.doc)
                      /\ call'[u].kind = "revoke" => call'[u].id \in minted' \ Ids(file'.doc)
    BY DEF DoneInv
  <2>1. CASE u = t
    BY <1>1, <1>2, <1>3, <2>1 DEF SaveInv
  <2>2. CASE u # t
    BY <1>1, <1>9, <2>2 DEF DoneInv, Changes
  <2> QED
    BY <2>1, <2>2
<1>11. RevokedStaysRevoked'
  BY <1>2, <1>3 DEF RevokedStaysRevoked, SaveInv, Changes
<1>12. NoLostIssue'
  BY <1>2, <1>3 DEF NoLostIssue, SaveInv, KindInv, Changes
<1> QED
  BY <1>4, <1>6, <1>8, <1>10, <1>11, <1>12

\* A success is reported only of what the file already shows.
LEMMA RecordReturn ==
  ASSUME OneWriterProcess, TypeOK, LockInv, RecordInv, NEW t \in Thread, Return(t)
  PROVE  RecordInv'
<1> USE DEF RecordInv, Return, docVars, budgets
<1>1. /\ pc' = [pc EXCEPT ![t] = "idle"] /\ pc \in [Thread -> Step]
      /\ call' = [call EXCEPT ![t] = NoCall] /\ call \in [Thread -> Call \cup {NoCall}]
      /\ res' = [res EXCEPT ![t] = NoResult] /\ res \in [Thread -> Result]
      /\ draft' = [draft EXCEPT ![t] = NoUsers] /\ draft \in [Thread -> Document]
  BY DEF TypeOK
<1>2. revoked' # revoked => Changes(t) /\ pc[t] \in Holding /\ call[t].kind = "revoke"
                            /\ call[t].id \in minted \ Ids(file.doc)
                            /\ revoked' = revoked \cup {call[t].id}
  BY <1>1 DEF DoneInv, Changes, Holding
<1>3. issued' # issued => Ids(res[t].doc) \subseteq Ids(file.doc)
                          /\ issued' = issued \cup Ids(res[t].doc)
  BY <1>1 DEF DoneInv
<1>4. KindInv'
  BY <1>1 DEF KindInv, Changes, Saving, NoCall
<1>5. MintedInv'
  BY <1>2 DEF MintedInv
<1>6. SaveInv'
  <2>1. ASSUME NEW u \in Thread, pc'[u] \in Saving, revoked' # revoked PROVE FALSE
    BY <1>1, <1>2, <2>1, Alone DEF Saving, Holding, KindInv
  <2> QED
    BY <1>1, <2>1 DEF SaveInv, Saving
<1>7. DoneInv'
  BY <1>1 DEF DoneInv
<1>8. RevokedStaysRevoked'
  BY <1>2 DEF RevokedStaysRevoked
<1>9. NoLostIssue'
  BY <1>3 DEF NoLostIssue
<1> QED
  BY <1>4, <1>5, <1>6, <1>7, <1>8, <1>9

\* A killed thread takes nothing back that was reported.
LEMMA RecordStop ==
  ASSUME TypeOK, RecordInv, NEW T \in SUBSET Thread, Stop(T),
         \/ UNCHANGED <<docVars, losses>>
         \/ T = Thread /\ file' = disk /\ UNCHANGED disk /\ losses' = losses + 1
  PROVE  RecordInv'
<1> USE DEF RecordInv, Stop, docVars, ghosts
<1>1. \A u \in Thread : \/ u \in T /\ pc'[u] = "idle" /\ call'[u] = NoCall
                        \/ /\ u \notin T /\ pc'[u] = pc[u] /\ call'[u] = call[u]
                           /\ draft'[u] = draft[u] /\ res'[u] = res[u]
  OBVIOUS
<1>2. KindInv'
  BY <1>1 DEF KindInv, Changes, Saving, NoCall
<1>3. MintedInv'
  BY DEF MintedInv
<1>4. SaveInv'
  BY <1>1 DEF SaveInv, Saving
<1>5. DoneInv'
  BY <1>1 DEF DoneInv
<1>6. RevokedStaysRevoked' /\ NoLostIssue'
  BY BoundAssumption DEF TypeOK, RevokedStaysRevoked, NoLostIssue
<1> QED
  BY <1>2, <1>3, <1>4, <1>5, <1>6

\* Nor does an editor, which leaves the tokens alone.
LEMMA RecordEdit ==
  ASSUME TypeOK, RecordInv, NEW f, Edit(f), Ids(f.doc) = Ids(file.doc)
  PROVE  RecordInv'
  BY DEF RecordInv, Edit, threadVars, ghosts, KindInv, MintedInv, SaveInv, DoneInv,
         RevokedStaysRevoked, NoLostIssue, Changes

\* With one writing process every step keeps the record.
LEMMA RecordStep ==
  OneWriterProcess /\ TypeOK /\ SubjectNamed /\ LockInv /\ RecordInv /\ [Next]_vars => RecordInv'
<1> SUFFICES ASSUME OneWriterProcess, TypeOK, SubjectNamed, LockInv, RecordInv, [Next]_vars
             PROVE  RecordInv'
  OBVIOUS
<1> file \in File /\ file.doc \in Document
  BY DEF TypeOK, File
<1>1. ASSUME NEW t \in Thread, NEW c \in Call, Begin(t, c) PROVE RecordInv'
  BY <1>1 DEF TypeOK, RecordInv, KindInv, MintedInv, SaveInv, DoneInv, RevokedStaysRevoked,
     NoLostIssue, Changes, Begin, docVars, budgets, Saving, ReadOnly
<1>2. ASSUME NEW t \in Thread, Acquire(t) PROVE RecordInv'
  BY <1>2 DEF TypeOK, RecordInv, KindInv, MintedInv, SaveInv, DoneInv, RevokedStaysRevoked,
     NoLostIssue, Changes, Acquire, docVars, ghosts, budgets, Saving
<1>3. ASSUME NEW t \in Thread, Proceed(t) PROVE RecordInv'
  <2>1. CASE RefuseEmptySubject(t)
    BY <2>1, RefusalType
    DEF RefuseEmptySubject, TypeOK, RecordInv, KindInv, MintedInv, SaveInv, DoneInv,
        RevokedStaysRevoked, NoLostIssue, Changes, docVars, ghosts, budgets, Saving, Code
  <2>2. CASE \/ ReadFails(t) \/ FindByTokenHash(t) \/ Users(t)
            \/ UserNotFound(t) \/ MintFails(t) \/ UserExists(t) \/ TokenNotFound(t)
    <3>1. \E result : Finish(t, result) /\ (result.code = "ok" => ~ Changes(t))
      BY <2>2, RefusalType
      DEF ReadFails, FindByTokenHash, Users, UserNotFound, MintFails, UserExists,
          TokenNotFound, Loads, Changes, Code
    <3> QED
      BY <3>1, RecordFinish
  <2>3. CASE IssueToken(t)
    <3>1. PICK id \in TokenId \ minted :
            /\ minted' = minted \cup {id}
            /\ StartSave(t, WithToken(file.doc, NewToken(id, call[t])),
                         Answer("ok", WithToken(NoUsers, NewToken(id, call[t]))))
      BY <2>3 DEF IssueToken
    <3> DEFINE tk == NewToken(id, call[t])
               doc == WithToken(file.doc, tk)
               result == Answer("ok", WithToken(NoUsers, tk))
    <3>2. call[t].kind = "issue" /\ call[t].subject \in Subject /\ call[t].grant \in Grant
      BY <2>3, CallKinds DEF IssueToken, Loads, TypeOK, SubjectNamed, NamesNobody, Holding
    <3>3. tk \in Token /\ tk.id = id
      BY <3>2 DEF NewToken, Token
    <3>4. Ids(doc) = Ids(file.doc) \cup {id} /\ Ids(result.doc) = {id}
      BY <3>3, WithTokenFacts, NoUsersType, AnswerType DEF Code
    <3>5. id \notin revoked
      BY <3>1 DEF RecordInv, MintedInv
    <3> QED
      BY <3>1, <3>2, <3>4, <3>5, RecordStart DEF Changes
  <2>4. CASE CreateUser(t)
    <3>1. call[t].kind = "create" /\ call[t].subject \in Subject /\ minted' = minted
      BY <2>4, CallKinds DEF CreateUser, Loads, TypeOK, SubjectNamed, NamesNobody, Holding
    <3> QED
      BY <2>4, <3>1, WithUserFacts, RecordStart DEF CreateUser, Changes
  <2>5. CASE RevokeToken(t)
    <3>1. /\ call[t].kind = "revoke" /\ minted' = minted
          /\ call[t].id \in Ids(file.doc) /\ call[t].id \in minted
      BY <2>5 DEF RevokeToken, Loads, RecordInv, MintedInv
    <3> QED
      BY <2>5, <3>1, WithoutTokenFacts, RecordStart DEF RevokeToken, Changes
  <2>6. CASE WriteTemp(t) \/ SyncTemp(t)
    BY <2>6 DEF WriteTemp, SyncTemp, SaveStep, TypeOK, RecordInv, KindInv, MintedInv, SaveInv,
       DoneInv, RevokedStaysRevoked, NoLostIssue, Changes, docVars, ghosts, budgets, Saving
  <2>7. CASE Rename(t)
    BY <2>7, RecordRename
  <2>8. CASE SaveFails(t)
    BY <2>8, RefusalType
    DEF SaveFails, TypeOK, RecordInv, KindInv, MintedInv, SaveInv, DoneInv,
        RevokedStaysRevoked, NoLostIssue, Changes, docVars, ghosts, budgets, Saving, Code
  <2>9. CASE Return(t)
    BY <2>9, RecordReturn
  <2> QED
    BY <1>3, <2>1, <2>2, <2>3, <2>4, <2>5, <2>6, <2>7, <2>8, <2>9 DEF Proceed
<1>4. ASSUME NEW s \in Store, Crash(s) PROVE RecordInv'
  <2>1. ThreadsOf(s) \in SUBSET Thread
    BY DEF ThreadsOf
  <2> QED
    BY <1>4, <2>1, RecordStop DEF Crash
<1>5. CASE Operator
  <2>1. ASSUME NEW s \in Subject, NEW st \in {"enabled", "disabled"}, EditStatus(s, st)
        PROVE  RecordInv'
    BY <2>1, WithStatusFacts, FileTypes, RecordEdit DEF EditStatus, Status
  <2>2. CASE EditBreaks
    BY <2>2, RecordEdit DEF EditBreaks
  <2>3. CASE EditRepairs
    BY <2>3, FileTypes, RecordEdit DEF EditRepairs
  <2> QED
    BY <1>5, <2>1, <2>2, <2>3 DEF Operator
<1>6. CASE Flush
  BY <1>6, FileTypes, NoUsersType
  DEF Flush, threadVars, ghosts, budgets, RecordInv, KindInv, MintedInv, SaveInv, DoneInv,
      RevokedStaysRevoked, NoLostIssue, Changes
<1>7. CASE PowerLoss
  <2>1. Thread \in SUBSET Thread
    OBVIOUS
  <2> QED
    BY <1>7, <2>1, RecordStop DEF PowerLoss
<1>8. CASE UNCHANGED vars
  BY <1>8 DEF vars, docVars, threadVars, ghosts, budgets, RecordInv, KindInv, MintedInv,
     SaveInv, DoneInv, RevokedStaysRevoked, NoLostIssue, Changes
<1> QED
  BY <1>1, <1>2, <1>3, <1>4, <1>5, <1>6, <1>7, <1>8 DEF Next

\* So the record holds throughout.
LEMMA RecordKept ==
  ASSUME OneWriterProcess
  PROVE  Spec => []RecordInv
<1>1. Init => TypeOK /\ SubjectNamed /\ LockInv
  BY TypeInit DEF Init, SubjectNamed, LockInv, Holding, Saving
<1>2. TypeOK /\ SubjectNamed /\ LockInv /\ RecordInv /\ [Next]_vars => RecordInv'
  BY RecordStep
<1> QED
  BY <1>1, <1>2, RecordInit, TypeStep, SubjectStep, LockStep, PTL DEF Spec

\* With all writers in one process, a revocation reported done is final.
THEOREM RevocationIsFinal ==
  ASSUME OneWriterProcess
  PROVE  Spec => []RevokedStaysRevoked
<1>1. RecordInv => RevokedStaysRevoked
  BY DEF RecordInv
<1>2. Spec => []RecordInv
  BY RecordKept
<1> QED
  BY <1>1, <1>2, PTL

\* With all writers in one process, no issued credential is lost.
THEOREM NoUpdateIsLost ==
  ASSUME OneWriterProcess
  PROVE  Spec => []NoLostIssue
<1>1. RecordInv => NoLostIssue
  BY DEF RecordInv
<1>2. Spec => []RecordInv
  BY RecordKept
<1> QED
  BY <1>1, <1>2, PTL

-----------------------------------------------------------------------------
(* What the Store promises.                                                  *)

\* What the call c makes of the document old, and answers.
Updates(c, old, new, result) ==
  \/ /\ c.kind = "issue"
     /\ MayIssue(old, c)
     /\ \E id \in TokenId \ Ids(old) :
          /\ new = WithToken(old, NewToken(id, c))
          /\ result = Answer("ok", WithToken(NoUsers, NewToken(id, c)))
  \/ /\ c.kind = "create"
     /\ ~ Provisioned(old, c.subject)
     /\ new = WithUser(old, c.subject)
     /\ result = Answer("ok", WithUser(NoUsers, c.subject))
  \/ /\ c.kind = "revoke"
     /\ c.id \in Ids(old)
     /\ new = WithoutToken(old, c.id)
     /\ result = Refusal("ok")

\* A draft is still the update of the file as it is now, which load could read.
DraftInv ==
  \A t \in Thread : pc[t] \in Saving =>
    Readable(file) /\ Updates(call[t], file.doc, draft[t], res[t])

-----------------------------------------------------------------------------
(* The draft stays the update of the file: nobody else changes the file      *)
(* between load and rename.                                                  *)

\* A draft computed from the file as it is starts with the invariant.
LEMMA DraftStart ==
  ASSUME TypeOK, DraftInv, NEW t \in Thread, NEW doc, NEW result, StartSave(t, doc, result),
         Readable(file), Updates(call[t], file.doc, doc, result)
  PROVE  DraftInv'
<1> SUFFICES ASSUME NEW u \in Thread, pc'[u] \in Saving
             PROVE  Readable(file) /\ Updates(call[u], file.doc, draft'[u], res'[u])
  BY DEF DraftInv, StartSave, docVars
<1>1. CASE u = t
  BY <1>1 DEF StartSave, TypeOK
<1>2. CASE u # t
  BY <1>2 DEF StartSave, TypeOK, DraftInv
<1> QED
  BY <1>1, <1>2

\* A step that leaves the file alone, starts no save and disturbs none.
LEMMA DraftQuiet ==
  ASSUME DraftInv, UNCHANGED file,
         \A t \in Thread : pc'[t] \in Saving =>
           /\ pc[t] \in Saving
           /\ call'[t] = call[t] /\ draft'[t] = draft[t] /\ res'[t] = res[t]
  PROVE  DraftInv'
  BY DEF DraftInv

\* The thread that renames is the only one that saves.
LEMMA DraftRename ==
  ASSUME OneWriterProcess, TypeOK, LockInv, KindInv, NEW t \in Thread, Rename(t)
  PROVE  DraftInv'
<1>1. pc[t] = "synced" /\ pc' = [pc EXCEPT ![t] = "done"] /\ pc \in [Thread -> Step]
  BY DEF Rename, SaveStep, TypeOK
<1>2. ASSUME NEW u \in Thread, pc'[u] \in Saving PROVE FALSE
  BY <1>1, <1>2, Alone DEF KindInv, Saving, Holding
<1> QED
  BY <1>2 DEF DraftInv

\* Killed threads save no more; the others' drafts are as they were.
LEMMA DraftStop ==
  ASSUME TypeOK, DraftInv, NEW T \in SUBSET Thread, Stop(T), file' = file \/ T = Thread
  PROVE  DraftInv'
<1>1. ASSUME NEW t \in Thread, pc'[t] \in Saving
      PROVE  /\ t \notin T /\ pc[t] \in Saving
             /\ call'[t] = call[t] /\ draft'[t] = draft[t] /\ res'[t] = res[t]
  BY <1>1 DEF Stop, Saving, TypeOK
<1> QED
  BY <1>1 DEF DraftInv

\* An edit by hand meets no draft.
LEMMA DraftEdit ==
  ASSUME ~ EditAnytime, DraftInv, NEW f, Edit(f)
  PROVE  DraftInv'
  BY DEF Edit, MayEdit, threadVars, DraftInv

\* Every step keeps the invariant.
LEMMA DraftStep ==
  ASSUME OneWriterProcess, ~ EditAnytime
  PROVE  TypeOK /\ LockInv /\ KindInv /\ MintedInv /\ DraftInv /\ [Next]_vars => DraftInv'
<1> SUFFICES ASSUME TypeOK, LockInv, KindInv, MintedInv, DraftInv, [Next]_vars
             PROVE  DraftInv'
  OBVIOUS
<1>1. ASSUME NEW t \in Thread, NEW c \in Call, Begin(t, c) PROVE DraftInv'
  BY <1>1, DraftQuiet DEF Begin, docVars, TypeOK, Saving
<1>2. ASSUME NEW t \in Thread, Acquire(t) PROVE DraftInv'
  BY <1>2, DraftQuiet DEF Acquire, docVars, TypeOK, Saving
<1>3. ASSUME NEW t \in Thread, Proceed(t) PROVE DraftInv'
  <2>1. CASE RefuseEmptySubject(t)
    BY <2>1, DraftQuiet DEF RefuseEmptySubject, docVars, TypeOK, Saving
  <2>2. CASE \/ ReadFails(t) \/ FindByTokenHash(t) \/ Users(t)
            \/ UserNotFound(t) \/ MintFails(t) \/ UserExists(t) \/ TokenNotFound(t)
    <3>1. \E result : Finish(t, result)
      BY <2>2
      DEF ReadFails, FindByTokenHash, Users, UserNotFound, MintFails, UserExists, TokenNotFound
    <3> QED
      BY <3>1, DraftQuiet DEF Finish, docVars, TypeOK, Saving
  <2>3. CASE IssueToken(t)
    <3>1. PICK id \in TokenId \ minted :
            StartSave(t, WithToken(file.doc, NewToken(id, call[t])),
                      Answer("ok", WithToken(NoUsers, NewToken(id, call[t]))))
      BY <2>3 DEF IssueToken
    <3>2. id \in TokenId \ Ids(file.doc)
      BY <3>1 DEF MintedInv
    <3>3. Updates(call[t], file.doc, WithToken(file.doc, NewToken(id, call[t])),
                  Answer("ok", WithToken(NoUsers, NewToken(id, call[t]))))
      BY <2>3, <3>2 DEF IssueToken, Loads, Updates
    <3> QED
      BY <2>3, <3>1, <3>3, DraftStart DEF IssueToken, Loads
  <2>4. CASE CreateUser(t)
    BY <2>4, DraftStart DEF CreateUser, Loads, Updates
  <2>5. CASE RevokeToken(t)
    BY <2>5, DraftStart DEF RevokeToken, Loads, Updates
  <2>6. CASE WriteTemp(t) \/ SyncTemp(t)
    BY <2>6, DraftQuiet DEF WriteTemp, SyncTemp, SaveStep, docVars, TypeOK, Saving
  <2>7. CASE Rename(t)
    BY <2>7, DraftRename
  <2>8. CASE SaveFails(t)
    BY <2>8, DraftQuiet DEF SaveFails, docVars, TypeOK, Saving
  <2>9. CASE Return(t)
    BY <2>9, DraftQuiet DEF Return, docVars, TypeOK, Saving
  <2> QED
    BY <1>3, <2>1, <2>2, <2>3, <2>4, <2>5, <2>6, <2>7, <2>8, <2>9 DEF Proceed
<1>4. ASSUME NEW s \in Store, Crash(s) PROVE DraftInv'
  BY <1>4, DraftStop DEF Crash, ThreadsOf, docVars
<1>5. CASE Operator
  BY <1>5, DraftEdit DEF Operator, EditStatus, EditBreaks, EditRepairs
<1>6. CASE Flush
  BY <1>6, DraftQuiet DEF Flush, threadVars
<1>7. CASE PowerLoss
  BY <1>7, DraftStop DEF PowerLoss
<1>8. CASE UNCHANGED vars
  BY <1>8, DraftQuiet DEF vars, docVars, threadVars
<1> QED
  BY <1>1, <1>2, <1>3, <1>4, <1>5, <1>6, <1>7, <1>8 DEF Next

\* All that the promise rests on.
PromiseInv ==
  TypeOK /\ SubjectNamed /\ LockInv /\ WholeInv /\ KindInv /\ MintedInv /\ DraftInv

\* So a draft stays the update of the file as it is.
LEMMA PromiseInvariant ==
  ASSUME OneWriterProcess, ~ EditAnytime
  PROVE  Spec => []PromiseInv
<1>1. Init => TypeOK /\ SubjectNamed /\ LockInv /\ WholeInv /\ DraftInv
  BY TypeInit, FileTypes
  DEF Init, SubjectNamed, LockInv, WholeInv, NeverTorn, DraftInv, Holding, Saving
<1>2. TypeOK /\ LockInv /\ RecordInv /\ DraftInv /\ [Next]_vars => DraftInv'
  BY DraftStep DEF RecordInv
<1>3. Spec => []RecordInv
  BY RecordKept
<1>4. RecordInv => KindInv /\ MintedInv
  BY DEF RecordInv
<1> QED
  BY <1>1, <1>2, <1>3, <1>4, TypeStep, SubjectStep, LockStep, WholeStep, PTL
  DEF Spec, PromiseInv

-----------------------------------------------------------------------------
(* A disabled user stays disabled.                                          *)

\* No operation's document enables a user who was disabled.
LEMMA UpdatesKeepDisabled ==
  ASSUME TypeOK, SubjectNamed, DraftInv, NEW t \in Thread, pc[t] \in Saving,
         NEW s \in Subject, file.doc.status[s] = "disabled"
  PROVE  draft[t].status[s] = "disabled"
<1> DEFINE c == call[t]
           doc == file.doc
<1>1. doc \in Document
  BY DEF TypeOK, File
<1>2. Updates(c, doc, draft[t], res[t])
  BY DEF DraftInv
<1>3. c.kind \in {"issue", "create"} => c.subject \in Subject
  BY CallKinds DEF TypeOK, SubjectNamed, NamesNobody, Holding
<1>4. ASSUME NEW id, c.kind = "issue", draft[t] = WithToken(doc, NewToken(id, c))
      PROVE  draft[t].status[s] = "disabled"
  BY <1>1, <1>3, <1>4 DEF NewToken, WithToken, Document
<1>5. ASSUME c.kind = "create", ~ Provisioned(doc, c.subject), draft[t] = WithUser(doc, c.subject)
      PROVE  draft[t].status[s] = "disabled"
  BY <1>1, <1>3, <1>5 DEF WithUser, WithStatus, Provisioned, Document
<1>6. ASSUME draft[t] = WithoutToken(doc, c.id)
      PROVE  draft[t].status[s] = "disabled"
  BY <1>6 DEF WithoutToken
<1> QED
  BY <1>2, <1>4, <1>5, <1>6 DEF Updates

\* Only the operator's editor, or a power loss, takes "disabled" from a user.
LEMMA DisabledStep ==
  TypeOK /\ SubjectNamed /\ DraftInv /\ [Next]_vars =>
    \A s \in Subject : file.doc.status[s] = "disabled" /\ file'.doc.status[s] # "disabled"
                         => edits' # edits \/ losses' # losses
<1> SUFFICES ASSUME TypeOK, SubjectNamed, DraftInv, [Next]_vars, NEW s \in Subject,
                    file.doc.status[s] = "disabled", file'.doc.status[s] # "disabled"
             PROVE  edits' # edits \/ losses' # losses
  OBVIOUS
<1>1. CASE Operator
  BY <1>1, BoundAssumption DEF Operator, EditStatus, EditBreaks, EditRepairs, Edit, TypeOK
<1>2. CASE PowerLoss
  BY <1>2, BoundAssumption DEF PowerLoss, TypeOK
<1>3. ASSUME NEW t \in Thread, Rename(t) PROVE FALSE
  <2>1. pc[t] \in Saving /\ file'.doc = draft[t]
    BY <1>3, FileTypes DEF Rename, SaveStep, Saving, TypeOK
  <2> QED
    BY <2>1, UpdatesKeepDisabled
<1>4. CASE \/ \E t \in Thread : (\E c \in Call : Begin(t, c)) \/ Acquire(t)
           \/ \E st \in Store : Crash(st)
           \/ Flush
           \/ UNCHANGED vars
  BY <1>4 DEF Begin, Acquire, Crash, Flush, vars, docVars
<1>5. ASSUME NEW t \in Thread, Proceed(t), ~ Rename(t) PROVE FALSE
  <2>1. UNCHANGED file
    BY <1>5
    DEF Proceed, RefuseEmptySubject, ReadFails, FindByTokenHash, Users, IssueToken,
        UserNotFound, MintFails, CreateUser, UserExists, RevokeToken, TokenNotFound, Finish,
        StartSave, WriteTemp, SyncTemp, SaveFails, Return, docVars
  <2> QED
    BY <2>1
<1> QED
  BY <1>1, <1>2, <1>3, <1>4, <1>5 DEF Next

\* With all writers in one process and no editing during a save, a user who was
\* disabled by hand stays disabled until they are enabled by hand.
THEOREM UsersStayDisabled ==
  ASSUME OneWriterProcess, ~ EditAnytime
  PROVE  Spec => DisabledStaysDisabled
<1>1. PromiseInv /\ [Next]_vars =>
        [\A s \in Subject :
           file.doc.status[s] = "disabled" /\ file'.doc.status[s] # "disabled"
             => edits' # edits \/ losses' # losses]_vars
  BY DisabledStep DEF PromiseInv
<1> QED
  BY <1>1, PromiseInvariant, PTL DEF Spec, DisabledStaysDisabled

-----------------------------------------------------------------------------
(* The refinement: each step of the Store is one of the promise, or none.   *)

\* Both specifications mean the same by a document, a file, a call and an answer.
LEMMA SameData ==
  /\ Promise!NoFile = NoFile /\ Promise!NoCall = NoCall /\ Promise!NoResult = NoResult
  /\ Promise!NoUsers = NoUsers /\ Promise!Call = Call
  /\ \A f : Promise!Readable(f) = Readable(f)
  /\ \A doc : Promise!Ids(doc) = Ids(doc) /\ Promise!JsonFile(doc) = JsonFile(doc)
  /\ \A doc, s : Promise!Provisioned(doc, s) = Provisioned(doc, s)
                 /\ Promise!WithUser(doc, s) = WithUser(doc, s)
  /\ \A doc, s, st : Promise!WithStatus(doc, s, st) = WithStatus(doc, s, st)
  /\ \A doc, tk : Promise!WithToken(doc, tk) = WithToken(doc, tk)
  /\ \A doc, id : Promise!WithoutToken(doc, id) = WithoutToken(doc, id)
                  /\ Promise!MatchOf(doc, id) = MatchOf(doc, id)
  /\ \A c : Promise!ReadOnly(c) = ReadOnly(c) /\ Promise!NamesNobody(c) = NamesNobody(c)
  /\ \A doc, c : Promise!MayIssue(doc, c) = MayIssue(doc, c)
  /\ \A id, c : Promise!NewToken(id, c) = NewToken(id, c)
  /\ \A code : Promise!Refusal(code) = Refusal(code)
  /\ \A code, doc : Promise!Answer(code, doc) = Answer(code, doc)
  BY DEF Promise!NoFile, Promise!NoCall, Promise!NoResult, Promise!NoUsers, Promise!Call,
     Promise!Readable, Promise!Ids, Promise!JsonFile, Promise!Provisioned, Promise!WithUser,
     Promise!WithStatus, Promise!WithToken, Promise!WithoutToken, Promise!MatchOf,
     Promise!ReadOnly, Promise!NamesNobody, Promise!MayIssue, Promise!NewToken,
     Promise!Refusal, Promise!Answer,
     NoFile, NoCall, NoResult, NoUsers, Call, Readable, Ids, JsonFile, Provisioned, WithUser,
     WithStatus, WithToken, WithoutToken, MatchOf, ReadOnly, NamesNobody, MayIssue, NewToken,
     Refusal, Answer

\* What thread t has answered, and has not delivered.
AnswerOf(t) == IF PhaseOf(t) = "answered" THEN res[t] ELSE NoResult

\* A step in which no thread's call begins, takes effect or ends, and the file
\* stays as it is, is none of the promise.
LEMMA Stutters ==
  ASSUME UNCHANGED <<file, disk, call>>,
         \A u \in Thread : (PhaseOf(u))' = PhaseOf(u) /\ (AnswerOf(u))' = AnswerOf(u)
  PROVE  UNCHANGED Promise!vars
  BY DEF Promise!vars, AnswerOf

\* The call of t is answered and the others are where they were.
Answered(t) ==
  /\ PhaseOf(t) = "pending" /\ (PhaseOf(t))' = "answered"
  /\ \A u \in Thread \ {t} : (PhaseOf(u))' = PhaseOf(u) /\ (AnswerOf(u))' = AnswerOf(u)
  /\ UNCHANGED <<disk, call>>

\* Then the promise answers t what the Store does, with the effect on the file.
LEMMA TakesEffect ==
  ASSUME NEW t \in Thread, NEW newFile, NEW result,
         Answered(t), file' = newFile, (AnswerOf(t))' = result
  PROVE  Promise!Effect(t, newFile, result)
<1>1. [u \in Thread |-> PhaseOf(u)]' = [[u \in Thread |-> PhaseOf(u)] EXCEPT ![t] = "answered"]
  BY DEF Answered
<1>2. [u \in Thread |-> AnswerOf(u)]' = [[u \in Thread |-> AnswerOf(u)] EXCEPT ![t] = result]
  BY DEF Answered
<1> QED
  BY <1>1, <1>2 DEF Promise!Effect, Answered, AnswerOf

\* Without an effect the file stays as it is.
LEMMA TakesNoEffect ==
  ASSUME NEW t \in Thread, NEW result, Answered(t), UNCHANGED file, (AnswerOf(t))' = result
  PROVE  Promise!NoEffect(t, result)
  BY TakesEffect DEF Promise!Effect, Promise!NoEffect

\* A call that ends without a save is answered where load has returned.
LEMMA FinishAnswers ==
  ASSUME TypeOK, NEW t \in Thread, pc[t] = "locked", NEW result, Finish(t, result)
  PROVE  Promise!NoEffect(t, result)
<1>1. pc' = [pc EXCEPT ![t] = "done"] /\ pc \in [Thread -> Step]
      /\ res' = [res EXCEPT ![t] = result] /\ res \in [Thread -> Result]
  BY DEF Finish, TypeOK
<1>2. PhaseOf(t) = "pending" /\ (PhaseOf(t))' = "answered" /\ (AnswerOf(t))' = result
  BY <1>1 DEF PhaseOf, AnswerOf
<1>3. \A u \in Thread \ {t} : (PhaseOf(u))' = PhaseOf(u) /\ (AnswerOf(u))' = AnswerOf(u)
  BY <1>1 DEF PhaseOf, AnswerOf
<1> QED
  BY <1>2, <1>3, TakesNoEffect DEF Answered, Finish, docVars

\* A save that goes through takes effect with its rename.
LEMMA RenameServes ==
  ASSUME PromiseInv, NEW t \in Thread, Rename(t)
  PROVE  Promise!Serve(t)
<1>1. /\ pc[t] = "synced" /\ pc' = [pc EXCEPT ![t] = "done"] /\ pc \in [Thread -> Step]
      /\ UNCHANGED <<disk, call, res>> /\ file' = JsonFile(draft[t])
  BY DEF Rename, SaveStep, PromiseInv, TypeOK
<1>2. PhaseOf(t) = "pending" /\ (PhaseOf(t))' = "answered" /\ (AnswerOf(t))' = res[t]
  BY <1>1 DEF PhaseOf, AnswerOf
<1>3. \A u \in Thread \ {t} : (PhaseOf(u))' = PhaseOf(u) /\ (AnswerOf(u))' = AnswerOf(u)
  BY <1>1 DEF PhaseOf, AnswerOf
<1>4. Answered(t)
  BY <1>1, <1>2, <1>3 DEF Answered
<1>5. Readable(file) /\ Updates(call[t], file.doc, draft[t], res[t]) /\ ~ NamesNobody(call[t])
  BY <1>1 DEF PromiseInv, DraftInv, SubjectNamed, Saving, Holding
<1>6. ASSUME call[t].kind = "issue", MayIssue(file.doc, call[t]),
             NEW id \in TokenId \ Ids(file.doc),
             draft[t] = WithToken(file.doc, NewToken(id, call[t])),
             res[t] = Answer("ok", WithToken(NoUsers, NewToken(id, call[t])))
      PROVE  Promise!Issue(t)
  <2> DEFINE tk == Promise!NewToken(id, call[t])
             newFile == Promise!JsonFile(Promise!WithToken(file.doc, tk))
             result == Promise!Answer("ok", Promise!WithToken(Promise!NoUsers, tk))
  <2>1. file' = newFile /\ (AnswerOf(t))' = result
    BY <1>1, <1>2, <1>6, SameData
  <2> HIDE DEF newFile, result
  <2>2. Promise!Effect(t, newFile, result)
    BY <1>4, <2>1, TakesEffect DEF Promise!Effect
  <2>3. Promise!Served(t, "issue") /\ Promise!MayIssue(file.doc, call[t])
    BY <1>5, <1>6, SameData DEF Promise!Served
  <2>4. id \in TokenId \ Promise!Ids(file.doc)
    BY <1>6, SameData
  <2> QED
    BY <2>2, <2>3, <2>4 DEF Promise!Issue, newFile, result
<1>7. ASSUME call[t].kind = "create", ~ Provisioned(file.doc, call[t].subject),
             draft[t] = WithUser(file.doc, call[t].subject),
             res[t] = Answer("ok", WithUser(NoUsers, call[t].subject))
      PROVE  Promise!Create(t)
  <2> DEFINE newFile == Promise!JsonFile(Promise!WithUser(file.doc, call[t].subject))
             result == Promise!Answer("ok", Promise!WithUser(Promise!NoUsers, call[t].subject))
  <2>1. file' = newFile /\ (AnswerOf(t))' = result
    BY <1>1, <1>2, <1>7, SameData
  <2> HIDE DEF newFile, result
  <2>2. Promise!Effect(t, newFile, result)
    BY <1>4, <2>1, TakesEffect DEF Promise!Effect
  <2>3. Promise!Served(t, "create") /\ ~ Promise!Provisioned(file.doc, call[t].subject)
    BY <1>5, <1>7, SameData DEF Promise!Served
  <2> QED
    BY <2>2, <2>3 DEF Promise!Create, newFile, result
<1>8. ASSUME call[t].kind = "revoke", call[t].id \in Ids(file.doc),
             draft[t] = WithoutToken(file.doc, call[t].id), res[t] = Refusal("ok")
      PROVE  Promise!Revoke(t)
  <2> DEFINE newFile == Promise!JsonFile(Promise!WithoutToken(file.doc, call[t].id))
             result == Promise!Refusal("ok")
  <2>1. file' = newFile /\ (AnswerOf(t))' = result
    BY <1>1, <1>2, <1>8, SameData
  <2> HIDE DEF newFile, result
  <2>2. Promise!Effect(t, newFile, result)
    BY <1>4, <2>1, TakesEffect DEF Promise!Effect
  <2>3. Promise!Served(t, "revoke") /\ call[t].id \in Promise!Ids(file.doc)
    BY <1>5, <1>8, SameData DEF Promise!Served
  <2> QED
    BY <2>2, <2>3 DEF Promise!Revoke, newFile, result
<1> QED
  BY <1>5, <1>6, <1>7, <1>8 DEF Updates, Promise!Serve

\* A call that ends without a save answers what the promise allows.
LEMMA FinishServes ==
  ASSUME PromiseInv, NEW t \in Thread,
         \/ ReadFails(t) \/ FindByTokenHash(t) \/ Users(t)
         \/ UserNotFound(t) \/ MintFails(t) \/ UserExists(t) \/ TokenNotFound(t)
  PROVE  Promise!Serve(t)
<1>1. pc[t] = "locked" /\ TypeOK /\ ~ NamesNobody(call[t])
  BY DEF ReadFails, FindByTokenHash, Users, UserNotFound, MintFails, UserExists, TokenNotFound,
         Loads, PromiseInv, SubjectNamed, Holding
<1>2. ~ Promise!NamesNobody(call[t]) /\ Promise!Readable(file) = Readable(file)
  BY <1>1, SameData
<1>3. CASE ReadFails(t)
  <2>1. Promise!NoEffect(t, Promise!Refusal("unreadable"))
    BY <1>1, <1>3, SameData, FinishAnswers DEF ReadFails, Promise!NoEffect
  <2> QED
    BY <1>2, <2>1 DEF Promise!Fail, Promise!Serve
<1>4. CASE FindByTokenHash(t)
  <2> DEFINE id == call[t].id
             result == IF id \in Promise!Ids(file.doc)
                       THEN Promise!Answer("ok", Promise!MatchOf(file.doc, id))
                       ELSE Promise!Refusal("noMatch")
  <2>1. Finish(t, result)
    BY <1>4, SameData DEF FindByTokenHash
  <2>2. Promise!NoEffect(t, result)
    BY <1>1, <2>1, FinishAnswers DEF Promise!NoEffect
  <2>3. Promise!Served(t, "find")
    BY <1>2, <1>4 DEF FindByTokenHash, Loads, Promise!Served
  <2> QED
    BY <2>2, <2>3 DEF Promise!Find, Promise!Serve
<1>5. CASE Users(t)
  <2>1. Promise!NoEffect(t, Promise!Answer("ok", file.doc))
    BY <1>1, <1>5, SameData, FinishAnswers DEF Users, Promise!NoEffect
  <2>2. Promise!Served(t, "list")
    BY <1>2, <1>5 DEF Users, Loads, Promise!Served
  <2> QED
    BY <2>1, <2>2 DEF Promise!List, Promise!Serve
<1>6. CASE UserNotFound(t)
  <2>1. Promise!NoEffect(t, Promise!Refusal("userNotFound"))
    BY <1>1, <1>6, SameData, FinishAnswers DEF UserNotFound, Promise!NoEffect
  <2>2. Promise!Served(t, "issue") /\ ~ Promise!MayIssue(file.doc, call[t])
    BY <1>2, <1>6, SameData DEF UserNotFound, Loads, Promise!Served
  <2> QED
    BY <2>1, <2>2 DEF Promise!Refuse, Promise!Serve
<1>7. CASE MintFails(t)
  <2>1. Promise!NoEffect(t, Promise!Refusal("mintFailed"))
    BY <1>1, <1>7, SameData, FinishAnswers DEF MintFails, Promise!NoEffect
  <2>2. call[t].kind = "issue"
    BY <1>7 DEF MintFails, Loads
  <2> QED
    BY <1>2, <2>1, <2>2 DEF Promise!Fail, Promise!Serve
<1>8. CASE UserExists(t)
  <2>1. Promise!NoEffect(t, Promise!Refusal("userExists"))
    BY <1>1, <1>8, SameData, FinishAnswers DEF UserExists, Promise!NoEffect
  <2>2. Promise!Served(t, "create") /\ Promise!Provisioned(file.doc, call[t].subject)
    BY <1>2, <1>8, SameData DEF UserExists, Loads, Promise!Served
  <2> QED
    BY <2>1, <2>2 DEF Promise!Refuse, Promise!Serve
<1>9. CASE TokenNotFound(t)
  <2>1. Promise!NoEffect(t, Promise!Refusal("tokenNotFound"))
    BY <1>1, <1>9, SameData, FinishAnswers DEF TokenNotFound, Promise!NoEffect
  <2>2. Promise!Served(t, "revoke") /\ call[t].id \notin Promise!Ids(file.doc)
    BY <1>2, <1>9, SameData DEF TokenNotFound, Loads, Promise!Served
  <2> QED
    BY <2>1, <2>2 DEF Promise!Refuse, Promise!Serve
<1> QED
  BY <1>3, <1>4, <1>5, <1>6, <1>7, <1>8, <1>9

\* So do the refusal of the empty subject, before the mutex, and a failed save.
LEMMA RefusalServes ==
  ASSUME PromiseInv, NEW t \in Thread, RefuseEmptySubject(t) \/ SaveFails(t)
  PROVE  Promise!Serve(t)
<1> DEFINE code == IF pc[t] = "called" THEN "emptySubject" ELSE "ioError"
           to == IF pc[t] = "called" THEN "refused" ELSE "done"
<1>1. /\ pc' = [pc EXCEPT ![t] = to] /\ pc \in [Thread -> Step]
      /\ res' = [res EXCEPT ![t] = Refusal(code)] /\ res \in [Thread -> Result]
      /\ pc[t] = "called" \/ pc[t] \in Saving
      /\ UNCHANGED <<file, disk, call>>
  BY DEF RefuseEmptySubject, SaveFails, Saving, PromiseInv, TypeOK, docVars
<1>2. PhaseOf(t) = "pending" /\ (PhaseOf(t))' = "answered" /\ (AnswerOf(t))' = Refusal(code)
  BY <1>1 DEF PhaseOf, AnswerOf, Saving
<1>3. \A u \in Thread \ {t} : (PhaseOf(u))' = PhaseOf(u) /\ (AnswerOf(u))' = AnswerOf(u)
  BY <1>1 DEF PhaseOf, AnswerOf
<1>4. Promise!NoEffect(t, Promise!Refusal(code))
  BY <1>1, <1>2, <1>3, SameData, TakesNoEffect DEF Answered, Promise!NoEffect
<1>5. CASE RefuseEmptySubject(t)
  <2>1. code = "emptySubject" /\ Promise!NamesNobody(call[t])
    BY <1>5, SameData DEF RefuseEmptySubject
  <2>2. Promise!NoEffect(t, Promise!Refusal("emptySubject"))
    BY <1>4, <2>1 DEF Promise!NoEffect
  <2> QED
    BY <2>1, <2>2 DEF Promise!Refuse, Promise!Serve
<1>6. CASE SaveFails(t)
  <2>1. code = "ioError" /\ ~ NamesNobody(call[t]) /\ ~ ReadOnly(call[t])
    BY <1>6 DEF SaveFails, Saving, Holding, PromiseInv, SubjectNamed, KindInv, Changes, ReadOnly
  <2>2. Promise!NoEffect(t, Promise!Refusal("ioError"))
    BY <1>4, <2>1 DEF Promise!NoEffect
  <2> QED
    BY <2>1, <2>2, SameData DEF Promise!Fail, Promise!Serve
<1> QED
  BY <1>5, <1>6

\* The deferred Unlock delivers the answer.
LEMMA ReturnResponds ==
  ASSUME TypeOK, NEW t \in Thread, Return(t)
  PROVE  Promise!Respond(t)
<1>1. /\ pc[t] \in {"done", "refused"} /\ UNCHANGED <<file, disk>>
      /\ pc' = [pc EXCEPT ![t] = "idle"] /\ pc \in [Thread -> Step]
      /\ res' = [res EXCEPT ![t] = NoResult] /\ res \in [Thread -> Result]
      /\ call' = [call EXCEPT ![t] = NoCall]
  BY DEF Return, TypeOK, docVars
<1>2. [u \in Thread |-> PhaseOf(u)]' = [[u \in Thread |-> PhaseOf(u)] EXCEPT ![t] = "idle"]
  BY <1>1 DEF PhaseOf
<1>3. [u \in Thread |-> AnswerOf(u)]' = [[u \in Thread |-> AnswerOf(u)] EXCEPT ![t] = NoResult]
  BY <1>1 DEF PhaseOf, AnswerOf
<1>4. PhaseOf(t) = "answered"
  BY <1>1 DEF PhaseOf
<1> QED
  BY <1>1, <1>2, <1>3, <1>4, SameData DEF Promise!Respond, AnswerOf

\* A call begins as the promise lets it.
LEMMA BeginInvokes ==
  ASSUME TypeOK, NEW t \in Thread, NEW c \in Call, Begin(t, c)
  PROVE  Promise!Invoke(t)
<1>1. /\ pc[t] = "idle" /\ pc' = [pc EXCEPT ![t] = "called"] /\ pc \in [Thread -> Step]
      /\ UNCHANGED <<file, disk, res>> /\ call' = [call EXCEPT ![t] = c]
      /\ t \in Writer \/ ReadOnly(c)
  BY DEF Begin, TypeOK, docVars
<1>2. [u \in Thread |-> PhaseOf(u)]' = [[u \in Thread |-> PhaseOf(u)] EXCEPT ![t] = "pending"]
  BY <1>1 DEF PhaseOf
<1>3. [u \in Thread |-> AnswerOf(u)]' = [u \in Thread |-> AnswerOf(u)]
  BY <1>1 DEF PhaseOf, AnswerOf
<1>4. PhaseOf(t) = "idle"
  BY <1>1 DEF PhaseOf
<1> QED
  BY <1>1, <1>2, <1>3, <1>4, SameData DEF Promise!Invoke, AnswerOf

\* Threads that are killed have no call and no answer any more.
LEMMA StopDies ==
  ASSUME TypeOK, NEW T \in SUBSET Thread, Stop(T)
  PROVE  Promise!Die(T)
<1>1. \A u \in Thread :
        /\ u \in T => (PhaseOf(u))' = "idle" /\ (AnswerOf(u))' = NoResult
        /\ u \notin T => (PhaseOf(u))' = PhaseOf(u) /\ (AnswerOf(u))' = AnswerOf(u)
  BY DEF Stop, PhaseOf, AnswerOf, TypeOK
<1>2. [u \in Thread |-> PhaseOf(u)]'
        = [u \in Thread |-> IF u \in T THEN "idle" ELSE [v \in Thread |-> PhaseOf(v)][u]]
  BY <1>1
<1>3. [u \in Thread |-> AnswerOf(u)]'
        = [u \in Thread |-> IF u \in T THEN NoResult ELSE [v \in Thread |-> AnswerOf(v)][u]]
  BY <1>1
<1>4. call' = [u \in Thread |-> IF u \in T THEN NoCall ELSE call[u]]
  BY DEF Stop
<1> QED
  BY <1>2, <1>3, <1>4, SameData DEF Promise!Die, AnswerOf

\* A step that only moves a thread on between its lock and its rename.
LEMMA Pending ==
  ASSUME TypeOK, NEW t \in Thread, UNCHANGED <<file, disk, call>>,
         PhaseOf(t) = "pending", (PhaseOf(t))' = "pending",
         \A u \in Thread \ {t} : pc'[u] = pc[u] /\ res'[u] = res[u]
  PROVE  UNCHANGED Promise!vars
  BY Stutters DEF PhaseOf, AnswerOf

\* Each step of the Store is one of the promise, or leaves it alone.
LEMMA PromiseStep == PromiseInv /\ [Next]_vars => [Promise!Next]_(Promise!vars)
<1> SUFFICES ASSUME PromiseInv, [Next]_vars PROVE Promise!Next \/ UNCHANGED Promise!vars
  OBVIOUS
<1> TypeOK
  BY DEF PromiseInv
<1>1. ASSUME NEW t \in Thread, NEW c \in Call, Begin(t, c) PROVE Promise!Next
  BY <1>1, BeginInvokes DEF Promise!Next
<1>2. ASSUME NEW t \in Thread, Acquire(t) PROVE UNCHANGED Promise!vars
  BY <1>2, Pending DEF Acquire, docVars, PhaseOf, TypeOK
<1>3. ASSUME NEW t \in Thread, Proceed(t) PROVE Promise!Next \/ UNCHANGED Promise!vars
  <2>1. CASE RefuseEmptySubject(t) \/ SaveFails(t)
    BY <2>1, RefusalServes DEF Promise!Next
  <2>2. CASE \/ ReadFails(t) \/ FindByTokenHash(t) \/ Users(t)
            \/ UserNotFound(t) \/ MintFails(t) \/ UserExists(t) \/ TokenNotFound(t)
    BY <2>2, FinishServes DEF Promise!Next
  <2>3. CASE IssueToken(t) \/ CreateUser(t) \/ RevokeToken(t)
    <3>1. pc[t] = "locked" /\ \E doc, result : StartSave(t, doc, result)
      BY <2>3 DEF IssueToken, CreateUser, RevokeToken, Loads
    <3> QED
      BY <3>1, Pending DEF StartSave, docVars, PhaseOf, TypeOK
  <2>4. CASE WriteTemp(t) \/ SyncTemp(t)
    BY <2>4, Pending DEF WriteTemp, SyncTemp, SaveStep, docVars, PhaseOf, TypeOK
  <2>5. CASE Rename(t)
    BY <2>5, RenameServes DEF Promise!Next
  <2>6. CASE Return(t)
    BY <2>6, ReturnResponds DEF Promise!Next
  <2> QED
    BY <1>3, <2>1, <2>2, <2>3, <2>4, <2>5, <2>6 DEF Proceed
<1>4. ASSUME NEW s \in Store, Crash(s) PROVE Promise!Next
  <2>1. Promise!Die(ThreadsOf(s))
    BY <1>4, StopDies DEF Crash, ThreadsOf
  <2>2. Promise!Crash(ThreadsOf(s))
    BY <1>4, <2>1 DEF Crash, docVars, Promise!Crash
  <2> QED
    BY <2>2 DEF Promise!Next
<1>5. CASE Operator
  <2>1. UNCHANGED <<disk, call>> /\ UNCHANGED <<pc, res>>
    BY <1>5 DEF Operator, EditStatus, EditBreaks, EditRepairs, Edit, threadVars
  <2>2. \/ \E s \in Subject, status \in {"enabled", "disabled"} :
             Readable(file) /\ file' = JsonFile(WithStatus(file.doc, s, status))
        \/ file.form = "json" /\ file' = [form |-> "malformed", doc |-> file.doc]
        \/ file.form = "malformed" /\ file' = JsonFile(file.doc)
    BY <1>5 DEF Operator, EditStatus, EditBreaks, EditRepairs, Edit
  <2>3. \A u \in Thread : (PhaseOf(u))' = PhaseOf(u) /\ (AnswerOf(u))' = AnswerOf(u)
    BY <2>1 DEF PhaseOf, AnswerOf
  <2> QED
    BY <2>1, <2>2, <2>3, SameData DEF Promise!Edit, Promise!Next, AnswerOf
<1>6. CASE Flush
  <2>1. \A u \in Thread : (PhaseOf(u))' = PhaseOf(u) /\ (AnswerOf(u))' = AnswerOf(u)
    BY <1>6 DEF Flush, threadVars, PhaseOf, AnswerOf
  <2>2. disk' = file /\ UNCHANGED <<file, call>>
    BY <1>6 DEF Flush, threadVars, PromiseInv, WholeInv
  <2> QED
    BY <2>1, <2>2 DEF Promise!WriteBack, Promise!Next, AnswerOf
<1>7. CASE PowerLoss
  <2>1. Promise!Die(Thread)
    BY <1>7, StopDies DEF PowerLoss
  <2> QED
    BY <1>7, <2>1 DEF PowerLoss, Promise!PowerLoss, Promise!Next
<1>8. CASE UNCHANGED vars
  BY <1>8, Stutters DEF vars, docVars, threadVars, PhaseOf, AnswerOf
<1> QED
  BY <1>1, <1>2, <1>3, <1>4, <1>5, <1>6, <1>7, <1>8 DEF Next

\* With all writers in one process and no editing during a save, every call of
\* the Store takes effect at one instant, or has no effect and says so.
THEOREM StoreKeepsPromise ==
  ASSUME OneWriterProcess, ~ EditAnytime
  PROVE  Spec => ImplementsCredentialStore
<1>1. Init => Promise!Init
  BY SameData DEF Init, Promise!Init, PhaseOf
<1> QED
  BY <1>1, PromiseStep, PromiseInvariant, PTL DEF Spec, ImplementsCredentialStore, Promise!Spec

===============================================================================
