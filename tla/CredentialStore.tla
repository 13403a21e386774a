---------------------------- MODULE CredentialStore ----------------------------
(***************************************************************************)
(* What the users-file Store promises its callers: every call takes effect *)
(* at one instant between its invocation and its answer, on the document   *)
(* the file holds at that instant, or has no effect and answers an error.  *)
(* There are no locks, no drafts and no temporary files here.  UsersFile   *)
(* implements this specification when all writers share one Store.         *)
(***************************************************************************)
EXTENDS UsersDocument

CONSTANTS
  Thread,   \* the callers
  Writer,   \* those that issue, create or revoke
  Process   \* the sets of threads that die together

VARIABLES
  file,    \* the users file
  disk,    \* the version of it a power loss falls back to
  phase,   \* per thread: no call, a call in progress, an answer to deliver
  call,
  res

vars == <<file, disk, phase, call, res>>

Phase == {"idle", "pending", "answered"}

Init ==
  /\ file = NoFile
  /\ disk = NoFile
  /\ phase = [t \in Thread |-> "idle"]
  /\ call = [t \in Thread |-> NoCall]
  /\ res = [t \in Thread |-> NoResult]

Invoke(t) ==
  /\ phase[t] = "idle"
  /\ phase' = [phase EXCEPT ![t] = "pending"]
  /\ \E c \in Call : (t \in Writer \/ ReadOnly(c)) /\ call' = [call EXCEPT ![t] = c]
  /\ UNCHANGED <<file, disk, res>>

\* The call of t takes effect now: it leaves newFile and answers result.
Effect(t, newFile, result) ==
  /\ phase[t] = "pending"
  /\ phase' = [phase EXCEPT ![t] = "answered"]
  /\ res' = [res EXCEPT ![t] = result]
  /\ file' = newFile
  /\ UNCHANGED <<disk, call>>

\* It has none, and answers result.
NoEffect(t, result) ==
  /\ phase[t] = "pending"
  /\ phase' = [phase EXCEPT ![t] = "answered"]
  /\ res' = [res EXCEPT ![t] = result]
  /\ UNCHANGED <<file, disk, call>>

\* A call that names a user is well formed and finds a readable file.
Served(t, kind) == call[t].kind = kind /\ Readable(file) /\ ~ NamesNobody(call[t])

Issue(t) ==
  /\ Served(t, "issue")
  /\ MayIssue(file.doc, call[t])
  /\ \E id \in TokenId \ Ids(file.doc) :
       LET tk == NewToken(id, call[t]) IN
       Effect(t, JsonFile(WithToken(file.doc, tk)), Answer("ok", WithToken(NoUsers, tk)))

Create(t) ==
  /\ Served(t, "create")
  /\ ~ Provisioned(file.doc, call[t].subject)
  /\ Effect(t, JsonFile(WithUser(file.doc, call[t].subject)),
            Answer("ok", WithUser(NoUsers, call[t].subject)))

Revoke(t) ==
  /\ Served(t, "revoke")
  /\ call[t].id \in Ids(file.doc)
  /\ Effect(t, JsonFile(WithoutToken(file.doc, call[t].id)), Refusal("ok"))

Find(t) ==
  /\ Served(t, "find")
  /\ NoEffect(t, IF call[t].id \in Ids(file.doc)
                 THEN Answer("ok", MatchOf(file.doc, call[t].id))
                 ELSE Refusal("noMatch"))

List(t) == Served(t, "list") /\ NoEffect(t, Answer("ok", file.doc))

\* A refusal is never wrong about the document.
Refuse(t) ==
  \/ /\ NamesNobody(call[t])
     /\ NoEffect(t, Refusal("emptySubject"))
  \/ /\ Served(t, "issue")
     /\ ~ MayIssue(file.doc, call[t])
     /\ NoEffect(t, Refusal("userNotFound"))
  \/ /\ Served(t, "create")
     /\ Provisioned(file.doc, call[t].subject)
     /\ NoEffect(t, Refusal("userExists"))
  \/ /\ Served(t, "revoke")
     /\ call[t].id \notin Ids(file.doc)
     /\ NoEffect(t, Refusal("tokenNotFound"))

\* A call that could not read, mint or write says so and has changed nothing.
Fail(t) ==
  /\ ~ NamesNobody(call[t])
  /\ \/ NoEffect(t, Refusal("unreadable"))
     \/ call[t].kind = "issue" /\ NoEffect(t, Refusal("mintFailed"))
     \/ ~ ReadOnly(call[t]) /\ NoEffect(t, Refusal("ioError"))

Respond(t) ==
  /\ phase[t] = "answered"
  /\ phase' = [phase EXCEPT ![t] = "idle"]
  /\ call' = [call EXCEPT ![t] = NoCall]
  /\ res' = [res EXCEPT ![t] = NoResult]
  /\ UNCHANGED <<file, disk>>

\* The threads in T die.  A call that has taken effect keeps it, unanswered.
Die(T) ==
  /\ phase' = [t \in Thread |-> IF t \in T THEN "idle" ELSE phase[t]]
  /\ call' = [t \in Thread |-> IF t \in T THEN NoCall ELSE call[t]]
  /\ res' = [t \in Thread |-> IF t \in T THEN NoResult ELSE res[t]]

Crash(T) == Die(T) /\ UNCHANGED <<file, disk>>

\* The file falls back to a whole version it once had, no older than the last
\* one written back.
PowerLoss == file' = disk /\ Die(Thread) /\ UNCHANGED disk

WriteBack == disk' = file /\ UNCHANGED <<file, phase, call, res>>

\* By hand, the operator changes the status of a user, breaks the syntax of the
\* file or repairs it; the tokens stay as they are.
Edit ==
  /\ \/ \E s \in Subject, status \in {"enabled", "disabled"} :
          Readable(file) /\ file' = JsonFile(WithStatus(file.doc, s, status))
     \/ file.form = "json" /\ file' = [form |-> "malformed", doc |-> file.doc]
     \/ file.form = "malformed" /\ file' = JsonFile(file.doc)
  /\ UNCHANGED <<disk, phase, call, res>>

Serve(t) == Issue(t) \/ Create(t) \/ Revoke(t) \/ Find(t) \/ List(t) \/ Refuse(t) \/ Fail(t)

Next ==
  \/ \E t \in Thread : Invoke(t) \/ Serve(t) \/ Respond(t)
  \/ \E T \in Process : Crash(T)
  \/ PowerLoss
  \/ WriteBack
  \/ Edit

Spec == Init /\ [][Next]_vars

===============================================================================
