----------------------------- MODULE UsersDocument -----------------------------
(***************************************************************************)
(* The content of the users file and what each store operation makes of    *)
(* it: the pure part of internal/adapter/out/auth/local/store.go.          *)
(*                                                                         *)
(* Users are identified by their subject and a document is a set of        *)
(* tokens plus a status per subject; the order of the JSON arrays, the     *)
(* user ids and the timestamps of creation are left out.  A token id       *)
(* stands for the three values minted together: the public id, the         *)
(* plaintext secret and the SHA-256 of that secret.  Scopes and expiry are *)
(* an opaque grant here; RequestPath gives them their meaning.             *)
(***************************************************************************)

CONSTANTS
  Subject,       \* the subjects the operator may provision
  EmptySubject,  \* the empty string given as a subject
  TokenId,       \* bound: the credentials that can ever be minted
  Grant          \* the scopes and the expiry of a token

ASSUME SubjectAssumption == EmptySubject \notin Subject

Status == {"absent", "enabled", "disabled"}

Token == [id : TokenId, owner : Subject, grant : Grant]

Document == [status : [Subject -> Status], tokens : SUBSET Token]

NoUsers == [status |-> [s \in Subject |-> "absent"], tokens |-> {}]

Ids(doc) == {tk.id : tk \in doc.tokens}

Provisioned(doc, subject) == doc.status[subject] # "absent"

WithStatus(doc, subject, status) ==
  [status |-> [doc.status EXCEPT ![subject] = status], tokens |-> doc.tokens]

\* A user is appended enabled, with no tokens.
WithUser(doc, subject) == WithStatus(doc, subject, "enabled")

\* MUTANT of WithToken: the user is written as a new one, enabled.
WithTokenEnabling(doc, tk) ==
  [status |-> [doc.status EXCEPT ![tk.owner] = "enabled"], tokens |-> doc.tokens \cup {tk}]

\* The user the token is appended to is provisioned first if need be; one who
\* exists keeps the status and the tokens they have.
WithToken(doc, tk) ==
  [status |-> [doc.status EXCEPT ![tk.owner] = IF @ = "absent" THEN "enabled" ELSE @],
   tokens |-> doc.tokens \cup {tk}]

WithoutToken(doc, id) ==
  [status |-> doc.status, tokens |-> {tk \in doc.tokens : tk.id # id}]

\* What a lookup of one credential hands back: its record and its owner's.
MatchOf(doc, id) ==
  LET matching == {tk \in doc.tokens : tk.id = id} IN
  [status |-> [s \in Subject |-> IF \E tk \in matching : tk.owner = s
                                 THEN doc.status[s] ELSE "absent"],
   tokens |-> matching]

-----------------------------------------------------------------------------
(* The file as load sees it.  "missing" stands for an empty file too.  A     *)
(* malformed file keeps the document a repair by hand brings back; "torn"    *)
(* is a file whose data never reached the disk.                              *)

File == [form : {"missing", "json", "malformed", "torn"}, doc : Document]

NoFile == [form |-> "missing", doc |-> NoUsers]
TornFile == [form |-> "torn", doc |-> NoUsers]
JsonFile(doc) == [form |-> "json", doc |-> doc]

\* load: a missing or empty file is an empty store, a malformed one an error.
Readable(f) == f.form \in {"missing", "json"}

-----------------------------------------------------------------------------
(* The calls of the Store type and what they answer.  A result carries the   *)
(* part of the document it hands back: the new token, the match, the users.  *)

Call ==
  [kind : {"issue"}, subject : Subject \cup {EmptySubject}, grant : Grant, create : BOOLEAN]
    \cup [kind : {"create"}, subject : Subject \cup {EmptySubject}]
    \cup [kind : {"revoke"}, id : TokenId]
    \cup [kind : {"find"}, id : TokenId]
    \cup [kind : {"list"}]

NoCall == [kind |-> "none"]

Code == {"none", "ok", "noMatch", "emptySubject", "userNotFound", "userExists",
         "tokenNotFound", "unreadable", "mintFailed", "ioError"}

Result == [code : Code, doc : Document]

Answer(code, doc) == [code |-> code, doc |-> doc]
Refusal(code) == Answer(code, NoUsers)
NoResult == Refusal("none")

ReadOnly(call) == call.kind \in {"find", "list"}

NamesNobody(call) == call.kind \in {"issue", "create"} /\ call.subject = EmptySubject

NewToken(id, call) == [id |-> id, owner |-> call.subject, grant |-> call.grant]

\* IssueToken goes ahead for a user who exists, or with leave to create one.
MayIssue(doc, call) == Provisioned(doc, call.subject) \/ call.create

===============================================================================
