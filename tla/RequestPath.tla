------------------------------ MODULE RequestPath ------------------------------
(***************************************************************************)
(* One HTTP request from its arrival to its answer: the bearer middleware, *)
(* the Authenticator, the MCP transport's session check, the core Service  *)
(* and the notes tools, while the operator issues and revokes credentials, *)
(* slips the users file and time passes.                                   *)
(*                                                                         *)
(* Each operation on the users file is one step, as CredentialStore        *)
(* allows; so is each operation on the notes store, as NoteStore allows.   *)
(* The MCP SDK (bearer middleware, sessions, routing by tool name) is not  *)
(* part of the repository: it is modelled from how the code relies on it.  *)
(***************************************************************************)
EXTENDS UsersDocument, Naturals, Sequences

CONSTANTS
  Request,        \* handler goroutines
  BadCredential,  \* an absent header, or one that has not the form of a token
  Scope,
  Never,          \* the expiry of a token that has none
  MaxTime,        \* bound: the clock
  MaxNotes,       \* bound: notes stored
  MaxSlip,        \* bound: users disabled and syntax broken by hand
  MaxRestart      \* bound: restarts of the server

ASSUME GrantAssumption ==
  Grant \subseteq [scopes : SUBSET Scope, expires : (0 .. MaxTime) \cup {Never}]
ASSUME BoundAssumption ==
  MaxTime \in Nat /\ MaxNotes \in Nat /\ MaxSlip \in Nat /\ MaxRestart \in Nat
ASSUME DistinctAssumption == BadCredential \notin TokenId

\* The registry, and the scope each tool requires.
ToolScope == [echo |-> "tools:echo", notes_add |-> "notes:write", notes_list |-> "notes:read"]
Tool == DOMAIN ToolScope

Op == Tool \cup {"initialize", "tools/list", "unknown"}

VARIABLES
  users,      \* the users file
  now,        \* the clock both processes read
  sessions,   \* the subjects with an open session; a session is its owner's
  notes,      \* the notes store, in order of insertion
  pc,         \* how far request q is
  req,        \* what it presented
  match,      \* what the lookup of its credential found
  principal,  \* who it turned out to be: the principal in its context
  answer,
  granted,    \* history: every token ever issued
  shown,      \* history: <<token id, tool>> for the tools listed to a token
  wasLive,    \* history: was the credential good at some time since arrival?
  wasDead,    \* history: was it no good at some time since arrival?
  slips, restarts

adminVars == <<users, now, granted, slips, restarts>>
vars == <<adminVars, sessions, notes, pc, req, match, principal, answer, shown, wasLive, wasDead>>

\* A request without a session id is one whose session is not open.
RequestData == [cred : TokenId \cup {BadCredential}, session : Subject, op : Op]
NoRequest == [cred |-> BadCredential, session |-> EmptySubject, op |-> "none"]

\* A note, and (history) the credential of the request that added it.
Note == [owner : Subject, by : TokenId]

Match == [token : Token, enabled : BOOLEAN]

Unauthenticated == "401 unauthenticated"
Outcome == {"none", "ok", Unauthenticated, "500", "404 no session", "403 other user",
            "tool not found", "forbidden", "tool failure", "internal error"}

\* An answer carries the tools listed or the positions of the notes read.
NoAnswer == [code |-> "none", tools |-> {}, read |-> {}]

TypeOK ==
  /\ users \in File
  /\ now \in 0 .. MaxTime
  /\ sessions \subseteq Subject
  /\ notes \in Seq(Note) /\ Len(notes) <= MaxNotes
  /\ pc \in [Request -> {"idle", "received", "matched", "authenticated", "authorized", "answered"}]
  /\ req \in [Request -> RequestData \cup {NoRequest}]
  /\ \A q \in Request : match[q] = {} \/ \E m \in Match : match[q] = {m}
  /\ \A q \in Request : principal[q] = {} \/ \E tk \in Token : principal[q] = {tk}
  /\ answer \in [Request -> [code : Outcome, tools : SUBSET Tool, read : SUBSET (1 .. MaxNotes)]]
  /\ granted \subseteq Token
  /\ shown \subseteq TokenId \X Tool
  /\ wasLive \in [Request -> BOOLEAN] /\ wasDead \in [Request -> BOOLEAN]
  /\ slips \in 0 .. MaxSlip /\ restarts \in 0 .. MaxRestart

Init ==
  /\ users = NoFile
  /\ now = 0
  /\ sessions = {}
  /\ notes = <<>>
  /\ pc = [q \in Request |-> "idle"]
  /\ req = [q \in Request |-> NoRequest]
  /\ match = [q \in Request |-> {}]
  /\ principal = [q \in Request |-> {}]
  /\ answer = [q \in Request |-> NoAnswer]
  /\ granted = {} /\ shown = {}
  /\ wasLive = [q \in Request |-> FALSE] /\ wasDead = [q \in Request |-> FALSE]
  /\ slips = 0 /\ restarts = 0

-----------------------------------------------------------------------------
(* Authentication: RequireAuth, Verifier, Authenticate.                     *)

\* MUTANT of IsExpired: a token is good for its last instant too.
IsExpiredAfter(tk, time) == tk.grant.expires # Never /\ time > tk.grant.expires

\* Token.IsExpired: a token with an expiry is dead from that instant on.
IsExpired(tk, time) == tk.grant.expires # Never /\ time >= tk.grant.expires

Step(q, from, to) == pc[q] = from /\ pc' = [pc EXCEPT ![q] = to]

AnswersWith(q, from, code, tools, read) ==
  /\ Step(q, from, "answered")
  /\ answer' = [answer EXCEPT ![q] = [code |-> code, tools |-> tools, read |-> read]]
  /\ UNCHANGED <<adminVars, req, match, principal>>

Answers(q, from, code) == AnswersWith(q, from, code, {}, {})

Receive(q, r) ==
  /\ Step(q, "idle", "received")
  /\ req' = [req EXCEPT ![q] = r]
  /\ UNCHANGED <<adminVars, sessions, notes, match, principal, answer, shown>>

\* Refused without a look at the file.
RefuseFormat(q) ==
  /\ req[q].cred = BadCredential
  /\ Answers(q, "received", Unauthenticated)
  /\ UNCHANGED <<sessions, notes, shown>>

LookupFinds(q) ==
  /\ Step(q, "received", "matched")
  /\ Readable(users)
  /\ \E tk \in users.doc.tokens :
       /\ tk.id = req[q].cred
       /\ match' = [match EXCEPT ![q] =
                      {[token |-> tk, enabled |-> users.doc.status[tk.owner] = "enabled"]}]
  /\ UNCHANGED <<adminVars, sessions, notes, req, principal, answer, shown>>

\* MUTANT of LookupFindsNothing: a file that cannot be read is an empty one.
UnreadableIsEmpty(q) ==
  /\ req[q].cred \in TokenId
  /\ Readable(users) => req[q].cred \notin Ids(users.doc)
  /\ Answers(q, "received", Unauthenticated)
  /\ UNCHANGED <<sessions, notes, shown>>

LookupFindsNothing(q) ==
  /\ Readable(users)
  /\ req[q].cred \in TokenId \ Ids(users.doc)
  /\ Answers(q, "received", Unauthenticated)
  /\ UNCHANGED <<sessions, notes, shown>>

\* A file that cannot be read is the operator's problem, not a bad credential.
LookupFails(q) ==
  /\ req[q].cred \in TokenId
  /\ Answers(q, "received", "500")
  /\ UNCHANGED <<sessions, notes, shown>>

RefuseDisabled(q) ==
  /\ \E m \in match[q] : ~ m.enabled
  /\ Answers(q, "matched", Unauthenticated)
  /\ UNCHANGED <<sessions, notes, shown>>

\* The clock is read after the lookup.
RefuseExpired(q) ==
  /\ \E m \in match[q] : m.enabled /\ IsExpired(m.token, now)
  /\ Answers(q, "matched", Unauthenticated)
  /\ UNCHANGED <<sessions, notes, shown>>

\* MUTANT of Accept: the whole match is taken for the principal.
AcceptMatch(q) ==
  /\ Step(q, "matched", "authenticated")
  /\ \E m \in match[q] :
       /\ m.enabled /\ ~ IsExpired(m.token, now)
       /\ principal' = [principal EXCEPT ![q] = {m}]
  /\ UNCHANGED <<adminVars, sessions, notes, req, match, answer, shown>>

Accept(q) ==
  /\ Step(q, "matched", "authenticated")
  /\ \E m \in match[q] :
       /\ m.enabled /\ ~ IsExpired(m.token, now)
       /\ principal' = [principal EXCEPT ![q] = {m.token}]
  /\ UNCHANGED <<adminVars, sessions, notes, req, match, answer, shown>>

\* The SDK's middleware compares the expiry it finds in the TokenInfo with a clock
\* of its own, read after Authenticate's.
MiddlewareExpires(q) ==
  /\ \E tk \in principal[q] : IsExpired(tk, now)
  /\ Answers(q, "authenticated", Unauthenticated)
  /\ UNCHANGED <<sessions, notes, shown>>

-----------------------------------------------------------------------------
(* The transport's session check.  UserID in the TokenInfo pins a session to *)
(* the subject that opened it.                                               *)

OpenSession(q) ==
  /\ req[q].op = "initialize"
  /\ \E tk \in principal[q] : sessions' = sessions \cup {tk.owner}
  /\ Answers(q, "authenticated", "ok")
  /\ UNCHANGED <<notes, shown>>

InSession(q) ==
  /\ req[q].op # "initialize"
  /\ req[q].session \in sessions
  /\ \E tk \in principal[q] : tk.owner = req[q].session

RefuseSession(q) ==
  /\ req[q].op # "initialize"
  /\ ~ InSession(q)
  /\ Answers(q, "authenticated",
             IF req[q].session \in sessions THEN "403 other user" ELSE "404 no session")
  /\ UNCHANGED <<sessions, notes, shown>>

-----------------------------------------------------------------------------
(* The core Service, and the tools.                                         *)

\* Principal.HasScope, which is all ScopeAuthorizer.Allow is.  Everybody has the
\* empty scope; no registered tool asks for it.
HasScope(tk, scope) == scope \in tk.grant.scopes

AllowedTools(tk) == {tool \in Tool : HasScope(tk, ToolScope[tool])}

\* MUTANT of ListTools: the list is not filtered.
ListAllTools(q) ==
  /\ req[q].op = "tools/list"
  /\ InSession(q)
  /\ \E tk \in principal[q] : shown' = shown \cup ({tk.id} \X Tool)
  /\ AnswersWith(q, "authenticated", "ok", Tool, {})
  /\ UNCHANGED <<sessions, notes>>

ListTools(q) ==
  /\ req[q].op = "tools/list"
  /\ InSession(q)
  /\ \E tk \in principal[q] :
       /\ AnswersWith(q, "authenticated", "ok", AllowedTools(tk), {})
       /\ shown' = shown \cup ({tk.id} \X AllowedTools(tk))
  /\ UNCHANGED <<sessions, notes>>

CallUnknownTool(q) ==
  /\ req[q].op = "unknown"
  /\ InSession(q)
  /\ Answers(q, "authenticated", "tool not found")
  /\ UNCHANGED <<sessions, notes, shown>>

CallForbidden(q) ==
  /\ req[q].op \in Tool
  /\ InSession(q)
  /\ \E tk \in principal[q] : ~ HasScope(tk, ToolScope[req[q].op])
  /\ Answers(q, "authenticated", "forbidden")
  /\ UNCHANGED <<sessions, notes, shown>>

\* MUTANT of CallAllowed: the call is not authorized, only the listing is.
CallUnchecked(q) ==
  /\ Step(q, "authenticated", "authorized")
  /\ req[q].op \in Tool
  /\ InSession(q)
  /\ UNCHANGED <<adminVars, sessions, notes, req, match, principal, answer, shown>>

CallAllowed(q) ==
  /\ Step(q, "authenticated", "authorized")
  /\ req[q].op \in Tool
  /\ InSession(q)
  /\ \E tk \in principal[q] : HasScope(tk, ToolScope[req[q].op])
  /\ UNCHANGED <<adminVars, sessions, notes, req, match, principal, answer, shown>>

\* The arguments do not fit the schema, or the tool refuses them.
ExecuteRefuses(q) ==
  /\ Answers(q, "authorized", "tool failure")
  /\ UNCHANGED <<sessions, notes, shown>>

\* The notes store fails; the detail stays in the log.
ExecuteFails(q) ==
  /\ req[q].op \in {"notes_add", "notes_list"}
  /\ Answers(q, "authorized", "internal error")
  /\ UNCHANGED <<sessions, notes, shown>>

Echo(q) ==
  /\ req[q].op = "echo"
  /\ Answers(q, "authorized", "ok")
  /\ UNCHANGED <<sessions, notes, shown>>

\* The owner is the principal's subject, never an argument.
AddNote(q) ==
  /\ req[q].op = "notes_add"
  /\ Len(notes) < MaxNotes
  /\ \E tk \in principal[q] : notes' = Append(notes, [owner |-> tk.owner, by |-> req[q].cred])
  /\ Answers(q, "authorized", "ok")
  /\ UNCHANGED <<sessions, shown>>

ListNotes(q) ==
  /\ req[q].op = "notes_list"
  /\ \E tk \in principal[q] :
       AnswersWith(q, "authorized", "ok", {}, {i \in DOMAIN notes : notes[i].owner = tk.owner})
  /\ UNCHANGED <<sessions, notes, shown>>

Respond(q) ==
  /\ Step(q, "answered", "idle")
  /\ req' = [req EXCEPT ![q] = NoRequest]
  /\ match' = [match EXCEPT ![q] = {}]
  /\ principal' = [principal EXCEPT ![q] = {}]
  /\ answer' = [answer EXCEPT ![q] = NoAnswer]
  /\ UNCHANGED <<adminVars, sessions, notes, shown>>

-----------------------------------------------------------------------------
(* The operator's command line and editor, the clock, a restart.            *)

requestVars == <<sessions, notes, pc, req, match, principal, answer, shown>>

IssueToken(tk) ==
  /\ Readable(users)
  /\ tk.id \notin {old.id : old \in granted}
  /\ users' = JsonFile(WithToken(users.doc, tk))
  /\ granted' = granted \cup {tk}
  /\ UNCHANGED <<requestVars, now, slips, restarts>>

RevokeToken(id) ==
  /\ Readable(users)
  /\ id \in Ids(users.doc)
  /\ users' = JsonFile(WithoutToken(users.doc, id))
  /\ UNCHANGED <<requestVars, now, granted, slips, restarts>>

Edit(f) ==
  /\ users' = f
  /\ UNCHANGED <<requestVars, now, granted, restarts>>

Disable(subject) ==
  /\ users.form = "json" /\ users.doc.status[subject] = "enabled"
  /\ slips < MaxSlip /\ slips' = slips + 1
  /\ Edit(JsonFile(WithStatus(users.doc, subject, "disabled")))

Enable(subject) ==
  /\ users.form = "json" /\ users.doc.status[subject] = "disabled"
  /\ Edit(JsonFile(WithStatus(users.doc, subject, "enabled")))
  /\ UNCHANGED slips

Break ==
  /\ users.form = "json"
  /\ slips < MaxSlip /\ slips' = slips + 1
  /\ Edit([form |-> "malformed", doc |-> users.doc])

Repair ==
  /\ users.form = "malformed"
  /\ Edit(JsonFile(users.doc))
  /\ UNCHANGED slips

Tick ==
  /\ now < MaxTime
  /\ now' = now + 1
  /\ UNCHANGED <<requestVars, users, granted, slips, restarts>>

\* Requests in flight are gone and sessions are forgotten; the notes are those
\* of the file adapter.
Restart ==
  /\ restarts < MaxRestart
  /\ restarts' = restarts + 1
  /\ sessions' = {}
  /\ pc' = [q \in Request |-> "idle"]
  /\ req' = [q \in Request |-> NoRequest]
  /\ match' = [q \in Request |-> {}]
  /\ principal' = [q \in Request |-> {}]
  /\ answer' = [q \in Request |-> NoAnswer]
  /\ UNCHANGED <<users, now, granted, slips, notes, shown>>

-----------------------------------------------------------------------------

\* A token is good strictly before its expiry: said anew, for the histories not to
\* depend on how the code decides it.
InForce(tk, time) == tk.grant.expires = Never \/ time < tk.grant.expires

\* The credential ought to be accepted, if the file could be read now.
Live(f, cred, time) ==
  \E tk \in f.doc.tokens :
    tk.id = cred /\ f.doc.status[tk.owner] = "enabled" /\ InForce(tk, time)

\* The histories: what has been true of the credential since the arrival.
Witness ==
  /\ wasLive' = [q \in Request |->
       pc'[q] # "idle" /\ (wasLive[q] \/ Live(users', req'[q].cred, now'))]
  /\ wasDead' = [q \in Request |->
       pc'[q] # "idle" /\ (wasDead[q] \/ ~ Live(users', req'[q].cred, now'))]

Authenticate(q) ==
  \/ RefuseFormat(q)
  \/ LookupFinds(q) \/ LookupFindsNothing(q) \/ LookupFails(q)
  \/ RefuseDisabled(q) \/ RefuseExpired(q) \/ Accept(q)
  \/ MiddlewareExpires(q)

Serve(q) ==
  \/ OpenSession(q) \/ RefuseSession(q)
  \/ ListTools(q)
  \/ CallUnknownTool(q) \/ CallForbidden(q) \/ CallAllowed(q)
  \/ ExecuteRefuses(q) \/ ExecuteFails(q)
  \/ Echo(q) \/ AddNote(q) \/ ListNotes(q)

Handle(q) == (Authenticate(q) \/ Serve(q) \/ Respond(q)) /\ Witness

Admin ==
  \/ \E tk \in Token : IssueToken(tk)
  \/ \E id \in TokenId : RevokeToken(id)
  \/ \E subject \in Subject : Disable(subject) \/ Enable(subject)
  \/ Break
  \/ Repair
  \/ Tick
  \/ Restart

Next ==
  \/ \E q \in Request : (\E r \in RequestData : Receive(q, r)) /\ Witness
  \/ \E q \in Request : Handle(q)
  \/ Admin /\ Witness

Spec == Init /\ [][Next]_vars

-----------------------------------------------------------------------------

\* Nobody gets past authentication with a credential that was revoked, expired,
\* or its user disabled, all the while since the request arrived: there was an
\* instant at which the credential was on file, its user enabled and its expiry
\* ahead, although file and clock are read at different times.
AcceptedWasLive ==
  \A q \in Request : pc[q] \in {"authenticated", "authorized"} => wasLive[q]

\* A 401 is never the answer to a credential that was good all along, however
\* broken the users file is: that is a 500.
RefusedWasDead ==
  \A q \in Request : answer[q].code = Unauthenticated => wasDead[q]

\* Whatever the interleaving of requests and operator, every stored note is
\* owned by the subject a write credential was issued to, and a request is
\* shown notes of its own subject only, under a read credential.
NotesHaveAuthority ==
  /\ \A i \in DOMAIN notes : \E tk \in granted :
       tk.id = notes[i].by /\ tk.owner = notes[i].owner /\ HasScope(tk, "notes:write")
  /\ \A q \in Request : req[q].op = "notes_list" /\ answer[q].code = "ok" =>
       \E tk \in granted :
         /\ tk.id = req[q].cred /\ HasScope(tk, "notes:read")
         /\ \A i \in answer[q].read : notes[i].owner = tk.owner

\* A tool listed for a credential is never refused to it afterwards for want of
\* a scope: the list and the call are decided alike.
ShownNeverForbidden ==
  \A q \in Request : answer[q].code = "forbidden" => <<req[q].cred, req[q].op>> \notin shown

\* No note is written under a credential that is not on file any more.
NoEffectAfterRevocation ==
  [][\A i \in DOMAIN notes' \ DOMAIN notes : notes'[i].by \in Ids(users.doc)]_vars

===============================================================================
