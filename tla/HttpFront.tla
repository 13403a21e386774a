------------------------------- MODULE HttpFront -------------------------------
(***************************************************************************)
(* The HTTP server around the core, from its environment to its access     *)
(* log: config.Load and app.Build, the routes, RequestLogger with its      *)
(* statusRecorder, RequireAuth, the MCP handler as far as HTTP sees it,    *)
(* the probes and the metadata document.  The SDK's transport and net/http *)
(* are external: the transport writes, flushes and names statuses in any   *)
(* order, and net/http sends the first final status it is told.            *)
(***************************************************************************)
EXTENDS Config, Registry, FiniteSets

CONSTANTS
  Request,    \* requests, each sent at most once
  Sends,      \* the routes and credentials each request may be sent with
  ToolLists,  \* the lists of tools a build may be made with
  MaxRepairs  \* bound: corrections of the environment

ASSUME RepairBoundAssumption == MaxRepairs \in Nat

VARIABLES
  boot,       \* how far the process is
  env,        \* the environment it is started in
  reported,   \* the variables the last start complained about
  repairs,    \* corrections since a start complained first
  cfg,        \* the configuration
  tools, reg, \* the tools of this build, and the registry made of them
  document,   \* the scopes the metadata document advertises
  readable,   \* the stores whose file can be read
  ex,         \* each request and its response
  log,        \* the entries written, each with the request it is about
  up, down    \* history: the stores that could, or could not, be used at some
              \* time since a probe arrived

startVars == <<boot, env, reported, repairs, cfg, tools, reg, document>>
vars == <<startVars, readable, ex, log, up, down>>

Store == {"users", "notes"}
Route == {"/mcp", "mcpStream", "/healthz", "/readyz", "metadata", "unknown"}
Mcp == {"/mcp", "mcpStream"}

\* No header with a bearer token, one that is not of a token's form, one that is
\* on no file (or expired, or of a disabled user), or one that is a subject's.
Credential == {"none", "malformed", "dead"} \cup Subject

\* Nobody's name, in a line of the log and in the holder of the caller.
Nobody == Empty

Body == {"none", "unauthenticated", "failed", "refusedHost", "tools", "ok",
         "toolNotFound", "forbidden", "internalError", "ready", "notReady", "fixed"}

\* status and written are the statusRecorder's; sent is what net/http sent; early is
\* history: a flush or an informational status came before any final status.
Exchange == [
  at : {"idle", "received", "handling", "returned", "done", "panicked"},
  route : Route, cred : Credential,
  status : Nat, written : BOOLEAN, sent : Nat, early : BOOLEAN,
  who : Subject \cup {Nobody},          \* the caller holder
  principal : SUBSET Subject,           \* what the context of the request says
  body : Body, listed : SUBSET Name,
  passed : SUBSET Store, failed : SUBSET Store]

ASSUME SendsAssumption == Sends \in [Request -> SUBSET (Route \X Credential)]

ASSUME ToolListsAssumption == ToolLists \subseteq Seq(Tool)

NewExchange(route, cred) == [
  at |-> "received", route |-> route, cred |-> cred,
  status |-> 200, written |-> FALSE, sent |-> 0, early |-> FALSE,
  who |-> Nobody, principal |-> {}, body |-> "none", listed |-> {},
  passed |-> {}, failed |-> {}]

NoExchange == [NewExchange("unknown", "none") EXCEPT !.at = "idle"]

Severity == [debug |-> 0, info |-> 1, warn |-> 2, error |-> 3]

Event == {"request", "authRejected", "authFailed", "checkFailed", "callForbidden", "callFailed"}

Entry == [of : Request, what : Event, level : DOMAIN Severity,
          status : Nat, subject : Subject \cup {Nobody}]

TypeOK ==
  /\ boot \in {"down", "refused", "loaded", "serving", "broken"}
  /\ env \in Environment /\ reported \subseteq Var /\ repairs \in 0 .. MaxRepairs
  /\ \A v \in Var : cfg[v] \in Accepted[v] \cup {Blank}
  /\ tools \in ToolLists /\ reg \in {NoRegistry, NewRegistry(tools)}
  /\ document \subseteq Scope
  /\ readable \subseteq Store
  /\ ex \in [Request -> Exchange]
  /\ log \subseteq Entry
  /\ up \in [Request -> SUBSET Store] /\ down \in [Request -> SUBSET Store]

Init ==
  /\ boot = "down"
  /\ env \in Environment
  /\ repairs = 0 /\ reported = {}
  /\ cfg = Default
  /\ tools \in ToolLists
  /\ reg = NoRegistry /\ document = {}
  /\ readable = Store
  /\ ex = [q \in Request |-> NoExchange]
  /\ log = {}
  /\ up = [q \in Request |-> {}] /\ down = [q \in Request |-> {}]

-----------------------------------------------------------------------------
(* The start: run, Load and Build.                                         *)

requestVars == <<readable, ex, log>>

\* The environment is read once.
LoadConfig ==
  /\ boot = "down"
  /\ Problems(env) = {}
  /\ boot' = "loaded"
  /\ cfg' = Load(env)
  /\ repairs' = 0 /\ reported' = {}
  /\ UNCHANGED <<env, tools, reg, document, requestVars>>

ConfigFails ==
  /\ boot = "down"
  /\ Problems(env) # {}
  /\ boot' = "refused"
  /\ reported' = Problems(env)
  /\ UNCHANGED <<env, repairs, cfg, tools, reg, document, requestVars>>

\* The operator gives every variable that was reported a value that is accepted,
\* touches no other, and starts the server again.
Repair ==
  /\ boot = "refused"
  /\ repairs < MaxRepairs /\ repairs' = repairs + 1
  /\ env' \in {e \in Environment : \A v \in Var :
                 IF v \in reported THEN e[v] \in Accepted[v] ELSE e[v] = env[v]}
  /\ boot' = "down"
  /\ UNCHANGED <<reported, cfg, tools, reg, document, requestVars>>

\* NewStore and notesfile.New want a path, NewRegistry a well-formed list.
Buildable ==
  /\ cfg.USERS_FILE # Blank
  /\ cfg.NOTES_STORE = "file" => cfg.NOTES_FILE # Blank
  /\ WellFormed(tools)

Build ==
  /\ boot = "loaded"
  /\ Buildable
  /\ boot' = "serving"
  /\ reg' = NewRegistry(tools)
  /\ document' = Scopes(NewRegistry(tools))
  /\ UNCHANGED <<env, repairs, reported, cfg, tools, requestVars>>

BuildFails ==
  /\ boot = "loaded"
  /\ ~ Buildable
  /\ boot' = "broken"
  /\ UNCHANGED <<env, repairs, reported, cfg, tools, reg, document, requestVars>>

-----------------------------------------------------------------------------
(* The response: statusRecorder over net/http's ResponseWriter, which sends *)
(* the first final status it is told, or 200 if it is told none.            *)

\* An informational status (1xx) goes out ahead of the response.
Final(status) == status >= 200

Committed(e, status) == [e EXCEPT !.sent = IF @ = 0 /\ Final(status) THEN status ELSE @]

Hastened(e, hasty) == [e EXCEPT !.early = @ \/ (hasty /\ e.sent = 0)]

\* MUTANT of WriteHeader: the last status is kept, net/http sends the first.
WriteHeaderAgain(e, status) ==
  LET noted == [e EXCEPT !.status = status, !.written = TRUE]
  IN Committed(Hastened(noted, ~ Final(status)), status)

WriteHeader(e, status) ==
  LET noted == [e EXCEPT !.status = IF e.written THEN @ ELSE status, !.written = TRUE]
  IN Committed(Hastened(noted, ~ Final(status)), status)

Write(e) == Committed([e EXCEPT !.written = TRUE], 200)

\* The recorder is not told of what a flush commits.
Flush(e) == Committed(Hastened(e, TRUE), 200)

Answer(e, status, body) ==
  [Write(WriteHeader(e, status)) EXCEPT !.at = "returned", !.body = body]

-----------------------------------------------------------------------------
(* The log: an entry below LOG_LEVEL is dropped.                           *)

Becomes(q, e) == ex' = [ex EXCEPT ![q] = e] /\ UNCHANGED <<startVars, readable>>

Logs(entry) ==
  log' = log \cup {l \in {entry} : Severity[l.level] >= Severity[cfg.LOG_LEVEL]}

LogsReason(q, what, level) ==
  Logs([of |-> q, what |-> what, level |-> level, status |-> 0, subject |-> Nobody])

\* MUTANT of LevelOf: only a plain 500 is the server's fault.
LevelOfOnly500(status) ==
  IF status = 500 THEN "error" ELSE IF status >= 400 THEN "warn" ELSE "info"

LevelOf(status) ==
  IF status >= 500 THEN "error" ELSE IF status >= 400 THEN "warn" ELSE "info"

\* RequestLogger, once the handler has returned; then net/http, which answers 200
\* for whoever wrote nothing.
LogRequest(q) ==
  /\ ex[q].at = "returned"
  /\ Becomes(q, [Committed(ex[q], 200) EXCEPT !.at = "done"])
  /\ Logs([of |-> q, what |-> "request", level |-> LevelOf(ex[q].status),
           status |-> ex[q].status, subject |-> ex[q].who])

-----------------------------------------------------------------------------
(* The routes without a credential: probes, metadata, anything else.       *)

Receive(q, route, cred) ==
  /\ boot = "serving"
  /\ ex[q].at = "idle"
  /\ Becomes(q, NewExchange(route, cred))
  /\ UNCHANGED log

Arrived(q, routes) == ex[q].at = "received" /\ ex[q].route \in routes

\* /healthz checks nothing.
Health(q) ==
  /\ Arrived(q, {"/healthz"})
  /\ Becomes(q, Answer(ex[q], 200, "fixed"))
  /\ UNCHANGED log

\* The notes in memory can always be listed.
Usable == readable \cup {s \in {"notes"} : cfg.NOTES_STORE = "memory"}

\* The checks are a map: they run in any order, one after the other.
CheckPasses(q) ==
  /\ Arrived(q, {"/readyz"})
  /\ \E s \in Usable \ ex[q].passed : Becomes(q, [ex[q] EXCEPT !.passed = @ \cup {s}])
  /\ UNCHANGED log

\* MUTANT of CheckFails: the loop goes on after a failed check.
CheckFailsAndRetries(q) ==
  /\ Arrived(q, {"/readyz"})
  /\ Store \ (Usable \cup ex[q].passed) # {}
  /\ LogsReason(q, "checkFailed", "warn")
  /\ Becomes(q, ex[q])

CheckFails(q) ==
  /\ Arrived(q, {"/readyz"})
  /\ \E s \in Store \ (Usable \cup ex[q].passed) :
       Becomes(q, [Answer(ex[q], 503, "notReady") EXCEPT !.failed = {s}])
  /\ LogsReason(q, "checkFailed", "warn")

\* MUTANT of Ready: the first check that passes is enough.
ReadyAfterOne(q) ==
  /\ Arrived(q, {"/readyz"})
  /\ ex[q].passed # {}
  /\ Becomes(q, Answer(ex[q], 200, "ready"))
  /\ UNCHANGED log

Ready(q) ==
  /\ Arrived(q, {"/readyz"})
  /\ ex[q].passed = Store
  /\ Becomes(q, Answer(ex[q], 200, "ready"))
  /\ UNCHANGED log

\* The SDK's handler encodes the document and sets no status.
Metadata(q) ==
  /\ Arrived(q, {"metadata"})
  /\ Becomes(q, [Write(ex[q]) EXCEPT !.at = "returned", !.body = "fixed"])
  /\ UNCHANGED log

NotFound(q) ==
  /\ Arrived(q, {"unknown"})
  /\ Becomes(q, Answer(ex[q], 404, "fixed"))
  /\ UNCHANGED log

-----------------------------------------------------------------------------
(* /mcp, up to the handler: RequireAuth and Verifier.                      *)

\* The SDK's middleware finds no bearer token and does not ask the Verifier.
NoBearer(q) ==
  /\ Arrived(q, Mcp)
  /\ ex[q].cred = "none"
  /\ Becomes(q, Answer(ex[q], 401, "unauthenticated"))
  /\ UNCHANGED log

Refusable(q) ==
  /\ Arrived(q, Mcp)
  /\ ex[q].cred = "malformed" \/ (ex[q].cred = "dead" /\ "users" \in readable)

\* MUTANT of VerifierRejects: the refusal does not match ErrInvalidToken, and the
\* middleware takes it for a failure.
VerifierRejectsUnmarked(q) ==
  /\ Refusable(q)
  /\ Becomes(q, Answer(ex[q], 500, "failed"))
  /\ LogsReason(q, "authRejected", "info")

VerifierRejects(q) ==
  /\ Refusable(q)
  /\ Becomes(q, Answer(ex[q], 401, "unauthenticated"))
  /\ LogsReason(q, "authRejected", "info")

VerifierFails(q) ==
  /\ Arrived(q, Mcp)
  /\ ex[q].cred \notin {"none", "malformed"}
  /\ "users" \notin readable
  /\ Becomes(q, Answer(ex[q], 500, "failed"))
  /\ LogsReason(q, "authFailed", "error")

\* recordSubject for the log, and the TokenInfo for the handlers.
VerifierAccepts(q) ==
  /\ Arrived(q, Mcp)
  /\ ex[q].cred \in Subject
  /\ "users" \in readable
  /\ Becomes(q, [ex[q] EXCEPT !.at = "handling", !.who = ex[q].cred,
                              !.principal = {ex[q].cred}])
  /\ UNCHANGED log

\* The middleware looks at the expiry in the TokenInfo too, with a later clock: the
\* credential may have been accepted just before.
ExpiresMeanwhile(q) ==
  /\ Arrived(q, Mcp)
  /\ ex[q].cred \in Subject
  /\ "users" \in readable
  /\ Becomes(q, [Answer(ex[q], 401, "unauthenticated") EXCEPT !.who = ex[q].cred])
  /\ UNCHANGED log

-----------------------------------------------------------------------------
(* /mcp, behind RequireAuth.                                               *)

Handling(q) == ex[q].at = "handling"

\* The SDK takes a Host that is not loopback, on a loopback connection, for DNS
\* rebinding, unless DisableLocalhostProtection is set.
RefuseHost(q) ==
  /\ Handling(q) /\ ex[q].sent = 0 /\ ~ ex[q].written /\ ex[q].body = "none"
  /\ ~ PubliclyAddressed(cfg)
  /\ Becomes(q, Answer(ex[q], 403, "refusedHost"))
  /\ UNCHANGED log

\* One message of a request is dispatched; what it comes to is in the body.
Dispatch(q) == Handling(q) /\ ex[q].route = "/mcp" /\ ex[q].body = "none"

Results(q, body) == Becomes(q, [ex[q] EXCEPT !.body = body])

\* tools/list, filtered by filterListedTools.
List(q) ==
  /\ Dispatch(q)
  /\ \E subject \in ex[q].principal :
       LET kept == ToSet(ListTools(reg, subject))
       IN Becomes(q, [ex[q] EXCEPT !.body = "tools", !.listed = {t.name : t \in kept}])
  /\ UNCHANGED log

\* The SDK has a handler for every registered name and for no other.
CallUnknown(q, name) ==
  /\ Dispatch(q)
  /\ Lookup(reg, name) = {}
  /\ Results(q, "toolNotFound")
  /\ UNCHANGED log

CallForbidden(q, name) ==
  /\ Dispatch(q)
  /\ \E subject \in ex[q].principal, t \in Lookup(reg, name) : ~ Allow(subject, t.scope)
  /\ Results(q, "forbidden")
  /\ LogsReason(q, "callForbidden", "info")

Authorized(q, name) ==
  /\ Dispatch(q)
  /\ \E subject \in ex[q].principal, t \in Lookup(reg, name) : Allow(subject, t.scope)

\* The tool succeeds, or fails in a way the model can act on: a result either way.
CallAnswers(q, name) ==
  /\ Authorized(q, name)
  /\ Results(q, "ok")
  /\ UNCHANGED log

\* Any other error of a tool: the client is told nothing of it.
CallFails(q, name) ==
  /\ Authorized(q, name)
  /\ Results(q, "internalError")
  /\ LogsReason(q, "callFailed", "error")

\* The statuses a transport may name: early hints, a success, a client's fault.
Naming == {103, 200, 404}

\* What the transport does with the ResponseWriter it was given, in any order.
TransportWrites(q) ==
  /\ Handling(q)
  /\ \/ \E status \in Naming : Becomes(q, WriteHeader(ex[q], status))
     \/ Becomes(q, Write(ex[q]))
     \/ Becomes(q, Flush(ex[q]))
  /\ UNCHANGED log

TransportReturns(q) ==
  /\ Handling(q)
  /\ Becomes(q, [ex[q] EXCEPT !.at = "returned"])
  /\ UNCHANGED log

\* A handler panics: RequestLogger does not get to its line, and net/http recovers
\* and cuts the connection.
Panic(q) ==
  /\ Handling(q)
  /\ Becomes(q, [NewExchange(ex[q].route, ex[q].cred) EXCEPT !.at = "panicked"])
  /\ UNCHANGED log

-----------------------------------------------------------------------------

\* A file is broken by hand or cannot be read, or can be read again.
Disturb ==
  /\ boot = "serving"
  /\ \E s \in Store \ {t \in {"notes"} : cfg.NOTES_STORE = "memory"} :
       readable' = IF s \in readable THEN readable \ {s} ELSE readable \cup {s}
  /\ UNCHANGED <<startVars, ex, log>>

Call(q, name) ==
  \/ CallUnknown(q, name) \/ CallForbidden(q, name)
  \/ CallAnswers(q, name) \/ CallFails(q, name)

\* What the code of this repository, and the SDK on its behalf, must get done.
Serve(q) ==
  \/ LogRequest(q)
  \/ Health(q) \/ CheckPasses(q) \/ CheckFails(q) \/ Ready(q)
  \/ Metadata(q) \/ NotFound(q)
  \/ NoBearer(q) \/ VerifierRejects(q) \/ VerifierFails(q) \/ VerifierAccepts(q)
  \/ ExpiresMeanwhile(q)
  \/ List(q) \/ \E name \in Name : Call(q, name)
  \/ ex[q].route = "/mcp" /\ TransportReturns(q)

Start == LoadConfig \/ ConfigFails \/ Repair \/ Build \/ BuildFails

Step(q) ==
  \/ \E sent \in Sends[q] : Receive(q, sent[1], sent[2])
  \/ Serve(q)
  \/ RefuseHost(q) \/ TransportWrites(q) \/ Panic(q)
  \/ ex[q].route = "mcpStream" /\ TransportReturns(q)

\* What each probe in progress could see in the state a step leads to.
Witness ==
  LET probing(q) == ex'[q].at = "received" /\ ex'[q].route = "/readyz"
  IN /\ up' = [q \in Request |-> IF probing(q) THEN up[q] \cup Usable' ELSE up[q]]
     /\ down' = [q \in Request |->
                   IF probing(q) THEN down[q] \cup (Store \ Usable') ELSE down[q]]

Next == (Start \/ Disturb \/ \E q \in Request : Step(q)) /\ Witness

\* Handlers are goroutines of a scheduler that is fair, and the SDK answers a
\* request that is not a stream once it was dispatched.
Fairness == \A q \in Request : WF_vars(Serve(q) /\ Witness)

Spec == Init /\ [][Next]_vars
FairSpec == Spec /\ Fairness

-----------------------------------------------------------------------------

\* The line of a finished request names the status that was sent, however often
\* a status or a body was written, unless a flush or an informational status came
\* first: Flush does not tell the recorder of the 200 it commits, and WriteHeader
\* keeps a 1xx for the response's.  Whoever else is served at the same time, the
\* line names nobody but the owner of the credential presented, and names them if
\* a handler was run for them (statusRecorder and caller in logging.go).
LogIsTrue ==
  \A l \in log : l.what = "request" =>
    /\ ex[l.of].at = "done" => l.status = ex[l.of].sent \/ ex[l.of].early
    /\ l.subject \in {Nobody, ex[l.of].cred}
    /\ ex[l.of].principal \subseteq {l.subject}

\* At every LOG_LEVEL an operator finds an error in the log for whatever was the
\* server's fault, an error inside a successful exchange included, and at level
\* error for nothing else (the levels of logging.go, auth.go and mcp.go).
FaultsAreLogged ==
  \A q \in Request : ex[q].at = "done" =>
    ((\E l \in log : l.of = q /\ l.level = "error")
       <=> ex[q].sent >= 500 \/ ex[q].body = "internalError")

\* A request refused for the credential it presented has its reason in the log,
\* if rejections are logged at all, unless the credential was good and expired
\* meanwhile, which shows in the subject of its line; a reason is only logged of a
\* request that was refused; a failure is logged as one and never answered as a
\* refusal (Verifier, rejected and the SDK's choice between 401 and 500).
RejectionIsExplained ==
  \A q \in Request : ex[q].at = "done" =>
    LET entry(what) == \E l \in log : l.of = q /\ l.what = what
    IN /\ entry("authRejected") => ex[q].sent = 401 /\ ex[q].who = Nobody
       /\ ex[q].sent = 401 /\ ex[q].cred # "none" /\ cfg.LOG_LEVEL \in {"debug", "info"} =>
            entry("authRejected") \/ ex[q].who # Nobody
       /\ entry("authFailed") <=> ex[q].route \in Mcp /\ ex[q].sent = 500

\* The checks of a probe run one after the other, so "ready" cannot mean that all
\* stores could be used at one time; but each could at some time since the probe
\* arrived, and a store that a probe blames could not (ReadyHandler).
ProbeIsTrue ==
  \A q \in Request :
    /\ ex[q].body = "ready" => up[q] = Store
    /\ ex[q].failed \subseteq down[q]

\* The metadata document and the authorizer agree: a client that holds every
\* scope the document advertises is never refused a tool and is listed all of
\* them, and each advertised scope is good for something (Registry.Scopes).
DiscoverySuffices ==
  /\ \A q \in Request : \A subject \in ex[q].principal :
       document \subseteq Holds[subject] =>
         /\ ex[q].body # "forbidden"
         /\ ex[q].body = "tools" => ex[q].listed = ToSet(reg.order)
  /\ \A scope \in document : \E t \in ToSet(tools) : t.scope = scope

\* Load reports everything at once: an operator who corrects what was reported,
\* and nothing else, has a configuration that is accepted; and what Load accepts
\* Build can use, whatever the stores asked for.
ConfigIsComplete ==
  /\ boot = "refused" => repairs = 0
  /\ boot = "broken" => ~ WellFormed(tools)

\* Every request that is not a stream gets an end, however the stores come and go.
EveryRequestEnds ==
  \A q \in Request :
    ex[q].at # "idle" /\ ex[q].route # "mcpStream" ~> ex[q].at \in {"done", "panicked"}

===============================================================================
