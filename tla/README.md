# A formal model of mcpskeleton

mcpskeleton is an MCP server over streamable HTTP: it authenticates bearer tokens
against a JSON file of users, lists and runs tools according to the scopes of the
token, and keeps notes for its users. This directory models its stateful parts in
TLA+, checks them with TLC on small instances, and proves the most important facts
with TLAPS for every instance. Paths below are relative to the
repository.

## The system

| component | state | operations |
|---|---|---|
| users-file store, `internal/adapter/out/auth/local/store.go` | the JSON file (users, enabled flags, token hashes with scopes and expiry); a mutex per `Store` | `FindByTokenHash`, `Users`, `IssueToken`, `CreateUser`, `RevokeToken`, over `load` and `save` |
| authenticator, `authenticator.go`, `token.go` | none | `Authenticate`: format, lookup, enabled, expiry |
| bearer middleware, `adapter/in/http/auth.go` | the principal in a request's context | `Verifier` (401 or 500), `PrincipalFromContext`, `RequireAuth` |
| MCP endpoint, `adapter/in/http/mcp.go` | one shared `mcp.Server`; the SDK's sessions | `filterListedTools`, `toolHandler`, `protocolError` |
| core, `core/service.go`, `registry.go`, `authorizer.go` | an immutable registry | `ListTools`, `CallTool`, `Lookup`, `Allow` |
| tools, `adapter/tool`, `internal/registry` | none | `echo`, `notes_add`, `notes_list` behind the typed helper |
| in-memory notes, `adapter/out/notes/memory` | a map behind an RWMutex | `Add`, `List` |
| file notes, `adapter/out/notes/file` | a JSON file, a mutex | `Add`, `List`, over `load` and `save` |
| lifecycle, `internal/app/app.go`, `cmd/mcpskeleton/main.go` | the signal context, the listener, the channel `errs` | `main`, `Build`, `Serve`, shutdown |
| command line, `cmd/mcpskeleton/token.go` | none: each command is a process with a `Store` of its own | `token issue`, `list`, `revoke`, `user list` |
| access log, `adapter/in/http/logging.go` | a `statusRecorder` and a holder for the caller, per request | `RequestLogger`, `WriteHeader`, `Write`, `Flush`, `recordSubject` |
| probes, `adapter/in/http/health.go` | none | `HealthHandler`; `ReadyHandler`, which lists the users and the notes |
| metadata, `adapter/in/http/metadata.go` | the document, made once by `Build` | `MetadataHandler` |
| configuration, `internal/config` | none: the environment is read once | `Load`, `PubliclyAddressed` |

How they interact. A request goes through the access log, `RequireAuth` (which
reads the users file), the SDK's transport (which pins a session to the subject that
opened it), the core `Service` (lookup, then scope), and a tool, which may call a
notes store. Nothing is cached between requests. The command line changes the same
users file from other processes; only `rename` makes that safe for readers, and
nothing makes it safe for two writers. The operator also edits the file by hand.

What is hard: interleaved load-change-save cycles inside and across processes;
failures and crashes between the steps of a save; the time between reading the file,
reading the clock and acting on the principal; two places that decide what a token
may do (the list and the call); locks released on every path; a log that has to be true
of responses written by somebody else's code; and a shutdown in which a signal, a
failing listener, streams that never end and a timer race. `PROJECT.json`
lists each hazard at its line with the properties that cover it.

## The modules

**Users file.**

- `UsersDocument` is the pure part: documents, the effect of every operation on them,
  calls and results. A token id stands for the three values minted together (public
  id, secret, SHA-256 of the secret), a grant for scopes and expiry.
- `UsersFile` is the store step by step. `Begin` is a call; `Acquire` is `s.mu.Lock`;
  `FindByTokenHash`, `Users`, `IssueToken`, `CreateUser`, `RevokeToken` and their
  refusals are the part of each method from `load` to `save` or return;
  `WriteTemp`, `SyncTemp`, `Rename` and `SaveFails` are `save`; `Return` is the
  deferred `Unlock` and the answer. Threads belong to processes by `StoreOf`, so the
  same module describes one process with many goroutines, a server beside a CLI, and
  two CLIs. The environment kills processes (`Crash`), edits the file (`Edit...`),
  writes the directory back (`Flush`) and loses power (`PowerLoss`). `issued`, `asked`
  and `revoked` are histories of what callers were told.
- `CredentialStore` is what the store promises: each call takes effect at one instant
  or not at all. `UsersFileRefinement` states that `UsersFile` implements it; the
  mapping hides lock, draft, temporary file and the progress of a save.
- `MCUsersFile` holds the small deployments, `UsersFileProofs` the theorems.

**Requests.** `RequestPath` follows a request: `RefuseFormat`, `LookupFinds`,
`LookupFindsNothing`, `LookupFails`, `RefuseDisabled`, `RefuseExpired` and `Accept` are
the branches of `Authenticate` and `Verifier`; `OpenSession` and `RefuseSession` are the
transport; `ListTools`, `Call...`, `Execute...`, `Echo`, `AddNote` and `ListNotes` are
the middleware, the service and the tools. Around it the operator issues, revokes,
disables and breaks, the clock ticks and the server restarts. The file lookup and the
reading of the clock are separate steps, and so are the authorization and the effect
of a call. Each operation on the users file is one step here, which the refinement of
`CredentialStore` justifies. `wasLive` and `wasDead` are histories; when a credential
is in force they take from its expiry (`InForce`) and not from `IsExpired`, so that the
instant of the expiry itself is checked too.

**Notes.** `NotesData` holds notes, calls and answers, `NoteStore` the abstract port.
`MemoryNotes` (an append is a read and a write; the note is stamped before the lock)
and `FileNotes` (load, change, save through a temporary file, with failures, crashes,
power losses and slips of an editor) each contain the refinement mapping to the port.
`kept` in the port is what a power loss falls back to: no earlier than what was last
written back. `MCFileNotes` adds the symmetry of owners and threads.

**The HTTP front.** `HttpFront` is the server around the core, on two pure modules:

- `Config` is `Load`: every variable with its default, all problems found at once.
- `Registry` is `NewRegistry` with its panics, `Lookup`, `All`, `Scopes` and the
  service's `Allow` and `ListTools`, as functions of the list of tools.
- `HttpFront`. `LoadConfig`, `ConfigFails`, `Build` and `BuildFails` are the start, with
  an operator (`Repair`) who corrects what was reported. `WriteHeader`, `Write` and
  `Flush` are the `statusRecorder`, over a `ResponseWriter` that sends the first final
  status it is told (`Committed`, `Final`); `LogRequest` is what `RequestLogger` does when the handler
  has returned, and `Logs` drops what is below `LOG_LEVEL`. `Health`, `CheckPasses`,
  `CheckFails`, `Ready`, `Metadata` and `NotFound` are the open routes. `NoBearer`,
  `Verifier...` and `ExpiresMeanwhile` are `RequireAuth` as the client and the log see
  it; `RefuseHost`, `List`, `Call...` the MCP handler; `Transport...` and `Panic` what
  the SDK may do with the response. `Disturb` makes a store's file unreadable or
  readable again. `up` and `down` are histories of what a probe in progress could see;
  `early` is one of a response: a flush or an informational status came before any final
  one.
- `MCHttpFront` has the instance.

`RequestPath` and `HttpFront` overlap on purpose: the first follows one credential
through the users file, and knows nothing of statuses and logs; the second takes
the fate of a credential as given and follows the response.

**Lifetimes.** `TokenTTL` is `parseTTL` and the part of `tokenIssue` that uses it, with
durations of a fixed width (`Wrap`); `TokenTTLProofs` says when they are exact.

The theorems about a module `M` are in `MProofs`. `Sublists` has the one list function
the code needs: the elements of a list that qualify, in order, which is what the loops
compute that append to their result (the notes of an owner in `FileNotes`, the tools for
a caller in `Registry`); `SublistsProofs` has the lemmas about it.

**Lifecycle.** `Lifecycle` has the main goroutine (`Main`), the goroutine that runs
`http.Server.Serve` (`Accepting`, `ServeFails`, `ServeEnds`), the handlers
(`Arrive`, `Answer`, `Abandon`), the timer (`GraceEnds`) and the operator's signals.

Not part of the repository, and modelled only as the code relies on it: the MCP SDK
(the principal in the context is that of the request at hand; `UserID` pins sessions;
a listed or called name is a registered one; its middleware answers 401 for
`ErrInvalidToken` and 500 otherwise, and refuses a `TokenInfo` past its `Expiration`; its
transport writes, flushes and names 103, 200 or 404 in any order and as often as it
likes, but names no 5xx, which is what lets a 500 on `/mcp` stand for a failed
authentication), `net/http` (`Shutdown` closes the listener and waits for active requests;
`Serve` then returns `ErrServerClosed`; the first final status written is the one sent,
1xx go ahead of it, and a body or a flush without a status sends 200), the file system (`rename` is atomic; the data of a synced file is on disk) and the kernel.

## The runs

| run | what it asks | bounds |
|---|---|---|
| `users_one_writer` | Do two goroutines of one process lose an update, undo a revocation or re-enable a user; is the store atomic? | 2 writers, 1 user, 2 credentials, 1 crash, 2 edits |
| `users_server_reads` | Do readers in another process see whole documents through saves and power losses; does every call return? | 2 readers, 1 writer, 1 credential, 1 power loss |
| `users_two_clis` | Violated: is a reported revocation final when two CLIs run at once? | 2 processes, 2 credentials |
| `requests` | Is nobody accepted or refused wrongly, no note without authority, no offered tool refused? | 1 request at a time, 2 users, 2 credentials, 2 grants, clock 0..1, 1 note, 1 slip, 1 restart |
| `requests_in_flight` | Violated: does a revocation stop a request in flight? | the same |
| `notes_memory`, `notes_file` | Do the adapters keep the port's promise; are no notes lost; is the order kept; do calls return? | 2 threads, 2 owners, 3 adds, clock 0..1, 1 crash; in the file adapter also 1 slip, 1 power loss |
| `http_front` | Are the log, the probes, the advertised scopes and the answers true of what happened; does a report of the configuration name every problem; does every request end? | 2 requests, 2 subjects, 2 scopes, 3 tool lists, environments with up to 4 mistakes, 2 repairs |
| `token_ttl` | Violated: is a lifetime that was accepted positive? | durations of 13 bits, an hour of 10 units, up to 40 days |
| `shutdown` | Does a signal always end the process, with every goroutine done and an honest exit code? | 3 requests, one of them a stream, 2 signals |
| `shutdown_second_signal`, `shutdown_in_flight` | Violated: does a second signal kill; do requests get the grace? | 1 request |

Why the bounds are enough to meet the cases. Two writers give every overlap of two
load-change-save cycles; a third repeats one of them. Two credentials are what a lost
update takes: one to be written, one to be lost. One crash or power loss can fall
between any two steps, and the state after it is again one a fresh start could have.
Two edits make a user disabled and another operation race with it, or break the file
and repair it. In `requests` the requests share nothing but the sessions, the notes
and the files, and one request thread that serves one request after another meets all
of them; concurrency there is between a request and the operator. One clock tick
crosses the only expiry there is. Three adds give two notes of one owner around a note
of another. In `http_front` requests share nothing but the log and the readability
of the stores: the first request is of any kind but a stream and goes through every
branch, and the second, a refused or a streaming one, is what could be mistaken for it in
the log. The
stores may change state any number of times. Two repairs are one more than a complete
report needs. In `token_ttl` the smallest number of days that overflows is 18 in place of
106752. Constants named `Max...` are the bounds on counters.

Deadlock is checked in every run but two: `http_front` ends when each request was sent
once and answered, and `token_ttl` when the command has. In `shutdown` a process that
is gone stutters (`Gone`).

Fairness. In `UsersFile` and `MemoryNotes` a runnable goroutine proceeds (WF), and a
lock that is free again and again is obtained (SF): Go's scheduler is preemptive,
`sync.Mutex` hands the lock to a waiter that has starved for a millisecond, and
`sync.RWMutex` lets a waiting writer in before later readers. Callers, failures,
crashes and the operator have no fairness. In `Lifecycle` goroutines are scheduled and
the timer fires; no fairness makes a stream end, a client send or a signal come. In
`HttpFront` a request that was received is served (`Serve`: its goroutine is scheduled,
and the SDK answers a message that is not a stream once it was dispatched); the stores,
the transport's writes, streams and the client have no fairness.

### What the violated runs show

- *Two command lines* (`users_two_clis`). `token issue` loads; `token revoke` in another
  process loads, saves and prints that the credential "stops working on the next
  request" (`cmd/mcpskeleton/token.go:145-146`); the first process then renames its
  older document, with the revoked record in it, over the file. The file notes adapter
  says that it does not coordinate processes; the users store does not say so, and its
  normal use is from several.
- *In flight* (`requests_in_flight`). A request authenticated before a revocation
  writes its note after it, although `store.go:71-73` promises "no window". The next
  request is refused.
- *Lifetime* (`token_ttl`). `parseTTL` refuses what is not positive, but checks the number
  of days and not the `Duration` made of it: from 106752 days on the product wraps, and
  `token issue --ttl 106752d` prints a credential that has expired already.
- *Second signal* (`shutdown_second_signal`). `stop` is only deferred, so the second
  signal does not reach the default handler as `main.go:19-21` says.
- *Grace* (`shutdown_in_flight`). `BaseContext` makes every request's context a child
  of the one the signal cancels, which is what `app.go:186-188` wants to avoid for the
  shutdown itself. Handlers that ignore their context, as the tools in the repository
  do, still finish.

### What `LogIsTrue` leaves out

The line of a request can name a status that was not sent, and `LogIsTrue` excepts the
two orders in which it does, by the history `early`. `Flush` (`logging.go:116-120`)
commits a 200 and leaves `written` unset: a status named after it is logged, while the
client has a 200. `WriteHeader` (`logging.go:100-106`) takes the first status it is told
for the response's, also a 1xx, which `net/http` sends ahead of the response. The model
takes both orders, and without the exception TLC finds both: an accepted request whose
transport names 103 and returns (200 is sent, the line says 103), or flushes, names 404
and returns (200 is sent, the line says 404). Whether the line is at level error is right
even then, as long as no 5xx is named, so `FaultsAreLogged` needs no exception.

## What is proved

Each theorem holds for every value of the constants: any number of threads, processes,
users, tokens, requests, notes and faults. TLC checks the same formulas on the instances
above, except the one of `TokenTTL`. Every invariant a passing run checks is a theorem,
and so are the refinements of both abstract specifications.

**Users file** (`UsersFileProofs`).

- `TypeCorrect`: `TypeOK`. Its strengthening `SubjectNamed` says that a thread holding
  the mutex has passed the check for an empty subject; without it a new token might
  have an owner outside `Subject`.
- `FileIsWhole`: `NeverTorn`. The inductive invariant `WholeInv` says that neither the
  file nor the version on disk is torn, that the present version is synced, and that
  a thread about to rename has synced its temporary file.
- `RevocationIsFinal` and `NoUpdateIsLost`: `RevokedStaysRevoked` and `NoLostIssue`,
  under `OneWriterProcess` (all threads that change the file share one `Store`), the
  hypothesis the run `users_two_clis` shows to be needed. Argument: `LockInv` (a thread
  between `Lock` and `Unlock` is the only holder) with `KindInv` (only writers change
  the file) gives `Alone`: at most one thread is between reading the file and renaming
  over it. Hence `SaveInv`: a draft is the update of the file *as it is now*; `DoneInv`:
  a success about to be reported is visible in the file; `MintedInv`: an id that was
  not minted is on no version of the file, so a new token can never revive a revoked
  id. Together with the two properties these form `RecordInv`, which every step keeps.
- `StoreKeepsPromise`: `ImplementsCredentialStore`, under `OneWriterProcess` and
  `~ EditAnytime` (nobody edits the file between a `load` and its `rename`): every call
  is one atomic step, whatever crashes, fails or loses power. The invariant is
  `DraftInv`: a draft and the answer that goes with it are what the abstract operation
  (`Updates`) makes of the file *as it is now*, because no other writer can rename in
  between and no editor does. So `Rename` is the step in which an operation that changes
  the file takes effect, `FindByTokenHash` and `Users` take effect when they have
  loaded, a refusal or failure answers without an effect, and lock, temporary file,
  sync and the waiting calls stutter (`Stutters`). A crash forgets the calls of its
  process, before or after their effect; a power loss falls back to what the promise
  says is kept (`WholeInv` has that version whole).
- `UsersStayDisabled`: `DisabledStaysDisabled`, under the same hypotheses, from the same
  invariant: a draft that is the update of the file as it is has everybody disabled
  whom the file has.

The two properties of the records are stated up to the first power loss, because `save`
does not sync the directory.

**Requests** (`RequestPathProofs`): `AcceptedOnlyLive`, `RefusedOnlyDead`,
`NotesNeedAuthority` and `OfferedIsAllowed`, from one invariant `Inv` whose parts are

- `GrantInv`: everything on file was issued, and an id belongs to one issued token (the
  secrets are 256 random bits; ids stand for them). So what was found for a credential
  and what is on file for it now are the same token, or nothing;
- `WhoInv`: match and principal of a request are tokens with the id it presented;
- `ExpiredIsOver`: `IsExpired` is what the histories mean by a credential out of force;
- `MatchInv`: between the lookup and the look at the clock, a match with an enabled user
  was live at some time since the arrival or has expired by now. This is what makes the
  order of the two reads harmless: an expiry in between is seen (`ExpiredForGood`), and
  one that is not seen leaves an instant at which everything was in order;
- `AuthInv`: past authentication the credential was live, past authorization the
  principal has the scope; `AnswerInv`: every refusal and every list of notes has its
  reason (`Justified`);
- `ShownInv`, `NoteInv`: a listed tool and a stored note go back to a token with the scope.

The proof goes by the shape of a step: answers (`Answered`), moves of one request
(`MoveKeepsInv`), and the operator and the clock (`AdminKeepsInv`), which all leave the
other requests `Undisturbed`.

**In-memory notes** (`MemoryNotesProofs`): `TypeCorrect`, and `MemoryKeepsPort`, which is
`ImplementsNoteStore`. `LockInv` says that a writer excludes everybody and a reader every
writer; `CallInv` that a stamped note is the note of the thread's call; `SliceInv` that
the slice an append has read is still what the owner has, so that the write takes
nobody's note away and is the atomic step of the port. The time of a note is drawn
before the lock, and the port allows it to be earlier than that of the note before.

**File notes** (`FileNotesProofs`): `FileIsWhole`, `NotesAreKept`, `FileInOrder`. As in the
users file, `LockInv` makes the thread that saves the only one; `WholeInv` is about what
is synced; `SaveInv` says that a draft is the file as it is now with one note more,
`DoneInv` that a note about to be acknowledged is in the file, `OrderInv` that no stamp
in file or draft is ahead of the clock, so that the next one may be appended.
`NotesAreKept` is up to the first power loss, and includes a file broken by hand: `load`
refuses it and nothing is saved over it. `TypeCorrect` adds the answers of `List`, and
`FileKeepsPort` is `ImplementsNoteStore`, without hypotheses: the port's list of an owner
is the `Sublist` of the file, and `SublistAppend` makes the rename that adds one note to
the file the step that appends it to its owner's list and to no other. `AnswerInv` says
that the answer of a thread that saves is the note of its call.

**HTTP front** (`HttpFrontProofs`), for any tools, scopes, subjects, settings, requests and
any behaviour of the SDK within what is assumed of it. One invariant `Inv` with the parts

- `ConfigInv`, `BuildInv`: what a start reported, and that what serves is the registry
  of a well-formed list of tools with its scopes in the document;
- `ExchangeInv`: `Recorded` (unless a flush or an informational status came first, the
  recorder has the status that was sent; if one did, neither status is a fault of the
  server, which the level of the line rests on), `Known` (who may be in the holder and in the context), `Told` (which
  answers go with which status, route and credential);
- `LogInv`, `LoggedInv`: every entry is true of its request, and what has to be logged
  of an answer is there; both are needed, for "exactly the faults are in the log";
- `ProbeInv`: what a probe in progress has seen was so since it arrived.

It gives `TypeCorrect`, `LogSound` (`LogIsTrue`), `FaultsLogged` (`FaultsAreLogged`),
`RejectionExplained` (`RejectionIsExplained`), `ProbeSound` (`ProbeIsTrue`) and
`DiscoverySound` (`DiscoverySuffices`); the last needs that the list of tools for a
caller leaves none out which `Allow` would let him call (`SublistRange`). `ConfigSound`
(`ConfigIsComplete`) holds because `Load` reports every problem at once and a default is
always accepted. The proof treats a step as one request's (`OneRequest`): the others
keep their exchange, and their entries in the log.

**Lifecycle** (`LifecycleProofs`): `TypeCorrect`, `FailureReported`, `GoroutineCollected`,
`CleanExit`. `ServeInv` and `ErrsInv` say that the goroutine sends exactly one message, as
its last act, and which one: `Serve` in `app.go` therefore never waits for a message that
does not come and never leaves one behind. `DrainInv` says that nothing arrives
once `Shutdown` has closed the listener, so that what it waited for was everything.

**Lifetimes** (`TokenTTLProofs`): `FittingLifetimesAreExact`. Whatever the width of a
`Duration`, a credential lives exactly as long as was asked for, as long as the product
fits; the run `token_ttl` shows what happens when it does not.

The assumptions are those declared in the modules: types of the constants, bounds are
natural numbers, a malformed credential is no token id, and

- the empty subject is no subject: `CreateUser` and `IssueToken` refuse it
  (`auth/local/store.go`). A user without a name put into the file by hand is outside;
- the lists of tools the front may be built with are lists of `Tool` (nameless tools and
  duplicate names included: `NewRegistry` is there to refuse them);
- a variable of the environment is blank, or has a value its parser accepts, or, if it is
  one of the four that `Load` checks (`Checked`), a value it refuses;
- four theorems about the users file have the hypotheses named above, which are about the
  deployment and not about the code; `users_two_clis` shows what happens without the
  first.

Sublists. `Sublist` is a recursive function over the positions of a list. Its lemmas
(its type, its elements, what appending does to it) rest on `Induction` in
`SublistsProofs`, which is stated for a set of numbers and proved from the least-number
principle, so that the prover does not have to instantiate an operator.

Only model-checked: liveness (`EveryCallReturns`, `EveryRequestEnds`,
`SignalEndsProcess`), which like `ENABLED` is out of the prover's reach, and the
counterexamples of the violated runs. What `parseTTL` makes of a product that does not
fit is computed by TLC only.

## What is not modelled

The order of users and tokens in the file, their timestamps and user ids; duplicate
subjects, scopes and expiries changed by hand; hashing and base64 (a credential is its id); the text of
answers, the wording of logs, request ids and durations; argument schemas (the typed
helper accepts or refuses, and `echo` and `notes_add` refuse by their own bounds: either
is an answer the model can act on); the constant fields of the metadata document; the
syntax of flags, URLs, addresses and levels (a value is accepted or not); the branches
for a request without a caller, which nothing reaches behind `RequireAuth`.
What a handler that panicked had done is not followed: `RequestLogger` writes no line.
The conformance suite for note stores (`notes/notestest`) is test code.
Left-over temporary files are not followed: nothing reads them.

## Plan

Order of work: users file first, because every request depends on it; then the request
path, the notes stores, the lifecycle, the HTTP front and the lifetimes. Done: the
modules and the proofs above. To come:

1. The typed helper's order of checks (absent, not JSON, against the schema, decoded)
   as functions against the published schema.
2. Further proofs: that each operation of `RequestPath` on the users file is one the
   promise of `CredentialStore` allows, which is argued in words above.
