---------------------------- MODULE HttpFrontProofs ----------------------------
(***************************************************************************)
(* Theorems about the HTTP server, for any tools, scopes, subjects and     *)
(* settings, and any number of requests: what its log says is true, what   *)
(* is its own fault is in the log, its probes and its metadata document    *)
(* can be relied on, and its complaints about the environment are complete.*)
(***************************************************************************)
EXTENDS HttpFront, SublistsProofs

\* What a start complains about, and what a correction cures.
ConfigInv ==
  /\ cfg.LOG_LEVEL \in DOMAIN Severity
  /\ boot = "refused" => reported = Problems(env) /\ repairs = 0
  /\ boot = "down" /\ repairs # 0 => Problems(env) = {}
  /\ boot = "loaded" =>
       /\ cfg.USERS_FILE # Blank
       /\ cfg.NOTES_STORE = "file" => cfg.NOTES_FILE # Blank
  /\ boot = "broken" => ~ WellFormed(tools)

\* Requests are served with the registry of the tools, and its document.
BuildInv ==
  /\ boot = "serving" =>
       WellFormed(tools) /\ reg = NewRegistry(tools) /\ document = Scopes(NewRegistry(tools))
  /\ boot # "serving" =>
       reg = NoRegistry /\ document = {} /\ \A q \in Request : ex[q] = NoExchange

\* Unless a flush or an informational status came first, the recorder has the status
\* that was sent, and knows that one was; in any case it blames nobody wrongly.
Recorded(e) ==
  /\ ~ e.early /\ e.sent = 0 => ~ e.written /\ e.status = 200
  /\ ~ e.early /\ e.sent # 0 => e.status = e.sent /\ (e.at = "handling" => e.written)
  /\ e.early => e.status < 500 /\ e.sent < 500 /\ (e.sent = 0 => e.written)
  /\ e.at \in {"idle", "received"} => ~ e.early

\* The caller is whoever presented the credential.
Known(e) ==
  /\ e.who \in {Nobody, e.cred}
  /\ e.principal \subseteq {e.who}
  /\ e.at \in {"idle", "received"} => e.who = Nobody /\ e.principal = {}

\* What the status and the body of a response say of one another.
Told(e) ==
  /\ e.body \in {"failed", "notReady"} <=> e.sent >= 500
  /\ e.body = "failed" <=> e.sent = 500
  /\ e.body = "unauthenticated" <=> e.sent = 401
  /\ e.at \in {"idle", "received"} => e.sent = 0 /\ e.body = "none" /\ e.failed = {}
  /\ e.at = "handling" =>
       /\ e.route \in Mcp /\ e.cred \in Subject /\ e.sent \in {0, 200, 404}
       /\ e.body \notin {"refusedHost", "ready", "notReady", "fixed"}
  /\ e.body = "failed" => e.route \in Mcp

ExchangeInv == \A q \in Request : Recorded(ex[q]) /\ Known(ex[q]) /\ Told(ex[q])

\* What an entry in the log says of its request.
EntryTrue(l, e) ==
  /\ e.at \notin {"idle", "received"}
  /\ l.what = "request" =>
       e.at = "done" /\ (l.status = e.sent \/ e.early) /\ l.subject = e.who
  /\ l.what = "authRejected" =>
       e.at \in {"returned", "done"} /\ e.sent = 401 /\ e.who = Nobody
  /\ l.what = "authFailed" => e.at \in {"returned", "done"} /\ e.body = "failed"
  /\ l.level = "error" =>
       \/ e.at = "panicked"
       \/ e.body \in {"failed", "internalError"}
       \/ e.at = "done" /\ e.sent >= 500

LogInv == \A l \in log : EntryTrue(l, ex[l.of])

HasEntry(q, what) == \E l \in log : l.of = q /\ l.what = what
HasError(q) == \E l \in log : l.of = q /\ l.level = "error"

\* What must have been logged of a request.
LoggedOf(q) ==
  /\ ex[q].body = "failed" => HasEntry(q, "authFailed")
  /\ \/ ex[q].body \in {"failed", "internalError"}
     \/ ex[q].at = "done" /\ ex[q].sent >= 500
     => HasError(q)
  /\ ex[q].body = "unauthenticated" /\ ex[q].cred # "none" /\ cfg.LOG_LEVEL \in {"debug", "info"} =>
       HasEntry(q, "authRejected") \/ ex[q].who # Nobody

LoggedInv == \A q \in Request : LoggedOf(q)

\* What a probe in progress has seen.
ProbeInv ==
  \A q \in Request :
    /\ ex[q].at = "received" /\ ex[q].route = "/readyz" =>
         ex[q].passed \subseteq up[q] /\ Usable \subseteq up[q] /\ Store \ Usable \subseteq down[q]
    /\ ex[q].body = "ready" => up[q] = Store
    /\ ex[q].failed \subseteq down[q]

Inv ==
  /\ TypeOK /\ ConfigInv /\ BuildInv /\ ExchangeInv /\ LogInv /\ LoggedInv /\ ProbeInv
  /\ DiscoverySuffices

-----------------------------------------------------------------------------
(* Data.                                                                    *)

\* The levels of the log, in order.
LEMMA SeverityFacts ==
  /\ DOMAIN Severity = {"debug", "info", "warn", "error"}
  /\ \A level \in DOMAIN Severity : Severity[level] \in 0 .. 3
  /\ Severity["error"] = 3 /\ Severity["warn"] = 2
  /\ Severity["info"] = 1 /\ Severity["debug"] = 0
  BY DEF Severity

\* An entry is dropped or added; an error is never dropped.
LEMMA LogsFacts ==
  ASSUME cfg.LOG_LEVEL \in DOMAIN Severity, NEW entry, entry.level \in DOMAIN Severity, Logs(entry)
  PROVE  /\ log' = log \/ log' = log \cup {entry}
         /\ entry.level = "error" => log' = log \cup {entry}
         /\ entry.level = "info" /\ cfg.LOG_LEVEL \in {"debug", "info"} => log' = log \cup {entry}
<1> DEFINE kept == {l \in {entry} : Severity[l.level] >= Severity[cfg.LOG_LEVEL]}
<1>1. kept = {} \/ kept = {entry}
  OBVIOUS
<1>2. entry.level = "error" => kept = {entry}
  BY SeverityFacts
<1>3. entry.level = "info" /\ cfg.LOG_LEVEL \in {"debug", "info"} => kept = {entry}
  BY SeverityFacts
<1>4. log' = log \cup kept
  BY DEF Logs
<1> QED
  BY <1>1, <1>2, <1>3, <1>4

\* What is sent first is kept, and nothing informational is.
LEMMA CommittedFacts ==
  ASSUME NEW e \in Exchange, NEW s \in Nat
  PROVE  LET f == Committed(e, s) IN
         /\ f \in Exchange
         /\ f.sent = (IF e.sent = 0 /\ s >= 200 THEN s ELSE e.sent)
         /\ f.at = e.at /\ f.status = e.status /\ f.written = e.written /\ f.body = e.body
         /\ f.route = e.route /\ f.cred = e.cred /\ f.who = e.who /\ f.principal = e.principal
         /\ f.passed = e.passed /\ f.failed = e.failed /\ f.listed = e.listed
         /\ f.early = e.early
<1>1. PICK t \in Nat : t = (IF e.sent = 0 /\ s >= 200 THEN s ELSE e.sent)
  BY DEF Exchange
<1>2. PICK f : f = [e EXCEPT !.sent = t]
  OBVIOUS
<1>3. f = Committed(e, s)
  BY <1>1, <1>2 DEF Committed, Final
<1>4. f \in Exchange
  BY <1>2 DEF Exchange
<1>5. /\ f.sent = t
      /\ f.at = e.at /\ f.status = e.status /\ f.written = e.written /\ f.body = e.body
      /\ f.route = e.route /\ f.cred = e.cred /\ f.who = e.who /\ f.principal = e.principal
      /\ f.passed = e.passed /\ f.failed = e.failed /\ f.listed = e.listed
      /\ f.early = e.early
  BY <1>2 DEF Exchange
<1> QED
  BY <1>1, <1>3, <1>4, <1>5

\* What comes before any final status came early.
LEMMA HastenedFacts ==
  ASSUME NEW e \in Exchange, NEW hasty \in BOOLEAN
  PROVE  LET f == Hastened(e, hasty) IN
         /\ f \in Exchange
         /\ f.early <=> e.early \/ (hasty /\ e.sent = 0)
         /\ f.at = e.at /\ f.status = e.status /\ f.written = e.written /\ f.body = e.body
         /\ f.route = e.route /\ f.cred = e.cred /\ f.who = e.who /\ f.principal = e.principal
         /\ f.passed = e.passed /\ f.failed = e.failed /\ f.listed = e.listed
         /\ f.sent = e.sent
<1>1. PICK t \in BOOLEAN : t = (e.early \/ (hasty /\ e.sent = 0))
  BY DEF Exchange
<1>2. PICK f : f = [e EXCEPT !.early = t]
  OBVIOUS
<1>3. f = Hastened(e, hasty)
  BY <1>1, <1>2 DEF Hastened
<1>4. f \in Exchange
  BY <1>2 DEF Exchange
<1>5. /\ f.early = t
      /\ f.at = e.at /\ f.status = e.status /\ f.written = e.written /\ f.body = e.body
      /\ f.route = e.route /\ f.cred = e.cred /\ f.who = e.who /\ f.principal = e.principal
      /\ f.passed = e.passed /\ f.failed = e.failed /\ f.listed = e.listed
      /\ f.sent = e.sent
  BY <1>2 DEF Exchange
<1> QED
  BY <1>1, <1>3, <1>4, <1>5

\* Writing without a status sends 200, unless a status was sent.
LEMMA WriteFacts ==
  ASSUME NEW e \in Exchange
  PROVE  LET f == Write(e) IN
         /\ f \in Exchange
         /\ f.written /\ f.sent = (IF e.sent = 0 THEN 200 ELSE e.sent) /\ f.early = e.early
         /\ f.at = e.at /\ f.status = e.status /\ f.body = e.body
         /\ f.route = e.route /\ f.cred = e.cred /\ f.who = e.who /\ f.principal = e.principal
         /\ f.passed = e.passed /\ f.failed = e.failed /\ f.listed = e.listed
<1>1. PICK d : d = [e EXCEPT !.written = TRUE]
  OBVIOUS
<1>2. d \in Exchange
  BY <1>1 DEF Exchange
<1>3. /\ d.written /\ d.sent = e.sent /\ d.at = e.at /\ d.status = e.status /\ d.body = e.body
      /\ d.route = e.route /\ d.cred = e.cred /\ d.who = e.who /\ d.principal = e.principal
      /\ d.passed = e.passed /\ d.failed = e.failed /\ d.listed = e.listed /\ d.early = e.early
  BY <1>1 DEF Exchange
<1>4. Write(e) = Committed(d, 200)
  BY <1>1 DEF Write
<1> QED
  BY <1>2, <1>3, <1>4, CommittedFacts

\* A flush sends 200, unless a status was sent, and leaves the recorder as it was.
LEMMA FlushFacts ==
  ASSUME NEW e \in Exchange
  PROVE  LET f == Flush(e) IN
         /\ f \in Exchange
         /\ f.sent = (IF e.sent = 0 THEN 200 ELSE e.sent)
         /\ f.early <=> e.early \/ e.sent = 0
         /\ f.at = e.at /\ f.status = e.status /\ f.written = e.written /\ f.body = e.body
         /\ f.route = e.route /\ f.cred = e.cred /\ f.who = e.who /\ f.principal = e.principal
         /\ f.passed = e.passed /\ f.failed = e.failed /\ f.listed = e.listed
<1>0. PICK hasty \in BOOLEAN : hasty = TRUE /\ hasty
  OBVIOUS
<1>1. PICK d \in Exchange :
        /\ d = Hastened(e, hasty)
        /\ d.early <=> e.early \/ (hasty /\ e.sent = 0)
        /\ d.at = e.at /\ d.status = e.status /\ d.written = e.written /\ d.body = e.body
        /\ d.route = e.route /\ d.cred = e.cred /\ d.who = e.who /\ d.principal = e.principal
        /\ d.passed = e.passed /\ d.failed = e.failed /\ d.listed = e.listed
        /\ d.sent = e.sent
  BY HastenedFacts
<1>2. Flush(e) = Committed(d, 200)
  BY <1>0, <1>1 DEF Flush
<1>3. PICK f \in Exchange :
        /\ f = Committed(d, 200)
        /\ f.sent = (IF d.sent = 0 THEN 200 ELSE d.sent)
        /\ f.at = d.at /\ f.status = d.status /\ f.written = d.written /\ f.body = d.body
        /\ f.route = d.route /\ f.cred = d.cred /\ f.who = d.who /\ f.principal = d.principal
        /\ f.passed = d.passed /\ f.failed = d.failed /\ f.listed = d.listed
        /\ f.early = d.early
  BY CommittedFacts
<1>4. d.early <=> e.early \/ e.sent = 0
  BY <1>0, <1>1
<1>5. f.early <=> e.early \/ e.sent = 0
  BY <1>3, <1>4
<1> QED
  BY <1>1, <1>2, <1>3, <1>5

\* The first final status that is written is sent, the first of all is kept.
LEMMA WriteHeaderFacts ==
  ASSUME NEW e \in Exchange, NEW s \in Nat
  PROVE  LET f == WriteHeader(e, s) IN
         /\ f \in Exchange
         /\ f.written /\ f.sent = (IF e.sent = 0 /\ s >= 200 THEN s ELSE e.sent)
         /\ f.status = (IF e.written THEN e.status ELSE s)
         /\ f.early <=> e.early \/ (s < 200 /\ e.sent = 0)
         /\ f.at = e.at /\ f.body = e.body
         /\ f.route = e.route /\ f.cred = e.cred /\ f.who = e.who /\ f.principal = e.principal
         /\ f.passed = e.passed /\ f.failed = e.failed /\ f.listed = e.listed
<1>0. PICK t \in Nat : t = (IF e.written THEN e.status ELSE s)
  BY DEF Exchange
<1>1. PICK d : d = [e EXCEPT !.status = t, !.written = TRUE]
  OBVIOUS
<1>2. d \in Exchange
  BY <1>1 DEF Exchange
<1>3. /\ d.written /\ d.sent = e.sent /\ d.at = e.at /\ d.status = t /\ d.body = e.body
      /\ d.route = e.route /\ d.cred = e.cred /\ d.who = e.who /\ d.principal = e.principal
      /\ d.passed = e.passed /\ d.failed = e.failed /\ d.listed = e.listed /\ d.early = e.early
  BY <1>1 DEF Exchange
<1>4. PICK hasty \in BOOLEAN : hasty = ~ Final(s)
  OBVIOUS
<1>8. hasty <=> s < 200
  <2>1. hasty <=> ~ Final(s)
    BY <1>4, Zenon
  <2> QED
    BY <2>1 DEF Final
<1>5. PICK h \in Exchange :
        /\ h = Hastened(d, hasty)
        /\ h.early <=> d.early \/ (hasty /\ d.sent = 0)
        /\ h.at = d.at /\ h.status = d.status /\ h.written = d.written /\ h.body = d.body
        /\ h.route = d.route /\ h.cred = d.cred /\ h.who = d.who /\ h.principal = d.principal
        /\ h.passed = d.passed /\ h.failed = d.failed /\ h.listed = d.listed
        /\ h.sent = d.sent
  BY <1>2, HastenedFacts
<1>6. WriteHeader(e, s) = Committed(h, s)
  BY <1>0, <1>1, <1>4, <1>5 DEF WriteHeader
<1>7. PICK f \in Exchange :
        /\ f = Committed(h, s)
        /\ f.sent = (IF h.sent = 0 /\ s >= 200 THEN s ELSE h.sent)
        /\ f.at = h.at /\ f.status = h.status /\ f.written = h.written /\ f.body = h.body
        /\ f.route = h.route /\ f.cred = h.cred /\ f.who = h.who /\ f.principal = h.principal
        /\ f.passed = h.passed /\ f.failed = h.failed /\ f.listed = h.listed
        /\ f.early = h.early
  BY CommittedFacts
<1> QED
  BY <1>0, <1>3, <1>5, <1>6, <1>7, <1>8

\* A first answer sends its status, and the recorder keeps it.
LEMMA AnswerFacts ==
  ASSUME NEW e \in Exchange, e.sent = 0, ~ e.written, ~ e.early,
         NEW s \in Nat, s >= 200, NEW b \in Body
  PROVE  LET f == Answer(e, s, b) IN
         /\ f \in Exchange
         /\ f.at = "returned" /\ f.status = s /\ f.sent = s /\ f.body = b /\ ~ f.early
         /\ f.route = e.route /\ f.cred = e.cred /\ f.who = e.who /\ f.principal = e.principal
         /\ f.passed = e.passed /\ f.failed = e.failed /\ f.listed = e.listed
<1>1. PICK c \in Exchange :
        /\ c = WriteHeader(e, s)
        /\ c.sent = s /\ c.status = s /\ ~ c.early
        /\ c.route = e.route /\ c.cred = e.cred /\ c.who = e.who /\ c.principal = e.principal
        /\ c.passed = e.passed /\ c.failed = e.failed /\ c.listed = e.listed
  BY WriteHeaderFacts
<1>2. PICK d \in Exchange :
        /\ d = Write(c)
        /\ d.sent = s /\ d.status = s /\ ~ d.early
        /\ d.route = e.route /\ d.cred = e.cred /\ d.who = e.who /\ d.principal = e.principal
        /\ d.passed = e.passed /\ d.failed = e.failed /\ d.listed = e.listed
  BY <1>1, WriteFacts
<1>3. PICK f : f = [d EXCEPT !.at = "returned", !.body = b]
  OBVIOUS
<1>4. f = Answer(e, s, b)
  BY <1>1, <1>2, <1>3 DEF Answer
<1>5. f \in Exchange
  BY <1>3 DEF Exchange
<1>6. /\ f.at = "returned" /\ f.body = b /\ f.sent = d.sent /\ f.status = d.status
      /\ f.route = d.route /\ f.cred = d.cred /\ f.who = d.who /\ f.principal = d.principal
      /\ f.passed = d.passed /\ f.failed = d.failed /\ f.listed = d.listed
      /\ f.early = d.early
  BY <1>3 DEF Exchange
<1> QED
  BY <1>2, <1>4, <1>5, <1>6

\* A new exchange.
LEMMA NewExchangeFacts ==
  ASSUME NEW route \in Route, NEW cred \in Credential
  PROVE  \E e \in Exchange :
           /\ e = NewExchange(route, cred)
           /\ e.at = "received" /\ e.status = 200 /\ e.sent = 0 /\ ~ e.written /\ e.body = "none"
           /\ e.route = route /\ e.cred = cred /\ e.who = Nobody /\ e.principal = {}
           /\ e.passed = {} /\ e.failed = {} /\ ~ e.early
<1>1. NewExchange(route, cred) \in Exchange
  BY DEF NewExchange, Exchange, Body
<1>2. PICK e : e = NewExchange(route, cred)
  OBVIOUS
<1>3. /\ e.at = "received" /\ e.status = 200 /\ e.sent = 0 /\ ~ e.written /\ e.body = "none"
      /\ e.route = route /\ e.cred = cred /\ e.who = Nobody /\ e.principal = {}
      /\ e.passed = {} /\ e.failed = {} /\ ~ e.early
  BY <1>2 DEF NewExchange
<1> QED
  BY <1>1, <1>2, <1>3

\* No exchange.
LEMMA NoExchangeFacts ==
  /\ NoExchange \in Exchange
  /\ NoExchange.at = "idle" /\ NoExchange.status = 200 /\ NoExchange.sent = 0
  /\ ~ NoExchange.written /\ NoExchange.body = "none" /\ NoExchange.who = Nobody
  /\ NoExchange.principal = {} /\ NoExchange.failed = {} /\ ~ NoExchange.early
<1>1. "unknown" \in Route /\ "none" \in Credential
  BY DEF Route, Credential
<1>2. PICK e \in Exchange :
        /\ e = NewExchange("unknown", "none")
        /\ e.status = 200 /\ e.sent = 0 /\ ~ e.written /\ e.body = "none"
        /\ e.who = Nobody /\ e.principal = {} /\ e.failed = {} /\ ~ e.early
  BY <1>1, NewExchangeFacts
<1>3. PICK f : f = [e EXCEPT !.at = "idle"]
  OBVIOUS
<1>4. f = NoExchange
  BY <1>2, <1>3 DEF NoExchange
<1>5. f \in Exchange
  BY <1>3 DEF Exchange
<1>6. /\ f.at = "idle" /\ f.status = e.status /\ f.sent = e.sent /\ f.written = e.written
      /\ f.early = e.early /\ f.body = e.body /\ f.who = e.who /\ f.principal = e.principal
      /\ f.failed = e.failed
  BY <1>3 DEF Exchange
<1> QED
  BY <1>2, <1>4, <1>5, <1>6

-----------------------------------------------------------------------------
(* What a step of one request must show.                                    *)

\* Usable stores are stores.
LEMMA UsableType == TypeOK => Usable \subseteq Store
  BY DEF TypeOK, Usable, Store

\* The history of the probes keeps its type, grows, and takes in what can be seen now.
LEMMA WitnessFacts ==
  ASSUME TypeOK, Witness, Usable' \subseteq Store, NEW q \in Request
  PROVE  /\ up' \in [Request -> SUBSET Store] /\ down' \in [Request -> SUBSET Store]
         /\ up[q] \subseteq up'[q] /\ down[q] \subseteq down'[q]
         /\ ex'[q].at = "received" /\ ex'[q].route = "/readyz" =>
              Usable' \subseteq up'[q] /\ Store \ Usable' \subseteq down'[q]
  BY DEF TypeOK, Witness

\* A step of the request q turns its exchange into e and adds entries of its own to the log.
LEMMA OneRequest ==
  ASSUME Inv, Witness, boot = "serving", UNCHANGED <<startVars, readable>>,
         NEW q \in Request, NEW e \in Exchange, ex' = [ex EXCEPT ![q] = e],
         log \subseteq log', log' \subseteq Entry, \A l \in log' \ log : l.of = q,
         \A l \in log' : l.of = q => EntryTrue(l, e),
         Recorded(e), Known(e), Told(e), LoggedOf(q)',
         e.at = "received" /\ e.route = "/readyz" => e.passed \subseteq up[q] \cup Usable,
         e.body = "ready" => up[q] = Store,
         e.failed \subseteq down[q],
         \A subject \in e.principal :
            document \subseteq Holds[subject] =>
              /\ e.body # "forbidden"
              /\ e.body = "tools" => e.listed = ToSet(reg.order)
  PROVE  Inv'
<1>0. /\ TypeOK /\ ex'[q] = e /\ \A r \in Request \ {q} : ex'[r] = ex[r]
      /\ Usable' = Usable /\ Usable \subseteq Store
  BY UsableType DEF Inv, TypeOK, Usable, startVars
<1>1. TypeOK'
  <2>1. ex' \in [Request -> Exchange] /\ log' \subseteq Entry
    BY DEF Inv, TypeOK
  <2>2. up' \in [Request -> SUBSET Store] /\ down' \in [Request -> SUBSET Store]
    BY <1>0, WitnessFacts
  <2> QED
    BY <1>0, <2>1, <2>2 DEF TypeOK, startVars
<1>2. ConfigInv'
  BY DEF Inv, ConfigInv, startVars
<1>3. BuildInv'
  BY DEF Inv, BuildInv, startVars
<1>4. ExchangeInv'
  BY <1>0 DEF Inv, ExchangeInv
<1>5. LogInv'
  <2> SUFFICES ASSUME NEW l \in log' PROVE EntryTrue(l, ex'[l.of])
    BY DEF LogInv
  <2>1. l.of \in Request
    BY <1>1 DEF TypeOK, Entry
  <2>2. CASE l.of = q
    BY <1>0, <2>2
  <2>3. CASE l.of # q
    BY <1>0, <2>1, <2>3 DEF Inv, LogInv
  <2> QED
    BY <2>2, <2>3
<1>6. LoggedInv'
  <2> SUFFICES ASSUME NEW r \in Request, r # q PROVE LoggedOf(r)'
    BY DEF LoggedInv
  <2>1. LoggedOf(r) /\ ex'[r] = ex[r] /\ cfg' = cfg /\ log \subseteq log'
    BY <1>0 DEF Inv, LoggedInv, startVars
  <2> QED
    BY <2>1 DEF LoggedOf, HasEntry, HasError
<1>7. ProbeInv'
  <2> SUFFICES ASSUME NEW r \in Request
               PROVE  (/\ ex[r].at = "received" /\ ex[r].route = "/readyz" =>
                            /\ ex[r].passed \subseteq up[r]
                            /\ Usable \subseteq up[r] /\ Store \ Usable \subseteq down[r]
                       /\ ex[r].body = "ready" => up[r] = Store
                       /\ ex[r].failed \subseteq down[r])'
    BY DEF ProbeInv
  <2>1. /\ up[r] \subseteq up'[r] /\ down[r] \subseteq down'[r] /\ up'[r] \subseteq Store
        /\ ex'[r].at = "received" /\ ex'[r].route = "/readyz" =>
             Usable' \subseteq up'[r] /\ Store \ Usable' \subseteq down'[r]
    BY <1>0, <1>1, WitnessFacts DEF TypeOK
  <2>2. CASE r = q
    BY <1>0, <2>1, <2>2
  <2>3. CASE r # q
    BY <1>0, <2>1, <2>3 DEF Inv, ProbeInv
  <2> QED
    BY <2>2, <2>3
<1>8. DiscoverySuffices'
  BY <1>0 DEF Inv, DiscoverySuffices, startVars
<1> QED
  BY <1>1, <1>2, <1>3, <1>4, <1>5, <1>6, <1>7, <1>8 DEF Inv

-----------------------------------------------------------------------------
(* A request is received and answered without a handler.                    *)

\* Requests are received by a server that serves.
LEMMA Serving ==
  ASSUME Inv, NEW q \in Request, ex[q].at # "idle"
  PROVE  boot = "serving"
  BY NoExchangeFacts DEF Inv, BuildInv

\* Of a request that has just arrived nothing is known, and nothing was done.
LEMMA ArrivedFacts ==
  ASSUME Inv, NEW q \in Request, ex[q].at \in {"idle", "received"}
  PROVE  /\ ex[q] \in Exchange
         /\ ex[q].status = 200 /\ ex[q].sent = 0 /\ ~ ex[q].written /\ ex[q].body = "none"
         /\ ex[q].who = Nobody /\ ex[q].principal = {} /\ ex[q].failed = {} /\ ~ ex[q].early
         /\ \A l \in log : l.of # q
<1>1. ex[q] \in Exchange
  BY DEF Inv, TypeOK
<1>2. Recorded(ex[q]) /\ Known(ex[q]) /\ Told(ex[q])
  BY DEF Inv, ExchangeInv
<1>3. ex[q].sent = 0 /\ ex[q].body = "none" /\ ex[q].failed = {}
  BY <1>2 DEF Told
<1>4. ex[q].who = Nobody /\ ex[q].principal = {}
  BY <1>2 DEF Known
<1>5. ex[q].status = 200 /\ ~ ex[q].written /\ ~ ex[q].early
  BY <1>2, <1>3 DEF Recorded
<1>6. \A l \in log : l.of # q
  BY DEF Inv, LogInv, EntryTrue
<1> QED
  BY <1>1, <1>3, <1>4, <1>5, <1>6

\* The answers that are given without a handler.
FirstAnswer(d, e) ==
  /\ e.at = "returned"
  /\ e.route = d.route /\ e.cred = d.cred
  /\ e.principal = {} /\ e.who \in {Nobody, e.cred}
  /\ e.status = e.sent /\ ~ e.early
  /\ \/ e.body = "fixed" /\ e.sent \in {200, 404}
     \/ e.body = "ready" /\ e.sent = 200
     \/ e.body = "notReady" /\ e.sent = 503
     \/ e.body = "unauthenticated" /\ e.sent = 401
     \/ e.body = "failed" /\ e.sent = 500 /\ e.route \in Mcp

\* Such an answer, with the entries it makes, keeps the invariant.
LEMMA FirstAnswerInv ==
  ASSUME Inv, Witness, NEW q \in Request, ex[q].at = "received", UNCHANGED <<startVars, readable>>,
         NEW e \in Exchange, ex' = [ex EXCEPT ![q] = e], FirstAnswer(ex[q], e),
         log \subseteq log', log' \subseteq Entry,
         \A l \in log' \ log : l.of = q /\ EntryTrue(l, e),
         LoggedOf(q)', e.body = "ready" => up[q] = Store, e.failed \subseteq down[q]
  PROVE  Inv'
<1>1. boot = "serving" /\ \A l \in log : l.of # q
  BY Serving, ArrivedFacts
<1>2. Recorded(e)
  BY DEF FirstAnswer, Recorded
<1>3. Known(e)
  BY DEF FirstAnswer, Known
<1>4. Told(e)
  BY DEF FirstAnswer, Told
<1>5. /\ e.at = "returned" /\ e.principal = {}
      /\ \A l \in log' \ log : l.of = q
      /\ \A l \in log' : l.of = q => EntryTrue(l, e)
  BY <1>1 DEF FirstAnswer
<1>6. /\ e.at = "received" /\ e.route = "/readyz" => e.passed \subseteq up[q] \cup Usable
      /\ \A subject \in e.principal :
            document \subseteq Holds[subject] =>
              /\ e.body # "forbidden"
              /\ e.body = "tools" => e.listed = ToSet(reg.order)
  BY <1>5
<1>7. boot = "serving"
  BY <1>1
<1> QED
  BY <1>2, <1>3, <1>4, <1>5, <1>6, <1>7, OneRequest

\* The request arrives.
LEMMA ReceiveInv ==
  ASSUME Inv, Witness, NEW q \in Request, NEW route \in Route, NEW cred \in Credential,
         Receive(q, route, cred)
  PROVE  Inv'
<1>1. PICK e \in Exchange :
        /\ e = NewExchange(route, cred)
        /\ e.at = "received" /\ e.status = 200 /\ e.sent = 0 /\ ~ e.written /\ e.body = "none"
        /\ e.who = Nobody /\ e.principal = {} /\ e.passed = {} /\ e.failed = {} /\ ~ e.early
  BY NewExchangeFacts
<1>2. boot = "serving" /\ UNCHANGED <<startVars, readable>> /\ ex' = [ex EXCEPT ![q] = e]
  BY <1>1 DEF Receive, Becomes
<1>3. ex'[q] = e
  BY <1>2 DEF Inv, TypeOK
<1>4. Recorded(e) /\ Known(e) /\ LoggedOf(q)'
  BY <1>1, <1>3 DEF Recorded, Known, LoggedOf
<1>5. Told(e)
  BY <1>1 DEF Told
<1>6. \A l \in log : l.of # q
  BY ArrivedFacts DEF Receive
<1>7. log' = log /\ log \subseteq Entry
  BY DEF Receive, Inv, TypeOK
<1>8. /\ log \subseteq log' /\ log' \subseteq Entry /\ \A l \in log' \ log : l.of = q
      /\ \A l \in log' : l.of = q => EntryTrue(l, e)
  BY <1>6, <1>7
<1>9. /\ e.at = "received" /\ e.route = "/readyz" => e.passed \subseteq up[q] \cup Usable
      /\ e.body = "ready" => up[q] = Store
      /\ e.failed \subseteq down[q]
      /\ \A subject \in e.principal :
            document \subseteq Holds[subject] =>
              /\ e.body # "forbidden"
              /\ e.body = "tools" => e.listed = ToSet(reg.order)
  BY <1>1
<1> QED
  BY <1>2, <1>4, <1>5, <1>8, <1>9, OneRequest

\* The answers of which no reason is logged.
LEMMA QuietAnswerInv ==
  ASSUME Inv, Witness, NEW q \in Request,
         Health(q) \/ Ready(q) \/ Metadata(q) \/ NotFound(q) \/ NoBearer(q) \/ ExpiresMeanwhile(q)
  PROVE  Inv'
<1>1. ex[q].at = "received" /\ log' = log /\ log \subseteq Entry
  BY DEF Inv, TypeOK, Health, Ready, Metadata, NotFound, NoBearer, ExpiresMeanwhile, Arrived
<1>2. /\ ex[q] \in Exchange /\ ex[q].status = 200 /\ ex[q].sent = 0 /\ ~ ex[q].written
      /\ ex[q].who = Nobody /\ ex[q].principal = {} /\ ex[q].failed = {} /\ ~ ex[q].early
  BY <1>1, ArrivedFacts
<1>3. PICK e \in Exchange :
        /\ Becomes(q, e) /\ FirstAnswer(ex[q], e) /\ e.failed = {}
        /\ e.body \in {"fixed", "ready", "unauthenticated"}
        /\ e.body = "ready" => Ready(q)
        /\ e.body = "unauthenticated" => e.cred = "none" \/ (e.cred \in Subject /\ e.who = e.cred)
  <2>1. CASE Health(q)
    <3> DEFINE e == Answer(ex[q], 200, "fixed")
    <3>1. Becomes(q, e)
      BY <2>1 DEF Health
    <3>2. e \in Exchange /\ FirstAnswer(ex[q], e) /\ e.failed = {} /\ e.body = "fixed"
      BY <1>2, AnswerFacts DEF Body, FirstAnswer
    <3> HIDE DEF e
    <3> QED
      BY <3>1, <3>2
  <2>2. CASE Ready(q)
    <3> DEFINE e == Answer(ex[q], 200, "ready")
    <3>1. Becomes(q, e)
      BY <2>2 DEF Ready
    <3>2. e \in Exchange /\ FirstAnswer(ex[q], e) /\ e.failed = {} /\ e.body = "ready"
      BY <1>2, AnswerFacts DEF Body, FirstAnswer
    <3> HIDE DEF e
    <3> QED
      BY <2>2, <3>1, <3>2
  <2>3. CASE Metadata(q)
    <3>2. PICK f \in Exchange :
            /\ f = Write(ex[q])
            /\ f.status = 200 /\ f.sent = 200 /\ f.route = ex[q].route /\ f.cred = ex[q].cred
            /\ f.who = Nobody /\ f.principal = {} /\ f.failed = {} /\ ~ f.early
      BY <1>2, WriteFacts
    <3>3. PICK e : e = [f EXCEPT !.at = "returned", !.body = "fixed"]
      OBVIOUS
    <3>4. e \in Exchange
      BY <3>3 DEF Exchange, Body
    <3>5. FirstAnswer(ex[q], e) /\ e.failed = {} /\ e.body = "fixed"
      BY <3>2, <3>3 DEF Exchange, FirstAnswer
    <3>6. Becomes(q, e)
      BY <2>3, <3>2, <3>3 DEF Metadata
    <3> QED
      BY <3>4, <3>5, <3>6
  <2>4. CASE NotFound(q)
    <3> DEFINE e == Answer(ex[q], 404, "fixed")
    <3>1. Becomes(q, e)
      BY <2>4 DEF NotFound
    <3>2. e \in Exchange /\ FirstAnswer(ex[q], e) /\ e.failed = {} /\ e.body = "fixed"
      BY <1>2, AnswerFacts DEF Body, FirstAnswer
    <3> HIDE DEF e
    <3> QED
      BY <3>1, <3>2
  <2>5. CASE NoBearer(q)
    <3> DEFINE e == Answer(ex[q], 401, "unauthenticated")
    <3>1. Becomes(q, e) /\ ex[q].cred = "none"
      BY <2>5 DEF NoBearer
    <3>2. /\ e \in Exchange /\ FirstAnswer(ex[q], e) /\ e.failed = {}
          /\ e.body = "unauthenticated" /\ e.cred = ex[q].cred
      BY <1>2, AnswerFacts DEF Body, FirstAnswer
    <3> HIDE DEF e
    <3> QED
      BY <3>1, <3>2
  <2>6. CASE ExpiresMeanwhile(q)
    <3> DEFINE f == Answer(ex[q], 401, "unauthenticated")
               e == [f EXCEPT !.who = ex[q].cred]
    <3>1. Becomes(q, e) /\ ex[q].cred \in Subject
      BY <2>6 DEF ExpiresMeanwhile
    <3>2. /\ f \in Exchange /\ f.at = "returned" /\ f.status = 401 /\ f.sent = 401
          /\ f.body = "unauthenticated" /\ f.route = ex[q].route /\ f.cred = ex[q].cred
          /\ f.principal = {} /\ f.failed = {} /\ ~ f.early
      BY <1>2, AnswerFacts DEF Body
    <3> HIDE DEF f
    <3>3. e \in Exchange
      BY <3>1, <3>2 DEF Exchange
    <3>4. /\ FirstAnswer(ex[q], e) /\ e.failed = {}
          /\ e.body = "unauthenticated" /\ e.cred = ex[q].cred /\ e.who = ex[q].cred
      BY <3>2 DEF FirstAnswer, Exchange
    <3> HIDE DEF e
    <3> QED
      BY <3>1, <3>3, <3>4
  <2> QED
    BY <2>1, <2>2, <2>3, <2>4, <2>5, <2>6
<1>4. UNCHANGED <<startVars, readable>> /\ ex' = [ex EXCEPT ![q] = e] /\ ex'[q] = e
  BY <1>3 DEF Becomes, Inv, TypeOK
<1>5. LoggedOf(q)'
  BY <1>3, <1>4, SubjectAssumption DEF LoggedOf, FirstAnswer, Nobody
<1>6. e.body = "ready" => up[q] = Store
  <2> SUFFICES ASSUME Ready(q) PROVE up[q] = Store
    BY <1>3
  <2>1. ex[q].passed = Store /\ ex[q].route = "/readyz"
    BY DEF Ready, Arrived
  <2> QED
    BY <1>1, <2>1 DEF Inv, ProbeInv, TypeOK
<1> QED
  BY <1>1, <1>3, <1>4, <1>5, <1>6, FirstAnswerInv

\* A reason is an entry about its request; an error is always logged, a rejection at
\* the levels that log it.
LEMMA ReasonFacts ==
  ASSUME Inv, NEW q \in Request, NEW what \in Event, NEW level \in DOMAIN Severity,
         LogsReason(q, what, level)
  PROVE  /\ log \subseteq log' /\ log' \subseteq Entry
         /\ \A l \in log' \ log : l.of = q /\ l.what = what /\ l.level = level
         /\ level = "error" \/ (level = "info" /\ cfg.LOG_LEVEL \in {"debug", "info"}) =>
              \E l \in log' : l.of = q /\ l.what = what /\ l.level = level
<1>1. PICK entry :
        entry = [of |-> q, what |-> what, level |-> level, status |-> 0, subject |-> Nobody]
  OBVIOUS
<1>2. entry.of = q /\ entry.what = what /\ entry.level = level
  BY <1>1
<1>3. entry \in Entry
  BY <1>1 DEF Entry
<1>4. Logs(entry) /\ cfg.LOG_LEVEL \in DOMAIN Severity /\ log \subseteq Entry
  BY <1>1 DEF LogsReason, Inv, ConfigInv, TypeOK
<1>5. /\ log' = log \/ log' = log \cup {entry}
      /\ level = "error" => log' = log \cup {entry}
      /\ level = "info" /\ cfg.LOG_LEVEL \in {"debug", "info"} => log' = log \cup {entry}
  BY <1>2, <1>4, LogsFacts
<1>6. log \subseteq log' /\ log' \subseteq Entry
  BY <1>3, <1>4, <1>5
<1>7. \A l \in log' \ log : l.of = q /\ l.what = what /\ l.level = level
  BY <1>2, <1>5
<1>8. level = "error" \/ (level = "info" /\ cfg.LOG_LEVEL \in {"debug", "info"}) =>
        \E l \in log' : l.of = q /\ l.what = what /\ l.level = level
  BY <1>2, <1>5
<1> QED
  BY <1>6, <1>7, <1>8

\* The answers of which a reason is logged.
LEMMA ReasonedAnswerInv ==
  ASSUME Inv, Witness, NEW q \in Request,
         CheckFails(q) \/ VerifierRejects(q) \/ VerifierFails(q)
  PROVE  Inv'
<1>1. ex[q].at = "received"
  BY DEF CheckFails, VerifierRejects, Refusable, VerifierFails, Arrived
<1>2. /\ ex[q] \in Exchange /\ ex[q].status = 200 /\ ex[q].sent = 0 /\ ~ ex[q].written
      /\ ex[q].who = Nobody /\ ex[q].principal = {} /\ ex[q].failed = {} /\ ~ ex[q].early
  BY <1>1, ArrivedFacts
<1>3. CASE CheckFails(q)
  <2>1. PICK s \in Store \ (Usable \cup ex[q].passed) :
          Becomes(q, [Answer(ex[q], 503, "notReady") EXCEPT !.failed = {s}])
    BY <1>3 DEF CheckFails
  <2>2. PICK f \in Exchange :
          /\ f = Answer(ex[q], 503, "notReady")
          /\ f.at = "returned" /\ f.status = 503 /\ f.sent = 503 /\ f.body = "notReady"
          /\ f.route = ex[q].route /\ f.cred = ex[q].cred /\ f.who = Nobody /\ f.principal = {}
          /\ ~ f.early
    BY <1>2, AnswerFacts DEF Body
  <2>3. PICK e : e = [f EXCEPT !.failed = {s}]
    OBVIOUS
  <2>4. /\ e \in Exchange /\ FirstAnswer(ex[q], e)
        /\ e.failed = {s} /\ e.body = "notReady" /\ e.at = "returned"
    BY <2>2, <2>3 DEF Exchange, FirstAnswer
  <2>5. UNCHANGED <<startVars, readable>> /\ ex' = [ex EXCEPT ![q] = e] /\ ex'[q] = e
    BY <2>1, <2>2, <2>3 DEF Becomes, Inv, TypeOK
  <2>6. /\ log \subseteq log' /\ log' \subseteq Entry
        /\ \A l \in log' \ log : l.of = q /\ l.what = "checkFailed" /\ l.level = "warn"
    <3>1. PICK what \in Event, level \in DOMAIN Severity :
            what = "checkFailed" /\ level = "warn" /\ LogsReason(q, what, level)
      BY <1>3, SeverityFacts DEF CheckFails, Event
    <3> QED
      BY <3>1, ReasonFacts
  <2>7. \A l \in log' \ log : l.of = q /\ EntryTrue(l, e)
    BY <2>4, <2>6 DEF EntryTrue
  <2>8. LoggedOf(q)'
    BY <2>4, <2>5 DEF LoggedOf
  <2>9. e.failed \subseteq down[q]
    BY <1>1, <1>3, <2>1, <2>4 DEF Inv, ProbeInv, CheckFails, Arrived
  <2> QED
    BY <1>1, <2>4, <2>5, <2>6, <2>7, <2>8, <2>9, FirstAnswerInv
<1>4. CASE VerifierRejects(q)
  <2>1. PICK e \in Exchange :
          /\ e = Answer(ex[q], 401, "unauthenticated")
          /\ e.at = "returned" /\ e.status = 401 /\ e.sent = 401 /\ e.body = "unauthenticated"
          /\ e.route = ex[q].route /\ e.cred = ex[q].cred /\ e.who = Nobody /\ e.principal = {}
          /\ e.failed = {} /\ ~ e.early
    BY <1>2, AnswerFacts DEF Body
  <2>2. UNCHANGED <<startVars, readable>> /\ ex' = [ex EXCEPT ![q] = e] /\ ex'[q] = e
    BY <1>4, <2>1 DEF VerifierRejects, Becomes, Inv, TypeOK
  <2>3. /\ log \subseteq log' /\ log' \subseteq Entry
        /\ \A l \in log' \ log : l.of = q /\ l.what = "authRejected" /\ l.level = "info"
        /\ cfg.LOG_LEVEL \in {"debug", "info"} =>
             \E l \in log' : l.of = q /\ l.what = "authRejected"
    <3>1. PICK what \in Event, level \in DOMAIN Severity :
            what = "authRejected" /\ level = "info" /\ LogsReason(q, what, level)
      BY <1>4, SeverityFacts DEF VerifierRejects, Event
    <3> QED
      BY <3>1, ReasonFacts
  <2>4. \A l \in log' \ log : l.of = q /\ EntryTrue(l, e)
    BY <2>1, <2>3 DEF EntryTrue
  <2>5. LoggedOf(q)'
    BY <2>1, <2>2, <2>3 DEF LoggedOf, HasEntry, startVars
  <2>6. FirstAnswer(ex[q], e) /\ (e.body = "ready" => up[q] = Store) /\ e.failed \subseteq down[q]
    BY <2>1 DEF FirstAnswer
  <2>7. log \subseteq log' /\ log' \subseteq Entry /\ e \in Exchange
    BY <2>3
  <2> QED
    BY <1>1, <2>2, <2>4, <2>5, <2>6, <2>7, FirstAnswerInv
<1>5. CASE VerifierFails(q)
  <2>1. PICK e \in Exchange :
          /\ e = Answer(ex[q], 500, "failed")
          /\ e.at = "returned" /\ e.status = 500 /\ e.sent = 500 /\ e.body = "failed"
          /\ e.route = ex[q].route /\ e.cred = ex[q].cred /\ e.who = Nobody /\ e.principal = {}
          /\ e.failed = {} /\ ~ e.early
    BY <1>2, AnswerFacts DEF Body
  <2>2. UNCHANGED <<startVars, readable>> /\ ex' = [ex EXCEPT ![q] = e] /\ ex'[q] = e
    BY <1>5, <2>1 DEF VerifierFails, Becomes, Inv, TypeOK
  <2>3. /\ log \subseteq log' /\ log' \subseteq Entry
        /\ \A l \in log' \ log : l.of = q /\ l.what = "authFailed" /\ l.level = "error"
        /\ \E l \in log' : l.of = q /\ l.what = "authFailed" /\ l.level = "error"
    <3>1. PICK what \in Event, level \in DOMAIN Severity :
            what = "authFailed" /\ level = "error" /\ LogsReason(q, what, level)
      BY <1>5, SeverityFacts DEF VerifierFails, Event
    <3> QED
      BY <3>1, ReasonFacts
  <2>4. \A l \in log' \ log : l.of = q /\ EntryTrue(l, e)
    BY <2>1, <2>3 DEF EntryTrue
  <2>5. LoggedOf(q)'
    BY <2>1, <2>2, <2>3 DEF LoggedOf, HasEntry, HasError
  <2>6. FirstAnswer(ex[q], e) /\ (e.body = "ready" => up[q] = Store) /\ e.failed \subseteq down[q]
    BY <1>5, <2>1 DEF FirstAnswer, VerifierFails, Arrived
  <2>7. log \subseteq log' /\ log' \subseteq Entry /\ e \in Exchange
    BY <2>3
  <2> QED
    BY <1>1, <2>2, <2>4, <2>5, <2>6, <2>7, FirstAnswerInv
<1> QED
  BY <1>3, <1>4, <1>5

\* A check passes; the caller is known, and the handler runs.
LEMMA AdmittedInv ==
  ASSUME Inv, Witness, NEW q \in Request, CheckPasses(q) \/ VerifierAccepts(q)
  PROVE  Inv'
<1>1. ex[q].at = "received" /\ log' = log /\ log \subseteq Entry
  BY DEF Inv, TypeOK, CheckPasses, VerifierAccepts, Arrived
<1>2. /\ ex[q] \in Exchange /\ ex[q].status = 200 /\ ex[q].sent = 0 /\ ~ ex[q].written
      /\ ex[q].body = "none" /\ ex[q].who = Nobody /\ ex[q].principal = {} /\ ex[q].failed = {}
      /\ ~ ex[q].early /\ boot = "serving" /\ \A l \in log : l.of # q
  BY <1>1, ArrivedFacts, Serving
<1>3. PICK e \in Exchange :
        /\ Becomes(q, e)
        /\ e.status = 200 /\ e.sent = 0 /\ ~ e.written /\ ~ e.early
        /\ e.body = "none" /\ e.failed = {}
        /\ \/ /\ e.at = "received" /\ e.who = Nobody /\ e.principal = {}
              /\ e.passed \subseteq ex[q].passed \cup Usable /\ e.route = ex[q].route
           \/ /\ e.at = "handling" /\ e.who = e.cred /\ e.principal = {e.cred}
              /\ e.cred \in Subject /\ e.route \in Mcp
  <2>1. CASE CheckPasses(q)
    <3>1. PICK s \in Usable : Becomes(q, [ex[q] EXCEPT !.passed = @ \cup {s}])
      BY <2>1 DEF CheckPasses
    <3>2. PICK e : e = [ex[q] EXCEPT !.passed = @ \cup {s}]
      OBVIOUS
    <3>3. e \in Exchange
      BY <1>2, <3>1, <3>2, UsableType DEF Exchange, Inv
    <3>4. /\ e.status = 200 /\ e.sent = 0 /\ ~ e.written /\ ~ e.early
          /\ e.body = "none" /\ e.failed = {}
          /\ e.at = "received" /\ e.who = Nobody /\ e.principal = {}
          /\ e.passed \subseteq ex[q].passed \cup Usable /\ e.route = ex[q].route
      BY <1>1, <1>2, <3>1, <3>2 DEF Exchange
    <3> QED
      BY <3>1, <3>2, <3>3, <3>4
  <2>2. CASE VerifierAccepts(q)
    <3>1. PICK e : e = [ex[q] EXCEPT !.at = "handling", !.who = ex[q].cred,
                                     !.principal = {ex[q].cred}]
      OBVIOUS
    <3>2. ex[q].cred \in Subject /\ ex[q].route \in Mcp
      BY <2>2 DEF VerifierAccepts, Arrived
    <3>3. e \in Exchange
      <4>1. PICK d \in Exchange : d = ex[q]
        BY <1>2
      <4> QED
        BY <3>1, <3>2, <4>1 DEF Exchange
    <3>4. /\ e.status = 200 /\ e.sent = 0 /\ ~ e.written /\ ~ e.early
          /\ e.body = "none" /\ e.failed = {}
          /\ e.at = "handling" /\ e.who = e.cred /\ e.principal = {e.cred}
          /\ e.cred \in Subject /\ e.route \in Mcp
      BY <1>2, <3>1, <3>2 DEF Exchange
    <3> QED
      BY <2>2, <3>1, <3>3, <3>4 DEF VerifierAccepts
  <2> QED
    BY <2>1, <2>2
<1>4. UNCHANGED <<startVars, readable>> /\ ex' = [ex EXCEPT ![q] = e] /\ ex'[q] = e
  BY <1>3 DEF Becomes, Inv, TypeOK
<1>5. Recorded(e) /\ Known(e)
  BY <1>3 DEF Recorded, Known
<1>6. Told(e)
  BY <1>3 DEF Told
<1>7. LoggedOf(q)'
  BY <1>3, <1>4 DEF LoggedOf
<1>8. /\ e.at = "received" /\ e.route = "/readyz" => e.passed \subseteq up[q] \cup Usable
      /\ e.body = "ready" => up[q] = Store
      /\ e.failed \subseteq down[q]
      /\ \A subject \in e.principal :
            document \subseteq Holds[subject] =>
              /\ e.body # "forbidden"
              /\ e.body = "tools" => e.listed = ToSet(reg.order)
  BY <1>1, <1>3 DEF Inv, ProbeInv
<1>9. /\ log \subseteq log' /\ log' \subseteq Entry /\ \A l \in log' \ log : l.of = q
      /\ \A l \in log' : l.of = q => EntryTrue(l, e)
  BY <1>1, <1>2
<1> QED
  BY <1>2, <1>4, <1>5, <1>6, <1>7, <1>8, <1>9, OneRequest

-----------------------------------------------------------------------------
(* Behind RequireAuth.                                                      *)

\* What a handler, or the transport around it, does to an exchange.
Handled(d, e) ==
  /\ e.at \in {"handling", "returned"}
  /\ e.route = d.route /\ e.cred = d.cred /\ e.who = d.who /\ e.principal = d.principal
  /\ e.failed = d.failed
  /\ e.sent \in {0, 200, 404} \/ (e.sent = 403 /\ e.at = "returned")
  /\ \/ e.body = d.body
     \/ d.body = "none" /\ e.body \in {"tools", "toolNotFound", "forbidden", "ok", "internalError"}
     \/ d.body = "none" /\ e.body = "refusedHost" /\ e.at = "returned"

\* What a request in a handler is known to be.
LEMMA HandlingFacts ==
  ASSUME Inv, NEW q \in Request, ex[q].at = "handling"
  PROVE  /\ boot = "serving" /\ ex[q] \in Exchange /\ log \subseteq Entry
         /\ Recorded(ex[q]) /\ Known(ex[q]) /\ Told(ex[q]) /\ LoggedOf(q)
         /\ ex[q].route \in Mcp /\ ex[q].cred \in Subject /\ ex[q].sent \in {0, 200, 404}
         /\ ex[q].body \in {"none", "tools", "ok", "toolNotFound", "forbidden", "internalError"}
<1>1. boot = "serving"
  BY Serving
<1>2. /\ ex[q] \in Exchange /\ log \subseteq Entry
      /\ Recorded(ex[q]) /\ Known(ex[q]) /\ Told(ex[q]) /\ LoggedOf(q)
  BY DEF Inv, TypeOK, ExchangeInv, LoggedInv
<1>3. /\ ex[q].route \in Mcp /\ ex[q].cred \in Subject /\ ex[q].sent \in {0, 200, 404}
      /\ ex[q].body \notin {"refusedHost", "ready", "notReady", "fixed"}
  BY <1>2 DEF Told
<1>4. ex[q].body \notin {"failed", "unauthenticated"}
  BY <1>2, <1>3 DEF Told
<1>5. ex[q].body \in Body
  BY <1>2 DEF Exchange
<1>6. ex[q].body \in {"none", "tools", "ok", "toolNotFound", "forbidden", "internalError"}
  BY <1>3, <1>4, <1>5 DEF Body
<1> QED
  BY <1>1, <1>2, <1>3, <1>6

\* A step of that kind, with the entries it makes, keeps the invariant.
LEMMA HandledInv ==
  ASSUME Inv, Witness, NEW q \in Request, ex[q].at = "handling", UNCHANGED <<startVars, readable>>,
         NEW e \in Exchange, ex' = [ex EXCEPT ![q] = e], Handled(ex[q], e), Recorded(e),
         log \subseteq log', log' \subseteq Entry,
         \A l \in log' \ log :
           /\ l.of = q /\ l.what \notin {"request", "authRejected", "authFailed"}
           /\ l.level = "error" => e.body = "internalError",
         e.body = "internalError" => ex[q].body = "internalError" \/ HasError(q)',
         \A subject \in e.principal :
            document \subseteq Holds[subject] =>
              /\ e.body # "forbidden"
              /\ e.body = "tools" => e.listed = ToSet(reg.order)
  PROVE  Inv'
<1>1. /\ boot = "serving" /\ ex[q] \in Exchange /\ log \subseteq Entry
      /\ Recorded(ex[q]) /\ Known(ex[q]) /\ Told(ex[q]) /\ LoggedOf(q)
      /\ ex[q].route \in Mcp /\ ex[q].cred \in Subject /\ ex[q].sent \in {0, 200, 404}
      /\ ex[q].body \in {"none", "tools", "ok", "toolNotFound", "forbidden", "internalError"}
  BY HandlingFacts
<1>2. e.body \in {"none", "tools", "ok", "toolNotFound", "forbidden", "internalError",
                  "refusedHost"}
  BY <1>1 DEF Handled
<1>3. Known(e)
  BY <1>1 DEF Handled, Known
<1>4. Told(e)
  BY <1>1, <1>2 DEF Handled, Told
<1>5. /\ e.at = "received" /\ e.route = "/readyz" => e.passed \subseteq up[q] \cup Usable
      /\ e.body = "ready" => up[q] = Store
      /\ e.failed \subseteq down[q]
  BY <1>2 DEF Handled, Inv, ProbeInv
<1>6. \A l \in log' \ log : l.of = q
  OBVIOUS
<1>7. \A l \in log' : l.of = q => EntryTrue(l, e)
  <2> SUFFICES ASSUME NEW l \in log', l.of = q PROVE EntryTrue(l, e)
    OBVIOUS
  <2>1. /\ l.what \notin {"request", "authRejected", "authFailed"}
        /\ l.level = "error" => e.body = "internalError"
    <3>1. CASE l \in log
      <4>1. EntryTrue(l, ex[q])
        BY <3>1 DEF Inv, LogInv
      <4>2. l.what \notin {"request", "authRejected", "authFailed"}
        BY <1>1, <4>1 DEF EntryTrue
      <4>3. l.level = "error" => ex[q].body = "internalError"
        BY <1>1, <4>1 DEF EntryTrue
      <4>4. ex[q].body = "internalError" => e.body = "internalError"
        BY DEF Handled
      <4> QED
        BY <4>2, <4>3, <4>4
    <3>2. CASE l \notin log
      BY <3>2
    <3> QED
      BY <3>1, <3>2
  <2>2. e.at \in {"handling", "returned"}
    BY DEF Handled
  <2> QED
    BY <2>1, <2>2 DEF EntryTrue
<1>8. LoggedOf(q)'
  <2>1. ex'[q] = e
    BY DEF Inv, TypeOK
  <2>2. e.body = "internalError" => HasError(q)'
    BY <1>1 DEF LoggedOf, HasError
  <2>3. e.at # "done" /\ e.body \notin {"failed", "unauthenticated"}
    BY <1>2 DEF Handled
  <2> QED
    BY <2>1, <2>2, <2>3 DEF LoggedOf
<1>9. boot = "serving"
  BY <1>1
<1> QED
  BY <1>3, <1>4, <1>5, <1>6, <1>7, <1>8, <1>9, OneRequest

\* A step of that kind that logs nothing and adds no list and no refusal.
LEMMA HandledQuietly ==
  ASSUME Inv, Witness, NEW q \in Request, ex[q].at = "handling",
         NEW e \in Exchange, Becomes(q, e), Handled(ex[q], e), Recorded(e), UNCHANGED log,
         e.body = ex[q].body \/ e.body \notin {"tools", "forbidden", "internalError"},
         e.listed = ex[q].listed
  PROVE  Inv'
<1>1. UNCHANGED <<startVars, readable>> /\ ex' = [ex EXCEPT ![q] = e]
  BY DEF Becomes
<1>2. /\ log \subseteq log' /\ log' \subseteq Entry
      /\ \A l \in log' \ log :
           /\ l.of = q /\ l.what \notin {"request", "authRejected", "authFailed"}
           /\ l.level = "error" => e.body = "internalError"
  BY HandlingFacts
<1>3. e.body = "internalError" => ex[q].body = "internalError" \/ HasError(q)'
  OBVIOUS
<1>4. \A subject \in e.principal :
        document \subseteq Holds[subject] =>
          /\ e.body # "forbidden"
          /\ e.body = "tools" => e.listed = ToSet(reg.order)
  <2>1. e.principal = ex[q].principal
    BY DEF Handled
  <2>2. \A subject \in ex[q].principal :
          document \subseteq Holds[subject] =>
            /\ ex[q].body # "forbidden"
            /\ ex[q].body = "tools" => ex[q].listed = ToSet(reg.order)
    BY DEF Inv, DiscoverySuffices
  <2> QED
    BY <2>1, <2>2
<1> QED
  BY <1>1, <1>2, <1>3, <1>4, HandledInv

\* What a message comes to is a result, and leaves the status alone.
LEMMA ResultFacts ==
  ASSUME Inv, NEW q \in Request, ex[q].at = "handling", ex[q].body = "none", NEW body,
         body \in {"tools", "toolNotFound", "forbidden", "ok", "internalError"}
  PROVE  LET e == [ex[q] EXCEPT !.body = body] IN
         /\ e \in Exchange /\ Recorded(e) /\ Handled(ex[q], e) /\ e.body = body
         /\ e.principal = ex[q].principal /\ e.listed = ex[q].listed
<1>1. ex[q] \in Exchange /\ Recorded(ex[q]) /\ ex[q].sent \in {0, 200, 404}
  BY HandlingFacts
<1>2. PICK e : e = [ex[q] EXCEPT !.body = body]
  OBVIOUS
<1>3. e \in Exchange
  BY <1>1, <1>2 DEF Exchange, Body
<1>4. /\ e.at = ex[q].at /\ e.body = body /\ e.status = ex[q].status /\ e.written = ex[q].written
      /\ e.route = ex[q].route /\ e.cred = ex[q].cred /\ e.who = ex[q].who
      /\ e.principal = ex[q].principal /\ e.failed = ex[q].failed /\ e.sent = ex[q].sent
      /\ e.listed = ex[q].listed /\ e.early = ex[q].early
  BY <1>1, <1>2 DEF Exchange
<1>5. Recorded(e)
  BY <1>1, <1>4 DEF Recorded
<1>6. Handled(ex[q], e)
  BY <1>1, <1>4 DEF Handled
<1> QED
  BY <1>2, <1>3, <1>4, <1>5, <1>6

\* A name that is not a tool's, and a tool that answers.
LEMMA QuietCallInv ==
  ASSUME Inv, Witness, NEW q \in Request, NEW name, CallUnknown(q, name) \/ CallAnswers(q, name)
  PROVE  Inv'
<1>1. PICK body \in {"toolNotFound", "ok"} : Results(q, body)
  BY DEF CallUnknown, CallAnswers
<1>2. ex[q].at = "handling" /\ ex[q].body = "none" /\ UNCHANGED log
  BY DEF CallUnknown, CallAnswers, Authorized, Dispatch, Handling
<1>3. PICK e :
        /\ e = [ex[q] EXCEPT !.body = body]
        /\ e \in Exchange /\ Recorded(e) /\ Handled(ex[q], e) /\ e.body = body
        /\ e.principal = ex[q].principal /\ e.listed = ex[q].listed
  BY <1>1, <1>2, ResultFacts
<1>4. Becomes(q, e)
  BY <1>1, <1>3 DEF Results
<1> QED
  BY <1>1, <1>2, <1>3, <1>4, HandledQuietly

\* Any other error of a tool.
LEMMA CallFailsInv ==
  ASSUME Inv, Witness, NEW q \in Request, NEW name, CallFails(q, name)
  PROVE  Inv'
<1>1. ex[q].at = "handling" /\ ex[q].body = "none" /\ Results(q, "internalError")
  BY DEF CallFails, Authorized, Dispatch, Handling
<1>2. PICK e :
        /\ e = [ex[q] EXCEPT !.body = "internalError"]
        /\ e \in Exchange /\ Recorded(e) /\ Handled(ex[q], e) /\ e.body = "internalError"
  BY <1>1, ResultFacts
<1>3. UNCHANGED <<startVars, readable>> /\ ex' = [ex EXCEPT ![q] = e]
  BY <1>1, <1>2 DEF Results, Becomes
<1>4. PICK what \in Event, level \in DOMAIN Severity :
        what = "callFailed" /\ level = "error" /\ LogsReason(q, what, level)
  BY SeverityFacts DEF CallFails, Event
<1>5. /\ log \subseteq log' /\ log' \subseteq Entry
      /\ \A l \in log' \ log : l.of = q /\ l.what = what /\ l.level = level
      /\ \E l \in log' : l.of = q /\ l.what = what /\ l.level = level
  BY <1>4, ReasonFacts
<1>6. \A l \in log' \ log :
        /\ l.of = q /\ l.what \notin {"request", "authRejected", "authFailed"}
        /\ l.level = "error" => e.body = "internalError"
  BY <1>2, <1>4, <1>5
<1>7. HasError(q)'
  BY <1>4, <1>5 DEF HasError
<1>8. /\ log \subseteq log' /\ log' \subseteq Entry
      /\ e.body = "internalError" => ex[q].body = "internalError" \/ HasError(q)'
  BY <1>5, <1>7
<1>9. \A subject \in e.principal :
        document \subseteq Holds[subject] =>
          /\ e.body # "forbidden"
          /\ e.body = "tools" => e.listed = ToSet(reg.order)
  BY <1>2
<1> QED
  BY <1>1, <1>2, <1>3, <1>6, <1>8, <1>9, HandledInv

\* What the transport writes is what the recorder notes.
LEMMA TransportInv ==
  ASSUME Inv, Witness, NEW q \in Request,
         TransportWrites(q) \/ TransportReturns(q) \/ RefuseHost(q)
  PROVE  Inv'
<1>1. ex[q].at = "handling" /\ UNCHANGED log
  BY DEF TransportWrites, TransportReturns, RefuseHost, Handling
<1>2. ex[q] \in Exchange /\ Recorded(ex[q]) /\ ex[q].sent \in {0, 200, 404}
  BY <1>1, HandlingFacts
<1>3. PICK e \in Exchange :
        /\ Becomes(q, e) /\ Handled(ex[q], e) /\ Recorded(e)
        /\ e.body = ex[q].body \/ e.body = "refusedHost"
        /\ e.listed = ex[q].listed
  <2>1. CASE TransportWrites(q)
    <3>1. CASE Becomes(q, Write(ex[q]))
      <4>1. PICK e \in Exchange :
              /\ e = Write(ex[q])
              /\ e.written /\ e.sent = (IF ex[q].sent = 0 THEN 200 ELSE ex[q].sent)
              /\ e.at = ex[q].at /\ e.status = ex[q].status /\ e.body = ex[q].body
              /\ e.route = ex[q].route /\ e.cred = ex[q].cred /\ e.who = ex[q].who
              /\ e.principal = ex[q].principal /\ e.failed = ex[q].failed
              /\ e.listed = ex[q].listed /\ e.early = ex[q].early
        BY <1>2, WriteFacts
      <4>2. Recorded(e)
        BY <1>2, <4>1 DEF Recorded
      <4>3. Handled(ex[q], e)
        BY <1>1, <1>2, <4>1 DEF Handled
      <4> QED
        BY <3>1, <4>1, <4>2, <4>3
    <3>2. CASE Becomes(q, Flush(ex[q]))
      <4>1. PICK e \in Exchange :
              /\ e = Flush(ex[q])
              /\ e.written = ex[q].written /\ e.sent = (IF ex[q].sent = 0 THEN 200 ELSE ex[q].sent)
              /\ e.early <=> ex[q].early \/ ex[q].sent = 0
              /\ e.at = ex[q].at /\ e.status = ex[q].status /\ e.body = ex[q].body
              /\ e.route = ex[q].route /\ e.cred = ex[q].cred /\ e.who = ex[q].who
              /\ e.principal = ex[q].principal /\ e.failed = ex[q].failed
              /\ e.listed = ex[q].listed
        BY <1>2, FlushFacts
      <4>2. Recorded(e)
        BY <1>1, <1>2, <4>1 DEF Recorded
      <4>3. Handled(ex[q], e)
        BY <1>1, <1>2, <4>1 DEF Handled
      <4> QED
        BY <3>2, <4>1, <4>2, <4>3
    <3>3. ASSUME NEW status \in Naming, Becomes(q, WriteHeader(ex[q], status))
          PROVE  \E e \in Exchange :
                   /\ Becomes(q, e) /\ Handled(ex[q], e) /\ Recorded(e)
                   /\ e.body = ex[q].body /\ e.listed = ex[q].listed
      <4>0. status \in {103, 200, 404}
        BY DEF Naming
      <4>1. PICK e \in Exchange :
              /\ e = WriteHeader(ex[q], status)
              /\ e.written
              /\ e.sent = (IF ex[q].sent = 0 /\ status >= 200 THEN status ELSE ex[q].sent)
              /\ e.status = (IF ex[q].written THEN ex[q].status ELSE status)
              /\ e.early <=> ex[q].early \/ (status < 200 /\ ex[q].sent = 0)
              /\ e.at = ex[q].at /\ e.body = ex[q].body
              /\ e.route = ex[q].route /\ e.cred = ex[q].cred /\ e.who = ex[q].who
              /\ e.principal = ex[q].principal /\ e.failed = ex[q].failed
              /\ e.listed = ex[q].listed
        BY <1>2, <4>0, WriteHeaderFacts
      <4>2. Recorded(e)
        BY <1>1, <1>2, <4>0, <4>1 DEF Recorded
      <4>3. Handled(ex[q], e)
        BY <1>1, <1>2, <4>0, <4>1 DEF Handled
      <4> QED
        BY <3>3, <4>1, <4>2, <4>3
    <3> QED
      BY <2>1, <3>1, <3>2, <3>3 DEF TransportWrites
  <2>2. CASE TransportReturns(q)
    <3>1. PICK e : e = [ex[q] EXCEPT !.at = "returned"]
      OBVIOUS
    <3>2. e \in Exchange
      BY <1>2, <3>1 DEF Exchange
    <3>3. /\ e.at = "returned" /\ e.body = ex[q].body
          /\ e.status = ex[q].status /\ e.written = ex[q].written
          /\ e.route = ex[q].route /\ e.cred = ex[q].cred /\ e.who = ex[q].who
          /\ e.principal = ex[q].principal /\ e.failed = ex[q].failed /\ e.sent = ex[q].sent
          /\ e.listed = ex[q].listed /\ e.early = ex[q].early
      BY <1>2, <3>1 DEF Exchange
    <3>4. Recorded(e)
      BY <1>2, <3>3 DEF Recorded
    <3>5. Handled(ex[q], e)
      BY <1>2, <3>3 DEF Handled
    <3>6. Becomes(q, e)
      BY <2>2, <3>1 DEF TransportReturns
    <3> QED
      BY <3>2, <3>3, <3>4, <3>5, <3>6
  <2>3. CASE RefuseHost(q)
    <3>1. ex[q].sent = 0 /\ ex[q].body = "none" /\ ~ ex[q].written /\ ~ ex[q].early
      BY <1>2, <2>3 DEF RefuseHost, Recorded
    <3>2. PICK e \in Exchange :
            /\ e = Answer(ex[q], 403, "refusedHost")
            /\ e.at = "returned" /\ e.status = 403 /\ e.sent = 403 /\ e.body = "refusedHost"
            /\ e.route = ex[q].route /\ e.cred = ex[q].cred /\ e.who = ex[q].who
            /\ e.principal = ex[q].principal /\ e.failed = ex[q].failed
            /\ e.listed = ex[q].listed /\ ~ e.early
      BY <1>2, <3>1, AnswerFacts DEF Body
    <3>3. Recorded(e)
      BY <3>2 DEF Recorded
    <3>4. Handled(ex[q], e)
      BY <3>1, <3>2 DEF Handled
    <3>5. Becomes(q, e)
      BY <2>3, <3>2 DEF RefuseHost
    <3> QED
      BY <3>2, <3>3, <3>4, <3>5
  <2> QED
    BY <2>1, <2>2, <2>3
<1> QED
  BY <1>1, <1>3, HandledQuietly

-----------------------------------------------------------------------------
(* The registry and what discovery says of it.                              *)

\* The registry has the tools it was made of, in their order and by their names.
LEMMA RegistryFacts ==
  ASSUME NEW list \in Seq(Tool), WellFormed(list)
  PROVE  LET r == NewRegistry(list) IN
         /\ ToSet(r.order) = {t.name : t \in ToSet(list)} /\ ToSet(r.order) \subseteq Name
         /\ DOMAIN r.byName = ToSet(r.order)
         /\ \A t \in ToSet(list) : r.byName[t.name] = t
         /\ All(r) = list
<1> DEFINE names == {list[i].name : i \in DOMAIN list}
           of(name) == CHOOSE t \in ToSet(list) : t.name = name
           order == [i \in DOMAIN list |-> list[i].name]
           byName == [name \in names |-> of(name)]
<1>0. NewRegistry(list) = [order |-> order, byName |-> byName]
  BY DEF NewRegistry
<1>1. PICK r : r = NewRegistry(list) /\ r.order = order /\ r.byName = byName
  <2> HIDE DEF order, byName
  <2> QED
    BY <1>0
<1>2. ToSet(list) = {list[i] : i \in DOMAIN list} /\ ToSet(order) = {order[i] : i \in DOMAIN order}
  BY DEF ToSet
<1>3. \A i \in DOMAIN list : list[i] \in ToSet(list) /\ list[i].name \in names
  BY <1>2
<1>4. \A t \in ToSet(list) : \E i \in DOMAIN list : t = list[i]
  BY <1>2
<1>5. names = {t.name : t \in ToSet(list)}
  BY <1>3, <1>4
<1>6. ToSet(order) = names
  BY <1>2
<1>7. names \subseteq Name
  <2> SUFFICES ASSUME NEW i \in DOMAIN list PROVE list[i].name \in Name
    OBVIOUS
  <2>1. list[i] \in Tool /\ list[i].name # Empty
    BY DEF WellFormed
  <2> QED
    BY <2>1 DEF Tool
<1>8. \A t \in ToSet(list) : byName[t.name] = t
  <2> SUFFICES ASSUME NEW t \in ToSet(list) PROVE of(t.name) = t
    BY <1>5
  <2>1. \A u \in ToSet(list) : u.name = t.name => u = t
    BY <1>4 DEF WellFormed
  <2> QED
    BY <2>1
<1>9. All(r) = list
  <2>1. All(r) = [i \in DOMAIN list |-> byName[list[i].name]]
    BY <1>1 DEF All
  <2>2. \A i \in DOMAIN list : byName[list[i].name] = list[i]
    BY <1>3, <1>8
  <2> HIDE DEF byName
  <2>3. list = [i \in DOMAIN list |-> list[i]]
    OBVIOUS
  <2> QED
    BY <2>1, <2>2, <2>3
<1>10. DOMAIN byName = names
  OBVIOUS
<1> HIDE DEF order, byName, names
<1> QED
  BY <1>1, <1>5, <1>6, <1>7, <1>8, <1>9, <1>10

\* The document advertises what the tools require.
LEMMA ScopesFacts ==
  ASSUME NEW list \in Seq(Tool), WellFormed(list)
  PROVE  /\ Scopes(NewRegistry(list)) \subseteq Scope
         /\ \A scope \in Scopes(NewRegistry(list)) : \E t \in ToSet(list) : t.scope = scope
         /\ \A t \in ToSet(list) : t.scope = Empty \/ t.scope \in Scopes(NewRegistry(list))
<1>1. PICK r :
        /\ r = NewRegistry(list)
        /\ ToSet(r.order) = {t.name : t \in ToSet(list)}
        /\ \A t \in ToSet(list) : r.byName[t.name] = t
  BY RegistryFacts
<1>2. Scopes(r) = {t.scope : t \in ToSet(list)} \ {Empty}
  <2>1. {r.byName[name].scope : name \in ToSet(r.order)} = {t.scope : t \in ToSet(list)}
    BY <1>1
  <2> QED
    BY <2>1 DEF Scopes
<1>3. \A t \in ToSet(list) : t.scope \in Scope \cup {Empty}
  <2> SUFFICES ASSUME NEW i \in DOMAIN list PROVE list[i].scope \in Scope \cup {Empty}
    BY DEF ToSet
  <2>1. list[i] \in Tool
    OBVIOUS
  <2> QED
    BY <2>1 DEF Tool
<1> QED
  BY <1>1, <1>2, <1>3

\* Who holds every scope of the document is allowed every tool.
LEMMA DocumentSuffices ==
  ASSUME NEW list \in Seq(Tool), WellFormed(list), NEW subject,
         Scopes(NewRegistry(list)) \subseteq Holds[subject], NEW t \in ToSet(list)
  PROVE  Allow(subject, t.scope)
  BY ScopesFacts DEF Allow

\* A tool that is listed is a tool.
LEMMA ListFacts ==
  ASSUME NEW list \in Seq(Tool), WellFormed(list), NEW subject
  PROVE  /\ ToSet(ListTools(NewRegistry(list), subject)) \subseteq ToSet(list)
         /\ Scopes(NewRegistry(list)) \subseteq Holds[subject] =>
              ToSet(ListTools(NewRegistry(list), subject)) = ToSet(list)
<1> DEFINE kept == {t \in ToSet(list) : Allow(subject, t.scope)}
<1>1. ListTools(NewRegistry(list), subject) = Sublist(list, kept)
  BY RegistryFacts DEF ListTools
<1>2. \A t : t \in ToSet(Sublist(list, kept)) <=> t \in kept /\ t \in ToSet(list)
  <2>1. \A s, t : t \in ToSet(s) <=> \E i \in DOMAIN s : s[i] = t
    BY DEF ToSet
  <2> HIDE DEF kept
  <2>2. \A t : (\E i \in DOMAIN Sublist(list, kept) : Sublist(list, kept)[i] = t)
                <=> t \in kept /\ \E i \in DOMAIN list : list[i] = t
    BY SublistRange
  <2> QED
    BY <2>1, <2>2
<1>3. Scopes(NewRegistry(list)) \subseteq Holds[subject] => kept = ToSet(list)
  BY DocumentSuffices
<1> QED
  BY <1>1, <1>2, <1>3

\* A server that serves has its registry, and its document.
LEMMA ServingFacts ==
  ASSUME Inv, boot = "serving"
  PROVE  /\ tools \in Seq(Tool) /\ WellFormed(tools)
         /\ reg = NewRegistry(tools) /\ document = Scopes(NewRegistry(tools))
  BY ToolListsAssumption DEF Inv, TypeOK, BuildInv

\* A request in a handler is of one caller.
LEMMA OneCaller ==
  ASSUME Inv, NEW q \in Request, NEW subject \in ex[q].principal
  PROVE  \A other \in ex[q].principal : other = subject
  BY DEF Inv, ExchangeInv, Known

\* The list.
LEMMA ListInv ==
  ASSUME Inv, Witness, NEW q \in Request, List(q)
  PROVE  Inv'
<1>0. PICK subject \in ex[q].principal :
        Becomes(q, [ex[q] EXCEPT !.body = "tools",
                                 !.listed = {t.name : t \in ToSet(ListTools(reg, subject))}])
  BY DEF List
<1>1. /\ ex[q].at = "handling" /\ ex[q].body = "none" /\ boot = "serving"
      /\ ex[q] \in Exchange /\ log' = log /\ log \subseteq Entry
      /\ Recorded(ex[q]) /\ ex[q].sent \in {0, 200, 404}
  BY HandlingFacts DEF List, Dispatch, Handling
<1>2. PICK listed :
        /\ listed = {t.name : t \in ToSet(ListTools(reg, subject))}
        /\ Becomes(q, [ex[q] EXCEPT !.body = "tools", !.listed = listed])
  BY <1>0
<1>3. /\ tools \in Seq(Tool) /\ WellFormed(tools)
      /\ reg = NewRegistry(tools) /\ document = Scopes(NewRegistry(tools))
  BY <1>1, ServingFacts
<1>4. /\ ToSet(reg.order) = {t.name : t \in ToSet(tools)} /\ ToSet(reg.order) \subseteq Name
  BY <1>3, RegistryFacts
<1>5. /\ listed \subseteq Name
      /\ document \subseteq Holds[subject] => listed = ToSet(reg.order)
  <2>1. /\ ToSet(ListTools(reg, subject)) \subseteq ToSet(tools)
        /\ document \subseteq Holds[subject] => ToSet(ListTools(reg, subject)) = ToSet(tools)
    BY <1>3, ListFacts
  <2> QED
    BY <1>2, <1>4, <2>1
<1>6. PICK e : e = [ex[q] EXCEPT !.body = "tools", !.listed = listed]
  OBVIOUS
<1>7. e \in Exchange
  <2>1. PICK d \in Exchange : d = ex[q]
    BY <1>1
  <2>2. listed \subseteq Name /\ "tools" \in Body
    BY <1>5 DEF Body
  <2> QED
    BY <1>6, <2>1, <2>2 DEF Exchange
<1>8. /\ e.at = ex[q].at /\ e.body = "tools" /\ e.status = ex[q].status /\ e.written = ex[q].written
      /\ e.route = ex[q].route /\ e.cred = ex[q].cred /\ e.who = ex[q].who
      /\ e.principal = ex[q].principal /\ e.failed = ex[q].failed /\ e.sent = ex[q].sent
      /\ e.listed = listed /\ e.early = ex[q].early
  BY <1>1, <1>6 DEF Exchange
<1>9. Recorded(e) /\ Handled(ex[q], e)
  BY <1>1, <1>8 DEF Recorded, Handled
<1>10. UNCHANGED <<startVars, readable>> /\ ex' = [ex EXCEPT ![q] = e]
  BY <1>2, <1>6 DEF Becomes
<1>11. /\ log \subseteq log' /\ log' \subseteq Entry
       /\ \A l \in log' \ log :
            /\ l.of = q /\ l.what \notin {"request", "authRejected", "authFailed"}
            /\ l.level = "error" => e.body = "internalError"
       /\ e.body = "internalError" => ex[q].body = "internalError" \/ HasError(q)'
  BY <1>1, <1>8
<1>12. \A other \in e.principal :
         document \subseteq Holds[other] =>
           /\ e.body # "forbidden"
           /\ e.body = "tools" => e.listed = ToSet(reg.order)
  BY <1>5, <1>8, OneCaller
<1>13. ex[q].at = "handling"
  BY <1>1
<1> QED
  BY <1>7, <1>9, <1>10, <1>11, <1>12, <1>13, HandledInv

\* A call that the authorizer refuses.
LEMMA CallForbiddenInv ==
  ASSUME Inv, Witness, NEW q \in Request, NEW name, CallForbidden(q, name)
  PROVE  Inv'
<1>1. ex[q].at = "handling" /\ ex[q].body = "none" /\ Results(q, "forbidden")
  BY DEF CallForbidden, Dispatch, Handling
<1>2. PICK subject \in ex[q].principal, t \in Lookup(reg, name) : ~ Allow(subject, t.scope)
  BY DEF CallForbidden
<1>3. /\ tools \in Seq(Tool) /\ WellFormed(tools)
      /\ reg = NewRegistry(tools) /\ document = Scopes(NewRegistry(tools))
  BY <1>1, HandlingFacts, ServingFacts
<1>4. t \in ToSet(tools)
  <2>1. /\ DOMAIN reg.byName = {u.name : u \in ToSet(tools)}
        /\ \A u \in ToSet(tools) : reg.byName[u.name] = u
    BY <1>3, RegistryFacts
  <2>2. PICK n \in DOMAIN reg.byName : t = reg.byName[n]
    BY <1>2 DEF Lookup
  <2> QED
    BY <2>1, <2>2
<1>5. ~ document \subseteq Holds[subject]
  BY <1>2, <1>3, <1>4, DocumentSuffices
<1>6. PICK e :
        /\ e = [ex[q] EXCEPT !.body = "forbidden"]
        /\ e \in Exchange /\ Recorded(e) /\ Handled(ex[q], e) /\ e.body = "forbidden"
        /\ e.principal = ex[q].principal
  BY <1>1, ResultFacts
<1>7. UNCHANGED <<startVars, readable>> /\ ex' = [ex EXCEPT ![q] = e]
  BY <1>1, <1>6 DEF Results, Becomes
<1>8. PICK what \in Event, level \in DOMAIN Severity :
        what = "callForbidden" /\ level = "info" /\ LogsReason(q, what, level)
  BY SeverityFacts DEF CallForbidden, Event
<1>9. /\ log \subseteq log' /\ log' \subseteq Entry
      /\ \A l \in log' \ log : l.of = q /\ l.what = what /\ l.level = level
  BY <1>8, ReasonFacts
<1>10. /\ \A l \in log' \ log :
            /\ l.of = q /\ l.what \notin {"request", "authRejected", "authFailed"}
            /\ l.level = "error" => e.body = "internalError"
       /\ e.body = "internalError" => ex[q].body = "internalError" \/ HasError(q)'
  BY <1>6, <1>8, <1>9
<1>11. \A other \in e.principal :
         document \subseteq Holds[other] =>
           /\ e.body # "forbidden"
           /\ e.body = "tools" => e.listed = ToSet(reg.order)
  BY <1>2, <1>5, <1>6, OneCaller
<1> QED
  BY <1>1, <1>6, <1>7, <1>9, <1>10, <1>11, HandledInv

\* A handler panics.
LEMMA PanicInv ==
  ASSUME Inv, Witness, NEW q \in Request, Panic(q)
  PROVE  Inv'
<1>1. /\ ex[q].at = "handling" /\ boot = "serving" /\ log' = log /\ log \subseteq Entry
      /\ ex[q] \in Exchange
  BY HandlingFacts DEF Panic, Handling
<1>2. PICK d \in Exchange :
        /\ d = NewExchange(ex[q].route, ex[q].cred)
        /\ d.status = 200 /\ d.sent = 0 /\ ~ d.written /\ d.body = "none"
        /\ d.who = Nobody /\ d.principal = {} /\ d.failed = {} /\ ~ d.early
  <2>1. ex[q].route \in Route /\ ex[q].cred \in Credential
    BY <1>1 DEF Exchange
  <2> QED
    BY <2>1, NewExchangeFacts
<1>3. PICK e : e = [d EXCEPT !.at = "panicked"]
  OBVIOUS
<1>4. e \in Exchange
  BY <1>3 DEF Exchange
<1>5. /\ e.at = "panicked" /\ e.status = 200 /\ e.sent = 0 /\ ~ e.written /\ e.body = "none"
      /\ e.who = Nobody /\ e.principal = {} /\ e.failed = {} /\ ~ e.early
  BY <1>2, <1>3 DEF Exchange
<1>6. UNCHANGED <<startVars, readable>> /\ ex' = [ex EXCEPT ![q] = e] /\ ex'[q] = e
  BY <1>2, <1>3 DEF Panic, Becomes, Inv, TypeOK
<1>7. Recorded(e) /\ Known(e) /\ LoggedOf(q)'
  BY <1>5, <1>6 DEF Recorded, Known, LoggedOf
<1>8. Told(e)
  BY <1>5 DEF Told
<1>9. /\ log \subseteq log' /\ log' \subseteq Entry /\ \A l \in log' \ log : l.of = q
  BY <1>1
<1>10. \A l \in log' : l.of = q => EntryTrue(l, e)
  <2> SUFFICES ASSUME NEW l \in log, l.of = q PROVE EntryTrue(l, e)
    BY <1>1
  <2>1. EntryTrue(l, ex[q])
    BY DEF Inv, LogInv
  <2>2. l.what \notin {"request", "authRejected", "authFailed"}
    BY <1>1, <2>1 DEF EntryTrue
  <2> QED
    BY <1>5, <2>2 DEF EntryTrue
<1>11. /\ e.at = "received" /\ e.route = "/readyz" => e.passed \subseteq up[q] \cup Usable
       /\ e.body = "ready" => up[q] = Store
       /\ e.failed \subseteq down[q]
       /\ \A subject \in e.principal :
             document \subseteq Holds[subject] =>
               /\ e.body # "forbidden"
               /\ e.body = "tools" => e.listed = ToSet(reg.order)
  BY <1>5
<1> QED
  BY <1>1, <1>4, <1>6, <1>7, <1>8, <1>9, <1>10, <1>11, OneRequest

\* The line of a request.
LEMMA LogRequestInv ==
  ASSUME Inv, Witness, NEW q \in Request, LogRequest(q)
  PROVE  Inv'
<1>1. /\ ex[q].at = "returned" /\ ex[q] \in Exchange /\ log \subseteq Entry
      /\ Recorded(ex[q]) /\ Known(ex[q]) /\ Told(ex[q]) /\ LoggedOf(q)
  BY DEF LogRequest, Inv, TypeOK, ExchangeInv, LoggedInv
<1>2. boot = "serving"
  BY <1>1, Serving
<1>3. PICK d \in Exchange :
        /\ d = Committed(ex[q], 200)
        /\ d.sent = (IF ex[q].sent = 0 THEN 200 ELSE ex[q].sent)
        /\ d.status = ex[q].status /\ d.body = ex[q].body /\ d.early = ex[q].early
        /\ d.route = ex[q].route /\ d.cred = ex[q].cred /\ d.who = ex[q].who
        /\ d.principal = ex[q].principal /\ d.failed = ex[q].failed /\ d.listed = ex[q].listed
  BY <1>1, CommittedFacts
<1>4. PICK e : e = [d EXCEPT !.at = "done"]
  OBVIOUS
<1>5. e \in Exchange
  BY <1>4 DEF Exchange
<1>6. /\ e.at = "done" /\ e.sent = d.sent /\ e.status = d.status /\ e.body = d.body
      /\ e.route = d.route /\ e.cred = d.cred /\ e.who = d.who
      /\ e.principal = d.principal /\ e.failed = d.failed /\ e.listed = d.listed
      /\ e.early = d.early
  BY <1>4 DEF Exchange
<1>7. /\ e.sent = (IF ex[q].sent = 0 THEN 200 ELSE ex[q].sent) /\ e.status = ex[q].status
      /\ e.status = e.sent \/ (e.early /\ e.status < 500 /\ e.sent < 500)
      /\ e.status \in Nat /\ e.sent \in Nat /\ e.sent # 0
  BY <1>1, <1>3, <1>5, <1>6 DEF Recorded, Exchange
<1>8. UNCHANGED <<startVars, readable>> /\ ex' = [ex EXCEPT ![q] = e] /\ ex'[q] = e
  BY <1>3, <1>4 DEF LogRequest, Becomes, Inv, TypeOK
<1>9. Recorded(e) /\ Known(e)
  BY <1>1, <1>3, <1>6, <1>7 DEF Recorded, Known
<1>10. Told(e)
  BY <1>1, <1>3, <1>6, <1>7 DEF Told
<1>11. PICK entry :
         /\ entry = [of |-> q, what |-> "request", level |-> LevelOf(ex[q].status),
                     status |-> ex[q].status, subject |-> ex[q].who]
         /\ Logs(entry)
  BY DEF LogRequest
<1>12. /\ entry.of = q /\ entry.what = "request" /\ entry.level = LevelOf(ex[q].status)
       /\ entry.status = ex[q].status /\ entry.subject = ex[q].who
  BY <1>11
<1>13. /\ entry.level \in DOMAIN Severity
       /\ entry.level = "error" <=> e.sent >= 500
  BY <1>7, <1>12, SeverityFacts DEF LevelOf
<1>14. entry \in Entry
  <2>1. /\ ex[q].status \in Nat /\ ex[q].who \in Subject \cup {Nobody} /\ "request" \in Event
        /\ LevelOf(ex[q].status) \in DOMAIN Severity
    BY <1>1, <1>12, <1>13 DEF Exchange, Event
  <2> QED
    BY <1>11, <2>1 DEF Entry
<1>15. /\ log' = log \/ log' = log \cup {entry}
       /\ entry.level = "error" => log' = log \cup {entry}
  <2>1. cfg.LOG_LEVEL \in DOMAIN Severity
    BY DEF Inv, ConfigInv
  <2> QED
    BY <1>11, <1>13, <2>1, LogsFacts
<1>16. EntryTrue(entry, e)
  <2>0. e.who = ex[q].who
    BY <1>3, <1>6
  <2>1. (entry.status = e.sent \/ e.early) /\ entry.subject = e.who
    BY <1>7, <1>12, <2>0
  <2>2. entry.what = "request" /\ (entry.level = "error" => e.sent >= 500)
    BY <1>12, <1>13
  <2> QED
    BY <1>6, <2>1, <2>2 DEF EntryTrue
<1>17. \A l \in log : l.of = q => EntryTrue(l, e)
  <2> SUFFICES ASSUME NEW l \in log, l.of = q PROVE EntryTrue(l, e)
    OBVIOUS
  <2>1. EntryTrue(l, ex[q])
    BY DEF Inv, LogInv
  <2>2. l.what # "request"
    BY <1>1, <2>1 DEF EntryTrue
  <2>3. l.what = "authRejected" => e.sent = 401 /\ e.who = Nobody
    BY <1>3, <1>6, <1>7, <2>1 DEF EntryTrue
  <2>4. l.what = "authFailed" => e.body = "failed"
    BY <1>3, <1>6, <2>1 DEF EntryTrue
  <2>5. l.level = "error" => e.body \in {"failed", "internalError"}
    BY <1>1, <1>3, <1>6, <2>1 DEF EntryTrue
  <2> QED
    BY <1>6, <2>2, <2>3, <2>4, <2>5 DEF EntryTrue
<1>18. /\ log \subseteq log' /\ log' \subseteq Entry /\ \A l \in log' \ log : l.of = q
       /\ \A l \in log' : l.of = q => EntryTrue(l, e)
  BY <1>1, <1>12, <1>14, <1>15, <1>16, <1>17
<1>19. LoggedOf(q)'
  <2>1. e.body = "failed" => HasEntry(q, "authFailed")'
    BY <1>1, <1>3, <1>6, <1>18 DEF LoggedOf, HasEntry
  <2>2. e.body \in {"failed", "internalError"} => HasError(q)'
    BY <1>1, <1>3, <1>6, <1>18 DEF LoggedOf, HasError
  <2>3. e.sent >= 500 => HasError(q)'
    BY <1>12, <1>13, <1>15 DEF HasError
  <2>4. /\ e.body = "unauthenticated" /\ e.cred # "none" /\ cfg.LOG_LEVEL \in {"debug", "info"}
        => HasEntry(q, "authRejected")' \/ e.who # Nobody
    BY <1>1, <1>3, <1>6, <1>18 DEF LoggedOf, HasEntry
  <2> QED
    BY <1>8, <2>1, <2>2, <2>3, <2>4 DEF LoggedOf, startVars
<1>20. /\ e.at = "received" /\ e.route = "/readyz" => e.passed \subseteq up[q] \cup Usable
       /\ e.body = "ready" => up[q] = Store
       /\ e.failed \subseteq down[q]
  BY <1>3, <1>6 DEF Inv, ProbeInv
<1>21. \A subject \in e.principal :
         document \subseteq Holds[subject] =>
           /\ e.body # "forbidden"
           /\ e.body = "tools" => e.listed = ToSet(reg.order)
  BY <1>3, <1>6 DEF Inv, DiscoverySuffices
<1> QED
  BY <1>2, <1>5, <1>8, <1>9, <1>10, <1>18, <1>19, <1>20, <1>21, OneRequest

-----------------------------------------------------------------------------
(* The configuration.                                                       *)

\* The variables, and what is said of each.
LEMMA VarFacts ==
  /\ Var = {"ADDR", "BASE_URL", "AUTHORIZATION_SERVERS", "USERS_FILE", "NOTES_STORE", "NOTES_FILE",
            "LOG_LEVEL"}
  /\ Checked \subseteq Var
  /\ Accepted["LOG_LEVEL"] = DOMAIN Severity
  BY SeverityFacts DEF Var, Default, Checked, Accepted

\* A default is accepted.
LEMMA DefaultFacts ==
  ASSUME NEW v \in Var
  PROVE  Default[v] \in Accepted[v]
  BY VarFacts DEF Default, Accepted

\* Files have names and addresses have ports.
LEMMA DefaultNotBlank ==
  ASSUME NEW v \in {"ADDR", "USERS_FILE", "NOTES_FILE"}
  PROVE  Default[v] # Blank
<1>1. ":8080" # Blank /\ "users.json" # Blank /\ "notes.json" # Blank
  BY Zenon DEF Blank
<1> QED
  BY <1>1 DEF Default

\* What the environment says of a variable that is not checked is accepted.
LEMMA GetFacts ==
  ASSUME NEW e \in Environment, NEW v \in Var
  PROVE  /\ v \notin Checked => Get(e, v) \in Accepted[v]
         /\ e[v] \in Accepted[v] => Get(e, v) \in Accepted[v]
<1>1. e[v] \in Setting[v]
  BY VarFacts DEF Environment
<1>2. v \notin Checked => e[v] \in Accepted[v] \cup {Blank}
  BY <1>1, SettingAssumption
<1> QED
  BY <1>2, DefaultFacts DEF Get

\* No complaint: what is read can be used.
LEMMA LoadFacts ==
  ASSUME NEW e \in Environment, Problems(e) = {}
  PROVE  /\ \A v \in Var : Load(e)[v] \in Accepted[v]
         /\ Load(e).LOG_LEVEL \in DOMAIN Severity
         /\ Load(e).USERS_FILE # Blank
         /\ Load(e).NOTES_STORE = "file" => Load(e).NOTES_FILE # Blank
<1>1. \A v \in Var : Get(e, v) \in Accepted[v]
  BY GetFacts DEF Problems
<1>2. \A v \in Var : Load(e)[v] = Get(e, v)
  BY DEF Load
<1>3. Get(e, "USERS_FILE") # Blank
  BY DEF Problems
<1>4. Get(e, "NOTES_STORE") = "file" => Get(e, "NOTES_FILE") # Blank
  BY DEF Problems
<1> QED
  BY <1>1, <1>2, <1>3, <1>4, VarFacts

\* Who corrects what was complained about, and nothing else, is not complained to again.
LEMMA RepairFacts ==
  ASSUME NEW e \in Environment, NEW f \in Environment,
         \A v \in Var : IF v \in Problems(e) THEN f[v] \in Accepted[v] ELSE f[v] = e[v]
  PROVE  Problems(f) = {}
<1>1. ASSUME NEW v \in Checked PROVE Get(f, v) \in Accepted[v]
  <2>1. v \in Var
    BY VarFacts
  <2>2. CASE v \in Problems(e)
    BY <2>1, <2>2, GetFacts
  <2>3. CASE v \notin Problems(e)
    <3>1. Get(e, v) \in Accepted[v]
      BY <2>3 DEF Problems
    <3> QED
      BY <2>1, <2>3, <3>1 DEF Get
  <2> QED
    BY <2>2, <2>3
<1>2. ASSUME NEW v \in {"ADDR", "USERS_FILE", "NOTES_FILE"} PROVE Get(f, v) # Blank
  BY DefaultNotBlank DEF Get
<1> QED
  BY <1>1, <1>2 DEF Problems

\* A step of the start keeps what concerns requests: there are none.
LEMMA StartKeeps ==
  ASSUME Inv, Witness, boot # "serving", UNCHANGED <<tools, requestVars>>,
         boot' \in {"down", "refused", "loaded", "serving", "broken"},
         env' \in Environment, reported' \subseteq Var, repairs' \in 0 .. MaxRepairs,
         \A v \in Var : cfg'[v] \in Accepted[v] \cup {Blank},
         ConfigInv', BuildInv'
  PROVE  Inv'
<1>1. /\ \A q \in Request : ex'[q] = NoExchange
      /\ ex' = ex /\ log' = log /\ readable' = readable /\ readable \subseteq Store
      /\ tools' = tools /\ tools \in Seq(Tool) /\ tools \in ToolLists
  BY ToolListsAssumption DEF Inv, TypeOK, BuildInv, requestVars
<1>2. Usable' \subseteq Store
  BY <1>1 DEF Usable, Store
<1>3. /\ document' \subseteq Scope
      /\ \A scope \in document' : \E t \in ToSet(tools) : t.scope = scope
      /\ reg' \in {NoRegistry, NewRegistry(tools)}
  <2>1. CASE boot' = "serving"
    <3>1. /\ WellFormed(tools)
          /\ reg' = NewRegistry(tools) /\ document' = Scopes(NewRegistry(tools))
      BY <1>1, <2>1 DEF BuildInv
    <3> QED
      BY <1>1, <3>1, ScopesFacts
  <2>2. CASE boot' # "serving"
    BY <2>2 DEF BuildInv
  <2> QED
    BY <2>1, <2>2
<1>4. TypeOK'
  <2>1. up' \in [Request -> SUBSET Store] /\ down' \in [Request -> SUBSET Store]
    BY <1>2, WitnessFacts DEF Inv, Witness, TypeOK
  <2>2. ex' \in [Request -> Exchange] /\ log' \subseteq Entry
    BY <1>1 DEF Inv, TypeOK
  <2> QED
    BY <1>1, <1>3, <2>1, <2>2 DEF TypeOK
<1>5. ExchangeInv' /\ LogInv'
  BY <1>1 DEF Inv, ExchangeInv, LogInv
<1>6. LoggedInv'
  BY <1>1, NoExchangeFacts DEF LoggedInv, LoggedOf
<1>7. ProbeInv'
  BY <1>1, NoExchangeFacts DEF ProbeInv
<1>8. DiscoverySuffices'
  BY <1>1, <1>3, NoExchangeFacts DEF DiscoverySuffices
<1> QED
  BY <1>4, <1>5, <1>6, <1>7, <1>8 DEF Inv

\* The steps of a start.
LEMMA StartInv ==
  ASSUME Inv, Witness, Start
  PROVE  Inv'
<1>1. /\ env \in Environment /\ reported \subseteq Var /\ repairs \in 0 .. MaxRepairs
      /\ \A v \in Var : cfg[v] \in Accepted[v] \cup {Blank}
      /\ MaxRepairs \in Nat
  BY RepairBoundAssumption DEF Inv, TypeOK
<1>2. boot # "serving" /\ UNCHANGED <<tools, requestVars>>
  BY DEF Start, LoadConfig, ConfigFails, Repair, Build, BuildFails
<1>3. ConfigInv /\ reg = NoRegistry /\ document = {} /\ \A q \in Request : ex[q] = NoExchange
  BY <1>2 DEF Inv, BuildInv
<1>4. CASE LoadConfig
  <2>1. /\ boot' = "loaded" /\ env' = env /\ reported' = {} /\ repairs' = 0
        /\ cfg' = Load(env) /\ reg' = reg /\ document' = document /\ ex' = ex
        /\ Problems(env) = {}
    BY <1>4 DEF LoadConfig, requestVars
  <2>2. /\ \A v \in Var : cfg'[v] \in Accepted[v]
        /\ cfg'.LOG_LEVEL \in DOMAIN Severity
        /\ cfg'.USERS_FILE # Blank
        /\ cfg'.NOTES_STORE = "file" => cfg'.NOTES_FILE # Blank
    BY <1>1, <2>1, LoadFacts
  <2>3. ConfigInv'
    BY <2>1, <2>2 DEF ConfigInv
  <2>4. BuildInv'
    BY <1>3, <2>1 DEF BuildInv
  <2>5. /\ env' \in Environment /\ reported' \subseteq Var /\ repairs' \in 0 .. MaxRepairs
        /\ \A v \in Var : cfg'[v] \in Accepted[v] \cup {Blank}
    BY <1>1, <2>1, <2>2
  <2> QED
    BY <1>2, <2>1, <2>3, <2>4, <2>5, StartKeeps
<1>5. CASE ConfigFails
  <2>1. /\ boot = "down" /\ boot' = "refused" /\ env' = env /\ reported' = Problems(env)
        /\ repairs' = repairs /\ Problems(env) # {}
        /\ cfg' = cfg /\ reg' = reg /\ document' = document /\ ex' = ex
    BY <1>5 DEF ConfigFails, requestVars
  <2>2. repairs = 0
    BY <1>3, <2>1 DEF ConfigInv
  <2>3. ConfigInv'
    <3>1. Problems(env)' = Problems(env)
      BY <2>1
    <3> QED
      BY <1>3, <2>1, <2>2, <3>1 DEF ConfigInv
  <2>4. BuildInv'
    BY <1>3, <2>1 DEF BuildInv
  <2>5. Problems(env) \subseteq Var
    BY VarFacts DEF Problems
  <2> QED
    BY <1>1, <1>2, <2>1, <2>3, <2>4, <2>5, StartKeeps
<1>6. CASE Repair
  <2>1. /\ boot = "refused" /\ boot' = "down" /\ repairs < MaxRepairs /\ repairs' = repairs + 1
        /\ env' \in Environment
        /\ \A v \in Var : IF v \in reported THEN env'[v] \in Accepted[v] ELSE env'[v] = env[v]
        /\ reported' = reported /\ cfg' = cfg /\ reg' = reg /\ document' = document /\ ex' = ex
    BY <1>6 DEF Repair, requestVars
  <2>2. reported = Problems(env)
    BY <1>3, <2>1 DEF ConfigInv
  <2>3. PICK f \in Environment : f = env'
    BY <2>1
  <2>4. Problems(f) = {}
    BY <1>1, <2>1, <2>2, <2>3, RepairFacts
  <2>5. ConfigInv'
    BY <1>3, <2>1, <2>3, <2>4 DEF ConfigInv
  <2>6. BuildInv'
    BY <1>3, <2>1 DEF BuildInv
  <2>7. repairs' \in 0 .. MaxRepairs
    BY <1>1, <2>1
  <2> QED
    BY <1>1, <1>2, <2>1, <2>5, <2>6, <2>7, StartKeeps
<1>7. CASE Build
  <2>1. /\ boot = "loaded" /\ boot' = "serving" /\ WellFormed(tools) /\ tools' = tools
        /\ reg' = NewRegistry(tools) /\ document' = Scopes(NewRegistry(tools))
        /\ env' = env /\ repairs' = repairs /\ reported' = reported /\ cfg' = cfg
    BY <1>7 DEF Build, Buildable
  <2>2. ConfigInv'
    BY <1>3, <2>1 DEF ConfigInv
  <2>3. BuildInv'
    BY <2>1 DEF BuildInv
  <2> QED
    BY <1>1, <1>2, <2>1, <2>2, <2>3, StartKeeps
<1>8. CASE BuildFails
  <2>1. /\ boot = "loaded" /\ boot' = "broken" /\ ~ Buildable /\ tools' = tools
        /\ env' = env /\ repairs' = repairs /\ reported' = reported /\ cfg' = cfg
        /\ reg' = reg /\ document' = document /\ ex' = ex
    BY <1>8 DEF BuildFails, requestVars
  <2>2. ~ WellFormed(tools)
    BY <1>3, <2>1 DEF ConfigInv, Buildable
  <2>3. ConfigInv'
    BY <1>3, <2>1, <2>2 DEF ConfigInv
  <2>4. BuildInv'
    BY <1>3, <2>1 DEF BuildInv
  <2> QED
    BY <1>1, <1>2, <2>1, <2>3, <2>4, StartKeeps
<1> QED
  BY <1>4, <1>5, <1>6, <1>7, <1>8 DEF Start

-----------------------------------------------------------------------------
(* Every step.                                                              *)

\* The invariant holds at the start.
LEMMA InitInv == Init => Inv
<1> SUFFICES ASSUME Init PROVE Inv
  OBVIOUS
<1>1. /\ \A q \in Request : ex[q] = NoExchange /\ up[q] = {} /\ down[q] = {}
      /\ log = {} /\ boot = "down" /\ repairs = 0 /\ reg = NoRegistry /\ document = {}
      /\ cfg = Default
  BY DEF Init
<1>2. TypeOK
  <2>1. \A v \in Var : cfg[v] \in Accepted[v]
    BY <1>1, DefaultFacts
  <2>2. ex \in [Request -> Exchange]
    BY NoExchangeFacts DEF Init
  <2>3. repairs \in 0 .. MaxRepairs
    BY RepairBoundAssumption DEF Init
  <2>4. up \in [Request -> SUBSET Store] /\ down \in [Request -> SUBSET Store]
    BY DEF Init
  <2> QED
    BY <1>1, <2>1, <2>2, <2>3, <2>4 DEF Init, TypeOK
<1>3. ConfigInv
  BY <1>1, SeverityFacts DEF ConfigInv, Default
<1>4. BuildInv
  BY <1>1 DEF BuildInv
<1>5. ExchangeInv
  <2>1. Recorded(NoExchange) /\ Known(NoExchange)
    BY NoExchangeFacts DEF Recorded, Known
  <2>2. Told(NoExchange)
    BY NoExchangeFacts DEF Told
  <2> QED
    BY <1>1, <2>1, <2>2 DEF ExchangeInv
<1>6. LogInv
  BY <1>1 DEF LogInv
<1>7. LoggedInv
  BY <1>1, NoExchangeFacts DEF LoggedInv, LoggedOf
<1>8. ProbeInv
  BY <1>1, NoExchangeFacts DEF ProbeInv
<1>9. DiscoverySuffices
  BY <1>1, NoExchangeFacts DEF DiscoverySuffices
<1> QED
  BY <1>2, <1>3, <1>4, <1>5, <1>6, <1>7, <1>8, <1>9 DEF Inv

\* A store comes or goes.
LEMMA DisturbInv ==
  ASSUME Inv, Witness, Disturb
  PROVE  Inv'
<1>1. /\ UNCHANGED <<startVars, ex, log>> /\ readable' \subseteq Store
  BY DEF Disturb, Inv, TypeOK
<1>2. Usable' \subseteq Store
  BY <1>1 DEF Usable, Store
<1>3. TypeOK'
  <2>1. up' \in [Request -> SUBSET Store] /\ down' \in [Request -> SUBSET Store]
    BY <1>2, WitnessFacts DEF Inv, Witness, TypeOK
  <2> QED
    BY <1>1, <2>1 DEF Inv, TypeOK, startVars
<1>4. ConfigInv' /\ BuildInv' /\ DiscoverySuffices'
  BY <1>1 DEF Inv, ConfigInv, BuildInv, DiscoverySuffices, startVars
<1>5. ExchangeInv' /\ LogInv'
  BY <1>1 DEF Inv, ExchangeInv, LogInv
<1>6. LoggedInv'
  BY <1>1 DEF Inv, LoggedInv, LoggedOf, HasEntry, HasError, startVars
<1>7. ProbeInv'
  <2> SUFFICES ASSUME NEW q \in Request
               PROVE  (/\ ex[q].at = "received" /\ ex[q].route = "/readyz" =>
                            /\ ex[q].passed \subseteq up[q]
                            /\ Usable \subseteq up[q] /\ Store \ Usable \subseteq down[q]
                       /\ ex[q].body = "ready" => up[q] = Store
                       /\ ex[q].failed \subseteq down[q])'
    BY DEF ProbeInv
  <2>1. /\ up[q] \subseteq up'[q] /\ down[q] \subseteq down'[q] /\ up'[q] \subseteq Store
        /\ ex'[q].at = "received" /\ ex'[q].route = "/readyz" =>
             Usable' \subseteq up'[q] /\ Store \ Usable' \subseteq down'[q]
    BY <1>2, <1>3, WitnessFacts DEF Inv, TypeOK
  <2> QED
    BY <1>1, <2>1 DEF Inv, ProbeInv
<1> QED
  BY <1>3, <1>4, <1>5, <1>6, <1>7 DEF Inv

\* So do all steps.
LEMMA NextInv == Inv /\ [Next]_vars => Inv'
<1> SUFFICES ASSUME Inv, [Next]_vars PROVE Inv'
  OBVIOUS
<1>1. CASE Start /\ Witness
  BY <1>1, StartInv
<1>2. CASE Disturb /\ Witness
  BY <1>2, DisturbInv
<1>3. ASSUME NEW q \in Request, Step(q), Witness PROVE Inv'
  <2>1. ASSUME NEW sent \in Sends[q], Receive(q, sent[1], sent[2]) PROVE Inv'
    <3>1. sent[1] \in Route /\ sent[2] \in Credential
      BY SendsAssumption
    <3> QED
      BY <1>3, <2>1, <3>1, ReceiveInv
  <2>2. ASSUME NEW name, Call(q, name) PROVE Inv'
    BY <1>3, <2>2, QuietCallInv, CallForbiddenInv, CallFailsInv DEF Call
  <2>3. CASE Serve(q)
    <3>1. CASE \/ Health(q) \/ Ready(q) \/ Metadata(q) \/ NotFound(q) \/ NoBearer(q)
               \/ ExpiresMeanwhile(q)
      BY <1>3, <3>1, QuietAnswerInv
    <3>2. CASE CheckFails(q) \/ VerifierRejects(q) \/ VerifierFails(q)
      BY <1>3, <3>2, ReasonedAnswerInv
    <3>3. CASE CheckPasses(q) \/ VerifierAccepts(q)
      BY <1>3, <3>3, AdmittedInv
    <3>4. CASE LogRequest(q)
      BY <1>3, <3>4, LogRequestInv
    <3>5. CASE List(q)
      BY <1>3, <3>5, ListInv
    <3>6. CASE TransportReturns(q)
      BY <1>3, <3>6, TransportInv
    <3> QED
      BY <2>2, <2>3, <3>1, <3>2, <3>3, <3>4, <3>5, <3>6 DEF Serve
  <2>4. CASE RefuseHost(q) \/ TransportWrites(q) \/ TransportReturns(q)
    BY <1>3, <2>4, TransportInv
  <2>5. CASE Panic(q)
    BY <1>3, <2>5, PanicInv
  <2> QED
    BY <1>3, <2>1, <2>3, <2>4, <2>5 DEF Step
<1>4. CASE UNCHANGED vars
  <2>1. TypeOK'
    BY <1>4 DEF Inv, TypeOK, vars, startVars
  <2>2. ConfigInv' /\ BuildInv' /\ DiscoverySuffices'
    BY <1>4 DEF Inv, ConfigInv, BuildInv, DiscoverySuffices, vars, startVars
  <2>3. ExchangeInv' /\ LogInv'
    BY <1>4 DEF Inv, ExchangeInv, LogInv, vars, startVars
  <2>4. LoggedInv'
    BY <1>4 DEF Inv, LoggedInv, LoggedOf, HasEntry, HasError, vars, startVars
  <2>5. ProbeInv'
    BY <1>4 DEF Inv, ProbeInv, Usable, vars, startVars
  <2> QED
    BY <2>1, <2>2, <2>3, <2>4, <2>5 DEF Inv
<1> QED
  BY <1>1, <1>2, <1>3, <1>4 DEF Next

\* The invariant always holds.
LEMMA AlwaysInv == Spec => []Inv
  BY InitInv, NextInv, PTL DEF Spec

-----------------------------------------------------------------------------
(* What it says.                                                            *)

\* Every variable keeps its type: responses, entries of the log, configuration, registry.
THEOREM TypeCorrect == Spec => []TypeOK
<1>1. Inv => TypeOK
  BY DEF Inv
<1> QED
  BY <1>1, AlwaysInv, PTL

\* The line of a finished request names the status that was sent, unless a flush or an
\* informational status came first, and it names nobody but the owner of the credential,
\* and them if a handler was run for them (logging.go).
THEOREM LogSound == Spec => []LogIsTrue
<1>1. Inv => LogIsTrue
  <2> SUFFICES ASSUME Inv, NEW l \in log, l.what = "request"
               PROVE  /\ ex[l.of].at = "done" => l.status = ex[l.of].sent \/ ex[l.of].early
                      /\ l.subject \in {Nobody, ex[l.of].cred}
                      /\ ex[l.of].principal \subseteq {l.subject}
    BY DEF LogIsTrue
  <2>1. PICK q \in Request : q = l.of
    BY DEF Inv, TypeOK, Entry
  <2>2. (l.status = ex[q].sent \/ ex[q].early) /\ l.subject = ex[q].who
    BY <2>1 DEF Inv, LogInv, EntryTrue
  <2>3. ex[q].who \in {Nobody, ex[q].cred} /\ ex[q].principal \subseteq {ex[q].who}
    BY DEF Inv, ExchangeInv, Known
  <2> QED
    BY <2>1, <2>2, <2>3
<1> QED
  BY <1>1, AlwaysInv, PTL

\* There is an entry at level error for whatever was the server's fault and for nothing
\* else, whatever LOG_LEVEL is (logging.go, auth.go, mcp.go).
THEOREM FaultsLogged == Spec => []FaultsAreLogged
<1>1. Inv => FaultsAreLogged
  <2> SUFFICES ASSUME Inv, NEW q \in Request, ex[q].at = "done"
               PROVE  (\E l \in log : l.of = q /\ l.level = "error")
                        <=> ex[q].sent >= 500 \/ ex[q].body = "internalError"
    BY DEF FaultsAreLogged
  <2>1. Told(ex[q]) /\ LoggedOf(q)
    BY DEF Inv, ExchangeInv, LoggedInv
  <2>2. ASSUME NEW l \in log, l.of = q, l.level = "error"
        PROVE  ex[q].sent >= 500 \/ ex[q].body = "internalError"
    <3>1. EntryTrue(l, ex[q])
      BY <2>2 DEF Inv, LogInv
    <3> QED
      BY <2>1, <2>2, <3>1 DEF EntryTrue, Told
  <2>3. ex[q].sent >= 500 \/ ex[q].body = "internalError" => HasError(q)
    BY <2>1 DEF LoggedOf
  <2> QED
    BY <2>2, <2>3 DEF HasError
<1> QED
  BY <1>1, AlwaysInv, PTL

\* A refusal has its reason in the log, a reason belongs to a refusal, and a failure is
\* answered and logged as one (Verifier and rejected in auth.go).
THEOREM RejectionExplained == Spec => []RejectionIsExplained
<1>1. Inv => RejectionIsExplained
  <2> SUFFICES ASSUME Inv, NEW q \in Request, ex[q].at = "done"
               PROVE  /\ HasEntry(q, "authRejected") => ex[q].sent = 401 /\ ex[q].who = Nobody
                      /\ /\ ex[q].sent = 401 /\ ex[q].cred # "none"
                         /\ cfg.LOG_LEVEL \in {"debug", "info"}
                         => HasEntry(q, "authRejected") \/ ex[q].who # Nobody
                      /\ HasEntry(q, "authFailed") <=> ex[q].route \in Mcp /\ ex[q].sent = 500
    BY DEF RejectionIsExplained, HasEntry
  <2>1. Told(ex[q]) /\ LoggedOf(q)
    BY DEF Inv, ExchangeInv, LoggedInv
  <2>2. \A l \in log : l.of = q => EntryTrue(l, ex[q])
    BY DEF Inv, LogInv
  <2>3. HasEntry(q, "authRejected") => ex[q].sent = 401 /\ ex[q].who = Nobody
    BY <2>2 DEF HasEntry, EntryTrue
  <2>4. /\ ex[q].sent = 401 /\ ex[q].cred # "none" /\ cfg.LOG_LEVEL \in {"debug", "info"}
        => HasEntry(q, "authRejected") \/ ex[q].who # Nobody
    BY <2>1 DEF Told, LoggedOf
  <2>5. HasEntry(q, "authFailed") => ex[q].body = "failed"
    BY <2>2 DEF HasEntry, EntryTrue
  <2>6. ex[q].body = "failed" <=> ex[q].route \in Mcp /\ ex[q].sent = 500
    BY <2>1 DEF Told
  <2>7. ex[q].body = "failed" => HasEntry(q, "authFailed")
    BY <2>1 DEF LoggedOf
  <2> QED
    BY <2>3, <2>4, <2>5, <2>6, <2>7
<1> QED
  BY <1>1, AlwaysInv, PTL

\* A probe that answers "ready" saw each store usable since it arrived, and blames only
\* a store that was not (ReadyHandler), although its checks run at different times.
THEOREM ProbeSound == Spec => []ProbeIsTrue
<1>1. Inv => ProbeIsTrue
  BY DEF Inv, ProbeInv, ProbeIsTrue
<1> QED
  BY <1>1, AlwaysInv, PTL

\* Who holds the scopes of the metadata document is refused no tool and listed all of
\* them, for any tools and any scopes (Registry.Scopes, filterListedTools, CallTool).
THEOREM DiscoverySound == Spec => []DiscoverySuffices
<1>1. Inv => DiscoverySuffices
  BY DEF Inv
<1> QED
  BY <1>1, AlwaysInv, PTL

\* One correction of what was reported is enough, and what Load accepts Build can use
\* (Load in config.go, Build in app.go).
THEOREM ConfigSound == Spec => []ConfigIsComplete
<1>1. Inv => ConfigIsComplete
  BY DEF Inv, ConfigInv, ConfigIsComplete
<1> QED
  BY <1>1, AlwaysInv, PTL

===============================================================================
