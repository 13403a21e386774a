------------------------------- MODULE Lifecycle -------------------------------
(***************************************************************************)
(* The process from its first statement to its exit: main in               *)
(* cmd/mcpskeleton/main.go and Serve in internal/app/app.go.  Actors: the  *)
(* main goroutine, the goroutine that runs http.Server.Serve, the          *)
(* handlers, the operator who sends signals, and the grace timer.          *)
(***************************************************************************)
EXTENDS Naturals, Sequences

CONSTANTS
  Request,    \* requests that may arrive
  Stream,     \* those whose response is held open: no WriteTimeout ends it
  MaxSignals  \* bound: signals sent to the process

ASSUME StreamAssumption == Stream \subseteq Request
ASSUME SignalBoundAssumption == MaxSignals \in Nat

VARIABLES
  main,      \* where the main goroutine is
  exit,      \* how the process ended
  notified,  \* does a signal reach NotifyContext, or the default handler?
  cancelled, \* is ctx, of which every request's context is a child, cancelled?
  signals,
  serve,     \* where the goroutine that serves is
  failed,    \* did it end with an error?
  closing,   \* has Shutdown closed the listener?
  errs,      \* the channel between the two, of capacity 1
  expired,   \* is the grace over?
  late,      \* did Shutdown return an error?
  request    \* what became of each request

mains == <<main, exit>>
server == <<serve, failed, closing, errs>>
vars == <<mains, notified, cancelled, signals, server, expired, late, request>>

TypeOK ==
  /\ main \in {"starting", "loading", "building", "listening", "selecting", "shutting",
               "collecting", "gone"}
  /\ exit \in {"running", "clean", "error", "killed"}
  /\ notified \in BOOLEAN /\ cancelled \in BOOLEAN /\ failed \in BOOLEAN
  /\ closing \in BOOLEAN /\ expired \in BOOLEAN /\ late \in BOOLEAN
  /\ signals \in 0 .. MaxSignals
  /\ serve \in {"none", "spawned", "accepting", "ended"}
  /\ errs \in {<<>>, <<"nil">>, <<"error">>}
  /\ request \in [Request -> {"absent", "active", "answered", "abandoned", "cut"}]

Init ==
  /\ main = "starting" /\ exit = "running"
  /\ notified = FALSE /\ cancelled = FALSE
  /\ signals = 0
  /\ serve = "none" /\ failed = FALSE /\ closing = FALSE /\ errs = <<>>
  /\ expired = FALSE /\ late = FALSE
  /\ request = [r \in Request |-> "absent"]

Active == {r \in Request : request[r] = "active"}

Goto(from, to) == main = from /\ main' = to /\ UNCHANGED exit

\* The process is gone, and with it every handler still at work.
Exit(code) ==
  /\ main' = "gone"
  /\ exit' = code
  /\ request' = [r \in Request |-> IF r \in Active THEN "cut" ELSE request[r]]

NotifyContext ==
  /\ Goto("starting", "loading")
  /\ notified' = TRUE
  /\ UNCHANGED <<cancelled, signals, server, expired, late, request>>

\* The environment makes a valid configuration, or a refused one.
Configure ==
  /\ Goto("loading", "building")
  /\ UNCHANGED <<notified, cancelled, signals, server, expired, late, request>>

ConfigFails ==
  /\ main = "loading"
  /\ Exit("error")
  /\ UNCHANGED <<notified, cancelled, signals, server, expired, late>>

\* A store cannot be made, or the address cannot be listened on.
StartFails ==
  /\ main \in {"building", "listening"}
  /\ Exit("error")
  /\ UNCHANGED <<notified, cancelled, signals, server, expired, late>>

Build ==
  /\ Goto("building", "listening")
  /\ UNCHANGED <<notified, cancelled, signals, server, expired, late, request>>

Listen ==
  /\ Goto("listening", "selecting")
  /\ serve' = "spawned"
  /\ UNCHANGED <<notified, cancelled, signals, failed, closing, errs, expired, late, request>>

-----------------------------------------------------------------------------
(* The goroutine that serves, and the handlers.                            *)

Accepting ==
  /\ serve = "spawned" /\ ~closing
  /\ serve' = "accepting"
  /\ UNCHANGED <<mains, notified, cancelled, signals, failed, closing, errs, expired, late, request>>

\* MUTANT of ServeFails: the return after the error is sent is forgotten.
ServeFailsThenEnds ==
  /\ serve = "accepting" /\ ~closing
  /\ serve' = "ended"
  /\ failed' = TRUE
  /\ errs' = errs \o <<"error", "nil">>
  /\ UNCHANGED <<mains, notified, cancelled, signals, closing, expired, late, request>>

\* The listener breaks; server.Serve returns its error.
ServeFails ==
  /\ serve = "accepting" /\ ~closing
  /\ serve' = "ended"
  /\ failed' = TRUE
  /\ errs' = Append(errs, "error")
  /\ UNCHANGED <<mains, notified, cancelled, signals, closing, expired, late, request>>

\* MUTANT of ServeEnds: nothing is sent when the server was closed.
ServeEndsInSilence ==
  /\ serve \in {"spawned", "accepting"} /\ closing
  /\ serve' = "ended"
  /\ UNCHANGED <<mains, notified, cancelled, signals, failed, closing, errs, expired, late, request>>

\* server.Serve returns ErrServerClosed, which is no error.
ServeEnds ==
  /\ serve \in {"spawned", "accepting"} /\ closing
  /\ serve' = "ended"
  /\ errs' = Append(errs, "nil")
  /\ UNCHANGED <<mains, notified, cancelled, signals, failed, closing, expired, late, request>>

Become(r, from, to) ==
  /\ main # "gone"
  /\ request[r] = from
  /\ request' = [request EXCEPT ![r] = to]
  /\ UNCHANGED <<mains, notified, cancelled, signals, server, expired, late>>

Arrive(r) == serve = "accepting" /\ ~closing /\ Become(r, "absent", "active")
Answer(r) == Become(r, "active", "answered")

\* BaseContext hands ctx to every request: a handler that watches its context,
\* as the transport does while it holds a response open, gives up with ctx.
Abandon(r) == cancelled /\ Become(r, "active", "abandoned")

-----------------------------------------------------------------------------
(* The main goroutine waits, and shuts down.                               *)

SelectError ==
  /\ main = "selecting" /\ errs # <<>>
  /\ Exit(IF Head(errs) = "nil" THEN "clean" ELSE "error")
  /\ errs' = Tail(errs)
  /\ UNCHANGED <<notified, cancelled, signals, serve, failed, closing, expired, late>>

\* Both channels may be ready: select takes either.
SelectDone ==
  /\ cancelled
  /\ Goto("selecting", "shutting")
  /\ closing' = TRUE
  /\ UNCHANGED <<notified, cancelled, signals, serve, failed, errs, expired, late, request>>

\* MUTANT of Drained: Shutdown is not waited for.
NotDrained ==
  /\ Goto("shutting", "collecting")
  /\ UNCHANGED <<notified, cancelled, signals, server, expired, late, request>>

\* Shutdown has seen every connection fall idle.
Drained ==
  /\ Active = {}
  /\ Goto("shutting", "collecting")
  /\ UNCHANGED <<notified, cancelled, signals, server, expired, late, request>>

GraceEnds ==
  /\ main = "shutting" /\ ~expired
  /\ expired' = TRUE
  /\ UNCHANGED <<mains, notified, cancelled, signals, server, late, request>>

\* MUTANT of ShutdownFails: Serve returns without waiting for the goroutine.
ShutdownFailsAtOnce ==
  /\ main = "shutting" /\ expired
  /\ Exit("error")
  /\ late' = TRUE
  /\ UNCHANGED <<notified, cancelled, signals, server, expired>>

\* Shutdown gives up on the handlers still at work and reports it.
ShutdownFails ==
  /\ expired
  /\ Goto("shutting", "collecting")
  /\ late' = TRUE
  /\ UNCHANGED <<notified, cancelled, signals, server, expired, request>>

\* MUTANT of Collect: after a shutdown without error what the goroutine sent is
\* received but not returned.
CollectDropsError ==
  /\ main = "collecting" /\ errs # <<>>
  /\ Exit(IF late THEN "error" ELSE "clean")
  /\ errs' = Tail(errs)
  /\ UNCHANGED <<notified, cancelled, signals, serve, failed, closing, expired, late>>

\* The receive from errs; Shutdown's error comes before the goroutine's.
Collect ==
  /\ main = "collecting" /\ errs # <<>>
  /\ Exit(IF late \/ Head(errs) = "error" THEN "error" ELSE "clean")
  /\ errs' = Tail(errs)
  /\ UNCHANGED <<notified, cancelled, signals, serve, failed, closing, expired, late>>

-----------------------------------------------------------------------------
(* SIGINT and SIGTERM.                                                     *)

SignalKills ==
  /\ ~notified
  /\ Exit("killed")
  /\ UNCHANGED cancelled

\* NotifyContext keeps the handler until stop, which main defers to its return:
\* a further signal is caught as well, and does nothing.
SignalCancels ==
  /\ notified
  /\ cancelled' = TRUE
  /\ UNCHANGED <<mains, request>>

Signal ==
  /\ main # "gone"
  /\ signals < MaxSignals
  /\ signals' = signals + 1
  /\ SignalKills \/ SignalCancels
  /\ UNCHANGED <<notified, server, expired, late>>

Main ==
  \/ NotifyContext
  \/ Configure \/ ConfigFails
  \/ StartFails \/ Build \/ Listen
  \/ SelectError \/ SelectDone
  \/ Drained \/ ShutdownFails \/ Collect

Goroutine == main # "gone" /\ (Accepting \/ ServeEnds)

Gone == main = "gone" /\ UNCHANGED vars

Next ==
  \/ Main
  \/ Goroutine
  \/ main # "gone" /\ ServeFails
  \/ \E r \in Request : Arrive(r) \/ Answer(r) \/ Abandon(r)
  \/ GraceEnds
  \/ Signal
  \/ Gone

Spec == Init /\ [][Next]_vars

\* Goroutines are scheduled and the timer fires.  Nothing makes a client send,
\* the listener break, an operator signal, or a stream end.
FairSpec ==
  /\ Spec
  /\ WF_vars(Main) /\ WF_vars(Goroutine) /\ WF_vars(GraceEnds)
  /\ \A r \in Request \ Stream : WF_vars(Answer(r))

-----------------------------------------------------------------------------

\* An error of the listener is the error the process ends with, also when the
\* signal comes at the same moment and select takes the other branch.
FailureIsReported == failed /\ exit \in {"clean", "error"} => exit = "error"

\* Serve never returns while its goroutine still runs, nor before it has received
\* what the goroutine reported (app.go:192-196).
NoGoroutineLeft ==
  main = "gone" /\ exit # "killed" => serve \in {"none", "ended"} /\ errs = <<>>

\* A process that says it ended well has cut no request off.
CleanExitCutsNobody == exit = "clean" => \A r \in Request : request[r] # "cut"

\* However many streams are open, a signal ends the process: nobody waits for
\* a channel nobody sends on.
SignalEndsProcess == cancelled ~> main = "gone"

\* main.go:19-21: "A second signal is left to the default handler, so an
\* operator who has lost patience can still kill the process."
SecondSignalKills == signals > 1 => main = "gone"

\* app.go:186-188: reusing ctx "would abandon in-flight requests instantly
\* rather than giving them the grace period".
GraceIsGiven == \A r \in Request : request[r] = "abandoned" => expired

===============================================================================
