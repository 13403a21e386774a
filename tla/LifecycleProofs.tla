---------------------------- MODULE LifecycleProofs ----------------------------
(***************************************************************************)
(* Theorems about the life of the process, for any number of requests,     *)
(* streams and signals.                                                    *)
(***************************************************************************)
EXTENDS Lifecycle, TLAPS

Running == {"selecting", "shutting", "collecting"}
Starting == {"starting", "loading", "building", "listening"}

\* The goroutine that serves exists once there is a listener, and Shutdown is what
\* closes that.
ServeInv ==
  /\ main \in Starting => serve = "none"
  /\ main \in Running => serve # "none"
  /\ closing => main \in {"shutting", "collecting", "gone"}
  /\ exit = "running" <=> main # "gone"

\* It sends one message, its last act; while nobody has received it, it says how the
\* goroutine ended, and before a shutdown that can only be badly.
ErrsInv ==
  /\ serve # "ended" => errs = <<>> /\ ~ failed
  /\ main \in Running /\ serve = "ended" => errs = <<IF failed THEN "error" ELSE "nil">>
  /\ main = "selecting" /\ serve = "ended" => failed

\* The requests cut off are those a process left behind; Shutdown without an error
\* has left none.
DrainInv ==
  /\ main # "gone" => \A r \in Request : request[r] # "cut"
  /\ main \in {"shutting", "collecting"} => closing
  /\ main = "collecting" /\ ~ late => Active = {}

Inv ==
  /\ TypeOK /\ ServeInv /\ ErrsInv /\ DrainInv
  /\ FailureIsReported /\ NoGoroutineLeft /\ CleanExitCutsNobody

\* The sequences the channel holds.
LEMMA Channel ==
  /\ Append(<<>>, "error") = <<"error">> /\ Append(<<>>, "nil") = <<"nil">>
  /\ \A m \in {"nil", "error"} : /\ Head(<<m>>) = m /\ Tail(<<m>>) = <<>> /\ <<m>> # <<>>
  OBVIOUS

\* main starts in a state that satisfies all of it.
LEMMA InitInv == Init => Inv
<1> SUFFICES ASSUME Init PROVE Inv
  OBVIOUS
<1> USE SignalBoundAssumption DEF Init
<1>1. TypeOK
  <2>1. request \in [Request -> {"absent", "active", "answered", "abandoned", "cut"}]
    OBVIOUS
  <2>2. errs \in {<<>>, <<"nil">>, <<"error">>} /\ signals \in 0 .. MaxSignals
    OBVIOUS
  <2> QED
    BY <2>1, <2>2 DEF TypeOK
<1>2. ServeInv /\ ErrsInv
  BY DEF ServeInv, ErrsInv, Running, Starting
<1>3. DrainInv
  BY DEF DrainInv
<1>4. FailureIsReported /\ NoGoroutineLeft /\ CleanExitCutsNobody
  BY DEF FailureIsReported, NoGoroutineLeft, CleanExitCutsNobody
<1> QED
  BY <1>1, <1>2, <1>3, <1>4 DEF Inv

\* Every step keeps it.
LEMMA StepInv == Inv /\ [Next]_vars => Inv'
<1> SUFFICES ASSUME Inv, [Next]_vars PROVE Inv'
  OBVIOUS
<1> USE Channel, SignalBoundAssumption
    DEF Inv, TypeOK, ServeInv, ErrsInv, DrainInv, Active, Running, Starting, FailureIsReported,
        NoGoroutineLeft, CleanExitCutsNobody, mains, server
<1>1. CASE NotifyContext
  BY <1>1 DEF NotifyContext, Goto
<1>2. CASE Configure \/ Build
  BY <1>2 DEF Configure, Build, Goto
<1>3. CASE Listen
  BY <1>3 DEF Listen, Goto
<1>4. CASE ConfigFails
  BY <1>4 DEF ConfigFails, Exit
<1>5. CASE StartFails
  BY <1>5 DEF StartFails, Exit
<1>6. CASE SelectError
  BY <1>6 DEF SelectError, Exit
<1>7. CASE SelectDone
  BY <1>7 DEF SelectDone, Goto
<1>8. CASE Drained
  BY <1>8 DEF Drained, Goto
<1>9. CASE ShutdownFails
  BY <1>9 DEF ShutdownFails, Goto
<1>10. CASE Collect
  BY <1>10 DEF Collect, Exit
<1>11. CASE Goroutine
  <2>1. CASE Accepting
    BY <1>11, <2>1 DEF Goroutine, Accepting
  <2>2. CASE ServeEnds
    BY <1>11, <2>2 DEF Goroutine, ServeEnds
  <2> QED
    BY <1>11, <2>1, <2>2 DEF Goroutine
<1>12. CASE main # "gone" /\ ServeFails
  BY <1>12 DEF ServeFails
<1>13. ASSUME NEW r \in Request, Arrive(r) \/ Answer(r) \/ Abandon(r) PROVE Inv'
  BY <1>13 DEF Arrive, Answer, Abandon, Become
<1>14. CASE GraceEnds
  BY <1>14 DEF GraceEnds
<1>15. CASE Signal
  <2>1. signals' \in 0 .. MaxSignals
    BY <1>15 DEF Signal
  <2>2. CASE SignalKills
    BY <1>15, <2>1, <2>2 DEF Signal, SignalKills, Exit
  <2>3. CASE SignalCancels
    BY <1>15, <2>1, <2>3 DEF Signal, SignalCancels
  <2> QED
    BY <1>15, <2>2, <2>3 DEF Signal
<1>16. CASE Gone \/ UNCHANGED vars
  BY <1>16 DEF Gone, vars
<1> QED
  BY <1>1, <1>2, <1>3, <1>4, <1>5, <1>6, <1>7, <1>8, <1>9, <1>10, <1>11, <1>12, <1>13,
     <1>14, <1>15, <1>16 DEF Next, Main

\* The invariant of every behaviour.
LEMMA Invariance == Spec => []Inv
  BY InitInv, StepInv, PTL DEF Spec

\* Every variable keeps its type: above all, no second message is ever sent on the
\* channel, which holds one, so that no goroutine waits to send.
THEOREM TypeCorrect == Spec => []TypeOK
<1>1. Inv => TypeOK
  BY DEF Inv
<1> QED
  BY <1>1, Invariance, PTL

\* An error of the listener is the error the process ends with, whichever branch
\* select takes (Serve in app.go).
THEOREM FailureReported == Spec => []FailureIsReported
<1>1. Inv => FailureIsReported
  BY DEF Inv
<1> QED
  BY <1>1, Invariance, PTL

\* Serve does not return before the goroutine it started has ended and its report was
\* received.
THEOREM GoroutineCollected == Spec => []NoGoroutineLeft
<1>1. Inv => NoGoroutineLeft
  BY DEF Inv
<1> QED
  BY <1>1, Invariance, PTL

\* A process that ends without an error has cut no request off, however many there
\* were and however many of them were streams.
THEOREM CleanExit == Spec => []CleanExitCutsNobody
<1>1. Inv => CleanExitCutsNobody
  BY DEF Inv
<1> QED
  BY <1>1, Invariance, PTL

===============================================================================
