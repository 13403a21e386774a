------------------------------- MODULE TokenTTL -------------------------------
(***************************************************************************)
(* `token issue --ttl` of cmd/mcpskeleton/token.go: how a lifetime becomes *)
(* the expiry of a credential.  A Duration is an integer of fixed width;   *)
(* the code's is 64 bits of nanoseconds, and an instance has fewer.        *)
(***************************************************************************)
EXTENDS Integers

CONSTANTS
  Half,    \* durations are the integers from -Half to Half - 1
  Hour,    \* units of time to an hour
  MaxDays, \* bound: the number of days that is asked for
  MaxTime  \* bound: the clock

\* What the theorems assume of the constants: at least a day fits.
Widths ==
  /\ Half \in Nat /\ Hour \in Nat /\ 0 < Hour /\ 24 * Hour < Half
  /\ MaxDays \in Nat /\ MaxTime \in Nat

VARIABLES
  pc,      \* how far the command is
  asked,   \* the argument of --ttl
  ttl,     \* what parseTTL made of it
  now,
  expires  \* the expiry the credential was issued with

vars == <<pc, asked, ttl, now, expires>>

Duration == -Half .. Half - 1

\* A product keeps the low bits.
Wrap(x) == ((x + Half) % (2 * Half)) - Half

\* "90d", or Go's own syntax, whose parser refuses what does not fit.
Argument == [unit : {"d"}, n : -1 .. MaxDays] \cup [unit : {"Go"}, n : {-1, 0, 1, Half - 1}]

NoArgument == [unit |-> "none", n |-> 0]

TypeOK ==
  /\ pc \in {"start", "parsed", "issued", "refused"}
  /\ asked \in Argument \cup {NoArgument}
  /\ ttl \in Duration
  /\ now \in 0 .. MaxTime
  /\ expires \in Int

Init ==
  /\ pc = "start"
  /\ asked \in Argument
  /\ ttl = 0
  /\ now = 0
  /\ expires = 0

Parses(d) ==
  /\ pc = "start" /\ pc' = "parsed"
  /\ ttl' = d
  /\ UNCHANGED <<asked, now, expires>>

\* time.Duration(n) * 24 * time.Hour
Days(n) == Wrap(Wrap(n * 24) * Hour)

\* Only the number is checked, not the product.
ParseDays ==
  /\ asked.unit = "d" /\ asked.n > 0
  /\ Parses(Days(asked.n))

\* time.ParseDuration
ParseDuration ==
  /\ asked.unit = "Go" /\ asked.n > 0
  /\ Parses(asked.n)

Refuse ==
  /\ pc = "start" /\ pc' = "refused"
  /\ asked.n <= 0
  /\ UNCHANGED <<asked, ttl, now, expires>>

\* The clock is read once the lifetime is known.
Issue ==
  /\ pc = "parsed" /\ pc' = "issued"
  /\ expires' = now + ttl
  /\ UNCHANGED <<asked, ttl, now>>

Tick ==
  /\ now < MaxTime /\ now' = now + 1
  /\ UNCHANGED <<pc, asked, ttl, expires>>

Next == ParseDays \/ ParseDuration \/ Refuse \/ Issue \/ Tick

Spec == Init /\ [][Next]_vars

-----------------------------------------------------------------------------

\* A lifetime that parseTTL lets through is positive, as its message says of the
\* ones it does not ("must be positive").
AcceptedIsPositive == pc \in {"parsed", "issued"} => ttl > 0

\* A credential lives exactly as long as was asked for, as long as that fits.
LivesAsAsked ==
  pc \in {"parsed", "issued"} =>
    \/ asked.unit = "Go" /\ ttl = asked.n
    \/ asked.unit = "d" /\ (24 * Hour * asked.n < Half => ttl = 24 * Hour * asked.n)

===============================================================================
