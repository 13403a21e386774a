---------------------------- MODULE TokenTTLProofs ----------------------------
(* What parseTTL of cmd/mcpskeleton/token.go gets right, for every width of  *)
(* the integers.                                                             *)
EXTENDS TokenTTL, TLAPS

\* Wrapping leaves alone what fits, and always yields a Duration.
LEMMA WrapFits ==
  ASSUME Half \in Nat, 0 < Half, NEW x \in 0 .. Half - 1
  PROVE  Wrap(x) = x
<1>1. x + Half \in 0 .. (2 * Half) - 1
  OBVIOUS
<1>2. (x + Half) % (2 * Half) = x + Half
  BY <1>1, SMT
<1> QED
  BY <1>2 DEF Wrap

LEMMA WrapType ==
  ASSUME Half \in Nat, 0 < Half, NEW x \in Int
  PROVE  Wrap(x) \in Duration
<1>1. (x + Half) % (2 * Half) \in 0 .. (2 * Half) - 1
  BY SMT
<1> QED
  BY <1>1 DEF Wrap, Duration

\* The two products of parseTTL are exact whenever the whole lifetime fits.
LEMMA DaysFit ==
  ASSUME Widths, NEW n \in Nat, 0 < n, 24 * Hour * n < Half
  PROVE  Days(n) = 24 * Hour * n
<1>1. Half \in Nat /\ Hour \in Nat /\ 0 < Half /\ 1 <= Hour
  BY DEF Widths
<1>2. (n * 24) * Hour = 24 * Hour * n
  BY <1>1
<1>3. n * 24 <= (n * 24) * Hour
  BY <1>1
<1>4. n * 24 \in 0 .. Half - 1
  BY <1>1, <1>2, <1>3
<1>5. (n * 24) * Hour \in 0 .. Half - 1
  BY <1>1, <1>2, <1>3, <1>4
<1>6. Wrap(n * 24) = n * 24
  BY <1>1, <1>4, WrapFits
<1>7. Wrap((n * 24) * Hour) = (n * 24) * Hour
  BY <1>1, <1>5, WrapFits
<1> QED
  BY <1>2, <1>6, <1>7 DEF Days

-----------------------------------------------------------------------------

LEMMA InitInv ==
  ASSUME Widths, Init
  PROVE  TypeOK /\ LivesAsAsked
BY DEF Widths, Init, TypeOK, LivesAsAsked, Duration

LEMMA NextType ==
  ASSUME Widths, TypeOK, [Next]_vars
  PROVE  TypeOK'
<1>1. Half \in Nat /\ Hour \in Nat /\ 0 < Half /\ Half > 24
  BY DEF Widths
<1>2. CASE ParseDays
  <2>1. asked.n \in Int
    BY <1>1 DEF TypeOK, Argument, NoArgument, Widths
  <2>2. Wrap(asked.n * 24) \in Int
    BY <1>1, <2>1, WrapType DEF Duration
  <2>3. Days(asked.n) \in Duration
    BY <1>1, <2>2, WrapType DEF Days
  <2> QED
    BY <1>2, <2>3 DEF ParseDays, Parses, TypeOK
<1>3. CASE ParseDuration
  <2>1. asked.n \in {1, Half - 1}
    BY <1>1, <1>3 DEF ParseDuration, TypeOK, Argument, NoArgument
  <2> QED
    BY <1>1, <1>3, <2>1 DEF ParseDuration, Parses, TypeOK, Duration
<1>4. CASE Refuse
  BY <1>4 DEF Refuse, TypeOK
<1>5. CASE Issue
  BY <1>1, <1>5 DEF Issue, TypeOK, Duration
<1>6. CASE Tick
  BY <1>6 DEF Tick, TypeOK, Widths
<1>7. CASE UNCHANGED vars
  BY <1>7 DEF vars, TypeOK
<1> QED
  BY <1>2, <1>3, <1>4, <1>5, <1>6, <1>7 DEF Next

LEMMA NextLives ==
  ASSUME Widths, TypeOK, LivesAsAsked, [Next]_vars
  PROVE  LivesAsAsked'
<1>1. CASE ParseDays
  <2>1. asked.unit = "d" /\ asked.n \in Nat /\ 0 < asked.n
    BY <1>1 DEF ParseDays, TypeOK, Argument, NoArgument
  <2>2. 24 * Hour * asked.n < Half => Days(asked.n) = 24 * Hour * asked.n
    BY <2>1, DaysFit
  <2>3. asked' = asked /\ ttl' = Days(asked.n)
    BY <1>1 DEF ParseDays, Parses
  <2> QED
    BY <2>1, <2>2, <2>3 DEF LivesAsAsked
<1>2. CASE ParseDuration
  BY <1>2 DEF ParseDuration, Parses, LivesAsAsked
<1>3. CASE Refuse
  BY <1>3 DEF Refuse, LivesAsAsked
<1>4. CASE Issue
  BY <1>4 DEF Issue, LivesAsAsked
<1>5. CASE Tick
  BY <1>5 DEF Tick, LivesAsAsked
<1>6. CASE UNCHANGED vars
  BY <1>6 DEF vars, LivesAsAsked
<1> QED
  BY <1>1, <1>2, <1>3, <1>4, <1>5, <1>6 DEF Next

\* parseTTL never gets a lifetime wrong that fits in a Duration: whatever the
\* width, a credential asked for n days lives for exactly n days as long as n
\* days fit, and one asked for in Go's syntax for exactly what was asked.
THEOREM FittingLifetimesAreExact == Widths => (Spec => []LivesAsAsked)
<1>1. Widths /\ Init => TypeOK /\ LivesAsAsked
  BY InitInv
<1>2. Widths /\ TypeOK /\ LivesAsAsked /\ [Next]_vars => (TypeOK /\ LivesAsAsked)'
  BY NextType, NextLives
<1> SUFFICES ASSUME Widths PROVE Spec => []LivesAsAsked
  OBVIOUS
<1>3. Init => TypeOK /\ LivesAsAsked
  BY <1>1
<1>4. TypeOK /\ LivesAsAsked /\ [Next]_vars => (TypeOK /\ LivesAsAsked)'
  BY <1>2
<1> QED
  BY <1>3, <1>4, PTL DEF Spec

===============================================================================
