---------------------------- MODULE SublistsProofs ----------------------------
(***************************************************************************)
(* What a Sublist is, for every list.  The provers do not take induction   *)
(* over the natural numbers as a schema; it is stated here of sets, and    *)
(* comes from the fact that a set of naturals has a least element.         *)
(***************************************************************************)
EXTENDS Sublists, WellFoundedInduction, TLAPS

\* A set of naturals with 0 and the successors of its elements is all of them.
LEMMA Induction ==
  ASSUME NEW N \in SUBSET Nat, 0 \in N, \A n \in N : n + 1 \in N
  PROVE  N = Nat
<1> SUFFICES ASSUME Nat \ N # {} PROVE FALSE
  OBVIOUS
<1>1. PICK x \in Nat \ N : \A y \in Nat \ N : ~ (<<y, x>> \in OpToRel(<, Nat))
  BY WFMin, NatLessThanWellFounded
<1>2. \A y \in Nat \ N : ~ (y < x)
  BY <1>1 DEF OpToRel
<1>3. x # 0 /\ x - 1 \in Nat /\ x - 1 < x /\ (x - 1) + 1 = x
  OBVIOUS
<1> QED
  BY <1>2, <1>3

-----------------------------------------------------------------------------
(* The loop.                                                                *)

\* f[i] is the result of the loop after i of its first n rounds.
Run(f, n, list, S) ==
  /\ DOMAIN f = 0 .. n
  /\ f[0] = <<>>
  /\ \A i \in 1 .. n : f[i] = IF list[i] \in S THEN Append(f[i - 1], list[i]) ELSE f[i - 1]

\* The loop has a run.
LEMMA RunExists ==
  ASSUME NEW T, NEW list \in Seq(T), NEW S, NEW n \in Nat, n <= Len(list)
  PROVE  \E f \in [0 .. n -> Seq(T)] : Run(f, n, list, S)
<1> DEFINE N == {k \in Nat : k <= Len(list) => \E f \in [0 .. k -> Seq(T)] : Run(f, k, list, S)}
<1>1. 0 \in N
  <2>1. [i \in 0 .. 0 |-> <<>>] \in [0 .. 0 -> Seq(T)]
    OBVIOUS
  <2>2. Run([i \in 0 .. 0 |-> <<>>], 0, list, S)
    BY DEF Run
  <2> QED
    BY <2>1, <2>2
<1>2. ASSUME NEW k \in N PROVE k + 1 \in N
  <2> SUFFICES ASSUME k + 1 <= Len(list)
               PROVE  \E f \in [0 .. k + 1 -> Seq(T)] : Run(f, k + 1, list, S)
    OBVIOUS
  <2>1. PICK f \in [0 .. k -> Seq(T)] : Run(f, k, list, S)
    OBVIOUS
  <2> DEFINE last == IF list[k + 1] \in S THEN Append(f[k], list[k + 1]) ELSE f[k]
             g == [i \in 0 .. k + 1 |-> IF i = k + 1 THEN last ELSE f[i]]
  <2>2. last \in Seq(T)
    OBVIOUS
  <2> HIDE DEF last
  <2>3. g \in [0 .. k + 1 -> Seq(T)]
    BY <2>2
  <2>4. \A i \in 1 .. k + 1 : g[i] = IF list[i] \in S THEN Append(g[i - 1], list[i]) ELSE g[i - 1]
    BY <2>1, SMTT(30) DEF Run, last
  <2>5. DOMAIN g = 0 .. k + 1 /\ g[0] = <<>>
    BY <2>1 DEF Run
  <2>6. Run(g, k + 1, list, S)
    BY <2>4, <2>5 DEF Run
  <2> QED
    BY <2>3, <2>6
<1> HIDE DEF N
<1>3. N = Nat
  BY <1>1, <1>2, Induction DEF N
<1> QED
  BY <1>3 DEF N

\* The first n elements of two lists are the same.
Alike(list, longer, n) == \A i \in 1 .. n : list[i] = longer[i]

\* Lists that begin alike have runs that begin alike.
LEMMA RunUnique ==
  ASSUME NEW f, NEW g, NEW n \in Nat, NEW m \in Nat, n <= m, NEW list, NEW longer, NEW S,
         Run(f, n, list, S), Run(g, m, longer, S),
         Alike(list, longer, n)
  PROVE  \A i \in 0 .. n : f[i] = g[i]
<1> DEFINE N == {k \in Nat : k <= n => f[k] = g[k]}
<1>1. 0 \in N
  BY DEF Run
<1>2. ASSUME NEW k \in N PROVE k + 1 \in N
  BY DEF Run, Alike
<1> HIDE DEF N
<1>3. N = Nat
  BY <1>1, <1>2, Induction DEF N
<1> QED
  BY <1>3 DEF N

\* The Sublist is the result of every run through the whole list.
LEMMA SublistOfRun ==
  ASSUME NEW T, NEW list \in Seq(T), NEW S, NEW f, Run(f, Len(list), list, S)
  PROVE  Sublist(list, S) = f[Len(list)]
<1> DEFINE n == Len(list)
           Loop(g) == g = [i \in 0 .. n |->
                             IF i = 0 THEN <<>>
                             ELSE IF list[i] \in S THEN Append(g[i - 1], list[i]) ELSE g[i - 1]]
           h == CHOOSE g : Loop(g)
<1>0. n \in Nat /\ n <= Len(list)
  OBVIOUS
<1>1. PICK g \in [0 .. n -> Seq(T)] : Run(g, n, list, S)
  BY <1>0, RunExists
<1>2. Loop(g)
  <2>1. g = [i \in 0 .. n |-> g[i]]
    OBVIOUS
  <2>2. ASSUME NEW i \in 0 .. n
        PROVE  g[i] = IF i = 0 THEN <<>>
                      ELSE IF list[i] \in S THEN Append(g[i - 1], list[i]) ELSE g[i - 1]
    <3>1. i = 0 \/ i \in 1 .. n
      BY <1>0
    <3> QED
      BY <3>1, <1>1 DEF Run
  <2> QED
    BY <2>1, <2>2
<1>3. Loop(h)
  BY <1>2
<1>4. Sublist(list, S) = h[n]
  BY DEF Sublist
<1> HIDE DEF h
<1>5. Run(h, n, list, S)
  <2>1. DOMAIN h = 0 .. n
    BY <1>3
  <2>2. \A i \in 0 .. n : h[i] = IF i = 0 THEN <<>>
                                 ELSE IF list[i] \in S THEN Append(h[i - 1], list[i]) ELSE h[i - 1]
    BY <1>3
  <2>3. h[0] = <<>>
    BY <1>0, <2>2
  <2>4. \A i \in 1 .. n : i \in 0 .. n /\ i # 0
    BY <1>0
  <2> HIDE DEF Loop
  <2> QED
    BY <2>1, <2>2, <2>3, <2>4 DEF Run
<1> QED
  BY <1>0, <1>4, <1>5, RunUnique DEF Alike

-----------------------------------------------------------------------------
(* The lemmas to cite.                                                      *)

\* Nothing of nothing.
LEMMA SublistEmpty ==
  ASSUME NEW S
  PROVE  Sublist(<<>>, S) = <<>>
<1>1. Run([i \in 0 .. 0 |-> <<>>], Len(<<>>), <<>>, S)
  BY DEF Run
<1> QED
  BY <1>1, SublistOfRun

\* A sublist has the type of its list.
LEMMA SublistType ==
  ASSUME NEW T, NEW list \in Seq(T), NEW S
  PROVE  Sublist(list, S) \in Seq(T)
<1>0. Len(list) \in Nat /\ Len(list) <= Len(list)
  OBVIOUS
<1>1. PICK f \in [0 .. Len(list) -> Seq(T)] : Run(f, Len(list), list, S)
  BY <1>0, RunExists
<1> QED
  BY <1>1, SublistOfRun

\* An element appended to a list is appended to the sublist, if it qualifies.
LEMMA SublistAppend ==
  ASSUME NEW T, NEW list \in Seq(T), NEW S, NEW e \in T
  PROVE  Sublist(Append(list, e), S) =
           IF e \in S THEN Append(Sublist(list, S), e) ELSE Sublist(list, S)
<1> DEFINE longer == Append(list, e)
           n == Len(list)
<1>0. n \in Nat /\ n <= Len(list) /\ n + 1 \in Nat /\ n <= n + 1
  OBVIOUS
<1>1. /\ longer \in Seq(T) /\ Len(longer) = n + 1 /\ longer[n + 1] = e
      /\ \A i \in 1 .. n : list[i] = longer[i]
  OBVIOUS
<1>2. PICK f \in [0 .. n -> Seq(T)] : Run(f, n, list, S)
  BY <1>0, RunExists
<1>3. PICK g \in [0 .. n + 1 -> Seq(T)] : Run(g, n + 1, longer, S)
  BY <1>0, <1>1, RunExists, SMTT(30)
<1> HIDE DEF longer
<1>4. f[n] = g[n]
  <2>1. Alike(list, longer, n)
    BY <1>1 DEF Alike
  <2>2. \A i \in 0 .. n : f[i] = g[i]
    BY <1>0, <1>2, <1>3, <2>1, RunUnique
  <2> QED
    BY <1>0, <2>2
<1>5. g[n + 1] = IF e \in S THEN Append(g[n], e) ELSE g[n]
  BY <1>1, <1>3 DEF Run
<1>6. Sublist(list, S) = f[n] /\ Sublist(longer, S) = g[n + 1]
  BY <1>1, <1>2, <1>3, SublistOfRun
<1> QED
  BY <1>4, <1>5, <1>6 DEF longer

\* Its elements are those of the list that qualify.
LEMMA SublistRange ==
  ASSUME NEW T, NEW list \in Seq(T), NEW S
  PROVE  \A e : (\E i \in DOMAIN Sublist(list, S) : Sublist(list, S)[i] = e)
                  <=> e \in S /\ \E i \in DOMAIN list : list[i] = e
<1> DEFINE In(e, s) == \E i \in DOMAIN s : s[i] = e
<1>0. Len(list) \in Nat /\ Len(list) <= Len(list)
  OBVIOUS
<1>1. PICK f \in [0 .. Len(list) -> Seq(T)] : Run(f, Len(list), list, S)
  BY <1>0, RunExists
<1> DEFINE N == {k \in Nat : k <= Len(list) =>
                   \A e : In(e, f[k]) <=> e \in S /\ \E i \in 1 .. k : list[i] = e}
<1>2. 0 \in N
  BY <1>1 DEF Run
<1>3. ASSUME NEW k \in N PROVE k + 1 \in N
  <2> SUFFICES ASSUME k + 1 <= Len(list), NEW e
               PROVE  In(e, f[k + 1]) <=> e \in S /\ \E i \in 1 .. k + 1 : list[i] = e
    OBVIOUS
  <2>1. In(e, f[k]) <=> e \in S /\ \E i \in 1 .. k : list[i] = e
    OBVIOUS
  <2>2. f[k + 1] = IF list[k + 1] \in S THEN Append(f[k], list[k + 1]) ELSE f[k]
    BY <1>1 DEF Run
  <2>3. f[k] \in Seq(T) /\ list[k + 1] \in T
    OBVIOUS
  <2>4. \A s \in Seq(T), x \in T : In(e, Append(s, x)) <=> In(e, s) \/ e = x
    <3> SUFFICES ASSUME NEW s \in Seq(T), NEW x \in T
                 PROVE  In(e, Append(s, x)) <=> In(e, s) \/ e = x
      OBVIOUS
    <3>1. /\ DOMAIN Append(s, x) = DOMAIN s \cup {Len(s) + 1}
          /\ \A i \in DOMAIN s : Append(s, x)[i] = s[i]
          /\ Append(s, x)[Len(s) + 1] = x
      OBVIOUS
    <3> QED
      BY <3>1
  <2>5. (\E i \in 1 .. k + 1 : list[i] = e) <=> (\E i \in 1 .. k : list[i] = e) \/ list[k + 1] = e
    OBVIOUS
  <2> HIDE DEF In
  <2> QED
    BY <2>1, <2>2, <2>3, <2>4, <2>5
<1> HIDE DEF N
<1>4. N = Nat
  BY <1>2, <1>3, Induction DEF N
<1>5. \A e : In(e, f[Len(list)]) <=> e \in S /\ \E i \in 1 .. Len(list) : list[i] = e
  BY <1>4 DEF N
<1>6. Sublist(list, S) = f[Len(list)]
  BY <1>1, SublistOfRun
<1> QED
  BY <1>5, <1>6

\* Where nothing qualifies, nothing is left.
LEMMA SublistOfNone ==
  ASSUME NEW T, NEW list \in Seq(T), NEW S, S = {}
  PROVE  Sublist(list, S) = <<>>
<1> DEFINE s == Sublist(list, S)
<1>1. s \in Seq(T)
  BY SublistType
<1>2. ASSUME NEW i \in DOMAIN s PROVE FALSE
  <2>1. \A e : (\E j \in DOMAIN s : s[j] = e) <=> e \in S /\ \E j \in DOMAIN list : list[j] = e
    BY SublistRange
  <2> HIDE DEF s
  <2>2. ~ \E j \in DOMAIN s : s[j] = s[i]
    BY <2>1
  <2> QED
    BY <2>2
<1> HIDE DEF s
<1>3. Len(s) = 0
  <2>1. DOMAIN s = 1 .. Len(s) /\ Len(s) \in Nat
    BY <1>1
  <2>2. Len(s) # 0 => 1 \in DOMAIN s
    BY <2>1
  <2> QED
    BY <1>2, <2>2
<1> QED
  BY <1>1, <1>3 DEF s

===============================================================================
