------------------------------- MODULE Registry -------------------------------
(***************************************************************************)
(* The registry of tools (internal/core/registry.go) and what the Service  *)
(* asks of it (internal/core/service.go).  Built once and never changed,   *)
(* so these are functions of the list of tools a build is made with.       *)
(***************************************************************************)
EXTENDS Naturals, Sequences, SequencesExt, Sublists

CONSTANTS
  Name,    \* names a tool may have, or a client may ask for
  Scope,   \* scopes a tool may require
  Holds    \* the scopes of each subject's credential

\* No name, and no scope: "" in the code.
Empty == ""

ASSUME NameAssumption == Empty \notin Name
ASSUME ScopeAssumption == Empty \notin Scope
ASSUME HoldsAssumption == \A subject \in DOMAIN Holds : Holds[subject] \subseteq Scope

Subject == DOMAIN Holds

\* The Store takes no subject without a name.
ASSUME SubjectAssumption == Empty \notin Subject

Tool == [name : Name \cup {Empty}, scope : Scope \cup {Empty}]

\* NewRegistry panics on anything else.  A nil tool counts as one without a name.
WellFormed(tools) ==
  /\ \A i \in DOMAIN tools : tools[i].name # Empty
  /\ \A i, j \in DOMAIN tools : tools[i].name = tools[j].name => i = j

\* The names, in the order the tools were given, and the tool of each.
NewRegistry(tools) == [
  order  |-> [i \in DOMAIN tools |-> tools[i].name],
  byName |-> [name \in {tools[i].name : i \in DOMAIN tools} |->
                CHOOSE t \in ToSet(tools) : t.name = name]]

\* Before the registry is made.
NoRegistry == NewRegistry(<<>>)

\* Lookup finds one tool or none.
Lookup(reg, name) == {reg.byName[n] : n \in DOMAIN reg.byName \cap {name}}

All(reg) == [i \in DOMAIN reg.order |-> reg.byName[reg.order[i]]]

\* MUTANT of Scopes: a tool that needs no scope counts as one that needs "".
ScopesWithEmpty(reg) == {reg.byName[name].scope : name \in ToSet(reg.order)}

\* MUTANT of Scopes: the loop starts at the second tool.
ScopesOfTail(reg) ==
  {All(reg)[i].scope : i \in DOMAIN reg.order \ {1}} \ {Empty}

Scopes(reg) == {reg.byName[name].scope : name \in ToSet(reg.order)} \ {Empty}

\* ScopeAuthorizer.Allow, which is Principal.HasScope.
Allow(subject, scope) == scope = Empty \/ scope \in Holds[subject]

ListTools(reg, subject) ==
  LET tools == All(reg)
  IN Sublist(tools, {t \in ToSet(tools) : Allow(subject, t.scope)})

===============================================================================
