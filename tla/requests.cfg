SPECIFICATION Spec
SYMMETRY Interchangeable
CONSTANTS
  Subject = {alice, bob}
  EmptySubject = nobody
  TokenId = {k1, k2}
  Grant <- MCGrant
  Request = {q}
  BadCredential = bad
  Scope <- MCScope
  Never = never
  MaxTime = 1
  MaxNotes = 1
  MaxSlip = 1
  MaxRestart = 1
INVARIANTS
  TypeOK
  AcceptedWasLive
  RefusedWasDead
  NotesHaveAuthority
  ShownNeverForbidden
