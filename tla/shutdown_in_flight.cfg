SPECIFICATION Spec
CONSTANTS
  Request = {events}
  Stream = {events}
  MaxSignals = 1
INVARIANTS
  GraceIsGiven
