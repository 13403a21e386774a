SPECIFICATION FairSpec
CONSTANTS
  Request = {get, post, events}
  Stream = {events}
  MaxSignals = 2
INVARIANTS
  TypeOK
  FailureIsReported
  NoGoroutineLeft
  CleanExitCutsNobody
PROPERTIES
  SignalEndsProcess
