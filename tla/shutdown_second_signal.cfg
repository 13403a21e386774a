SPECIFICATION Spec
CONSTANTS
  Request = {post}
  Stream = {}
  MaxSignals = 2
INVARIANTS
  SecondSignalKills
