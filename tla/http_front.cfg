SPECIFICATION FairSpec
CONSTANTS
  Setting <- MCSetting
  Name <- MCName
  Scope <- MCScope
  Holds <- MCHolds
  Request = {q1, q2}
  Sends <- MCSends
  q1 = q1
  q2 = q2
  ToolLists <- MCToolLists
  MaxRepairs = 2
INVARIANTS
  TypeOK
  LogIsTrue
  FaultsAreLogged
  RejectionIsExplained
  ProbeIsTrue
  DiscoverySuffices
  ConfigIsComplete
PROPERTIES
  EveryRequestEnds
CHECK_DEADLOCK FALSE
