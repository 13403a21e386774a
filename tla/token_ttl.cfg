SPECIFICATION Spec
CONSTANTS
  Half = 4096
  Hour = 10
  MaxDays = 40
  MaxTime = 1
INVARIANTS
  AcceptedIsPositive
CHECK_DEADLOCK FALSE
