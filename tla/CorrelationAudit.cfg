CONSTANTS
  NoTarget = NoTarget
  Targets = {a, b, c}
  Window = 2
  Threshold = 2
  MaxTime = 4
  MaxCalls = 5
SPECIFICATION AuditSpec
INVARIANT EventsMatchHistory
CHECK_DEADLOCK FALSE
