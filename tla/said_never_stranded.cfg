SPECIFICATION Spec
CONSTANTS
  None = None
  Proc = {p1}
  Scope = {"output", "shutdown"}
  Poll = 1
  Renew = 2
  StaleAfter = 3
  WatchMax = 4
  RetryAfter = 1
  Retention = 5
  IdleTimeout = 2
  RecoveryTtl = 4
  MaxTime = 8
  MaxStart = 1
  MaxFails = 0
  MaxLosses = 1
  Lateness = 1
  PassTicks = 0
INVARIANT OpenWorkHasAlarm
CHECK_DEADLOCK FALSE
