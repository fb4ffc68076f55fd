SPECIFICATION Spec
CONSTANTS
  None = None
  Proc = {p1}
  Scope = {"stop", "wipe", "release", "crash"}
  Poll = 1
  Renew = 2
  StaleAfter = 3
  WatchMax = 4
  RetryAfter = 1
  Retention = 5
  IdleTimeout = 2
  RecoveryTtl = 4
  MaxTime = 7
  MaxStart = 2
  MaxFails = 2
  MaxLosses = 1
  Lateness = 2
  PassTicks = 1
INVARIANT AlarmCoversWork
PROPERTIES NoFaultOnReadable NoHotLoop
CHECK_DEADLOCK FALSE
