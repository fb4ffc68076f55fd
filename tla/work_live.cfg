SPECIFICATION FairSpec
CONSTANTS
  None = None
  Proc = {p1}
  Scope = {"output", "push", "wipe", "release", "crash"}
  Poll = 1
  Renew = 1
  StaleAfter = 3
  WatchMax = 3
  RetryAfter = 1
  Retention = 2
  IdleTimeout = 1
  RecoveryTtl = 1
  MaxTime = 8
  MaxStart = 1
  MaxFails = 1
  MaxLosses = 1
  Lateness = 1
  PassTicks = 1
PROPERTY WorkIsSettled
CHECK_DEADLOCK FALSE
