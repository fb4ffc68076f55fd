SPECIFICATION Spec
CONSTANTS
  None = None
  Proc = {p1}
  Scope = {"output", "push", "stop", "shutdown", "release", "wipe", "vanish", "crash"}
  Poll = 1
  Renew = 1
  StaleAfter = 2
  WatchMax = 3
  RetryAfter = 1
  Retention = 1
  IdleTimeout = 1
  RecoveryTtl = 2
  MaxTime = 6
  MaxStart = 1
  MaxFails = 1
  MaxLosses = 1
  Lateness = 1
  PassTicks = 0
INVARIANTS TypeOK AtMostOnceTold ReceiptIsHonest
PROPERTY KeepsContract
CHECK_DEADLOCK FALSE
