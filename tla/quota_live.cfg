SPECIFICATION FairSpec
CONSTANTS
    t1 = t1
    t2 = t2
    Threads = {t1, t2}
    Limit = 1
    Ttl = 1
    MaxAttempts = 1
    MaxDelay = 0
PROPERTIES
    LeakedRowHealsForT1
CHECK_DEADLOCK FALSE
