SPECIFICATION Spec
CONSTANTS
    t1 = t1
    t2 = t2
    Threads = {t1, t2}
    Limit = 1
    Ttl = 2
    MaxAttempts = 1
    MaxDelay = 1
INVARIANTS
    TypeOK
    CapHolds
    PrunedBeforeInsert
CHECK_DEADLOCK FALSE
PROPERTIES
    OwnRowIsRenewed
    AdmittedHoldsRow
