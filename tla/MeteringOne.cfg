CONSTANTS
    e1 = e1
    e2 = e2
    e3 = e3
    Workers = {w1}
    Events = {e1, e2, e3}
    Bucket <- MCBucket
    RowKey <- MCRowKey
    MaxPending = 1
    MaxFaults = 3
    AckLoss = FALSE
    StopMayTimeOut = FALSE
SPECIFICATION FairSpec
INVARIANTS Accounted StopCountsTheRest
PROPERTIES DropsOnlyOnOverflow EventuallyCounted ImplementsLedger
CHECK_DEADLOCK FALSE
