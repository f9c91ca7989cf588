CONSTANTS
    e1 = e1
    e2 = e2
    e3 = e3
    Workers = {w1, w2}
    Events = {e1, e2, e3}
    Bucket <- MCBucket
    RowKey <- MCRowKey
    MaxPending = 1
    MaxFaults = 1
    AckLoss = FALSE
    StopMayTimeOut = TRUE
SPECIFICATION FairSpec
INVARIANTS BilledAtMostOnce
PROPERTIES StopTerminates
CHECK_DEADLOCK FALSE
