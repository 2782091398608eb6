CONSTANTS
    NULL = NULL
    k1 = k1
    k2 = k2
    Keys <- MCKeys
    ReconcileWorkers = 2
    Preexisting <- MCPreexisting
    MaxVersion <- MCMaxVersion
    Retries <- MCRetries
    initialErrorWait = 1
    maxErrorWait = 1
SPECIFICATION FairSpec
INVARIANTS NeverPanics FailingIsRetried
PROPERTIES StartupIsComplete ImplementsWorkQueue
CHECK_DEADLOCK FALSE
