CONSTANTS
    NULL = NULL
    u1 = u1
    u2 = u2
    c1 = c1

    UIDs <- MCUIDs
    Name <- MCName
    Callers = {c1}
    Listened = {u1}
    MaxChanges = 3
    MaxFailures = 1
    RetryRelistAfter = TRUE
    RetryWatchAfter = FALSE
    MayStop = TRUE
SPECIFICATION FairSpec
INVARIANTS StoreIsSnapshot IndexAgrees RelistIsFresh NoMissedBroadcast
PROPERTIES CatchesUp RelistCompletes
CHECK_DEADLOCK FALSE
