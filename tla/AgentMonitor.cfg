SPECIFICATION Spec
CONSTANTS
    NULL = NULL
    ComputeUnit <- MCComputeUnit
    VmInfos <- MCVmInfos
    InitialUsing <- MCInitialUsing
    Goals = {1}
    LFCGoals = {}
    Permits <- MCPermits
    MayFail = {"downscale"}
    MayExpire = {"deniedDownscale", "downscaleFailure"}
    MayDisconnect = TRUE
    MayRequest = TRUE
INVARIANTS
    TypeOK RequestsMatchCalls NoLostWakeup
