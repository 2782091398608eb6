SPECIFICATION CooperativeSpec
CONSTANTS
    NULL = NULL
    ComputeUnit <- MCComputeUnit
    VmInfos <- MCVmInfos
    InitialUsing <- MCInitialUsing
    Goals = {1, 2}
    LFCGoals = {}
    Permits <- MCPermits
    MayFail = {"plugin"}
    MayExpire = {"tick", "deniedRetry", "pluginFailure", "deniedDownscale"}
    MayDisconnect = FALSE
    MayRequest = FALSE
PROPERTY
    ScalesToGoal
