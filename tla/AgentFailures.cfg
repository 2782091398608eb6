SPECIFICATION Spec
CONSTANTS
    NULL = NULL
    ComputeUnit <- MCComputeUnit
    VmInfos <- MCBoundsVmInfos
    InitialUsing <- MCBoundsUsing
    Goals = {2}
    LFCGoals = {1}
    Permits <- MCBoundsPermits
    MayFail = {"neonvm", "upscale"}
    MayExpire = {}
    MayDisconnect = FALSE
    MayRequest = FALSE
INVARIANT
    CalculationsAreSound
PROPERTIES
    UpscalesWithinPermit
