SPECIFICATION MCFairSpec
CONSTANTS
    NULL = NULL
    p1 = p1
    p2 = p2
    i1 = i1
    i2 = i2
    bad = bad
    Pods <- MCPods
    Infos <- MCInfos
    BadInfos = {bad}
    Statuses = {s1, s2}
    Runners = {r1, r2, r3}
    MaxQueue = 1
    MayRelist = FALSE
INVARIANTS
    OnlyMappedRunnersAct NoLostVmInfo
PROPERTY
    VmIsServed
