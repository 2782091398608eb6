CONSTANTS
    NULL = NULL
    p1 = p1
    p2 = p2
    n1 = n1
    Pods <- MCPods
    Nodes <- MCNodes
    Attributes <- RequestsAttributes
    ComputeUnit <- MCComputeUnit
    Preexisting <- RequestsPreexisting
    NodeTotal <- RequestsNodeTotal
    NodeWatermark <- RequestsNodeTotal
    Wants <- RequestsWants
    Courses <- RequestsCourses
    Changing = {p1}
    PatchRetryWait = TRUE
    Unreliable = {"patch", "request"}
SPECIFICATION FairSpec
INVARIANTS SettledStateIsSound
PROPERTIES GrantsWhatFits
CHECK_DEADLOCK FALSE
