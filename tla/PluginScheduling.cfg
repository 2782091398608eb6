CONSTANTS
    NULL = NULL
    p1 = p1
    p2 = p2
    n1 = n1
    Pods <- MCPods
    Nodes <- MCNodes
    Attributes <- SchedulingAttributes
    ComputeUnit <- MCComputeUnit
    Preexisting <- SchedulingPreexisting
    NodeTotal <- SchedulingNodeTotal
    NodeWatermark <- SchedulingNodeWatermark
    Wants = {}
    Courses <- SchedulingCourses
    Changing = {}
    PatchRetryWait = FALSE
    Unreliable = {"migrate"}
SPECIFICATION FairSchedulingSpec
INVARIANTS NeverPanics SumsMatch SettledStateIsSound
PROPERTIES PressureIsRelieved
CHECK_DEADLOCK FALSE
