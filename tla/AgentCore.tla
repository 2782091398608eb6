------------------------------ MODULE AgentCore ------------------------------
(***************************************************************************)
(* core.State of the autoscaler-agent (pkg/agent/core/state.go): what the  *)
(* agent knows about one VM, what it recommends doing next (NextActions)   *)
(* and the handlers through which the executor changes that knowledge.     *)
(*                                                                         *)
(* Time.  The code stores when something happened and compares now with    *)
(* it.  Here a stored time is only "its waiting period has not passed yet":*)
(* a member of timers, or a non-NULL RequestedUpscale / DeniedDownscale.   *)
(* A waiting period may pass at any moment, in any order with the others.  *)
(*                                                                         *)
(* Left out: revisions, which are reported and never decided upon, and the *)
(* formulas that turn metrics into a goal, whose result is the input here. *)
(***************************************************************************)
EXTENDS Resources

CONSTANTS
    NULL,           \* Go's nil
    ComputeUnit     \* Config.ComputeUnit

ASSUME ComputeUnitAssumption ==
    ComputeUnit \in [VCPU : Nat \ {0}, Mem : Nat \ {0}]

VARIABLES
    vm,         \* state.VM: [Using, Min, Max : Resources, EnableLFCMetrics : BOOLEAN]
    metrics,    \* goal CU from state.Metrics (System) and state.LFCMetrics (LFC), or NULL
    plugin,     \* state.Plugin: OngoingRequest, LastRequest.Resources, Permit
    monitor,    \* state.Monitor: OngoingRequest, RequestedUpscale, DeniedDownscale, Approved
    neonvm,     \* state.NeonVM.OngoingRequested
    timers      \* the waiting periods that have not passed yet

coreVars == <<vm, metrics, plugin, monitor, neonvm, timers>>

(***************************************************************************)
(* Types                                                                   *)
(***************************************************************************)
\* tick, deniedRetry: since Plugin.LastRequest.At; the others: since a failure.
Timers == {"tick", "deniedRetry", "pluginFailure", "neonvmFailure",
           "upscaleFailure", "downscaleFailure"}

\* The two waiting periods that are kept together with the data they protect.
Cooldowns == {"requestedUpscale", "deniedDownscale"}

Optional(S) == S \union {NULL}

VmInfo == [Using : Resources, Min : Resources, Max : Resources, EnableLFCMetrics : BOOLEAN]

MetricsState == [System : Optional(Nat), LFC : Optional(Nat)]

PluginState ==
    [OngoingRequest : BOOLEAN, LastRequest : Optional(Resources), Permit : Optional(Resources)]

MonitorRequest == [Kind : {"upscale", "downscale"}, Requested : Resources]

MonitorState ==
    [OngoingRequest   : Optional(MonitorRequest),
     RequestedUpscale : Optional([Base : Resources, Cpu : BOOLEAN, Memory : BOOLEAN]),
     DeniedDownscale  : Optional([Current : Resources, Requested : Resources]),
     Approved         : Optional(Resources)]

CoreTypeOK ==
    /\ vm \in VmInfo
    /\ metrics \in MetricsState
    /\ plugin \in PluginState
    /\ monitor \in MonitorState
    /\ neonvm \in Optional(Resources)
    /\ timers \in SUBSET Timers

(***************************************************************************)
(* NewState                                                                *)
(***************************************************************************)
NoMetrics == [System |-> NULL, LFC |-> NULL]

NewPlugin == [OngoingRequest |-> FALSE, LastRequest |-> NULL, Permit |-> NULL]

NewMonitor ==
    [OngoingRequest |-> NULL, RequestedUpscale |-> NULL, DeniedDownscale |-> NULL,
     Approved |-> NULL]

(***************************************************************************)
(* desiredResourcesFromMetricsOrRequestedUpscaling                         *)
(***************************************************************************)
HasAllMetrics ==
    /\ metrics.System # NULL
    /\ vm.EnableLFCMetrics => metrics.LFC # NULL

OrZero(goal) == IF goal = NULL THEN 0 ELSE goal

InitialGoalCU == MaxNat(OrZero(metrics.System), OrZero(metrics.LFC))

\* Mutant: rounds down, to what does not exceed the amount.
CUUpTo(amount, unit) == amount \div unit

\* The least number of compute units that exceeds the amount.
CUAbove(amount, unit) == 1 + (amount \div unit)

RequiredCUForRequestedUpscaling(req) ==
    MaxNat(IF req.Cpu THEN CUAbove(req.Base.VCPU, ComputeUnit.VCPU) ELSE 0,
           IF req.Memory THEN CUAbove(req.Base.Mem, ComputeUnit.Mem) ELSE 0)

RequiredCUForDeniedDownscale(requested) ==
    MaxNat(CUAbove(requested.VCPU, ComputeUnit.VCPU), CUAbove(requested.Mem, ComputeUnit.Mem))

MinRequiredResourcesForDeniedDownscale(denied) ==
    ResMin(denied.Current,
           [VCPU |-> ComputeUnit.VCPU * CUAbove(denied.Requested.VCPU, ComputeUnit.VCPU),
            Mem  |-> ComputeUnit.Mem  * CUAbove(denied.Requested.Mem, ComputeUnit.Mem)])

RequestedCU ==
    IF monitor.RequestedUpscale = NULL THEN 0
    ELSE RequiredCUForRequestedUpscaling(monitor.RequestedUpscale)

DeniedCU ==
    IF monitor.DeniedDownscale = NULL THEN 0
    ELSE RequiredCUForDeniedDownscale(monitor.DeniedDownscale.Requested)

GoalResources ==
    LET goal == Mul(ComputeUnit, MaxNat(InitialGoalCU, MaxNat(RequestedCU, DeniedCU)))
    IN  IF HasAllMetrics THEN goal ELSE ResMax(goal, vm.Using)

BoundedGoal == ResMax(ResMin(GoalResources, vm.Max), vm.Min)

DesiredResources ==
    LET goal == BoundedGoal
    IN  IF monitor.DeniedDownscale = NULL THEN goal
        ELSE ResMax(goal, MinRequiredResourcesForDeniedDownscale(monitor.DeniedDownscale))

RequestedUpscalingAffectedResult == RequestedCU > InitialGoalCU

DeniedDownscaleAffectedResult(desired) ==
    DeniedCU > InitialGoalCU \/ desired # BoundedGoal

DesiredIsInvalid(desired) ==
    \/ HasFieldGreaterThan(desired, vm.Max) /\ ~DeniedDownscaleAffectedResult(desired)
    \/ HasFieldLessThan(desired, vm.Min)

(***************************************************************************)
(* clampResources.  A NULL bound is no bound.                              *)
(***************************************************************************)
ClampIsInvalid(current, lowerBound, upperBound) ==
    \/ lowerBound # NULL /\ HasFieldGreaterThan(lowerBound, current)
    \/ upperBound # NULL /\ HasFieldLessThan(upperBound, current)

ClampField(f, current, desired, lowerBound, upperBound) ==
    IF desired[f] < current[f] /\ lowerBound # NULL THEN MaxNat(desired[f], lowerBound[f])
    ELSE IF desired[f] > current[f] /\ upperBound # NULL THEN MinNat(desired[f], upperBound[f])
    ELSE desired[f]

ClampResources(current, desired, lowerBound, upperBound) ==
    [VCPU |-> ClampField("VCPU", current, desired, lowerBound, upperBound),
     Mem  |-> ClampField("Mem", current, desired, lowerBound, upperBound)]

(***************************************************************************)
(* calculatePluginAction.  Here and below, the second result of the code's *)
(* functions, what to wait for, is an operator of its own.                 *)
(***************************************************************************)
\* Resources to ask for, or the earlier downscale the plugin must hear about.
PluginRequestResources(desired) == ClampResources(vm.Using, desired, vm.Using, NULL)

CurrentResources == IF neonvm = NULL THEN vm.Using ELSE ResMax(vm.Using, neonvm)

TimeForRequest == plugin.LastRequest = NULL \/ "tick" \notin timers

WaitingOnRetryBackoff ==
    /\ ~plugin.OngoingRequest
    /\ plugin.LastRequest # NULL
    /\ plugin.Permit # NULL
    /\ HasFieldGreaterThan(plugin.LastRequest, plugin.Permit)
    /\ "deniedRetry" \in timers

ShouldRequestNewResources(desired) ==
    /\ plugin.LastRequest # NULL
    /\ plugin.Permit # NULL
    /\ PluginRequestResources(desired) # plugin.Permit
    /\ ~WaitingOnRetryBackoff

PluginAction(desired) ==
    IF /\ ~plugin.OngoingRequest
       /\ "pluginFailure" \notin timers
       /\ TimeForRequest \/ ShouldRequestNewResources(desired)
    THEN [LastPermit |-> plugin.Permit,
          Target |-> IF ShouldRequestNewResources(desired)
                     THEN PluginRequestResources(desired)
                     ELSE CurrentResources]
    ELSE NULL

PluginWait(pluginAction) ==
    IF plugin.OngoingRequest \/ pluginAction # NULL THEN {}
    ELSE IF "pluginFailure" \in timers THEN {"pluginFailure"}
    ELSE {"tick"} \union (IF WaitingOnRetryBackoff THEN {"deniedRetry"} ELSE {})

(***************************************************************************)
(* calculateNeonVMAction                                                   *)
(***************************************************************************)
MonitorApprovedLowerBound == IF monitor.Approved # NULL THEN monitor.Approved ELSE vm.Using

\* Mutant: a permit that exceeds the usage is of no use.
UsingAsUpperBound == IF plugin.Permit # NULL THEN ResMin(plugin.Permit, vm.Using) ELSE vm.Using

PluginApprovedUpperBound == IF plugin.Permit # NULL THEN plugin.Permit ELSE vm.Using

NeonVMTarget(desired) ==
    ClampResources(vm.Using, desired, MonitorApprovedLowerBound, PluginApprovedUpperBound)

\* What the plugin was asked for by the ongoing, else by the planned request.
PluginRequested(pluginAction) ==
    IF plugin.OngoingRequest THEN plugin.LastRequest
    ELSE IF pluginAction # NULL THEN pluginAction.Target
    ELSE NULL

\* Mutant: what the plugin is asked for is not looked at.
NoConflict(target, requested) == FALSE

ConflictingPluginRequest(target, requested) ==
    requested # NULL /\ HasFieldLessThan(requested, target)

ReadyForNeonVMRequest(target, requested) ==
    /\ target # vm.Using
    /\ neonvm = NULL
    /\ ~ConflictingPluginRequest(target, requested)

NeonVMAction(target, requested) ==
    IF ReadyForNeonVMRequest(target, requested) /\ "neonvmFailure" \notin timers
    THEN [Current |-> vm.Using, Target |-> target]
    ELSE NULL

NeonVMWait(target, requested) ==
    IF "neonvmFailure" \in timers /\ ReadyForNeonVMRequest(target, requested)
    THEN {"neonvmFailure"} ELSE {}

(***************************************************************************)
(* calculateMonitorUpscaleAction, calculateMonitorDownscaleAction          *)
(***************************************************************************)
UpscaleTarget(desired) ==
    LET request == ClampResources(monitor.Approved, vm.Using, monitor.Approved,
                                  ResMax(desired, monitor.Approved))
    IN  ClampResources(monitor.Approved, request, NULL, Add(request, ComputeUnit))

ReadyForUpscale(desired) ==
    /\ monitor.Approved # NULL
    /\ UpscaleTarget(desired) # monitor.Approved
    /\ monitor.OngoingRequest = NULL

UpscaleAction(desired) ==
    IF ReadyForUpscale(desired) /\ "upscaleFailure" \notin timers
    THEN [Current |-> monitor.Approved, Target |-> UpscaleTarget(desired)]
    ELSE NULL

UpscaleWait(desired) ==
    IF "upscaleFailure" \in timers /\ ReadyForUpscale(desired)
    THEN {"upscaleFailure"} ELSE {}

DownscaleTarget(desired) ==
    LET request == ClampResources(monitor.Approved, desired, NULL, monitor.Approved)
    IN  ClampResources(monitor.Approved, request,
                       SaturatingSub(monitor.Approved, ComputeUnit), NULL)

ReadyForDownscale(desired, plannedUpscale) ==
    /\ monitor.Approved # NULL
    /\ DownscaleTarget(desired) # monitor.Approved
    /\ ~plannedUpscale
    /\ monitor.OngoingRequest = NULL

DownscaleAction(desired, plannedUpscale) ==
    IF ReadyForDownscale(desired, plannedUpscale) /\ "downscaleFailure" \notin timers
    THEN [Current |-> monitor.Approved, Target |-> DownscaleTarget(desired)]
    ELSE NULL

DownscaleWait(desired, plannedUpscale) ==
    IF "downscaleFailure" \in timers /\ ReadyForDownscale(desired, plannedUpscale)
    THEN {"downscaleFailure"} ELSE {}

(***************************************************************************)
(* nextActions: one request, or NULL, per kind, and the waiting periods    *)
(* the least of which is the duration of ActionWait (no period: no wait).  *)
(***************************************************************************)
RequestKinds == {"plugin", "neonvm", "upscale", "downscale"}

DesiredResourcesWait(desired, downscale) ==
    (IF /\ downscale = NULL
        /\ monitor.OngoingRequest = NULL
        /\ DeniedDownscaleAffectedResult(desired)
     THEN {"deniedDownscale"} ELSE {})
    \union (IF RequestedUpscalingAffectedResult THEN {"requestedUpscale"} ELSE {})

NextActions ==
    LET desired      == DesiredResources
        pluginAction == PluginAction(desired)
        requested    == PluginRequested(pluginAction)
        target       == NeonVMTarget(desired)
        upscale      == UpscaleAction(desired)
        downscale    == DownscaleAction(desired, upscale # NULL)
    IN  [plugin    |-> pluginAction,
         neonvm    |-> NeonVMAction(target, requested),
         upscale   |-> upscale,
         downscale |-> downscale,
         wait      |-> UNION {DesiredResourcesWait(desired, downscale),
                              PluginWait(pluginAction), NeonVMWait(target, requested),
                              UpscaleWait(desired), DownscaleWait(desired, upscale # NULL)}]

ScaleAction == [Current : Resources, Target : Resources]

ActionSet ==
    [plugin : Optional([LastPermit : Optional(Resources), Target : Resources]),
     neonvm : Optional(ScaleAction), upscale : Optional(ScaleAction),
     downscale : Optional(ScaleAction), wait : SUBSET (Timers \union Cooldowns)]

ASSUME NullAssumption ==
    /\ NULL \notin Nat
    /\ NULL \notin Resources
    /\ NULL \notin MonitorRequest
    /\ NULL \notin ActionSet

\* The internal checks of nextActions and of what it calls: do they fail?
NextActionsPanics(check) ==
    LET desired == DesiredResources
        downscale == DownscaleAction(desired, UpscaleAction(desired) # NULL)
    IN  CASE check = "desired"   -> DesiredIsInvalid(desired)
          [] check = "clamp"     -> ClampIsInvalid(vm.Using, MonitorApprovedLowerBound,
                                                   PluginApprovedUpperBound)
          [] check = "upscale"   -> /\ monitor.Approved # NULL
                                    /\ HasFieldLessThan(UpscaleTarget(desired), monitor.Approved)
          [] check = "downscale" -> /\ monitor.Approved # NULL
                                    /\ HasFieldGreaterThan(DownscaleTarget(desired),
                                                           monitor.Approved)
          [] check = "denied"    -> /\ monitor.DeniedDownscale # NULL
                                    /\ downscale # NULL
                                    /\ ~HasFieldLessThan(monitor.DeniedDownscale.Requested,
                                                         downscale.Target)

Checks == {"desired", "clamp", "upscale", "downscale", "denied"}

PanicReasons == {check \in Checks : NextActionsPanics(check)}

(***************************************************************************)
(* The handlers that update the state                                      *)
(***************************************************************************)
UpdatedVM(info) ==
    /\ vm' = [info EXCEPT !.Using = vm.Using]
    /\ metrics' = IF info.EnableLFCMetrics THEN metrics ELSE [metrics EXCEPT !.LFC = NULL]
    /\ UNCHANGED <<plugin, monitor, neonvm, timers>>

UpdateSystemMetrics(goal) ==
    /\ metrics' = [metrics EXCEPT !.System = goal]
    /\ UNCHANGED <<vm, plugin, monitor, neonvm, timers>>

UpdateLFCMetrics(goal) ==
    /\ metrics' = [metrics EXCEPT !.LFC = goal]
    /\ UNCHANGED <<vm, plugin, monitor, neonvm, timers>>

PluginStartingRequest(resources) ==
    /\ plugin' = [plugin EXCEPT !.LastRequest = resources, !.OngoingRequest = TRUE]
    /\ timers' = timers \union {"tick", "deniedRetry"}
    /\ UNCHANGED <<vm, metrics, monitor, neonvm>>

PluginRequestFailed ==
    /\ plugin' = [plugin EXCEPT !.OngoingRequest = FALSE]
    /\ timers' = timers \union {"pluginFailure"}
    /\ UNCHANGED <<vm, metrics, monitor, neonvm>>

PermitIsInvalid(permit) ==
    \/ HasZeroField(permit)
    \/ HasFieldGreaterThan(permit, plugin.LastRequest)
    \/ HasFieldLessThan(permit, vm.Using)

PluginRequestSuccessful(permit) ==
    IF PermitIsInvalid(permit) THEN PluginRequestFailed
    ELSE /\ plugin' = [plugin EXCEPT !.OngoingRequest = FALSE, !.Permit = permit]
         /\ UNCHANGED <<vm, metrics, monitor, neonvm, timers>>

\* Mutant: keeps the ongoing request.
MonitorResetKeepsRequest ==
    /\ monitor' = [NewMonitor EXCEPT !.OngoingRequest = monitor.OngoingRequest]
    /\ timers' = timers \ {"upscaleFailure", "downscaleFailure"}
    /\ UNCHANGED <<vm, metrics, plugin, neonvm>>

MonitorReset ==
    /\ monitor' = NewMonitor
    /\ timers' = timers \ {"upscaleFailure", "downscaleFailure"}
    /\ UNCHANGED <<vm, metrics, plugin, neonvm>>

MonitorActive ==
    /\ monitor' = [monitor EXCEPT !.Approved = vm.Using]
    /\ UNCHANGED <<vm, metrics, plugin, neonvm, timers>>

UpscaleRequested(cpu, memory) ==
    /\ monitor' = [monitor EXCEPT !.RequestedUpscale =
                       [Base |-> monitor.Approved, Cpu |-> cpu, Memory |-> memory]]
    /\ UNCHANGED <<vm, metrics, plugin, neonvm, timers>>

StartingUpscaleRequest(resources) ==
    /\ monitor' = [monitor EXCEPT !.OngoingRequest =
                       [Kind |-> "upscale", Requested |-> resources]]
    /\ timers' = timers \ {"upscaleFailure"}
    /\ UNCHANGED <<vm, metrics, plugin, neonvm>>

StartingDownscaleRequest(resources) ==
    /\ monitor' = [monitor EXCEPT !.OngoingRequest =
                       [Kind |-> "downscale", Requested |-> resources]]
    /\ timers' = timers \ {"downscaleFailure"}
    /\ UNCHANGED <<vm, metrics, plugin, neonvm>>

\* UpscaleRequestSuccessful and DownscaleRequestAllowed
MonitorRequestApproved ==
    /\ monitor' = [monitor EXCEPT !.Approved = monitor.OngoingRequest.Requested,
                                  !.OngoingRequest = NULL]
    /\ UNCHANGED <<vm, metrics, plugin, neonvm, timers>>

DownscaleRequestDenied ==
    /\ monitor' = [monitor EXCEPT !.OngoingRequest = NULL,
                       !.DeniedDownscale = [Current |-> monitor.Approved,
                                            Requested |-> monitor.OngoingRequest.Requested]]
    /\ UNCHANGED <<vm, metrics, plugin, neonvm, timers>>

UpscaleRequestFailed ==
    /\ monitor' = [monitor EXCEPT !.OngoingRequest = NULL]
    /\ timers' = timers \union {"upscaleFailure"}
    /\ UNCHANGED <<vm, metrics, plugin, neonvm>>

DownscaleRequestFailed ==
    /\ monitor' = [monitor EXCEPT !.OngoingRequest = NULL]
    /\ timers' = timers \union {"downscaleFailure"}
    /\ UNCHANGED <<vm, metrics, plugin, neonvm>>

NeonVMStartingRequest(resources) ==
    /\ neonvm' = resources
    /\ UNCHANGED <<vm, metrics, plugin, monitor, timers>>

\* Mutant: reads the request after clearing it.
NeonVMRequestClearedFirst ==
    /\ neonvm' = NULL
    /\ vm' = [vm EXCEPT !.Using = neonvm']
    /\ UNCHANGED <<metrics, plugin, monitor, timers>>

NeonVMRequestSuccessful ==
    /\ vm' = [vm EXCEPT !.Using = neonvm]
    /\ neonvm' = NULL
    /\ UNCHANGED <<metrics, plugin, monitor, timers>>

NeonVMRequestFailed ==
    /\ neonvm' = NULL
    /\ timers' = timers \union {"neonvmFailure"}
    /\ UNCHANGED <<vm, metrics, plugin, monitor>>

(***************************************************************************)
(* Time passes                                                             *)
(***************************************************************************)
InEffect(t) ==
    CASE t = "requestedUpscale" -> monitor.RequestedUpscale # NULL
      [] t = "deniedDownscale"  -> monitor.DeniedDownscale # NULL
      [] OTHER                  -> t \in timers

Expire(t) ==
    /\ InEffect(t)
    /\ timers' = timers \ {t}
    /\ monitor' = CASE t = "requestedUpscale" -> [monitor EXCEPT !.RequestedUpscale = NULL]
                    [] t = "deniedDownscale"  -> [monitor EXCEPT !.DeniedDownscale = NULL]
                    [] OTHER                  -> monitor
    /\ UNCHANGED <<vm, metrics, plugin, neonvm>>
=============================================================================
