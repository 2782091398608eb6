------------------------- MODULE AgentExecutorProofs -------------------------
(***************************************************************************)
(* What the calculations of core.State return, for all states and every    *)
(* compute unit: the type of what is recommended, and the conditions under *)
(* which a request of each kind is recommended at all.                     *)
(*                                                                         *)
(* The executor's bookkeeping is right for every set of inputs: types,     *)
(* that calls in flight match the requests on record, and that no update   *)
(* that recommends something to a thread goes unseen.                      *)
(***************************************************************************)
EXTENDS AgentExecutor, TLAPS


(***************************************************************************)
(* Types of the operators on resources                                     *)
(***************************************************************************)
\* api.Resources is closed under the operations that core.State uses.
LEMMA ResourcesClosed ==
    ASSUME NEW a \in Resources, NEW b \in Resources, NEW n \in Nat
    PROVE  /\ ResMin(a, b) \in Resources
           /\ ResMax(a, b) \in Resources
           /\ Add(a, b) \in Resources
           /\ SaturatingSub(a, b) \in Resources
           /\ Mul(a, n) \in Resources
  BY DEF Resources, ResMin, ResMax, Add, SaturatingSub, SubNat, Mul, MinNat, MaxNat

\* clampResources returns resources, with or without bounds.
LEMMA ClampClosed ==
    ASSUME NEW current \in Resources, NEW desired \in Resources,
           NEW lower \in Optional(Resources), NEW upper \in Optional(Resources)
    PROVE  ClampResources(current, desired, lower, upper) \in Resources
  BY NullAssumption
     DEF ClampResources, ClampField, Resources, Optional, MinNat, MaxNat

\* 1 + amount / unit is a number of compute units.
LEMMA CUAboveIsNat ==
    ASSUME NEW amount \in Nat, NEW unit \in Nat \ {0}
    PROVE  CUAbove(amount, unit) \in Nat
  BY DEF CUAbove

(***************************************************************************)
(* desiredResourcesFromMetricsOrRequestedUpscaling                         *)
(***************************************************************************)
\* The goal, in compute units, that metrics, a requested upscale and a denied
\* downscale lead to.
LEMMA GoalCUsAreNat ==
    ASSUME CoreTypeOK
    PROVE  InitialGoalCU \in Nat /\ RequestedCU \in Nat /\ DeniedCU \in Nat
  <1>1. InitialGoalCU \in Nat
    BY DEF CoreTypeOK, MetricsState, Optional, InitialGoalCU, OrZero, MaxNat
  <1>2. RequestedCU \in Nat
    <2>1. CASE monitor.RequestedUpscale = NULL
      BY <2>1 DEF RequestedCU
    <2>2. CASE monitor.RequestedUpscale # NULL
      <3>1. monitor.RequestedUpscale \in [Base : Resources, Cpu : BOOLEAN, Memory : BOOLEAN]
        BY <2>2 DEF CoreTypeOK, MonitorState, Optional
      <3>2. /\ CUAbove(monitor.RequestedUpscale.Base.VCPU, ComputeUnit.VCPU) \in Nat
            /\ CUAbove(monitor.RequestedUpscale.Base.Mem, ComputeUnit.Mem) \in Nat
        BY <3>1, CUAboveIsNat, ComputeUnitAssumption DEF Resources
      <3>. QED  BY <2>2, <3>2 DEF RequestedCU, RequiredCUForRequestedUpscaling, MaxNat
    <2>. QED  BY <2>1, <2>2
  <1>3. DeniedCU \in Nat
    <2>1. CASE monitor.DeniedDownscale = NULL
      BY <2>1 DEF DeniedCU
    <2>2. CASE monitor.DeniedDownscale # NULL
      <3>1. monitor.DeniedDownscale.Requested \in Resources
        BY <2>2 DEF CoreTypeOK, MonitorState, Optional
      <3>2. /\ CUAbove(monitor.DeniedDownscale.Requested.VCPU, ComputeUnit.VCPU) \in Nat
            /\ CUAbove(monitor.DeniedDownscale.Requested.Mem, ComputeUnit.Mem) \in Nat
        BY <3>1, CUAboveIsNat, ComputeUnitAssumption DEF Resources
      <3>. QED  BY <2>2, <3>2 DEF DeniedCU, RequiredCUForDeniedDownscale, MaxNat
    <2>. QED  BY <2>1, <2>2
  <1>. QED  BY <1>1, <1>2, <1>3

\* What denied downscaling keeps the VM at is an amount of resources.
LEMMA DeniedMinimumClosed ==
    ASSUME NEW denied \in [Current : Resources, Requested : Resources]
    PROVE  MinRequiredResourcesForDeniedDownscale(denied) \in Resources
  <1>1. /\ CUAbove(denied.Requested.VCPU, ComputeUnit.VCPU) \in Nat
        /\ CUAbove(denied.Requested.Mem, ComputeUnit.Mem) \in Nat
    BY CUAboveIsNat, ComputeUnitAssumption DEF Resources
  <1>2. [VCPU |-> ComputeUnit.VCPU * CUAbove(denied.Requested.VCPU, ComputeUnit.VCPU),
         Mem  |-> ComputeUnit.Mem  * CUAbove(denied.Requested.Mem, ComputeUnit.Mem)] \in Resources
    BY <1>1, ComputeUnitAssumption DEF Resources
  <1>. QED
    BY <1>2, ResourcesClosed DEF MinRequiredResourcesForDeniedDownscale

\* The goal is an amount of resources, and so is what is desired.
LEMMA GoalClosed ==
    ASSUME CoreTypeOK
    PROVE  GoalResources \in Resources
  <1>1. vm.Using \in Resources /\ ComputeUnit \in Resources
    BY ComputeUnitAssumption DEF CoreTypeOK, VmInfo, Resources
  <1>2. MaxNat(InitialGoalCU, MaxNat(RequestedCU, DeniedCU)) \in Nat
    BY GoalCUsAreNat DEF MaxNat
  <1>. QED  BY <1>1, <1>2, ResourcesClosed DEF GoalResources

LEMMA DesiredClosed ==
    ASSUME CoreTypeOK
    PROVE  DesiredResources \in Resources
  <1>1. vm.Min \in Resources /\ vm.Max \in Resources
    BY DEF CoreTypeOK, VmInfo
  <1>5. BoundedGoal \in Resources
    BY <1>1, GoalClosed, ResourcesClosed DEF BoundedGoal
  <1>6. CASE monitor.DeniedDownscale = NULL
    BY <1>5, <1>6 DEF DesiredResources
  <1>7. CASE monitor.DeniedDownscale # NULL
    <2>1. monitor.DeniedDownscale \in [Current : Resources, Requested : Resources]
      BY <1>7 DEF CoreTypeOK, MonitorState, Optional
    <2>. QED
      BY <1>5, <1>7, <2>1, DeniedMinimumClosed, ResourcesClosed DEF DesiredResources
  <1>. QED  BY <1>6, <1>7

(***************************************************************************)
(* nextActions                                                             *)
(***************************************************************************)
\* The action of each kind that nextActions returns, given what is desired.
LEMMA ActionsClosed ==
    ASSUME CoreTypeOK, NEW desired \in Resources, NEW planned \in BOOLEAN
    PROVE  /\ PluginAction(desired) \in
                  Optional([LastPermit : Optional(Resources), Target : Resources])
           /\ NeonVMTarget(desired) \in Resources
           /\ UpscaleAction(desired) \in Optional(ScaleAction)
           /\ DownscaleAction(desired, planned) \in Optional(ScaleAction)
  <1>. USE DEF Optional
  <1>1. /\ vm.Using \in Resources
        /\ plugin.Permit \in Optional(Resources)
        /\ monitor.Approved \in Optional(Resources)
        /\ neonvm \in Optional(Resources)
    BY DEF CoreTypeOK, VmInfo, PluginState, MonitorState
  <1>2. PluginRequestResources(desired) \in Resources
    BY <1>1, ClampClosed DEF PluginRequestResources
  <1>3. CurrentResources \in Resources
    BY <1>1, ResourcesClosed DEF CurrentResources
  <1>4. PluginAction(desired) \in Optional([LastPermit : Optional(Resources), Target : Resources])
    BY <1>1, <1>2, <1>3 DEF PluginAction
  <1>5. NeonVMTarget(desired) \in Resources
    <2>1. MonitorApprovedLowerBound \in Resources /\ PluginApprovedUpperBound \in Resources
      BY <1>1 DEF MonitorApprovedLowerBound, PluginApprovedUpperBound
    <2>. QED  BY <1>1, <2>1, ClampClosed DEF NeonVMTarget
  <1>6. ASSUME monitor.Approved # NULL
        PROVE  UpscaleTarget(desired) \in Resources /\ DownscaleTarget(desired) \in Resources
    <2>1. monitor.Approved \in Resources /\ ComputeUnit \in Resources
      BY <1>1, <1>6, ComputeUnitAssumption DEF Resources
    <2>. DEFINE up   == ClampResources(monitor.Approved, vm.Using, monitor.Approved,
                                       ResMax(desired, monitor.Approved))
                down == ClampResources(monitor.Approved, desired, NULL, monitor.Approved)
    <2>2. up \in Resources /\ down \in Resources
      BY <1>1, <2>1, ClampClosed, ResourcesClosed
    <2>3. Add(up, ComputeUnit) \in Resources /\ SaturatingSub(monitor.Approved, ComputeUnit) \in Resources
      BY <2>1, <2>2, ResourcesClosed
    <2>. HIDE DEF up, down
    <2>4. /\ ClampResources(monitor.Approved, up, NULL, Add(up, ComputeUnit)) \in Resources
          /\ ClampResources(monitor.Approved, down,
                            SaturatingSub(monitor.Approved, ComputeUnit), NULL) \in Resources
      BY <2>1, <2>2, <2>3, ClampClosed
    <2>. QED  BY <2>4 DEF UpscaleTarget, DownscaleTarget, up, down
  <1>7. UpscaleAction(desired) \in Optional(ScaleAction)
    BY <1>1, <1>6 DEF UpscaleAction, ReadyForUpscale, ScaleAction
  <1>8. DownscaleAction(desired, planned) \in Optional(ScaleAction)
    BY <1>1, <1>6 DEF DownscaleAction, ReadyForDownscale, ScaleAction
  <1>. QED  BY <1>4, <1>5, <1>7, <1>8

\* nextActions returns an ActionSet.
LEMMA NextActionsClosed ==
    ASSUME CoreTypeOK
    PROVE  NextActions \in ActionSet
  <1>. DEFINE desired      == DesiredResources
              pluginAction == PluginAction(desired)
              requested    == PluginRequested(pluginAction)
              target       == NeonVMTarget(desired)
              upscale      == UpscaleAction(desired)
              planned      == upscale # NULL
              downscale    == DownscaleAction(desired, planned)
              wait         == UNION {DesiredResourcesWait(desired, downscale),
                                     PluginWait(pluginAction), NeonVMWait(target, requested),
                                     UpscaleWait(desired), DownscaleWait(desired, planned)}
  <1>1. desired \in Resources
    BY DesiredClosed
  <1>2. /\ pluginAction \in Optional([LastPermit : Optional(Resources), Target : Resources])
        /\ target \in Resources
        /\ upscale \in Optional(ScaleAction)
        /\ downscale \in Optional(ScaleAction)
    BY <1>1, ActionsClosed
  <1>3. NeonVMAction(target, requested) \in Optional(ScaleAction)
    <2>1. vm.Using \in Resources
      BY DEF CoreTypeOK, VmInfo
    <2>. QED  BY <1>2, <2>1 DEF NeonVMAction, Optional, ScaleAction
  <1>4. wait \in SUBSET (Timers \union Cooldowns)
    BY DEF DesiredResourcesWait, PluginWait, NeonVMWait, UpscaleWait, DownscaleWait,
           Timers, Cooldowns
  <1>5. NextActions = [plugin |-> pluginAction, neonvm |-> NeonVMAction(target, requested),
                       upscale |-> upscale, downscale |-> downscale, wait |-> wait]
    BY DEF NextActions
  <1>. HIDE DEF pluginAction, requested, target, upscale, downscale, wait
  <1>. QED  BY <1>2, <1>3, <1>4, <1>5 DEF ActionSet

\* When nextActions recommends a request, none of the same kind is ongoing; the
\* vm-monitor is then known to have approved something, and is not to be asked
\* for upscaling and for downscaling at the same time.
LEMMA NextActionsWhen ==
    /\ NextActions.plugin # NULL => ~plugin.OngoingRequest
    /\ NextActions.neonvm # NULL => neonvm = NULL
    /\ (NextActions.upscale # NULL \/ NextActions.downscale # NULL) =>
           monitor.OngoingRequest = NULL /\ monitor.Approved # NULL
    /\ NextActions.upscale # NULL => NextActions.downscale = NULL
  BY DEF NextActions, PluginAction, NeonVMAction, ReadyForNeonVMRequest, UpscaleAction,
         ReadyForUpscale, DownscaleAction, ReadyForDownscale

(***************************************************************************)
(* The checks of the calculations                                          *)
(***************************************************************************)
\* 1 + amount / unit compute units are more than the amount.
LEMMA CUAboveExceeds ==
    ASSUME NEW amount \in Nat, NEW unit \in Nat \ {0}
    PROVE  unit * CUAbove(amount, unit) \in Nat /\ unit * CUAbove(amount, unit) > amount
  BY DEF CUAbove

\* What is desired is within the VM's bounds, unless a denied downscale is in
\* effect: then it may be more.
LEMMA DesiredIsValid ==
    ASSUME CoreTypeOK, ~HasFieldGreaterThan(vm.Min, vm.Max)
    PROVE  ~DesiredIsInvalid(DesiredResources)
  <1>1. vm.Min \in Resources /\ vm.Max \in Resources
    BY DEF CoreTypeOK, VmInfo
  <1>2. DesiredResources \in Resources /\ GoalResources \in Resources
    BY DesiredClosed, GoalClosed
  <1>3. ~HasFieldGreaterThan(BoundedGoal, vm.Max) /\ ~HasFieldLessThan(BoundedGoal, vm.Min)
    BY <1>1, <1>2 DEF BoundedGoal, Resources, ResMin, ResMax, MinNat, MaxNat,
          HasFieldGreaterThan, HasFieldLessThan
  <1>4. DesiredResources = BoundedGoal \/ DeniedDownscaleAffectedResult(DesiredResources)
    BY DEF DeniedDownscaleAffectedResult
  <1>5. ~HasFieldLessThan(DesiredResources, vm.Min)
    <2>1. CASE monitor.DeniedDownscale = NULL
      BY <1>3, <2>1 DEF DesiredResources
    <2>2. CASE monitor.DeniedDownscale # NULL
      <3>1. MinRequiredResourcesForDeniedDownscale(monitor.DeniedDownscale) \in Resources
        BY <2>2, DeniedMinimumClosed DEF CoreTypeOK, MonitorState, Optional
      <3>2. BoundedGoal \in Resources
        BY <1>1, <1>2, ResourcesClosed DEF BoundedGoal
      <3>. QED
        BY <1>1, <1>3, <2>2, <3>1, <3>2 DEF DesiredResources, Resources, ResMax, MaxNat,
              HasFieldGreaterThan, HasFieldLessThan
    <2>. QED  BY <2>1, <2>2
  <1>. QED  BY <1>3, <1>4, <1>5 DEF DesiredIsInvalid

\* A field in which the denied request was for less than what was approved then
\* stays above that request.
LEMMA DesiredAboveDenied ==
    ASSUME CoreTypeOK, monitor.DeniedDownscale # NULL
    PROVE  LET denied == monitor.DeniedDownscale
           IN  /\ denied.Requested.VCPU < denied.Current.VCPU =>
                      denied.Requested.VCPU < DesiredResources.VCPU
               /\ denied.Requested.Mem < denied.Current.Mem =>
                      denied.Requested.Mem < DesiredResources.Mem
  <1>. DEFINE denied == monitor.DeniedDownscale
              least  == MinRequiredResourcesForDeniedDownscale(denied)
  <1>1. denied \in [Current : Resources, Requested : Resources]
    BY DEF CoreTypeOK, MonitorState, Optional
  <1>2. least \in Resources
    BY <1>1, DeniedMinimumClosed
  <1>3. BoundedGoal \in Resources
    <2>1. vm.Min \in Resources /\ vm.Max \in Resources
      BY DEF CoreTypeOK, VmInfo
    <2>. QED  BY <2>1, GoalClosed, ResourcesClosed DEF BoundedGoal
  <1>4. /\ DesiredResources.VCPU >= least.VCPU
        /\ DesiredResources.Mem >= least.Mem
    <2>. HIDE DEF least
    <2>1. DesiredResources = ResMax(BoundedGoal, least)
      BY DEF DesiredResources, least
    <2>. QED  BY <1>2, <1>3, <2>1 DEF Resources, ResMax, MaxNat
  <1>. HIDE DEF denied
  <1>5. /\ ComputeUnit.VCPU * CUAbove(denied.Requested.VCPU, ComputeUnit.VCPU) > denied.Requested.VCPU
        /\ ComputeUnit.Mem * CUAbove(denied.Requested.Mem, ComputeUnit.Mem) > denied.Requested.Mem
        /\ ComputeUnit.VCPU * CUAbove(denied.Requested.VCPU, ComputeUnit.VCPU) \in Nat
        /\ ComputeUnit.Mem * CUAbove(denied.Requested.Mem, ComputeUnit.Mem) \in Nat
    BY <1>1, CUAboveExceeds, ComputeUnitAssumption DEF Resources
  <1>6. /\ denied.Requested.VCPU < denied.Current.VCPU => denied.Requested.VCPU < least.VCPU
        /\ denied.Requested.Mem < denied.Current.Mem => denied.Requested.Mem < least.Mem
    BY <1>1, <1>5 DEF MinRequiredResourcesForDeniedDownscale, ResMin, MinNat, Resources
  <1>7. DesiredResources \in Resources
    BY DesiredClosed
  <1>. HIDE DEF least
  <1>. QED  BY <1>1, <1>2, <1>4, <1>6, <1>7 DEF Resources, denied

\* An upscale of the vm-monitor lowers nothing that it has approved.
LEMMA UpscaleTargetRaises ==
    ASSUME NEW desired \in Resources, monitor.Approved \in Resources, vm.Using \in Resources
    PROVE  ~HasFieldLessThan(UpscaleTarget(desired), monitor.Approved)
  <1>. DEFINE request == ClampResources(monitor.Approved, vm.Using, monitor.Approved,
                                        ResMax(desired, monitor.Approved))
  <1>1. monitor.Approved # NULL /\ ResMax(desired, monitor.Approved) # NULL
    BY NullAssumption, ResourcesClosed
  <1>2. request \in Resources /\ ~HasFieldLessThan(request, monitor.Approved)
    <2>1. /\ monitor.Approved.VCPU \in Nat /\ vm.Using.VCPU \in Nat /\ desired.VCPU \in Nat
          /\ monitor.Approved.Mem \in Nat /\ vm.Using.Mem \in Nat /\ desired.Mem \in Nat
      BY DEF Resources
    <2>. DEFINE high == ResMax(desired, monitor.Approved)
    <2>h. /\ high.VCPU \in Nat /\ monitor.Approved.VCPU <= high.VCPU
          /\ high.Mem \in Nat /\ monitor.Approved.Mem <= high.Mem
      BY <2>1 DEF ResMax, MaxNat
    <2>. HIDE DEF high
    <2>r. /\ request.VCPU = IF vm.Using.VCPU < monitor.Approved.VCPU
                            THEN MaxNat(vm.Using.VCPU, monitor.Approved.VCPU)
                            ELSE IF vm.Using.VCPU > monitor.Approved.VCPU
                            THEN MinNat(vm.Using.VCPU, high.VCPU) ELSE vm.Using.VCPU
          /\ request.Mem = IF vm.Using.Mem < monitor.Approved.Mem
                           THEN MaxNat(vm.Using.Mem, monitor.Approved.Mem)
                           ELSE IF vm.Using.Mem > monitor.Approved.Mem
                           THEN MinNat(vm.Using.Mem, high.Mem) ELSE vm.Using.Mem
      BY <1>1 DEF ClampResources, ClampField, high
    <2>2. request = [VCPU |-> request.VCPU, Mem |-> request.Mem]
      BY DEF ClampResources
    <2>. HIDE DEF request
    <2>3. request.VCPU \in Nat /\ monitor.Approved.VCPU <= request.VCPU
      BY <2>1, <2>h, <2>r DEF MinNat, MaxNat
    <2>4. request.Mem \in Nat /\ monitor.Approved.Mem <= request.Mem
      BY <2>1, <2>h, <2>r DEF MinNat, MaxNat
    <2>. QED  BY <2>1, <2>2, <2>3, <2>4 DEF Resources, HasFieldGreaterThan, HasFieldLessThan
  <1>. HIDE DEF request
  <1>3. ~HasFieldLessThan(ClampResources(monitor.Approved, request, NULL,
                                         Add(request, ComputeUnit)), monitor.Approved)
    BY <1>2, ComputeUnitAssumption DEF ClampResources, ClampField, Resources, Add, MinNat,
          MaxNat, HasFieldGreaterThan, HasFieldLessThan
  <1>. QED  BY <1>3 DEF UpscaleTarget, request

\* A downscale of the vm-monitor raises nothing that it has approved, and is for
\* no less than what is desired.
LEMMA DownscaleTargetLowers ==
    ASSUME NEW desired \in Resources, monitor.Approved \in Resources
    PROVE  LET target == DownscaleTarget(desired)
           IN  /\ target \in Resources
               /\ ~HasFieldGreaterThan(target, monitor.Approved)
               /\ ~HasFieldLessThan(target, ResMin(desired, monitor.Approved))
  <1>. DEFINE request == ClampResources(monitor.Approved, desired, NULL, monitor.Approved)
  <1>1. monitor.Approved # NULL /\ SaturatingSub(monitor.Approved, ComputeUnit) # NULL
    BY NullAssumption, ResourcesClosed, ComputeUnitAssumption DEF Resources
  <1>2. request = ResMin(desired, monitor.Approved) /\ request \in Resources
    BY <1>1 DEF ClampResources, ClampField, Resources, ResMin, MinNat, MaxNat
  <1>. HIDE DEF request
  <1>. DEFINE target == ClampResources(monitor.Approved, request,
                                       SaturatingSub(monitor.Approved, ComputeUnit), NULL)
  <1>3. ~HasFieldGreaterThan(request, monitor.Approved)
    BY <1>2 DEF ResMin, MinNat, Resources, HasFieldGreaterThan
  <1>4. /\ target \in Resources
        /\ ~HasFieldGreaterThan(target, monitor.Approved)
        /\ ~HasFieldLessThan(target, request)
    <2>. DEFINE low == SaturatingSub(monitor.Approved, ComputeUnit)
    <2>1. /\ monitor.Approved.VCPU \in Nat /\ request.VCPU \in Nat /\ ComputeUnit.VCPU \in Nat
          /\ monitor.Approved.Mem \in Nat /\ request.Mem \in Nat /\ ComputeUnit.Mem \in Nat
      BY <1>2, ComputeUnitAssumption DEF Resources
    <2>2. request.VCPU <= monitor.Approved.VCPU /\ request.Mem <= monitor.Approved.Mem
      BY <1>3, <2>1 DEF HasFieldGreaterThan
    <2>l. /\ low.VCPU \in Nat /\ low.VCPU <= monitor.Approved.VCPU
          /\ low.Mem \in Nat /\ low.Mem <= monitor.Approved.Mem
      BY <2>1 DEF SaturatingSub, SubNat
    <2>. HIDE DEF low
    <2>t. /\ target.VCPU = IF request.VCPU < monitor.Approved.VCPU
                           THEN MaxNat(request.VCPU, low.VCPU) ELSE request.VCPU
          /\ target.Mem = IF request.Mem < monitor.Approved.Mem
                          THEN MaxNat(request.Mem, low.Mem) ELSE request.Mem
      BY <1>1 DEF ClampResources, ClampField, low
    <2>3. target = [VCPU |-> target.VCPU, Mem |-> target.Mem]
      BY DEF ClampResources
    <2>. HIDE DEF target
    <2>4. /\ target.VCPU \in Nat
          /\ target.VCPU <= monitor.Approved.VCPU /\ request.VCPU <= target.VCPU
      BY <2>1, <2>2, <2>l, <2>t DEF MaxNat
    <2>5. /\ target.Mem \in Nat
          /\ target.Mem <= monitor.Approved.Mem /\ request.Mem <= target.Mem
      BY <2>1, <2>2, <2>l, <2>t DEF MaxNat
    <2>. QED  BY <2>1, <2>3, <2>4, <2>5 DEF Resources, HasFieldGreaterThan, HasFieldLessThan
  <1>. HIDE DEF target
  <1>. QED  BY <1>2, <1>4 DEF DownscaleTarget, target, request

(***************************************************************************)
(* The inductive invariant                                                 *)
(***************************************************************************)
\* Request threads neither sleep nor fire, and hold an action unless they wait.
ThreadStates ==
    /\ \A t \in RequestKinds : pc[t] \in {"waiting", "ready", "calling"}
    /\ \A t \in RequestKinds : pc[t] # "waiting" => held[t] # NULL

\* RequestsMatchCalls, whether or not a thread has panicked meanwhile.
CallsMatch ==
    /\ plugin.OngoingRequest <=> pc["plugin"] = "calling"
    /\ pc["plugin"] = "calling" => plugin.LastRequest = held["plugin"].Target
    /\ neonvm = IF pc["neonvm"] = "calling" THEN held["neonvm"].Target ELSE NULL
    /\ monitor.OngoingRequest # NULL =>
          /\ monitor.OngoingRequest.Kind \in sameGeneration
          /\ monitor.OngoingRequest.Requested = held[monitor.OngoingRequest.Kind].Target
    /\ \A t \in sameGeneration :
          /\ pc[t] = "calling"
          /\ monitor.OngoingRequest # NULL
          /\ monitor.OngoingRequest.Kind = t

\* Only an active connection has requests, and it has something approved.
ConnectionState ==
    IF connection = "active" THEN monitor.Approved # NULL
    ELSE sameGeneration = {} /\ monitor.Approved = NULL

\* The cached actions allow at most one vm-monitor request, and none while one
\* is ongoing; so do the actions that threads hold and may still start.
MonitorActionsExclusive ==
    /\ actions # NULL =>
          /\ actions["upscale"] = NULL \/ actions["downscale"] = NULL
          /\ \A t \in MonitorThreads : actions[t] # NULL => monitor.OngoingRequest = NULL
          /\ \A t \in MonitorThreads : pc[t] = "ready" /\ t \in upToDate => actions[t] # NULL
    /\ \A t \in MonitorThreads : pc[t] = "ready" /\ t \in upToDate => monitor.OngoingRequest = NULL
    /\ ~\A t \in MonitorThreads : pc[t] = "ready" /\ t \in upToDate

\* Who is to look at the actions that are calculated next: every thread at the
\* top of its loop, unless there has not been any update yet.
UpdatesAreSeen ==
    /\ actions = NULL =>
          \/ \A t \in RequestKinds : pc[t] # "calling" => notified[t]
          \/ \A t \in Threads : pc[t] = "waiting" /\ ~notified[t]
    /\ \A t \in RequestKinds :
          pc[t] = "ready" => notified[t] \/ (actions # NULL /\ t \in upToDate)
    /\ actions # NULL =>
          \A t \in RequestKinds : pc[t] = "waiting" /\ ~notified[t] => actions[t] = NULL

Inv ==
    /\ TypeOK
    /\ ThreadStates
    /\ CallsMatch
    /\ ConnectionState
    /\ MonitorActionsExclusive
    /\ UpdatesAreSeen

(***************************************************************************)
(* Facts about single steps                                                *)
(***************************************************************************)
\* getActions returns an ActionSet, which is what is cached from then on.
LEMMA CurrentActionsClosed ==
    ASSUME TypeOK
    PROVE  CurrentActions \in ActionSet /\ CurrentActions # NULL
  BY NextActionsClosed, NullAssumption DEF TypeOK, CurrentActions, Optional

\* What a thread holds when it is ready or calling.
LEMMA HeldActions ==
    ASSUME TypeOK, ThreadStates, NEW t \in RequestKinds, pc[t] # "waiting"
    PROVE  held[t].Target \in Resources
  BY DEF TypeOK, ThreadStates, Optional, ScaleAction

\* An answer is for a request that is on record.
LEMMA AnswersHaveRequests ==
    ASSUME TypeOK, ThreadStates, CallsMatch
    PROVE  /\ pc["neonvm"] = "calling" => neonvm \in Resources
           /\ \A t \in sameGeneration : monitor.OngoingRequest \in MonitorRequest
           /\ monitor.OngoingRequest # NULL => monitor.OngoingRequest \in MonitorRequest
  <1>1. pc["neonvm"] = "calling" => neonvm \in Resources
    BY HeldActions DEF CallsMatch, RequestKinds
  <1>2. monitor.OngoingRequest # NULL => monitor.OngoingRequest \in MonitorRequest
    BY DEF TypeOK, CoreTypeOK, MonitorState, Optional
  <1>. QED  BY <1>1, <1>2 DEF CallsMatch

\* The vm-monitor's answers.
MonitorAnswer ==
    \/ UpscaleRequestSucceeds \/ UpscaleRequestFails
    \/ DownscaleRequestIsAllowed \/ DownscaleRequestIsDenied \/ DownscaleRequestFails

\* An answer ends the call, and the request if the connection is still the same.
LEMMA MonitorAnswers ==
    ASSUME TypeOK, ThreadStates, CallsMatch, ConnectionState, MonitorAnswer
    PROVE  \E t \in MonitorThreads :
              /\ CanFinish(t)
              /\ Finished(t)
              /\ sameGeneration' = sameGeneration \ {t}
              /\ UNCHANGED <<plugin, neonvm>>
              /\ IF t \in sameGeneration
                 THEN monitor'.OngoingRequest = NULL /\ monitor'.Approved # NULL
                 ELSE monitor' = monitor
  <1>1. ASSUME sameGeneration # {}
        PROVE  monitor.Approved # NULL /\ monitor.OngoingRequest.Requested # NULL
    BY <1>1, AnswersHaveRequests, NullAssumption DEF ConnectionState, MonitorRequest
  <1>2. ASSUME sameGeneration # {},
               \/ MonitorRequestApproved \/ UpscaleRequestFailed
               \/ DownscaleRequestFailed \/ DownscaleRequestDenied
        PROVE  monitor'.OngoingRequest = NULL /\ monitor'.Approved # NULL /\ UNCHANGED <<plugin, neonvm>>
    <2>1. monitor \in MonitorState
      BY DEF TypeOK, CoreTypeOK
    <2>2. CASE MonitorRequestApproved
      BY <1>1, <1>2, <2>1, <2>2 DEF MonitorRequestApproved, MonitorState
    <2>3. CASE UpscaleRequestFailed \/ DownscaleRequestFailed
      BY <1>1, <1>2, <2>1, <2>3 DEF UpscaleRequestFailed, DownscaleRequestFailed, MonitorState
    <2>4. CASE DownscaleRequestDenied
      BY <1>1, <1>2, <2>1, <2>4 DEF DownscaleRequestDenied, MonitorState
    <2>. QED  BY <1>2, <2>2, <2>3, <2>4
  <1>. DEFINE Ends(t) == /\ CanFinish(t)
                         /\ Finished(t)
                         /\ sameGeneration' = sameGeneration \ {t}
                         /\ UNCHANGED <<plugin, neonvm>>
                         /\ IF t \in sameGeneration
                            THEN monitor'.OngoingRequest = NULL /\ monitor'.Approved # NULL
                            ELSE monitor' = monitor
  <1>. SUFFICES \E t \in MonitorThreads : Ends(t)
    OBVIOUS
  <1>3. CASE UpscaleRequestSucceeds \/ UpscaleRequestFails
    <2>1. Ends("upscale")
      BY <1>2, <1>3 DEF UpscaleRequestSucceeds, UpscaleRequestFails, MonitorRequestReturns, coreVars
    <2>. QED  BY <2>1 DEF MonitorThreads
  <1>4. CASE DownscaleRequestIsAllowed \/ DownscaleRequestIsDenied \/ DownscaleRequestFails
    <2>1. Ends("downscale")
      BY <1>2, <1>4 DEF DownscaleRequestIsAllowed, DownscaleRequestIsDenied, DownscaleRequestFails,
            MonitorRequestReturns, coreVars
    <2>. QED  BY <2>1 DEF MonitorThreads
  <1>. QED  BY <1>3, <1>4 DEF MonitorAnswer

(***************************************************************************)
(* Types                                                                   *)
(***************************************************************************)
\* The handlers of core.State keep its types, given arguments of the right type
\* and, for an answer, a request that it answers.
LEMMA HandlersTyped ==
    ASSUME TypeOK, ThreadStates, CallsMatch, ConnectionState
    PROVE  /\ \A info \in VmInfo : UpdatedVM(info) => CoreTypeOK'
           /\ \A goal \in Nat : UpdateSystemMetrics(goal) \/ UpdateLFCMetrics(goal) => CoreTypeOK'
           /\ \A r \in Resources : PluginStartingRequest(r) \/ PluginRequestSuccessful(r) => CoreTypeOK'
           /\ PluginRequestFailed => CoreTypeOK'
           /\ \A r \in Resources : NeonVMStartingRequest(r) => CoreTypeOK'
           /\ pc["neonvm"] = "calling" /\ NeonVMRequestSuccessful => CoreTypeOK'
           /\ NeonVMRequestFailed => CoreTypeOK'
           /\ MonitorReset \/ MonitorActive => CoreTypeOK'
           /\ connection = "active" /\ UpscaleRequested(FALSE, TRUE) => CoreTypeOK'
           /\ \A r \in Resources : StartingUpscaleRequest(r) \/ StartingDownscaleRequest(r) => CoreTypeOK'
           /\ sameGeneration # {} /\ (MonitorRequestApproved \/ DownscaleRequestDenied) => CoreTypeOK'
           /\ UpscaleRequestFailed \/ DownscaleRequestFailed => CoreTypeOK'
           /\ \A t \in MayExpire : Expire(t) => CoreTypeOK'
  <1>t. CoreTypeOK
    BY DEF TypeOK
  <1>. USE DEF CoreTypeOK, Optional
  <1>1. \A info \in VmInfo : UpdatedVM(info) => CoreTypeOK'
    BY <1>t DEF UpdatedVM, VmInfo, MetricsState
  <1>2. \A goal \in Nat : UpdateSystemMetrics(goal) \/ UpdateLFCMetrics(goal) => CoreTypeOK'
    BY <1>t DEF UpdateSystemMetrics, UpdateLFCMetrics, MetricsState
  <1>3. PluginRequestFailed => CoreTypeOK'
    BY <1>t DEF PluginRequestFailed, PluginState, Timers
  <1>4. \A r \in Resources : PluginStartingRequest(r) \/ PluginRequestSuccessful(r) => CoreTypeOK'
    BY <1>t, <1>3 DEF PluginStartingRequest, PluginRequestSuccessful, PluginState, Timers
  <1>5. \A r \in Resources : NeonVMStartingRequest(r) => CoreTypeOK'
    BY <1>t DEF NeonVMStartingRequest
  <1>6. pc["neonvm"] = "calling" /\ NeonVMRequestSuccessful => CoreTypeOK'
    BY <1>t, AnswersHaveRequests DEF NeonVMRequestSuccessful, VmInfo
  <1>7. NeonVMRequestFailed => CoreTypeOK'
    BY <1>t DEF NeonVMRequestFailed, Timers
  <1>8. MonitorReset \/ MonitorActive => CoreTypeOK'
    BY <1>t DEF MonitorReset, MonitorActive, NewMonitor, MonitorState, VmInfo
  <1>9. connection = "active" => monitor.Approved \in Resources
    BY <1>t DEF ConnectionState, MonitorState
  <1>10. connection = "active" /\ UpscaleRequested(FALSE, TRUE) => CoreTypeOK'
    <2>1. SUFFICES ASSUME connection = "active", UpscaleRequested(FALSE, TRUE)
                   PROVE  CoreTypeOK'
      OBVIOUS
    <2>2. [Base |-> monitor.Approved, Cpu |-> FALSE, Memory |-> TRUE] \in
              [Base : Resources, Cpu : BOOLEAN, Memory : BOOLEAN]
      BY <1>9, <2>1
    <2>. DEFINE requestedUpscale == [Base |-> monitor.Approved, Cpu |-> FALSE, Memory |-> TRUE]
    <2>3. monitor' = [monitor EXCEPT !.RequestedUpscale = requestedUpscale]
      BY <2>1 DEF UpscaleRequested
    <2>. HIDE DEF requestedUpscale
    <2>4. monitor' \in MonitorState
      BY <1>t, <2>2, <2>3 DEF MonitorState, requestedUpscale
    <2>. QED  BY <1>t, <2>1, <2>4 DEF UpscaleRequested
  <1>11. \A r \in Resources : StartingUpscaleRequest(r) \/ StartingDownscaleRequest(r) => CoreTypeOK'
    BY <1>t DEF StartingUpscaleRequest, StartingDownscaleRequest, MonitorState, MonitorRequest
  <1>12. sameGeneration # {} => monitor.Approved \in Resources /\ monitor.OngoingRequest \in MonitorRequest
    BY <1>9, AnswersHaveRequests DEF ConnectionState
  <1>13. sameGeneration # {} /\ (MonitorRequestApproved \/ DownscaleRequestDenied) => CoreTypeOK'
    <2>1. SUFFICES ASSUME sameGeneration # {}, MonitorRequestApproved \/ DownscaleRequestDenied
                   PROVE  CoreTypeOK'
      OBVIOUS
    <2>2. monitor.Approved \in Resources /\ monitor.OngoingRequest.Requested \in Resources
      BY <1>12, <2>1 DEF MonitorRequest
    <2>3. CASE MonitorRequestApproved
      BY <1>t, <2>2, <2>3 DEF MonitorRequestApproved, MonitorState
    <2>4. CASE DownscaleRequestDenied
      BY <1>t, <2>2, <2>4 DEF DownscaleRequestDenied, MonitorState
    <2>. QED  BY <2>1, <2>3, <2>4
  <1>14. UpscaleRequestFailed \/ DownscaleRequestFailed => CoreTypeOK'
    BY <1>t DEF UpscaleRequestFailed, DownscaleRequestFailed, MonitorState, Timers
  <1>15. \A t \in MayExpire : Expire(t) => CoreTypeOK'
    BY <1>t DEF Expire, MonitorState
  <1>. QED
    BY <1>1, <1>2, <1>3, <1>4, <1>5, <1>6, <1>7, <1>8, <1>10, <1>11, <1>13, <1>14, <1>15

\* Every step keeps the types.
LEMMA TypeStep ==
    ASSUME Inv, Next
    PROVE  TypeOK'
  <1>t. TypeOK /\ CoreTypeOK /\ ThreadStates /\ CallsMatch /\ ConnectionState
    BY DEF Inv, TypeOK
  <1>. USE DEF Optional, Threads, RequestKinds
  <1>1. ASSUME NEW t \in RequestKinds, Wake(t) PROVE TypeOK'
    <2>1. CurrentActions \in ActionSet
      BY <1>t, CurrentActionsClosed
    <2>2. CurrentActions[t] \in
             Optional(ScaleAction \union [LastPermit : Optional(Resources), Target : Resources])
      BY <2>1 DEF ActionSet
    <2>3. actions' \in ActionSet /\ upToDate' \in SUBSET RequestKinds
      <3>1. PICK takers \in SUBSET RequestKinds : GetActions(takers)
        <4>1. CASE CurrentActions[t] = NULL
          BY <1>1, <4>1 DEF Wake
        <4>2. CASE CurrentActions[t] # NULL
          BY <1>1, <4>2 DEF Wake
        <4>. QED  BY <4>1, <4>2
      <3>. QED  BY <1>t, <2>1, <3>1 DEF TypeOK, GetActions
    <2>4. /\ notified' \in [Threads -> BOOLEAN]
          /\ pc' \in [Threads -> {"waiting", "ready", "calling", "sleeping", "fired"}]
      BY <1>t, <1>1 DEF TypeOK, Wake
    <2>5. held' \in [RequestKinds -> Optional(ScaleAction \union
                         [LastPermit : Optional(Resources), Target : Resources])]
      BY <1>t, <1>1, <2>2 DEF TypeOK, Wake
    <2>. QED
      BY <1>t, <1>1, <2>3, <2>4, <2>5 DEF TypeOK, CoreTypeOK, Wake, coreVars, envVars
  <1>2. ASSUME NEW t \in Threads, GetActionsPanics(t) PROVE TypeOK'
    BY <1>t, <1>2 DEF TypeOK, CoreTypeOK, GetActionsPanics, Panic, PanicReasons, Checks,
                      coreVars, execVars
  <1>3. ASSUME NEW t \in RequestKinds, Retry(t) PROVE TypeOK'
    BY <1>t, <1>3 DEF TypeOK, CoreTypeOK, Retry, coreVars, envVars
  \* A step that starts a request keeps the types if the handler it calls does.
  <1>4. ASSUME NEW t \in RequestKinds, CanStart(t), Started(t), CoreTypeOK',
               sameGeneration' \in SUBSET MonitorThreads
        PROVE  TypeOK'
    BY <1>t, <1>4 DEF TypeOK, Started, Update
  <1>5. StartPluginRequest \/ StartNeonVMRequest => TypeOK'
    BY <1>t, <1>4, HeldActions, HandlersTyped
       DEF StartPluginRequest, StartNeonVMRequest, CanStart, TypeOK
  <1>6. StartUpscaleRequest \/ StartDownscaleRequest => TypeOK'
    BY <1>t, <1>4, HeldActions, HandlersTyped
       DEF StartUpscaleRequest, StartDownscaleRequest, CanStart, TypeOK, MonitorThreads
  <1>7. ASSUME NEW t \in MonitorThreads, StartMonitorRequestWithoutHandle(t) PROVE TypeOK'
    BY <1>t, <1>7 DEF TypeOK, CoreTypeOK, StartMonitorRequestWithoutHandle, Panic, coreVars, execVars
  \* So does a step that stores a result.
  <1>8. ASSUME NEW t \in RequestKinds, Finished(t), CoreTypeOK',
               spec' \in Resources, sameGeneration' \in SUBSET MonitorThreads
        PROVE  TypeOK'
    BY <1>t, <1>8 DEF TypeOK, Finished, Update
  <1>9. PluginRequestFails \/ PluginResponds => TypeOK'
    BY <1>t, <1>8, HandlersTyped, InputsAssumption
       DEF PluginRequestFails, PluginResponds, PluginRespondsWith, TypeOK
  <1>10. NeonVMRequestSucceeds \/ NeonVMRequestFails => TypeOK'
    BY <1>t, <1>8, HeldActions, HandlersTyped
       DEF NeonVMRequestSucceeds, NeonVMRequestFails, CanFinish, TypeOK
  <1>11. \/ UpscaleRequestSucceeds \/ UpscaleRequestFails \/ DownscaleRequestIsAllowed
         \/ DownscaleRequestIsDenied \/ DownscaleRequestFails
         => TypeOK'
    BY <1>t, <1>8, HandlersTyped
       DEF UpscaleRequestSucceeds, UpscaleRequestFails, DownscaleRequestIsAllowed,
           DownscaleRequestIsDenied, DownscaleRequestFails, MonitorRequestReturns, TypeOK,
           CoreTypeOK, coreVars
  <1>12. ASSUME SleeperWakes PROVE TypeOK'
    <2>1. CurrentActions \in ActionSet
      BY <1>t, CurrentActionsClosed
    <2>2. CurrentActions.wait \in SUBSET (Timers \union Cooldowns)
      BY <2>1 DEF ActionSet
    <2>3. notified' \in [Threads -> BOOLEAN]
      BY <1>t, <1>12 DEF TypeOK, SleeperWakes
    <2>4. pc' \in [Threads -> {"waiting", "ready", "calling", "sleeping", "fired"}]
      BY <1>t, <1>12 DEF TypeOK, SleeperWakes
    <2>5. actions' \in ActionSet /\ upToDate' \in SUBSET RequestKinds
      BY <1>t, <1>12, <2>1 DEF TypeOK, SleeperWakes, GetActions
    <2>6. CoreTypeOK'
      BY <1>t, <1>12 DEF CoreTypeOK, SleeperWakes, coreVars
    <2>. QED
      BY <1>t, <1>12, <2>2, <2>3, <2>4, <2>5, <2>6 DEF TypeOK, SleeperWakes, envVars, coreVars
  <1>13. SleeperInterrupted \/ SleeperFires => TypeOK'
    BY <1>t DEF SleeperInterrupted, SleeperFires, Update, TypeOK, CoreTypeOK, coreVars, envVars
  <1>14. ASSUME SleeperRefreshes PROVE TypeOK'
    <2>1. actions' \in ActionSet /\ upToDate' \in SUBSET RequestKinds
      BY <1>t, <1>14, CurrentActionsClosed DEF TypeOK, SleeperRefreshes, GetActions
    <2>2. notified' \in [Threads -> BOOLEAN]
      BY <1>t, <1>14 DEF TypeOK, SleeperRefreshes
    <2>3. pc' \in [Threads -> {"waiting", "ready", "calling", "sleeping", "fired"}]
      BY <1>t, <1>14 DEF TypeOK, SleeperRefreshes
    <2>4. CoreTypeOK'
      BY <1>t, <1>14 DEF TypeOK, CoreTypeOK, SleeperRefreshes, coreVars
    <2>. QED
      BY <1>t, <1>14, <2>1, <2>2, <2>3, <2>4 DEF TypeOK, SleeperRefreshes, envVars, coreVars
  \* And a step that stores what comes from outside.
  <1>15. ASSUME ExternalUpdate, CoreTypeOK', connection' \in {"down", "connected", "active"},
                sameGeneration' \in SUBSET MonitorThreads, fetchingLFC' \in BOOLEAN
         PROVE  TypeOK'
    BY <1>t, <1>15 DEF TypeOK, ExternalUpdate, Update
  <1>16. VmInfoUpdated \/ SystemMetricsUpdated \/ LFCMetricsUpdated => TypeOK'
    BY <1>t, <1>15, HandlersTyped, InputsAssumption
       DEF VmInfoUpdated, SystemMetricsUpdated, LFCMetricsUpdated, TypeOK
  <1>17. MonitorSetActive \/ MonitorConnectionReset \/ UpscaleRequestReceived => TypeOK'
    BY <1>t, <1>15, HandlersTyped
       DEF MonitorSetActive, MonitorConnectionReset, UpscaleRequestReceived, TypeOK
  <1>18. FetchLFCMetrics \/ MonitorConnected \/ UpscaleRequestReceivedEarly => TypeOK'
    BY <1>t DEF FetchLFCMetrics, MonitorConnected, UpscaleRequestReceivedEarly, Panic, TypeOK,
                CoreTypeOK, coreVars, execVars
  <1>19. TimePasses => TypeOK'
    BY <1>t, HandlersTyped DEF TimePasses, TimePassesFor, TypeOK, execVars, envVars
  <1>20. RestartAfterPanic => TypeOK'
    <2>1. RestartAfterPanic => spec' \in Resources
      BY <1>t DEF RestartAfterPanic, TypeOK, CoreTypeOK
    <2>2. RestartAfterPanic => vm' \in VmInfo
      BY <1>t, <2>1 DEF RestartAfterPanic, CoreTypeOK, VmInfo
    <2>3. NoMetrics \in MetricsState /\ NewPlugin \in PluginState /\ NewMonitor \in MonitorState
      BY DEF NoMetrics, MetricsState, NewPlugin, PluginState, NewMonitor, MonitorState
    <2>4. RestartAfterPanic => CoreTypeOK'
      BY <2>2, <2>3 DEF RestartAfterPanic, CoreTypeOK
    <2>. QED  BY <2>1, <2>4 DEF RestartAfterPanic, TypeOK
  <1>. QED
    BY <1>1, <1>2, <1>3, <1>5, <1>6, <1>7, <1>9, <1>10, <1>11, <1>12, <1>13, <1>14, <1>16, <1>17,
       <1>18, <1>19, <1>20
       DEF Next, RunnerStep, OutsideStep, PluginThread, NeonVMThread, UpscaleThread,
           DownscaleThread, Sleeper, ConnectionLoop, MonitorThreads

(***************************************************************************)
(* Threads and calls                                                       *)
(***************************************************************************)
\* A request thread that is not waiting holds an action.
LEMMA ThreadStatesStep ==
    ASSUME Inv, Next
    PROVE  ThreadStates'
  <1>t. TypeOK /\ ThreadStates
    BY DEF Inv
  <1>. USE DEF ThreadStates, RequestKinds, Threads
  <1>1. ASSUME NEW t \in RequestKinds, Wake(t) PROVE ThreadStates'
    BY <1>t, <1>1 DEF Wake, TypeOK
  <1>2. ASSUME NEW t \in RequestKinds, Retry(t) \/ (CanStart(t) /\ Started(t)) \/ Finished(t)
        PROVE  ThreadStates'
    BY <1>t, <1>2 DEF Retry, CanStart, Started, Finished, TypeOK
  <1>3. Sleeper => ThreadStates'
    BY <1>t DEF Sleeper, SleeperWakes, SleeperInterrupted, SleeperFires, SleeperRefreshes,
                GetActionsPanics, Panic, execVars, TypeOK
  <1>4. RestartAfterPanic => ThreadStates'
    BY DEF RestartAfterPanic
  <1>5. OutsideStep => ThreadStates'
    BY <1>t DEF OutsideStep, ConnectionLoop, MonitorConnected, MonitorSetActive,
                MonitorConnectionReset, UpscaleRequestReceived, UpscaleRequestReceivedEarly,
                VmInfoUpdated, SystemMetricsUpdated, FetchLFCMetrics, LFCMetricsUpdated,
                TimePasses, TimePassesFor, ExternalUpdate, Panic, execVars
  <1>6. ASSUME NEW t \in Threads,
               GetActionsPanics(t) \/ StartMonitorRequestWithoutHandle(t)
        PROVE  ThreadStates'
    BY <1>t, <1>6 DEF GetActionsPanics, StartMonitorRequestWithoutHandle, Panic, execVars
  <1>7. PluginThread => ThreadStates'
    BY <1>1, <1>2, <1>6 DEF PluginThread, StartPluginRequest, PluginRequestFails, PluginResponds,
                            PluginRespondsWith
  <1>8. NeonVMThread => ThreadStates'
    BY <1>1, <1>2, <1>6 DEF NeonVMThread, StartNeonVMRequest, NeonVMRequestSucceeds,
                            NeonVMRequestFails
  <1>9. UpscaleThread => ThreadStates'
    BY <1>1, <1>2, <1>6 DEF UpscaleThread, StartUpscaleRequest, UpscaleRequestSucceeds,
                            UpscaleRequestFails, MonitorRequestReturns
  <1>10. DownscaleThread => ThreadStates'
    BY <1>1, <1>2, <1>6 DEF DownscaleThread, StartDownscaleRequest, DownscaleRequestIsAllowed,
                            DownscaleRequestIsDenied, DownscaleRequestFails, MonitorRequestReturns
  <1>. QED
    BY <1>3, <1>4, <1>5, <1>7, <1>8, <1>9, <1>10 DEF Next, RunnerStep

\* Only an active connection has requests, and it has something approved.
LEMMA ConnectionStep ==
    ASSUME Inv, Next
    PROVE  ConnectionState'
  <1>t. TypeOK /\ ThreadStates /\ CallsMatch /\ ConnectionState
    BY DEF Inv
  <1>. USE DEF ConnectionState
  <1>1. ASSUME UNCHANGED <<monitor, connection, sameGeneration>>
        PROVE  ConnectionState'
    BY <1>t, <1>1
  <1>2. ASSUME NEW t \in Threads, Wake(t) \/ Retry(t) \/ GetActionsPanics(t)
        PROVE  ConnectionState'
    BY <1>1, <1>2 DEF Wake, Retry, GetActionsPanics, Panic, coreVars, envVars
  <1>3. ASSUME NEW t \in Threads, StartMonitorRequestWithoutHandle(t) PROVE ConnectionState'
    BY <1>1, <1>3 DEF StartMonitorRequestWithoutHandle, Panic, coreVars
  <1>4. PluginThread => ConnectionState'
    BY <1>1, <1>2 DEF PluginThread, StartPluginRequest, PluginStartingRequest, PluginRequestFails,
          PluginResponds, PluginRespondsWith, PluginRequestSuccessful, PluginRequestFailed,
          Started, Finished, Threads, RequestKinds
  <1>5. NeonVMThread => ConnectionState'
    BY <1>1, <1>2 DEF NeonVMThread, StartNeonVMRequest, NeonVMStartingRequest,
          NeonVMRequestSucceeds, NeonVMRequestSuccessful, NeonVMRequestFails, NeonVMRequestFailed,
          Started, Finished, Threads, RequestKinds
  <1>6. StartUpscaleRequest \/ StartDownscaleRequest => ConnectionState'
    BY <1>t DEF StartUpscaleRequest, StartDownscaleRequest, StartingUpscaleRequest,
          StartingDownscaleRequest, Started, TypeOK, CoreTypeOK, MonitorState
  <1>7. MonitorAnswer => ConnectionState'
    BY <1>t, MonitorAnswers DEF Finished
  <1>8. Sleeper => ConnectionState'
    BY <1>1, <1>2 DEF Sleeper, SleeperWakes, SleeperInterrupted, SleeperFires, SleeperRefreshes,
          Threads, coreVars, envVars
  <1>9. RestartAfterPanic => ConnectionState'
    BY DEF RestartAfterPanic, NewMonitor
  <1>10. MonitorConnected \/ MonitorSetActive \/ MonitorConnectionReset => ConnectionState'
    BY <1>t, NullAssumption DEF MonitorConnected, MonitorSetActive, MonitorActive,
          MonitorConnectionReset, MonitorReset, NewMonitor, coreVars, TypeOK, CoreTypeOK,
          MonitorState, VmInfo
  <1>11. UpscaleRequestReceived => ConnectionState'
    BY <1>t DEF UpscaleRequestReceived, UpscaleRequested, TypeOK, CoreTypeOK, MonitorState
  <1>12. TimePasses => ConnectionState'
    BY <1>t DEF TimePasses, TimePassesFor, Expire, envVars, TypeOK, CoreTypeOK, MonitorState
  <1>13. \/ UpscaleRequestReceivedEarly \/ VmInfoUpdated \/ SystemMetricsUpdated
         \/ FetchLFCMetrics \/ LFCMetricsUpdated
         => ConnectionState'
    BY <1>1 DEF UpscaleRequestReceivedEarly, Panic, VmInfoUpdated, UpdatedVM,
          SystemMetricsUpdated, UpdateSystemMetrics, FetchLFCMetrics, LFCMetricsUpdated,
          UpdateLFCMetrics, coreVars
  <1>. QED
    BY <1>2, <1>3, <1>4, <1>5, <1>6, <1>7, <1>8, <1>9, <1>10, <1>11, <1>12, <1>13
       DEF Next, RunnerStep, OutsideStep, UpscaleThread, DownscaleThread, ConnectionLoop,
           MonitorAnswer, Threads, RequestKinds

\* Calls in flight keep matching the requests on record.
LEMMA CallsMatchStep ==
    ASSUME Inv, Next
    PROVE  CallsMatch'
  <1>t. TypeOK /\ ThreadStates /\ CallsMatch /\ ConnectionState /\ MonitorActionsExclusive
    BY DEF Inv
  <1>. USE DEF RequestKinds, Threads, MonitorThreads
  <1>r. /\ sameGeneration \subseteq {"upscale", "downscale"}
        /\ monitor.OngoingRequest # NULL => monitor.OngoingRequest.Kind \in {"upscale", "downscale"}
    BY <1>t, AnswersHaveRequests DEF TypeOK, MonitorRequest
  \* Steps that neither start nor end a call.
  <1>1. ASSUME UNCHANGED <<plugin, neonvm, sameGeneration>>,
               monitor'.OngoingRequest = monitor.OngoingRequest,
               \A t \in RequestKinds : /\ pc'[t] = "calling" <=> pc[t] = "calling"
                                       /\ pc[t] = "calling" => held'[t] = held[t]
        PROVE  CallsMatch'
    BY SMTT(30), <1>t, <1>r, <1>1 DEF CallsMatch
  <1>2. ASSUME NEW t \in Threads, Wake(t) \/ Retry(t) \/ GetActionsPanics(t)
        PROVE  CallsMatch'
    BY <1>t, <1>1, <1>2 DEF Wake, Retry, GetActionsPanics, Panic, coreVars, execVars, envVars, TypeOK
  <1>3. ASSUME NEW t \in Threads, StartMonitorRequestWithoutHandle(t) PROVE CallsMatch'
    BY <1>1, <1>3 DEF StartMonitorRequestWithoutHandle, Panic, coreVars, execVars
  <1>4. Sleeper => CallsMatch'
    BY <1>t, <1>1, <1>2 DEF Sleeper, SleeperWakes, SleeperInterrupted, SleeperFires,
          SleeperRefreshes, coreVars, envVars, TypeOK
  <1>5. \/ MonitorConnected \/ UpscaleRequestReceived \/ UpscaleRequestReceivedEarly
        \/ VmInfoUpdated \/ SystemMetricsUpdated \/ FetchLFCMetrics \/ LFCMetricsUpdated
        => CallsMatch'
    BY <1>t, <1>1 DEF MonitorConnected, UpscaleRequestReceived, UpscaleRequested,
          UpscaleRequestReceivedEarly, Panic, VmInfoUpdated, UpdatedVM, SystemMetricsUpdated,
          UpdateSystemMetrics, FetchLFCMetrics, LFCMetricsUpdated, UpdateLFCMetrics,
          ExternalUpdate, coreVars, execVars, TypeOK, CoreTypeOK, MonitorState
  <1>6. TimePasses => CallsMatch'
    BY <1>t, <1>1 DEF TimePasses, TimePassesFor, Expire, execVars, envVars, TypeOK, CoreTypeOK,
          MonitorState
  \* A thread starts its request: it was not calling, so none was on record.
  <1>7. StartPluginRequest => CallsMatch'
    BY SMTT(30), <1>t, <1>r DEF StartPluginRequest, CanStart, PluginStartingRequest, Started,
          CallsMatch, TypeOK, CoreTypeOK, PluginState
  <1>8. ASSUME StartNeonVMRequest PROVE CallsMatch'
    <2>1. neonvm' = held["neonvm"].Target /\ UNCHANGED <<plugin, monitor, sameGeneration, held>>
      BY <1>8 DEF StartNeonVMRequest, NeonVMStartingRequest, Started
    <2>2. pc'["neonvm"] = "calling" /\ \A t \in RequestKinds \ {"neonvm"} : pc'[t] = pc[t]
      BY <1>t, <1>8 DEF StartNeonVMRequest, Started, TypeOK
    <2>. QED  BY <1>t, <1>r, <2>1, <2>2 DEF CallsMatch
  <1>9. ASSUME NEW t \in MonitorThreads, CanStart(t)
        PROVE  monitor.OngoingRequest = NULL /\ sameGeneration = {}
    BY <1>t, <1>9 DEF CanStart, MonitorActionsExclusive, CallsMatch, TypeOK
  <1>10. StartUpscaleRequest \/ StartDownscaleRequest => CallsMatch'
    <2>1. ASSUME NEW t \in MonitorThreads, CanStart(t), Started(t),
                 monitor'.OngoingRequest = [Kind |-> t, Requested |-> held[t].Target],
                 sameGeneration' = sameGeneration \union {t}, UNCHANGED <<plugin, neonvm>>
          PROVE  CallsMatch'
      <3>1. [Kind |-> t, Requested |-> held[t].Target] # NULL
        <4>1. held[t].Target \in Resources
          BY <1>t, <2>1, HeldActions DEF CanStart
        <4>. QED  BY <4>1, NullAssumption DEF MonitorRequest
      <3>2. sameGeneration' = {t} /\ held' = held
        BY <1>9, <2>1 DEF Started
      <3>3. pc'[t] = "calling" /\ \A u \in {"plugin", "neonvm"} : pc'[u] = pc[u]
        BY <1>t, <2>1 DEF Started, TypeOK
      <3>4. monitor'.OngoingRequest.Kind = t /\ monitor'.OngoingRequest.Requested = held'[t].Target
        BY <2>1, <3>2
      <3>. QED  BY <1>t, <2>1, <3>1, <3>2, <3>3, <3>4 DEF CallsMatch
    <2>. QED
      BY <1>t, <2>1 DEF StartUpscaleRequest, StartDownscaleRequest, StartingUpscaleRequest,
            StartingDownscaleRequest, TypeOK, CoreTypeOK, MonitorState
  \* A call returns, and its request is taken off the record.
  <1>11. PluginRequestFails \/ PluginResponds => CallsMatch'
    <2>1. ASSUME Finished("plugin"), plugin'.OngoingRequest = FALSE,
                 UNCHANGED <<monitor, neonvm, sameGeneration>>
          PROVE  CallsMatch'
      BY <1>t, <2>1, AnswersHaveRequests DEF Finished, CallsMatch, TypeOK, MonitorRequest
    <2>2. PluginRequestFailed => plugin'.OngoingRequest = FALSE /\ UNCHANGED <<monitor, neonvm>>
      BY <1>t DEF PluginRequestFailed, TypeOK, CoreTypeOK, PluginState
    <2>3. \A permit \in Permits : PluginRequestSuccessful(permit) =>
              plugin'.OngoingRequest = FALSE /\ UNCHANGED <<monitor, neonvm>>
      BY <1>t, <2>2 DEF PluginRequestSuccessful, TypeOK, CoreTypeOK, PluginState
    <2>. QED
      BY <2>1, <2>2, <2>3 DEF PluginRequestFails, PluginResponds, PluginRespondsWith
  <1>12. NeonVMRequestSucceeds \/ NeonVMRequestFails => CallsMatch'
    <2>1. ASSUME Finished("neonvm"), neonvm' = NULL,
                 UNCHANGED <<plugin, monitor, sameGeneration>>
          PROVE  CallsMatch'
      BY <1>t, <2>1, AnswersHaveRequests DEF Finished, CallsMatch, TypeOK, MonitorRequest
    <2>. QED
      BY <2>1 DEF NeonVMRequestSucceeds, NeonVMRequestSuccessful, NeonVMRequestFails,
                  NeonVMRequestFailed
  <1>13. MonitorAnswer => CallsMatch'
    <2>1. SUFFICES ASSUME MonitorAnswer PROVE CallsMatch'
      OBVIOUS
    <2>2. PICK t \in MonitorThreads :
              /\ CanFinish(t)
              /\ Finished(t)
              /\ sameGeneration' = sameGeneration \ {t}
              /\ UNCHANGED <<plugin, neonvm>>
              /\ IF t \in sameGeneration
                 THEN monitor'.OngoingRequest = NULL /\ monitor'.Approved # NULL
                 ELSE monitor' = monitor
      BY <1>t, <2>1, MonitorAnswers
    <2>3. CASE t \in sameGeneration
      BY <1>t, <2>2, <2>3 DEF CanFinish, Finished, CallsMatch, TypeOK
    <2>4. CASE t \notin sameGeneration
      <3>1. sameGeneration' = sameGeneration /\ UNCHANGED <<plugin, neonvm, monitor>>
        BY <2>2, <2>4
      <3>2. \A u \in RequestKinds \ {t} : pc'[u] = pc[u] /\ held'[u] = held[u]
        BY <1>t, <2>2 DEF Finished, TypeOK
      <3>. QED  BY <1>t, <1>r, <2>2, <2>4, <3>1, <3>2 DEF CallsMatch
    <2>. QED  BY <2>3, <2>4
  \* The connection changes: no request is on record, nor any handle current.
  <1>14. MonitorSetActive \/ MonitorConnectionReset => CallsMatch'
    BY <1>t DEF MonitorSetActive, MonitorActive, MonitorConnectionReset, MonitorReset,
          NewMonitor, ExternalUpdate, CallsMatch, ConnectionState, TypeOK, CoreTypeOK, MonitorState
  <1>15. RestartAfterPanic => CallsMatch'
    BY DEF RestartAfterPanic, NewPlugin, NewMonitor, CallsMatch
  <1>. QED
    BY <1>2, <1>3, <1>4, <1>5, <1>6, <1>7, <1>8, <1>10, <1>11, <1>12, <1>13, <1>14, <1>15
       DEF Next, RunnerStep, OutsideStep, PluginThread, NeonVMThread, UpscaleThread,
           DownscaleThread, ConnectionLoop, MonitorAnswer

(***************************************************************************)
(* Recommended actions and broadcasts                                      *)
(***************************************************************************)
\* What getActions returns allows at most one vm-monitor request, and none while
\* one is ongoing, whether it is cached or not.
LEMMA CurrentActionsExclusive ==
    ASSUME MonitorActionsExclusive
    PROVE  /\ CurrentActions["upscale"] = NULL \/ CurrentActions["downscale"] = NULL
           /\ \A t \in MonitorThreads : CurrentActions[t] # NULL => monitor.OngoingRequest = NULL
  <1>1. CASE actions # NULL
    BY <1>1 DEF MonitorActionsExclusive, CurrentActions
  <1>2. CASE actions = NULL
    <2>1. CurrentActions = NextActions
      BY <1>2 DEF CurrentActions
    <2>2. /\ NextActions["upscale"] = NULL \/ NextActions["downscale"] = NULL
          /\ \A t \in MonitorThreads : NextActions[t] # NULL => monitor.OngoingRequest = NULL
      BY NextActionsWhen DEF MonitorThreads
    <2>. QED  BY <2>1, <2>2
  <1>. QED  BY <1>1, <1>2

\* At most one vm-monitor request is recommended or about to be started, and none
\* while one is ongoing.
LEMMA ExclusiveStep ==
    ASSUME Inv, Next
    PROVE  MonitorActionsExclusive'
  <1>t. TypeOK /\ ThreadStates /\ CallsMatch /\ ConnectionState /\ MonitorActionsExclusive
    BY DEF Inv
  <1>. USE DEF RequestKinds, Threads, MonitorThreads
  \* An update: the cache is emptied, and nothing new is about to be started.
  <1>1. ASSUME actions' = NULL, upToDate' \in SUBSET upToDate,
               monitor'.OngoingRequest \in {monitor.OngoingRequest, NULL},
               \A t \in MonitorThreads : pc'[t] = "ready" => pc[t] = "ready"
        PROVE  MonitorActionsExclusive'
    BY <1>t, <1>1 DEF MonitorActionsExclusive
  <1>2. ASSUME NEW t \in RequestKinds,
               (CanStart(t) /\ Started(t)) \/ Finished(t),
               monitor'.OngoingRequest \in {monitor.OngoingRequest, NULL}
        PROVE  MonitorActionsExclusive'
    BY <1>t, <1>1, <1>2 DEF Started, Finished, Update, TypeOK
  <1>3. ASSUME ExternalUpdate, monitor'.OngoingRequest \in {monitor.OngoingRequest, NULL}
        PROVE  MonitorActionsExclusive'
    BY <1>1, <1>3 DEF ExternalUpdate, Update
  \* getActions, on behalf of a thread that is recommended something or not.
  <1>4. ASSUME NEW takers \in SUBSET RequestKinds, GetActions(takers), UNCHANGED monitor,
               \A t \in takers : CurrentActions[t] # NULL,
               \A t \in MonitorThreads : pc'[t] = "ready" => pc[t] = "ready" \/ t \in takers
        PROVE  MonitorActionsExclusive'
    <2>1. actions' = CurrentActions
      BY <1>4 DEF GetActions
    <2>2. \A t \in MonitorThreads : pc'[t] = "ready" /\ t \in upToDate' => CurrentActions[t] # NULL
      BY <1>t, <1>4 DEF GetActions, CurrentActions, MonitorActionsExclusive
    <2>. QED
      BY <1>t, <1>4, <2>1, <2>2, CurrentActionsExclusive DEF MonitorActionsExclusive
  <1>5. ASSUME NEW t \in RequestKinds, Wake(t) PROVE MonitorActionsExclusive'
    <2>1. CASE CurrentActions[t] = NULL
      BY <1>4, <1>5, <2>1 DEF Wake, coreVars
    <2>2. CASE CurrentActions[t] # NULL
      <3>1. GetActions({t}) /\ UNCHANGED monitor
        BY <1>5, <2>2 DEF Wake, coreVars
      <3>2. \A u \in MonitorThreads : pc'[u] = "ready" => pc[u] = "ready" \/ u \in {t}
        BY <1>t, <1>5, <2>2 DEF Wake, TypeOK
      <3>. QED  BY <1>4, <2>2, <3>1, <3>2
    <2>. QED  BY <2>1, <2>2
  <1>6. SleeperWakes \/ SleeperRefreshes => MonitorActionsExclusive'
    <2>1. SUFFICES ASSUME SleeperWakes \/ SleeperRefreshes PROVE MonitorActionsExclusive'
      OBVIOUS
    <2>2. GetActions({}) /\ UNCHANGED monitor
      BY <2>1 DEF SleeperWakes, SleeperRefreshes, coreVars
    <2>3. \A u \in MonitorThreads : pc'[u] = "ready" => pc[u] = "ready"
      BY <1>t, <2>1 DEF SleeperWakes, SleeperRefreshes, TypeOK
    <2>. QED  BY <1>4, <2>2, <2>3
  \* Steps that leave the actions alone.
  <1>7. ASSUME UNCHANGED <<actions, upToDate>>,
               monitor'.OngoingRequest = monitor.OngoingRequest,
               \A t \in MonitorThreads : pc'[t] = "ready" => pc[t] = "ready"
        PROVE  MonitorActionsExclusive'
    BY <1>t, <1>7 DEF MonitorActionsExclusive
  <1>8. ASSUME NEW t \in Threads,
               Retry(t) \/ GetActionsPanics(t) \/ StartMonitorRequestWithoutHandle(t)
        PROVE  MonitorActionsExclusive'
    BY <1>t, <1>7, <1>8 DEF Retry, GetActionsPanics, StartMonitorRequestWithoutHandle, Panic,
          coreVars, execVars, TypeOK
  <1>9. \/ SleeperInterrupted \/ MonitorConnected \/ FetchLFCMetrics
        \/ UpscaleRequestReceivedEarly \/ TimePasses
        => MonitorActionsExclusive'
    BY <1>t, <1>7 DEF SleeperInterrupted, MonitorConnected, FetchLFCMetrics,
          UpscaleRequestReceivedEarly, Panic, TimePasses, TimePassesFor, Expire, coreVars,
          execVars, TypeOK, CoreTypeOK, MonitorState
  <1>10. SleeperFires => MonitorActionsExclusive'
    BY <1>t, <1>1 DEF SleeperFires, Update, coreVars, TypeOK
  <1>11. StartPluginRequest \/ StartNeonVMRequest => MonitorActionsExclusive'
    BY <1>2 DEF StartPluginRequest, PluginStartingRequest, StartNeonVMRequest,
          NeonVMStartingRequest
  <1>12. StartUpscaleRequest \/ StartDownscaleRequest => MonitorActionsExclusive'
    <2>1. ASSUME NEW t \in MonitorThreads, CanStart(t), Started(t)
          PROVE  MonitorActionsExclusive'
      <3>1. actions' = NULL /\ upToDate' = upToDate \ {t}
        BY <2>1 DEF Started, Update
      <3>2. \A u \in MonitorThreads \ {t} : pc'[u] = pc[u]
        BY <1>t, <2>1 DEF Started, TypeOK
      <3>3. \A u \in MonitorThreads : ~(pc'[u] = "ready" /\ u \in upToDate')
        BY <1>t, <2>1, <3>1, <3>2 DEF CanStart, MonitorActionsExclusive
      <3>. QED  BY <3>1, <3>3 DEF MonitorActionsExclusive
    <2>. QED  BY <2>1 DEF StartUpscaleRequest, StartDownscaleRequest
  <1>13. PluginRequestFails \/ PluginResponds => MonitorActionsExclusive'
    BY <1>2 DEF PluginRequestFails, PluginResponds, PluginRespondsWith, PluginRequestSuccessful,
          PluginRequestFailed
  <1>14. NeonVMRequestSucceeds \/ NeonVMRequestFails => MonitorActionsExclusive'
    BY <1>2 DEF NeonVMRequestSucceeds, NeonVMRequestSuccessful, NeonVMRequestFails,
          NeonVMRequestFailed
  <1>15. MonitorAnswer => MonitorActionsExclusive'
    BY <1>t, <1>2, MonitorAnswers
  <1>16. \/ VmInfoUpdated \/ SystemMetricsUpdated \/ LFCMetricsUpdated
         \/ MonitorSetActive \/ MonitorConnectionReset \/ UpscaleRequestReceived
         => MonitorActionsExclusive'
    BY SMTT(30), <1>t, <1>3 DEF VmInfoUpdated, UpdatedVM, SystemMetricsUpdated, UpdateSystemMetrics,
          LFCMetricsUpdated, UpdateLFCMetrics, MonitorSetActive, MonitorActive,
          MonitorConnectionReset, MonitorReset, NewMonitor, UpscaleRequestReceived,
          UpscaleRequested, TypeOK, CoreTypeOK, MonitorState
  <1>17. RestartAfterPanic => MonitorActionsExclusive'
    BY DEF RestartAfterPanic, MonitorActionsExclusive
  <1>. QED
    BY <1>5, <1>6, <1>8, <1>9, <1>10, <1>11, <1>12, <1>13, <1>14, <1>15, <1>16, <1>17
       DEF Next, RunnerStep, OutsideStep, PluginThread, NeonVMThread, UpscaleThread,
           DownscaleThread, Sleeper, ConnectionLoop, MonitorAnswer

\* After an update every request thread has a broadcast to see, and keeps it until
\* it has looked at the actions.
LEMMA SeenStep ==
    ASSUME Inv, Next
    PROVE  UpdatesAreSeen'
  <1>t. TypeOK /\ ThreadStates /\ CallsMatch /\ ConnectionState /\ UpdatesAreSeen
    BY DEF Inv
  <1>. USE DEF RequestKinds, Threads
  <1>1. ASSUME Update PROVE UpdatesAreSeen'
    BY <1>1 DEF Update, UpdatesAreSeen
  \* getActions, on behalf of thread t: the others have been notified of what is
  \* calculated, or have looked at what is cached.
  <1>2. ASSUME NEW t \in Threads, NEW takers \in SUBSET {t}, GetActions(takers),
               notified[t] \/ pc[t] = "fired",
               \A u \in RequestKinds \ {t} : notified'[u] = notified[u] /\ pc'[u] = pc[u],
               t \in RequestKinds =>
                  IF pc'[t] = "waiting" THEN CurrentActions[t] = NULL ELSE t \in takers
        PROVE  UpdatesAreSeen'
    <2>1. actions' = CurrentActions /\ CurrentActions # NULL
      BY <1>t, <1>2, CurrentActionsClosed DEF GetActions
    <2>2. CASE actions = NULL
      <3>1. \A u \in RequestKinds : pc[u] # "calling" => notified[u]
        BY <1>t, <1>2, <2>2 DEF UpdatesAreSeen
      <3>. QED  BY <1>2, <2>1, <2>2, <3>1 DEF GetActions, UpdatesAreSeen
    <2>3. CASE actions # NULL
      BY <1>t, <1>2, <2>1, <2>3 DEF GetActions, CurrentActions, UpdatesAreSeen
    <2>. QED  BY <2>2, <2>3
  <1>3. ASSUME NEW t \in RequestKinds, Wake(t) PROVE UpdatesAreSeen'
    <2>1. /\ notified[t]
          /\ \A u \in RequestKinds \ {t} : notified'[u] = notified[u] /\ pc'[u] = pc[u]
      BY <1>t, <1>3 DEF Wake, TypeOK
    <2>2. CASE CurrentActions[t] = NULL
      BY <1>2, <1>3, <2>1, <2>2 DEF Wake
    <2>3. CASE CurrentActions[t] # NULL
      <3>1. GetActions({t}) /\ pc'[t] = "ready"
        BY <1>t, <1>3, <2>3 DEF Wake, TypeOK
      <3>. QED  BY <1>2, <2>1, <3>1
    <2>. QED  BY <2>2, <2>3
  <1>4. SleeperWakes \/ SleeperRefreshes => UpdatesAreSeen'
    <2>1. SUFFICES ASSUME SleeperWakes \/ SleeperRefreshes PROVE UpdatesAreSeen'
      OBVIOUS
    <2>2. GetActions({}) /\ (notified["sleeper"] \/ pc["sleeper"] = "fired")
      BY <2>1 DEF SleeperWakes, SleeperRefreshes
    <2>3. \A u \in RequestKinds : notified'[u] = notified[u] /\ pc'[u] = pc[u]
      BY <1>t, <2>1 DEF SleeperWakes, SleeperRefreshes, TypeOK
    <2>. QED  BY SMTT(30), <1>2, <2>2, <2>3
  <1>5. ASSUME NEW t \in RequestKinds, Retry(t) PROVE UpdatesAreSeen'
    BY <1>t, <1>5 DEF Retry, UpdatesAreSeen, TypeOK
  <1>6. SleeperInterrupted => UpdatesAreSeen'
    <2>1. SUFFICES ASSUME SleeperInterrupted PROVE UpdatesAreSeen'
      OBVIOUS
    <2>2. UNCHANGED <<actions, upToDate, notified>> /\ \A u \in RequestKinds : pc'[u] = pc[u]
      BY <1>t, <2>1 DEF SleeperInterrupted, TypeOK
    <2>3. actions = NULL => \A u \in RequestKinds : pc[u] # "calling" => notified[u]
      BY <1>t, <2>1 DEF SleeperInterrupted, UpdatesAreSeen
    <2>. QED  BY <1>t, <2>2, <2>3 DEF UpdatesAreSeen
  \* Steps that leave actions and threads alone.
  <1>7. ASSUME UNCHANGED <<actions, upToDate, notified, pc>> PROVE UpdatesAreSeen'
    BY <1>t, <1>7 DEF UpdatesAreSeen
  <1>8. ASSUME NEW t \in Threads, GetActionsPanics(t) \/ StartMonitorRequestWithoutHandle(t)
        PROVE  UpdatesAreSeen'
    BY <1>7, <1>8 DEF GetActionsPanics, StartMonitorRequestWithoutHandle, Panic, execVars
  <1>9. MonitorConnected \/ FetchLFCMetrics \/ UpscaleRequestReceivedEarly \/ TimePasses
        => UpdatesAreSeen'
    BY <1>7 DEF MonitorConnected, FetchLFCMetrics, UpscaleRequestReceivedEarly, Panic,
          TimePasses, TimePassesFor, execVars
  \* Steps that are an update.
  <1>10. \/ StartPluginRequest \/ StartNeonVMRequest \/ StartUpscaleRequest
         \/ StartDownscaleRequest \/ PluginRequestFails \/ PluginResponds
         \/ NeonVMRequestSucceeds \/ NeonVMRequestFails \/ SleeperFires
         => UpdatesAreSeen'
    BY <1>1 DEF StartPluginRequest, StartNeonVMRequest, StartUpscaleRequest,
          StartDownscaleRequest, Started, PluginRequestFails, PluginResponds,
          PluginRespondsWith, NeonVMRequestSucceeds, NeonVMRequestFails, Finished, SleeperFires
  <1>11. MonitorAnswer => UpdatesAreSeen'
    BY <1>t, <1>1, MonitorAnswers DEF Finished
  <1>12. \/ VmInfoUpdated \/ SystemMetricsUpdated \/ LFCMetricsUpdated
         \/ MonitorSetActive \/ MonitorConnectionReset \/ UpscaleRequestReceived
         => UpdatesAreSeen'
    BY <1>1 DEF VmInfoUpdated, SystemMetricsUpdated, LFCMetricsUpdated, MonitorSetActive,
          MonitorConnectionReset, UpscaleRequestReceived, ExternalUpdate
  <1>13. RestartAfterPanic => UpdatesAreSeen'
    BY DEF RestartAfterPanic, UpdatesAreSeen
  <1>. QED
    BY <1>3, <1>4, <1>5, <1>6, <1>8, <1>9, <1>10, <1>11, <1>12, <1>13
       DEF Next, RunnerStep, OutsideStep, PluginThread, NeonVMThread, UpscaleThread,
           DownscaleThread, Sleeper, ConnectionLoop, MonitorAnswer, MonitorThreads

(***************************************************************************)
(* Theorems                                                                *)
(***************************************************************************)
\* A runner that has just been spawned satisfies the invariant.
LEMMA InitInv ==
    ASSUME Init
    PROVE  Inv
  <1>1. CoreTypeOK
    <2>1. vm \in VmInfo
      BY InputsAssumption DEF Init, VmInfo
    <2>2. NoMetrics \in MetricsState /\ NewPlugin \in PluginState /\ NewMonitor \in MonitorState
      BY DEF NoMetrics, MetricsState, NewPlugin, PluginState, NewMonitor, MonitorState, Optional
    <2>. QED  BY <2>1, <2>2 DEF Init, CoreTypeOK, Optional
  <1>2. TypeOK
    BY <1>1, InputsAssumption DEF Init, TypeOK, Optional, Threads, RequestKinds
  <1>3. ThreadStates /\ CallsMatch
    BY DEF Init, ThreadStates, CallsMatch, NewPlugin, NewMonitor, Threads, RequestKinds
  <1>4. ConnectionState /\ MonitorActionsExclusive /\ UpdatesAreSeen
    BY DEF Init, ConnectionState, MonitorActionsExclusive, UpdatesAreSeen, NewMonitor, Threads,
           RequestKinds, MonitorThreads
  <1>. QED  BY <1>2, <1>3, <1>4 DEF Inv

\* The conjunction of the parts is an invariant of the executor, whatever the VM's
\* bounds, metrics, permits and failures, and whoever is scheduled when.
THEOREM InvIsInvariant == Spec => []Inv
  <1>1. Init => Inv
    BY InitInv
  <1>2. Inv /\ [Next]_vars => Inv'
    <2>1. ASSUME Inv, Next PROVE Inv'
      BY <2>1, TypeStep, ThreadStatesStep, CallsMatchStep, ConnectionStep, ExclusiveStep, SeenStep
         DEF Inv
    <2>2. ASSUME Inv, UNCHANGED vars PROVE Inv'
      <3>1. TypeOK'
        BY <2>2 DEF Inv, TypeOK, CoreTypeOK, vars, coreVars, execVars, envVars
      <3>2. ThreadStates' /\ CallsMatch' /\ ConnectionState'
        BY <2>2 DEF Inv, ThreadStates, CallsMatch, ConnectionState, vars, coreVars, execVars, envVars
      <3>3. MonitorActionsExclusive' /\ UpdatesAreSeen'
        BY <2>2 DEF Inv, MonitorActionsExclusive, UpdatesAreSeen, vars, coreVars, execVars, envVars
      <3>. QED  BY <3>1, <3>2, <3>3 DEF Inv
    <2>. QED  BY <2>1, <2>2
  <1>. QED  BY <1>1, <1>2, PTL DEF Spec

\* core.State, the cache and the threads always hold values of their types: no
\* handler reads a request, a permit or an approved amount that is not there.
THEOREM TypeCorrect == Spec => []TypeOK
  <1>1. Inv => TypeOK
    BY DEF Inv
  <1>. QED  BY <1>1, InvIsInvariant, PTL

\* The calls in flight and the requests that core.State has on record match, at
\* every moment and for every instance: what the optimistic locking of
\* updateIfActionsUnchanged and the handle generations are for.
THEOREM CallsAlwaysMatch == Spec => []RequestsMatchCalls
  <1>1. Inv => RequestsMatchCalls
    BY DEF Inv, CallsMatch, ConnectionState, RequestsMatchCalls
  <1>. QED  BY <1>1, InvIsInvariant, PTL

\* No update that recommends something to a request thread goes unseen by it.
THEOREM WakeupsAreNotLost == Spec => []NoLostWakeup
  <1>1. Inv => NoLostWakeup
    BY DEF Inv, UpdatesAreSeen, NoLostWakeup
  <1>. QED  BY <1>1, InvIsInvariant, PTL
=============================================================================
