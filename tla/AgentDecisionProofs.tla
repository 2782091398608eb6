------------------------- MODULE AgentDecisionProofs -------------------------
(***************************************************************************)
(* No request to NeonVM exceeds what the scheduler has permitted, for any  *)
(* bounds, goals, permits and failures (UpscalesWithinPermit).             *)
(*                                                                         *)
(* The permit may be given back while the request waits to be started, so  *)
(* the invariant follows the amount from its calculation: it is within the *)
(* permit and within whatever the scheduler is being asked for meanwhile.  *)
(*                                                                         *)
(* The checks that the calculations make of themselves and that panic if   *)
(* they fail (CalculationsAreSound).  Those on directions follow from the  *)
(* order of the bounds alone.  The one on denied amounts needs that what is*)
(* approved stays above what was denied, and holds while there is one      *)
(* connection: a downscale that was calculated before a reconnection may   *)
(* be started, and denied, where no more than it is approved.              *)
(***************************************************************************)
EXTENDS AgentExecutorProofs

\* A thread whose action would pass updateIfActionsUnchanged.
Startable(t) == pc[t] = "ready" /\ t \in upToDate

WithinPermit(target) == ~HasFieldGreaterThan(target, ResMax(vm.Using, PluginApprovedUpperBound))

WithinOngoing(target) == plugin.OngoingRequest => ~HasFieldLessThan(plugin.LastRequest, target)

\* What nextActions guarantees of the actions it returns.
Recommended(a) ==
    /\ a["neonvm"] # NULL => WithinPermit(a["neonvm"].Target) /\ WithinOngoing(a["neonvm"].Target)
    /\ a["plugin"] # NULL => a["plugin"].LastPermit = plugin.Permit
    /\ a["neonvm"] # NULL /\ a["plugin"] # NULL =>
          ~HasFieldLessThan(a["plugin"].Target, a["neonvm"].Target)

\* What is cached agrees with the state it was calculated from, and with what
\* threads have taken from it.
CacheFits ==
    actions # NULL =>
        /\ Recommended(actions)
        /\ \A t \in {"plugin", "neonvm"} : Startable(t) => held[t] = actions[t]

\* What threads hold and may still start.
HeldFits ==
    /\ Startable("neonvm") =>
          /\ WithinPermit(held["neonvm"].Target)
          /\ WithinOngoing(held["neonvm"].Target)
    /\ Startable("plugin") \/ pc["plugin"] = "calling" =>
          held["plugin"].LastPermit = plugin.Permit
    /\ Startable("plugin") /\ Startable("neonvm") =>
          ~HasFieldLessThan(held["plugin"].Target, held["neonvm"].Target)

PermitInv == CacheFits /\ HeldFits

(***************************************************************************)
(* What is recommended                                                     *)
(***************************************************************************)
\* clampResources, if its checks succeed, raises nothing above the upper bound.
LEMMA ClampWithinBounds ==
    ASSUME NEW current \in Resources, NEW desired \in Resources,
           NEW lower \in Resources, NEW upper \in Resources,
           ~ClampIsInvalid(current, lower, upper)
    PROVE  ~HasFieldGreaterThan(ClampResources(current, desired, lower, upper),
                                ResMax(current, upper))
  BY NullAssumption
     DEF ClampIsInvalid, ClampResources, ClampField, Resources, MinNat, MaxNat, ResMax,
         HasFieldGreaterThan, HasFieldLessThan

\* nextActions recommends to NeonVM nothing above the permit, nor above what the
\* scheduler is being asked, or is to be asked, for.
LEMMA NextActionsRecommended ==
    ASSUME CoreTypeOK, PanicReasons = {},
           plugin.OngoingRequest => plugin.LastRequest # NULL
    PROVE  Recommended(NextActions)
  <1>. DEFINE desired      == DesiredResources
              pluginAction == PluginAction(desired)
              requested    == PluginRequested(pluginAction)
              target       == NeonVMTarget(desired)
  <1>1. desired \in Resources /\ vm.Using \in Resources
    BY DesiredClosed DEF CoreTypeOK, VmInfo
  <1>2. MonitorApprovedLowerBound \in Resources /\ PluginApprovedUpperBound \in Resources
    BY <1>1 DEF MonitorApprovedLowerBound, PluginApprovedUpperBound, CoreTypeOK, PluginState,
                MonitorState, Optional
  <1>3. ~ClampIsInvalid(vm.Using, MonitorApprovedLowerBound, PluginApprovedUpperBound)
    <2>1. ~NextActionsPanics("clamp")
      BY DEF PanicReasons, Checks
    <2>. QED  BY <2>1 DEF NextActionsPanics
  <1>4. WithinPermit(target)
    BY <1>1, <1>2, <1>3, ClampWithinBounds DEF WithinPermit, NeonVMTarget
  <1>5. /\ NextActions["neonvm"] = NeonVMAction(target, requested)
        /\ NextActions["plugin"] = pluginAction
    BY DEF NextActions
  <1>6. NextActions["neonvm"] # NULL =>
            /\ NextActions["neonvm"].Target = target
            /\ ~ConflictingPluginRequest(target, requested)
    BY <1>5 DEF NeonVMAction, ReadyForNeonVMRequest
  <1>7. pluginAction # NULL => ~plugin.OngoingRequest /\ pluginAction.LastPermit = plugin.Permit
    BY DEF PluginAction
  <1>8. ~ConflictingPluginRequest(target, requested) => WithinOngoing(target)
    BY DEF WithinOngoing, ConflictingPluginRequest, PluginRequested
  <1>9. ASSUME ~ConflictingPluginRequest(target, requested), pluginAction # NULL
        PROVE  ~HasFieldLessThan(pluginAction.Target, target)
    <2>1. pluginAction.Target # NULL
      BY <1>1, <1>9, ActionsClosed, NullAssumption DEF Optional
    <2>. QED  BY <1>7, <1>9, <2>1 DEF ConflictingPluginRequest, PluginRequested
  <1>. HIDE DEF pluginAction, requested, target
  <1>. QED  BY <1>4, <1>5, <1>6, <1>7, <1>8, <1>9 DEF Recommended

\* So does getActions, which returns what is cached or newly calculated.
LEMMA CurrentActionsRecommended ==
    ASSUME Inv, PermitInv, actions # NULL \/ PanicReasons = {}
    PROVE  Recommended(CurrentActions)
  <1>1. CASE actions # NULL
    BY <1>1 DEF PermitInv, CacheFits, CurrentActions
  <1>2. CASE actions = NULL
    <2>1. CoreTypeOK
      BY DEF Inv, TypeOK
    <2>2. plugin.OngoingRequest => plugin.LastRequest # NULL
      BY HeldActions, NullAssumption DEF Inv, CallsMatch, RequestKinds
    <2>. QED  BY <1>2, <2>1, <2>2, NextActionsRecommended DEF CurrentActions
  <1>. QED  BY <1>1, <1>2

(***************************************************************************)
(* Permits                                                                 *)
(***************************************************************************)
\* Nothing is below the smaller of itself and another.
LEMMA MinIsNotAbove ==
    ASSUME NEW a \in Resources, NEW b \in Resources
    PROVE  ~HasFieldLessThan(b, ResMin(a, b))
  BY DEF Resources, ResMin, MinNat, HasFieldLessThan, HasFieldGreaterThan

\* What was within the permit and within the request stays within the permit
\* when the scheduler answers: it takes back only what it is no longer asked for.
LEMMA AnswerCoversTarget ==
    ASSUME NEW using \in Resources, NEW target \in Resources, NEW requested \in Resources,
           NEW permit \in Resources, NEW old \in Optional(Resources),
           old # NULL => ~HasFieldLessThan(permit, ResMin(old, requested)),
           ~HasFieldGreaterThan(target, ResMax(using, IF old # NULL THEN old ELSE using)),
           ~HasFieldLessThan(requested, target)
    PROVE  ~HasFieldGreaterThan(target, ResMax(using, permit))
  <1>. USE DEF Resources, ResMin, ResMax, MinNat, MaxNat, HasFieldGreaterThan, HasFieldLessThan
  <1>1. CASE old = NULL
    BY <1>1
  <1>2. CASE old # NULL
    BY <1>2 DEF Optional
  <1>. QED  BY <1>1, <1>2

\* The invariant is kept by every step of every thread.
LEMMA PermitStep ==
    ASSUME Inv, PermitInv, Next
    PROVE  PermitInv'
  <1>t. TypeOK /\ CoreTypeOK /\ ThreadStates /\ CallsMatch
    BY DEF Inv, TypeOK
  <1>. USE DEF RequestKinds, Threads
  \* Steps that neither raise what is asked for nor make a thread ready.
  <1>1. ASSUME vm'.Using = vm.Using, plugin'.Permit = plugin.Permit,
               plugin'.OngoingRequest => plugin' = plugin,
               actions' \in {actions, NULL}, upToDate' \in SUBSET upToDate,
               \A t \in {"plugin", "neonvm"} :
                   pc'[t] = "ready" => pc[t] = "ready" /\ held'[t] = held[t],
               pc'["plugin"] = "calling" =>
                   pc["plugin"] = "calling" /\ held'["plugin"] = held["plugin"]
        PROVE  PermitInv'
    <2>1. \A t \in {"plugin", "neonvm"} : Startable(t)' => Startable(t) /\ held'[t] = held[t]
      BY <1>1 DEF Startable
    <2>2. PluginApprovedUpperBound' = PluginApprovedUpperBound
      BY <1>1 DEF PluginApprovedUpperBound
    <2>3. HeldFits'
      BY <1>1, <2>1, <2>2 DEF PermitInv, HeldFits, WithinPermit, WithinOngoing
    <2>4. CacheFits'
      BY <1>1, <2>1, <2>2 DEF PermitInv, CacheFits, Recommended, WithinPermit, WithinOngoing
    <2>. QED  BY <2>3, <2>4 DEF PermitInv
  <1>2. ASSUME NEW t \in Threads,
               Retry(t) \/ GetActionsPanics(t) \/ StartMonitorRequestWithoutHandle(t)
        PROVE  PermitInv'
    BY <1>t, <1>1, <1>2 DEF Retry, GetActionsPanics, StartMonitorRequestWithoutHandle, Panic,
          coreVars, execVars, TypeOK
  <1>3. \/ SleeperInterrupted \/ SleeperFires \/ MonitorConnected \/ FetchLFCMetrics
        \/ UpscaleRequestReceivedEarly \/ TimePasses
        => PermitInv'
    BY <1>t, <1>1 DEF SleeperInterrupted, SleeperFires, Update, MonitorConnected, FetchLFCMetrics,
          UpscaleRequestReceivedEarly, Panic, TimePasses, TimePassesFor, Expire, coreVars,
          execVars, TypeOK
  <1>4. \/ VmInfoUpdated \/ SystemMetricsUpdated \/ LFCMetricsUpdated
        \/ MonitorSetActive \/ MonitorConnectionReset \/ UpscaleRequestReceived
        => PermitInv'
    <2>1. ASSUME ExternalUpdate, vm'.Using = vm.Using, UNCHANGED plugin PROVE PermitInv'
      BY <1>1, <2>1 DEF ExternalUpdate, Update
    <2>2. \A info \in VmInfos : UpdatedVM(info) => vm'.Using = vm.Using /\ UNCHANGED plugin
      BY InputsAssumption DEF UpdatedVM, VmInfo
    <2>. QED
      BY <2>1, <2>2 DEF VmInfoUpdated, SystemMetricsUpdated, UpdateSystemMetrics,
            LFCMetricsUpdated, UpdateLFCMetrics, MonitorSetActive, MonitorActive,
            MonitorConnectionReset, MonitorReset, UpscaleRequestReceived, UpscaleRequested
  <1>5. ASSUME NEW t \in RequestKinds \ {"plugin"}, (CanStart(t) /\ Started(t)) \/ Finished(t),
               vm'.Using = vm.Using, UNCHANGED plugin
        PROVE  PermitInv'
    BY <1>t, <1>1, <1>5 DEF Started, Finished, Update, TypeOK
  <1>6. StartNeonVMRequest \/ StartUpscaleRequest \/ StartDownscaleRequest => PermitInv'
    BY <1>5 DEF StartNeonVMRequest, NeonVMStartingRequest, StartUpscaleRequest,
          StartingUpscaleRequest, StartDownscaleRequest, StartingDownscaleRequest
  <1>7. NeonVMRequestFails => PermitInv'
    BY <1>5 DEF NeonVMRequestFails, NeonVMRequestFailed
  <1>8. MonitorAnswer => PermitInv'
    BY <1>5 DEF MonitorAnswer, UpscaleRequestSucceeds, UpscaleRequestFails,
          DownscaleRequestIsAllowed, DownscaleRequestIsDenied, DownscaleRequestFails,
          MonitorRequestReturns, MonitorRequestApproved, DownscaleRequestDenied,
          UpscaleRequestFailed, DownscaleRequestFailed, coreVars
  <1>9. PluginRequestFailed /\ Finished("plugin") => PermitInv'
    BY <1>t, <1>1 DEF PluginRequestFailed, Finished, Update, TypeOK, CoreTypeOK, PluginState
  \* The usage changes only while NeonVM's own thread has nothing to start.
  <1>10. NeonVMRequestSucceeds => PermitInv'
    BY <1>t DEF NeonVMRequestSucceeds, NeonVMRequestSuccessful, Finished, Update, TypeOK,
          PermitInv, CacheFits, HeldFits, Startable
  \* The scheduler is asked for no less than NeonVM is about to be.
  <1>11. StartPluginRequest => PermitInv'
    <2>1. SUFFICES ASSUME StartPluginRequest PROVE PermitInv'
      OBVIOUS
    <2>2. /\ Startable("plugin")
          /\ UNCHANGED <<vm, held>>
          /\ plugin'.Permit = plugin.Permit
          /\ plugin'.LastRequest = held["plugin"].Target
          /\ actions' = NULL
          /\ pc'["plugin"] = "calling"
          /\ Startable("neonvm")' => Startable("neonvm")
      BY <1>t, <2>1 DEF StartPluginRequest, PluginStartingRequest, CanStart, Started, Update,
            Startable, TypeOK, CoreTypeOK, PluginState
    <2>3. PluginApprovedUpperBound' = PluginApprovedUpperBound
      BY <2>2 DEF PluginApprovedUpperBound
    <2>. QED
      BY <2>2, <2>3 DEF PermitInv, CacheFits, HeldFits, Startable, WithinPermit, WithinOngoing
  \* The scheduler answers, and may have lowered the permit.
  <1>12. PluginResponds => PermitInv'
    <2>1. SUFFICES ASSUME NEW permit \in Permits, PluginRespondsWith(permit) PROVE PermitInv'
      BY DEF PluginResponds
    <2>2. Finished("plugin") /\ pc["plugin"] = "calling"
      BY <2>1 DEF PluginRespondsWith, CanFinish
    <2>3. CASE PermitIsInvalid(permit)
      BY <1>9, <2>1, <2>2, <2>3 DEF PluginRespondsWith, PluginRequestSuccessful
    <2>4. CASE ~PermitIsInvalid(permit)
      <3>1. /\ UNCHANGED vm
            /\ plugin'.Permit = permit
            /\ plugin'.OngoingRequest = FALSE
            /\ actions' = NULL
            /\ pc'["plugin"] = "waiting"
            /\ Startable("neonvm")' => Startable("neonvm")
            /\ held'["neonvm"] = held["neonvm"]
        <4>1. /\ UNCHANGED vm
              /\ plugin' = [plugin EXCEPT !.OngoingRequest = FALSE, !.Permit = permit]
          BY <2>1, <2>4 DEF PluginRespondsWith, PluginRequestSuccessful
        <4>2. plugin'.Permit = permit /\ plugin'.OngoingRequest = FALSE
          BY <1>t, <4>1 DEF CoreTypeOK, PluginState
        <4>. QED  BY <1>t, <2>2, <4>1, <4>2 DEF Finished, Update, Startable, TypeOK
      <3>2. /\ permit \in Resources
            /\ permit # NULL
            /\ vm.Using \in Resources
            /\ plugin.Permit \in Optional(Resources)
            /\ held["plugin"].Target \in Resources
        BY <1>t, <2>2, HeldActions, InputsAssumption, NullAssumption
           DEF CoreTypeOK, VmInfo, PluginState
      <3>3. ASSUME Startable("neonvm") PROVE WithinPermit(held["neonvm"].Target)'
        <4>1. held["neonvm"].Target \in Resources
          BY <1>t, <3>3, HeldActions DEF Startable
        <4>2. plugin.Permit # NULL =>
                 ~HasFieldLessThan(permit, ResMin(plugin.Permit, held["plugin"].Target))
          <5>1. PluginMayAnswer(permit) /\ held["plugin"].LastPermit = plugin.Permit
            BY <2>1, <2>2 DEF PluginRespondsWith, PermitInv, HeldFits
          <5>2. plugin.Permit # NULL =>
                   ~HasFieldLessThan(held["plugin"].Target, ResMin(plugin.Permit, held["plugin"].Target))
            BY <3>2, MinIsNotAbove DEF Optional
          <5>. QED  BY <5>1, <5>2 DEF PluginMayAnswer
        <4>3. /\ WithinPermit(held["neonvm"].Target)
              /\ ~HasFieldLessThan(held["plugin"].Target, held["neonvm"].Target)
          BY <1>t, <2>2, <3>3 DEF PermitInv, HeldFits, WithinOngoing, CallsMatch
        <4>4. ~HasFieldGreaterThan(held["neonvm"].Target, ResMax(vm.Using, permit))
          BY <3>2, <4>1, <4>2, <4>3, AnswerCoversTarget DEF WithinPermit, PluginApprovedUpperBound
        <4>. QED  BY <3>1, <3>2, <4>4 DEF WithinPermit, PluginApprovedUpperBound
      <3>. QED
        BY <3>1, <3>3 DEF PermitInv, CacheFits, HeldFits, WithinOngoing, Startable
    <2>. QED  BY <2>3, <2>4
  \* getActions, on behalf of thread t or of the sleeper.
  <1>13. ASSUME NEW takers \in SUBSET RequestKinds, GetActions(takers), UNCHANGED coreVars,
                \A t \in takers : CurrentActions[t] # NULL /\ held'[t] = CurrentActions[t],
                \A t \in RequestKinds \ takers : pc'[t] = pc[t] /\ held'[t] = held[t],
                \A t \in takers : pc'[t] = "ready"
         PROVE  PermitInv'
    <2>1. Recommended(CurrentActions) /\ actions' = CurrentActions
      BY <1>13, CurrentActionsRecommended DEF GetActions
    <2>2. Recommended(actions)'
      BY <1>13, <2>1 DEF Recommended, WithinPermit, WithinOngoing, PluginApprovedUpperBound,
            coreVars
    <2>3. \A t \in {"plugin", "neonvm"} :
              Startable(t)' => held'[t] = CurrentActions[t] /\ CurrentActions[t] # NULL
      <3>1. ASSUME NEW t \in {"plugin", "neonvm"}, Startable(t)', t \notin takers
            PROVE  Startable(t) /\ actions # NULL
        BY <1>13, <3>1 DEF Startable, GetActions
      <3>2. ASSUME NEW t \in {"plugin", "neonvm"}, Startable(t) PROVE held[t] # NULL
        BY <1>t, <3>2 DEF Startable, ThreadStates
      <3>. QED  BY <1>13, <3>1, <3>2 DEF PermitInv, CacheFits, CurrentActions
    <2>4. pc'["plugin"] = "calling" => held'["plugin"].LastPermit = plugin'.Permit
      BY <1>13 DEF PermitInv, HeldFits, coreVars
    <2>. QED
      BY <2>1, <2>2, <2>3, <2>4 DEF PermitInv, CacheFits, HeldFits, Recommended
  <1>14. ASSUME NEW t \in RequestKinds, Wake(t) PROVE PermitInv'
    <2>1. CASE CurrentActions[t] = NULL
      BY <1>13, <1>14, <2>1 DEF Wake
    <2>2. CASE CurrentActions[t] # NULL
      <3>1. /\ GetActions({t})
            /\ UNCHANGED coreVars
            /\ pc'[t] = "ready" /\ held'[t] = CurrentActions[t]
            /\ \A u \in RequestKinds \ {t} : pc'[u] = pc[u] /\ held'[u] = held[u]
        BY <1>t, <1>14, <2>2 DEF Wake, TypeOK
      <3>. QED  BY <1>13, <2>2, <3>1
    <2>. QED  BY <2>1, <2>2
  <1>15. SleeperWakes \/ SleeperRefreshes => PermitInv'
    <2>1. SUFFICES ASSUME SleeperWakes \/ SleeperRefreshes PROVE PermitInv'
      OBVIOUS
    <2>2. GetActions({}) /\ UNCHANGED <<coreVars, held>>
      BY <2>1 DEF SleeperWakes, SleeperRefreshes
    <2>3. \A u \in RequestKinds : pc'[u] = pc[u]
      BY <1>t, <2>1 DEF SleeperWakes, SleeperRefreshes, TypeOK
    <2>. QED  BY <1>13, <2>2, <2>3
  <1>16. RestartAfterPanic => PermitInv'
    BY DEF RestartAfterPanic, PermitInv, CacheFits, HeldFits, Startable
  <1>. QED
    BY <1>2, <1>3, <1>4, <1>6, <1>7, <1>8, <1>9, <1>10, <1>11, <1>12, <1>14, <1>15, <1>16
       DEF Next, RunnerStep, OutsideStep, PluginThread, NeonVMThread, UpscaleThread,
           DownscaleThread, Sleeper, ConnectionLoop, MonitorAnswer, MonitorThreads,
           PluginRequestFails

(***************************************************************************)
(* Theorem                                                                 *)
(***************************************************************************)
\* Whatever is requested of NeonVM is, when the request starts, within the permit
\* or within what the VM uses already, though the recommendation was calculated
\* under an earlier lock and the scheduler may have lowered the permit meanwhile.
THEOREM RequestsStayWithinPermit == Spec => UpscalesWithinPermit
  <1>1. Init => PermitInv
    BY DEF Init, PermitInv, CacheFits, HeldFits, Startable, Threads, RequestKinds
  <1>2. Inv /\ PermitInv /\ [Next]_vars => PermitInv'
    <2>1. ASSUME PermitInv, UNCHANGED vars PROVE PermitInv'
      BY <2>1 DEF PermitInv, CacheFits, HeldFits, Recommended, Startable, WithinPermit,
            WithinOngoing, PluginApprovedUpperBound, vars, coreVars, execVars
    <2>. QED  BY <2>1, PermitStep
  <1>3. Inv /\ PermitInv /\ [Next]_vars =>
            [(neonvm' # neonvm /\ neonvm' # NULL) =>
                ~HasFieldGreaterThan(neonvm', ResMax(vm.Using, PluginApprovedUpperBound))]_vars
    <2>1. ASSUME PermitInv, StartNeonVMRequest
          PROVE  ~HasFieldGreaterThan(neonvm', ResMax(vm.Using, PluginApprovedUpperBound))
      BY <2>1 DEF StartNeonVMRequest, CanStart, NeonVMStartingRequest, PermitInv, HeldFits,
            Startable, WithinPermit
    <2>2. ASSUME Next, ~StartNeonVMRequest PROVE neonvm' = neonvm \/ neonvm' = NULL
      <3>. USE DEF coreVars, Wake, Retry, GetActionsPanics, Panic
      <3>1. PluginThread => neonvm' = neonvm
        BY DEF PluginThread, StartPluginRequest, PluginStartingRequest, PluginRequestFails,
              PluginResponds, PluginRespondsWith, PluginRequestSuccessful, PluginRequestFailed
      <3>2. NeonVMThread => neonvm' = neonvm \/ neonvm' = NULL
        BY <2>2 DEF NeonVMThread, NeonVMRequestSucceeds, NeonVMRequestSuccessful,
              NeonVMRequestFails, NeonVMRequestFailed
      <3>3. UpscaleThread \/ DownscaleThread => neonvm' = neonvm
        BY DEF UpscaleThread, DownscaleThread, StartUpscaleRequest, StartingUpscaleRequest,
              StartDownscaleRequest, StartingDownscaleRequest, StartMonitorRequestWithoutHandle,
              UpscaleRequestSucceeds, UpscaleRequestFails, DownscaleRequestIsAllowed,
              DownscaleRequestIsDenied, DownscaleRequestFails, MonitorRequestReturns,
              MonitorRequestApproved, DownscaleRequestDenied, UpscaleRequestFailed,
              DownscaleRequestFailed
      <3>4. Sleeper => neonvm' = neonvm
        BY DEF Sleeper, SleeperWakes, SleeperInterrupted, SleeperFires, SleeperRefreshes
      <3>5. OutsideStep => neonvm' = neonvm
        BY DEF OutsideStep, ConnectionLoop, MonitorConnected, MonitorSetActive, MonitorActive,
              MonitorConnectionReset, MonitorReset, UpscaleRequestReceived, UpscaleRequested,
              UpscaleRequestReceivedEarly, VmInfoUpdated, UpdatedVM, SystemMetricsUpdated,
              UpdateSystemMetrics, FetchLFCMetrics, LFCMetricsUpdated, UpdateLFCMetrics,
              TimePasses, TimePassesFor, Expire
      <3>6. RestartAfterPanic => neonvm' = NULL
        BY DEF RestartAfterPanic
      <3>. QED  BY <2>2, <3>1, <3>2, <3>3, <3>4, <3>5, <3>6 DEF Next, RunnerStep
    <2>. QED  BY <2>1, <2>2
  <1>. QED  BY <1>1, <1>2, <1>3, InvIsInvariant, PTL DEF Spec, UpscalesWithinPermit

(***************************************************************************)
(* The checks of the calculations never fail (CalculationsAreSound).       *)
(*                                                                         *)
(* That a downscale which was denied is not asked for again follows from   *)
(* what was approved since the denial: it stays above the denied request   *)
(* in a field in which that request was for less.  So the invariant        *)
(* follows each vm-monitor request from its calculation to its answer: an  *)
(* upscale lowers nothing that is approved, and a downscale stays above    *)
(* the denied request in such a field too.                                 *)
(***************************************************************************)
StaysAbove(amount) ==
    LET denied == monitor.DeniedDownscale
    IN  \/ denied.Requested.VCPU < denied.Current.VCPU /\ denied.Requested.VCPU < amount.VCPU
        \/ denied.Requested.Mem < denied.Current.Mem /\ denied.Requested.Mem < amount.Mem

Raises(target) == ~HasFieldLessThan(target, monitor.Approved)

Lowers(target) ==
    /\ ~HasFieldGreaterThan(target, monitor.Approved)
    /\ HasFieldLessThan(target, monitor.Approved)
    /\ monitor.DeniedDownscale # NULL => StaysAbove(target)

\* A request that thread t may make of a vm-monitor in this state.
Fits(t, target) ==
    /\ monitor.Approved # NULL
    /\ t = "upscale" => Raises(target)
    /\ t = "downscale" => Lowers(target)

BoundsAreOrdered == ~HasFieldGreaterThan(vm.Min, vm.Max)

DenialIsKept ==
    monitor.DeniedDownscale # NULL => monitor.Approved # NULL /\ StaysAbove(monitor.Approved)

RequestsFit ==
    /\ actions # NULL =>
          \A t \in MonitorThreads : actions[t] # NULL => Fits(t, actions[t].Target)
    /\ \A t \in MonitorThreads : Startable(t) => Fits(t, held[t].Target)
    /\ monitor.OngoingRequest # NULL =>
          Fits(monitor.OngoingRequest.Kind, monitor.OngoingRequest.Requested)

\* What is desired is within bounds, and requests have the direction they are
\* named for.
LEMMA DirectionsAreRight ==
    ASSUME CoreTypeOK, BoundsAreOrdered, NEW check \in {"desired", "upscale", "downscale"}
    PROVE  ~NextActionsPanics(check)
  <1>1. DesiredResources \in Resources /\ vm.Using \in Resources
    BY DesiredClosed DEF CoreTypeOK, VmInfo
  <1>2. monitor.Approved # NULL => monitor.Approved \in Resources
    BY DEF CoreTypeOK, MonitorState, Optional
  <1>3. CASE check = "desired"
    BY <1>3, DesiredIsValid DEF NextActionsPanics, BoundsAreOrdered
  <1>4. CASE check = "upscale"
    BY <1>1, <1>2, <1>4, UpscaleTargetRaises DEF NextActionsPanics
  <1>5. CASE check = "downscale"
    BY <1>1, <1>2, <1>5, DownscaleTargetLowers DEF NextActionsPanics
  <1>. QED  BY <1>3, <1>4, <1>5

\* A downscale target stays above the denied request wherever what is approved does.
LEMMA DownscaleStaysAbove ==
    ASSUME CoreTypeOK, monitor.DeniedDownscale # NULL, DenialIsKept
    PROVE  StaysAbove(DownscaleTarget(DesiredResources))
  <1>. DEFINE denied == monitor.DeniedDownscale
              target == DownscaleTarget(DesiredResources)
  <1>1. /\ denied \in [Current : Resources, Requested : Resources]
        /\ monitor.Approved \in Resources
        /\ StaysAbove(monitor.Approved)
    BY DEF CoreTypeOK, MonitorState, Optional, DenialIsKept
  <1>2. DesiredResources \in Resources
    BY DesiredClosed
  <1>3. /\ target \in Resources
        /\ ~HasFieldLessThan(target, ResMin(DesiredResources, monitor.Approved))
    BY <1>1, <1>2, DownscaleTargetLowers
  <1>4. /\ denied.Requested.VCPU < denied.Current.VCPU =>
               denied.Requested.VCPU < DesiredResources.VCPU
        /\ denied.Requested.Mem < denied.Current.Mem =>
               denied.Requested.Mem < DesiredResources.Mem
    BY DesiredAboveDenied
  <1>. HIDE DEF target
  <1>5. StaysAbove(target)
    BY <1>1, <1>2, <1>3, <1>4 DEF StaysAbove, Resources, ResMin, MinNat, HasFieldLessThan,
          HasFieldGreaterThan
  <1>. QED  BY <1>5 DEF target

\* So what was denied is not asked for again.
LEMMA DenialIsRespected ==
    ASSUME CoreTypeOK, DenialIsKept
    PROVE  ~NextActionsPanics("denied")
  <1>. DEFINE planned == UpscaleAction(DesiredResources) # NULL
              action  == DownscaleAction(DesiredResources, planned)
  <1>1. SUFFICES ASSUME monitor.DeniedDownscale # NULL, action # NULL
                 PROVE  HasFieldLessThan(monitor.DeniedDownscale.Requested, action.Target)
    BY DEF NextActionsPanics
  <1>2. action.Target = DownscaleTarget(DesiredResources)
    BY <1>1 DEF DownscaleAction
  <1>3. StaysAbove(action.Target)
    BY <1>1, <1>2, DownscaleStaysAbove
  <1>. HIDE DEF action
  <1>. QED  BY <1>3 DEF StaysAbove, HasFieldLessThan, HasFieldGreaterThan

\* What nextActions recommends to the vm-monitor's threads fits.
LEMMA NextActionsFit ==
    ASSUME CoreTypeOK, DenialIsKept, NEW t \in MonitorThreads, NextActions[t] # NULL
    PROVE  Fits(t, NextActions[t].Target)
  <1>. DEFINE desired == DesiredResources
  <1>1. desired \in Resources /\ vm.Using \in Resources
    BY DesiredClosed DEF CoreTypeOK, VmInfo
  <1>2. monitor.Approved # NULL
    BY NextActionsWhen DEF MonitorThreads
  <1>3. monitor.Approved \in Resources
    BY <1>2 DEF CoreTypeOK, MonitorState, Optional
  <1>4. CASE t = "upscale"
    <2>1. NextActions[t].Target = UpscaleTarget(desired)
      BY <1>4 DEF NextActions, UpscaleAction
    <2>. QED  BY <1>1, <1>2, <1>3, <1>4, <2>1, UpscaleTargetRaises DEF Fits, Raises
  <1>5. CASE t = "downscale"
    <2>1. /\ NextActions[t].Target = DownscaleTarget(desired)
          /\ DownscaleTarget(desired) # monitor.Approved
      BY <1>5 DEF NextActions, DownscaleAction, ReadyForDownscale
    <2>2. /\ DownscaleTarget(desired) \in Resources
          /\ ~HasFieldGreaterThan(DownscaleTarget(desired), monitor.Approved)
      BY <1>1, <1>3, DownscaleTargetLowers
    <2>3. HasFieldLessThan(DownscaleTarget(desired), monitor.Approved)
      BY <1>3, <2>1, <2>2 DEF Resources, HasFieldLessThan, HasFieldGreaterThan
    <2>4. monitor.DeniedDownscale # NULL => StaysAbove(DownscaleTarget(desired))
      BY DownscaleStaysAbove
    <2>. QED  BY <1>2, <1>5, <2>1, <2>2, <2>3, <2>4 DEF Fits, Lowers
  <1>. QED  BY <1>4, <1>5 DEF MonitorThreads

\* The minimum stays within the maximum: both come from ExtractVmInfo.
LEMMA BoundsStep ==
    ASSUME TypeOK, BoundsAreOrdered, [Next]_vars
    PROVE  BoundsAreOrdered'
  <1>1. ASSUME NEW using, vm' = [vm EXCEPT !.Using = using] PROVE BoundsAreOrdered'
    BY <1>1 DEF TypeOK, CoreTypeOK, VmInfo, BoundsAreOrdered
  <1>2. ASSUME NEW info \in VmInfos, UpdatedVM(info) PROVE BoundsAreOrdered'
    <2>1. vm'.Min = info.Min /\ vm'.Max = info.Max
      BY <1>2, InputsAssumption DEF UpdatedVM, VmInfo
    <2>. QED  BY <1>2, <2>1, InputsAssumption DEF BoundsAreOrdered
  <1>3. UNCHANGED vm => BoundsAreOrdered'
    BY DEF BoundsAreOrdered
  <1>. USE DEF coreVars, Wake, Retry, GetActionsPanics, Panic
  <1>4. PluginThread => UNCHANGED vm
    BY DEF PluginThread, StartPluginRequest, PluginStartingRequest, PluginRequestFails,
          PluginResponds, PluginRespondsWith, PluginRequestSuccessful, PluginRequestFailed
  <1>5. NeonVMThread => UNCHANGED vm \/ vm' = [vm EXCEPT !.Using = neonvm]
    BY DEF NeonVMThread, StartNeonVMRequest, NeonVMStartingRequest, NeonVMRequestSucceeds,
          NeonVMRequestSuccessful, NeonVMRequestFails, NeonVMRequestFailed
  <1>6. UpscaleThread \/ DownscaleThread => UNCHANGED vm
    BY DEF UpscaleThread, DownscaleThread, StartUpscaleRequest, StartingUpscaleRequest,
          StartDownscaleRequest, StartingDownscaleRequest, StartMonitorRequestWithoutHandle,
          UpscaleRequestSucceeds, UpscaleRequestFails, DownscaleRequestIsAllowed,
          DownscaleRequestIsDenied, DownscaleRequestFails, MonitorRequestReturns,
          MonitorRequestApproved, DownscaleRequestDenied, UpscaleRequestFailed,
          DownscaleRequestFailed
  <1>7. Sleeper => UNCHANGED vm
    BY DEF Sleeper, SleeperWakes, SleeperInterrupted, SleeperFires, SleeperRefreshes
  <1>8. OutsideStep => UNCHANGED vm \/ \E info \in VmInfos : UpdatedVM(info)
    BY DEF OutsideStep, ConnectionLoop, MonitorConnected, MonitorSetActive, MonitorActive,
          MonitorConnectionReset, MonitorReset, UpscaleRequestReceived, UpscaleRequested,
          UpscaleRequestReceivedEarly, VmInfoUpdated, SystemMetricsUpdated,
          UpdateSystemMetrics, FetchLFCMetrics, LFCMetricsUpdated, UpdateLFCMetrics,
          TimePasses, TimePassesFor, Expire
  <1>9. RestartAfterPanic => vm' = [vm EXCEPT !.Using = spec']
    BY DEF RestartAfterPanic
  <1>. QED
    BY <1>1, <1>2, <1>3, <1>4, <1>5, <1>6, <1>7, <1>8, <1>9 DEF Next, RunnerStep, vars

\* A panic comes from one of the checks, from a missing handle or from an upscale
\* request that arrives before anything is approved.
LEMMA PanicsHaveReasons ==
    ASSUME [Next]_vars
    PROVE  panicked' \in {panicked, "none", "nilHandle", "nilApproved"} \union PanicReasons
  <1>. USE DEF coreVars, execVars, envVars, Started, Finished, Wake, Retry, GetActionsPanics, Panic
  <1>1. PluginThread => panicked' \in {panicked} \union PanicReasons
    BY DEF PluginThread, StartPluginRequest, PluginRequestFails, PluginResponds,
          PluginRespondsWith
  <1>2. NeonVMThread => panicked' \in {panicked} \union PanicReasons
    BY DEF NeonVMThread, StartNeonVMRequest, NeonVMRequestSucceeds, NeonVMRequestFails
  <1>3. UpscaleThread \/ DownscaleThread =>
            panicked' \in {panicked, "nilHandle"} \union PanicReasons
    BY DEF UpscaleThread, DownscaleThread, StartUpscaleRequest, StartDownscaleRequest,
          StartMonitorRequestWithoutHandle, UpscaleRequestSucceeds, UpscaleRequestFails,
          DownscaleRequestIsAllowed, DownscaleRequestIsDenied, DownscaleRequestFails,
          MonitorRequestReturns
  <1>4. Sleeper => panicked' \in {panicked} \union PanicReasons
    BY DEF Sleeper, SleeperWakes, SleeperInterrupted, SleeperFires, SleeperRefreshes
  <1>5. OutsideStep => panicked' \in {panicked, "nilApproved"}
    BY DEF OutsideStep, ConnectionLoop, MonitorConnected, MonitorSetActive,
          MonitorConnectionReset, UpscaleRequestReceived, UpscaleRequestReceivedEarly,
          ExternalUpdate, VmInfoUpdated, SystemMetricsUpdated, FetchLFCMetrics,
          LFCMetricsUpdated, TimePasses, TimePassesFor
  <1>6. RestartAfterPanic => panicked' = "none"
    BY DEF RestartAfterPanic
  <1>. QED
    BY <1>1, <1>2, <1>3, <1>4, <1>5, <1>6 DEF Next, RunnerStep, vars

\* On one connection, vm-monitor requests fit until they are answered, and what
\* is approved stays above what was denied.
LEMMA RequestsFitStep ==
    ASSUME Inv, DenialIsKept, RequestsFit, Next, ~MayDisconnect
    PROVE  DenialIsKept' /\ RequestsFit'
  <1>t. TypeOK /\ CoreTypeOK /\ ThreadStates /\ CallsMatch /\ ConnectionState
    BY DEF Inv, TypeOK
  <1>m. monitor \in MonitorState
    BY <1>t DEF CoreTypeOK
  <1>. USE DEF RequestKinds, Threads, MonitorThreads
  \* Steps that approve nothing, deny nothing, and make no thread ready.
  <1>1. ASSUME monitor'.Approved = monitor.Approved,
               monitor'.DeniedDownscale \in {monitor.DeniedDownscale, NULL},
               monitor'.OngoingRequest \in {monitor.OngoingRequest, NULL},
               actions' \in {actions, NULL}, upToDate' \in SUBSET upToDate,
               \A t \in MonitorThreads : pc'[t] = "ready" => pc[t] = "ready" /\ held'[t] = held[t]
        PROVE  DenialIsKept' /\ RequestsFit'
    <2>1. ASSUME NEW target PROVE StaysAbove(target) /\ monitor'.DeniedDownscale # NULL => StaysAbove(target)'
      BY <1>1 DEF StaysAbove
    <2>2. ASSUME NEW t \in MonitorThreads, NEW target, Fits(t, target) PROVE Fits(t, target)'
      BY <1>1, <2>1, <2>2 DEF Fits, Raises, Lowers
    <2>3. DenialIsKept'
      BY <1>1, <2>1 DEF DenialIsKept, StaysAbove
    <2>4. \A t \in MonitorThreads : Startable(t)' => Startable(t) /\ held'[t] = held[t]
      BY <1>1 DEF Startable
    <2>5. monitor'.OngoingRequest # NULL =>
             Fits(monitor.OngoingRequest.Kind, monitor.OngoingRequest.Requested)'
      <3>1. monitor.OngoingRequest # NULL => monitor.OngoingRequest.Kind \in MonitorThreads
        BY <1>m DEF MonitorState, MonitorRequest, Optional
      <3>. QED  BY <1>1, <2>2, <3>1 DEF RequestsFit
    <2>6. \A t \in MonitorThreads : Startable(t)' => Fits(t, held[t].Target)'
      BY <2>2, <2>4 DEF RequestsFit
    <2>7. actions' # NULL =>
             \A t \in MonitorThreads : actions[t] # NULL => Fits(t, actions[t].Target)'
      BY <1>1, <2>2 DEF RequestsFit
    <2>8. RequestsFit'
      BY <1>1, <2>4, <2>5, <2>6, <2>7 DEF RequestsFit, Fits, Raises, Lowers, StaysAbove
    <2>. QED  BY <2>3, <2>8
  <1>2. ASSUME NEW t \in Threads,
               Retry(t) \/ GetActionsPanics(t) \/ StartMonitorRequestWithoutHandle(t)
        PROVE  DenialIsKept' /\ RequestsFit'
    BY <1>t, <1>1, <1>2 DEF Retry, GetActionsPanics, StartMonitorRequestWithoutHandle, Panic,
          coreVars, execVars, TypeOK
  <1>3. \/ SleeperInterrupted \/ SleeperFires \/ MonitorConnected \/ FetchLFCMetrics
        \/ UpscaleRequestReceivedEarly \/ TimePasses
        => DenialIsKept' /\ RequestsFit'
    <2>1. TimePasses => /\ monitor'.Approved = monitor.Approved
                        /\ monitor'.DeniedDownscale \in {monitor.DeniedDownscale, NULL}
                        /\ monitor'.OngoingRequest = monitor.OngoingRequest
                        /\ UNCHANGED execVars
      BY <1>m DEF TimePasses, TimePassesFor, Expire, MonitorState
    <2>. QED
      BY <1>t, <1>1, <2>1 DEF SleeperInterrupted, SleeperFires, Update, MonitorConnected,
            FetchLFCMetrics, UpscaleRequestReceivedEarly, Panic, coreVars, execVars, TypeOK
  <1>4. ASSUME ExternalUpdate, monitor'.Approved = monitor.Approved,
               monitor'.DeniedDownscale = monitor.DeniedDownscale,
               monitor'.OngoingRequest = monitor.OngoingRequest
        PROVE  DenialIsKept' /\ RequestsFit'
    BY <1>1, <1>4 DEF ExternalUpdate, Update
  <1>5. \/ VmInfoUpdated \/ SystemMetricsUpdated \/ LFCMetricsUpdated \/ UpscaleRequestReceived
        => DenialIsKept' /\ RequestsFit'
    BY <1>m, <1>4 DEF VmInfoUpdated, UpdatedVM, SystemMetricsUpdated, UpdateSystemMetrics,
          LFCMetricsUpdated, UpdateLFCMetrics, UpscaleRequestReceived, UpscaleRequested,
          MonitorState
  <1>6. ASSUME NEW t \in RequestKinds, (CanStart(t) /\ Started(t)) \/ Finished(t),
               monitor'.Approved = monitor.Approved,
               monitor'.DeniedDownscale = monitor.DeniedDownscale,
               monitor'.OngoingRequest \in {monitor.OngoingRequest, NULL}
        PROVE  DenialIsKept' /\ RequestsFit'
    BY <1>t, <1>1, <1>6 DEF Started, Finished, Update, TypeOK
  <1>7. \/ StartPluginRequest \/ PluginRequestFails \/ PluginResponds
        \/ StartNeonVMRequest \/ NeonVMRequestSucceeds \/ NeonVMRequestFails
        => DenialIsKept' /\ RequestsFit'
    BY <1>6 DEF StartPluginRequest, PluginStartingRequest, PluginRequestFails, PluginResponds,
          PluginRespondsWith, PluginRequestSuccessful, PluginRequestFailed, StartNeonVMRequest,
          NeonVMStartingRequest, NeonVMRequestSucceeds, NeonVMRequestSuccessful,
          NeonVMRequestFails, NeonVMRequestFailed
  \* A vm-monitor request starts as it was recommended.
  <1>8. ASSUME NEW t \in MonitorThreads, CanStart(t), Started(t),
               monitor' = [monitor EXCEPT !.OngoingRequest =
                              [Kind |-> t, Requested |-> held[t].Target]]
        PROVE  DenialIsKept' /\ RequestsFit'
    <2>1. /\ monitor'.Approved = monitor.Approved
          /\ monitor'.DeniedDownscale = monitor.DeniedDownscale
          /\ monitor'.OngoingRequest = [Kind |-> t, Requested |-> held[t].Target]
      BY <1>m, <1>8 DEF MonitorState
    <2>2. /\ actions' = NULL
          /\ \A u \in MonitorThreads : Startable(u)' => Startable(u)
          /\ UNCHANGED held
      BY <1>t, <1>8 DEF Started, Update, Startable, TypeOK
    <2>3. Fits(t, held[t].Target)
      BY <1>8 DEF CanStart, Startable, RequestsFit
    <2>4. ASSUME NEW u, NEW target PROVE Fits(u, target) <=> Fits(u, target)'
      BY <2>1 DEF Fits, Raises, Lowers, StaysAbove
    <2>5. DenialIsKept'
      BY <2>1 DEF DenialIsKept, StaysAbove
    <2>6. Fits(t, held[t].Target)' /\ \A u \in MonitorThreads : Startable(u)' => Fits(u, held[u].Target)'
      BY <2>2, <2>3, <2>4 DEF RequestsFit
    <2>. QED  BY <2>1, <2>2, <2>5, <2>6 DEF RequestsFit
  <1>9. StartUpscaleRequest \/ StartDownscaleRequest => DenialIsKept' /\ RequestsFit'
    BY <1>8 DEF StartUpscaleRequest, StartingUpscaleRequest, StartDownscaleRequest,
          StartingDownscaleRequest
  \* The vm-monitor answers: nothing else is about to be started.
  <1>10. ASSUME NEW t \in MonitorThreads, CanFinish(t), t \in sameGeneration, Finished(t),
                monitor'.OngoingRequest = NULL
         PROVE  /\ DenialIsKept' => RequestsFit'
                /\ monitor.OngoingRequest \in MonitorRequest
                /\ monitor.OngoingRequest.Kind = t
                /\ Fits(t, monitor.OngoingRequest.Requested)
    <2>1. /\ monitor.OngoingRequest \in MonitorRequest
          /\ monitor.OngoingRequest # NULL
          /\ monitor.OngoingRequest.Kind = t
      BY <1>t, <1>10, AnswersHaveRequests DEF CallsMatch
    <2>2. \A u \in MonitorThreads : ~Startable(u)
      BY <2>1 DEF Inv, MonitorActionsExclusive, Startable
    <2>3. actions' = NULL /\ \A u \in MonitorThreads : ~Startable(u)'
      BY <1>t, <1>10, <2>2 DEF Finished, Update, Startable, TypeOK
    <2>. QED  BY <1>10, <2>1, <2>3 DEF RequestsFit
  <1>11. ASSUME NEW t \in MonitorThreads, CanFinish(t), t \in sameGeneration, Finished(t),
                MonitorRequestApproved
         PROVE  DenialIsKept' /\ RequestsFit'
    <2>1. /\ monitor'.Approved = monitor.OngoingRequest.Requested
          /\ monitor'.DeniedDownscale = monitor.DeniedDownscale
          /\ monitor'.OngoingRequest = NULL
      BY <1>m, <1>11 DEF MonitorRequestApproved, MonitorState
    <2>2. /\ monitor.OngoingRequest.Requested \in Resources
          /\ Fits(t, monitor.OngoingRequest.Requested)
          /\ DenialIsKept' => RequestsFit'
      BY <1>10, <1>11, <2>1 DEF MonitorRequest
    <2>3. ASSUME monitor.DeniedDownscale # NULL
          PROVE  StaysAbove(monitor.OngoingRequest.Requested)
      <3>1. CASE t = "upscale"
        <4>1. /\ monitor.DeniedDownscale.Requested \in Resources
              /\ monitor.Approved \in Resources
              /\ StaysAbove(monitor.Approved)
          BY <1>m, <2>3 DEF MonitorState, Optional, DenialIsKept
        <4>2. Raises(monitor.OngoingRequest.Requested)
          BY <2>2, <3>1 DEF Fits
        <4>. QED
          BY <2>2, <4>1, <4>2 DEF StaysAbove, Raises, Resources, HasFieldLessThan,
                HasFieldGreaterThan
      <3>2. CASE t = "downscale"
        BY <2>2, <2>3, <3>2 DEF Fits, Lowers
      <3>. QED  BY <3>1, <3>2
    <2>4. DenialIsKept'
      BY <2>1, <2>2, <2>3, NullAssumption DEF DenialIsKept, StaysAbove
    <2>. QED  BY <2>2, <2>4
  <1>12. ASSUME CanFinish("downscale"), "downscale" \in sameGeneration, Finished("downscale"),
                DownscaleRequestDenied
         PROVE  DenialIsKept' /\ RequestsFit'
    <2>1. /\ monitor'.Approved = monitor.Approved
          /\ monitor'.DeniedDownscale = [Current |-> monitor.Approved,
                                         Requested |-> monitor.OngoingRequest.Requested]
          /\ monitor'.OngoingRequest = NULL
      BY <1>m, <1>12 DEF DownscaleRequestDenied, MonitorState
    <2>2. /\ Fits("downscale", monitor.OngoingRequest.Requested)
          /\ DenialIsKept' => RequestsFit'
      BY <1>10, <1>12, <2>1
    <2>3. DenialIsKept'
      BY SMTT(30), <2>1, <2>2 DEF DenialIsKept, StaysAbove, Fits, Lowers, HasFieldLessThan,
            HasFieldGreaterThan
    <2>. QED  BY <2>2, <2>3
  <1>13. ASSUME NEW t \in MonitorThreads, CanFinish(t), Finished(t),
                UNCHANGED coreVars \/ UpscaleRequestFailed \/ DownscaleRequestFailed
         PROVE  DenialIsKept' /\ RequestsFit'
    <2>1. /\ monitor'.Approved = monitor.Approved
          /\ monitor'.DeniedDownscale = monitor.DeniedDownscale
          /\ monitor'.OngoingRequest \in {monitor.OngoingRequest, NULL}
      BY <1>m, <1>13 DEF UpscaleRequestFailed, DownscaleRequestFailed, MonitorState, coreVars
    <2>. QED  BY <1>6, <1>13, <2>1
  <1>14. MonitorAnswer => DenialIsKept' /\ RequestsFit'
    BY <1>11, <1>12, <1>13 DEF MonitorAnswer, UpscaleRequestSucceeds, UpscaleRequestFails,
          DownscaleRequestIsAllowed, DownscaleRequestIsDenied, DownscaleRequestFails,
          MonitorRequestReturns
  \* A first connection: nothing was approved, requested or denied before.
  <1>15. MonitorSetActive => DenialIsKept' /\ RequestsFit'
    <2>1. SUFFICES ASSUME MonitorSetActive PROVE DenialIsKept' /\ RequestsFit'
      OBVIOUS
    <2>2. monitor.Approved = NULL
      BY <1>t, <2>1 DEF MonitorSetActive, ConnectionState
    <2>3. /\ monitor.DeniedDownscale = NULL
          /\ monitor.OngoingRequest = NULL
          /\ \A t \in MonitorThreads : ~Startable(t)
      BY <2>2 DEF DenialIsKept, RequestsFit, Fits
    <2>4. /\ monitor'.DeniedDownscale = NULL
          /\ monitor'.OngoingRequest = NULL
          /\ actions' = NULL
          /\ \A t \in MonitorThreads : ~Startable(t)'
      BY <1>m, <2>1, <2>3 DEF MonitorSetActive, MonitorActive, MonitorState, ExternalUpdate,
            Update, Startable
    <2>. QED  BY <2>4 DEF DenialIsKept, RequestsFit
  \* getActions, on behalf of thread t or of the sleeper.
  <1>16. ASSUME NEW takers \in SUBSET RequestKinds, GetActions(takers), UNCHANGED coreVars,
                \A t \in takers : CurrentActions[t] # NULL /\ held'[t] = CurrentActions[t],
                \A t \in RequestKinds \ takers : pc'[t] = pc[t] /\ held'[t] = held[t]
         PROVE  DenialIsKept' /\ RequestsFit'
    <2>1. UNCHANGED monitor /\ actions' = CurrentActions
      BY <1>16 DEF coreVars, GetActions
    <2>2. DenialIsKept'
      BY <2>1 DEF DenialIsKept, StaysAbove
    <2>3. ASSUME NEW t \in MonitorThreads, CurrentActions[t] # NULL
          PROVE  Fits(t, CurrentActions[t].Target)
      <3>1. CASE actions # NULL
        BY <2>3, <3>1 DEF CurrentActions, RequestsFit
      <3>2. CASE actions = NULL
        BY <1>t, <2>3, <3>2, NextActionsFit DEF CurrentActions
      <3>. QED  BY <3>1, <3>2
    <2>4. ASSUME NEW t \in MonitorThreads, Startable(t)', t \notin takers
          PROVE  Startable(t) /\ held'[t] = held[t]
      BY <1>16, <2>4 DEF Startable, GetActions
    <2>5. ASSUME NEW t \in MonitorThreads, Startable(t)' PROVE Fits(t, held'[t].Target)
      <3>1. CASE t \in takers
        BY <1>16, <2>3, <3>1
      <3>2. CASE t \notin takers
        BY <2>4, <2>5, <3>2 DEF RequestsFit
      <3>. QED  BY <3>1, <3>2
    <2>. QED
      BY <2>1, <2>2, <2>3, <2>5 DEF RequestsFit, Fits, Raises, Lowers, StaysAbove
  <1>17. ASSUME NEW t \in RequestKinds, Wake(t) PROVE DenialIsKept' /\ RequestsFit'
    <2>1. CASE CurrentActions[t] = NULL
      BY <1>16, <1>17, <2>1 DEF Wake
    <2>2. CASE CurrentActions[t] # NULL
      <3>1. /\ GetActions({t})
            /\ UNCHANGED coreVars
            /\ held'[t] = CurrentActions[t]
            /\ \A u \in RequestKinds \ {t} : pc'[u] = pc[u] /\ held'[u] = held[u]
        BY <1>t, <1>17, <2>2 DEF Wake, TypeOK
      <3>. QED  BY <1>16, <2>2, <3>1
    <2>. QED  BY <2>1, <2>2
  <1>18. SleeperWakes \/ SleeperRefreshes => DenialIsKept' /\ RequestsFit'
    <2>1. SUFFICES ASSUME SleeperWakes \/ SleeperRefreshes PROVE DenialIsKept' /\ RequestsFit'
      OBVIOUS
    <2>2. GetActions({}) /\ UNCHANGED <<coreVars, held>>
      BY <2>1 DEF SleeperWakes, SleeperRefreshes
    <2>3. \A u \in RequestKinds : pc'[u] = pc[u]
      BY <1>t, <2>1 DEF SleeperWakes, SleeperRefreshes, TypeOK
    <2>. QED  BY <1>16, <2>2, <2>3
  <1>19. RestartAfterPanic => DenialIsKept' /\ RequestsFit'
    BY DEF RestartAfterPanic, NewMonitor, DenialIsKept, RequestsFit, Startable
  <1>. QED
    BY <1>2, <1>3, <1>5, <1>7, <1>9, <1>14, <1>15, <1>17, <1>18, <1>19
       DEF Next, RunnerStep, OutsideStep, PluginThread, NeonVMThread, UpscaleThread,
           DownscaleThread, Sleeper, ConnectionLoop, MonitorAnswer, MonitorConnectionReset

\* The checks on what is desired and on the direction of vm-monitor requests
\* (state.go:571, 645, 839) never fail, whatever happens to the connection.
THEOREM DirectionsAreSound == Spec => [](panicked \notin {"desired", "upscale", "downscale"})
  <1>. DEFINE Sound == panicked \notin {"desired", "upscale", "downscale"}
  <1>1. Init => BoundsAreOrdered /\ Sound
    BY InputsAssumption DEF Init, VmInfo, BoundsAreOrdered
  <1>2. Inv /\ BoundsAreOrdered /\ Sound /\ [Next]_vars => BoundsAreOrdered' /\ Sound'
    <2>1. SUFFICES ASSUME Inv, BoundsAreOrdered, Sound, [Next]_vars
                   PROVE  BoundsAreOrdered' /\ Sound'
      OBVIOUS
    <2>2. TypeOK /\ CoreTypeOK
      BY <2>1 DEF Inv, TypeOK
    <2>3. \A check \in {"desired", "upscale", "downscale"} : check \notin PanicReasons
      BY <2>1, <2>2, DirectionsAreRight DEF PanicReasons
    <2>4. Sound'
      BY <2>1, <2>3, PanicsHaveReasons
    <2>. QED  BY <2>1, <2>2, <2>4, BoundsStep
  <1>. QED  BY <1>1, <1>2, InvIsInvariant, PTL DEF Spec

\* As long as the first connection to the vm-monitor lasts, none of the checks of
\* the calculations ever fails: what was denied is not asked for again before the
\* denial expires (state.go:689), though recommendations are started that were
\* calculated before the last updates.
THEOREM CalculationsAreSoundHolds ==
    ASSUME ~MayDisconnect
    PROVE  Spec => []CalculationsAreSound
  <1>. DEFINE Kept == DenialIsKept /\ RequestsFit /\ panicked # "denied"
  <1>1. Init => Kept
    BY DEF Init, NewMonitor, DenialIsKept, RequestsFit, Startable, Threads, RequestKinds,
           MonitorThreads
  <1>2. Inv /\ Kept /\ [Next]_vars => Kept'
    <2>1. SUFFICES ASSUME Inv, Kept, [Next]_vars PROVE Kept'
      OBVIOUS
    <2>2. CASE UNCHANGED vars
      BY <2>1, <2>2 DEF vars, coreVars, execVars, envVars, DenialIsKept, RequestsFit, Startable,
            Fits, Raises, Lowers, StaysAbove
    <2>3. CASE Next
      <3>1. DenialIsKept' /\ RequestsFit'
        BY <2>1, <2>3, RequestsFitStep
      <3>2. "denied" \notin PanicReasons
        BY <2>1, DenialIsRespected DEF Inv, TypeOK, PanicReasons
      <3>3. panicked' # "denied"
        BY <2>1, <3>2, PanicsHaveReasons
      <3>. QED  BY <3>1, <3>3
    <2>. QED  BY <2>1, <2>2, <2>3
  <1>3. panicked \notin {"desired", "upscale", "downscale"} /\ Kept => CalculationsAreSound
    BY DEF CalculationsAreSound
  <1>. HIDE DEF Kept
  <1>. QED  BY <1>1, <1>2, <1>3, InvIsInvariant, DirectionsAreSound, PTL DEF Spec
=============================================================================
