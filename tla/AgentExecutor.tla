---------------------------- MODULE AgentExecutor ----------------------------
(***************************************************************************)
(* The threads that act on core.State for one VM (pkg/agent/executor and   *)
(* the parts of pkg/agent/runner.go that feed it): four request threads,   *)
(* the sleeper, the vm-monitor connection loop and the metrics loops, all  *)
(* behind one lock, with the recommended actions cached and checked again  *)
(* ("optimistic locking") when a thread starts what it was recommended.    *)
(*                                                                         *)
(* Each action is one critical section of ExecutorCore.mu.  What the code  *)
(* compares numbers for is kept as the outcome of the comparison: upToDate *)
(* for timedActions.id = lastActionsID, sameGeneration for a handle whose  *)
(* generation is the stored one, notified for a receiver's viewed # sent.  *)
(***************************************************************************)
EXTENDS AgentCore

CONSTANTS
    VmInfos,        \* what the VM's spec may say: bounds and scaling config
    InitialUsing,   \* what the VM may be using when the runner starts
    Goals,          \* goal CU that system metrics may lead to
    LFCGoals,       \* goal CU that LFC metrics may lead to
    Permits,        \* the permits that a scheduler may answer with
    MayFail,        \* bound: the kinds of requests that may fail
    MayExpire,      \* bound: the waiting periods that may pass
    MayDisconnect,  \* bound: whether the vm-monitor connection may be lost
    MayRequest      \* bound: whether the vm-monitor may ask for an upscale

\* ExtractVmInfo returns an error if the VM's minimum exceeds its maximum (vminfo.go:272).
ASSUME InputsAssumption ==
    /\ VmInfos \subseteq VmInfo
    /\ \A info \in VmInfos : ~HasFieldGreaterThan(info.Min, info.Max)
    /\ InitialUsing \subseteq Resources
    /\ Goals \subseteq Nat
    /\ LFCGoals \subseteq Nat
    /\ Permits \subseteq Resources

VARIABLES
    actions,        \* ExecutorCore.actions: the cached ActionSet or NULL
    upToDate,       \* threads whose ActionSet is the last one calculated
    notified,       \* threads whose receiver has an unseen broadcast
    pc,             \* where each thread is
    held,           \* the action each request thread is about to do or doing
    sleepingFor,    \* the waiting periods the sleeper's timer is set for
    connection,     \* connectToMonitorLoop: down, connected (not yet active) or active
    sameGeneration, \* vm-monitor threads whose handle has the current generation
    fetchingLFC,    \* the LFC metrics loop has a request in flight
    spec,           \* external: the resources in the VirtualMachine's spec
    panicked        \* the check that failed in a background worker, or "none"

execVars == <<actions, upToDate, notified, pc, held, sleepingFor>>
envVars == <<connection, sameGeneration, fetchingLFC, spec, panicked>>
vars == <<coreVars, execVars, envVars>>

Threads == RequestKinds \union {"sleeper"}
MonitorThreads == {"upscale", "downscale"}

TypeOK ==
    /\ CoreTypeOK
    /\ actions \in Optional(ActionSet)
    /\ upToDate \in SUBSET RequestKinds
    /\ notified \in [Threads -> BOOLEAN]
    /\ pc \in [Threads -> {"waiting", "ready", "calling", "sleeping", "fired"}]
    /\ held \in [RequestKinds -> Optional(ScaleAction \union
                    [LastPermit : Optional(Resources), Target : Resources])]
    /\ sleepingFor \in SUBSET (Timers \union Cooldowns)
    /\ connection \in {"down", "connected", "active"}
    /\ sameGeneration \in SUBSET MonitorThreads
    /\ fetchingLFC \in BOOLEAN
    /\ spec \in Resources
    /\ panicked \in {"none", "desired", "clamp", "upscale", "downscale", "denied",
                     "nilHandle", "nilApproved"}

(***************************************************************************)
(* NewExecutorCore, and the threads that Run spawns                        *)
(***************************************************************************)
Init ==
    /\ \E info \in VmInfos, using \in InitialUsing :
        /\ vm = [info EXCEPT !.Using = using]
        /\ spec = using
    /\ metrics = NoMetrics
    /\ plugin = NewPlugin
    /\ monitor = NewMonitor
    /\ neonvm = NULL
    /\ timers = {}
    /\ actions = NULL
    /\ upToDate = {}
    /\ notified = [t \in Threads |-> FALSE]
    /\ pc = [t \in Threads |-> "waiting"]
    /\ held = [t \in RequestKinds |-> NULL]
    /\ sleepingFor = {}
    /\ connection = "down"
    /\ sameGeneration = {}
    /\ fetchingLFC = FALSE
    /\ panicked = "none"

Running == panicked = "none"

(***************************************************************************)
(* ExecutorCore                                                            *)
(***************************************************************************)
\* What update and updateIfActionsUnchanged do besides calling the handler.
Update ==
    /\ notified' = [t \in Threads |-> TRUE]
    /\ actions' = NULL

\* getActions: the cached actions or, after an update, newly calculated ones.
CurrentActions == IF actions # NULL THEN actions ELSE NextActions

GetActions(takers) ==
    /\ actions # NULL \/ PanicReasons = {}
    /\ actions' = CurrentActions
    /\ upToDate' = (IF actions # NULL THEN upToDate ELSE {}) \union takers

\* A panic in any thread ends them all: Run stops and the runner is restarted.
Panic(reason) ==
    /\ panicked' = reason
    /\ UNCHANGED <<coreVars, execVars, connection, sameGeneration, fetchingLFC, spec>>

(***************************************************************************)
(* The request threads: wait for an update, look up the own action, start  *)
(* it if it is still the recommended one, make the call, store the result. *)
(***************************************************************************)
\* updates.Awake and getActions; a thread with nothing to do waits again.
Wake(t) ==
    /\ Running
    /\ pc[t] = "waiting"
    /\ notified[t]
    /\ notified' = [notified EXCEPT ![t] = FALSE]
    /\ IF CurrentActions[t] = NULL
       THEN GetActions({}) /\ UNCHANGED <<pc, held>>
       ELSE /\ GetActions({t})
            /\ pc' = [pc EXCEPT ![t] = "ready"]
            /\ held' = [held EXCEPT ![t] = CurrentActions[t]]
    /\ UNCHANGED <<coreVars, sleepingFor, envVars>>

GetActionsPanics(t) ==
    /\ Running
    /\ \/ pc[t] = "waiting" /\ notified[t]
       \/ pc[t] = "fired"
    /\ actions = NULL
    /\ \E r \in PanicReasons : Panic(r)

\* Mutant: uses up the broadcast before the loop starts over.
RetryAwake(t) ==
    /\ Running
    /\ pc[t] = "ready"
    /\ t \notin upToDate
    /\ notified' = [notified EXCEPT ![t] = FALSE]
    /\ pc' = [pc EXCEPT ![t] = "waiting"]
    /\ held' = [held EXCEPT ![t] = NULL]
    /\ UNCHANGED <<coreVars, actions, upToDate, sleepingFor, envVars>>

\* updateIfActionsUnchanged returned false: the loop starts over.
Retry(t) ==
    /\ Running
    /\ pc[t] = "ready"
    /\ t \notin upToDate
    /\ pc' = [pc EXCEPT ![t] = "waiting"]
    /\ held' = [held EXCEPT ![t] = NULL]
    /\ UNCHANGED <<coreVars, actions, upToDate, notified, sleepingFor, envVars>>

\* updateIfActionsUnchanged returned true, having called the handler.
CanStart(t) == Running /\ pc[t] = "ready" /\ t \in upToDate

Started(t) ==
    /\ Update
    /\ upToDate' = upToDate \ {t}
    /\ pc' = [pc EXCEPT ![t] = "calling"]
    /\ UNCHANGED <<held, sleepingFor, connection, fetchingLFC, spec, panicked>>

\* The call returned and update has stored its result.
CanFinish(t) == Running /\ pc[t] = "calling"

Finished(t) ==
    /\ Update
    /\ pc' = [pc EXCEPT ![t] = "waiting"]
    /\ held' = [held EXCEPT ![t] = NULL]
    /\ UNCHANGED <<upToDate, sleepingFor, connection, fetchingLFC, panicked>>

(***************************************************************************)
(* DoPluginRequests                                                        *)
(***************************************************************************)
StartPluginRequest ==
    /\ CanStart("plugin")
    /\ PluginStartingRequest(held["plugin"].Target)
    /\ Started("plugin")
    /\ UNCHANGED sameGeneration

PluginRequestFails ==
    /\ "plugin" \in MayFail
    /\ CanFinish("plugin")
    /\ PluginRequestFailed
    /\ Finished("plugin")
    /\ UNCHANGED <<sameGeneration, spec>>

\* handleAgentRequest, as far as an agent can tell: a request within the last permit is granted at once;
\* otherwise the answer is what is set aside for the pod by then, which may even be more than asked for,
\* but is nothing less than was permitted and is still asked for.
PluginMayAnswer(permit) ==
    LET asked == held["plugin"].Target
        last == held["plugin"].LastPermit
    IN  last # NULL => IF HasFieldGreaterThan(asked, last) THEN ~HasFieldLessThan(permit, ResMin(last, asked))
                       ELSE permit = asked

PluginRespondsWith(permit) ==
    /\ CanFinish("plugin")
    /\ PluginMayAnswer(permit)
    /\ PluginRequestSuccessful(permit)
    /\ Finished("plugin")
    /\ UNCHANGED <<sameGeneration, spec>>

PluginGrants(permit) ==
    /\ CanFinish("plugin")
    /\ permit = held["plugin"].Target
    /\ PluginRespondsWith(permit)

PluginResponds == \E permit \in Permits : PluginRespondsWith(permit)

(***************************************************************************)
(* DoNeonVMRequests.  A patch that reports an error, a timeout say, may    *)
(* still have been applied.                                                *)
(***************************************************************************)
StartNeonVMRequest ==
    /\ CanStart("neonvm")
    /\ NeonVMStartingRequest(held["neonvm"].Target)
    /\ Started("neonvm")
    /\ UNCHANGED sameGeneration

NeonVMRequestSucceeds ==
    /\ CanFinish("neonvm")
    /\ NeonVMRequestSuccessful
    /\ spec' = held["neonvm"].Target
    /\ Finished("neonvm")
    /\ UNCHANGED sameGeneration

NeonVMRequestFails ==
    /\ "neonvm" \in MayFail
    /\ CanFinish("neonvm")
    /\ NeonVMRequestFailed
    /\ spec' \in {spec, held["neonvm"].Target}
    /\ Finished("neonvm")
    /\ UNCHANGED sameGeneration

(***************************************************************************)
(* DoMonitorUpscales, DoMonitorDownscales.  A result that arrives after    *)
(* the connection was replaced is dropped.                                 *)
(***************************************************************************)
\* Monitor.GetHandle() is nil exactly when Runner.monitor is.
StartMonitorRequestWithoutHandle(t) ==
    /\ CanStart(t)
    /\ connection # "active"
    /\ Panic("nilHandle")

StartUpscaleRequest ==
    /\ CanStart("upscale")
    /\ connection = "active"
    /\ StartingUpscaleRequest(held["upscale"].Target)
    /\ Started("upscale")
    /\ sameGeneration' = sameGeneration \union {"upscale"}

StartDownscaleRequest ==
    /\ CanStart("downscale")
    /\ connection = "active"
    /\ StartingDownscaleRequest(held["downscale"].Target)
    /\ Started("downscale")
    /\ sameGeneration' = sameGeneration \union {"downscale"}

MonitorRequestReturns(t, handler) ==
    /\ CanFinish(t)
    /\ IF t \in sameGeneration THEN handler ELSE UNCHANGED coreVars
    /\ Finished(t)
    /\ sameGeneration' = sameGeneration \ {t}
    /\ UNCHANGED spec

UpscaleRequestSucceeds == MonitorRequestReturns("upscale", MonitorRequestApproved)

UpscaleRequestFails ==
    /\ "upscale" \in MayFail
    /\ MonitorRequestReturns("upscale", UpscaleRequestFailed)

DownscaleRequestIsAllowed == MonitorRequestReturns("downscale", MonitorRequestApproved)

DownscaleRequestIsDenied == MonitorRequestReturns("downscale", DownscaleRequestDenied)

DownscaleRequestFails ==
    /\ "downscale" \in MayFail
    /\ MonitorRequestReturns("downscale", DownscaleRequestFailed)

(***************************************************************************)
(* DoSleeper                                                               *)
(***************************************************************************)
SleeperWakes ==
    /\ Running
    /\ pc["sleeper"] = "waiting"
    /\ notified["sleeper"]
    /\ notified' = [notified EXCEPT !["sleeper"] = FALSE]
    /\ GetActions({})
    /\ sleepingFor' = CurrentActions.wait
    /\ pc' = [pc EXCEPT !["sleeper"] = IF CurrentActions.wait = {} THEN "waiting" ELSE "sleeping"]
    /\ UNCHANGED <<coreVars, held, envVars>>

\* An update during the sleep is left for the top of the loop.
SleeperInterrupted ==
    /\ Running
    /\ pc["sleeper"] = "sleeping"
    /\ notified["sleeper"]
    /\ pc' = [pc EXCEPT !["sleeper"] = "waiting"]
    /\ sleepingFor' = {}
    /\ UNCHANGED <<coreVars, actions, upToDate, notified, held, envVars>>

\* The timer fires once the shortest of the periods has passed.
SleeperFires ==
    /\ Running
    /\ pc["sleeper"] = "sleeping"
    /\ ~notified["sleeper"]
    /\ \E w \in sleepingFor : ~InEffect(w)
    /\ Update
    /\ pc' = [pc EXCEPT !["sleeper"] = "fired"]
    /\ sleepingFor' = {}
    /\ UNCHANGED <<coreVars, upToDate, held, envVars>>

\* updates.Awake() and getActions(), then back to the top of the loop: the
\* sleeper does not look at the wait that it has just been given.
SleeperRefreshes ==
    /\ Running
    /\ pc["sleeper"] = "fired"
    /\ notified' = [notified EXCEPT !["sleeper"] = FALSE]
    /\ GetActions({})
    /\ pc' = [pc EXCEPT !["sleeper"] = "waiting"]
    /\ UNCHANGED <<coreVars, held, sleepingFor, envVars>>

(***************************************************************************)
(* What else updates the state: metrics, the watch on the VM, and the      *)
(* connection to the vm-monitor.                                           *)
(***************************************************************************)
ExternalUpdate ==
    /\ Running
    /\ Update
    /\ UNCHANGED <<upToDate, pc, held, sleepingFor, spec, panicked>>

VmInfoUpdated ==
    /\ \E info \in VmInfos : UpdatedVM(info)
    /\ ExternalUpdate
    /\ UNCHANGED <<connection, sameGeneration, fetchingLFC>>

SystemMetricsUpdated ==
    /\ \E goal \in Goals : UpdateSystemMetrics(goal)
    /\ ExternalUpdate
    /\ UNCHANGED <<connection, sameGeneration, fetchingLFC>>

\* getMetricsLoop asks for LFC metrics only while the VM has them enabled ...
FetchLFCMetrics ==
    /\ Running
    /\ vm.EnableLFCMetrics
    /\ ~fetchingLFC
    /\ fetchingLFC' = TRUE
    /\ UNCHANGED <<coreVars, execVars, connection, sameGeneration, spec, panicked>>

\* ... and stores whatever arrives.
LFCMetricsUpdated ==
    /\ fetchingLFC
    /\ fetchingLFC' = FALSE
    /\ \E goal \in LFCGoals : UpdateLFCMetrics(goal)
    /\ ExternalUpdate
    /\ UNCHANGED <<connection, sameGeneration>>

\* NewDispatcher returned: its message handler is running already.
MonitorConnected ==
    /\ Running
    /\ connection = "down"
    /\ connection' = "connected"
    /\ UNCHANGED <<coreVars, execVars, sameGeneration, fetchingLFC, spec, panicked>>

MonitorSetActive ==
    /\ connection = "connected"
    /\ connection' = "active"
    /\ sameGeneration' = {}
    /\ MonitorActive
    /\ ExternalUpdate
    /\ UNCHANGED fetchingLFC

\* The dispatcher exited, or (connection = "down") could not be created.
MonitorConnectionReset ==
    /\ MayDisconnect
    /\ connection \in {"active", "down"}
    /\ connection' = "down"
    /\ sameGeneration' = {}
    /\ MonitorReset
    /\ ExternalUpdate
    /\ UNCHANGED fetchingLFC

\* The vm-monitor asks for memory; the handler reads Monitor.Approved.
UpscaleRequestReceived ==
    /\ MayRequest
    /\ connection = "active"
    /\ UpscaleRequested(FALSE, TRUE)
    /\ ExternalUpdate
    /\ UNCHANGED <<connection, sameGeneration, fetchingLFC>>

UpscaleRequestReceivedEarly ==
    /\ MayRequest
    /\ Running
    /\ connection = "connected"
    /\ Panic("nilApproved")

TimePassesFor(t) ==
    /\ Running
    /\ Expire(t)
    /\ UNCHANGED <<execVars, envVars>>

TimePasses == \E t \in MayExpire : TimePassesFor(t)

\* TriggerRestartIfNecessary: a new Runner, which starts from the VM object.
\* A patch that was on its way may or may not have arrived.
RestartAfterPanic ==
    /\ ~Running
    /\ spec' \in {spec} \union ({neonvm} \ {NULL})
    /\ vm' = [vm EXCEPT !.Using = spec']
    /\ metrics' = NoMetrics
    /\ plugin' = NewPlugin
    /\ monitor' = NewMonitor
    /\ neonvm' = NULL
    /\ timers' = {}
    /\ actions' = NULL
    /\ upToDate' = {}
    /\ notified' = [t \in Threads |-> FALSE]
    /\ pc' = [t \in Threads |-> "waiting"]
    /\ held' = [t \in RequestKinds |-> NULL]
    /\ sleepingFor' = {}
    /\ connection' = "down"
    /\ sameGeneration' = {}
    /\ fetchingLFC' = FALSE
    /\ panicked' = "none"

PluginThread ==
    \/ Wake("plugin") \/ GetActionsPanics("plugin") \/ Retry("plugin")
    \/ StartPluginRequest \/ PluginRequestFails \/ PluginResponds

NeonVMThread ==
    \/ Wake("neonvm") \/ GetActionsPanics("neonvm") \/ Retry("neonvm")
    \/ StartNeonVMRequest \/ NeonVMRequestSucceeds \/ NeonVMRequestFails

UpscaleThread ==
    \/ Wake("upscale") \/ GetActionsPanics("upscale") \/ Retry("upscale")
    \/ StartUpscaleRequest \/ StartMonitorRequestWithoutHandle("upscale")
    \/ UpscaleRequestSucceeds \/ UpscaleRequestFails

DownscaleThread ==
    \/ Wake("downscale") \/ GetActionsPanics("downscale") \/ Retry("downscale")
    \/ StartDownscaleRequest \/ StartMonitorRequestWithoutHandle("downscale")
    \/ DownscaleRequestIsAllowed \/ DownscaleRequestIsDenied \/ DownscaleRequestFails

Sleeper ==
    \/ SleeperWakes \/ GetActionsPanics("sleeper")
    \/ SleeperInterrupted \/ SleeperFires \/ SleeperRefreshes

ConnectionLoop ==
    \/ MonitorConnected \/ MonitorSetActive \/ MonitorConnectionReset
    \/ UpscaleRequestReceived \/ UpscaleRequestReceivedEarly

RunnerStep ==
    \/ PluginThread \/ NeonVMThread \/ UpscaleThread \/ DownscaleThread \/ Sleeper
    \/ RestartAfterPanic

OutsideStep ==
    \/ ConnectionLoop
    \/ VmInfoUpdated \/ SystemMetricsUpdated \/ FetchLFCMetrics \/ LFCMetricsUpdated
    \/ TimePasses

Next == RunnerStep \/ OutsideStep

Spec == Init /\ [][Next]_vars

(***************************************************************************)
(* What is assumed for liveness.  What comes from outside is milliseconds  *)
(* to seconds apart, whereas threads look at an update, and start what it  *)
(* recommends, in microseconds: they are done before the next one comes.   *)
(* And a request to the plugin times out before the next one is due (2 and *)
(* 5 seconds in config_map.yaml).                                          *)
(***************************************************************************)
IsBusy(t) == pc[t] \in {"ready", "fired"} \/ (pc[t] \in {"waiting", "sleeping"} /\ notified[t])

PromptNext ==
    \/ RunnerStep
    \/ /\ \A t \in Threads : ~IsBusy(t)
       /\ OutsideStep
       /\ plugin.OngoingRequest => timers \intersect {"tick"} = timers' \intersect {"tick"}

\* Threads are scheduled.  The first two are the weak fairness conditions of
\* Wake(t), SleeperWakes and SleeperRefreshes, each with GetActionsPanics(t),
\* with what enables them spelt out (the steps themselves falsify it).
ThreadsAreScheduled ==
    /\ \A t \in Threads : []<>~(Running /\ pc[t] = "waiting" /\ notified[t])
    /\ []<>~(Running /\ pc["sleeper"] = "fired")
    /\ \A t \in RequestKinds : WF_vars(Retry(t))
    /\ WF_vars(StartPluginRequest) /\ WF_vars(StartNeonVMRequest)
    /\ WF_vars(StartUpscaleRequest) /\ WF_vars(StartDownscaleRequest)
    /\ \A t \in MonitorThreads : WF_vars(StartMonitorRequestWithoutHandle(t))
    /\ WF_vars(SleeperInterrupted) /\ WF_vars(SleeperFires)

\* Every call has a timeout, and so returns.
CallsReturn ==
    /\ WF_vars(PluginResponds \/ PluginRequestFails)
    /\ WF_vars(NeonVMRequestSucceeds \/ NeonVMRequestFails)
    /\ WF_vars(UpscaleRequestSucceeds \/ UpscaleRequestFails)
    /\ WF_vars(DownscaleRequestIsAllowed \/ DownscaleRequestIsDenied \/ DownscaleRequestFails)

\* Waiting periods pass, connecting is retried for ever, and a runner that
\* panicked is restarted.
Fairness ==
    /\ ThreadsAreScheduled
    /\ CallsReturn
    /\ WF_vars(MonitorConnected) /\ WF_vars(MonitorSetActive)
    /\ WF_vars(RestartAfterPanic)
    /\ \A t \in MayExpire : WF_vars(TimePassesFor(t))

PromptSpec == Init /\ [][PromptNext]_vars

FairSpec == PromptSpec /\ Fairness

\* Besides, of the outside world: the VM keeps answering the requests of
\* getMetricsLoop, and who is asked for something again and again grants it.
Cooperation ==
    /\ WF_vars(SystemMetricsUpdated)
    /\ \A permit \in Permits : SF_vars(PluginGrants(permit))
    /\ SF_vars(DownscaleRequestIsAllowed)

CooperativeSpec == FairSpec /\ Cooperation

(***************************************************************************)
(* Properties                                                              *)
(***************************************************************************)
\* Of the calls that threads have in flight and those that core.State has on
\* record, neither is missing in the other: a thread waits for an answer iff
\* core.State has its request as ongoing, for the same resources; a vm-monitor
\* call on the current connection is the one ongoing request of its kind, so at
\* most one of upscale and downscale is out.  The handlers for an answer rely
\* on it: they dereference OngoingRequest (state.go:1190, 1208, 1222, 1264).
RequestsMatchCalls ==
    Running =>
        /\ plugin.OngoingRequest <=> pc["plugin"] = "calling"
        /\ pc["plugin"] = "calling" => plugin.LastRequest = held["plugin"].Target
        /\ neonvm = IF pc["neonvm"] = "calling" THEN held["neonvm"].Target ELSE NULL
        /\ monitor.OngoingRequest # NULL =>
              /\ monitor.OngoingRequest.Kind \in sameGeneration
              /\ monitor.OngoingRequest.Requested = held[monitor.OngoingRequest.Kind].Target
        /\ \A t \in sameGeneration :
              /\ pc[t] = "calling"
              /\ monitor.OngoingRequest # NULL
              /\ monitor.OngoingRequest.Kind = t
              /\ monitor.Approved # NULL

\* No update is lost: a request thread that is back at the top of its loop with
\* no broadcast left to see has nothing recommended to do.  So skipping an
\* outdated action (updateIfActionsUnchanged, core.go:132) never drops one.
NoLostWakeup ==
    \A t \in RequestKinds :
        (Running /\ pc[t] = "waiting" /\ ~notified[t] /\ actions # NULL) => actions[t] = NULL

\* The checks at the end of desiredResourcesFromMetricsOrRequestedUpscaling (state.go:836)
\* and in the two vm-monitor calculations (state.go:570, 638, 689) never fail: whatever
\* order metrics, changed bounds, denials and upscale requests arrive in, what is desired
\* is within the VM's bounds unless a denial keeps it up, and vm-monitor requests go in
\* the direction they are named for and not to what was denied.
CalculationsAreSound == panicked \notin {"desired", "upscale", "downscale", "denied"}

\* A request that raises the VM's usage stays within the permit (or within what is
\* already used), also if the recommendation has become outdated meanwhile.
UpscalesWithinPermit ==
    [][(neonvm' # neonvm /\ neonvm' # NULL) =>
          ~HasFieldGreaterThan(neonvm', ResMax(vm.Using, PluginApprovedUpperBound))]_vars

\* Once the goal stays the same, the VM gets to use it: each of the requests that
\* this takes (to the plugin, to NeonVM, to the vm-monitor) is eventually made.
ScalesToGoal ==
    \A goal \in Goals :
        <>[](metrics.System = goal) => <>[](vm.Using = Mul(ComputeUnit, goal))
=============================================================================
