--------------------------- MODULE AgentLifecycle ---------------------------
(***************************************************************************)
(* Who scales a VM, and when (pkg/agent/globalstate.go, watch.go and the   *)
(* outer part of runner.go): changes of the VM object become events in a   *)
(* queue, the main loop starts and stops runners for them, and a runner    *)
(* that panics is restarted by the goroutine it leaves behind.             *)
(*                                                                         *)
(* One VM, which over time may be in several pods; a pod may come back     *)
(* under its name, with a new status and context.  Each action is one      *)
(* critical section of agentState.lock or of a status's lock.              *)
(***************************************************************************)
EXTENDS Naturals, Sequences

CONSTANTS
    NULL,       \* Go's nil
    Pods,       \* names of pods
    Infos,      \* what the VM's spec may say (api.VmInfo)
    BadInfos,   \* what of that ExtractVmInfo returns an error for
    Statuses,   \* addresses of lockedPodStatus, each with the context made along with it
    Runners,    \* addresses of Runner, each with the goroutine that it runs in
    MaxQueue,   \* bound: events in the queue
    MayRelist   \* bound: whether the watch may skip versions of the VM

ASSUME LifecycleAssumption ==
    /\ BadInfos \subseteq Infos
    /\ MaxQueue \in Nat

VARIABLES
    seen,       \* the VM in the watch store: pod and info, NULL if it is not ours
    queue,      \* vmEventQueue
    pods,       \* agentState.pods: status and runner, or NULL, by name
    status,     \* podStatus: info and endState; cancelled: its context has been
    runner,     \* the runners
    crashed     \* a goroutine has panicked without recovering

vars == <<seen, queue, pods, status, runner, crashed>>

Optional(S) == S \union {NULL}

VmView == [pod : Pods, info : Infos]

VmEvent == [kind : {"added", "updated", "deleted"}, vm : VmView]

PodState == [status : Statuses, runner : Runners]

PodStatus == [info : Infos, endState : Optional({"canceled", "panicked"}), cancelled : BOOLEAN]

\* Where a runner's goroutine is: created, spawning its workers, waiting for the
\* end in Run, after Run, and waiting to restart, with or without a delay.
RunnerState ==
    [pc : {"spawned", "starting", "running", "ended", "restarting", "delayed"},
     pod : Pods,
     status : Statuses,         \* Runner.status
     ctx : Statuses,            \* the status whose context was given to Spawn
     info : Optional(Infos),    \* what the executor was last given
     signal : BOOLEAN,          \* vmInfoUpdated
     updater : {"receives", "updates", "lost"}]     \* its worker "VmInfo updater"

ASSUME NullAssumption ==
    /\ NULL \notin VmView
    /\ NULL \notin PodState
    /\ NULL \notin PodStatus
    /\ NULL \notin RunnerState

TypeOK ==
    /\ seen \in Optional(VmView)
    /\ queue \in Seq(VmEvent)
    /\ pods \in [Pods -> Optional(PodState)]
    /\ status \in [Statuses -> Optional(PodStatus)]
    /\ runner \in [Runners -> Optional(RunnerState)]
    /\ crashed \in BOOLEAN

Init ==
    /\ seen = NULL
    /\ queue = <<>>
    /\ pods = [p \in Pods |-> NULL]
    /\ status = [s \in Statuses |-> NULL]
    /\ runner = [r \in Runners |-> NULL]
    /\ crashed = FALSE

(***************************************************************************)
(* Addresses.  What nothing refers to any more is free to be used again.   *)
(***************************************************************************)
FreeRunners ==
    {r \in Runners : runner[r] = NULL /\ \A p \in Pods : pods[p] # NULL => pods[p].runner # r}

FreeStatuses ==
    {s \in Statuses :
        /\ \A p \in Pods : pods[p] # NULL => pods[p].status # s
        /\ \A r \in Runners : runner[r] # NULL => s \notin {runner[r].status, runner[r].ctx}}

(***************************************************************************)
(* startVMWatcher: vmIsOurResponsibility before and after decides on the   *)
(* event; there is none if makeVMEvent fails.  Between two pods a VM is    *)
(* not ours (it is migrating, or pending) but a relist may miss that.      *)
(***************************************************************************)
MakeVMEvent(old, new) ==
    IF old = NULL THEN [kind |-> "added", vm |-> new]
    ELSE IF new = NULL THEN [kind |-> "deleted", vm |-> old]
    ELSE [kind |-> "updated", vm |-> new]

WatchVM ==
    /\ ~crashed
    /\ Len(queue) < MaxQueue
    /\ \E new \in Optional(VmView) \ {seen} :
          /\ ~MayRelist /\ seen # NULL /\ new # NULL => new.pod = seen.pod
          /\ seen' = new
          /\ LET event == MakeVMEvent(seen, new)
             IN  queue' = IF event.vm.info \in BadInfos THEN queue ELSE Append(queue, event)
    /\ UNCHANGED <<pods, status, runner, crashed>>

(***************************************************************************)
(* handleEvent                                                             *)
(***************************************************************************)
NextEvent(kind) ==
    /\ ~crashed
    /\ queue # <<>>
    /\ Head(queue).kind = kind
    /\ queue' = Tail(queue)
    /\ UNCHANGED <<seen, crashed>>

EventVM == Head(queue).vm

HasPod == pods[EventVM.pod] # NULL

\* An event for a pod that is not there, or is there already, is only logged.
HandleUnexpected ==
    /\ \/ NextEvent("added") /\ HasPod
       \/ NextEvent("updated") /\ ~HasPod
       \/ NextEvent("deleted") /\ ~HasPod
    /\ UNCHANGED <<pods, status, runner>>

HandleDeleted ==
    /\ NextEvent("deleted")
    /\ HasPod
    /\ status' = [status EXCEPT ![pods[EventVM.pod].status].cancelled = TRUE]
    /\ pods' = [pods EXCEPT ![EventVM.pod] = NULL]
    /\ UNCHANGED runner

\* Whether Run has been called, or is about to be, and has not returned.
IsLive(r) == runner[r] # NULL /\ runner[r].pc \in {"spawned", "starting", "running"}

\* Mutant: a channel without a buffer, which nobody receives from while Run starts.
SignalledWithoutBuffer(r) ==
    IF IsLive(r) /\ runner[r].pc = "running" THEN [runner EXCEPT ![r].signal = TRUE] ELSE runner

\* CondChannelSender.Send.  Nobody listens to the channel after Run.
Signalled(r) == IF IsLive(r) THEN [runner EXCEPT ![r].signal = TRUE] ELSE runner

HandleUpdated ==
    /\ NextEvent("updated")
    /\ HasPod
    /\ status' = [status EXCEPT ![pods[EventVM.pod].status].info = EventVM.info]
    /\ runner' = Signalled(pods[EventVM.pod].runner)
    /\ UNCHANGED pods

NewRunner(p, s, ctx) ==
    [pc |-> "spawned", pod |-> p, status |-> s, ctx |-> ctx, info |-> NULL,
     signal |-> FALSE, updater |-> "receives"]

HandleVMEventAdded ==
    /\ NextEvent("added")
    /\ ~HasPod
    /\ \E s \in FreeStatuses, r \in FreeRunners :
          /\ status' = [status EXCEPT ![s] =
                           [info |-> EventVM.info, endState |-> NULL, cancelled |-> FALSE]]
          /\ runner' = [runner EXCEPT ![r] = NewRunner(EventVM.pod, s, s)]
          /\ pods' = [pods EXCEPT ![EventVM.pod] = [status |-> s, runner |-> r]]

HandleEvent == HandleUnexpected \/ HandleDeleted \/ HandleUpdated \/ HandleVMEventAdded

(***************************************************************************)
(* Runner.Spawn and Run                                                    *)
(***************************************************************************)
At(r, pc) == ~crashed /\ runner[r] # NULL /\ runner[r].pc = pc

Goto(r, pc) == runner' = [runner EXCEPT ![r].pc = pc]

\* Run reads the VmInfo and begins to spawn background workers ...
RunBegins(r) ==
    /\ At(r, "spawned")
    /\ runner' = [runner EXCEPT ![r].pc = "starting", ![r].info = status[runner[r].status].info]
    /\ UNCHANGED <<seen, queue, pods, status, crashed>>

\* ... and then waits for the end.
RunWaits(r) ==
    /\ At(r, "starting")
    /\ Goto(r, "running")
    /\ UNCHANGED <<seen, queue, pods, status, crashed>>

\* The worker "VmInfo updater" receives the signal ...
UpdaterReceives(r) ==
    /\ At(r, "starting") \/ At(r, "running")
    /\ runner[r].updater = "receives"
    /\ runner[r].signal
    /\ runner' = [runner EXCEPT ![r].signal = FALSE, ![r].updater = "updates"]
    /\ UNCHANGED <<seen, queue, pods, status, crashed>>

\* ... and only then reads the VmInfo, to give it to the executor.
UpdaterUpdates(r) ==
    /\ At(r, "starting") \/ At(r, "running")
    /\ runner[r].updater = "updates"
    /\ runner' = [runner EXCEPT ![r].updater = "receives",
                                ![r].info = status[runner[r].status].info]
    /\ UNCHANGED <<seen, queue, pods, status, crashed>>

\* Run returns, which cancels the workers' context, and the executor is gone.
RunEnds(r, exitKind) ==
    /\ status' = [status EXCEPT ![runner[r].status].endState = exitKind]
    /\ runner' = [runner EXCEPT ![r].pc = "ended", ![r].info = NULL, ![r].signal = FALSE,
                                ![r].updater = "receives"]
    /\ UNCHANGED <<seen, queue, pods, crashed>>

\* A worker panics.  Run gets to know if it is already waiting; else, if it was the
\* "VmInfo updater", updates are no longer seen.
WorkerPanics(r) == At(r, "running") /\ RunEnds(r, "panicked")

WorkerPanicsEarly(r) ==
    /\ At(r, "starting")
    /\ runner' = [runner EXCEPT ![r].updater = "lost"]
    /\ UNCHANGED <<seen, queue, pods, status, crashed>>

RunIsCancelled(r) ==
    /\ At(r, "running")
    /\ status[runner[r].ctx].cancelled
    /\ RunEnds(r, "canceled")

(***************************************************************************)
(* TriggerRestartIfNecessary, called at the end of the goroutine: looks up *)
(* the status of the pod by name, ...                                      *)
(***************************************************************************)
EndStateOf(p) == status[pods[p].status].endState

NoRestart(r) ==
    /\ At(r, "ended")
    /\ pods[runner[r].pod] # NULL => EndStateOf(runner[r].pod) = "canceled"
    /\ runner' = [runner EXCEPT ![r] = NULL]
    /\ UNCHANGED <<seen, queue, pods, status, crashed>>

\* Mutant: a runner that panicked is not restarted.
NeverRestart(r) ==
    /\ At(r, "ended")
    /\ pods[runner[r].pod] # NULL
    /\ EndStateOf(runner[r].pod) = "panicked"
    /\ runner' = [runner EXCEPT ![r] = NULL]
    /\ UNCHANGED <<seen, queue, pods, status, crashed>>

TriggerRestart(r) ==
    /\ At(r, "ended")
    /\ pods[runner[r].pod] # NULL
    /\ EndStateOf(runner[r].pod) = "panicked"
    /\ \E wait \in {"restarting", "delayed"} : Goto(r, wait)
    /\ UNCHANGED <<seen, queue, pods, status, crashed>>

\* ... logger.Panic, in a deferred call that nobody recovers from, ...
TriggerRestartPanics(r) ==
    /\ At(r, "ended")
    /\ pods[runner[r].pod] # NULL
    /\ EndStateOf(runner[r].pod) = NULL
    /\ crashed' = TRUE
    /\ UNCHANGED <<seen, queue, pods, status, runner>>

\* ... and, in another goroutine, after a delay, makes a new runner for the pod
\* of that name, with the context of the old one.
CanRestart(r) ==
    /\ At(r, "restarting") \/ At(r, "delayed")
    /\ UNCHANGED <<seen, queue, crashed>>

CancelRestart(r) ==
    /\ CanRestart(r)
    /\ \/ At(r, "delayed") /\ status[runner[r].ctx].cancelled
       \/ pods[runner[r].pod] # NULL => EndStateOf(runner[r].pod) = NULL
    /\ runner' = [runner EXCEPT ![r] = NULL]
    /\ UNCHANGED <<pods, status>>

\* Mutant: does not look whether somebody else has restarted the runner.
RestartAgain(r) ==
    /\ CanRestart(r)
    /\ pods[runner[r].pod] # NULL
    /\ \E new \in FreeRunners :
          LET p == runner[r].pod
          IN  /\ runner' = [runner EXCEPT ![r] = NULL,
                                          ![new] = NewRunner(p, pods[p].status, runner[r].ctx)]
              /\ status' = [status EXCEPT ![pods[p].status].endState = NULL]
              /\ pods' = [pods EXCEPT ![p].runner = new]

Restart(r) ==
    /\ CanRestart(r)
    /\ pods[runner[r].pod] # NULL
    /\ EndStateOf(runner[r].pod) # NULL
    /\ \E new \in FreeRunners :
          LET p == runner[r].pod
          IN  /\ runner' = [runner EXCEPT ![r] = NULL,
                                          ![new] = NewRunner(p, pods[p].status, runner[r].ctx)]
              /\ status' = [status EXCEPT ![pods[p].status].endState = NULL]
              /\ pods' = [pods EXCEPT ![p].runner = new]

\* External: the agent's container is restarted, and lists the VMs.
AgentRestarts ==
    /\ crashed
    /\ seen' = NULL
    /\ queue' = <<>>
    /\ pods' = [p \in Pods |-> NULL]
    /\ status' = [s \in Statuses |-> NULL]
    /\ runner' = [r \in Runners |-> NULL]
    /\ crashed' = FALSE

RunnerStep(r) ==
    \/ RunBegins(r) \/ RunWaits(r) \/ UpdaterReceives(r) \/ UpdaterUpdates(r)
    \/ WorkerPanics(r) \/ RunIsCancelled(r)
    \/ NoRestart(r) \/ TriggerRestart(r) \/ TriggerRestartPanics(r)
    \/ CancelRestart(r) \/ Restart(r)

Next ==
    \/ WatchVM \/ HandleEvent \/ AgentRestarts
    \/ \E r \in Runners : RunnerStep(r) \/ WorkerPanicsEarly(r)

Spec == Init /\ [][Next]_vars

\* Goroutines are scheduled, that of a runner and that of its worker too, delays pass, and the container
\* is restarted.  Nothing has to panic.
Goroutine(r) ==
    \/ RunBegins(r) \/ RunWaits(r) \/ RunIsCancelled(r)
    \/ NoRestart(r) \/ TriggerRestart(r) \/ TriggerRestartPanics(r)
    \/ CancelRestart(r) \/ Restart(r)

Fairness ==
    /\ WF_vars(HandleEvent)
    /\ WF_vars(AgentRestarts)
    /\ \A r \in Runners : WF_vars(Goroutine(r)) /\ WF_vars(UpdaterReceives(r) \/ UpdaterUpdates(r))

FairSpec == Spec /\ Fairness

(***************************************************************************)
(* Properties                                                              *)
(***************************************************************************)
IsActive(r) == IsLive(r) /\ ~status[runner[r].ctx].cancelled

\* A runner that has not been told to stop is the one that the pod map has for its
\* pod: however events, panics and restarts interleave, a VM is not left with two
\* runners, nor with one that handleEvent cannot reach (globalstate.go:89-338).
OnlyMappedRunnersAct ==
    \A r \in Runners : IsActive(r) =>
        pods[runner[r].pod] = [status |-> runner[r].status, runner |-> r]

\* An update of the VM reaches its runner also if that is restarted meanwhile: what
\* the executor was last given is what the status says, or the worker is about to
\* read that, or a signal is pending on the channel that the runner listens to, or
\* the worker was lost (globalstate.go:130 and 326, runner.go:260).
NoLostVmInfo ==
    \A r \in Runners : IsActive(r) /\ runner[r].pc # "spawned" =>
        \/ runner[r].info = status[runner[r].status].info
        \/ runner[r].signal
        \/ runner[r].updater # "receives"

\* A runner that has lost its updater to an early panic (runner.go:458).
IsDeaf(r) == IsActive(r) /\ runner[r].updater = "lost"

\* Nobody has restarted a pod with the context of an earlier pod of its name, which is cancelled
\* and ends the runner for good (globalstate.go:334).
ContextsFit == \A r \in Runners : runner[r] # NULL => runner[r].ctx = runner[r].status

\* The VM's spec can be read: else its event is lost, and one that comes later is unexpected
\* (watch.go:97, globalstate.go:107).
IsReadable == seen = NULL \/ seen.info \notin BadInfos

\* A VM that stays ours, in the same pod and with the same spec, has again and again an active runner
\* that acts on this spec, whatever panics, is delayed and is restarted, unless the runner is deaf,
\* contexts have been mixed up, or events have been lost (globalstate.go:202-338, runner.go:260).
VmIsServed ==
    [](ContextsFit /\ IsReadable) =>
        \A vm \in [pod : Pods, info : Infos \ BadInfos] :
            <>[](seen = vm) =>
                []<>(\E r \in Runners : /\ IsActive(r)
                                        /\ runner[r].pc = "running"
                                        /\ runner[r].pod = vm.pod
                                        /\ runner[r].info = vm.info \/ IsDeaf(r))
=============================================================================
