# A TLA+ model of Neon autoscaling

This directory holds a formal model of the autoscaling system in this repository:
TLA+ modules translated from the Go source, TLC configurations that check them on
small instances, and proofs, checked by TLAPS, of what holds for every instance.
`PROJECT.json` is the machine-readable index: which definition models which lines,
what each run checks, which hazards each property is aimed at, and for each property
a mutation of the model (a plausible bug) that violates it.

Sections: 1 the system, 2 modules, 3 specifications and fairness, 4 runs,
5 proofs, 6 what the models reach and no property excludes, 7 what is not modelled.

---

## 1. The system

### 1.1 Parts

| Part | Where | State it owns | Modules |
|---|---|---|---|
| Resource arithmetic | `pkg/api/types.go` | none | `Resources` |
| Scaling decision, `core.State` | `pkg/agent/core` | per VM: bounds and usage, metrics, the dialogue with each of plugin, NeonVM and vm-monitor | `AgentCore` |
| Executor and runner | `pkg/agent/executor`, `runner.go`, `execbridge.go` | cached actions and their id, a broadcast, five threads, the vm-monitor generation | `AgentExecutor` |
| Life cycle of runners | `pkg/agent/globalstate.go`, `watch.go`, `entrypoint.go` | pod map, statuses, event queue | `AgentLifecycle` |
| vm-monitor dispatcher | `pkg/agent/dispatcher.go` | message ids, waiters, health, exit | `Dispatcher` |
| Scheduler tracking | `pkg/agent/schedwatch` | the ready schedulers and the one in use | `SchedTracker` |
| Billing, event reporting | `pkg/agent/billing`, `pkg/reporting` | time slices, batches, the sender | `Billing`, `EventSink` |
| Plugin: queue | `pkg/plugin/reconcile`, `initevents`, `pkg/util/queue` | queued, pending and ongoing values per object, back-off | `WorkQueue` (what it promises), `ReconcileQueue` |
| Plugin: state, handlers, requests | `pkg/plugin/state`, `handle_*.go`, `run.go`, `migration.go`, `framework_methods.go` | nodes, their pods and sums, tentative placements | `NodeState`, `Plugin` |
| Watch store | `pkg/util/watch` | objects, index, relists, listeners | `WatchStore` |
| VM controller | `pkg/neonvm/controllers/vm_controller*.go` | VM phase, runner pod, resources | `VmRunner`, `VmController` |
| Migration controller | `vmmigration_controller.go` | migration phase, source, target | `VmMigration` |
| Certificates | `certs.go` | temporary key, request, secret | `VmCerts` |
| Failure tracking | `controllers/failurelag` | failing objects, queued events | `FailureLag` |
| Overlay addresses | `pkg/neonvm/ipam` | pools by range | `Ipam` |
| Runner, QMP, CPU hotplug | `neonvm-runner`, `vm_qmp_queries.go`, `pkg/neonvm/cpuscaling`, `neonvm-daemon` | one QEMU process and its guest | `VmRunner` (as the controllers see it) |
| VXLAN controller | `neonvm-vxlan-controller` | links, forwarding entries, rules of a node | `Vxlan` |
| Configuration, metrics, serialisation, image builder, generated code | see section 7 | | not modelled |

### 1.2 Interactions

```
   metrics, LFC metrics      VM object (watch)        vm-monitor (websocket)
            \                     |                    ^  requests, answers
             v                    v                    v
        +--------------- autoscaler-agent, per VM --------------+
        |  core.State  <-- one lock -->  executor threads        |
        +---------|--------------------------|-------------------+
         resources, permit (HTTP)      patch of the VM spec
                  v                          v
        scheduler plugin  <-- watch --  Kubernetes API  --> NeonVM controllers
        (node sums, reservations)                           (runner pod, QMP)
```

An upscale goes agent → plugin (permit) → NeonVM (patch) → vm-monitor (told of it);
a downscale goes the other way round: vm-monitor (asked) → NeonVM → plugin. All three
dialogues run concurrently in threads of their own, and each reads what the others
have achieved from `core.State`.

The plugin does not answer a request by itself: it writes it to annotations of the VM,
the VM controller copies those to the pod, the watch tells the plugin's queue, a handler
reserves what fits, writes the approval back, the controller copies that, and the request
that has been waiting finds it. The VM controller turns the patched spec into calls of
QEMU, of the runner and of the guest's daemon. A migration has a controller of its own,
which shares the VM's status and its cache with the VM controller.

### 1.3 What is hard in it

* *Optimistic locking.* A thread takes a recommendation under the lock and starts it
  under the lock later. In between the state changes; an id decides whether the
  recommendation still counts (`executor/core.go:132`).
* *Broadcasts and deadlines.* Threads, the queue's notifier and listeners of the watch
  store mark an update as seen and then read; what falls in between must not be slept
  through.
* *Late answers.* A vm-monitor call returns after it timed out, after the connection was
  replaced, or after a panic restarted the runner.
* *Three dialogues, one resource.* The permit bounds the usage from above, what the
  vm-monitor approved bounds it from below, and each of the three moves while the
  others are in flight.
* *Names that come back.* Goroutines, addresses and the index of the store outlive an
  object and look it up by name: they may find its successor.
* *Events that are merged or skipped.* The queue merges what comes while an object is
  handled; relists skip versions; both must lead to the same end.
* *Writes that fail in between.* Controllers stop between two API calls, work from copies
  that lag behind their own writes, and calls fail that were executed all the same.
* *Restarts.* The plugin learns reservations from annotations; a runner starts over with
  no memory; a controller finds what its predecessor left half done.

`PROJECT.json` lists these as hazards at the line where they bite.

## 2. Modules

Each module keeps all control of the code it models and abstracts its data. Calls to the
Kubernetes API, to other processes and to the kernel succeed, fail, or fail having been
executed. Bounds on the environment are constants named `Max…` or budgets (`left`).

### 2.1 Scaling: `Resources`, `AgentCore`

| Variable | Code |
|---|---|
| `vm` | `state.VM`: usage, bounds, whether LFC metrics are enabled |
| `metrics` | the goal (compute units) that `state.Metrics` and `state.LFCMetrics` lead to |
| `plugin` | `pluginState`: ongoing request, last request, permit |
| `monitor` | `monitorState`: ongoing request, requested upscale, denied downscale, approved |
| `neonvm` | `neonvmState.OngoingRequested` |
| `timers` | the time stamps, see below |

`NextActions` is `nextActions`; each `calculate…Action` is an operator for the action
and one for its wait. The panics inside the calculation are `PanicReasons`. Handlers
(`PluginStartingRequest`, `DownscaleRequestDenied`, …) are actions on these variables
with the names of the source.

*Time.* The code stores when something happened and compares `now` with it. The model
keeps only the outcome: a stored time is in `timers` while its waiting period lasts (or,
for a requested upscale and a denied downscale, the record itself is kept while it
counts). Periods pass in any order, at any moment: every interleaving of deadlines is
included, and no duration is assumed.

*Metrics.* The formulas (load average, memory, working set size) are floating point and
stateless. Their result is the input; what is kept is which metrics must be present,
that goals are combined by maximum, rounding to compute units, the bounds.

### 2.2 `AgentExecutor`

Each action is one critical section of the executor's lock. Numbers that are only
compared are kept as the outcome of the comparison, which makes the state space finite
with no bound on them: `upToDate` (threads whose action id is the last one),
`sameGeneration` (vm-monitor threads whose handle is current), `notified` (receivers with
an unseen broadcast).

* Request threads (`plugin`, `neonvm`, `upscale`, `downscale`): `Wake` (see the update,
  take the own action) → `Start…Request` if still up to date, else `Retry` → one action per
  result. A result for an old generation changes nothing but still is an update.
* Sleeper: `SleeperWakes`, `SleeperInterrupted`, `SleeperFires`, `SleeperRefreshes`.
* Feeding loops: `VmInfoUpdated`, `SystemMetricsUpdated`, `FetchLFCMetrics` and
  `LFCMetricsUpdated` (the request is in flight in between), `MonitorConnected`,
  `MonitorSetActive`, `MonitorConnectionReset`, `UpscaleRequestReceived(Early)`.
* Panics end all threads; `RestartAfterPanic` is the new runner, which knows only the VM
  object. A patch in flight may or may not have been applied.

`Wake` joins `updates.Awake()` and `getActions()`. An update that falls between the two
leaves the thread with the newer actions and a broadcast still to see; that is the state
after the update and then `Wake`, except for the broadcast, which the thread looks at
when it next waits: it finds nothing new.

*The scheduler's answers* (`PluginMayAnswer`). `handleAgentRequest` grants at once what is
within the last permit that the agent sends along; otherwise it answers with what is set
aside for the pod by then, which may be more than was asked for (the agent checks that and
fails the request, `PermitIsInvalid`). One thing is assumed: nothing less is answered than what
was permitted and is still asked for. That is so as long as the plugin sets aside what the
agent was last permitted, which ends when the answer to a request for less is lost
(`state.go:1094`, section 6).

*External.* NeonVM applies a patch or not. The vm-monitor approves, denies, fails, disconnects,
and asks for upscales.

### 2.3 `AgentLifecycle`

| Variable | Code |
|---|---|
| `seen` | the VM in the watch store, if `vmIsOurResponsibility` |
| `queue` | `vmEventQueue` |
| `pods` | `agentState.pods`: for each name the status and the runner |
| `status` | `lockedPodStatus`: VM info and end state, and whether its context was cancelled |
| `runner` | each `Runner` and the goroutine of `Spawn`, then that of the restart |
| `crashed` | the process has died of a panic that nobody recovers |

One VM, since VMs share nothing but the lock; several pods, since a VM moves between
them and a name can come back. Addresses of statuses and runners are constants that are
taken when free and free again once nothing refers to them.

* `WatchVM`: the three handlers of `startVMWatcher` and `makeVMEvent`. A version that
  cannot be read (`BadInfos`) gives no event, a relist (`MayRelist`) may skip the phase in
  which a VM between two pods is not ours.
* `HandleUnexpected`, `HandleDeleted`, `HandleUpdated`, `HandleVMEventAdded`: `handleEvent`.
* `RunBegins`, `RunWaits`: `Run` before and at its `select`; a worker's panic in between is
  lost (`WorkerPanicsEarly`), later it ends `Run` (`WorkerPanics`).
* `UpdaterReceives`, `UpdaterUpdates`: the worker that hands VM infos to the executor. It
  reads the info under the status's lock, and nobody else gives the executor one, so
  that reading and handing over are one step.
* `NoRestart`, `TriggerRestart`, `TriggerRestartPanics`, then `CancelRestart` or `Restart`:
  `TriggerRestartIfNecessary`. It looks the status up under one lock and reads it under
  another; what falls in between could as well come before both or after both.

What happens inside a live runner is `AgentExecutor`, in which `RestartAfterPanic` stands
for the way through this module from `WorkerPanics` to `RunBegins`.

### 2.4 The plugin's queue: `WorkQueue`, `ReconcileQueue`

`WorkQueue` is what handlers may rely on: per object, a change that waits (`dirty`) and one
that is handled (`busy`); `Enqueue` merges into what waits, `Take`, `Finish`, `Retry`, and
`Restart` of the process. `Plugin` is built on it.

`ReconcileQueue` is the code: the maps `queued`, `pending` and `ongoing`, the heap (here
`queue`, the keys in the order of their times), `handleNotifications` between looking at the
heap and waiting for its timer or a broadcast (`notifier`, `awake`), the wake-ups that workers
compete for (`woken`), the callbacks (`calls`), and around them the middlewares: back-off and
the count of failing objects (`backoff`, `failing`), recovered panics (a failure), and the
initial events (`remaining`) that hold back the start of the plugin (`startup`; when it times
out the process ends and another one starts). `Merge` of kinds that must not meet is a crash.
Time is relative: each value has the units left until it is due.

The refinement mapping (`dirtyChange`, `busyChange`) reads what waits from `queued` or
`pending` and what is handled from `calls`.

### 2.5 `NodeState`, `Plugin`

`NodeState` has the operations of `state/node.go` and `state/pod.go` as operators on a node
record: adding, removing and updating a pod keeps the sums of reserved, committed and
migrating resources by differences; `ReconcilePodReserved` is what fits; `MigrationTargets`
are the pods to move above the watermark. `Speculatively` needs nothing: an operator returns
the new node and the caller keeps it or not.

`Plugin` composes this with the watches, the API server, the VM and migration controllers as
far as the plugin sees them, and agents that ask for resources. An action is one critical
section of `PluginState.mu`, or one API call between two of them (`after` is what a handler
has still to do): `updatePod`, `deletePod`, `patchReservedResourcesForPod`,
`createMigrationForPod`, `deleteMigrationIfNeeded`, `updateNode`, `deleteNode`; `Filter`,
`Reserve`, `Unreserve`; `handleAgentRequest` with its patch, its wait and its timeout;
`CompleteStartup` and `Restart`. Annotations are written to the VM (`vm`) and get to the pod
(`podObj`) by `ControllerCopies`. The watch is up to date here; what it does is `WatchStore`.

The migration controller is here as far as it changes pods. `MigrationBegins` makes the migration
an owner of its source pod, which is what the plugin calls migrating. `MigrationSucceeds` turns the
VM to its target, so that the annotations of the source are not kept up to date any more (`moved`);
the source is deleted by a later reconcile (`DeleteSourceRunner`), unless the plugin has deleted
the migration before, in which case it is left over. `MigrationFails` only sets the
migration's phase: the source counts as migrating until the plugin has deleted the migration and
the garbage collector has dropped the reference (`OwnerIsCollected`). A node may go away
under its pods (`NodeDeleted`); one of the same name does not come back.

### 2.6 `WatchStore`

`log` is the API server: its changes, whose positions are resource versions. The goroutine of
`Watch` is `pc`: the deferred adds of the first list, the loop over events (`handleEvent`,
`Bookmark`, `ErrorEvent`), the end of a watch (`WatcherEnds`), a relist (`RelistTriggered`,
`ListSucceeds`/`ListFails`, `ApplyRelist` with the update of objects, index and broadcasters),
and the next `Watch`. `call` follows each caller of `Relist` from the channel it got to its
closing. `receiver` is someone who listens to an object. Two UIDs share a name.

### 2.7 Controllers: `VmRunner`, `VmController`, `VmMigration`

`VmRunner` is one runner pod and what can be asked of it: its HTTP server (CPU limits), QMP
(CPU slots, memory, migration) and the guest's daemon (CPU hotplug by sysfs), each as an
operator on the pod. `VmController` is `Reconcile` of a VM in all its phases,
`VmMigration` that of a migration with its finalizer, composed with the former.

A reconcile reads a copy (`cvm`, `cmig`) that may lag, and is one step in which the first `n`
of its calls succeed and the next one, if any, fails: so it may stop anywhere, by an error or
with the process. This is enough, since a write with an outdated copy is refused: what others
do between a read and a write is done before the reconcile, while the copy lags. Calls whose
errors are only logged are apart (`soft`); without `soft` the guest may also refuse to give a CPU
back, which QMP does not report (`QmpUnplugCpu`). The cache has all migrations as of one moment
(`MigrationsSynced`), since they come over one watch. The environment changes the spec, deletes the VM or
the migration, makes runners fail or vanish and breaks off streams; how often, and with which
configuration, is a *world* (`config` and the budgets `left`), chosen in the initial state.

### 2.8 Services

Components that share no state with the others; `MCServices` puts all of them side by side.
`Nil`, which two of them extend, is Go's `nil`.

* `Ipam`: pools by range, workers that acquire for a new VM and release in its finalizer,
  `mu`, retries per range, writes that are refused when outdated, a crash whose last update
  still arrives (`late`). A later write of a pool waits for it: this is an assumption, that a
  request which the process sent before it died is not overtaken by one that its successor sends
  after it has started and read the pools. Without it a late release could take an address that
  the next VM of the name has found reserved: a write that changes nothing makes no other outdated.
* `Dispatcher`: `Call` from taking an id and registering a waiter to leaving, `run` reading
  messages, health checks, `exit`. Ids are only compared, so that an id is used again once it
  is nowhere in use. The type of a message decides about its handler; an answer of any type goes
  to the waiter of its id. A monitor may fall silent for good.
* `EventSink`, `Billing`: batcher and sender of one client; the collector with its slices,
  windows, rounding, and its events through the sink.
* `VmCerts`: the three objects of a VM's certificate over renewals, with a cache that lags. A
  certificate may become due at any moment, since `.spec.tls` may be changed; that `renewBefore`
  is made smaller, and a certificate which was due is not due any more, is left out.
* `FailureLag`: the two trackers of a controller and what a reconcile tells them. Each of the two
  sets of degraded objects is read under the lock by itself; `Refresh` is one such reading.
* `SchedTracker`: the handlers of the watch of scheduler pods over a store that may skip
  versions and, for a pod that is gone, may show any status it could have had.
* `Vxlan`: links, entries and rules of one node, step by step, with errors that end the
  program, its restart, and the teardown (which runs while no other instance does).

Beside some definitions stands a variant that nothing uses (for instance `updateTlsUnsaved`
before `updateTlsSecret`): these are the mutations that `PROJECT.json` refers to.

## 3. Specifications and fairness

Every module has a `Next` with all its actions and no fairness; properties about reachable
states and steps are checked of that, or hold of it a fortiori where a run uses a fair
specification. What is assumed besides for progress, and why the code justifies it:

| Specification | Assumed |
|---|---|
| `AgentExecutor!PromptSpec` | what comes from outside waits until the threads have seen the previous update: they need microseconds, outside events are milliseconds to seconds apart |
| `AgentExecutor!FairSpec` | besides, threads are scheduled, calls return (each has a context timeout), time passes, connecting is retried for ever, panicked runners are restarted |
| `AgentExecutor!CooperativeSpec` | besides, metrics keep coming, and scheduler and vm-monitor do not refuse the same request for ever; this is about the cluster, and without it nothing could be said |
| `AgentLifecycle!FairSpec` | goroutines are scheduled, each runner's and its worker's, the delay before a restart passes, the container is restarted after a crash. Nothing is assumed of how long any of them takes |
| `ReconcileQueue!FairSpec` | notifier and workers are scheduled, handlers return (their API calls have timeouts), time passes, the initial list is completed. Handlers need not succeed |
| `Plugin!FairSpec` | workers, handlers with their API calls and the VM controller go on; strong fairness of a patch that is tried again and again. Nothing of agents, of the scheduler or of who creates pods |
| `Plugin!FairSchedulingSpec` | besides, a migration that is created again and again is created some time, one that is over is deleted, the garbage collector drops its reference, and the scheduler ends what it has begun |
| `WatchStore!FairSpec` | the goroutine goes on; an open watch delivers, even if watches end again and again, and `select` takes any case that stays ready (strong fairness) |
| `VmMigration!FairSpec` | objects are reconciled again and again (a VM at the latest after 15 seconds) and not always with an error (strong fairness), caches catch up, pods start and go, guests boot and follow QEMU, a stream ends |
| `MCServices!FairSpec` | goroutines and timers of `Dispatcher` and of the sink go on (nothing is owed by the monitor); a VM is reconciled again and again, caches follow and cert-manager answers; the VXLAN program is started again |

Where a fair step disables itself, its weak fairness is written as `[]<>` of the negation
of its guard, which is the same and which TLC evaluates faster.

`CHECK_DEADLOCK FALSE` is set for `Plugin*`, `ReconcileQueue`, `WatchStore`, `Controllers*` and
`Services`, where a behaviour ends once the environment has used up its bounds and all is
handled. The agent's runs check deadlock.

## 4. Runs

| Run | Specification | Checks | Shows |
|---|---|---|---|
| `AgentMonitor` | `Spec` | `TypeOK`, `RequestsMatchCalls`, `NoLostWakeup` | with a vm-monitor that asks for upscales, denies downscales or fails on them, over connections that are lost and replaced with calls in flight, each call is the one on record and nobody sleeps through a recommendation |
| `AgentFailures` | `Spec` | `CalculationsAreSound`, `UpscalesWithinPermit` | with failing NeonVM and upscale requests, bounds that are no multiples of a compute unit and change, and LFC metrics that come and go, the checks inside the calculation hold and nothing above the permit is requested |
| `AgentScales` | `CooperativeSpec` | `ScalesToGoal` | once the goal is stable, it is reached and kept |
| `Lifecycle` | `FairSpec` | `OnlyMappedRunnersAct`, `NoLostVmInfo`, `VmIsServed` | only the runner in the pod map goes on, it hears of every update, and a VM that stays ours has, again and again, a runner that acts on its latest info, with the exemptions of 4.3 |
| `ReconcileQueue` | `FairSpec` | `NeverPanics`, `FailingIsRetried`, `StartupIsComplete`, `ImplementsWorkQueue` | no kinds meet that cannot be merged, failed objects are retried and counted, the plugin is not ready early, and the queue implements `WorkQueue!FairSpec` |
| `PluginRequests` | `FairSpec` | `SettledStateIsSound`, `GrantsWhatFits` | requests, handlers, failing patches and copied annotations interleave: what is set aside covers what is approved, and what fits is granted, also when room is made later |
| `PluginScheduling` | `FairSchedulingSpec` | `NeverPanics`, `SumsMatch`, `SettledStateIsSound`, `PressureIsRelieved` | a pod is scheduled, bound, unreserved and deleted while another is migrated, and the plugin restarts, or migrations fail, or they succeed, or the node goes away: sums are those of the pods, no pod is lost or left, and pressure leads to a migration |
| `WatchStore` | `FairSpec` | `StoreIsSnapshot`, `IndexAgrees`, `RelistIsFresh`, `NoMissedBroadcast`, `CatchesUp`, `RelistCompletes` | store and index are a snapshot of the server, relists answer with what is no older than their call, listeners miss nothing, and the store catches up |
| `Controllers` | `FairSpec` | `OneGuest`, `GuestIsTracked`, `Settles` | in ten worlds (4.1) with at most one migration: never two guests, none that nobody knows of, and in the end the VM is as specified |
| `Services` | `FairSpec` | ten properties, below | one question or two about each service |
| `ControllersFinalizer` | `Spec` | `DeletedMigrationFreesVM` | *violated*: see 4.2 |
| `ControllersTwoMigrations` | `Spec` | `NoScalingWhileMigrating` | *violated*: see 4.2 |

The properties of `Services`: an address in a VM's status is reserved for it
(`AddressesAreOwned`); a call returns the answer to its own message and leaves no waiter
(`AnswersMatchCalls`), and a silent monitor is dropped (`SilentMonitorIsDropped`); every sample
is billed once (`SamplesAreBilledOnce`), and events are received unless a push fails
(`EventsAreSent`); key and certificate belong together (`KeyMatchesCert`), and a VM gets its
certificates (`VmGetsCertificates`); a tracker reports exactly what fails
(`DegradedIsExact`); the newest ready scheduler is used (`NewestReadyIsUsed`); the overlay forms
(`OverlayForms`).

### 4.1 Bounds

*Scaling.* One compute unit is 1 CPU and 2 units of memory, VMs are between one and two
compute units, so that there is one step up and one down, and a second step that is not
possible. Which failures, deadlines and connection losses may happen differs from run to run
(`MayFail`, `MayExpire`, `MayDisconnect`, `MayRequest`): all at once is too much for TLC. In
`AgentFailures` the VM starts with one and a half compute units of memory, which is the smaller
of the two maxima that its bounds change between: whenever they shrink, the way down ends at an
amount that is no multiple of the unit, and the request to the scheduler for less is under way
while the bounds grow again, which is when `ConflictingPluginRequest` has to hold NeonVM back.
The theorems of 5.1 have no such bounds.

*Life cycle.* Two pods, two infos (and one that cannot be read), two statuses (one that is
left over and one that is new) and three runners: one that has ended, one that was added
under the same name, and the one that a restart makes. One event in the queue is enough,
since events are handled in order and `WatchVM` does not depend on the rest. The VM takes one of
three courses: it comes, is updated and goes, again and again; its spec cannot be read at times;
it moves between two pods. Relists that skip a phase (`MayRelist`) are not in this run: with them
an event is missing and `VmIsServed` does not hold (section 6). The theorems of 5.2 include them.

*Queue.* Two objects: one that comes, changes and goes, and one that is there at first, is
requeued and goes; two workers, so that one object can be handled while the other is taken;
waits of one unit, so that deadlines and events overtake each other.

*Plugin.* One node. `PluginRequests`: a VM that asks for one or two units and a pod that leaves
no room for the second one and may be deleted. `PluginScheduling`: a VM that can be migrated
and one that is scheduled later, both together above the watermark. It takes one of four `Courses`:
one restart; migrations that fail; migrations that succeed, where the scheduled pod stays; the node
goes away. With one node, that a pod is on no other node (`SettledStateIsSound`) is not put to
the test, and the pods never change their node.

*Watch store.* Two UIDs of one name, three changes and one failed call: a delete and a
re-creation within a relist. A failed `List` is retried, a failed `Watch` ends the store.

*Controllers.* Three specs: CPU and memory up, CPU down to a fraction, memory down. Three pod
names: a runner, the one after it, the target of a migration. Ten worlds: the VM alone with
changes, failures and errors, under both modes of CPU scaling and with and without
`AtMostOnePod`; a runner that vanishes; migrations where all goes well, where calls fail, where
the spec changes, where a runner fails, and where the VM is deleted.

*Services.* A disjoint union: the variable `which`, chosen at first, says which service runs, and
the others stay in their first state, so that the states add up and do not multiply. Two VMs,
one of which comes again under its name, two ranges, two faults; one message of the monitor
outstanding; samples at four times with a gap and changes of size, batches that end amid a
window, one failed push; three certificates, two faults; five units of time, a period of two;
two scheduler pods, three changes; two IPv4 nodes and an IPv6 one, two changes, one error, one
teardown.

### 4.2 The findings

Two runs expect a violation, both of the migration controller.

*`ControllersFinalizer`.* The finalizer of a migration undoes what the migration has done only if the
copy of the migration says `Running` or the copy of the VM says `PreMigrating`. Neither holds
when the migration is deleted right after its VM was put into `PreMigrating` and the VM's copy is
still old; nor when it is deleted just before its stream is started, so that its update to
`Running` is refused and it is still `Pending` while the VM is `Migrating`, even with current
copies. The finalizer is then removed without any of it, and the VM stays in a phase that only a
migration would end. A comment at that place says "migration being deleted and VM should have
status Running" (`vmmigration_controller.go:620`).

*`ControllersTwoMigrations`.* The phase of a VM does not say for which migration it is `Migrating`. A
migration that has `Succeeded` or `Failed` and is reconciled again puts any VM that is
`Migrating` back to `Running` (lines 542 and 575). If another migration of that VM is streaming
the guest, the VM controller then scales it. The VM's phase is changed for a migration because
of the "need change VM status asap to prevent autoscaler change CPU/RAM in VM" (line 248). With
one migration the property holds in all worlds of `Controllers`.

### 4.3 Exemptions

Some properties say where they stop, because the code does:

* `EventsAreSent`: until a push fails. A failed batch stays in the queue without a
  notification, and is tried again when more events come.
* `VmGetsCertificates`: unless the request of the last renewal was left over until the next
  one (`Leftover`).
* `OverlayForms`: unless a start failed between adding a link and setting it up (`HalfMade`).
* `VmIsServed`: as long as no restart has taken the context of an earlier pod of the name
  (`ContextsFit`; `globalstate.go:334`: that context is cancelled, and the new pod loses its runner
  for good) and every version of the spec could be read (`IsReadable`). A runner whose updater
  panicked before `Run` listened (`IsDeaf`, `runner.go:458`) counts as serving, though it hears of no
  update any more. All three happen in the run; the property says nothing of what follows.
* `KeyMatchesCert`: as long as no certificate was due again before the deletion of the last
  one's temporary objects was seen (`dueEarly`). Then a request is made for the deleted key, a new
  key is made besides, and the certificate of one is stored with the other.
* `NoScalingWhileMigrating`: of migrations that are `Running` and not being deleted.
* `Settles`: of worlds in which nobody deletes anything and migrations meet no failure (`Calm`).
* `PressureIsRelieved`: a source pod that its migration has left over (2.5) may be migrated once
  more, which moves nothing; the property counts that as relief, as the plugin does.
* `DegradedIsExact`: of each set by itself. `DegradedCount` and `Degraded` read two sets one after the
  other (`tracker.go:121`, `141`), and an object that moves meanwhile is counted twice or not at all.
* `StoreIsSnapshot` and `IndexAgrees`: from the end of the deferred adds on.

## 5. Proofs

What the theorems state is checked with TLC first, as were the inductive invariants.

### 5.1 Scaling

For every compute unit, set of bounds, goals, permits, and with every failure, deadline
and disconnection allowed. Assumptions: `ComputeUnitAssumption` (no zero unit),
`InputsAssumption` (inputs have their types, and a VM's minimum is not above its maximum, as
`pkg/api/vminfo.go:272` requires), `NullAssumption` (`NULL` is none of the
values it is used beside).

| Theorem | Statement |
|---|---|
| `AgentExecutorProofs!InvIsInvariant` | `Spec => []Inv` |
| `AgentExecutorProofs!TypeCorrect` | `Spec => []TypeOK` |
| `AgentExecutorProofs!CallsAlwaysMatch` | `Spec => []RequestsMatchCalls` |
| `AgentExecutorProofs!WakeupsAreNotLost` | `Spec => []NoLostWakeup` |
| `AgentDecisionProofs!RequestsStayWithinPermit` | `Spec => UpscalesWithinPermit` |
| `AgentDecisionProofs!DirectionsAreSound` | `Spec => []` (no check on what is desired or on a direction fails) |
| `AgentDecisionProofs!CalculationsAreSoundHolds` | `~MayDisconnect` implies `Spec => []CalculationsAreSound` |

**The invariant of the executor** (`AgentExecutorProofs!Inv`). Types are not inductive by
themselves: the handler for an answer reads the ongoing request, so there must be one.
That is `CallsMatch`. It in turn needs that a thread that starts a vm-monitor request
finds none ongoing although it was recommended under an earlier lock:
`MonitorActionsExclusive` says that of the cached actions and of what threads hold and may
still start, at most one is for the vm-monitor, and none is while a request is ongoing.
`ConnectionState` ties what is approved to the connection, and `UpdatesAreSeen` says who
has a broadcast left to see when actions are calculated next. Each part has a lemma with
one step per action (`TypeStep`, `ThreadStatesStep`, `CallsMatchStep`, `ConnectionStep`,
`ExclusiveStep`, `SeenStep`). The lemmas on what the calculations return stand before them.

**The permit** (`AgentDecisionProofs!PermitInv`). `nextActions` compares the target with the
permit when it calculates; the request starts later, and a lower permit may have arrived.
The invariant carries along that the target is within the permit *and* within what the
scheduler is being asked for, by a request that is ongoing or that may still be started
(`ConflictingPluginRequest` in the code). As the scheduler takes back only what it is no
longer asked for (`AnswerCoversTarget`), its answer covers the target still. The usage
cannot change in between, since only the same thread changes it.

**The calculations** (`AgentDecisionProofs!BoundsAreOrdered`, `DenialIsKept`, `RequestsFit`). That
what is desired is within the bounds, and that vm-monitor requests go in the direction they
are named for, follows from the order of the bounds, in any connection. That a downscale
that was denied is not asked for again needs that what was approved stays above what was
denied while the denial counts; requests move what is approved, so those that are cached,
held or ongoing have to keep it there, also when they were calculated before the denial.
The theorem is about the time until the first reconnection (`~MayDisconnect`), because beyond
it the property does not hold. A downscale that was recommended on the old connection may be
started on the new one, where no more than its target is approved; its denial then keeps
nothing up, and after an upscale and a lower maximum the same downscale is recommended while
the denial counts, which the check of `state.go:689` panics about. TLC follows such a behaviour of 35
steps. The comment there says "In general though, this should be handled by
DesiredResourcesFromMetricsOrRequestedUpscaling" (`state.go:687`).

### 5.2 Life cycle

For any sets of pods, infos, statuses and runners and any length of the queue, with
relists and infos that cannot be read. Assumptions: `LifecycleAssumption` and that `NULL`
is no record (`NullAssumption`).

| Theorem (of `AgentLifecycleProofs`) | Statement |
|---|---|
| `InvIsInvariant` | `Spec => []Inv` |
| `TypeCorrect` | `Spec => []TypeOK` |
| `OnlyOneRunnerPerPod` | `Spec => []OnlyMappedRunnersAct` |
| `UpdatesReachRunners` | `Spec => []NoLostVmInfo` |

`Restart` joins the status that the pod map has *now* with the context that the old runner
was given *then*. `ContextsAreMapped` says that a context that is still good is the one of
the pod in the map, so that the two belong together; `StatusesAreOwned` says that a status
with an end state has no live runner, so that the check in the restart goroutine is
enough; `OwnersAreMapped` and `StatusesAreDistinct` lead from a status back to the runner
and the pod in the map, which is where `handleEvent` sends the signal.

### 5.3 The queue

For any finite set of objects, any number of workers and versions, any waits.
Assumptions: `QueueAssumption` and `NullAssumption`.

| Theorem | Statement |
|---|---|
| `ReconcileQueueProofs!NoPanic` | `Spec => []NeverPanics` |
| `ReconcileQueueProofs!FailingIsRetriedHolds` | `Spec => []FailingIsRetried` |
| `ReconcileQueueProofs!StartupIsCompleteHolds` | `Spec => StartupIsComplete` |
| `ReconcileQueueProofs!QueueRefines` | `Spec => Abstract!Spec`: the queue implements the safety part of `WorkQueue` |

**The invariant** (`QueueInv`). `MapsInv`: the maps agree about each key (a key that waits in
`queued` is not ongoing, one in `pending` is, every call is, and no key has two). What each of
`Enqueue`, `finishAndMaybeRequeue` and `WorkerNext` does to the maps is a lemma, so that the
rest never opens them. `Kinds`: which kinds of events can wait
or be handled follows from what the watch has said of the object last; that nothing waits
for an object before it was seen needs `Woken`, that no worker runs while the plugin lists.
A pending value that is retried meets the newer one with a kind it can be merged with, which
is what `EventKind.Merge` panics about. `Failures` keeps an object with a back-off in the
queue or with a worker; `Count` says that `globalFailing` is the number of these, step by step
by the cardinality theorems. `Remaining`, for the start, says that what the initial list had
and nobody waits for any more has been handled.

**The refinement.** Every step of the queue is a step of `WorkQueue` on `dirtyChange` and
`busyChange`, or leaves both: `RefinesEnqueue`, `RefinesTake`, `RefinesFinish` (a finish or a
retry), the timeout of the start is `Restart`, and what notifier, timer and time do is
nothing there. The fairness of `WorkQueue` (what waits is taken) is checked by TLC only.

### 5.4 The watch store

For any objects, names and callers, any number of changes, relists and failures. Assumption:
`NullAssumption` (`NULL` is no version).

| Theorem (of `WatchStoreProofs`) | Statement |
|---|---|
| `StoreIsSnapshotHolds` | `Spec => []StoreIsSnapshot` |
| `IndexAgreesHolds` | `Spec => []IndexAgrees` |
| `RelistIsFreshHolds` | `Spec => []RelistIsFresh` |
| `NoMissedBroadcastHolds` | `Spec => []NoMissedBroadcast` |

What the server held at a resource version is defined by the latest change up to it. The
lemmas `PastStays`, `VersionStays` and `NextVersion` say how that changes when the log or the
version grows by one; that a set of positions has a latest one comes from the well-foundedness
of the naturals. The invariant (`StoreInv`) needs that the log is one that the API
server can have (`LogIsLegal`: an object comes once, and a name has one object at a time),
without which the index could not agree; that everything the store has or someone listens to
was there (`Known`); where the first list stands (`Loading`); and that a list that is about
to be applied is newer than the store and than every call it will answer (`Waiting`).

### 5.5 The VM controller

For any set of pod names, any worlds (both modes of CPU scaling, with and without
`AtMostOnePod`, any restart policy, any number of changes, failures, vanished pods and
deletions) and a failure after any call of any reconcile. Assumption: `WorldsAssumption`
(the budgets are numbers and `NULL` is no name of a pod).

| Theorem (of `VmControllerProofs`) | Statement |
|---|---|
| `OneGuestHolds` | `NoMigrations` implies `Spec => []OneGuest` |
| `GuestIsTrackedHolds` | `NoMigrations` implies `Spec => []GuestIsTracked` |

The controller creates a runner because its copy of the VM says that there is none, and the
copy may be old. `Owned`: a pod that is not being deleted (with `AtMostOnePod`, any pod) has the
name that the VM has on the server. `Lag`: a copy that says `Pending` and names a pod
names the one that the server has, because the name only changes in writes from a current
copy, and none that is `Pending` with a name; so creating that pod again is creating the
same one. From `Owned` both properties follow.

`NoMigrations` (no world has a budget for migrations) is there because with migrations the two
hold in the worlds of the run `Controllers` and not in all: section 6 says where they end.

### 5.6 Certificates and addresses

For any number of renewals, keys, faults and restarts (with the exemption of 4.3), and for any VMs, ranges of addresses,
calls at once, retries, faults and restarts. The assumptions, which the run `Services` evaluates,
are `NilAssumption`, and `RangesAssumption` (there is a range, as `ipam.go:119` requires,
addresses are numbers, and `NULL` is none of the values).

| Theorem | Statement |
|---|---|
| `VmCertsProofs!KeyMatchesCertHolds` | `CertsSpec => []KeyMatchesCert` |
| `IpamProofs!AddressesAreOwnedHolds` | `IpamSpec => []AddressesAreOwned` |

**Certificates** (`CertsInv`). The secret is put together from a key and a certificate of two other
objects, as the cache shows them. While a call may renew (`MayRenew`, `Renewing`) nothing is
deleted, so that there is one key and one request and what is cached is still there; the
request is for that key, unless it has served (`Served`), and then its certificate is the
one in the secret, which is not stored again. What the cache has is otherwise there or deleted
(`CacheIsRight`), so that all of this holds when a certificate becomes due with no deletion unseen.

**Addresses** (`IpamInv`). A release is by name and would take the address of any VM of that name.
`CacheIsRight` and `WorkerIsRight`: a copy that is being deleted is not of an earlier VM than the
one that runs, because a VM comes to run only by a write that has read it as it is, and
the cache had that version too. `RunIsRight`: what the call that holds the mutex is about to write
takes no address from others (`ChangesOwn`), as long as nobody has written the pool since it
was read. `LateIsRight`: nor does the update of a controller that has died; and no call succeeds
before it has arrived.

### 5.7 Only model-checked

Liveness (`ScalesToGoal`, `VmIsServed`, `GrantsWhatFits`, `PressureIsRelieved`, `CatchesUp`,
`RelistCompletes`, `Settles`, the fair part of `ImplementsWorkQueue`, and those of `Services`) is
out of the prover's reach. `SumsMatch` (a sum over the pods of a node), `SamplesAreBilledOnce`
(sums over slices) and `DegradedIsExact` (the order of a queue of events) rest on what a recursion
over data computes, for which there are no facts to cite here. `NeverPanics` and
`SettledStateIsSound` of `Plugin`, `AnswersMatchCalls` and `NewestReadyIsUsed` are checked on
the instances above and not proved; so are `OneGuest` and `GuestIsTracked` with migrations, and
`CalculationsAreSound` over reconnections, where the run `AgentFailures` has none.

## 6. What the models reach and no property excludes

These are behaviours of the code that are in the models, with what follows from them, and that
nobody in the code promises away. The most important are hazards in `PROJECT.json`.

* `exec_monitor.go:62`: a vm-monitor request that was recommended before the reset of the
  connection is started after it, finds no handle and panics; the runner is restarted.
* `state.go:990` and `996`: usage, permit and approval get out of step while requests are in
  flight, and `clampResources` panics; the runner is restarted.
* `state.go:1176`: a request for upscale that arrives before the connection is set active
  dereferences nil (`UpscaleRequestReceivedEarly`).
* `exec_sleeper.go:62`: the sleeper forgets a wait that it is given right after its timer
  fired; without other updates the periodic request to the scheduler is not made.
* `runner.go:540`: LFC metrics that arrive after they were disabled are stored all the same.
* `runner.go:755`, `state.go:1094`: a patch, or a request to the scheduler, is executed and its
  answer is lost; the agent goes on with what it knew, and may exceed what the scheduler sets
  aside once more.
* `globalstate.go:226`: a runner's goroutine finds a new pod under its pod's name and panics
  outside any recover; the agent is restarted.
* `globalstate.go:334`: a restart takes the context of an earlier pod of the name (4.3).
* `runner.go:458`: a worker's panic before `Run` is at its `select` is dropped.
* `watch.go:126` and `131`: a relist that skips a phase, or a version that cannot be read, leaves
  an event out; a VM may have no runner, or one too many, until the next one.
* `plugin/globalstate.go:69`: a requested migration is not checked again for the need of it.
* `vmmigration_controller.go:250`, `331`, `560`: a migration whose status update fails at a certain
  point waits or fails for ever (`Settles` excludes failures of migrations for that reason);
  `159`: a migration whose VM is gone is never finalized.
* Migrations and the guest: with failing runners, vanishing pods *and* failing calls, all three,
  an old copy of a migration that has failed creates its target again, the guest moves there, the
  source ends and the VM is restarted in a new pod: `OneGuest` and `GuestIsTracked` end there. With
  vanishing pods and failing calls alone `OneGuest` holds and `GuestIsTracked` does not. A migration
  that is deleted before it is over (4.2) leaves a stream that nobody cancels, after which the
  guest is in a target that no object names: `GuestIsTracked` does not hold, `OneGuest` does. With
  failing runners, failing calls and deletions of the VM both hold. These are results of TLC with
  one migration, outside of the worlds of `Controllers`.
* Two migrations of a VM (4.2): besides, an old copy of the first one as `Running` finds the stream of
  the second one "completed" and points the VM back to its own target (`GuestIsTracked` ends there);
  and the finalizer of one that is over, deleted while the VM is `PreMigrating` for another, makes
  the VM `Running` and deletes its own target, which is the VM's runner by then (line 609).
* `vm_controller.go:743`: a revision is reported before its CPUs and memory have followed.
* `ipam.go:232`: with several ranges a failing release counts as done, and an address leaks.
* `certs.go:112` and `main.go:140` of the VXLAN controller: see 4.3. Forwarding entries of nodes
  that are gone stay (`main.go:220`).

## 7. What is not modelled, and why

* Configuration, metrics, logs, dumps, scaling events and revisions: reported or read once,
  never decided upon. The gauge of runners by state (`lockedPodStatus.update`) is one of them.
* Metric formulas: stateless floating point; their result is an input. The truncation of the
  goal to 16 bits (`state.go:800`) does not occur with goals that are small naturals.
* Serialisation and upload of events; HTTP, JSON, websockets and Kubernetes clients. Writes to
  the websocket are assumed to return (`dispatcher.go:573` holds a lock meanwhile).
* The shutdown of the agent.
* `Score` and `NormalizeScore` of the plugin: they rank nodes, and with one node nothing depends
  on them. `Reserve` and `Filter` do not rely on the order.
* Defaulting and validating webhooks and generated code: functions of one object.
* The command line of QEMU, disks and network of a runner, the protocol of QMP: I/O around one
  process. `VmRunner` has what the controllers see of it.
* The refresher that requeues objects that are not retried (`requeueNotRetried`): fairness of
  reconciles covers what it is there for.
* Certificates and addresses are checked by themselves and not composed with the phases of a VM.
  With TLS the certificate is reconciled at the start of every `doReconcile`, which returns until
  there is a secret (`vm_controller.go:332`); an address is acquired once, before the VM becomes
  `Pending` (`vm_controller.go:343`). Both only delay what `VmController` does.
* cert-manager that denies a request (`certs.go:100`): for what is safe it is one that never
  answers, which is in the model; for `VmGetsCertificates` it is assumed to answer.
* A scaling unit of zero (`node.go:420` divides by it), and a node that comes back under its
  name: pods of which no event follows would not be counted on it.
* Addresses of scheduler pods: a pod keeps its address for its life.
* The VM image builder: a build tool. The shutdown protocol it installs has a TLA+ specification
  of its own in `doc/vm-builder/shutdown`.

The agent and the plugin are not composed: `AgentExecutor` has what the plugin may answer
(2.2), `Plugin` has agents that may ask for anything at any time.
