---------------------------- MODULE VmController ----------------------------
(***************************************************************************)
(* The controller of VirtualMachine objects (pkg/neonvm/controllers), the  *)
(* runner pods it creates, and what else happens to these objects.         *)
(*                                                                         *)
(* A reconcile reads the VM from a cache that may lag behind the API       *)
(* server.  A write with an outdated copy is refused, so whatever others   *)
(* do between a reconcile's read and its write is, here, done before the   *)
(* reconcile while the cache lags.  A reconcile is one step, in which the  *)
(* first n of its calls succeed and the next, if any, does not: it ends    *)
(* with an error or with the process, and is started again later.  Calls   *)
(* whose errors are only logged are apart, and succeed if "soft" says so.  *)
(***************************************************************************)
EXTENDS VmRunner

CONSTANTS
    PodNames, \* as many as there can be pods
    Worlds    \* the instances to look at: [config |-> ..., left |-> ...]

\* What can be left of the events of the environment
Budgets == [changes : Nat, failures : Nat, vanishes : Nat, errors : BOOLEAN, deletes : Nat,
            migrations : Nat, cancels : Nat]

ASSUME WorldsAssumption ==
    /\ NULL \notin PodNames
    /\ \A w \in Worlds : w.left \in Budgets

VARIABLES
    vm,        \* the VirtualMachine on the API server
    cvm,       \* the copy in the controllers' cache
    vmFresh,   \* whether the copy is of the current version
    pods,
    sshSecret, \* whether the VM's secret exists
    config,    \* ReconcilerConfig and the VM's restart policy
    left       \* bounds: how often each event of the environment can still happen

vmVars == <<vm, cvm, vmFresh>>
vars == <<vm, cvm, vmFresh, pods, sshSecret, config, left>>

NoUsage == [CPU |-> 0, Mem |-> 0]

\* In a VirtualMachine "rev" stands both for .Spec.TargetRevision and for the guest that was
\* specified with it, "current" for .Status.CurrentRevision, and PodName also for .Status.PodIP.
VmInit ==
    /\ vm = [exists |-> TRUE, deleting |-> FALSE, finalizer |-> FALSE, mode |-> NULL, rev |-> 1,
             Phase |-> "", PodName |-> NULL, using |-> NoUsage, current |-> 0, RestartCount |-> 0]
    /\ cvm = vm /\ vmFresh = TRUE
    /\ pods = [p \in PodNames |-> NULL]
    /\ sshSecret = FALSE
    /\ \E w \in Worlds : config = w.config /\ left = w.left

PodExists(p) == p # NULL /\ pods[p] \notin {NULL, Gone}

PodOf(p) == IF p = NULL THEN NULL ELSE pods[p]

(***************************************************************************)
(* The API server.                                                         *)
(***************************************************************************)
\* An update of the VM with the cached copy's version; ok unless the call fails.
UpdateVM(ok, new) ==
    /\ vm' = IF ok /\ vmFresh THEN new ELSE vm
    /\ vmFresh' = (vmFresh /\ vm' = vm)
    /\ UNCHANGED cvm

\* A change of the VM that the API server accepts whatever its version
ChangeVM(new) == vm' = new /\ vmFresh' = (vmFresh /\ new = vm) /\ UNCHANGED cvm

VmSynced == ~vmFresh /\ cvm' = vm /\ vmFresh' = TRUE /\ UNCHANGED <<vm, pods, sshSecret, config, left>>

Deleted(p) == [pods EXCEPT ![p].deleting = IF @ = "no" THEN "yes" ELSE @]

(***************************************************************************)
(* VMReconciler.Reconcile                                                  *)
(***************************************************************************)
AddFinalizer(n) ==
    /\ ~cvm.deleting /\ ~cvm.finalizer
    /\ UpdateVM(n >= 1, [cvm EXCEPT !.finalizer = TRUE])
    /\ UNCHANGED <<pods, sshSecret>>

\* Once the last finalizer is off the API server removes the object.
Finalize(n) ==
    /\ cvm.deleting /\ cvm.finalizer
    /\ UpdateVM(n >= 1, [cvm EXCEPT !.finalizer = FALSE, !.exists = FALSE])
    /\ UNCHANGED <<pods, sshSecret>>

SetDefaults(n) ==
    /\ ~cvm.deleting /\ cvm.finalizer /\ cvm.mode = NULL
    /\ UpdateVM(n >= 1, [cvm EXCEPT !.mode = config.DefaultCPUScalingMode])
    /\ UNCHANGED <<pods, sshSecret>>

propagateRevision(v) == [v EXCEPT !.current = v.rev]

\* The end of doReconcile and the update of the status
Finish(ok, v) == UpdateVM(ok, IF v.Phase = "Running" THEN propagateRevision(v) ELSE v)

\* updatePodMetadataIfNecessary: its errors are logged and ignored
updatePodMetadataIfNecessary(p, ok) ==
    IF PodExists(p) /\ ok THEN [pods EXCEPT ![p].usage = cvm.rev] ELSE pods

Created(n) ==
    /\ cvm.Phase = ""
    /\ Finish(n >= 1, [cvm EXCEPT !.Phase = "Pending"])
    /\ UNCHANGED <<pods, sshSecret>>

\* names.SimpleNameGenerator: names do not come back
NewName(taken) == CHOOSE p \in PodNames : pods[p] = NULL /\ p \notin taken

HasNewName(taken) == \E p \in PodNames : pods[p] = NULL /\ p \notin taken

CreateRunner(n, name) ==
    LET before == IF sshSecret THEN 0 ELSE 1
    IN  /\ sshSecret' = (sshSecret \/ n >= 1)
        /\ pods' = IF n > before THEN [pods EXCEPT ![name] = podSpec(cvm.rev)] ELSE pods

NameRunnerUnsaved(n, taken) ==
    /\ cvm.Phase = "Pending" /\ cvm.PodName = NULL
    /\ HasNewName(taken)
    /\ UpdateVM(n >= 3, [cvm EXCEPT !.PodName = NewName(taken)])
    /\ CreateRunner(n, NewName(taken))

NameRunner(n, taken) ==
    /\ cvm.Phase = "Pending" /\ cvm.PodName = NULL
    /\ HasNewName(taken)
    /\ LET name == NewName(taken)
       IN  /\ UpdateVM(n >= 1, [cvm EXCEPT !.PodName = name])
           /\ IF n >= 1 /\ vmFresh THEN CreateRunner(n - 1, name) ELSE UNCHANGED <<pods, sshSecret>>

RecreateRunner(n) ==
    /\ cvm.Phase = "Pending" /\ cvm.PodName # NULL /\ ~PodExists(cvm.PodName)
    /\ CreateRunner(n, cvm.PodName)
    /\ UNCHANGED vmVars

\* What Pending, Running and Scaling all make of a runner that is no longer up
EndedPhase(status) == status \in {"Succeeded", "Failed"}

AwaitRunner(n, soft) ==
    /\ cvm.Phase = "Pending" /\ PodExists(cvm.PodName)
    /\ pods' = updatePodMetadataIfNecessary(cvm.PodName, soft)
    /\ LET status == runnerStatus(pods[cvm.PodName], cvm.mode)
       IN  Finish(n >= 1, [cvm EXCEPT !.Phase = IF status = "Pending" THEN @ ELSE status])
    /\ UNCHANGED sshSecret

\* What updateVMStatusCPU and updateVMStatusMemory write
UsingCPU(pod, mode) ==
    LET cgroup == getRunnerCPULimits(pod, mode)
        plugged == IF mode = "QMP" THEN pod.cores ELSE RoundedUp(cgroup)
    IN  IF cgroup < 1000 * plugged THEN cgroup ELSE 1000 * plugged

IsScaledButMemory(v, pod) ==
    Guests[v.rev].CPU = getRunnerCPULimits(pod, v.mode)
    /\ (v.mode = "QMP" => RoundedUp(Guests[v.rev].CPU) = pod.cores)

IsScaled(v, pod) ==
    LET spec == Guests[v.rev]
        cgroup == getRunnerCPULimits(pod, v.mode)
        plugged == IF v.mode = "QMP" THEN pod.cores ELSE RoundedUp(cgroup)
    IN  spec.CPU = cgroup /\ RoundedUp(spec.CPU) = plugged /\ spec.Mem = pod.mem

\* Not a VM that is being migrated
MayCheck(v) == v.Phase = "Running"

CheckRunner(n, soft) ==
    /\ MayCheck(cvm)
    /\ pods' = updatePodMetadataIfNecessary(cvm.PodName, soft)
    /\ LET pod == PodOf(cvm.PodName)
           status == runnerStatus(pod, cvm.mode)
           checked == [cvm EXCEPT !.using = [CPU |-> UsingCPU(pod, cvm.mode), Mem |-> pod.mem],
                                  !.Phase = IF IsScaled(cvm, pod) THEN @ ELSE "Scaling"]
       IN  \/ /\ ~PodExists(cvm.PodName)
              /\ Finish(n >= 1, [cvm EXCEPT !.Phase = "Failed"])
           \/ /\ EndedPhase(status)
              /\ Finish(n >= 1, [cvm EXCEPT !.Phase = status])
           \/ /\ PodExists(cvm.PodName) /\ status = "Pending"
              /\ Finish(n >= 1, cvm)
           \/ /\ status = "Running"
              /\ IF RunnerAnswers(pod, cvm.mode) THEN Finish(n >= 1, checked) ELSE UNCHANGED vmVars
    /\ UNCHANGED sshSecret

NeedsPlug(spec, pod) == RoundedUp(spec) > pod.cores

\* handleCPUScalingQMP, handleCPUScalingSysfs: the pod after it, whether it is done, and, if it says
\* so in the status, what is used
ScaleCPUs(pod, v, ok, soft) ==
    LET spec == Guests[v.rev].CPU
        cgroup == getRunnerCPULimits(pod, v.mode)
        Result(new, scaled, err, using) == [pod |-> new, scaled |-> scaled, err |-> err, using |-> using]
        same == v.using.CPU
    IN  IF v.mode = "QMP"
        THEN IF NeedsPlug(spec, pod)
             THEN {Result(IF ok THEN QmpPlugCpu(pod) ELSE pod, FALSE, ~ok, UsingCPU(pod, v.mode))}
             ELSE IF RoundedUp(spec) < pod.cores
             THEN {Result(new, FALSE, ~ok, same) :
                      new \in IF ok THEN QmpUnplugCpu(pod, ~soft) ELSE {pod}}
             ELSE IF spec # cgroup
             THEN {Result(r.pod, FALSE, r.err, UsingCPU(pod, v.mode)) :
                      r \in setRunnerCPULimits(pod, v.mode, spec, ok)}
             ELSE {Result(pod, TRUE, FALSE, UsingCPU(pod, v.mode))}
        ELSE IF spec # cgroup
             THEN {Result(r.pod, TRUE, r.err, same) : r \in setRunnerCPULimits(pod, v.mode, spec, ok)}
             ELSE {Result(pod, TRUE, FALSE, UsingCPU(pod, v.mode))}

\* It is done when the guest has the memory that it was told to have.
doVirtioMemScaling(pod, goal) == [pod |-> QmpSetVirtioMem(pod, goal), done |-> pod.mem = goal]

ScaleRunner(n, soft) ==
    /\ cvm.Phase = "Scaling"
    /\ UNCHANGED sshSecret
    /\ LET p == cvm.PodName
           patched == updatePodMetadataIfNecessary(p, soft)
           status == runnerStatus(PodOf(p), cvm.mode)
           goal == Guests[cvm.rev].Mem
       IN  \/ /\ EndedPhase(status)
              /\ pods' = patched
              /\ Finish(n >= 1, [cvm EXCEPT !.Phase = status])
           \/ /\ ~EndedPhase(status) /\ ~RunnerAnswers(PodOf(p), cvm.mode)
              /\ pods' = patched
              /\ UNCHANGED vmVars
           \/ /\ ~EndedPhase(status) /\ RunnerAnswers(PodOf(p), cvm.mode)
              /\ \E r \in ScaleCPUs(patched[p], cvm, n >= 1, soft) :
                    LET memory == ~r.err /\ n >= 2
                        scaling == doVirtioMemScaling(r.pod, goal)
                        scaled == [cvm EXCEPT !.using = [CPU |-> r.using, Mem |-> r.pod.mem],
                                              !.Phase = IF r.scaled /\ scaling.done THEN "Running" ELSE @]
                    IN  /\ pods' = [patched EXCEPT ![p] = IF memory THEN scaling.pod ELSE r.pod]
                        /\ Finish(memory /\ n >= 3, scaled)

\* VirtualMachine.Cleanup
Cleanup(v) == [v EXCEPT !.PodName = NULL, !.using = NoUsage]

ShouldRestart(v) ==
    config.RestartPolicy = "Always" \/ (config.RestartPolicy = "OnFailure" /\ v.Phase = "Failed")

Restarted(v) ==
    IF ShouldRestart(v)
    THEN [Cleanup(v) EXCEPT !.Phase = "Pending", !.RestartCount = @ + 1]
    ELSE Cleanup(v)

MayProceedAnyway == TRUE

\* Whether to go on while the old pod is still there
MayProceed == ~config.AtMostOnePod

\* The pod is marked for deletion first and loses its owners after that.
DeleteRunner(n) ==
    /\ cvm.Phase \in {"Succeeded", "Failed"}
    /\ UNCHANGED sshSecret
    /\ LET p == cvm.PodName
       IN  \/ /\ PodExists(p) /\ pods[p].owners # {}
              /\ pods' = IF n >= 2 THEN [Deleted(p) EXCEPT ![p].owners = {}, ![p].controller = "none"]
                         ELSE IF n = 1 THEN Deleted(p) ELSE pods
              /\ UNCHANGED vmVars
           \/ /\ PodExists(p) /\ pods[p].owners = {}
              /\ pods' = IF n >= 1 THEN Deleted(p) ELSE pods
              /\ IF n >= 1 /\ MayProceed THEN Finish(n >= 2, Restarted(cvm))
                 ELSE UNCHANGED vmVars
           \/ /\ ~PodExists(p)
              /\ Finish(n >= 1, Restarted(cvm))
              /\ UNCHANGED pods

\* Nothing is done for a VM that is being migrated.
doReconcile(n, soft, taken) ==
    /\ ~cvm.deleting /\ cvm.finalizer /\ cvm.mode # NULL
    /\ \/ Created(n)
       \/ NameRunner(n, taken)
       \/ RecreateRunner(n)
       \/ AwaitRunner(n, soft)
       \/ CheckRunner(n, soft)
       \/ ScaleRunner(n, soft)
       \/ DeleteRunner(n)

MaxCalls == 3

ReconcileVM(n, soft, taken) ==
    /\ cvm.exists
    /\ n < MaxCalls \/ ~soft => left.errors
    /\ UNCHANGED <<config, left>>
    /\ AddFinalizer(n) \/ Finalize(n) \/ SetDefaults(n) \/ doReconcile(n, soft, taken)

(***************************************************************************)
(* The environment: users and the autoscaler-agent, the kubelet, QEMU and  *)
(* the garbage collector.                                                  *)
(***************************************************************************)
Spend(event) == left[event] > 0 /\ left' = [left EXCEPT ![event] = @ - 1]

\* The spec changes together with its revision.
SpecChanges ==
    /\ vm.exists /\ vm.rev < Len(Guests) /\ Spend("changes")
    /\ ChangeVM([vm EXCEPT !.rev = @ + 1])
    /\ UNCHANGED <<pods, sshSecret, config>>

DeleteVM ==
    /\ vm.exists /\ ~vm.deleting /\ Spend("deletes")
    /\ ChangeVM([vm EXCEPT !.deleting = TRUE, !.exists = vm.finalizer])
    /\ UNCHANGED <<pods, sshSecret, config>>

\* A change of one pod that is there
PodBecomes(p, new) ==
    /\ pods' = [pods EXCEPT ![p] = new]
    /\ UNCHANGED <<vm, cvm, vmFresh, sshSecret, config>>

\* A target is started to wait for the guest of the source.
buildQEMUCmd(pod) == IF IsTarget(pod) THEN "incoming" ELSE "booting"

PodStarts(p) ==
    /\ PodExists(p) /\ pods[p].phase = "Pending" /\ pods[p].deleting = "no"
    /\ PodBecomes(p, [pods[p] EXCEPT !.phase = "Running", !.guest = buildQEMUCmd(pods[p])])
    /\ UNCHANGED left

GuestBoots(p) ==
    /\ PodExists(p) /\ pods[p].guest = "booting"
    /\ PodBecomes(p, [pods[p] EXCEPT !.guest = "on"])
    /\ UNCHANGED left

\* By itself, or because the pod is being deleted
QemuExits(p, phase) ==
    /\ PodExists(p) /\ pods[p].guest # "off"
    /\ IF pods[p].deleting = "no" THEN Spend("failures") ELSE UNCHANGED left
    /\ PodBecomes(p, [pods[p] EXCEPT !.phase = phase, !.guest = "off"])

SomeoneDeletesPod(p) ==
    /\ PodExists(p) /\ pods[p].deleting = "no" /\ Spend("vanishes")
    /\ PodBecomes(p, [pods[p] EXCEPT !.deleting = "yes"])

PodIsOverdue(p) ==
    /\ PodExists(p) /\ pods[p].deleting = "yes"
    /\ PodBecomes(p, [pods[p] EXCEPT !.deleting = "overdue"])
    /\ UNCHANGED left

PodIsRemoved(p) ==
    /\ PodExists(p) /\ pods[p].deleting # "no"
    /\ PodBecomes(p, Gone)
    /\ UNCHANGED left

MemoryFollows(p) ==
    /\ PodExists(p) /\ pods[p].guest = "on" /\ pods[p].mem # pods[p].memReq
    /\ PodBecomes(p, [pods[p] EXCEPT !.mem = pods[p].memReq])
    /\ UNCHANGED left

VmEnvironment ==
    \/ VmSynced \/ SpecChanges \/ DeleteVM
    \/ \E p \in PodNames :
          \/ PodStarts(p) \/ GuestBoots(p)
          \/ QemuExits(p, "Succeeded") \/ QemuExits(p, "Failed")
          \/ SomeoneDeletesPod(p) \/ PodIsOverdue(p) \/ PodIsRemoved(p) \/ MemoryFollows(p)
=============================================================================
