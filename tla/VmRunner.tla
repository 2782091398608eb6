------------------------------ MODULE VmRunner ------------------------------
(***************************************************************************)
(* A runner pod of a NeonVM virtual machine, and what the controllers can  *)
(* ask of it: neonvm-runner's HTTP server, QEMU's monitor (QMP), and the   *)
(* neonvm-daemon inside the guest.  Everything here is an operator on one  *)
(* pod; the pods themselves are state of VmController.                     *)
(*                                                                         *)
(* CPU is in thousandths of a core, memory in slots.                       *)
(***************************************************************************)
EXTENDS Integers, FiniteSets, Sequences

CONSTANTS
    NULL,       \* Go's nil and the empty string; a pod that was never created
    Gone,       \* a pod that was removed
    Migrations, \* names of VirtualMachineMigrations
    Guests,     \* the successive values of .Spec.Guest's use: [CPU |-> ..., Mem |-> ...]
    Min,        \* .Spec.Guest's lower bounds, in the same form
    MaxCores    \* the number of CPUs that the guest is built for

ASSUME GuestsAssumption ==
    /\ Min \in [CPU : Nat \ {0}, Mem : Nat \ {0}]
    /\ \A i \in DOMAIN Guests : Guests[i].CPU >= Min.CPU /\ Guests[i].Mem >= Min.Mem
    /\ \A i \in DOMAIN Guests : Guests[i].CPU <= 1000 * MaxCores

\* MilliCPU.RoundedUp
RoundedUp(milli) == (milli + 999) \div 1000

(***************************************************************************)
(* A pod: what the API server shows of it, and                             *)
(*   cpu      the runner's lastValue                                       *)
(*   cores    the CPUs plugged into QEMU ("QMP"), or online ("Sysfs")      *)
(*   memReq   the size that virtio-mem was asked for, mem what it has      *)
(*   guest    whether QEMU runs, and whether the guest runs in it          *)
(*   qmig     what QEMU's monitor says of a migration, out or in           *)
(***************************************************************************)
\* podForVirtualMachine, podSpec and labels, annotations and environment made from the VM
podSpec(rev) ==
    [phase |-> "Pending", deleting |-> "no", controller |-> "VM", owners |-> {"VM"}, usage |-> rev,
     cpu |-> Min.CPU, cores |-> RoundedUp(Min.CPU), memReq |-> Min.Mem, mem |-> Min.Mem,
     guest |-> "off", qmig |-> "none"]

targetPodForVirtualMachine(rev, m) ==
    [podSpec(rev) EXCEPT !.controller = m, !.owners = {m, "VM"}]

\* MigrationOwnerForPod, with role Target
IsTarget(pod) == pod.controller \in Migrations

\* What the kubelet has the runner answer to the readiness probe
Ready(pod, mode) == mode = "QMP" \/ pod.guest = "on"

runnerContainerStatus(pod, mode) ==
    IF IsTarget(pod) \/ Ready(pod, mode) THEN "Running" ELSE "Pending"

\* Of an empty pod object, where none was found, the phase is empty.
runnerStatus(pod, mode) ==
    CASE pod \in {NULL, Gone} -> "Pending"
      [] pod \notin {NULL, Gone} /\ pod.deleting = "overdue" -> "Failed"
      [] pod \notin {NULL, Gone} /\ pod.deleting # "overdue" ->
            IF pod.phase = "Running" THEN runnerContainerStatus(pod, mode) ELSE pod.phase

(***************************************************************************)
(* Requests to the runner and to QEMU fail unless QEMU is up; with sysfs   *)
(* scaling the runner passes them on to the daemon in the guest.           *)
(***************************************************************************)
QmpAnswers(pod) == pod \notin {NULL, Gone} /\ pod.guest # "off"

RunnerAnswers(pod, mode) == QmpAnswers(pod) /\ (mode = "Sysfs" => pod.guest = "on")

\* The runner's get callback; the daemon answers with its active CPUs.
getRunnerCPULimits(pod, mode) ==
    IF mode = "Sysfs" /\ RoundedUp(pod.cpu) # pod.cores THEN 1000 * pod.cores ELSE pod.cpu

\* ReconcileOnlineCPU: CPUs are switched one at a time, and never CPU 0.  If it cannot read which CPUs
\* are offline it does nothing and returns no error; otherwise an error part of the way leaves those
\* that were switched.
ReconcileOnlineCPU(cores, target, ok) ==
    LET reached == IF cores <= target THEN cores..(target - 1) ELSE (target + 1)..cores
    IN  IF ok \/ cores = target THEN {[cores |-> target, err |-> FALSE]}
        ELSE {[cores |-> c, err |-> TRUE] : c \in reached}
             \union {[cores |-> c, err |-> FALSE] : c \in {cores} \intersect 0..(target - 1)}

\* The runner's set callback: the pod, and whether there was an error.
setRunnerCPULimits(pod, mode, cpu, ok) ==
    IF mode = "QMP"
    THEN {[pod |-> IF ok THEN [pod EXCEPT !.cpu = cpu] ELSE pod, err |-> ~ok]}
    ELSE {[pod |-> [pod EXCEPT !.cores = r.cores, !.cpu = IF r.err THEN @ ELSE cpu], err |-> r.err] :
             r \in ReconcileOnlineCPU(pod.cores, RoundedUp(cpu), ok)}

QmpPlugCpu(pod) == [pod EXCEPT !.cores = @ + 1]

\* device_del is only a request: a guest that does not let go of the CPU keeps it, and there is no error.
QmpUnplugCpu(pod, mayRefuse) ==
    {[pod EXCEPT !.cores = @ - 1]} \union (IF mayRefuse THEN {pod} ELSE {})

QmpSetVirtioMem(pod, slots) == [pod EXCEPT !.memReq = slots]

\* CPUs are only ever added to the target.
QmpSyncCpuToTarget(source, target) ==
    [target EXCEPT !.cores = IF source.cores > @ THEN source.cores ELSE @]

QmpCanStartMigration(source) == source.guest \in {"booting", "on"} /\ source.qmig # "active"

QmpQuit(pod) == [pod EXCEPT !.phase = "Succeeded", !.guest = "off"]

\* Cancelling when nothing is going on changes nothing.
QmpCancelMigration(source) ==
    [source EXCEPT !.qmig = IF @ = "active" THEN "cancelled" ELSE @]
=============================================================================
