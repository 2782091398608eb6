------------------------------ MODULE MCPlugin ------------------------------
(***************************************************************************)
(* Instances of Plugin for TLC, of one node with an autoscaled VM on it.   *)
(***************************************************************************)
EXTENDS Plugin

CONSTANTS p1, p2, n1

Amount(cpu, mem) == [VCPU |-> cpu, Mem |-> mem]

MCPods == {p1, p2}
MCNodes == {n1}
MCComputeUnit == Amount(1, 1)

VM(age) ==
    [VirtualMachine |-> TRUE, ours |-> TRUE, autoscaling |-> TRUE, migration |-> FALSE,
     use |-> Amount(1, 1), overcommit |-> Amount(1000, 1000), CreatedAt |-> age]

\* Requests: p1 asks for one or two compute units, and there is no CPU for the second one as long as
\* p2, which is not a VM, is there.
RequestsAttributes ==
    [p \in MCPods |-> IF p = p1 THEN VM(1) ELSE [VM(2) EXCEPT !.VirtualMachine = FALSE]]
RequestsPreexisting == [p \in MCPods |-> n1]
RequestsNodeTotal == [n \in MCNodes |-> Amount(2, 4)]
RequestsWants == {Amount(1, 1), Amount(2, 2)}
RequestsCourses == {{p2}}

\* Scheduling: p1 can be migrated, p2 comes later; both together are above the watermark.
SchedulingAttributes ==
    [p \in MCPods |-> IF p = p1 THEN [VM(1) EXCEPT !.migration = TRUE] ELSE VM(2)]
SchedulingPreexisting == [p \in MCPods |-> IF p = p1 THEN n1 ELSE NULL]
SchedulingNodeTotal == [n \in MCNodes |-> Amount(2, 4)]
SchedulingNodeWatermark == [n \in MCNodes |-> Amount(1, 4)]

\* The plugin is restarted; migrations fail; they succeed, and the pod that was scheduled stays; or the
\* node goes away.
SchedulingCourses == {{"restart", p2}, {"failure", p2}, {"success"}, {n1, p2}}
=============================================================================
