--------------------------- MODULE MCAgentExecutor ---------------------------
(* Small instances of AgentExecutor. *)
EXTENDS AgentExecutor

Res(cpu, mem) == [VCPU |-> cpu, Mem |-> mem]

MCComputeUnit == Res(1, 2)

Info(min, max, lfc) == [Using |-> min, Min |-> min, Max |-> max, EnableLFCMetrics |-> lfc]

MCVmInfos == {Info(Res(1, 2), Res(2, 4), FALSE)}

MCInitialUsing == {Res(1, 2)}

MCPermits == {Res(1, 2), Res(2, 4)}

\* Bounds that are no multiples of the compute unit, and change; the smaller
\* maximum is what the VM starts with, and what a scheduler may permit.
MCBoundsVmInfos == {Info(Res(1, 1), Res(1, 3), FALSE), Info(Res(1, 2), Res(2, 4), TRUE)}

MCBoundsUsing == {Res(1, 3)}

MCBoundsPermits == {Res(1, 3), Res(2, 4)}
=============================================================================
