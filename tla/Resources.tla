------------------------------ MODULE Resources ------------------------------
(***************************************************************************)
(* api.Resources: an amount of CPU and an amount of memory, and the        *)
(* operations on it that scaling decisions are made of (pkg/api/types.go). *)
(* The units (milli-CPUs, bytes) do not matter: a field is a natural.      *)
(***************************************************************************)
EXTENDS Naturals

Resources == [VCPU : Nat, Mem : Nat]

MinNat(a, b) == IF a <= b THEN a ELSE b
MaxNat(a, b) == IF a >= b THEN a ELSE b

HasFieldGreaterThan(r, cmp) == r.VCPU > cmp.VCPU \/ r.Mem > cmp.Mem

HasFieldLessThan(r, cmp) == HasFieldGreaterThan(cmp, r)

ResMin(r, cmp) == [VCPU |-> MinNat(r.VCPU, cmp.VCPU), Mem |-> MinNat(r.Mem, cmp.Mem)]

ResMax(r, cmp) == [VCPU |-> MaxNat(r.VCPU, cmp.VCPU), Mem |-> MaxNat(r.Mem, cmp.Mem)]

Add(r, other) == [VCPU |-> r.VCPU + other.VCPU, Mem |-> r.Mem + other.Mem]

SubNat(a, b) == IF a >= b THEN a - b ELSE 0

SaturatingSub(r, other) ==
    [VCPU |-> SubNat(r.VCPU, other.VCPU), Mem |-> SubNat(r.Mem, other.Mem)]

Mul(r, factor) == [VCPU |-> factor * r.VCPU, Mem |-> factor * r.Mem]

HasZeroField(r) == r.VCPU = 0 \/ r.Mem = 0
=============================================================================
