-------------------------------- MODULE Ipam --------------------------------
(***************************************************************************)
(* Overlay addresses: the IPAM of the NeonVM controller (pkg/neonvm/ipam)  *)
(* and its two users in pkg/neonvm/controllers/vm_controller.go, the start *)
(* of a new VM and its finalizer.                                          *)
(*                                                                         *)
(* A worker reconciles a VM as its cache shows it, asks IPAM for an        *)
(* address or to take it back, and writes the VM; that write, like that of *)
(* a pool, is refused if the object has changed since it was read.  The    *)
(* call into IPAM is one at a time (mu).  Pools are kept by name of VM, so *)
(* an address outlives everything but a release: failed writes, a crash of *)
(* the controller, a VM that is created anew under the name.               *)
(***************************************************************************)
EXTENDS Nil, Naturals, Sequences, FiniteSets

CONSTANTS
    VMs,              \* names
    IPRanges,         \* Config.IPRanges: a sequence of disjoint sets of addresses
    ConcurrencyLimit, \* calls let in at once
    DatastoreRetries, \* attempts per range
    MaxVersions,      \* bound: of each VM, the changes after which nobody creates or deletes it any more
    MaxFaults         \* bound: API calls that fail and restarts of the controller, together

VARIABLES
    pools,    \* of each range: whom its addresses are reserved for; NULL before it is created
    obj,      \* of each VM: its object (a new one has its finalizer, which comes before anything
              \* else), and how often that has changed
    cache,    \* the object as the controller knows it
    worker,   \* of each VM: its reconciliation as far as IPAM is concerned: "acquire" or "release",
              \* the version it has read, how far it is and the address it got
    run,      \* the call that holds IPAM.mu: its VM, range and attempt; about to read the pool, or
              \* to update it with the new reservation (fresh: nobody else has since)
    late,     \* an update that a crashed controller has sent and that has not arrived yet
    faults

addressVars == <<pools, obj, cache, worker, run, late, faults>>

Ranges == DOMAIN IPRanges

Reservations(i) == [IPRanges[i] -> Optional(VMs)]

Objects == [version : Nat, phase : {"absent", "new", "running", "deleting"}, ExtraNetIP : Optional(Nat)]

Workers == [action : {"acquire", "release"}, version : Nat, at : {"waiting", "running", "done"},
            ip : Optional(Nat)]

\* There is a range (ipam.go rejects a configuration without any), and nil is none of the values.
ASSUME RangesAssumption ==
    /\ IPRanges \in Seq(SUBSET Nat) /\ Len(IPRanges) > 0
    /\ NULL \notin VMs /\ NULL \notin Workers
    /\ \A i \in Ranges : NULL \notin Reservations(i)

IpamInit ==
    /\ pools = [i \in Ranges |-> NULL]
    /\ obj = [v \in VMs |-> [version |-> 0, phase |-> "absent", ExtraNetIP |-> NULL]]
    /\ cache = obj
    /\ worker = [v \in VMs |-> NULL]
    /\ run = NULL
    /\ late = NULL
    /\ faults = 0

Fails == faults < MaxFaults /\ faults' = faults + 1

(***************************************************************************)
(* The API server                                                          *)
(***************************************************************************)
Write(v, phase, ip) ==
    obj' = [obj EXCEPT ![v] = [version |-> @.version + 1, phase |-> phase, ExtraNetIP |-> ip]]

Create(v) ==
    /\ obj[v].phase = "absent"
    /\ obj[v].version < MaxVersions[v]
    /\ Write(v, "new", NULL)
    /\ UNCHANGED <<pools, cache, worker, run, late, faults>>

Delete(v) ==
    /\ obj[v].phase \in {"new", "running"}
    /\ obj[v].version < MaxVersions[v]
    /\ Write(v, "deleting", obj[v].ExtraNetIP)
    /\ UNCHANGED <<pools, cache, worker, run, late, faults>>

CacheUpdates(v) ==
    /\ cache[v] # obj[v]
    /\ cache' = [cache EXCEPT ![v] = obj[v]]
    /\ UNCHANGED <<pools, obj, worker, run, late, faults>>

WritePool(i, new) == pools' = [pools EXCEPT ![i] = new]

(***************************************************************************)
(* allocate.go.  The library hands out the lowest free address.            *)
(***************************************************************************)
getMatchingIPReservationIndex(reservation, v) == {a \in DOMAIN reservation : reservation[a] = v}

Free(reservation) == {a \in DOMAIN reservation : reservation[a] = NULL}

Lowest(addresses) == CHOOSE a \in addresses : \A b \in addresses : a <= b

CanAcquire(reservation, v) ==
    getMatchingIPReservationIndex(reservation, v) # {} \/ Free(reservation) # {}

doAcquire(reservation, v) ==
    LET found == getMatchingIPReservationIndex(reservation, v)
        ip == Lowest(IF found # {} THEN found ELSE Free(reservation))
    IN  [ip |-> ip, new |-> [reservation EXCEPT ![ip] = v]]

\* Not finding any is no error.
doRelease(reservation, v) ==
    [ip |-> NULL, new |-> [a \in DOMAIN reservation |-> IF reservation[a] = v THEN NULL ELSE reservation[a]]]

(***************************************************************************)
(* ipam.go                                                                 *)
(***************************************************************************)
\* The VM controller comes to acquireOverlayIP or to the finalizer's ReleaseIP; runIPAM lets it
\* in.  Otherwise that is ErrAgain, and the VM is reconciled again.
Start(v) ==
    /\ worker[v] = NULL
    /\ cache[v].phase \in {"new", "deleting"}
    /\ Cardinality({w \in VMs : worker[w] # NULL /\ worker[w].at # "done"}) < ConcurrencyLimit
    /\ worker' = [worker EXCEPT ![v] = [action |-> IF cache[v].phase = "new" THEN "acquire" ELSE "release",
                                        version |-> cache[v].version, at |-> "waiting", ip |-> NULL]]
    /\ UNCHANGED <<pools, obj, cache, run, late, faults>>

AtRange(v, i, retry) == [vm |-> v, range |-> i, retry |-> retry, at |-> "read",
                         new |-> NULL, ip |-> NULL, fresh |-> TRUE]

Lock(v) ==
    /\ run = NULL
    /\ worker[v] # NULL
    /\ worker[v].at = "waiting"
    /\ run' = AtRange(v, 1, 0)
    /\ worker' = [worker EXCEPT ![v].at = "running"]
    /\ UNCHANGED <<pools, obj, cache, late, faults>>

\* runIPAM returns an error, and with it the reconciliation; it is started again.
Return(v) == run' = NULL /\ worker' = [worker EXCEPT ![v] = NULL]

\* runIPAMRange returns an error: the next range, if there is one.
RangeFails ==
    IF run.range < Len(IPRanges)
    THEN run' = AtRange(run.vm, run.range + 1, 0) /\ UNCHANGED worker
    ELSE Return(run.vm)

\* A temporary error: another attempt, if there is one left.
Temporary ==
    IF run.retry + 1 < DatastoreRetries
    THEN run' = AtRange(run.vm, run.range, run.retry + 1) /\ UNCHANGED worker
    ELSE RangeFails

\* getNeonvmIPPool does not find the pool and creates it.
CreatePool ==
    /\ pools[run.range] = NULL
    /\ WritePool(run.range, [a \in IPRanges[run.range] |-> NULL])
    /\ Temporary
    /\ UNCHANGED late

Act ==
    LET v == run.vm
        reservation == pools[run.range]
        result == IF worker[v].action = "acquire" THEN doAcquire(reservation, v) ELSE doRelease(reservation, v)
    IN  /\ reservation # NULL
        /\ IF worker[v].action = "acquire" /\ ~CanAcquire(reservation, v)
           THEN RangeFails
           ELSE /\ run' = [run EXCEPT !.at = "update", !.new = result.new, !.ip = result.ip, !.fresh = TRUE]
                /\ UNCHANGED worker
        /\ UNCHANGED <<pools, late>>

getNeonvmIPPool ==
    /\ run # NULL
    /\ run.at = "read"
    /\ \/ (CreatePool \/ Act) /\ UNCHANGED faults
       \/ Fails /\ RangeFails /\ UNCHANGED <<pools, late>>
    /\ UNCHANGED <<obj, cache>>

Succeeds ==
    /\ run' = NULL
    /\ worker' = [worker EXCEPT ![run.vm].at = "done", ![run.vm].ip = run.ip]

UpdateErrorIgnored == Fails /\ Succeeds /\ UNCHANGED <<pools, late>>

UpdateError == Fails /\ RangeFails /\ UNCHANGED <<pools, late>>

\* The update, which is refused if the pool has changed meanwhile; a failing one may have been done.
\* One that an earlier controller has sent is there before it.
UpdatePool ==
    /\ run # NULL
    /\ run.at = "update"
    /\ late = NULL
    /\ \/ /\ run.fresh
          /\ WritePool(run.range, run.new)
          /\ (Succeeds /\ UNCHANGED faults) \/ (Fails /\ RangeFails)
          /\ UNCHANGED late
       \/ /\ ~run.fresh
          /\ Temporary
          /\ UNCHANGED <<pools, late, faults>>
       \/ UpdateError
    /\ UNCHANGED <<obj, cache>>

\* IpamRequestTimeout, found at the next attempt and then for every range
ContextDone ==
    /\ run # NULL
    /\ run.at = "read"
    /\ Fails
    /\ Return(run.vm)
    /\ UNCHANGED <<pools, obj, cache, late>>

(***************************************************************************)
(* vm_controller.go: the VM is written with its address, or without its    *)
(* finalizer, if it is still the one that the worker has read.             *)
(***************************************************************************)
Finish(v) ==
    /\ worker[v] # NULL
    /\ worker[v].at = "done"
    /\ worker' = [worker EXCEPT ![v] = NULL]
    /\ \/ /\ worker[v].version = obj[v].version
          /\ IF worker[v].action = "acquire" THEN Write(v, "running", worker[v].ip) ELSE Write(v, "absent", NULL)
          /\ UNCHANGED faults
       \/ worker[v].version # obj[v].version /\ UNCHANGED <<obj, faults>>
       \/ Fails /\ UNCHANGED obj
    /\ UNCHANGED <<pools, cache, run, late>>

(***************************************************************************)
(* The controller dies; the next one starts from a fresh cache.  An update *)
(* that is on its way may still arrive.                                    *)
(***************************************************************************)
Crash ==
    /\ Fails
    /\ \/ UNCHANGED late
       \/ run # NULL /\ run.at = "update" /\ run.fresh /\ late' = [range |-> run.range, new |-> run.new]
    /\ worker' = [v \in VMs |-> NULL]
    /\ run' = NULL
    /\ cache' = obj
    /\ UNCHANGED <<pools, obj>>

LateUpdate ==
    /\ late # NULL
    /\ late' = NULL
    /\ WritePool(late.range, late.new)
    /\ run' = IF run # NULL /\ run.range = late.range THEN [run EXCEPT !.fresh = pools[late.range] = late.new] ELSE run
    /\ UNCHANGED <<obj, cache, worker, faults>>

IpamNext ==
    \/ \E v \in VMs : Create(v) \/ Delete(v) \/ CacheUpdates(v) \/ Start(v) \/ Lock(v) \/ Finish(v)
    \/ getNeonvmIPPool \/ UpdatePool \/ ContextDone
    \/ Crash \/ LateUpdate

IpamSpec == IpamInit /\ [][IpamNext]_addressVars

(***************************************************************************)
(* Correctness                                                             *)
(***************************************************************************)
\* The address in the status of a VM (Status.ExtraNetIP) is reserved for that VM, and so for no
\* other, from the write of the status until its deletion, whatever retries, failed writes,
\* stale copies, crashes and earlier VMs of the name (whose finalizer releases by name) there were.
AddressesAreOwned ==
    \A v \in VMs : obj[v].phase = "running" =>
        \E i \in Ranges : /\ obj[v].ExtraNetIP \in IPRanges[i]
                          /\ pools[i] # NULL
                          /\ pools[i][obj[v].ExtraNetIP] = v
=============================================================================
