----------------------------- MODULE IpamProofs -----------------------------
(***************************************************************************)
(* The address of a running VM stays reserved for it, for any number of    *)
(* VMs, addresses, ranges, calls at once, retries, failures and restarts   *)
(* (AddressesAreOwned).                                                    *)
(*                                                                         *)
(* A release is by name and so would take the address of any VM of that    *)
(* name.  It is harmless because the worker that releases has read a copy  *)
(* that was being deleted, and the VM cannot be running again before the   *)
(* cache has seen it go.  An update that arrives after the death of its    *)
(* sender is harmless because nobody succeeds before it has arrived.       *)
(***************************************************************************)
EXTENDS Ipam, WellFoundedInduction, TLAPS

USE DEF Optional

(***************************************************************************)
(* The inductive invariant                                                 *)
(***************************************************************************)
PoolTypes ==
    /\ DOMAIN pools = Ranges
    /\ \A i \in Ranges : pools[i] # NULL => pools[i] \in Reservations(i)

IpamTypes ==
    /\ PoolTypes
    /\ obj \in [VMs -> Objects]
    /\ cache \in [VMs -> Objects]
    /\ worker \in [VMs -> Workers \union {NULL}]

Reserved(v, ip) == \E i \in Ranges : ip \in IPRanges[i] /\ pools[i] # NULL /\ pools[i][ip] = v

\* A copy of the current version is the object, and one that is being deleted is not of an
\* earlier VM than the one that runs.
CacheIsRight(v) ==
    /\ cache[v].version <= obj[v].version
    /\ cache[v].version = obj[v].version => cache[v] = obj[v]
    /\ cache[v].phase = "deleting" => obj[v].phase # "running"

WorkerIsRight(v) ==
    worker[v] # NULL =>
        /\ worker[v].version <= cache[v].version
        /\ worker[v].version = obj[v].version =>
              obj[v].phase = IF worker[v].action = "acquire" THEN "new" ELSE "deleting"
        /\ worker[v].action = "release" => obj[v].phase # "running"
        /\ worker[v].at = "done" => late = NULL
        /\ worker[v].at = "done" /\ worker[v].action = "acquire" => Reserved(v, worker[v].ip)

\* What a call for v may make of a reservation: it takes no address from others, and its own only
\* to release it.
ChangesOwn(v, action, old, new, ip) ==
    IF action = "acquire"
    THEN /\ \A a \in DOMAIN old : old[a] # NULL => new[a] = old[a]
         /\ ip \in DOMAIN old /\ new[ip] = v
    ELSE ip = NULL /\ \A a \in DOMAIN old : old[a] # v => new[a] = old[a]

RunIsRight ==
    run # NULL =>
        /\ DOMAIN run = {"vm", "range", "retry", "at", "new", "ip", "fresh"}
        /\ run.vm \in VMs /\ run.range \in Ranges
        /\ worker[run.vm] # NULL /\ worker[run.vm].at = "running"
        /\ run.fresh \in BOOLEAN /\ (late # NULL => run.fresh)
        /\ run.at = "update" /\ run.fresh =>
              /\ pools[run.range] # NULL /\ run.new \in Reservations(run.range)
              /\ ChangesOwn(run.vm, worker[run.vm].action, pools[run.range], run.new, run.ip)

\* The update of a dead controller takes no address from a VM that runs.
LateIsRight ==
    late # NULL =>
        /\ late.range \in Ranges /\ pools[late.range] # NULL /\ late.new \in Reservations(late.range)
        /\ \A a \in IPRanges[late.range] :
              \/ late.new[a] = pools[late.range][a]
              \/ pools[late.range][a] = NULL
              \/ obj[pools[late.range][a]].phase # "running"

IpamInv ==
    /\ IpamTypes
    /\ \A v \in VMs : CacheIsRight(v) /\ WorkerIsRight(v)
    /\ RunIsRight
    /\ LateIsRight
    /\ AddressesAreOwned

(***************************************************************************)
(* What a call makes of a reservation                                      *)
(***************************************************************************)
LEMMA LowestIsOne ==
    ASSUME NEW addresses \in SUBSET Nat, addresses # {}
    PROVE  Lowest(addresses) \in addresses
<1>1. PICK a \in addresses : \A b \in addresses : ~(<<b, a>> \in OpToRel(<, Nat))
  BY Zenon, NatLessThanWellFounded, WFMin
<1>2. \A b \in addresses : ~(b < a)
  BY <1>1 DEF OpToRel
<1>3. \A b \in addresses : a <= b
  BY <1>2
<1>. QED  BY <1>3 DEF Lowest

LEMMA RangesAreSets ==
    1 \in Ranges /\ \A i \in Ranges : IPRanges[i] \in SUBSET Nat
  BY RangesAssumption DEF Ranges

LEMMA Acquired ==
    ASSUME NEW i \in Ranges, NEW r \in Reservations(i), NEW v \in VMs,
           CanAcquire(r, v)
    PROVE  /\ doAcquire(r, v).new \in Reservations(i)
           /\ ChangesOwn(v, "acquire", r, doAcquire(r, v).new, doAcquire(r, v).ip)
<1>. DEFINE found == getMatchingIPReservationIndex(r, v)
            some == IF found # {} THEN found ELSE Free(r)
            ip == Lowest(some)
<1>1. some \in SUBSET IPRanges[i] /\ some # {}
  BY DEF CanAcquire, getMatchingIPReservationIndex, Free, Reservations
<1>2. \A a \in some : r[a] = v \/ r[a] = NULL
  BY DEF getMatchingIPReservationIndex, Free
<1>3. doAcquire(r, v).ip = ip /\ doAcquire(r, v).new = [r EXCEPT ![ip] = v]
  BY DEF doAcquire
<1>. HIDE DEF some
<1>4. ip \in some
  BY <1>1, LowestIsOne, RangesAreSets
<1>5. ip \in IPRanges[i] /\ (r[ip] = v \/ r[ip] = NULL)
  BY <1>1, <1>2, <1>4
<1>. HIDE DEF ip
<1>. QED  BY <1>3, <1>5 DEF ChangesOwn, Reservations

LEMMA Released ==
    ASSUME NEW i \in Ranges, NEW r \in Reservations(i), NEW v \in VMs
    PROVE  /\ doRelease(r, v).new \in Reservations(i)
           /\ ChangesOwn(v, "release", r, doRelease(r, v).new, doRelease(r, v).ip)
  BY DEF doRelease, ChangesOwn, Reservations

(***************************************************************************)
(* Steps of the call that holds the mutex                                  *)
(***************************************************************************)
\* It gives up, or is about to read a pool.
Moved ==
    \/ Return(run.vm)
    \/ /\ worker' = worker
       /\ DOMAIN run' = {"vm", "range", "retry", "at", "new", "ip", "fresh"}
       /\ run'.vm = run.vm /\ run'.range \in Ranges /\ run'.at = "read" /\ run'.fresh = TRUE

LEMMA Moves ==
    ASSUME IpamInv, run # NULL, RangeFails \/ Temporary \/ Return(run.vm)
    PROVE  Moved
<1>1. run.range \in Ranges
  BY DEF IpamInv, RunIsRight
<1>2. ASSUME RangeFails  PROVE Moved
  <2>1. Len(IPRanges) \in Nat /\ Ranges = 1 .. Len(IPRanges)
    BY RangesAssumption DEF Ranges
  <2>2. run.range < Len(IPRanges) => run.range + 1 \in Ranges
    BY <1>1, <2>1
  <2>. QED  BY <1>2, <2>2 DEF RangeFails, Moved, AtRange
<1>3. ASSUME Temporary  PROVE Moved
  <2>1. CASE RangeFails
    BY <1>2, <2>1
  <2>2. CASE run' = AtRange(run.vm, run.range, run.retry + 1) /\ worker' = worker
    BY <1>1, <2>2 DEF Moved, AtRange
  <2>. QED  BY <1>3, <2>1, <2>2 DEF Temporary
<1>. QED  BY <1>2, <1>3 DEF Moved

\* A VM that keeps its addresses: every one but that of a call that releases.
Keeps(v) == v # run.vm \/ worker[run.vm].action = "acquire"

LEMMA MovedKeeps ==
    ASSUME IpamInv, run # NULL, Moved, UNCHANGED <<obj, cache, late>>, PoolTypes',
           late # NULL => pools'[late.range] = pools[late.range],
           \A v \in VMs : Keeps(v) => \A ip : Reserved(v, ip) => Reserved(v, ip)'
    PROVE  IpamInv'
<1>1. worker' \in [VMs -> Workers \union {NULL}]
  BY DEF Moved, Return, IpamInv, IpamTypes
<1>2. IpamTypes'
  BY <1>1 DEF IpamInv, IpamTypes
<1>3. run.vm \in VMs /\ worker[run.vm] # NULL /\ worker[run.vm].at = "running"
  BY DEF IpamInv, RunIsRight
<1>4. \A v \in VMs : worker'[v] # NULL => worker'[v] = worker[v]
  BY <1>3 DEF Moved, Return, IpamInv, IpamTypes
<1>5. ASSUME NEW v \in VMs  PROVE CacheIsRight(v)' /\ WorkerIsRight(v)'
  <2>1. CacheIsRight(v) /\ WorkerIsRight(v)
    BY DEF IpamInv
  <2>2. worker[v] # NULL /\ worker[v].at = "done" => Keeps(v)
    BY <1>3 DEF Keeps
  <2>. QED  BY <1>4, <2>1, <2>2 DEF CacheIsRight, WorkerIsRight
<1>6. RunIsRight'
  <2>1. late # NULL => run.fresh
    BY DEF IpamInv, RunIsRight
  <2>. QED  BY <1>3, <2>1 DEF Moved, Return, RunIsRight
<1>7. LateIsRight'
  BY DEF IpamInv, LateIsRight
<1>8. AddressesAreOwned'
  <2>1. ASSUME NEW v \in VMs, obj[v].phase = "running"  PROVE Keeps(v)
    <3>1. worker[run.vm].action = "release" => obj[run.vm].phase # "running"
      BY <1>3 DEF IpamInv, WorkerIsRight
    <3>2. worker[run.vm].action \in {"acquire", "release"}
      BY <1>3 DEF IpamInv, IpamTypes, Workers
    <3>. QED  BY <2>1, <3>1, <3>2 DEF Keeps
  <2>2. \A v \in VMs : obj[v].phase = "running" => Reserved(v, obj[v].ExtraNetIP)
    BY DEF IpamInv, AddressesAreOwned, Reserved
  <2>3. \A v \in VMs : obj[v].phase = "running" => Reserved(v, obj[v].ExtraNetIP)'
    BY <2>1, <2>2
  <2>. QED  BY <2>3 DEF AddressesAreOwned, Reserved
<1>. QED  BY <1>2, <1>5, <1>6, <1>7, <1>8 DEF IpamInv

(***************************************************************************)
(* Steps of one VM, of its object, its copy or its worker                  *)
(***************************************************************************)
LEMMA StepOfOne ==
    ASSUME IpamInv, NEW v \in VMs, UNCHANGED <<pools, run, late>>, IpamTypes',
           \A u \in VMs \ {v} : obj'[u] = obj[u] /\ cache'[u] = cache[u] /\ worker'[u] = worker[u],
           run # NULL /\ run.vm = v => worker'[v] = worker[v],
           CacheIsRight(v)', WorkerIsRight(v)',
           obj'[v].phase = "running" =>
              Reserved(v, obj'[v].ExtraNetIP) /\ (late # NULL => obj[v].phase = "running")
    PROVE  IpamInv'
<1>1. \A u \in VMs : \A ip : Reserved(u, ip)' <=> Reserved(u, ip)
  BY DEF Reserved
<1>2. ASSUME NEW u \in VMs  PROVE CacheIsRight(u)' /\ WorkerIsRight(u)'
  <2>1. CacheIsRight(u) /\ WorkerIsRight(u)
    BY DEF IpamInv
  <2>2. CASE u # v
    <3>1. obj'[u] = obj[u] /\ cache'[u] = cache[u] /\ worker'[u] = worker[u] /\ late' = late
      BY <2>2
    <3>. QED  BY <1>1, <2>1, <3>1 DEF CacheIsRight, WorkerIsRight
  <2>. QED  BY <2>2
<1>3. RunIsRight'
  <2>1. run # NULL => worker'[run.vm] = worker[run.vm]
    BY DEF IpamInv, RunIsRight
  <2>. QED  BY <2>1 DEF IpamInv, RunIsRight
<1>4. LateIsRight'
  <2>1. ASSUME late # NULL, NEW a \in IPRanges[late.range], pools[late.range][a] # NULL,
               obj[pools[late.range][a]].phase # "running"
        PROVE  obj'[pools[late.range][a]].phase # "running"
    <3>1. pools[late.range][a] \in VMs
      BY <2>1 DEF IpamInv, LateIsRight, IpamTypes, PoolTypes, Reservations
    <3>. QED  BY <2>1, <3>1
  <2>. QED  BY <2>1 DEF IpamInv, LateIsRight
<1>5. AddressesAreOwned'
  <2>1. \A u \in VMs : obj[u].phase = "running" => Reserved(u, obj[u].ExtraNetIP)
    BY DEF IpamInv, AddressesAreOwned, Reserved
  <2>2. ASSUME NEW u \in VMs, obj'[u].phase = "running"  PROVE Reserved(u, obj'[u].ExtraNetIP)
    BY <2>1, <2>2
  <2>. QED  BY <2>2 DEF AddressesAreOwned, Reserved
<1>. QED  BY <1>2, <1>3, <1>4, <1>5 DEF IpamInv

LEMMA WriteKeeps ==
    ASSUME IpamInv, NEW v \in VMs, NEW phase \in {"absent", "new", "running", "deleting"},
           NEW ip \in Nat \union {NULL}, Write(v, phase, ip), UNCHANGED <<pools, cache, run, late>>,
           worker' = worker \/ worker' = [worker EXCEPT ![v] = NULL],
           run # NULL /\ run.vm = v => worker'[v] = worker[v],
           phase = "running" => /\ cache[v].phase # "deleting" /\ late = NULL /\ Reserved(v, ip)
                                /\ worker'[v] = NULL
    PROVE  IpamInv'
<1>. DEFINE new == [version |-> obj[v].version + 1, phase |-> phase, ExtraNetIP |-> ip]
<1>1. /\ obj \in [VMs -> Objects] /\ cache \in [VMs -> Objects]
      /\ worker \in [VMs -> Workers \union {NULL}] /\ PoolTypes
  BY DEF IpamInv, IpamTypes
<1>2. obj' = [obj EXCEPT ![v] = new]
  BY DEF Write
<1>3. new \in Objects
  BY <1>1 DEF Objects
<1>4. new.version = obj[v].version + 1 /\ new.phase = phase /\ new.ExtraNetIP = ip
  OBVIOUS
<1>. HIDE DEF new
<1>5. obj' \in [VMs -> Objects] /\ obj'[v] = new /\ \A u \in VMs \ {v} : obj'[u] = obj[u]
  BY <1>1, <1>2, <1>3
<1>6. /\ worker' \in [VMs -> Workers \union {NULL}]
      /\ \A u \in VMs \ {v} : worker'[u] = worker[u]
      /\ worker'[v] = worker[v] \/ worker'[v] = NULL
  BY <1>1
<1>7. IpamTypes'
  BY <1>1, <1>5, <1>6 DEF IpamTypes, PoolTypes
<1>9. CacheIsRight(v) /\ WorkerIsRight(v)
  BY DEF IpamInv
<1>10. CacheIsRight(v)'
  <2>1. obj[v].version \in Nat /\ cache[v].version \in Nat
    BY <1>1 DEF Objects
  <2>2. cache[v].version < obj'[v].version
    BY <1>4, <1>5, <1>9, <2>1 DEF CacheIsRight
  <2>3. cache[v].version <= obj'[v].version /\ cache[v].version # obj'[v].version
    BY <1>4, <1>5, <2>1, <2>2
  <2>. QED  BY <1>4, <1>5, <2>3 DEF CacheIsRight
<1>11. WorkerIsRight(v)'
  <2>. SUFFICES ASSUME worker'[v] # NULL  PROVE WorkerIsRight(v)'
    BY DEF WorkerIsRight
  <2>1. worker'[v] = worker[v] /\ worker[v] # NULL /\ phase # "running"
    BY <1>6
  <2>2. obj[v].version \in Nat /\ cache[v].version \in Nat /\ worker[v].version \in Nat
    BY <1>1, <2>1 DEF Objects, Workers
  <2>3. worker[v].version <= cache[v].version /\ cache[v].version <= obj[v].version
    BY <1>9, <2>1 DEF CacheIsRight, WorkerIsRight
  <2>4. worker[v].version # obj'[v].version
    BY <1>4, <1>5, <2>2, <2>3
  <2>5. Reserved(v, worker[v].ip)' <=> Reserved(v, worker[v].ip)
    BY <2>1 DEF Reserved
  <2>. QED  BY <1>4, <1>5, <1>9, <2>1, <2>3, <2>4, <2>5 DEF WorkerIsRight
<1>. QED
  BY <1>4, <1>5, <1>6, <1>7, <1>10, <1>11, StepOfOne

LEMMA ObjectSteps ==
    ASSUME IpamInv, NEW v \in VMs, Create(v) \/ Delete(v)
    PROVE  IpamInv'
<1>1. obj[v].ExtraNetIP \in Nat \union {NULL}
  BY DEF IpamInv, IpamTypes, Objects
<1>2. CASE Create(v)
  BY <1>2, WriteKeeps DEF Create
<1>3. CASE Delete(v)
  BY <1>1, <1>3, WriteKeeps DEF Delete
<1>. QED  BY <1>2, <1>3

LEMMA CacheSteps ==
    ASSUME IpamInv, NEW v \in VMs, CacheUpdates(v)
    PROVE  IpamInv'
<1>1. /\ obj \in [VMs -> Objects] /\ cache \in [VMs -> Objects]
      /\ worker \in [VMs -> Workers \union {NULL}] /\ PoolTypes
  BY DEF IpamInv, IpamTypes
<1>2. UNCHANGED <<pools, obj, worker, run, late>>
  BY DEF CacheUpdates
<1>3. cache' \in [VMs -> Objects] /\ cache'[v] = obj[v] /\ \A u \in VMs \ {v} : cache'[u] = cache[u]
  BY <1>1 DEF CacheUpdates
<1>4. IpamTypes'
  BY <1>1, <1>2, <1>3 DEF IpamTypes, PoolTypes
<1>5. CacheIsRight(v) /\ WorkerIsRight(v)
  BY DEF IpamInv
<1>6. CacheIsRight(v)'
  BY <1>1, <1>2, <1>3 DEF CacheIsRight, Objects
<1>7. WorkerIsRight(v)'
  <2>1. worker[v] # NULL => worker[v].version <= obj[v].version
    BY <1>1, <1>5 DEF CacheIsRight, WorkerIsRight, Objects, Workers
  <2>2. Reserved(v, worker[v].ip)' <=> Reserved(v, worker[v].ip)
    BY <1>2 DEF Reserved
  <2>. QED  BY <1>2, <1>3, <1>5, <2>1, <2>2 DEF WorkerIsRight
<1>8. obj[v].phase = "running" => Reserved(v, obj[v].ExtraNetIP)
  BY DEF IpamInv, AddressesAreOwned, Reserved
<1>. QED  BY <1>2, <1>3, <1>4, <1>6, <1>7, <1>8, StepOfOne

LEMMA StartSteps ==
    ASSUME IpamInv, NEW v \in VMs, Start(v)
    PROVE  IpamInv'
<1>. DEFINE new == [action |-> IF cache[v].phase = "new" THEN "acquire" ELSE "release",
                    version |-> cache[v].version, at |-> "waiting", ip |-> NULL]
<1>1. /\ obj \in [VMs -> Objects] /\ cache \in [VMs -> Objects]
      /\ worker \in [VMs -> Workers \union {NULL}] /\ PoolTypes
  BY DEF IpamInv, IpamTypes
<1>2. /\ UNCHANGED <<pools, obj, cache, run, late>>
      /\ worker[v] = NULL /\ worker' = [worker EXCEPT ![v] = new]
      /\ cache[v].phase \in {"new", "deleting"}
  BY DEF Start
<1>3. /\ new \in Workers /\ new.version = cache[v].version /\ new.at = "waiting"
      /\ new.action = IF cache[v].phase = "new" THEN "acquire" ELSE "release"
  BY <1>1 DEF Objects, Workers
<1>. HIDE DEF new
<1>4. /\ worker' \in [VMs -> Workers \union {NULL}] /\ worker'[v] = new
      /\ \A u \in VMs \ {v} : worker'[u] = worker[u]
  BY <1>1, <1>2, <1>3
<1>5. IpamTypes'
  BY <1>1, <1>2, <1>4 DEF IpamTypes, PoolTypes
<1>6. CacheIsRight(v) /\ CacheIsRight(v)'
  BY <1>2 DEF IpamInv, CacheIsRight
<1>7. WorkerIsRight(v)'
  <2>1. new.version <= cache[v].version
    BY <1>1, <1>3 DEF Objects
  <2>2. new.version = obj[v].version => cache[v] = obj[v]
    BY <1>3, <1>6 DEF CacheIsRight
  <2>3. new.action = "release" => obj[v].phase # "running"
    BY <1>2, <1>3, <1>6 DEF CacheIsRight
  <2>. QED  BY <1>2, <1>3, <1>4, <2>1, <2>2, <2>3 DEF WorkerIsRight
<1>8. obj[v].phase = "running" => Reserved(v, obj[v].ExtraNetIP)
  BY DEF IpamInv, AddressesAreOwned, Reserved
<1>9. run # NULL => run.vm # v
  BY <1>2 DEF IpamInv, RunIsRight
<1>. QED  BY <1>2, <1>4, <1>5, <1>6, <1>7, <1>8, <1>9, StepOfOne

\* The write of the status or of the finalizer: a VM comes to run only if the worker has read the
\* object as it is, which is new.
LEMMA FinishSteps ==
    ASSUME IpamInv, NEW v \in VMs, Finish(v)
    PROVE  IpamInv'
<1>1. /\ obj \in [VMs -> Objects] /\ cache \in [VMs -> Objects]
      /\ worker \in [VMs -> Workers \union {NULL}] /\ PoolTypes
  BY DEF IpamInv, IpamTypes
<1>2. /\ UNCHANGED <<pools, cache, run, late>>
      /\ worker[v] # NULL /\ worker[v].at = "done" /\ worker' = [worker EXCEPT ![v] = NULL]
  BY DEF Finish
<1>3. /\ worker' \in [VMs -> Workers \union {NULL}] /\ worker'[v] = NULL
      /\ \A u \in VMs \ {v} : worker'[u] = worker[u]
  BY <1>1, <1>2
<1>4. CacheIsRight(v) /\ WorkerIsRight(v)
  BY DEF IpamInv
<1>5. run # NULL => run.vm # v
  BY <1>2 DEF IpamInv, RunIsRight
<1>6. CASE UNCHANGED obj
  <2>1. IpamTypes'
    BY <1>1, <1>2, <1>3, <1>6 DEF IpamTypes, PoolTypes
  <2>2. CacheIsRight(v)' /\ WorkerIsRight(v)'
    BY <1>2, <1>3, <1>4, <1>6 DEF CacheIsRight, WorkerIsRight
  <2>3. obj[v].phase = "running" => Reserved(v, obj[v].ExtraNetIP)
    BY DEF IpamInv, AddressesAreOwned, Reserved
  <2>. QED  BY <1>2, <1>3, <1>5, <1>6, <2>1, <2>2, <2>3, StepOfOne
<1>7. CASE worker[v].action = "acquire" /\ worker[v].version = obj[v].version
           /\ Write(v, "running", worker[v].ip)
  <2>1. worker[v].ip \in Nat \union {NULL}
    BY <1>1, <1>2 DEF Workers
  <2>2. Reserved(v, worker[v].ip) /\ late = NULL
    BY <1>2, <1>4, <1>7 DEF WorkerIsRight
  <2>3. cache[v] = obj[v] /\ obj[v].phase = "new"
    <3>1. obj[v].version \in Nat /\ cache[v].version \in Nat
      BY <1>1 DEF Objects
    <3>2. obj[v].phase = "new" /\ obj[v].version <= cache[v].version
      BY <1>2, <1>4, <1>7 DEF WorkerIsRight
    <3>. QED  BY <1>4, <3>1, <3>2 DEF CacheIsRight
  <2>. QED  BY <1>2, <1>3, <1>5, <1>7, <2>1, <2>2, <2>3, WriteKeeps
<1>8. CASE Write(v, "absent", NULL)
  BY <1>2, <1>3, <1>5, <1>8, WriteKeeps
<1>. QED  BY <1>6, <1>7, <1>8 DEF Finish

LEMMA LockSteps ==
    ASSUME IpamInv, NEW v \in VMs, Lock(v)
    PROVE  IpamInv'
<1>1. /\ obj \in [VMs -> Objects] /\ cache \in [VMs -> Objects]
      /\ worker \in [VMs -> Workers \union {NULL}] /\ PoolTypes
  BY DEF IpamInv, IpamTypes
<1>2. /\ UNCHANGED <<pools, obj, cache, late>>
      /\ worker[v] # NULL /\ worker' = [worker EXCEPT ![v].at = "running"]
      /\ run' = AtRange(v, 1, 0)
  BY DEF Lock
<1>3. /\ worker'[v] \in Workers /\ worker'[v].at = "running"
      /\ worker'[v].version = worker[v].version /\ worker'[v].action = worker[v].action
  BY <1>1, <1>2 DEF Workers
<1>4. worker' \in [VMs -> Workers \union {NULL}] /\ \A u \in VMs \ {v} : worker'[u] = worker[u]
  BY <1>1, <1>2 DEF Workers
<1>5. IpamTypes'
  BY <1>1, <1>2, <1>4 DEF IpamTypes, PoolTypes
<1>6. \A u \in VMs : \A ip : Reserved(u, ip)' <=> Reserved(u, ip)
  BY <1>2 DEF Reserved
<1>7. ASSUME NEW u \in VMs  PROVE CacheIsRight(u)' /\ WorkerIsRight(u)'
  <2>1. CacheIsRight(u) /\ WorkerIsRight(u)
    BY DEF IpamInv
  <2>2. CacheIsRight(u)'
    BY <1>2, <2>1 DEF CacheIsRight
  <2>3. CASE u # v
    <3>1. worker'[u] = worker[u]
      BY <1>4, <2>3
    <3>2. WorkerIsRight(u)'
      BY <1>2, <1>6, <2>1, <3>1 DEF WorkerIsRight
    <3>. QED  BY <2>2, <3>2
  <2>4. CASE u = v
    BY <1>2, <1>3, <2>1, <2>2, <2>4 DEF WorkerIsRight
  <2>. QED  BY <2>3, <2>4
<1>8. RunIsRight'
  <2>1. worker'[v] # NULL
    BY <1>3, RangesAssumption
  <2>. QED  BY <1>2, <1>3, <2>1, RangesAreSets DEF RunIsRight, AtRange
<1>9. LateIsRight' /\ AddressesAreOwned'
  BY <1>2 DEF IpamInv, LateIsRight, AddressesAreOwned
<1>. QED  BY <1>5, <1>7, <1>8, <1>9 DEF IpamInv

\* The pool is written: whoever does not release keeps what it has, and who acquires has it.
LEMMA PoolWritten ==
    ASSUME IpamInv, run # NULL, run.at = "update", run.fresh,
           WritePool(run.range, run.new)
    PROVE  /\ PoolTypes'
           /\ \A v \in VMs : Keeps(v) => \A ip : Reserved(v, ip) => Reserved(v, ip)'
           /\ worker[run.vm].action = "acquire" =>
                 run.ip \in Nat /\ \A v, ip : v = run.vm /\ ip = run.ip => Reserved(v, ip)'
           /\ worker[run.vm].action = "release" => run.ip = NULL
<1>1. /\ PoolTypes /\ run.range \in Ranges /\ run.vm \in VMs
      /\ pools[run.range] # NULL /\ run.new \in Reservations(run.range)
      /\ ChangesOwn(run.vm, worker[run.vm].action, pools[run.range], run.new, run.ip)
  BY DEF IpamInv, IpamTypes, RunIsRight
<1>2. /\ DOMAIN pools' = Ranges /\ pools'[run.range] = run.new
      /\ \A i \in Ranges \ {run.range} : pools'[i] = pools[i]
  BY <1>1 DEF WritePool, PoolTypes
<1>3. run.new # NULL
  BY <1>1, RangesAssumption
<1>4. PoolTypes'
  BY <1>1, <1>2 DEF PoolTypes
<1>5. DOMAIN pools[run.range] = IPRanges[run.range]
  BY <1>1 DEF PoolTypes, Reservations
<1>6. ASSUME NEW v \in VMs, Keeps(v), NEW ip, Reserved(v, ip)  PROVE Reserved(v, ip)'
  <2>1. PICK i \in Ranges : ip \in IPRanges[i] /\ pools[i] # NULL /\ pools[i][ip] = v
    BY <1>6 DEF Reserved
  <2>2. CASE i = run.range
    <3>1. v # NULL
      BY RangesAssumption
    <3>2. run.new[ip] = v
      BY <1>1, <1>5, <1>6, <2>1, <2>2, <3>1 DEF ChangesOwn, Keeps
    <3>. QED  BY <1>2, <1>3, <2>1, <2>2, <3>2 DEF Reserved
  <2>3. CASE i # run.range
    BY <1>2, <2>1, <2>3 DEF Reserved
  <2>. QED  BY <2>2, <2>3
<1>7. ASSUME worker[run.vm].action = "acquire"  
      PROVE  run.ip \in Nat /\ \A v, ip : v = run.vm /\ ip = run.ip => Reserved(v, ip)'
  <2>1. run.ip \in IPRanges[run.range] /\ run.new[run.ip] = run.vm
    BY <1>1, <1>5, <1>7 DEF ChangesOwn
  <2>2. run.ip \in Nat
    BY <1>1, <2>1, RangesAreSets
  <2>3. ASSUME NEW v, NEW ip, v = run.vm, ip = run.ip  PROVE Reserved(v, ip)'
    BY <1>1, <1>2, <1>3, <2>1, <2>3 DEF Reserved
  <2>. QED  BY <2>2, <2>3
<1>8. worker[run.vm].action = "release" => run.ip = NULL
  BY <1>1 DEF ChangesOwn
<1>. QED  BY <1>4, <1>6, <1>7, <1>8

LEMMA ReadSteps ==
    ASSUME IpamInv, getNeonvmIPPool
    PROVE  IpamInv'
<1>1. run # NULL /\ run.at = "read" /\ UNCHANGED <<obj, cache>>
  BY DEF getNeonvmIPPool
<1>2. /\ PoolTypes /\ run.vm \in VMs /\ run.range \in Ranges
      /\ worker[run.vm] # NULL /\ worker[run.vm].at = "running"
      /\ worker[run.vm].action \in {"acquire", "release"}
  BY <1>1 DEF IpamInv, RunIsRight, IpamTypes, Workers
<1>3. ASSUME RangeFails, UNCHANGED <<pools, late>>  PROVE IpamInv'
  <2>1. Moved
    BY <1>1, <1>3, Moves
  <2>2. PoolTypes' /\ \A v, ip : Reserved(v, ip) => Reserved(v, ip)'
    BY <1>2, <1>3 DEF PoolTypes, Reserved
  <2>. QED  BY <1>1, <1>3, <2>1, <2>2, MovedKeeps
<1>4. CASE CreatePool
  <2>1. Moved
    BY <1>1, <1>4, Moves DEF CreatePool
  <2>2. /\ pools[run.range] = NULL /\ late' = late
        /\ pools' = [pools EXCEPT ![run.range] = [a \in IPRanges[run.range] |-> NULL]]
    BY <1>4 DEF CreatePool, WritePool
  <2>3. DOMAIN pools' = Ranges /\ \A i \in Ranges : pools[i] # NULL => pools'[i] = pools[i]
    BY <1>2, <2>2 DEF PoolTypes
  <2>4. PoolTypes'
    BY <1>2, <2>2 DEF PoolTypes, Reservations
  <2>5. \A v, ip : Reserved(v, ip) => Reserved(v, ip)'
    BY <2>3 DEF Reserved
  <2>6. late # NULL => pools'[late.range] = pools[late.range]
    BY <2>3 DEF IpamInv, LateIsRight
  <2>. QED  BY <1>1, <2>1, <2>2, <2>4, <2>5, <2>6, MovedKeeps
<1>5. CASE Act
  <2>. DEFINE r == pools[run.range]
              action == worker[run.vm].action
              result == IF action = "acquire" THEN doAcquire(r, run.vm) ELSE doRelease(r, run.vm)
  <2>1. r # NULL /\ UNCHANGED <<pools, late>>
    BY <1>5 DEF Act
  <2>2. CASE RangeFails
    BY <1>3, <2>1, <2>2
  <2>3. CASE /\ action = "acquire" => CanAcquire(r, run.vm)
             /\ run' = [run EXCEPT !.at = "update", !.new = result.new, !.ip = result.ip, !.fresh = TRUE]
             /\ UNCHANGED worker
    <3>1. r \in Reservations(run.range)
      BY <1>2, <2>1 DEF PoolTypes
    <3>2. result.new \in Reservations(run.range) /\ ChangesOwn(run.vm, action, r, result.new, result.ip)
      BY <1>2, <2>3, <3>1, Acquired, Released
    <3>. HIDE DEF result
    <3>3. /\ DOMAIN run' = DOMAIN run /\ run'.vm = run.vm /\ run'.range = run.range
          /\ run'.new = result.new /\ run'.ip = result.ip /\ run'.fresh = TRUE
      BY <1>1, <2>3 DEF IpamInv, RunIsRight
    <3>4. RunIsRight'
      <4>1. DOMAIN run = {"vm", "range", "retry", "at", "new", "ip", "fresh"}
        BY <1>1 DEF IpamInv, RunIsRight
      <4>. QED  BY <1>2, <2>1, <2>3, <3>2, <3>3, <4>1 DEF RunIsRight
    <3>5. IpamTypes' /\ \A v \in VMs : CacheIsRight(v)' /\ WorkerIsRight(v)'
      BY <1>1, <2>1, <2>3 DEF IpamInv, IpamTypes, PoolTypes, CacheIsRight, WorkerIsRight, Reserved
    <3>6. LateIsRight' /\ AddressesAreOwned'
      BY <1>1, <2>1 DEF IpamInv, LateIsRight, AddressesAreOwned
    <3>. QED  BY <3>4, <3>5, <3>6 DEF IpamInv
  <2>. QED  BY <1>5, <2>2, <2>3 DEF Act
<1>. QED  BY <1>3, <1>4, <1>5 DEF getNeonvmIPPool

LEMMA UpdateSteps ==
    ASSUME IpamInv, UpdatePool
    PROVE  IpamInv'
<1>1. run # NULL /\ run.at = "update" /\ late = NULL /\ UNCHANGED <<obj, cache, late>>
  BY DEF UpdatePool, UpdateError
<1>2. /\ PoolTypes /\ run.vm \in VMs /\ worker \in [VMs -> Workers \union {NULL}]
      /\ worker[run.vm] # NULL /\ worker[run.vm].at = "running"
  BY <1>1 DEF IpamInv, RunIsRight, IpamTypes
<1>3. ASSUME RangeFails \/ Temporary, UNCHANGED pools  PROVE IpamInv'
  <2>1. Moved
    BY <1>1, <1>3, Moves
  <2>2. PoolTypes' /\ \A v, ip : Reserved(v, ip) => Reserved(v, ip)'
    BY <1>2, <1>3 DEF PoolTypes, Reserved
  <2>. QED  BY <1>1, <1>3, <2>1, <2>2, MovedKeeps
<1>4. ASSUME run.fresh, WritePool(run.range, run.new), RangeFails  PROVE IpamInv'
  <2>1. Moved
    BY <1>1, <1>4, Moves
  <2>. QED  BY <1>1, <1>4, <2>1, PoolWritten, MovedKeeps
<1>5. ASSUME run.fresh, WritePool(run.range, run.new), Succeeds  PROVE IpamInv'
  <2>1. /\ PoolTypes'
        /\ \A v \in VMs : Keeps(v) => \A ip : Reserved(v, ip) => Reserved(v, ip)'
        /\ worker[run.vm].action = "acquire" =>
              run.ip \in Nat /\ \A v, ip : v = run.vm /\ ip = run.ip => Reserved(v, ip)'
        /\ worker[run.vm].action = "release" => run.ip = NULL
    BY <1>1, <1>5, PoolWritten
  <2>2. run' = NULL /\ worker' = [worker EXCEPT ![run.vm].at = "done", ![run.vm].ip = run.ip]
    BY <1>5 DEF Succeeds
  <2>3. worker[run.vm] \in Workers
    BY <1>2
  <2>4. run.ip \in Nat \union {NULL}
    BY <2>1, <2>3 DEF Workers
  <2>5. /\ worker'[run.vm] \in Workers /\ worker'[run.vm].ip = run.ip
        /\ worker'[run.vm].version = worker[run.vm].version
        /\ worker'[run.vm].action = worker[run.vm].action
    BY <1>2, <2>2, <2>3, <2>4 DEF Workers
  <2>6. worker' \in [VMs -> Workers \union {NULL}] /\ \A v \in VMs \ {run.vm} : worker'[v] = worker[v]
    BY <1>2, <2>2, <2>4 DEF Workers
  <2>7. IpamTypes'
    BY <1>1, <2>1, <2>6 DEF IpamInv, IpamTypes
  <2>8. ASSUME NEW v \in VMs  PROVE CacheIsRight(v)' /\ WorkerIsRight(v)'
    <3>1. CacheIsRight(v) /\ WorkerIsRight(v)
      BY DEF IpamInv
    <3>2. CacheIsRight(v)'
      BY <1>1, <3>1 DEF CacheIsRight
    <3>3. CASE v # run.vm
      <4>1. Keeps(v) /\ worker'[v] = worker[v]
        BY <2>6, <3>3 DEF Keeps
      <4>2. WorkerIsRight(v)'
        BY <1>1, <2>1, <3>1, <4>1 DEF WorkerIsRight
      <4>. QED  BY <3>2, <4>2
    <3>4. CASE v = run.vm
      <4>1. worker[v].action = "acquire" => \A ip : ip = worker'[v].ip => Reserved(v, ip)'
        BY <2>1, <2>5, <3>4
      <4>2. worker[v].action = "acquire" => Reserved(v, worker[v].ip)'
        BY <4>1
      <4>3. /\ worker'[v].version = worker[v].version /\ worker'[v].action = worker[v].action
            /\ worker[v] # NULL /\ late' = NULL
        BY <1>1, <1>2, <2>5, <3>4
      <4>4. WorkerIsRight(v)'
        BY <1>1, <3>1, <4>2, <4>3 DEF WorkerIsRight
      <4>. QED  BY <3>2, <4>4
    <3>. QED  BY <3>3, <3>4
  <2>9. RunIsRight' /\ LateIsRight'
    BY <1>1, <2>2 DEF RunIsRight, LateIsRight
  <2>10. AddressesAreOwned'
    <3>1. ASSUME NEW v \in VMs, obj[v].phase = "running"  PROVE Keeps(v)
      <4>1. worker[run.vm].action = "release" => obj[run.vm].phase # "running"
        BY <1>2 DEF IpamInv, WorkerIsRight
      <4>. QED  BY <2>3, <3>1, <4>1 DEF Keeps, Workers
    <3>2. \A v \in VMs : obj[v].phase = "running" => Reserved(v, obj[v].ExtraNetIP)
      BY DEF IpamInv, AddressesAreOwned, Reserved
    <3>3. \A v \in VMs : obj[v].phase = "running" => Reserved(v, obj[v].ExtraNetIP)'
      BY <1>1, <2>1, <3>1, <3>2
    <3>. QED  BY <1>1, <3>3 DEF AddressesAreOwned, Reserved
  <2>. QED  BY <2>7, <2>8, <2>9, <2>10 DEF IpamInv
<1>. QED  BY <1>3, <1>4, <1>5 DEF UpdatePool, UpdateError

LEMMA ContextSteps ==
    ASSUME IpamInv, ContextDone
    PROVE  IpamInv'
<1>1. run # NULL /\ Return(run.vm) /\ UNCHANGED <<pools, obj, cache, late>>
  BY DEF ContextDone
<1>2. Moved
  BY <1>1, Moves
<1>3. PoolTypes' /\ \A v, ip : Reserved(v, ip) => Reserved(v, ip)'
  BY <1>1 DEF IpamInv, IpamTypes, PoolTypes, Reserved
<1>. QED  BY <1>1, <1>2, <1>3, MovedKeeps

(***************************************************************************)
(* The controller dies                                                     *)
(***************************************************************************)
\* The update that is on its way is one of a call, which takes no address from a VM that runs.
LEMMA CrashSteps ==
    ASSUME IpamInv, Crash
    PROVE  IpamInv'
<1>1. /\ UNCHANGED <<pools, obj>> /\ worker' = [v \in VMs |-> NULL] /\ run' = NULL /\ cache' = obj
      /\ obj \in [VMs -> Objects] /\ PoolTypes
  BY DEF Crash, IpamInv, IpamTypes
<1>2. IpamTypes'
  BY <1>1 DEF IpamTypes, PoolTypes
<1>3. \A v \in VMs : CacheIsRight(v)' /\ WorkerIsRight(v)'
  BY <1>1 DEF CacheIsRight, WorkerIsRight, Objects
<1>4. RunIsRight' /\ AddressesAreOwned'
  BY <1>1 DEF IpamInv, RunIsRight, AddressesAreOwned
<1>5. LateIsRight'
  <2>1. CASE UNCHANGED late
    BY <1>1, <2>1 DEF IpamInv, LateIsRight
  <2>2. CASE run # NULL /\ run.at = "update" /\ run.fresh /\ late' = [range |-> run.range, new |-> run.new]
    <3>1. /\ run.vm \in VMs /\ worker[run.vm] # NULL
          /\ run.range \in Ranges /\ pools[run.range] # NULL /\ run.new \in Reservations(run.range)
          /\ ChangesOwn(run.vm, worker[run.vm].action, pools[run.range], run.new, run.ip)
      BY <2>2 DEF IpamInv, RunIsRight
    <3>2. /\ worker[run.vm].action \in {"acquire", "release"}
          /\ worker[run.vm].action = "release" => obj[run.vm].phase # "running"
      BY <3>1 DEF IpamInv, IpamTypes, WorkerIsRight, Workers
    <3>3. DOMAIN pools[run.range] = IPRanges[run.range]
      BY <1>1, <3>1 DEF PoolTypes, Reservations
    <3>4. \A a \in IPRanges[run.range] :
             \/ run.new[a] = pools[run.range][a]
             \/ pools[run.range][a] = NULL
             \/ obj[pools[run.range][a]].phase # "running"
      BY <3>1, <3>2, <3>3 DEF ChangesOwn
    <3>5. late'.range = run.range /\ late'.new = run.new
      BY <2>2
    <3>. QED  BY <1>1, <3>1, <3>4, <3>5 DEF LateIsRight
  <2>. QED  BY <2>1, <2>2 DEF Crash
<1>. QED  BY <1>2, <1>3, <1>4, <1>5 DEF IpamInv

LEMMA LateSteps ==
    ASSUME IpamInv, LateUpdate
    PROVE  IpamInv'
<1>1. /\ late # NULL /\ late' = NULL /\ UNCHANGED <<obj, cache, worker>>
      /\ pools' = [pools EXCEPT ![late.range] = late.new]
  BY DEF LateUpdate, WritePool
<1>2. /\ PoolTypes /\ late.range \in Ranges /\ pools[late.range] # NULL
      /\ late.new \in Reservations(late.range) /\ late.new # NULL
  BY <1>1, RangesAssumption DEF IpamInv, IpamTypes, LateIsRight
<1>3. /\ DOMAIN pools' = Ranges /\ pools'[late.range] = late.new
      /\ \A i \in Ranges \ {late.range} : pools'[i] = pools[i]
  BY <1>1, <1>2 DEF PoolTypes
<1>4. IpamTypes'
  BY <1>1, <1>2, <1>3 DEF IpamInv, IpamTypes, PoolTypes
<1>5. ASSUME NEW v \in VMs  PROVE CacheIsRight(v)' /\ WorkerIsRight(v)'
  <2>1. CacheIsRight(v) /\ WorkerIsRight(v)
    BY DEF IpamInv
  <2>2. worker[v] # NULL => worker[v].at # "done"
    BY <1>1, <2>1 DEF WorkerIsRight
  <2>. QED  BY <1>1, <2>1, <2>2 DEF CacheIsRight, WorkerIsRight
<1>6. RunIsRight'
  <2>1. CASE run = NULL
    BY <2>1 DEF LateUpdate, RunIsRight
  <2>2. CASE run # NULL /\ run.range # late.range
    <3>1. run' = run /\ RunIsRight
      BY <2>2 DEF LateUpdate, IpamInv
    <3>2. run.range \in Ranges /\ pools'[run.range] = pools[run.range]
      BY <1>3, <2>2, <3>1 DEF RunIsRight
    <3>. QED  BY <1>1, <2>2, <3>1, <3>2 DEF RunIsRight
  <2>3. CASE run # NULL /\ run.range = late.range
    <3>1. RunIsRight /\ run.fresh
      BY <1>1, <2>3 DEF IpamInv, RunIsRight
    <3>2. run' = [run EXCEPT !.fresh = (pools[late.range] = late.new)]
      BY <2>3 DEF LateUpdate
    <3>3. /\ DOMAIN run' = DOMAIN run /\ run'.vm = run.vm /\ run'.range = run.range /\ run'.at = run.at
          /\ run'.new = run.new /\ run'.ip = run.ip /\ run'.fresh = (pools[late.range] = late.new)
      BY <2>3, <3>1, <3>2 DEF RunIsRight
    <3>4. run'.fresh => pools'[run.range] = pools[run.range]
      BY <1>3, <2>3, <3>3
    <3>. QED  BY <1>1, <2>3, <3>1, <3>3, <3>4 DEF RunIsRight
  <2>. QED  BY <2>1, <2>2, <2>3
<1>7. LateIsRight'
  BY <1>1 DEF LateIsRight
<1>8. AddressesAreOwned'
  <2>1. ASSUME NEW v \in VMs, obj[v].phase = "running"
        PROVE  \E i \in Ranges : /\ obj[v].ExtraNetIP \in IPRanges[i]
                                 /\ pools'[i] # NULL
                                 /\ pools'[i][obj[v].ExtraNetIP] = v
    <3>1. PICK i \in Ranges : /\ obj[v].ExtraNetIP \in IPRanges[i]
                              /\ pools[i] # NULL
                              /\ pools[i][obj[v].ExtraNetIP] = v
      BY <2>1 DEF IpamInv, AddressesAreOwned
    <3>2. i = late.range => late.new[obj[v].ExtraNetIP] = v
      <4>1. v # NULL
        BY RangesAssumption
      <4>. QED  BY <1>1, <2>1, <3>1, <4>1 DEF IpamInv, LateIsRight
    <3>. QED  BY <1>2, <1>3, <3>1, <3>2
  <2>. QED  BY <1>1, <2>1 DEF AddressesAreOwned
<1>. QED  BY <1>4, <1>5, <1>6, <1>7, <1>8 DEF IpamInv

(***************************************************************************)
(* Theorem                                                                 *)
(***************************************************************************)
\* The address in a running VM's status is reserved for that VM and no other,
\* from acquireOverlayIP until the finalizer's ReleaseIP, whatever stale copies, retries of
\* runIPAMRange, failed writes, crashes and earlier VMs of the same name there were.
THEOREM AddressesAreOwnedHolds ==
    IpamSpec => []AddressesAreOwned
<1>1. IpamInit => IpamInv
  <2>. SUFFICES ASSUME IpamInit  PROVE IpamInv
    OBVIOUS
  <2>1. obj \in [VMs -> Objects] /\ cache = obj /\ \A v \in VMs : obj[v].phase = "absent"
    BY DEF IpamInit, Objects
  <2>2. IpamTypes
    BY <2>1 DEF IpamInit, IpamTypes, PoolTypes
  <2>3. \A v \in VMs : CacheIsRight(v) /\ WorkerIsRight(v)
    BY <2>1 DEF IpamInit, CacheIsRight, WorkerIsRight, Objects
  <2>. QED  BY <2>1, <2>2, <2>3 DEF IpamInit, IpamInv, RunIsRight, LateIsRight, AddressesAreOwned
<1>2. IpamInv /\ [IpamNext]_addressVars => IpamInv'
  <2>1. ASSUME IpamInv, UNCHANGED addressVars  PROVE IpamInv'
    <3>1. UNCHANGED <<pools, obj, cache, worker, run, late>>
      BY <2>1 DEF addressVars
    <3>2. IpamTypes' /\ AddressesAreOwned'
      BY <2>1, <3>1 DEF IpamInv, IpamTypes, PoolTypes, AddressesAreOwned
    <3>3. \A v \in VMs : CacheIsRight(v)'
      BY <2>1, <3>1 DEF IpamInv, CacheIsRight
    <3>4. ASSUME NEW v \in VMs  PROVE WorkerIsRight(v)'
      BY <2>1, <3>1 DEF IpamInv, WorkerIsRight, Reserved
    <3>5. RunIsRight' /\ LateIsRight'
      BY <2>1, <3>1 DEF IpamInv, RunIsRight, LateIsRight
    <3>. QED  BY <3>2, <3>3, <3>4, <3>5 DEF IpamInv
  <2>2. ASSUME IpamInv, NEW v \in VMs,
               Create(v) \/ Delete(v) \/ CacheUpdates(v) \/ Start(v) \/ Lock(v) \/ Finish(v)
        PROVE  IpamInv'
    <3>1. CASE Create(v) \/ Delete(v)
      BY <2>2, <3>1, ObjectSteps
    <3>2. CASE CacheUpdates(v)
      BY <2>2, <3>2, CacheSteps
    <3>3. CASE Start(v)
      BY <2>2, <3>3, StartSteps
    <3>4. CASE Lock(v)
      BY <2>2, <3>4, LockSteps
    <3>5. CASE Finish(v)
      BY <2>2, <3>5, FinishSteps
    <3>. QED  BY <2>2, <3>1, <3>2, <3>3, <3>4, <3>5
  <2>3. ASSUME IpamInv, getNeonvmIPPool \/ UpdatePool \/ ContextDone  PROVE IpamInv'
    BY <2>3, ReadSteps, UpdateSteps, ContextSteps
  <2>4. ASSUME IpamInv, Crash \/ LateUpdate  PROVE IpamInv'
    BY <2>4, CrashSteps, LateSteps
  <2>. QED  BY <2>1, <2>2, <2>3, <2>4 DEF IpamNext
<1>3. IpamInv => AddressesAreOwned
  BY DEF IpamInv
<1>. QED  BY <1>1, <1>2, <1>3, PTL DEF IpamSpec
=============================================================================
