-------------------------- MODULE WatchStoreProofs --------------------------
(***************************************************************************)
(* The store is a snapshot, its index and its listeners agree with it, and *)
(* a relist is as fresh as it was asked for, for any number of objects,    *)
(* callers, changes and failures.                                          *)
(***************************************************************************)
EXTENDS WatchStore, WellFoundedInduction, TLAPS

(***************************************************************************)
(* Versions                                                                *)
(***************************************************************************)
LEMMA SmallestNat ==
    ASSUME NEW T \in SUBSET Nat, T # {}
    PROVE  \E n \in T : \A m \in T : n <= m
<1>1. PICK n \in T : \A m \in T : ~(<<m, n>> \in OpToRel(<, Nat))
  BY Zenon, NatLessThanWellFounded, WFMin
<1>2. \A m \in T : ~(m < n)
  BY <1>1 DEF OpToRel
<1>. QED
  BY <1>2

\* A set of positions has a latest one.
LEMMA Latest ==
    ASSUME NEW r \in Nat, NEW S \in SUBSET (1..r), S # {}
    PROVE  LatestIn(S) \in S /\ \A j \in S : j <= LatestIn(S)
<1>. DEFINE T == {r - i : i \in S}
<1>1. \A i \in S : i \in Nat /\ i <= r
  OBVIOUS
<1>2. T # {} /\ T \in SUBSET Nat
  <2>1. PICK i \in S : TRUE
    OBVIOUS
  <2>2. r - i \in T
    BY <2>1
  <2>3. \A t \in T : t \in Nat
    BY <1>1
  <2>. QED
    BY <2>2, <2>3
<1>3. PICK t \in T : \A m \in T : t <= m
  BY <1>2, SmallestNat
<1>4. PICK i \in S : t = r - i
  BY <1>3
<1>5. \A j \in S : r - i <= r - j
  BY <1>3, <1>4
<1>6. \A j \in S : j <= i
  BY <1>1, <1>5
<1>. QED
  BY <1>6 DEF LatestIn

LEMMA VersionType ==
    ASSUME NEW l, NEW u, NEW r \in Nat
    PROVE  /\ VersionAt(l, u, r) \in (1..r) \union {NULL}
           /\ ChangesOf(l, u, r) = {} => VersionAt(l, u, r) = NULL
           /\ ChangesOf(l, u, r) # {} =>
                 \E i \in ChangesOf(l, u, r) :
                     /\ \A j \in ChangesOf(l, u, r) : j <= i
                     /\ VersionAt(l, u, r) = IF l[i].type = "Deleted" THEN NULL ELSE i
<1>. DEFINE S == ChangesOf(l, u, r)
<1>1. S \in SUBSET (1..r)
  BY DEF ChangesOf
<1>2. CASE S = {}
  BY <1>2 DEF VersionAt
<1>3. CASE S # {}
  <2>1. LatestIn(S) \in S /\ \A j \in S : j <= LatestIn(S)
    BY <1>1, <1>3, Latest
  <2>2. VersionAt(l, u, r) = IF l[LatestIn(S)].type = "Deleted" THEN NULL ELSE LatestIn(S)
    BY <1>3 DEF VersionAt
  <2>. QED
    BY <1>1, <1>3, <2>1, <2>2
<1>. QED
  BY <1>2, <1>3

\* Of what has changed at a position, that is the version.
LEMMA VersionThere ==
    ASSUME NEW l, NEW u, NEW r \in Nat, NEW i \in ChangesOf(l, u, r),
           \A j \in ChangesOf(l, u, r) : j <= i
    PROVE  VersionAt(l, u, r) = IF l[i].type = "Deleted" THEN NULL ELSE i
<1>1. ChangesOf(l, u, r) \in SUBSET (1..r)
  BY DEF ChangesOf
<1>2. PICK k \in ChangesOf(l, u, r) :
          /\ \A j \in ChangesOf(l, u, r) : j <= k
          /\ VersionAt(l, u, r) = IF l[k].type = "Deleted" THEN NULL ELSE k
  BY VersionType
<1>3. k = i
  BY <1>1, <1>2
<1>. QED
  BY <1>2, <1>3

\* As long as nothing of an object changes, it has the same version.
LEMMA VersionStays ==
    ASSUME NEW l, NEW u, NEW r \in Nat, NEW i \in Nat, r <= i,
           \A j \in r + 1..i : ~(l[j].type # "Other" /\ l[j].uid = u)
    PROVE  ChangesOf(l, u, i) = ChangesOf(l, u, r) /\ VersionAt(l, u, i) = VersionAt(l, u, r)
<1>1. ChangesOf(l, u, i) = ChangesOf(l, u, r)
  BY DEF ChangesOf
<1>. QED
  BY <1>1 DEF VersionAt

Entry == [type : {"Other"}] \union [type : {"Added", "Modified", "Deleted"}, uid : UIDs]

LEMMA Appended ==
    ASSUME NEW l \in Seq(Entry), NEW e \in Entry
    PROVE  /\ Append(l, e) \in Seq(Entry)
           /\ Len(Append(l, e)) = Len(l) + 1
           /\ \A i \in 1..Len(l) : Append(l, e)[i] = l[i]
           /\ Append(l, e)[Len(l) + 1] = e
<1>. HIDE DEF Entry
<1>. QED
  OBVIOUS

\* The past does not change,
LEMMA PastStays ==
    ASSUME NEW l \in Seq(Entry), NEW e \in Entry, NEW u, NEW r \in 0..Len(l)
    PROVE  /\ ChangesOf(Append(l, e), u, r) = ChangesOf(l, u, r)
           /\ VersionAt(Append(l, e), u, r) = VersionAt(l, u, r)
<1>. DEFINE m == Append(l, e)
            S == ChangesOf(l, u, r)
<1>1. \A i \in 1..r : m[i] = l[i]
  BY Appended
<1>. HIDE DEF m
<1>2. ChangesOf(m, u, r) = S
  BY <1>1 DEF ChangesOf
<1>3. S # {} => LatestIn(S) \in 1..r
  <2>1. S \in SUBSET (1..r) /\ r \in Nat
    BY DEF ChangesOf
  <2>. HIDE DEF S
  <2>. QED
    BY <2>1, Latest
<1>4. VersionAt(m, u, r) = VersionAt(l, u, r)
  BY <1>1, <1>2, <1>3 DEF VersionAt
<1>. QED
  BY <1>2, <1>4 DEF m

\* and the change makes the next version.
LEMMA NextVersion ==
    ASSUME NEW l \in Seq(Entry), NEW e \in Entry, NEW u
    PROVE  VersionAt(Append(l, e), u, Len(l) + 1) =
               IF e.type # "Other" /\ e.uid = u THEN IF e.type = "Deleted" THEN NULL ELSE Len(l) + 1
               ELSE VersionAt(l, u, Len(l))
<1>. DEFINE m == Append(l, e)
            n == Len(l) + 1
<1>1. m[n] = e /\ Len(l) \in Nat /\ VersionAt(m, u, Len(l)) = VersionAt(l, u, Len(l))
  BY Appended, PastStays
<1>. HIDE DEF m
<1>2. CASE e.type # "Other" /\ e.uid = u
  <2>1. n \in ChangesOf(m, u, n) /\ \A j \in ChangesOf(m, u, n) : j <= n
    BY <1>1, <1>2 DEF ChangesOf
  <2>2. n \in Nat
    BY <1>1
  <2>3. VersionAt(m, u, n) = IF m[n].type = "Deleted" THEN NULL ELSE n
    <3>. HIDE DEF n
    <3>. QED
      BY <2>1, <2>2, VersionThere
  <2>. QED
    BY <1>1, <1>2, <2>3 DEF m
<1>3. CASE ~(e.type # "Other" /\ e.uid = u)
  <2>1. VersionAt(m, u, n) = VersionAt(m, u, Len(l))
    BY <1>1, <1>3, VersionStays
  <2>. QED
    BY <1>1, <1>3, <2>1 DEF m
<1>. QED
  BY <1>2, <1>3

(***************************************************************************)
(* The inductive invariant                                                 *)
(***************************************************************************)
Positions ==
    /\ log \in Seq(Entry)
    /\ rv \in 0..Len(log)
    /\ listed \in 0..Len(log)

Optional(S) == S \union {NULL}

CallRecord == [ch : {"relisted", "signalRelistComplete", "closed"}, at : Nat]

ReceiverRecord == [viewed : Optional(Nat), signalled : BOOLEAN]

StoreTypes ==
    /\ objects \in [UIDs -> Optional(Nat)]
    /\ DOMAIN namespacedNames = {Name[u] : u \in UIDs}
    /\ receiver \in [UIDs -> Optional(ReceiverRecord)]
    /\ call \in [Callers -> Optional(CallRecord)]
    /\ deferredAdds \in SUBSET UIDs

IsChange(i, u) == log[i].type # "Other" /\ log[i].uid = u

\* What the API server allows: an object is added once and is not there after its deletion, and no
\* two objects have a name at the same time.
LogIsLegal ==
    /\ \A i, j \in 1..Len(log), u \in UIDs :
          i < j /\ IsChange(i, u) /\ IsChange(j, u) => log[i].type # "Deleted" /\ log[j].type # "Added"
    /\ \A i \in 1..Len(log), u \in UIDs :
          IsChange(i, u) /\ log[i].type # "Added" => VersionAt(log, u, i - 1) # NULL
    /\ \A r \in 0..Len(log), u, v \in UIDs :
          Name[u] = Name[v] /\ VersionAt(log, u, r) # NULL /\ VersionAt(log, v, r) # NULL => u = v

\* While the initial list is added, what has been is there, and nobody else can use the store.
Loading ==
    pc = "adding" =>
        \A u \in UIDs : /\ objects[u] = IF u \in deferredAdds THEN NULL ELSE VersionAt(log, u, rv)
                        /\ receiver[u] = NULL

\* What the store has, or someone listens to, has been added by then.
Known == \A u \in UIDs : objects[u] # NULL \/ receiver[u] # NULL => ChangesOf(log, u, rv) # {}

\* A list that is about to be applied is newer than the store and all it is to be signalled to.
Waiting ==
    /\ pc = "apply" => rv <= listed
    /\ \A c \in Callers : call[c] # NULL =>
          /\ call[c].at <= Len(log)
          /\ call[c].ch = "closed" => call[c].at <= rv
          /\ pc = "apply" /\ call[c].ch = "signalRelistComplete" => call[c].at <= listed

StoreInv ==
    /\ Positions /\ StoreTypes /\ LogIsLegal /\ Loading /\ Known /\ Waiting
    /\ StoreIsSnapshot /\ IndexAgrees /\ NoMissedBroadcast

(***************************************************************************)
(* The API server                                                          *)
(***************************************************************************)
\* A legal change keeps the log legal.
LEMMA LogGrows ==
    ASSUME Positions, LogIsLegal, NEW e \in Entry, log' = Append(log, e),
           e.type = "Added" => /\ ChangesOf(log, e.uid, Len(log)) = {}
                               /\ \A v \in UIDs : Name[v] = Name[e.uid] => VersionAt(log, v, Len(log)) = NULL,
           e.type \in {"Modified", "Deleted"} => VersionAt(log, e.uid, Len(log)) # NULL
    PROVE  LogIsLegal'
<1>. DEFINE n == Len(log)
<1>1. /\ n \in Nat /\ Len(log') = n + 1 /\ log'[n + 1] = e
      /\ \A i \in 1..n : log'[i] = log[i]
  BY Appended DEF Positions
<1>2. e.type \in {"Other", "Added", "Modified", "Deleted"} /\ (e.type # "Other" => e.uid \in UIDs)
  BY DEF Entry
<1>3. \A r \in 0..n, u \in UIDs : VersionAt(log', u, r) = VersionAt(log, u, r)
  BY PastStays DEF Positions
<1>4. \A u \in UIDs : VersionAt(log', u, n + 1) =
               IF e.type # "Other" /\ e.uid = u THEN IF e.type = "Deleted" THEN NULL ELSE n + 1
               ELSE VersionAt(log, u, n)
  BY NextVersion DEF Positions
<1>. HIDE DEF n
<1>5. ASSUME NEW i \in 1..Len(log'), NEW j \in 1..Len(log'), NEW u \in UIDs, i < j,
             IsChange(i, u)', IsChange(j, u)'
      PROVE  log'[i].type # "Deleted" /\ log'[j].type # "Added"
  <2>1. i \in 1..n /\ log'[i] = log[i] /\ IsChange(i, u)
    BY <1>1, <1>5 DEF IsChange
  <2>2. CASE j \in 1..n
    BY <1>1, <1>5, <2>1, <2>2 DEF LogIsLegal, IsChange, n
  <2>3. CASE j = n + 1
    <3>1. e.type # "Other" /\ e.uid = u
      BY <1>1, <1>5, <2>3 DEF IsChange
    <3>2. i \in ChangesOf(log, u, n)
      BY <2>1 DEF ChangesOf, IsChange
    <3>3. e.type # "Added" /\ VersionAt(log, u, n) # NULL
      BY <1>2, <3>1, <3>2 DEF n
    <3>4. ASSUME log[i].type = "Deleted" PROVE \A k \in ChangesOf(log, u, n) : k <= i
      BY <1>1, <2>1, <3>4 DEF LogIsLegal, ChangesOf, IsChange, n
    <3>5. log[i].type # "Deleted"
      BY <1>1, <3>2, <3>3, <3>4, VersionThere
    <3>. QED
      BY <1>1, <2>1, <2>3, <3>3, <3>5
  <2>. QED
    BY <1>1, <2>2, <2>3
<1>6. ASSUME NEW i \in 1..Len(log'), NEW u \in UIDs, IsChange(i, u)', log'[i].type # "Added"
      PROVE  VersionAt(log', u, i - 1) # NULL
  <2>1. VersionAt(log', u, i - 1) = VersionAt(log, u, i - 1)
    BY <1>1, <1>3
  <2>2. CASE i \in 1..n
    BY <1>1, <1>6, <2>1, <2>2 DEF LogIsLegal, IsChange, n
  <2>3. CASE i = n + 1
    BY <1>1, <1>2, <1>6, <2>1, <2>3 DEF IsChange, n
  <2>. QED
    BY <1>1, <2>2, <2>3
<1>7. ASSUME NEW r \in 0..Len(log'), NEW u \in UIDs, NEW v \in UIDs, Name[u] = Name[v],
             VersionAt(log', u, r) # NULL, VersionAt(log', v, r) # NULL
      PROVE  u = v
  <2>1. CASE r \in 0..n
    BY <1>1, <1>3, <1>7, <2>1 DEF LogIsLegal, n
  <2>2. CASE r = n + 1
    <3>1. n \in 0..n
      BY <1>1
    <3>. QED
      BY <1>2, <1>4, <1>7, <2>2, <3>1 DEF LogIsLegal, n
  <2>. QED
    BY <1>1, <2>1, <2>2
<1>. QED
  BY <1>5, <1>6, <1>7 DEF LogIsLegal

\* What the log has become in the meantime says nothing else of the past.
LEMMA LogFrame ==
    ASSUME StoreInv, NEW e \in Entry, log' = Append(log, e), LogIsLegal',
           UNCHANGED <<storeVars, relistVars, loopVars>>
    PROVE  StoreInv'
<1>. USE DEF StoreInv
<1>1. /\ Len(log) \in Nat /\ Len(log') = Len(log) + 1 /\ log' \in Seq(Entry)
      /\ \A u \in UIDs, r \in 0..Len(log) :
            VersionAt(log', u, r) = VersionAt(log, u, r) /\ ChangesOf(log', u, r) = ChangesOf(log, u, r)
  BY Appended, PastStays DEF Positions
<1>2. Positions'
  BY <1>1 DEF Positions, loopVars
<1>3. /\ \A u \in UIDs : VersionAt(log', u, rv') = VersionAt(log, u, rv)
      /\ \A u \in UIDs : ChangesOf(log', u, rv') = ChangesOf(log, u, rv)
  BY <1>1 DEF Positions, loopVars
<1>4. StoreIsSnapshot'
  BY <1>3 DEF StoreIsSnapshot, ObjectsAt, storeVars, loopVars
<1>5. Loading' /\ Known'
  BY <1>3 DEF Loading, Known, storeVars, loopVars
<1>6. Waiting'
  BY <1>1 DEF Waiting, StoreTypes, Optional, CallRecord, relistVars, loopVars
<1>7. StoreTypes'
  BY DEF StoreTypes, storeVars, relistVars, loopVars
<1>8. IndexAgrees' /\ NoMissedBroadcast'
  BY DEF IndexAgrees, NoMissedBroadcast, storeVars, loopVars
<1>. QED
  BY <1>2, <1>4, <1>5, <1>6, <1>7, <1>8

LEMMA ApiStep ==
    ASSUME StoreInv,
           \/ \E u \in UIDs, type \in {"Added", "Modified", "Deleted"} : Change(type, u)
           \/ OtherChange
    PROVE  StoreInv'
<1>1. ASSUME NEW u \in UIDs, NEW type \in {"Added", "Modified", "Deleted"}, Change(type, u)
      PROVE  StoreInv'
  <2>. DEFINE e == [type |-> type, uid |-> u]
  <2>1. e \in Entry /\ e.type = type /\ e.uid = u
    BY DEF Entry
  <2>2. /\ log' = Append(log, e)
        /\ UNCHANGED <<storeVars, relistVars, loopVars>>
    BY <1>1 DEF Change
  <2>3. /\ type = "Added" => /\ ChangesOf(log, u, Len(log)) = {}
                             /\ \A v \in UIDs : Name[v] = Name[u] => VersionAt(log, v, Len(log)) = NULL
        /\ type \in {"Modified", "Deleted"} => VersionAt(log, u, Len(log)) # NULL
    BY <1>1 DEF Change, Exists
  <2>. HIDE DEF e
  <2>4. LogIsLegal'
    BY <2>1, <2>2, <2>3, LogGrows DEF StoreInv
  <2>. QED
    BY <2>1, <2>2, <2>4, LogFrame
<1>2. CASE OtherChange
  <2>. DEFINE e == [type |-> "Other"]
  <2>1. e \in Entry /\ e.type = "Other"
    BY DEF Entry
  <2>2. /\ log' = Append(log, e)
        /\ UNCHANGED <<storeVars, relistVars, loopVars>>
    BY <1>2 DEF OtherChange
  <2>. HIDE DEF e
  <2>3. LogIsLegal'
    BY <2>1, <2>2, LogGrows DEF StoreInv
  <2>. QED
    BY <2>1, <2>2, <2>3, LogFrame
<1>. QED
  BY <1>1, <1>2

(***************************************************************************)
(* Steps that leave the store as it is                                     *)
(***************************************************************************)
LEMMA StoreFrame ==
    ASSUME StoreInv, UNCHANGED <<log, storeVars, rv, deferredAdds>>,
           pc' = pc \/ (pc \notin {"adding", "ended"} /\ pc' # "adding")
    PROVE  LogIsLegal' /\ Loading' /\ Known' /\ StoreIsSnapshot' /\ IndexAgrees' /\ NoMissedBroadcast'
<1>1. LogIsLegal'
  BY DEF StoreInv, LogIsLegal, IsChange
<1>2. Loading' /\ Known' /\ StoreIsSnapshot'
  BY DEF StoreInv, Loading, Known, StoreIsSnapshot, ObjectsAt, storeVars
<1>3. IndexAgrees' /\ NoMissedBroadcast'
  BY DEF StoreInv, IndexAgrees, NoMissedBroadcast, storeVars
<1>. QED
  BY <1>1, <1>2, <1>3

LEMMA LoopStep ==
    ASSUME StoreInv,
           \/ WatcherEnds \/ ErrorEvent \/ RelistTriggered \/ ListFails \/ RetryDelayReached
           \/ WatchSucceeds \/ WatchFails \/ StopReceived
    PROVE  StoreInv'
<1>1. /\ UNCHANGED <<log, storeVars, call, rv, listed, deferredAdds>>
      /\ pc \notin {"adding", "ended"} /\ pc' \notin {"adding", "apply"}
  BY DEF WatcherEnds, ErrorEvent, RelistTriggered, ListFails, CallFails, RetryDelayReached,
         WatchSucceeds, WatchFails, StopReceived, apiVars, relistVars
<1>2. Positions' /\ StoreTypes' /\ Waiting'
  BY <1>1 DEF StoreInv, Positions, StoreTypes, Waiting, storeVars
<1>. QED
  BY <1>1, <1>2, StoreFrame DEF StoreInv

LEMMA RelistBeginsStep ==
    ASSUME StoreInv, RelistBegins
    PROVE  StoreInv'
<1>1. /\ UNCHANGED <<log, storeVars, rv, listed, deferredAdds>>
      /\ pc \notin {"adding", "ended"} /\ pc' = "list"
      /\ call' = Moved("relisted", "signalRelistComplete") \/ call' = call
  BY DEF RelistBegins, apiVars
<1>2. ASSUME NEW c \in Callers
      PROVE  \/ call'[c] = call[c]
             \/ /\ call'[c] \in CallRecord /\ call[c] # NULL
                /\ call'[c].ch # "closed" /\ call'[c].at = call[c].at
  BY <1>1, <1>2 DEF Moved, StoreInv, StoreTypes, Optional, CallRecord
<1>3. call' \in [Callers -> Optional(CallRecord)]
  <2>1. call' = [c \in Callers |-> call'[c]]
    BY <1>1 DEF Moved, StoreInv, StoreTypes
  <2>. QED
    BY <1>2, <2>1 DEF StoreInv, StoreTypes, Optional
<1>4. Positions' /\ StoreTypes'
  BY <1>1, <1>3 DEF StoreInv, Positions, StoreTypes, storeVars
<1>5. Waiting'
  BY <1>1, <1>2 DEF StoreInv, Waiting
<1>. QED
  BY <1>1, <1>4, <1>5, StoreFrame DEF StoreInv

LEMMA ListSucceedsStep ==
    ASSUME StoreInv, ListSucceeds
    PROVE  StoreInv'
<1>1. /\ UNCHANGED <<log, storeVars, call, rv, deferredAdds>>
      /\ pc = "list" /\ pc' = "apply" /\ listed' = Len(log)
  BY DEF ListSucceeds, apiVars, relistVars
<1>2. Positions' /\ StoreTypes'
  BY <1>1 DEF StoreInv, Positions, StoreTypes, storeVars
<1>3. Waiting'
  BY <1>1 DEF StoreInv, Waiting, Positions
<1>. QED
  BY <1>1, <1>2, <1>3, StoreFrame DEF StoreInv

LEMMA RelistStep ==
    ASSUME StoreInv, NEW c \in Callers, Relist(c)
    PROVE  StoreInv'
<1>1. /\ UNCHANGED <<log, storeVars, pc, rv, listed, deferredAdds>>
      /\ call' = [call EXCEPT ![c] = [ch |-> "relisted", at |-> Len(log)]]
  BY DEF Relist, apiVars, loopVars
<1>2. /\ call'[c].ch = "relisted" /\ call'[c].at = Len(log)
      /\ \A d \in Callers \ {c} : call'[d] = call[d]
  BY <1>1 DEF StoreInv, StoreTypes
<1>3. call' \in [Callers -> Optional(CallRecord)]
  <2>1. [ch |-> "relisted", at |-> Len(log)] \in CallRecord
    BY DEF CallRecord, StoreInv, Positions
  <2>. QED
    BY <1>1, <2>1 DEF StoreInv, StoreTypes, Optional
<1>4. Positions' /\ StoreTypes'
  BY <1>1, <1>3 DEF StoreInv, Positions, StoreTypes, storeVars
<1>5. Waiting'
  BY <1>1, <1>2 DEF StoreInv, Waiting, Positions
<1>. QED
  BY <1>1, <1>4, <1>5, StoreFrame DEF StoreInv

\* Whoever listens, or looks again, sees what is there.
LEMMA ReceiverStep ==
    ASSUME StoreInv, NEW u \in UIDs, Listen(u) \/ Awake(u)
    PROVE  StoreInv'
<1>. DEFINE new == [viewed |-> objects[u], signalled |-> FALSE]
<1>1. /\ UNCHANGED <<log, objects, namespacedNames, call, pc, rv, listed, deferredAdds>>
      /\ receiver' = [receiver EXCEPT ![u] = new]
      /\ pc # "adding" \/ receiver[u] # NULL
      /\ objects[u] # NULL \/ receiver[u] # NULL
  BY DEF Listen, Awake, Unlocked, apiVars, relistVars, loopVars
<1>2. pc # "adding"
  BY <1>1 DEF StoreInv, Loading
<1>3. new \in ReceiverRecord /\ new.viewed = objects[u]
  BY DEF StoreInv, StoreTypes, ReceiverRecord
<1>. HIDE DEF new
<1>4. /\ receiver'[u] = new
      /\ \A v \in UIDs \ {u} : receiver'[v] = receiver[v]
      /\ receiver' \in [UIDs -> Optional(ReceiverRecord)]
  BY <1>1, <1>3 DEF StoreInv, StoreTypes, Optional
<1>5. Positions' /\ StoreTypes' /\ Waiting'
  BY <1>1, <1>4 DEF StoreInv, Positions, StoreTypes, Waiting
<1>6. LogIsLegal'
  BY <1>1 DEF StoreInv, LogIsLegal, IsChange
<1>7. Loading' /\ StoreIsSnapshot'
  BY <1>1, <1>2 DEF StoreInv, Loading, StoreIsSnapshot, ObjectsAt
<1>8. Known'
  BY <1>1, <1>4 DEF StoreInv, Known
<1>9. IndexAgrees' /\ NoMissedBroadcast'
  <2>1. IndexAgrees'
    BY <1>1 DEF StoreInv, IndexAgrees
  <2>2. NoMissedBroadcast'
    BY <1>1, <1>3, <1>4 DEF StoreInv, NoMissedBroadcast
  <2>. QED
    BY <2>1, <2>2
<1>. QED
  BY <1>5, <1>6, <1>7, <1>8, <1>9 DEF StoreInv

(***************************************************************************)
(* The initial list                                                        *)
(***************************************************************************)
LEMMA DeferredAddStep ==
    ASSUME StoreInv, NEW u \in UIDs, DeferredAdd(u)
    PROVE  StoreInv'
<1>. DEFINE version == VersionAt(log, u, rv)
<1>1. /\ UNCHANGED <<log, namespacedNames, receiver, call, rv, listed>>
      /\ objects' = [objects EXCEPT ![u] = version]
      /\ deferredAdds' = deferredAdds \ {u}
      /\ pc = "adding" /\ pc' \in {"adding", "ended"}
  BY DEF DeferredAdd, ObjectsAt, apiVars, relistVars
<1>2. /\ rv \in Nat /\ version \in Optional(Nat)
      /\ version # NULL => ChangesOf(log, u, rv) # {}
  BY VersionType DEF StoreInv, Positions, Optional
<1>. HIDE DEF version
<1>3. /\ objects'[u] = version
      /\ \A v \in UIDs \ {u} : objects'[v] = objects[v]
      /\ objects' \in [UIDs -> Optional(Nat)]
  BY <1>1, <1>2 DEF StoreInv, StoreTypes
<1>4. Positions' /\ StoreTypes' /\ Waiting'
  BY <1>1, <1>3 DEF StoreInv, Positions, StoreTypes, Waiting
<1>5. LogIsLegal'
  BY <1>1 DEF StoreInv, LogIsLegal, IsChange
<1>6. Loading'
  BY <1>1, <1>3 DEF StoreInv, Loading, version
<1>7. Known'
  BY <1>1, <1>2, <1>3 DEF StoreInv, Known
<1>8. NoMissedBroadcast'
  BY <1>1 DEF StoreInv, Loading, NoMissedBroadcast
<1>9. StoreIsSnapshot' /\ IndexAgrees'
  BY <1>1 DEF StoreIsSnapshot, IndexAgrees
<1>. QED
  BY <1>4, <1>5, <1>6, <1>7, <1>8, <1>9 DEF StoreInv

\* If the store is a snapshot, no two of its objects have the same name.
LEMMA NamesAreUnique ==
    ASSUME Positions, LogIsLegal, NEW r \in 0..Len(log), NEW u \in UIDs, NEW v \in UIDs, Name[u] = Name[v],
           ObjectsAt(r)[u] # NULL, ObjectsAt(r)[v] # NULL
    PROVE  u = v
  BY DEF ObjectsAt, LogIsLegal

LEMMA DeferredAddsDoneStep ==
    ASSUME StoreInv, DeferredAddsDone
    PROVE  StoreInv'
<1>1. /\ UNCHANGED <<log, objects, receiver, call, rv, listed, deferredAdds>>
      /\ pc = "adding" /\ deferredAdds = {} /\ pc' = "loop"
      /\ DOMAIN namespacedNames' = DOMAIN namespacedNames
      /\ \A n \in DOMAIN namespacedNames :
            namespacedNames'[n] = IF \E u \in UIDs : Name[u] = n /\ objects[u] # NULL
                                  THEN LET u == CHOOSE u \in UIDs : Name[u] = n /\ objects[u] # NULL
                                       IN  <<u, objects[u]>>
                                  ELSE NULL
  BY DEF DeferredAddsDone, apiVars, relistVars
<1>2. objects = ObjectsAt(rv)
  BY <1>1 DEF StoreInv, StoreTypes, Loading, ObjectsAt
<1>3. Positions' /\ StoreTypes' /\ Waiting'
  BY <1>1 DEF StoreInv, Positions, StoreTypes, Waiting
<1>4. LogIsLegal'
  BY <1>1 DEF StoreInv, LogIsLegal, IsChange
<1>5. Loading' /\ Known' /\ NoMissedBroadcast'
  BY <1>1 DEF StoreInv, Loading, Known, NoMissedBroadcast
<1>6. StoreIsSnapshot'
  BY <1>1, <1>2 DEF StoreIsSnapshot, ObjectsAt
<1>7. IndexAgrees'
  <2>1. ASSUME NEW n \in DOMAIN namespacedNames, NEW u \in UIDs, Name[u] = n, objects[u] # NULL
        PROVE  namespacedNames'[n] = <<u, objects[u]>>
    <3>1. \A v \in UIDs : Name[v] = n /\ objects[v] # NULL => v = u
      BY <1>2, <2>1, NamesAreUnique DEF StoreInv, Positions
    <3>. QED
      BY <1>1, <2>1, <3>1
  <2>2. ASSUME NEW n \in DOMAIN namespacedNames, NEW u \in UIDs, Name[u] = n, objects[u] = NULL,
               namespacedNames'[n] # NULL
        PROVE  namespacedNames'[n][1] # u
    <3>1. PICK v \in UIDs : Name[v] = n /\ objects[v] # NULL
      BY <1>1, <2>2
    <3>2. namespacedNames'[n] = <<v, objects[v]>>
      BY <2>1, <3>1
    <3>. QED
      BY <2>2, <3>1, <3>2
  <2>. QED
    BY <1>1, <2>1, <2>2 DEF IndexAgrees
<1>. QED
  BY <1>3, <1>4, <1>5, <1>6, <1>7 DEF StoreInv

(***************************************************************************)
(* Events                                                                  *)
(***************************************************************************)
LEMMA BookmarkStep ==
    ASSUME StoreInv, Bookmark
    PROVE  StoreInv'
<1>1. /\ UNCHANGED <<log, objects, namespacedNames, receiver, call, pc, listed, deferredAdds>>
      /\ pc = "loop" /\ rv < Len(log) /\ log[rv + 1].type = "Other" /\ rv' = rv + 1
  BY DEF Bookmark, apiVars, storeVars, relistVars
<1>2. rv \in Nat /\ Len(log) \in Nat
  BY DEF StoreInv, Positions
<1>3. \A u : /\ ChangesOf(log, u, rv') = ChangesOf(log, u, rv)
             /\ VersionAt(log, u, rv') = VersionAt(log, u, rv)
  BY <1>1, <1>2, VersionStays
<1>4. Positions' /\ StoreTypes'
  BY <1>1, <1>2 DEF StoreInv, Positions, StoreTypes
<1>5. LogIsLegal'
  BY <1>1 DEF StoreInv, LogIsLegal, IsChange
<1>6. Loading' /\ Known' /\ StoreIsSnapshot'
  BY <1>1, <1>3 DEF StoreInv, Loading, Known, StoreIsSnapshot, ObjectsAt
<1>7. IndexAgrees' /\ NoMissedBroadcast'
  BY <1>1 DEF StoreInv, IndexAgrees, NoMissedBroadcast
<1>8. Waiting'
  BY <1>1, <1>2 DEF StoreInv, Waiting, StoreTypes, Optional, CallRecord
<1>. QED
  BY <1>4, <1>5, <1>6, <1>7, <1>8 DEF StoreInv

\* Whoever listens is told, and forgets nothing.
LEMMA BroadcastTells ==
    ASSUME StoreTypes, NEW uids, Broadcast(uids)
    PROVE  /\ receiver' \in [UIDs -> Optional(ReceiverRecord)]
           /\ \A u \in UIDs : receiver'[u] # NULL =>
                 /\ receiver[u] # NULL /\ receiver'[u].viewed = receiver[u].viewed
                 /\ ~receiver'[u].signalled => u \notin uids /\ ~receiver[u].signalled
<1>1. ASSUME NEW u \in UIDs
      PROVE  /\ receiver'[u] \in Optional(ReceiverRecord)
             /\ receiver'[u] # NULL =>
                   /\ receiver[u] # NULL /\ receiver'[u].viewed = receiver[u].viewed
                   /\ ~receiver'[u].signalled => u \notin uids /\ ~receiver[u].signalled
  <2>1. CASE u \in uids /\ receiver[u] # NULL
    <3>1. receiver[u] \in ReceiverRecord
      BY <2>1 DEF StoreTypes, Optional
    <3>2. receiver'[u] = [receiver[u] EXCEPT !.signalled = TRUE]
      BY <2>1 DEF Broadcast
    <3>. QED
      BY <2>1, <3>1, <3>2 DEF Optional, ReceiverRecord
  <2>2. CASE ~(u \in uids /\ receiver[u] # NULL)
    <3>1. receiver'[u] = receiver[u]
      BY <2>2 DEF Broadcast
    <3>. QED
      BY <2>2, <3>1 DEF StoreTypes
  <2>. QED
    BY <2>1, <2>2
<1>2. receiver' = [u \in UIDs |-> receiver'[u]]
  BY DEF Broadcast
<1>. QED
  BY <1>1, <1>2

\* The next event is the next change of its object, and fits to what the store has.
LEMMA EventFits ==
    ASSUME Positions, LogIsLegal, NEW i \in NextEvent
    PROVE  LET u == log[i].uid
           IN  /\ i \in Nat /\ rv < i /\ i <= Len(log) /\ u \in UIDs
               /\ log[i].type \in {"Added", "Modified", "Deleted"}
               /\ (VersionAt(log, u, rv) # NULL) = (log[i].type # "Added")
               /\ log[i].type = "Added" => ChangesOf(log, u, rv) = {}
               /\ VersionAt(log, u, i) = IF log[i].type = "Deleted" THEN NULL ELSE i
               /\ i \in ChangesOf(log, u, i)
               /\ \A v \in UIDs \ {u} : /\ VersionAt(log, v, i) = VersionAt(log, v, rv)
                                       /\ ChangesOf(log, v, i) = ChangesOf(log, v, rv)
<1>. DEFINE u == log[i].uid
<1>1. /\ rv \in Nat /\ Len(log) \in Nat /\ i \in Nat /\ rv < i /\ i <= Len(log)
      /\ log[i].type # "Other" /\ \A j \in rv + 1..i - 1 : log[j].type = "Other"
  <2>1. rv \in Nat /\ Len(log) \in Nat
    BY DEF Positions
  <2>. QED
    BY SMTT(30), <2>1 DEF NextEvent
<1>2. log[i] \in Entry
  BY SMTT(30), <1>1 DEF Positions
<1>3. u \in UIDs /\ log[i].type \in {"Added", "Modified", "Deleted"}
  BY <1>1, <1>2 DEF Entry
<1>. HIDE DEF u
<1>4. /\ VersionAt(log, u, i - 1) = VersionAt(log, u, rv)
      /\ ChangesOf(log, u, i - 1) = ChangesOf(log, u, rv)
  <2>1. i - 1 \in Nat /\ rv <= i - 1
    BY <1>1
  <2>. QED
    BY <1>1, <2>1, VersionStays
<1>5. \A v \in UIDs \ {u} : /\ VersionAt(log, v, i) = VersionAt(log, v, rv)
                           /\ ChangesOf(log, v, i) = ChangesOf(log, v, rv)
  <2>1. SUFFICES ASSUME NEW v \in UIDs \ {u}
                 PROVE  /\ VersionAt(log, v, i) = VersionAt(log, v, rv)
                        /\ ChangesOf(log, v, i) = ChangesOf(log, v, rv)
    OBVIOUS
  <2>2. \A j \in rv + 1..i : ~(log[j].type # "Other" /\ log[j].uid = v)
    BY <1>1 DEF u
  <2>. QED
    BY <1>1, <2>2, VersionStays
<1>6. i \in ChangesOf(log, u, i) /\ \A j \in ChangesOf(log, u, i) : j <= i
  BY <1>1 DEF ChangesOf, u
<1>7. VersionAt(log, u, i) = IF log[i].type = "Deleted" THEN NULL ELSE i
  BY <1>1, <1>6, VersionThere
<1>8. log[i].type # "Added" => VersionAt(log, u, i - 1) # NULL
  BY <1>1, <1>3 DEF LogIsLegal, IsChange, u
<1>9. log[i].type = "Added" => ChangesOf(log, u, i - 1) = {}
  BY <1>1, <1>3 DEF LogIsLegal, IsChange, ChangesOf, u
<1>10. log[i].type = "Added" => VersionAt(log, u, i - 1) = NULL
  BY <1>9 DEF VersionAt
<1>. QED
  BY <1>1, <1>3, <1>4, <1>5, <1>6, <1>7, <1>8, <1>9, <1>10 DEF u

LEMMA EventStep ==
    ASSUME StoreInv, NEW i, handleEvent(i)
    PROVE  StoreInv'
<1>. DEFINE u == log[i].uid
            type == log[i].type
            n == Name[u]
<1>1. /\ UNCHANGED <<log, call, listed, deferredAdds>>
      /\ pc = "loop" /\ i \in NextEvent /\ rv' = i
  BY DEF handleEvent, apiVars, relistVars
<1>2. /\ i \in Nat /\ rv < i /\ i <= Len(log) /\ u \in UIDs /\ type \in {"Added", "Modified", "Deleted"}
      /\ (VersionAt(log, u, rv) # NULL) = (type # "Added")
      /\ type = "Added" => ChangesOf(log, u, rv) = {}
      /\ VersionAt(log, u, i) = IF type = "Deleted" THEN NULL ELSE i
      /\ i \in ChangesOf(log, u, i)
      /\ \A v \in UIDs \ {u} : /\ VersionAt(log, v, i) = VersionAt(log, v, rv)
                              /\ ChangesOf(log, v, i) = ChangesOf(log, v, rv)
  BY <1>1, EventFits DEF StoreInv
<1>3. \A v \in UIDs : objects[v] = VersionAt(log, v, rv)
  BY <1>1 DEF StoreInv, StoreIsSnapshot, ObjectsAt
<1>4. /\ pc' = pc
      /\ objects' = [objects EXCEPT ![u] = IF type = "Deleted" THEN NULL ELSE i]
      /\ namespacedNames' = CASE type = "Added" -> Add(namespacedNames, u, i)
                              [] type = "Modified" -> Update(namespacedNames, u, i)
                              [] type = "Deleted" -> Delete(Update(namespacedNames, u, i), u)
      /\ Broadcast(IF type = "Added" THEN {} ELSE {u})
  BY <1>2, <1>3 DEF handleEvent
<1>5. /\ objects'[u] = VersionAt(log, u, i)
      /\ \A v \in UIDs \ {u} : objects'[v] = objects[v]
      /\ objects' \in [UIDs -> Optional(Nat)]
  BY <1>2, <1>4 DEF StoreInv, StoreTypes, Optional
<1>6. /\ n \in DOMAIN namespacedNames
      /\ DOMAIN namespacedNames' = DOMAIN namespacedNames
      /\ namespacedNames'[n] = IF type = "Deleted" THEN NULL ELSE <<u, i>>
      /\ \A m \in DOMAIN namespacedNames \ {n} : namespacedNames'[m] = namespacedNames[m]
  <2>1. n \in DOMAIN namespacedNames
    BY <1>2 DEF StoreInv, StoreTypes
  <2>2. CASE type = "Added"
    BY <1>4, <2>1, <2>2 DEF Add
  <2>3. CASE type = "Modified"
    BY <1>4, <2>1, <2>3 DEF Add, Update, Delete
  <2>4. CASE type = "Deleted"
    BY <1>4, <2>1, <2>4 DEF Add, Update, Delete
  <2>. QED
    BY <1>2, <2>1, <2>2, <2>3, <2>4
<1>7. /\ receiver' \in [UIDs -> Optional(ReceiverRecord)]
      /\ \A v \in UIDs : receiver'[v] # NULL =>
            /\ receiver[v] # NULL /\ receiver'[v].viewed = receiver[v].viewed
            /\ ~receiver'[v].signalled => (v = u => type = "Added") /\ ~receiver[v].signalled
  BY <1>4, BroadcastTells DEF StoreInv
<1>. HIDE DEF u, type, n
<1>8. Positions' /\ StoreTypes'
  BY SMTT(30), <1>1, <1>2, <1>5, <1>6, <1>7 DEF StoreInv, Positions, StoreTypes
<1>9. LogIsLegal'
  BY <1>1 DEF StoreInv, LogIsLegal, IsChange
<1>10. Loading' /\ Waiting'
  BY <1>1, <1>2, <1>4 DEF StoreInv, Loading, Waiting, Positions, StoreTypes, Optional, CallRecord
<1>11. \A v \in UIDs : objects'[v] = VersionAt(log, v, i)
  BY <1>2, <1>3, <1>5
<1>12. StoreIsSnapshot'
  BY <1>1, <1>5, <1>11 DEF StoreIsSnapshot, ObjectsAt
<1>13. Known'
  BY <1>1, <1>2, <1>5, <1>7 DEF StoreInv, Known
<1>14. NoMissedBroadcast'
  <2>1. type = "Added" => receiver'[u] = NULL
    BY <1>2, <1>7 DEF StoreInv, Known
  <2>. QED
    BY <1>5, <1>7, <2>1 DEF StoreInv, NoMissedBroadcast
<1>15. IndexAgrees'
  <2>1. SUFFICES ASSUME NEW m \in DOMAIN namespacedNames, NEW v \in UIDs, Name[v] = m
                 PROVE  /\ objects'[v] # NULL => namespacedNames'[m] = <<v, objects'[v]>>
                        /\ objects'[v] = NULL /\ namespacedNames'[m] # NULL => namespacedNames'[m][1] # v
    BY <1>6 DEF IndexAgrees
  <2>2. CASE m # n
    BY SMTT(30), <1>1, <1>5, <1>6, <2>1, <2>2 DEF StoreInv, IndexAgrees, n
  <2>3. CASE v = u
    BY SMTT(30), <1>2, <1>5, <1>6, <2>1, <2>3, NullAssumption DEF n
  <2>4. CASE m = n /\ v # u
    <3>1. ASSUME objects[v] # NULL PROVE FALSE
      <4>1. VersionAt(log, v, rv) # NULL /\ VersionAt(log, v, i) # NULL
        BY <1>2, <1>3, <2>4, <3>1
      <4>2. VersionAt(log, u, rv) # NULL \/ VersionAt(log, u, i) # NULL
        BY <1>2, NullAssumption
      <4>3. rv \in 0..Len(log) /\ i \in 0..Len(log)
        BY <1>2 DEF StoreInv, Positions
      <4>. QED
        BY <1>2, <2>1, <2>4, <4>1, <4>2, <4>3 DEF StoreInv, LogIsLegal, n
    <3>2. objects'[v] = NULL
      BY <1>5, <2>4, <3>1
    <3>. QED
      BY <1>6, <2>4, <3>2
  <2>. QED
    BY <2>2, <2>3, <2>4, <2>1 DEF n
<1>. QED
  BY <1>8, <1>9, <1>10, <1>12, <1>13, <1>14, <1>15 DEF StoreInv

(***************************************************************************)
(* A relist                                                                *)
(***************************************************************************)
\* What was there and is not any more does not come back.
LEMMA GoneForGood ==
    ASSUME Positions, LogIsLegal, NEW u \in UIDs, NEW r \in Nat, NEW s \in Nat, r <= s, s <= Len(log),
           ChangesOf(log, u, r) # {}, VersionAt(log, u, r) = NULL
    PROVE  VersionAt(log, u, s) = NULL
<1>0. Len(log) \in Nat
  BY DEF Positions
<1>1. PICK i \in ChangesOf(log, u, r) : VersionAt(log, u, r) = IF log[i].type = "Deleted" THEN NULL ELSE i
  BY VersionType
<1>2. i \in 1..r /\ IsChange(i, u)
  BY DEF ChangesOf, IsChange
<1>3. log[i].type = "Deleted"
  BY <1>1, <1>2, NullAssumption
<1>4. i \in ChangesOf(log, u, s)
  BY <1>2 DEF ChangesOf, IsChange
<1>5. \A j \in ChangesOf(log, u, s) : j <= i
  <2>1. SUFFICES ASSUME NEW j \in ChangesOf(log, u, s), i < j PROVE FALSE
    BY <1>2 DEF ChangesOf
  <2>2. i \in 1..Len(log) /\ j \in 1..Len(log) /\ IsChange(j, u)
    BY <1>0, <1>2 DEF ChangesOf, IsChange
  <2>. QED
    BY <1>2, <1>3, <2>1, <2>2 DEF LogIsLegal
<1>. QED
  BY <1>3, <1>4, <1>5, VersionThere

LEMMA ApplyRelistStep ==
    ASSUME StoreInv, ApplyRelist
    PROVE  StoreInv'
<1>. DEFINE list == ObjectsAt(listed)
            gone == {u \in UIDs : objects[u] # NULL /\ list[u] = NULL}
            kept == {u \in UIDs : objects[u] # NULL /\ list[u] # NULL}
<1>1. /\ UNCHANGED <<log, deferredAdds>>
      /\ pc = "apply" /\ pc' = "newWatcher"
      /\ objects' = list /\ namespacedNames' = Relisted(namespacedNames, gone, list)
      /\ Broadcast(gone \union kept)
      /\ rv' = listed /\ listed' = 0 /\ call' = Moved("signalRelistComplete", "closed")
  BY DEF ApplyRelist, Affected, NewResourceVersion, Completed, apiVars
<1>2. /\ Len(log) \in Nat /\ rv \in Nat /\ listed \in Nat /\ rv <= listed /\ listed <= Len(log)
  BY <1>1 DEF StoreInv, Positions, Waiting
<1>3. \A u \in UIDs : /\ objects[u] = VersionAt(log, u, rv)
                      /\ list[u] = VersionAt(log, u, listed) /\ list[u] \in Optional(Nat)
                      /\ list[u] # NULL => ChangesOf(log, u, listed) # {}
                      /\ ChangesOf(log, u, rv) \subseteq ChangesOf(log, u, listed)
  <2>1. \A u \in UIDs : objects[u] = VersionAt(log, u, rv) /\ list[u] = VersionAt(log, u, listed)
    BY <1>1 DEF StoreInv, StoreIsSnapshot, ObjectsAt
  <2>2. \A u \in UIDs : ChangesOf(log, u, rv) \subseteq ChangesOf(log, u, listed)
    BY <1>2 DEF ChangesOf
  <2>. QED
    BY <1>2, <2>1, <2>2, VersionType DEF Optional
<1>4. list \in [UIDs -> Optional(Nat)]
  BY <1>3 DEF ObjectsAt
<1>5. /\ receiver' \in [UIDs -> Optional(ReceiverRecord)]
      /\ \A u \in UIDs : receiver'[u] # NULL =>
            /\ receiver[u] # NULL /\ receiver'[u].viewed = receiver[u].viewed
            /\ ~receiver'[u].signalled => objects[u] = NULL /\ ~receiver[u].signalled
  BY SMTT(30), <1>1, BroadcastTells DEF StoreInv
<1>6. ASSUME NEW c \in Callers
      PROVE  \/ call'[c] = call[c] /\ (call[c] # NULL => call[c].ch # "signalRelistComplete")
             \/ /\ call'[c] \in CallRecord
                /\ call[c] # NULL /\ call[c].ch = "signalRelistComplete" /\ call'[c].at = call[c].at
  BY <1>1, <1>6 DEF Moved, StoreInv, StoreTypes, Optional, CallRecord
<1>7. call' \in [Callers -> Optional(CallRecord)]
  <2>1. call' = [c \in Callers |-> call'[c]]
    BY <1>1 DEF Moved
  <2>. QED
    BY <1>6, <2>1 DEF StoreInv, StoreTypes, Optional
<1>8. /\ DOMAIN namespacedNames' = DOMAIN namespacedNames
      /\ \A n \in DOMAIN namespacedNames :
            namespacedNames'[n] =
                IF \E u \in UIDs : Name[u] = n /\ list[u] # NULL
                THEN LET u == CHOOSE u \in UIDs : Name[u] = n /\ list[u] # NULL IN <<u, list[u]>>
                ELSE IF \E u \in gone : Name[u] = n THEN NULL ELSE namespacedNames[n]
  BY <1>1 DEF Relisted
<1>. HIDE DEF list
<1>9. Positions' /\ StoreTypes'
  <2>1. Positions'
    BY <1>1, <1>2 DEF StoreInv, Positions
  <2>. QED
    BY SMTT(30), <1>1, <1>4, <1>5, <1>7, <1>8, <2>1 DEF StoreInv, StoreTypes
<1>10. LogIsLegal'
  BY <1>1 DEF StoreInv, LogIsLegal, IsChange
<1>11. Loading' /\ StoreIsSnapshot'
  BY <1>1 DEF Loading, StoreIsSnapshot, ObjectsAt, list
<1>12. Known'
  BY <1>1, <1>3, <1>5 DEF StoreInv, Known
<1>13. Waiting'
  BY SMTT(30), <1>1, <1>2, <1>6 DEF StoreInv, Waiting, StoreTypes, Optional, CallRecord
<1>14. NoMissedBroadcast'
  <2>1. SUFFICES ASSUME NEW u \in UIDs, receiver'[u] # NULL, ~receiver'[u].signalled
                 PROVE  list[u] = receiver'[u].viewed
    BY <1>1 DEF NoMissedBroadcast
  <2>2. /\ receiver[u] # NULL /\ ~receiver[u].signalled /\ objects[u] = NULL
        /\ receiver'[u].viewed = receiver[u].viewed
    BY <1>5, <2>1
  <2>3. receiver[u].viewed = NULL /\ ChangesOf(log, u, rv) # {}
    BY <2>2 DEF StoreInv, NoMissedBroadcast, Known
  <2>4. list[u] = NULL
    BY <1>2, <1>3, <2>2, <2>3, GoneForGood DEF StoreInv
  <2>. QED
    BY <2>2, <2>3, <2>4
<1>15. IndexAgrees'
  <2>. SUFFICES \A n \in DOMAIN namespacedNames, u \in UIDs :
                    Name[u] = n =>
                        /\ list[u] # NULL => namespacedNames'[n] = <<u, list[u]>>
                        /\ list[u] = NULL /\ namespacedNames'[n] # NULL => namespacedNames'[n][1] # u
    <3>1. objects' = list /\ DOMAIN namespacedNames' = DOMAIN namespacedNames
      BY <1>1, <1>8
    <3>. QED
      BY <3>1 DEF IndexAgrees
  <2>1. ASSUME NEW n \in DOMAIN namespacedNames, NEW u \in UIDs, Name[u] = n, list[u] # NULL
        PROVE  namespacedNames'[n] = <<u, list[u]>>
    <3>1. \A v \in UIDs : Name[v] = n /\ list[v] # NULL => v = u
      BY <1>2, <2>1, NamesAreUnique DEF StoreInv, Positions, list
    <3>. QED
      BY <1>8, <2>1, <3>1
  <2>2. ASSUME NEW n \in DOMAIN namespacedNames, NEW u \in UIDs, Name[u] = n, list[u] = NULL,
               namespacedNames'[n] # NULL
        PROVE  namespacedNames'[n][1] # u
    <3>1. CASE \E v \in UIDs : Name[v] = n /\ list[v] # NULL
      <4>1. PICK v \in UIDs : Name[v] = n /\ list[v] # NULL
        BY <3>1
      <4>2. namespacedNames'[n] = <<v, list[v]>>
        BY <2>1, <4>1
      <4>. QED
        BY <2>2, <4>1, <4>2
    <3>2. CASE ~\E v \in UIDs : Name[v] = n /\ list[v] # NULL
      <4>1. namespacedNames'[n] = namespacedNames[n] /\ u \notin gone
        BY <1>8, <2>2, <3>2
      <4>. QED
        BY <1>1, <2>2, <4>1 DEF StoreInv, IndexAgrees
    <3>. QED
      BY <3>1, <3>2
  <2>. QED
    BY <2>1, <2>2
<1>. QED
  BY <1>9, <1>10, <1>11, <1>12, <1>13, <1>14, <1>15 DEF StoreInv

(***************************************************************************)
(* All steps                                                               *)
(***************************************************************************)
LEMMA StoreInvInit == Init => StoreInv
<1>. SUFFICES ASSUME Init PROVE StoreInv
  OBVIOUS
<1>1. PICK w \in UIDs : log = <<>> \/ log = <<[type |-> "Added", uid |-> w]>>
  BY DEF Init
<1>2. /\ log \in Seq(Entry) /\ Len(log) \in {0, 1}
      /\ \A i \in 1..Len(log) : i = 1 /\ log[i].type = "Added" /\ log[i].uid = w
  <2>. DEFINE e == [type |-> "Added", uid |-> w]
  <2>1. e \in Entry /\ e.type = "Added" /\ e.uid = w
    BY DEF Entry
  <2>. HIDE DEF e
  <2>2. CASE log = <<>>
    BY <2>2
  <2>3. CASE log = <<e>>
    BY <2>1, <2>3
  <2>. QED
    BY <1>1, <2>2, <2>3 DEF e
<1>3. Positions
  <2>1. rv = Len(log) /\ listed = 0 /\ Len(log) \in Nat
    BY <1>2 DEF Init
  <2>2. rv \in 0..Len(log) /\ listed \in 0..Len(log)
    BY <2>1
  <2>. QED
    BY <1>2, <2>2 DEF Positions
<1>4. /\ \A u \in UIDs : objects[u] = NULL /\ receiver[u] = NULL
      /\ \A c \in Callers : call[c] = NULL
      /\ pc = "adding" /\ rv = Len(log)
  BY DEF Init
<1>5. StoreTypes
  BY DEF Init, StoreTypes, Optional
<1>6. LogIsLegal
  <2>1. \A r \in 0..Len(log), u \in UIDs : VersionAt(log, u, r) # NULL => u = w
    <3>1. SUFFICES ASSUME NEW r \in 0..Len(log), NEW u \in UIDs, u # w PROVE VersionAt(log, u, r) = NULL
      OBVIOUS
    <3>2. ChangesOf(log, u, r) = {}
      BY <1>2, <3>1 DEF ChangesOf
    <3>. QED
      BY <3>2 DEF VersionAt
  <2>. QED
    BY SMTT(30), <1>2, <2>1 DEF LogIsLegal
<1>7. Loading
  BY <1>4 DEF Init, Loading, Exists
<1>8. Known /\ Waiting /\ StoreIsSnapshot /\ IndexAgrees /\ NoMissedBroadcast
  BY <1>4 DEF Known, Waiting, StoreIsSnapshot, IndexAgrees, NoMissedBroadcast
<1>. QED
  BY <1>3, <1>5, <1>6, <1>7, <1>8 DEF StoreInv

LEMMA StoreInvNext == StoreInv /\ [Next]_vars => StoreInv'
<1>. SUFFICES ASSUME StoreInv, [Next]_vars PROVE StoreInv'
  OBVIOUS
<1>1. CASE Goroutine
  BY <1>1, DeferredAddStep, DeferredAddsDoneStep, LoopStep, RelistBeginsStep, ListSucceedsStep,
     ApplyRelistStep DEF Goroutine
<1>2. CASE Events
  BY <1>2, EventStep DEF Events
<1>3. CASE UNCHANGED <<log, storeVars, call, loopVars>>
  <2>1. Positions' /\ StoreTypes' /\ Waiting'
    BY <1>3 DEF StoreInv, Positions, StoreTypes, Waiting, storeVars, loopVars
  <2>. QED
    BY <1>3, <2>1, StoreFrame DEF StoreInv, loopVars
<1>4. CASE Stop \/ UNCHANGED vars
  BY <1>3, <1>4 DEF Stop, vars, apiVars, relistVars
<1>. QED
  BY <1>1, <1>2, <1>4, BookmarkStep, LoopStep, ApiStep, ReceiverStep, RelistStep DEF Next

LEMMA StoreInvHolds == Spec => []StoreInv
  BY StoreInvInit, StoreInvNext, PTL DEF Spec

\* Whatever watches end, expire or are replaced by relists, and whatever calls fail, the objects of
\* Store are those that the API server had at watchOpts.ResourceVersion, from where Watch goes on.
THEOREM StoreIsSnapshotHolds == Spec => []StoreIsSnapshot
<1>1. StoreInv => StoreIsSnapshot
  BY DEF StoreInv
<1>. QED
  BY <1>1, StoreInvHolds, PTL

\* NameIndex.Add, Update and Delete, in the order that events and relists call them, keep for each name
\* the one object of the store that has it, also over a deletion and a new object of that name.
THEOREM IndexAgreesHolds == Spec => []IndexAgrees
<1>1. StoreInv => IndexAgrees
  BY DEF StoreInv
<1>. QED
  BY <1>1, StoreInvHolds, PTL

\* The channel that Relist returns is closed only by a list that was made after the call.
THEOREM RelistIsFreshHolds == Spec => []RelistIsFresh
<1>1. StoreInv => RelistIsFresh
  BY DEF StoreInv, Waiting, RelistIsFresh, Positions, StoreTypes, Optional, CallRecord
<1>. QED
  BY <1>1, StoreInvHolds, PTL

\* Broadcast is called for each change of an object that a BroadcastReceiver can listen to, by events
\* and by relists alike: one that is not awake has seen the object as it is.
THEOREM NoMissedBroadcastHolds == Spec => []NoMissedBroadcast
<1>1. StoreInv => NoMissedBroadcast
  BY DEF StoreInv
<1>. QED
  BY <1>1, StoreInvHolds, PTL
=============================================================================
