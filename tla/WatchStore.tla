----------------------------- MODULE WatchStore -----------------------------
(***************************************************************************)
(* The store that all components keep of the Kubernetes objects they are   *)
(* interested in: the goroutine that Watch starts and the methods of Store *)
(* and NameIndex (pkg/util/watch/watch.go), with Broadcaster               *)
(* (pkg/util/broadcast.go) for those who wait for changes of an object.    *)
(*                                                                         *)
(* The API server is the log of its changes; a resource version is a       *)
(* position in it, and a version of an object the position of the change   *)
(* that made it.  A change of something else shows only as a bookmark.     *)
(* An action is a critical section of Store.mutex or a call of the API.    *)
(***************************************************************************)
EXTENDS Naturals, Sequences, FiniteSets

CONSTANTS
    NULL,
    UIDs,
    Name,         \* of each UID; a name can be used again
    Callers,      \* of Relist
    Listened,     \* the objects that someone listens to
    MaxChanges,   \* bound: changes of the API server's objects
    MaxFailures,  \* bound: API calls that fail
    RetryRelistAfter, \* whether a failed List is retried; else the watch ends
    RetryWatchAfter,  \* the same for Watch
    MayStop       \* whether the store may be stopped

ASSUME NullAssumption == NULL \notin Nat

VARIABLES
    log,        \* the API server's changes
    objects,    \* Store.objects: versions
    namespacedNames, \* NameIndex.namespacedNames: UID and version
    receiver,   \* of each object's broadcaster: the version seen, whether it is signalled
    triggerRelist,
    call,       \* when each caller of Relist has got its channel and where that is: in Store.relisted,
                \* in signalRelistComplete, or nowhere as it is closed
    pc,         \* where the goroutine is
    watcher,    \* "open", "expired" or, when there is none that counts, "none"
    rv,         \* watchOpts.ResourceVersion
    listed,     \* the resource version of relistList
    deferredAdds,
    stopSignal,
    failures

apiVars == <<log, failures>>
storeVars == <<objects, namespacedNames, receiver>>
relistVars == <<triggerRelist, call>>
loopVars == <<pc, watcher, rv, listed, deferredAdds>>
vars == <<apiVars, storeVars, relistVars, loopVars, stopSignal>>

(***************************************************************************)
(* The API server                                                          *)
(***************************************************************************)
ChangesOf(l, u, r) == {i \in 1..r : l[i].type # "Other" /\ l[i].uid = u}

LatestIn(S) == CHOOSE i \in S : \A j \in S : j <= i

\* The version of an object at a resource version, or NULL
VersionAt(l, u, r) ==
    LET S == ChangesOf(l, u, r)
    IN  IF S = {} THEN NULL
        ELSE IF l[LatestIn(S)].type = "Deleted" THEN NULL
        ELSE LatestIn(S)

ObjectsAt(r) == [u \in UIDs |-> VersionAt(log, u, r)]

Exists(u) == VersionAt(log, u, Len(log)) # NULL

Change(type, u) ==
    /\ Len(log) < MaxChanges
    /\ CASE type = "Added" -> /\ ChangesOf(log, u, Len(log)) = {}
                              /\ \A v \in UIDs : Name[v] = Name[u] => ~Exists(v)
         [] OTHER -> Exists(u)
    /\ log' = Append(log, [type |-> type, uid |-> u])
    /\ UNCHANGED <<failures, storeVars, relistVars, loopVars, stopSignal>>

OtherChange ==
    /\ Len(log) < MaxChanges
    /\ log' = Append(log, [type |-> "Other"])
    /\ UNCHANGED <<failures, storeVars, relistVars, loopVars, stopSignal>>

(***************************************************************************)
(* Watch: the initial list has been made, and the initial watch.           *)
(***************************************************************************)
Init ==
    /\ \E u \in UIDs : log \in {<<>>, <<[type |-> "Added", uid |-> u]>>}
    /\ objects = [u \in UIDs |-> NULL]
    /\ namespacedNames = [n \in {Name[u] : u \in UIDs} |-> NULL]
    /\ receiver = [u \in UIDs |-> NULL]
    /\ triggerRelist = FALSE
    /\ call = [c \in Callers |-> NULL]
    /\ pc = "adding"
    /\ watcher = "open"
    /\ rv = Len(log) /\ listed = 0
    /\ deferredAdds = {u \in UIDs : Exists(u)}
    /\ stopSignal = FALSE
    /\ failures = 0

\* Store.mutex is free.
Unlocked == pc # "adding"

DeferredAdd(u) ==
    /\ pc = "adding"
    /\ u \in deferredAdds
    /\ deferredAdds' = deferredAdds \ {u}
    /\ objects' = [objects EXCEPT ![u] = ObjectsAt(rv)[u]]
    /\ pc' \in {"adding"} \union IF stopSignal THEN {"ended"} ELSE {}
    /\ UNCHANGED <<apiVars, namespacedNames, receiver, relistVars, watcher, rv, listed, stopSignal>>

\* Handlers are called wherever objects changes, under the same lock; what they do with it is theirs.
\* Users put an index over the store as soon as they have the store (NewIndexedStore).
DeferredAddsDone ==
    /\ pc = "adding"
    /\ deferredAdds = {}
    /\ pc' = "loop"
    /\ namespacedNames' = [n \in DOMAIN namespacedNames |->
                              IF \E u \in UIDs : Name[u] = n /\ objects[u] # NULL
                              THEN LET u == CHOOSE u \in UIDs : Name[u] = n /\ objects[u] # NULL
                                   IN  <<u, objects[u]>>
                              ELSE NULL]
    /\ UNCHANGED <<apiVars, objects, receiver, relistVars, watcher, rv, listed, deferredAdds,
                   stopSignal>>

(***************************************************************************)
(* The event loop                                                          *)
(***************************************************************************)
Add(names, u, version) == [names EXCEPT ![Name[u]] = <<u, version>>]

Delete(names, u) == [names EXCEPT ![Name[u]] = NULL]

Update(names, u, version) == Add(Delete(names, u), u, version)

Broadcast(uids) ==
    receiver' = [u \in UIDs |-> IF u \in uids /\ receiver[u] # NULL
                                THEN [receiver[u] EXCEPT !.signalled = TRUE] ELSE receiver[u]]

NextEvent == {i \in rv + 1..Len(log) : /\ log[i].type # "Other"
                                       /\ \A j \in rv + 1..i - 1 : log[j].type = "Other"}

\* handleEvent; it fails, and the store is listed again, if the event does not fit to the objects.
handleEvent(i) ==
    LET u == log[i].uid
        type == log[i].type
        fits == (objects[u] # NULL) = (type # "Added")
    IN  /\ pc = "loop"
        /\ watcher = "open"
        /\ i \in NextEvent
        /\ rv' = i
        /\ IF ~fits
           THEN pc' = "relist" /\ UNCHANGED storeVars
           ELSE /\ pc' = pc
                /\ objects' = [objects EXCEPT ![u] = IF type = "Deleted" THEN NULL ELSE i]
                /\ namespacedNames' = CASE type = "Added" -> Add(namespacedNames, u, i)
                                        [] type = "Modified" -> Update(namespacedNames, u, i)
                                        [] type = "Deleted" -> Delete(Update(namespacedNames, u, i), u)
                /\ Broadcast(IF type = "Added" THEN {} ELSE {u})
        /\ UNCHANGED <<apiVars, relistVars, watcher, listed, deferredAdds, stopSignal>>

Bookmark ==
    /\ pc = "loop"
    /\ watcher = "open"
    /\ rv < Len(log)
    /\ log[rv + 1].type = "Other"
    /\ rv' = rv + 1
    /\ UNCHANGED <<apiVars, storeVars, relistVars, pc, watcher, listed, deferredAdds, stopSignal>>

WatcherEnds ==
    /\ pc = "loop"
    /\ watcher = "open"
    /\ pc' = "newWatcher"
    /\ UNCHANGED <<apiVars, storeVars, relistVars, watcher, rv, listed, deferredAdds, stopSignal>>

\* The resource version is too old, or something else.
ErrorEventRewatches ==
    /\ pc = "loop"
    /\ watcher = "expired"
    /\ pc' = "newWatcher"
    /\ UNCHANGED <<apiVars, storeVars, relistVars, watcher, rv, listed, deferredAdds, stopSignal>>

ErrorEvent ==
    /\ pc = "loop"
    /\ watcher = "expired"
    /\ pc' = "relist"
    /\ UNCHANGED <<apiVars, storeVars, relistVars, watcher, rv, listed, deferredAdds, stopSignal>>

RelistTriggered ==
    /\ pc = "loop"
    /\ triggerRelist
    /\ triggerRelist' = FALSE
    /\ pc' = "relist"
    /\ UNCHANGED <<apiVars, storeVars, call, watcher, rv, listed, deferredAdds, stopSignal>>

(***************************************************************************)
(* relist:                                                                 *)
(***************************************************************************)
Moved(from, to) ==
    [c \in Callers |-> IF call[c] # NULL /\ call[c].ch = from THEN [call[c] EXCEPT !.ch = to] ELSE call[c]]

AskedAtFirst == pc = "relist"

\* first || newRelistTriggered
Asked == pc = "relist" \/ triggerRelist

\* The channel is replaced before the List call, at the first attempt and whenever one was asked for.
RelistBegins ==
    /\ pc \in {"relist", "retryRelist"}
    /\ call' = IF Asked THEN Moved("relisted", "signalRelistComplete") ELSE call
    /\ triggerRelist' = FALSE
    /\ watcher' = "none"
    /\ pc' = "list"
    /\ UNCHANGED <<apiVars, storeVars, rv, listed, deferredAdds, stopSignal>>

ListSucceeds ==
    /\ pc = "list"
    /\ listed' = Len(log)
    /\ pc' = "apply"
    /\ UNCHANGED <<apiVars, storeVars, relistVars, watcher, rv, deferredAdds, stopSignal>>

CallFails(retry, wait) ==
    /\ failures < MaxFailures
    /\ failures' = failures + 1
    /\ pc' = IF retry THEN wait ELSE "ended"
    /\ UNCHANGED <<log, storeVars, relistVars, watcher, rv, listed, deferredAdds, stopSignal>>

ListFails == pc = "list" /\ CallFails(RetryRelistAfter, "waitRelist")

RetryDelayReached ==
    /\ pc \in {"waitRelist", "waitWatch"}
    /\ pc' = IF pc = "waitRelist" THEN "retryRelist" ELSE "newWatcher"
    /\ UNCHANGED <<apiVars, storeVars, relistVars, watcher, rv, listed, deferredAdds, stopSignal>>

RelistedAddsFirst(names, gone, list) ==
    [n \in DOMAIN names |->
        IF \E u \in gone : Name[u] = n THEN NULL
        ELSE IF \E u \in UIDs : Name[u] = n /\ list[u] # NULL
        THEN LET u == CHOOSE u \in UIDs : Name[u] = n /\ list[u] # NULL IN <<u, list[u]>>
        ELSE names[n]]

\* First the objects that are gone, then those that are listed: a name may be in use again.
Relisted(names, gone, list) ==
    [n \in DOMAIN names |->
        IF \E u \in UIDs : Name[u] = n /\ list[u] # NULL
        THEN LET u == CHOOSE u \in UIDs : Name[u] = n /\ list[u] # NULL IN <<u, list[u]>>
        ELSE IF \E u \in gone : Name[u] = n THEN NULL ELSE names[n]]

AffectedIfKept(gone, kept) == kept

Affected(gone, kept) == gone \union kept

CompletedAll ==
    [c \in Callers |-> IF call[c] # NULL THEN [call[c] EXCEPT !.ch = "closed"] ELSE call[c]]

Completed == Moved("signalRelistComplete", "closed")

OldResourceVersion == rv

NewResourceVersion == listed

\* The second critical section; then all who wait for it are told.
ApplyRelist ==
    LET list == ObjectsAt(listed)
        gone == {u \in UIDs : objects[u] # NULL /\ list[u] = NULL}
        kept == {u \in UIDs : objects[u] # NULL /\ list[u] # NULL}
    IN  /\ pc = "apply"
        /\ objects' = list
        /\ namespacedNames' = Relisted(namespacedNames, gone, list)
        /\ Broadcast(Affected(gone, kept))
        /\ rv' = NewResourceVersion
        /\ listed' = 0
        /\ call' = Completed
        /\ pc' = "newWatcher"
        /\ UNCHANGED <<apiVars, triggerRelist, watcher, deferredAdds, stopSignal>>

(***************************************************************************)
(* newWatcher:                                                             *)
(***************************************************************************)
\* A watch from a resource version that is too old succeeds, but has only an error to tell.
WatchSucceeds ==
    /\ pc = "newWatcher"
    /\ \/ watcher' = "open"
       \/ rv < Len(log) /\ watcher' = "expired"
    /\ pc' = "loop"
    /\ UNCHANGED <<apiVars, storeVars, relistVars, rv, listed, deferredAdds, stopSignal>>

WatchFails == pc = "newWatcher" /\ CallFails(RetryWatchAfter, "waitWatch")

StopReceived ==
    /\ pc \in {"loop", "waitRelist", "waitWatch"}
    /\ stopSignal
    /\ pc' = "ended"
    /\ UNCHANGED <<apiVars, storeVars, relistVars, watcher, rv, listed, deferredAdds, stopSignal>>

(***************************************************************************)
(* The methods                                                             *)
(***************************************************************************)
Relist(c) ==
    /\ Unlocked
    /\ call[c] = NULL
    /\ triggerRelist' = TRUE
    /\ call' = [call EXCEPT ![c] = [ch |-> "relisted", at |-> Len(log)]]
    /\ UNCHANGED <<apiVars, storeVars, loopVars, stopSignal>>

Listen(u) ==
    /\ Unlocked
    /\ u \in Listened
    /\ objects[u] # NULL
    /\ receiver[u] = NULL
    /\ receiver' = [receiver EXCEPT ![u] = [viewed |-> objects[u], signalled |-> FALSE]]
    /\ UNCHANGED <<apiVars, objects, namespacedNames, relistVars, loopVars, stopSignal>>

\* Whoever waits is awake, and reads the object.
Awake(u) ==
    /\ receiver[u] # NULL => receiver[u].signalled
    /\ receiver[u] # NULL
    /\ receiver' = [receiver EXCEPT ![u] = [viewed |-> objects[u], signalled |-> FALSE]]
    /\ UNCHANGED <<apiVars, objects, namespacedNames, relistVars, loopVars, stopSignal>>

\* Stop, or the end of the context
Stop ==
    /\ MayStop
    /\ ~stopSignal
    /\ stopSignal' = TRUE
    /\ UNCHANGED <<apiVars, storeVars, relistVars, loopVars>>

Goroutine ==
    \/ \E u \in UIDs : DeferredAdd(u)
    \/ DeferredAddsDone \/ RelistTriggered \/ RelistBegins \/ ListSucceeds
    \/ RetryDelayReached \/ ApplyRelist \/ WatchSucceeds \/ ErrorEvent \/ StopReceived

Events == \E i \in 1..MaxChanges : handleEvent(i)

Next ==
    \/ Goroutine \/ Events \/ Bookmark \/ WatcherEnds \/ ListFails \/ WatchFails
    \/ \E u \in UIDs : \/ \E type \in {"Added", "Modified", "Deleted"} : Change(type, u)
                       \/ Listen(u) \/ Awake(u)
    \/ \E c \in Callers : Relist(c)
    \/ OtherChange \/ Stop

Spec == Init /\ [][Next]_vars

(***************************************************************************)
(* Properties                                                              *)
(***************************************************************************)
\* What the store holds is what the API server held at the resource version that the next watch starts
\* from: no change is lost or applied twice by a watch that ends, expires or is replaced by a relist.
StoreIsSnapshot == pc \notin {"adding", "ended"} => objects = ObjectsAt(rv)

\* The index by name has exactly the objects of the store, also when a relist shows that an object was
\* deleted and another one created with its name.
IndexAgrees ==
    pc \notin {"adding", "ended"} =>
        \A n \in DOMAIN namespacedNames, u \in UIDs :
            Name[u] = n =>
                /\ objects[u] # NULL => namespacedNames[n] = <<u, objects[u]>>
                /\ objects[u] = NULL /\ namespacedNames[n] # NULL => namespacedNames[n][1] # u

\* When the channel that Relist has returned is closed, the store is not older than the API server was
\* at the call of Relist, however many relists were under way or failed.
RelistIsFresh ==
    \A c \in Callers :
        call[c] # NULL => (call[c].ch = "closed" => rv >= call[c].at)

\* Whoever listens to an object and has not been signalled has not missed a change, nor the end of it.
NoMissedBroadcast ==
    \A u \in UIDs : receiver[u] # NULL =>
        (~receiver[u].signalled => objects[u] = receiver[u].viewed)

(***************************************************************************)
(* The goroutine runs.  An open watch tells what has changed even if       *)
(* watches are ended again and again, and select takes any of the cases    *)
(* that are ready.                                                         *)
(***************************************************************************)
Fairness == WF_vars(Goroutine) /\ SF_vars(Events) /\ SF_vars(RelistTriggered) /\ SF_vars(StopReceived)

FairSpec == Spec /\ Fairness

\* Once the API server is quiet, the store gets to what it has and stays there, unless the watch ends.
CatchesUp == <>[](pc = "ended" \/ objects = ObjectsAt(Len(log)))

\* A relist that was asked for completes, unless the watch ends.
RelistCompletes ==
    \A c \in Callers : call[c] # NULL ~> (pc = "ended" \/ (call[c] # NULL /\ call[c].ch = "closed"))

=============================================================================
