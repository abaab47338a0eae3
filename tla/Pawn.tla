-------------------------------- MODULE Pawn --------------------------------
(***************************************************************************)
(* One pawn: the provider of module Gambit driven by the PodController's   *)
(* sync workers (through the work queue, of which DirtySet is what they    *)
(* may rely on), the eviction loop and drains, the Reconciler, the purge   *)
(* of stale hydrated pods, and crashes of the daemon, which keep the       *)
(* machines and the state files and lose everything else.                  *)
(*                                                                         *)
(* `lister' is the informer cache.  A UID enters it once and never comes   *)
(* back; a name holds one pod at a time.                                   *)
(***************************************************************************)
EXTENDS Gambit

CONSTANTS Evictors,   \* callers of DeletePod outside the PodController
          WatchedPods, \* bound: the pods the batch watcher reports on or restarts
          Pressure,   \* may the host be under pressure (PSI)?
          MaxCrashes  \* bound

ASSUME PawnAssumption ==
    /\ Callers = Names \cup Uids \cup Evictors
    /\ CreateConcurrency \in Nat \ {0} /\ MaxCrashes \in Nat /\ Pressure \in BOOLEAN
    /\ Names \cap Uids = {} /\ Names \cap Evictors = {} /\ Uids \cap Evictors = {}

VARIABLES
    lister,       \* name -> uid of the pod in the informer cache, or NoUid
    unborn,       \* uids not yet created in Kubernetes
    terminating,  \* uids with a DeletionTimestamp
    dirty, running, \* the syncPodsFromKubernetes queue
    lastUsed,     \* names whose lastPodUsed equals the lister's pod
    handled,      \* names whose worker handles the pod the lister still has
    boot,         \* how far PodController.Run is
    rec,          \* the Reconciler: [pc, todo, uid]
    purge, stale, \* PurgeStaleHydrated
    crashes

k8sVars  == <<lister, unborn, terminating>>
syncVars == <<dirty, running, lastUsed, handled, boot>>
recVars  == <<rec, purge, stale, crashes>>
vars     == <<storeVars, gambitVars, hostVars, k8sVars, syncVars, recVars>>

Queue == INSTANCE DirtySet WITH Keys <- Names

Listed  == {u \in Uids : lister[NameOf[u]] = u}
Gone(u) == u \notin unborn /\ u \notin Listed

(********************* Informer events of one name *************************)

\* A change of the cached pod: it differs from lastPodUsed and from the copy a
\* worker may be handling.
Changed(n) == /\ lastUsed' = lastUsed \ {n} /\ handled' = handled \ {n}
              /\ UNCHANGED <<boot, crashes, rec, purge, stale>>
              /\ UNCHANGED <<storeVars, gambitVars, hostVars>>

PodAdded(n, u) ==
    /\ u \in unborn /\ NameOf[u] = n /\ lister[n] = NoUid
    /\ lister' = [lister EXCEPT ![n] = u] /\ unborn' = unborn \ {u}
    /\ Queue!Add(n) /\ Changed(n) /\ UNCHANGED terminating

\* An update that podShouldEnqueue lets through; DeletionTimestamp is one.
PodUpdated(n) ==
    /\ lister[n] # NoUid
    /\ terminating' \in {terminating, terminating \cup {lister[n]}}
    /\ Queue!Add(n) /\ Changed(n) /\ UNCHANGED <<lister, unborn>>

\* DeleteFunc returns early for a tombstone: the key is not enqueued.
PodRemoved(n) ==
    /\ lister[n] # NoUid
    /\ lister' = [lister EXCEPT ![n] = NoUid]
    /\ Queue!Add(n) \/ UNCHANGED <<dirty, running>>
    /\ Changed(n) /\ UNCHANGED <<unborn, terminating>>

\* A relist that missed the deletion: UpdateFunc sees two pods of one name and
\* enqueues the key only if podShouldEnqueue tells them apart.
PodReplaced(n, u) ==
    /\ u \in unborn /\ NameOf[u] = n /\ lister[n] # NoUid
    /\ lister' = [lister EXCEPT ![n] = u] /\ unborn' = unborn \ {u}
    /\ Queue!Add(n) \/ UNCHANGED <<dirty, running>>
    /\ Changed(n) /\ UNCHANGED terminating

Informer(n) ==
    \/ PodUpdated(n) \/ PodRemoved(n)
    \/ \E u \in Uids : PodAdded(n, u) \/ PodReplaced(n, u)

(************************** The sync workers *******************************)

\* A handler's return without error records lastPodUsed; after an error the
\* key may be retried.
Return(n, ok) ==
    /\ Queue!Done(n)
    /\ ok => dirty' = dirty
    /\ lastUsed' = IF ok THEN lastUsed \cup (handled \cap {n}) ELSE lastUsed
    /\ handled' = handled \ {n}
    /\ UNCHANGED <<boot, k8sVars, recVars>>

\* syncPodFromKubernetesHandler takes the key and calls the provider: a pod
\* gone from the cache is deleted if the provider has one of that name, ...
SyncGone(n) ==
    /\ lister[n] = NoUid /\ GetPod(n) # NoUid
    /\ Go(n, "mark", GetPod(n)) /\ UNCHANGED handled

\* ... one that differs from lastPodUsed is deleted if it is terminating and
\* otherwise handed to createOrUpdatePod.
SyncPod(n) ==
    /\ lister[n] # NoUid /\ n \notin lastUsed
    /\ Go(n, IF lister[n] \in terminating THEN "mark" ELSE "admit", lister[n])
    /\ handled' = handled \cup {n}

SyncStart(n) ==
    /\ boot = "started" /\ calls[n] = Idle
    /\ Queue!Start(n)
    /\ SyncGone(n) \/ SyncPod(n)
    /\ UNCHANGED <<storeVars, saga, cancelled, restarting, push, hostVars,
                   lastUsed, boot, k8sVars, recVars>>

\* Nothing to call: no pod anywhere, the pod is lastPodUsed, or a terminating
\* pod whose containers do not run, which is only deleted from the API server.
SyncSkip(n) ==
    /\ boot = "started" /\ calls[n] = Idle /\ n \in dirty
    /\ \/ lister[n] = NoUid /\ GetPod(n) = NoUid
       \/ lister[n] # NoUid /\ (n \in lastUsed \/ lister[n] \in terminating)
    /\ Queue!Drop(n)
    /\ UNCHANGED <<storeVars, gambitVars, hostVars, lastUsed, handled, boot,
                   k8sVars, recVars>>

\* createOrUpdatePod: UpdatePod does nothing, so a pod of this name in the
\* provider ends the call; CreatePod begins with admission, which pressure on
\* the host may also refuse.
SyncAdmit(n, u) ==
    /\ At(n, "admit", u)
    /\ \/ GetPod(n) # NoUid /\ calls' = [calls EXCEPT ![n] = Idle] /\ Return(n, TRUE)
       \/ /\ GetPod(n) = NoUid /\ AdmitPod(u)
          /\ Go(n, "create", u)
          /\ UNCHANGED <<syncVars, k8sVars, recVars>>
       \/ /\ GetPod(n) = NoUid /\ (Pressure \/ ~AdmitPod(u))
          /\ calls' = [calls EXCEPT ![n] = Idle] /\ Return(n, FALSE)
    /\ UNCHANGED <<storeVars, saga, cancelled, restarting, push, hostVars>>

SyncCreate(n, u) ==
    /\ At(n, "create", u)
    /\ CreateOrSkip(u)
    /\ calls' = [calls EXCEPT ![n] = Idle] /\ Return(n, TRUE)
    /\ UNCHANGED <<cancelled, restarting, push, hostVars>>

\* The steps of a DeletePod, whoever called it.
Deleting(c, u) ==
    \/ /\ DeleteMark(c, u) \/ DeleteFile(c, u) \/ DeleteTeardown(c, u)
       /\ UNCHANGED <<syncVars, k8sVars, recVars>>
    \/ /\ DeleteReturn(c, u)
       /\ IF c \in Names THEN Return(c, TRUE)
                         ELSE UNCHANGED <<syncVars, k8sVars, recVars>>

Worker(n) ==
    \/ SyncStart(n) \/ SyncSkip(n)
    \/ \E u \in Uids : SyncAdmit(n, u) \/ SyncCreate(n, u) \/ Deleting(n, u)

\* deleteDanglingPods: before the workers start, one goroutine deletes each pod
\* of the provider whose name the cache does not have.
DanglingStart ==
    /\ boot = "booting" /\ boot' = "dangling"
    /\ calls' = [c \in Callers |->
         IF c \in Registered /\ lister[NameOf[c]] = NoUid
         THEN [pc |-> "mark", uid |-> c] ELSE calls[c]]
    /\ UNCHANGED <<storeVars, saga, cancelled, restarting, push, hostVars,
                   dirty, running, lastUsed, handled, k8sVars, recVars>>

WorkersStart ==
    /\ boot = "dangling" /\ \A u \in Uids : calls[u] = Idle
    /\ boot' = "started"
    /\ UNCHANGED <<storeVars, gambitVars, hostVars,
                   dirty, running, lastUsed, handled, k8sVars, recVars>>

\* A drain picks any pod of the store, the eviction loop a running one that
\* nobody deletes yet.
PickPod(c, u) ==
    /\ calls[c] = Idle /\ HasPod(u)
    /\ \/ Go(c, "mark", u)
       \/ pods[u].phase = "Running" /\ ~IsDeleting(u) /\ Go(c, "evict", u)
    /\ UNCHANGED <<storeVars, saga, cancelled, restarting, push, hostVars,
                   syncVars, k8sVars, recVars>>

\* evictPod first pushes, and persists, the Failed status.
EvictPod(c, u) ==
    /\ At(c, "evict", u)
    /\ files' = [files EXCEPT ![u] = "terminal"]
    /\ Go(c, "mark", u)
    /\ UNCHANGED <<storeVars, saga, cancelled, restarting, push, machines,
                   syncVars, k8sVars, recVars>>

Evictor(c) == \E u \in Uids : PickPod(c, u) \/ EvictPod(c, u) \/ Deleting(c, u)

(***************************** The Reconciler ******************************)

Rec(pc, todo, u) == rec' = [pc |-> pc, todo |-> todo, uid |-> u]

RecUnchanged == UNCHANGED <<gambitVars, k8sVars, lastUsed, handled, boot,
                            purge, stale, crashes>>

\* cleanOrphans lists the machines ...
OrphansList ==
    /\ rec.pc = "idle" /\ Rec("orphans", machines, NoUid)
    /\ UNCHANGED <<storeVars, hostVars, dirty, running>> /\ RecUnchanged

\* ... skips those of known pods, asks for a re-sync of those Kubernetes still
\* has and goes on to tear down the others.
OrphanCheck(u) ==
    /\ rec.pc = "orphans" /\ u \in rec.todo
    /\ \/ HasPod(u) /\ Rec("orphans", rec.todo \ {u}, NoUid) /\ UNCHANGED <<dirty, running>>
       \/ /\ ~HasPod(u) /\ u \in Listed
          /\ Rec("orphans", rec.todo \ {u}, NoUid) /\ Queue!Add(NameOf[u])
       \/ /\ ~HasPod(u) /\ u \notin Listed
          /\ Rec("teardown", rec.todo \ {u}, u) /\ UNCHANGED <<dirty, running>>
    /\ UNCHANGED <<storeVars, hostVars>> /\ RecUnchanged

\* Mutant of OrphanTeardown: everything but the machine is cleaned up.
OrphanTeardownNoStop(stopped) ==
    /\ rec.pc = "teardown" /\ Rec("orphans", rec.todo, NoUid)
    /\ files' = [files EXCEPT ![rec.uid] = "none"]
    /\ UNCHANGED <<storeVars, machines, dirty, running>> /\ RecUnchanged

\* A failed StopMachine is logged and the rest of the teardown goes on.
OrphanTeardown(stopped) ==
    /\ rec.pc = "teardown" /\ Rec("orphans", rec.todo, NoUid)
    /\ machines' = IF stopped THEN machines \ {rec.uid} ELSE machines
    /\ files' = [files EXCEPT ![rec.uid] = "none"]
    /\ UNCHANGED <<storeVars, dirty, running>> /\ RecUnchanged

\* cleanGhosts: first the store's pods, then the cache's, then one by one.
GhostsSnapshot ==
    /\ rec.pc = "orphans" /\ rec.todo = {} /\ Rec("list", Registered, NoUid)
    /\ UNCHANGED <<storeVars, hostVars, dirty, running>> /\ RecUnchanged

GhostsList ==
    /\ rec.pc = "list" /\ Rec("ghosts", rec.todo \ Listed, NoUid)
    /\ UNCHANGED <<storeVars, hostVars, dirty, running>> /\ RecUnchanged

GhostCheck(u) ==
    /\ rec.pc = "ghosts" /\ u \in rec.todo
    /\ IF IsInFlight(u) THEN Rec("ghosts", rec.todo \ {u}, NoUid)
                        ELSE Rec("evict", rec.todo \ {u}, u)
    /\ UNCHANGED <<storeVars, hostVars, dirty, running>> /\ RecUnchanged

GhostEvict ==
    /\ rec.pc = "evict" /\ Rec("ghosts", rec.todo, NoUid)
    /\ EvictGhost(rec.uid)
    /\ files' = [files EXCEPT ![rec.uid] = "none"]
    /\ UNCHANGED <<machines, dirty, running>> /\ RecUnchanged

\* cleanStaleDirs
DirsList ==
    /\ rec.pc = "ghosts" /\ rec.todo = {}
    /\ Rec("dirs", {u \in Uids : files[u] # "none" /\ ~HasPod(u)}, NoUid)
    /\ UNCHANGED <<storeVars, hostVars, dirty, running>> /\ RecUnchanged

DirRemove(u) ==
    /\ rec.pc = "dirs" /\ u \in rec.todo /\ Rec("dirs", rec.todo \ {u}, NoUid)
    /\ files' = IF IsInFlight(u) THEN files ELSE [files EXCEPT ![u] = "none"]
    /\ UNCHANGED <<storeVars, machines, dirty, running>> /\ RecUnchanged

ReconcileDone ==
    /\ rec.pc = "dirs" /\ rec.todo = {} /\ Rec("idle", {}, NoUid)
    /\ UNCHANGED <<storeVars, hostVars, dirty, running>> /\ RecUnchanged

Reconciler ==
    \/ OrphansList \/ GhostsSnapshot \/ GhostsList \/ GhostEvict \/ DirsList
    \/ ReconcileDone \/ \E ok \in BOOLEAN : OrphanTeardown(ok)
    \/ \E u \in Uids : OrphanCheck(u) \/ GhostCheck(u) \/ DirRemove(u)

(*********************** Restart of the daemon *****************************)

\* Mutant of HydratedUsed: the stubs are counted too.
HydratedUsedStubs(disk, stubs) ==
    Cardinality(UNION {Units(u, Cost[u]) : u \in disk \cup stubs})

\* podResources over the registered pods; a stub has no containers.
HydratedUsed(disk, stubs) == Cardinality(UNION {Units(u, Cost[u]) : u \in disk})

\* HydrateFromRuntime: the pods with a live state file, then a stub for each
\* machine without one (the listing may fail, or a unit have lost its
\* metadata); directories of pods that were not restored are removed.
Hydrate(disk, stubs) ==
    /\ pods' = [u \in Uids |-> IF u \in disk \cup stubs
         THEN [phase |-> "Running", inFlight |-> FALSE, deleting |-> FALSE,
               hydrated |-> TRUE, stub |-> u \notin disk]
         ELSE NoEntry]
    /\ nameIndex' \in {f \in [Names -> Uids \cup {NoUid}] : \A n \in Names :
         LET first == {u \in stubs : NameOf[u] = n}
             then  == {u \in disk : NameOf[u] = n}
         IN IF first # {} THEN f[n] \in first
            ELSE IF then # {} THEN f[n] \in then ELSE f[n] = NoUid}
    /\ used' = HydratedUsed(disk, stubs)
    /\ deletingCount' = 0
    /\ files' = [u \in Uids |-> IF u \in disk \cup stubs THEN files[u] ELSE "none"]

Crash ==
    /\ crashes < MaxCrashes /\ crashes' = crashes + 1
    /\ LET disk == {u \in Uids : files[u] = "live"}
       IN \E stubs \in SUBSET (machines \ disk) : Hydrate(disk, stubs)
    /\ saga' = [u \in Uids |-> "none"] /\ cancelled' = {}
    /\ calls' = [c \in Callers |-> Idle]
    /\ restarting' = {} /\ push' = NoPush
    /\ dirty' = {n \in Names : lister[n] # NoUid} /\ running' = {}
    /\ lastUsed' = {} /\ handled' = {} /\ boot' = "booting"
    /\ Rec("idle", {}, NoUid) /\ purge' = "armed" /\ stale' = {}
    /\ UNCHANGED <<machines, k8sVars>>

\* PurgeStaleHydrated, once, half a minute after the start: stubs the
\* PodController has not confirmed and Kubernetes does not have.
PurgeScan ==
    /\ purge = "armed" /\ purge' = "scanned"
    /\ stale' = {u \in Registered : pods[u].hydrated /\ pods[u].stub} \ Listed
    /\ UNCHANGED <<storeVars, gambitVars, hostVars, k8sVars, syncVars, rec, crashes>>

PurgeStale ==
    /\ purge = "scanned" /\ purge' = "done" /\ stale' = {}
    /\ PurgeHydrated(stale)
    /\ files' = [u \in Uids |-> IF u \in stale THEN "none" ELSE files[u]]
    /\ UNCHANGED <<gambitVars, machines, k8sVars, syncVars, rec, crashes>>

\* A fresh host: nothing to hydrate, hence nothing to purge.
Init ==
    /\ pods = [u \in Uids |-> NoEntry] /\ nameIndex = [n \in Names |-> NoUid]
    /\ used = 0 /\ deletingCount = 0
    /\ saga = [u \in Uids |-> "none"] /\ cancelled = {}
    /\ calls = [c \in Callers |-> Idle] /\ restarting = {} /\ push = NoPush
    /\ machines = {} /\ files = [u \in Uids |-> "none"]
    /\ lister = [n \in Names |-> NoUid] /\ unborn = Uids /\ terminating = {}
    /\ Queue!DInit /\ lastUsed = {} /\ handled = {} /\ boot = "booting"
    /\ rec = [pc |-> "idle", todo |-> {}, uid |-> NoUid]
    /\ purge = "done" /\ stale = {} /\ crashes = 0

Saga(u)    == SagaStep(u) /\ UNCHANGED <<syncVars, k8sVars, recVars>>
Watcher(u) == u \in WatchedPods /\ WatcherStep(u) /\ UNCHANGED <<syncVars, k8sVars, recVars>>
Pushing    == PollStep /\ UNCHANGED <<syncVars, k8sVars, recVars>>
Dangling(u) == Deleting(u, u)
Boot       == DanglingStart \/ WorkersStart
Purge      == PurgeScan \/ PurgeStale

Next ==
    \/ \E n \in Names : Informer(n) \/ Worker(n)
    \/ \E u \in Uids : Saga(u) \/ Watcher(u) \/ Dangling(u)
    \/ \E c \in Evictors : Evictor(c)
    \/ Pushing \/ Boot \/ Reconciler \/ Purge \/ Crash

Spec == Init /\ [][Next]_vars

\* Every goroutine that can run does; StopMachine does not fail forever.
FairSpec ==
    /\ Spec
    /\ \A n \in Names : WF_vars(Worker(n))
    /\ \A u \in Uids : WF_vars(Saga(u)) /\ WF_vars(Dangling(u))
    /\ \A c \in Evictors, u \in Uids : WF_vars(EvictPod(c, u) \/ Deleting(c, u))
    /\ WF_vars(Pushing) /\ WF_vars(Boot) /\ WF_vars(Reconciler)
    /\ SF_vars(OrphanTeardown(TRUE))

(****************************** Properties *********************************)

CallPCs == {"idle", "admit", "create", "evict", "mark", "wait", "file",
            "teardown", "unregister"}

PushType ==
    {NoPush} \cup [pc : {"check", "restart", "live", "terminal", "reset"}, uid : Uids]

\* Types of everything but `used', whose value UsedMatchesPods gives.
TypeOK ==
    /\ pods \in [Uids -> Entry \cup {NoEntry}]
    /\ nameIndex \in [Names -> Uids \cup {NoUid}] /\ deletingCount \in Nat
    /\ saga \in [Uids -> {"none", "sem", "launch", "promote", "backoff"}]
    /\ cancelled \subseteq Uids /\ restarting \subseteq Uids
    /\ calls \in [Callers -> [pc : CallPCs, uid : Uids \cup {NoUid}]]
    /\ push \in PushType
    /\ machines \subseteq Uids /\ files \in [Uids -> {"none", "live", "terminal"}]
    /\ lister \in [Names -> Uids \cup {NoUid}] /\ unborn \subseteq Uids
    /\ terminating \subseteq Uids /\ dirty \subseteq Names /\ running \subseteq Names
    /\ lastUsed \subseteq Names /\ handled \subseteq Names
    /\ boot \in {"booting", "dangling", "started"}
    /\ rec \in [pc : {"idle", "orphans", "teardown", "list", "ghosts", "evict", "dirs"},
                todo : SUBSET Uids, uid : Uids \cup {NoUid}]
    /\ purge \in {"armed", "scanned", "done"} /\ stale \subseteq Uids
    /\ crashes \in 0..MaxCrashes

\* GetPod by name never leads nowhere or to a pod of another name: whatever
\* order RegisterPending, Unregister, EvictGhost, PurgeHydrated and hydration
\* run in, nameIndex points into pods.
IndexSound ==
    \A n \in Names : nameIndex[n] # NoUid =>
        HasPod(nameIndex[n]) /\ NameOf[nameIndex[n]] = n

\* Until the daemon restarts, every pod in the store is found under its name,
\* so the PodController can delete it: no removal of one pod's entry (it also
\* removes the name) ever hides another pod of that name.
EveryPodIndexed ==
    crashes = 0 => \A u \in Registered : nameIndex[NameOf[u]] = u

\* The admission counters are the requests of the pods in the store: every
\* path that adds, completes (a stub) or removes an entry accounts for it once.
UsedMatchesPods == used = Cardinality(HeldUnits(Registered))

DeletingPods == {u \in Registered : pods[u].deleting}

\* DeletionsInProgress never misses a pod marked for deletion, so a shutdown
\* that waits for it does not cut short a DeletePod whose entry is in the store.
DeletionsCounted == deletingCount >= Cardinality(DeletingPods)

\* The Reconciler evicts or tears down only pods Kubernetes no longer has, even
\* though it acts on a list of machines, a list of pods and a cache read at
\* different times.
OnlyGoneReconciled == rec.pc \in {"teardown", "evict"} => Gone(rec.uid)

\* A creation under way is alone: it is of a pod in the store, its name has no other creation
\* (the PodController's serialised CreatePod, the reconciler's in-flight checks), and no
\* DeletePod of the pod is past its wait ("so the delete path never races with a create in
\* progress", cancelInFlight).  It holds while the PodController alone deletes and until a restart.
CreationsAlone ==
    \A u \in Uids : saga[u] # "none" =>
        /\ IsInFlight(u)
        /\ \A v \in Uids \ {u} : NameOf[v] = NameOf[u] => saga[v] = "none"
        /\ \A c \in Callers :
             calls[c].uid = u => calls[c].pc \notin {"file", "teardown", "unregister"}

\* No caller is in DeletePod for ever: the saga it waits for notices the cancellation
\* wherever it is, createSem and the retry backoff included.
DeletesReturn ==
    \A c \in Callers : []<>(calls[c].pc \in {"idle", "admit", "create"})

\* A machine neither Kubernetes nor the store knows is stopped by cleanOrphans,
\* whatever race left it behind.
OrphansStopped ==
    \A u \in Uids : u \in machines /\ Gone(u) /\ ~HasPod(u) ~>
                    u \notin machines \/ HasPod(u)

\* A pod that Kubernetes dropped without the PodController noticing leaves the
\* store (cleanGhosts), unless its creation was left in flight.
GhostsEvicted ==
    \A u \in Uids : HasPod(u) /\ Gone(u) /\ ~IsInFlight(u) ~> ~HasPod(u)

(*************** Said of the code, and not what it does ********************)

\* "If the pod still exists in K8s but Gambit lost track of it, request a
\* re-sync so the PodController re-drives creation".
LostPodsRecreated ==
    \A u \in Uids :
        u \in machines /\ u \in Listed /\ u \notin terminating /\ ~HasPod(u) ~>
        u \notin machines \/ u \notin Listed \/ u \in terminating \/ HasPod(u)

=============================================================================
