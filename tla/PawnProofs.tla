------------------------------ MODULE PawnProofs ------------------------------
(***************************************************************************)
(* Proofs about Pawn, for every set of pods, names and evictors, any       *)
(* concurrency of creations and any number of crashes, in four parts.      *)
(* First the store: what a step does to it is reduced to the methods of    *)
(* PodStore (StoreStep), what it does to the informer cache to K8sStep.    *)
(***************************************************************************)
EXTENDS Pawn, FiniteSetTheorems, TLAPS

StoreStep ==
    \/ UNCHANGED storeVars
    \/ \E n \in Names, u \in Uids :
         /\ At(n, "create", u) /\ ~HasPod(u) /\ RegisterPending(u)
         /\ calls' = [calls EXCEPT ![n] = Idle]
    \/ \E u \in Uids : \/ AlreadyRunning(u) \/ PromoteRunning(u) \/ SetTerminal(u)
                       \/ MarkDeleting(u) \/ Unregister(u)
    \/ \E u \in Uids : EvictGhost(u)
    \/ PurgeHydrated(stale)
    \/ \E disk, stubs \in SUBSET Uids :
         /\ Hydrate(disk, stubs) /\ crashes' = crashes + 1
         /\ \A u \in disk \cup stubs : u \in machines \/ files[u] # "none"

\* The pod whose teardown or eviction the Reconciler is in.
RecUid == rec.pc \in {"teardown", "evict"} => rec.uid \in Uids

K8sStep ==
    \/ UNCHANGED k8sVars
    \/ \E n \in Names, u \in Uids :
         /\ u \in unborn /\ NameOf[u] = n
         /\ lister' = [lister EXCEPT ![n] = u] /\ unborn' = unborn \ {u}
         /\ UNCHANGED terminating
    \/ \E n \in Names : 
         /\ lister[n] # NoUid
         /\ terminating' \in {terminating, terminating \cup {lister[n]}}
         /\ UNCHANGED <<lister, unborn>>
    \/ \E n \in Names : 
         /\ lister' = [lister EXCEPT ![n] = NoUid]
         /\ UNCHANGED <<unborn, terminating>>

\* The fields of a record of `calls' or `push'.
LEMMA CallFields ==
    \A r, pc, u : r = [pc |-> pc, uid |-> u] => r.pc = pc /\ r.uid = u
OBVIOUS

\* Two counts of nothing.
LEMMA ZeroCounts == \A m, n : m = 0 /\ n = 0 => m >= n
OBVIOUS

USE DEF storeVars, gambitVars, hostVars, k8sVars, syncVars, recVars

\* Every step of the pawn does to the store what one method of PodStore does.
LEMMA StoreSteps == TypeOK /\ RecUid /\ [Next]_vars => StoreStep
<1> SUFFICES ASSUME TypeOK, RecUid, [Next]_vars PROVE StoreStep
  OBVIOUS
<1>1. ASSUME NEW n \in Names, Informer(n) PROVE StoreStep
  BY <1>1, Zenon DEF Informer, PodUpdated, PodRemoved, PodAdded, PodReplaced, Changed, StoreStep
<1>2. ASSUME NEW n \in Names, SyncStart(n) \/ SyncSkip(n) PROVE StoreStep
  BY <1>2, Zenon DEF SyncStart, SyncSkip, StoreStep
<1>3. ASSUME NEW n \in Names, NEW u \in Uids, SyncAdmit(n, u) PROVE StoreStep
  BY <1>3, Zenon DEF SyncAdmit, StoreStep
<1>4. ASSUME NEW n \in Names, NEW u \in Uids, SyncCreate(n, u) PROVE StoreStep
  BY Zenon, <1>4 DEF SyncCreate, CreateOrSkip, StoreStep
<1>5. ASSUME NEW c, NEW u \in Uids, Deleting(c, u) PROVE StoreStep
  BY Zenon, <1>5 DEF Deleting, DeleteMark, DeleteFile, DeleteTeardown, DeleteReturn, StoreStep
<1>6. ASSUME NEW u \in Uids, Saga(u) PROVE StoreStep
  BY <1>6, Zenon DEF Saga, SagaStep, SagaAcquire, SagaGiveUp, SagaLaunch, SagaPromote, SagaFail, SagaRetry, StoreStep
<1>7. ASSUME NEW u \in Uids, Watcher(u) PROVE StoreStep
  BY <1>7, Zenon DEF Watcher, WatcherStep, PushCheck, RestartContainer, StoreStep
<1>8. ASSUME NEW c, NEW u \in Uids, PickPod(c, u) \/ EvictPod(c, u) PROVE StoreStep
  BY <1>8, Zenon DEF PickPod, EvictPod, StoreStep
<1>9. ASSUME Pushing \/ Boot PROVE StoreStep
  <2>1. push.pc = "check" => push.uid \in Uids
    BY DEF TypeOK, PushType, NoPush
  <2>2. CASE PushTerminal
    BY <2>1, <2>2, Zenon DEF PushTerminal, StoreStep
  <2> QED
    BY <1>9, <2>2, Zenon DEF Pushing, Boot, PollStep, PushLive, PushWrite, PushReset, MaybeRestart,
       DanglingStart, WorkersStart, StoreStep
<1>10. ASSUME Reconciler PROVE StoreStep
  BY Zenon, <1>10 DEF Reconciler, OrphansList, OrphanCheck, OrphanTeardown, GhostsSnapshot, GhostsList,
     GhostCheck, GhostEvict, DirsList, DirRemove, ReconcileDone, StoreStep, RecUid
<1>11. ASSUME Purge PROVE StoreStep
  BY <1>11, Zenon DEF Purge, PurgeScan, PurgeStale, StoreStep
<1>12. ASSUME Crash PROVE StoreStep
  <2>1. PICK stubs \in SUBSET (machines \ {u \in Uids : files[u] = "live"}) :
           Hydrate({u \in Uids : files[u] = "live"}, stubs) /\ crashes' = crashes + 1
    BY <1>12, Zenon DEF Crash
  <2>2. {u \in Uids : files[u] = "live"} \in SUBSET Uids /\ stubs \in SUBSET Uids
    BY Zenon DEF TypeOK
  <2>3. \A u \in {u \in Uids : files[u] = "live"} \cup stubs : u \in machines \/ files[u] # "none"
    OBVIOUS
  <2> QED BY <2>1, <2>2, <2>3, Zenon DEF StoreStep
<1>13. ASSUME UNCHANGED vars PROVE StoreStep
  BY <1>13, Zenon DEF vars, StoreStep
<1> QED
  BY <1>1, <1>2, <1>3, <1>4, <1>5, <1>6, <1>7, <1>8, <1>9, <1>10, <1>11, <1>12, <1>13, Zenon
     DEF Next, Worker, Dangling, Evictor

\* Every step of the pawn leaves the informer cache alone or is one of its events.
LEMMA K8sSteps == [Next]_vars => K8sStep
<1> SUFFICES ASSUME [Next]_vars PROVE K8sStep
  OBVIOUS
<1>1. ASSUME NEW n \in Names, Informer(n) PROVE K8sStep
  BY <1>1, Zenon DEF Informer, PodUpdated, PodRemoved, PodAdded, PodReplaced, K8sStep
<1>2. ASSUME NEW n \in Names, SyncStart(n) \/ SyncSkip(n) PROVE K8sStep
  BY <1>2, Zenon DEF SyncStart, SyncSkip, K8sStep
<1>3. ASSUME NEW n \in Names, NEW u \in Uids, SyncAdmit(n, u) \/ SyncCreate(n, u) PROVE K8sStep
  BY <1>3, Zenon DEF SyncAdmit, SyncCreate, Return, K8sStep
<1>4. ASSUME NEW c, NEW u \in Uids, Deleting(c, u) PROVE K8sStep
  BY <1>4, Zenon DEF Deleting, Return, K8sStep
<1>5. ASSUME NEW u \in Uids, Saga(u) \/ Watcher(u) PROVE K8sStep
  BY <1>5, Zenon DEF Saga, Watcher, K8sStep
<1>6. ASSUME NEW c, NEW u \in Uids, PickPod(c, u) \/ EvictPod(c, u) PROVE K8sStep
  BY <1>6, Zenon DEF PickPod, EvictPod, K8sStep
<1>7. ASSUME Pushing \/ Boot \/ Purge \/ Crash PROVE K8sStep
  BY <1>7, Zenon DEF Pushing, Boot, DanglingStart, WorkersStart, Purge, PurgeScan, PurgeStale, Crash, K8sStep
<1>8. ASSUME Reconciler PROVE K8sStep
  BY ZenonT(60), <1>8 DEF Reconciler, OrphansList, OrphanCheck, OrphanTeardown, GhostsSnapshot, GhostsList,
     GhostCheck, GhostEvict, DirsList, DirRemove, ReconcileDone, RecUnchanged, K8sStep
<1>9. ASSUME UNCHANGED vars PROVE K8sStep
  BY <1>9, Zenon DEF vars, K8sStep
<1> QED
  BY <1>1, <1>2, <1>3, <1>4, <1>5, <1>6, <1>7, <1>8, <1>9, Zenon DEF Next, Worker, Dangling, Evictor

---------------------------------------------------------------------------
\* The pods deleting is set on, as a set of the current store.
LEMMA DeletingFinite == TypeOK => IsFiniteSet(DeletingPods) /\ Cardinality(DeletingPods) \in Nat
<1> SUFFICES ASSUME TypeOK PROVE IsFiniteSet(DeletingPods) /\ Cardinality(DeletingPods) \in Nat
  OBVIOUS
<1>1. DeletingPods \subseteq Uids /\ IsFiniteSet(Uids)
  BY StoreAssumption, Zenon DEF DeletingPods, Registered
<1> QED BY <1>1, FS_Subset, FS_CardinalityType, Zenon

\* One method of the store changes the number of deleting pods by what it
\* adds to deletingCount, or removes pods without subtracting them.
LEMMA StoreCounts ==
    ASSUME TypeOK, DeletionsCounted, StoreStep
    PROVE  deletingCount' \in Nat /\ DeletionsCounted'
<1> DEFINE D == DeletingPods
           E == DeletingPods'
<1>1. IsFiniteSet(D) /\ Cardinality(D) \in Nat /\ deletingCount \in Nat
  BY DeletingFinite, Zenon DEF TypeOK
<1>2. SUFFICES /\ IsFiniteSet(E) /\ Cardinality(E) \in Nat
               /\ deletingCount' \in Int /\ deletingCount' >= Cardinality(E)
  BY DEF DeletionsCounted
<1>3. ASSUME E \subseteq D, deletingCount' = deletingCount
      PROVE  /\ IsFiniteSet(E) /\ Cardinality(E) \in Nat
             /\ deletingCount' \in Int /\ deletingCount' >= Cardinality(E)
  <2>1. IsFiniteSet(E) /\ Cardinality(E) <= Cardinality(D) /\ Cardinality(E) \in Nat
    BY <1>1, <1>3, FS_Subset, FS_CardinalityType, Zenon
  <2> QED BY <2>1, <1>1, <1>3 DEF DeletionsCounted
<1>4. CASE UNCHANGED storeVars
  BY <1>3, <1>4, Zenon DEF DeletingPods, Registered, HasPod
<1>5. ASSUME NEW n \in Names, NEW u \in Uids, ~HasPod(u), RegisterPending(u)
      PROVE  E \subseteq D /\ deletingCount' = deletingCount
  BY <1>5, Zenon DEF RegisterPending, DeletingPods, Registered, HasPod, TypeOK
<1>6. ASSUME NEW u \in Uids, AlreadyRunning(u) \/ PromoteRunning(u) \/ SetTerminal(u)
      PROVE  E \subseteq D /\ deletingCount' = deletingCount
  BY <1>6 DEF AlreadyRunning, PromoteRunning, SetTerminal, DeletingPods, Registered, HasPod, TypeOK, Entry
<1>7. ASSUME NEW u \in Uids, MarkDeleting(u), HasPod(u), ~pods[u].deleting
      PROVE  /\ IsFiniteSet(E) /\ Cardinality(E) \in Nat
             /\ deletingCount' \in Int /\ deletingCount' >= Cardinality(E)
  <2>1. E = D \cup {u} /\ u \notin D
    <3>1. pods[u] \in Entry /\ pods'[u] = [pods[u] EXCEPT !.deleting = TRUE]
          /\ \A v \in Uids \ {u} : pods'[v] = pods[v]
      BY <1>7, Zenon DEF MarkDeleting, HasPod, TypeOK
    <3>2. pods'[u] # NoEntry /\ pods'[u].deleting
      BY Zenon, <3>1, StoreAssumption DEF Entry
    <3> QED BY Zenon, <3>1, <3>2, <1>7 DEF DeletingPods, Registered, HasPod
  <2>2. Cardinality(E) = Cardinality(D) + 1 /\ IsFiniteSet(E)
    BY <2>1, <1>1, FS_AddElement, Zenon
  <2> QED BY <2>2, <1>1, <1>7 DEF MarkDeleting, DeletionsCounted
<1>8. ASSUME NEW u \in Uids, MarkDeleting(u), ~(HasPod(u) /\ ~pods[u].deleting)
      PROVE  E \subseteq D /\ deletingCount' = deletingCount
  BY <1>8, Zenon DEF MarkDeleting, DeletingPods, Registered, HasPod
<1>9. ASSUME NEW u \in Uids, Unregister(u), IsDeleting(u)
      PROVE  /\ IsFiniteSet(E) /\ Cardinality(E) \in Nat
             /\ deletingCount' \in Int /\ deletingCount' >= Cardinality(E)
  <2>1. E = D \ {u} /\ u \in D
    BY <1>9, Zenon DEF Unregister, Drop, IsDeleting, DeletingPods, Registered, HasPod, TypeOK, Entry
  <2>2. Cardinality(E) = Cardinality(D) - 1 /\ IsFiniteSet(E)
    BY <2>1, <1>1, FS_RemoveElement, Zenon
  <2>3. Cardinality(E) \in Nat
    BY <2>2, FS_CardinalityType, Zenon
  <2> QED BY <2>2, <2>3, <1>1, <1>9 DEF Unregister, DeletionsCounted
<1>10. ASSUME NEW u \in Uids, Drop(u), deletingCount' = deletingCount
       PROVE  E \subseteq D
  BY <1>10, Zenon DEF Drop, DeletingPods, Registered, HasPod, TypeOK
<1>11. ASSUME PurgeHydrated(stale) PROVE E \subseteq D /\ deletingCount' = deletingCount
  BY <1>11, Zenon DEF PurgeHydrated, DeletingPods, Registered, HasPod, TypeOK
<1>12. ASSUME NEW disk \in SUBSET Uids, NEW stubs \in SUBSET Uids, Hydrate(disk, stubs)
       PROVE  /\ IsFiniteSet(E) /\ Cardinality(E) \in Nat
              /\ deletingCount' \in Int /\ deletingCount' >= Cardinality(E)
  <2>1. E = {} /\ deletingCount' = 0
    BY <1>12, Zenon DEF Hydrate, DeletingPods, Registered, HasPod
  <2> QED BY <2>1, FS_EmptySet
<1> QED
  BY <1>3, <1>4, <1>5, <1>6, <1>7, <1>8, <1>9, <1>10, <1>11, <1>12, Zenon
     DEF StoreStep, Unregister, EvictGhost

\* Every method of the store keeps its types, nameIndex inside it and, until a
\* restart, every pod indexed.
LEMMA StoreTypes ==
    ASSUME TypeOK, StoreStep
    PROVE  pods' \in [Uids -> Entry \cup {NoEntry}] /\ nameIndex' \in [Names -> Uids \cup {NoUid}]
<1> USE StoreAssumption DEF TypeOK
<1>1. ASSUME NEW u \in Uids, RegisterPending(u)
      PROVE  pods' \in [Uids -> Entry \cup {NoEntry}] /\ nameIndex' \in [Names -> Uids \cup {NoUid}]
  BY <1>1, Zenon DEF RegisterPending, Entry, Phases
<1>2. ASSUME NEW u \in Uids, AlreadyRunning(u) \/ PromoteRunning(u) \/ SetTerminal(u) \/ MarkDeleting(u)
      PROVE  pods' \in [Uids -> Entry \cup {NoEntry}] /\ nameIndex' = nameIndex
  <2>1. CASE pods' = pods
    BY <2>1, <1>2, Zenon DEF AlreadyRunning, PromoteRunning, SetTerminal, MarkDeleting
  <2>2. CASE pods' # pods
    <3>1. pods[u] \in Entry
      BY <2>2, <1>2, Zenon DEF AlreadyRunning, PromoteRunning, SetTerminal, MarkDeleting, HasPod
    <3>2. /\ [pods[u] EXCEPT !.stub = FALSE, !.hydrated = FALSE] \in Entry
          /\ [pods[u] EXCEPT !.phase = "Running", !.inFlight = FALSE] \in Entry
          /\ [pods[u] EXCEPT !.phase = "Terminal"] \in Entry
          /\ [pods[u] EXCEPT !.deleting = TRUE] \in Entry
      BY Zenon, <3>1 DEF Entry, Phases
    <3>3. \E e \in Entry : pods' = [pods EXCEPT ![u] = e]
      <4>1. CASE AlreadyRunning(u)
        <5>1. pods' = [pods EXCEPT ![u] = [pods[u] EXCEPT !.stub = FALSE, !.hydrated = FALSE]]
          BY Zenon, <4>1 DEF AlreadyRunning
        <5> QED BY Zenon, <5>1, <3>2
      <4>2. CASE PromoteRunning(u)
        <5>1. pods' = [pods EXCEPT ![u] = [pods[u] EXCEPT !.phase = "Running", !.inFlight = FALSE]]
          BY Zenon, <4>2, <2>2 DEF PromoteRunning
        <5> QED BY Zenon, <5>1, <3>2
      <4>3. CASE SetTerminal(u)
        BY Zenon, <4>3, <2>2, <3>2 DEF SetTerminal
      <4>4. CASE MarkDeleting(u)
        BY Zenon, <4>4, <2>2, <3>2 DEF MarkDeleting
      <4> QED BY <4>1, <4>2, <4>3, <4>4, <1>2, Zenon
    <3>4. nameIndex' = nameIndex
      BY <1>2, Zenon DEF AlreadyRunning, PromoteRunning, SetTerminal, MarkDeleting
    <3> QED BY <3>3, <3>4
  <2> QED BY <2>1, <2>2, Zenon
<1>3. ASSUME NEW u \in Uids, Drop(u)
      PROVE  pods' \in [Uids -> Entry \cup {NoEntry}] /\ nameIndex' \in [Names -> Uids \cup {NoUid}]
  BY <1>3, Zenon DEF Drop
<1>4. ASSUME PurgeHydrated(stale)
      PROVE  pods' \in [Uids -> Entry \cup {NoEntry}] /\ nameIndex' \in [Names -> Uids \cup {NoUid}]
  BY <1>4, Zenon DEF PurgeHydrated
<1>5. ASSUME NEW disk \in SUBSET Uids, NEW stubs \in SUBSET Uids, Hydrate(disk, stubs)
      PROVE  pods' \in [Uids -> Entry \cup {NoEntry}] /\ nameIndex' \in [Names -> Uids \cup {NoUid}]
  BY <1>5, Zenon DEF Hydrate, Entry, Phases
<1> QED
  BY Zenon, <1>1, <1>2, <1>3, <1>4, <1>5 DEF StoreStep, Unregister, EvictGhost

\* The methods that change an entry in place remove none and add none.
LEMMA EntriesStay ==
    ASSUME TypeOK, NEW u \in Uids,
           AlreadyRunning(u) \/ PromoteRunning(u) \/ SetTerminal(u) \/ MarkDeleting(u)
    PROVE  Registered' = Registered /\ nameIndex' = nameIndex
<1>1. nameIndex' = nameIndex
  BY Zenon DEF AlreadyRunning, PromoteRunning, SetTerminal, MarkDeleting
<1>2. \A v \in Uids : v # u => pods'[v] = pods[v]
  BY Zenon DEF AlreadyRunning, PromoteRunning, SetTerminal, MarkDeleting, TypeOK
<1>3. CASE pods' = pods
  BY <1>1, <1>3, Zenon DEF Registered, HasPod
<1>4. CASE pods' # pods
  <2>1. HasPod(u) /\ pods[u] \in Entry
    BY <1>4, Zenon DEF AlreadyRunning, PromoteRunning, SetTerminal, MarkDeleting, HasPod, TypeOK
  <2>2. pods'[u] \in Entry
    <3>1. /\ [pods[u] EXCEPT !.stub = FALSE, !.hydrated = FALSE] \in Entry
          /\ [pods[u] EXCEPT !.phase = "Running", !.inFlight = FALSE] \in Entry
          /\ [pods[u] EXCEPT !.phase = "Terminal"] \in Entry
          /\ [pods[u] EXCEPT !.deleting = TRUE] \in Entry
      BY Zenon, <2>1 DEF Entry, Phases
    <3>2. \/ pods'[u] = [pods[u] EXCEPT !.stub = FALSE, !.hydrated = FALSE]
          \/ pods'[u] = [pods[u] EXCEPT !.phase = "Running", !.inFlight = FALSE]
          \/ pods'[u] = [pods[u] EXCEPT !.phase = "Terminal"]
          \/ pods'[u] = [pods[u] EXCEPT !.deleting = TRUE]
      BY Zenon, <1>4 DEF AlreadyRunning, PromoteRunning, SetTerminal, MarkDeleting, TypeOK
    <3> QED BY <3>1, <3>2, Zenon
  <2> QED BY <1>1, <1>2, <2>1, <2>2, StoreAssumption, Zenon DEF Registered, HasPod
<1> QED BY <1>3, <1>4, Zenon

\* nameIndex keeps pointing into the store, at a pod of the right name: a removal
\* clears the name of the pod it removes, the only name that can point at it.
LEMMA StoreIndexSound ==
    ASSUME TypeOK, IndexSound, StoreStep PROVE IndexSound'
<1> USE StoreAssumption
<1>1. CASE UNCHANGED storeVars
  BY <1>1, Zenon DEF IndexSound, HasPod
<1>2. ASSUME NEW u \in Uids, RegisterPending(u) PROVE IndexSound'
  <2>1. /\ pods'[u] # NoEntry /\ \A v \in Uids : pods[v] # NoEntry => pods'[v] # NoEntry
        /\ \A n \in Names : nameIndex'[n] = IF n = NameOf[u] THEN u ELSE nameIndex[n]
    <3>1. [phase |-> "Pending", inFlight |-> TRUE, deleting |-> FALSE,
           hydrated |-> FALSE, stub |-> FALSE] \in Entry
      BY Zenon DEF Entry, Phases
    <3> QED BY ZenonT(60), <3>1, <1>2 DEF RegisterPending, TypeOK
  <2> QED BY <2>1 DEF IndexSound, HasPod, TypeOK
<1>3. ASSUME NEW u \in Uids, AlreadyRunning(u) \/ PromoteRunning(u) \/ SetTerminal(u) \/ MarkDeleting(u)
      PROVE  IndexSound'
  BY <1>3, EntriesStay DEF IndexSound, Registered, TypeOK
<1>4. ASSUME NEW u \in Uids, Drop(u) PROVE IndexSound'
  <2>1. /\ \A v \in Uids : v # u => pods'[v] = pods[v]
        /\ \A n \in Names : nameIndex'[n] = nameIndex[n] \/ nameIndex'[n] = NoUid
        /\ HasPod(u) => nameIndex'[NameOf[u]] = NoUid
    BY <1>4, Zenon DEF Drop, TypeOK
  <2>2. ASSUME NEW n \in Names, nameIndex'[n] # NoUid
        PROVE  /\ nameIndex'[n] = nameIndex[n] /\ nameIndex[n] \in Uids
               /\ HasPod(nameIndex[n]) /\ NameOf[nameIndex[n]] = n
    BY <2>1, <2>2 DEF IndexSound, TypeOK
  <2>3. ASSUME NEW n \in Names, nameIndex'[n] # NoUid PROVE nameIndex[n] # u
    BY Zenon, <2>1, <2>2, <2>3
  <2>4. ASSUME NEW n \in Names, nameIndex'[n] # NoUid
        PROVE  pods'[nameIndex'[n]] # NoEntry /\ NameOf[nameIndex'[n]] = n
    <3>1. pods'[nameIndex[n]] = pods[nameIndex[n]]
      BY Zenon, <2>1, <2>2, <2>3, <2>4
    <3> QED BY <3>1, <2>2, <2>4, Zenon DEF HasPod
  <2> QED BY <2>4, Zenon DEF IndexSound, HasPod
<1>5. ASSUME PurgeHydrated(stale) PROVE IndexSound'
  BY <1>5 DEF PurgeHydrated, IndexSound, HasPod, TypeOK
<1>6. ASSUME NEW disk \in SUBSET Uids, NEW stubs \in SUBSET Uids, Hydrate(disk, stubs)
      PROVE  IndexSound'
  <2>1. /\ \A v \in disk \cup stubs : pods'[v] # NoEntry
        /\ \A n \in Names : nameIndex'[n] # NoUid =>
             nameIndex'[n] \in disk \cup stubs /\ NameOf[nameIndex'[n]] = n
    <3>1. \A v \in disk \cup stubs :
            [phase |-> "Running", inFlight |-> FALSE, deleting |-> FALSE,
             hydrated |-> TRUE, stub |-> v \notin disk] \in Entry
      BY Zenon DEF Entry, Phases
    <3>2. \A v \in disk \cup stubs : pods'[v] # NoEntry
      BY <3>1, <1>6 DEF Hydrate
    <3>3. ASSUME NEW n \in Names, nameIndex'[n] # NoUid
          PROVE  nameIndex'[n] \in disk \cup stubs /\ NameOf[nameIndex'[n]] = n
      BY <3>3, <1>6, Zenon DEF Hydrate
    <3> QED BY <3>2, <3>3, Zenon
  <2> QED BY <2>1, Zenon DEF IndexSound, HasPod
<1> QED
  BY <1>1, <1>2, <1>3, <1>4, <1>5, <1>6, Zenon DEF StoreStep, Unregister, EvictGhost

\* A worker about to create a pod owns the name: until a restart no pod of that
\* name is in the store.
CreateFree ==
    \A n \in Names, u \in Uids : At(n, "create", u) =>
        NameOf[u] = n /\ (crashes = 0 => \A v \in Registered : NameOf[v] # n)

\* Two pods of one name never meet in the store before a restart, so removing
\* one never hides the other.
LEMMA StoreEveryPodIndexed ==
    ASSUME TypeOK, EveryPodIndexed, CreateFree, StoreStep,
           crashes' \in {crashes, crashes + 1}
    PROVE  EveryPodIndexed'
<1> SUFFICES ASSUME crashes' = 0 PROVE \A u \in Registered' : nameIndex'[NameOf[u]] = u
  BY Zenon DEF EveryPodIndexed
<1>1. crashes = 0 /\ \A u \in Registered : nameIndex[NameOf[u]] = u
  BY DEF EveryPodIndexed, TypeOK
<1>2. CASE UNCHANGED storeVars
  BY <1>1, <1>2, Zenon DEF Registered, HasPod
<1>3. ASSUME NEW n \in Names, NEW u \in Uids, At(n, "create", u), RegisterPending(u)
      PROVE  \A v \in Registered' : nameIndex'[NameOf[v]] = v
  <2>1. NameOf[u] = n /\ \A v \in Registered : NameOf[v] # n
    BY <1>1, <1>3, Zenon DEF CreateFree
  <2> QED BY <2>1, <1>1, <1>3, StoreAssumption, ZenonT(60) DEF RegisterPending, Registered, HasPod, TypeOK
<1>4. ASSUME NEW u \in Uids, AlreadyRunning(u) \/ PromoteRunning(u) \/ SetTerminal(u) \/ MarkDeleting(u)
      PROVE  \A v \in Registered' : nameIndex'[NameOf[v]] = v
  BY <1>1, <1>4, EntriesStay, Zenon
<1>5. ASSUME NEW u \in Uids, Drop(u)
      PROVE  \A v \in Registered' : nameIndex'[NameOf[v]] = v
  <2>1. /\ Registered' \subseteq Registered \ {u}
        /\ \A n \in Names : nameIndex'[n] # nameIndex[n] => HasPod(u) /\ n = NameOf[u]
    BY <1>5, Zenon DEF Drop, Registered, HasPod, TypeOK
  <2>2. \A v \in Registered' : nameIndex'[NameOf[v]] = nameIndex[NameOf[v]]
    <3> SUFFICES ASSUME NEW v \in Registered', nameIndex'[NameOf[v]] # nameIndex[NameOf[v]]
                 PROVE  FALSE
      OBVIOUS
    <3>1. HasPod(u) /\ NameOf[v] = NameOf[u] /\ v \in Registered /\ v # u
      BY <2>1, StoreAssumption DEF Registered
    <3> QED BY <3>1, <1>1, Zenon DEF Registered
  <2> QED BY <2>1, <2>2, <1>1, Zenon
<1>6. ASSUME PurgeHydrated(stale)
      PROVE  \A v \in Registered' : nameIndex'[NameOf[v]] = v
  BY <1>1, <1>6, StoreAssumption DEF PurgeHydrated, Registered, HasPod, TypeOK
<1>7. crashes' # crashes + 1
  BY <1>1
<1> QED
  BY Zenon, <1>2, <1>3, <1>4, <1>5, <1>6, <1>7 DEF StoreStep, Unregister, EvictGhost

---------------------------------------------------------------------------
\* What one pod holds is finitely many units, as many as its request.
LEMMA UnitsCount ==
    ASSUME NEW u, NEW n \in Nat
    PROVE  IsFiniteSet(Units(u, n)) /\ Cardinality(Units(u, n)) = n
<1>1. IsFiniteSet({u}) /\ Cardinality({u}) = 1
  BY FS_Singleton, Zenon
<1>2. IsFiniteSet(1 .. n) /\ Cardinality(1 .. n) = n
  <2>1. 1 \in Int /\ n \in Int
    OBVIOUS
  <2>2. IsFiniteSet(1 .. n) /\ Cardinality(1 .. n) = IF 1 > n THEN 0 ELSE n - 1 + 1
    BY <2>1, FS_Interval, Zenon
  <2>3. (IF 1 > n THEN 0 ELSE n - 1 + 1) = n
    OBVIOUS
  <2> QED BY <2>2, <2>3
<1>3. /\ IsFiniteSet({u} \X (1 .. n))
      /\ Cardinality({u} \X (1 .. n)) = Cardinality({u}) * Cardinality(1 .. n)
  BY <1>1, <1>2, FS_Product, Zenon
<1> QED BY <1>1, <1>2, <1>3 DEF Units

\* The units of the pods in the store: a pod outside holds none.
LEMMA HeldOutside == HeldUnits(Registered) = HeldUnits(Uids)
<1>1. \A u \in Uids \ Registered : Units(u, Held(u)) = {}
  <2> SUFFICES ASSUME NEW u \in Uids \ Registered PROVE Units(u, Held(u)) = {}
    OBVIOUS
  <2>1. Held(u) = 0
    BY Zenon DEF Held, Registered
  <2>2. {u} \X (1 .. 0) = {}
    OBVIOUS
  <2> QED BY <2>1, <2>2, Zenon DEF Units
<1>2. Registered \subseteq Uids
  BY Zenon DEF Registered
<1>3. ASSUME NEW e, e \in HeldUnits(Uids) PROVE e \in HeldUnits(Registered)
  <2>1. PICK u \in Uids : e \in Units(u, Held(u))
    BY <1>3, Zenon DEF HeldUnits
  <2>2. u \in Registered
    BY <2>1, <1>1, Zenon
  <2> QED BY <2>1, <2>2, Zenon DEF HeldUnits
<1>4. ASSUME NEW e, e \in HeldUnits(Registered) PROVE e \in HeldUnits(Uids)
  BY <1>2, <1>4, Zenon DEF HeldUnits
<1> QED BY <1>3, <1>4, Zenon

\* A pod's request is a natural number.
LEMMA HeldNat == \A v \in Uids : Held(v) \in Nat
<1>1. 0 \in Nat
  OBVIOUS
<1> QED BY <1>1, StoreAssumption, Zenon DEF Held

\* Finitely many pods hold finitely many units.
LEMMA HeldFinite == ASSUME NEW S \in SUBSET Uids PROVE IsFiniteSet(HeldUnits(S))
<1> DEFINE T == {Units(u, Held(u)) : u \in S}
           f == [u \in S |-> Units(u, Held(u))]
<1>1. IsFiniteSet(S)
  BY StoreAssumption, FS_Subset, Zenon
<1>2. f \in Surjection(S, T)
  BY Zenon DEF Surjection
<1>3. IsFiniteSet(T)
  <2> HIDE DEF f, T
  <2> QED BY <1>1, <1>2, FS_Surjection, Zenon
<1>4. \A t \in T : IsFiniteSet(t)
  <2> SUFFICES ASSUME NEW u \in S PROVE IsFiniteSet(Units(u, Held(u)))
    BY Zenon
  <2> QED BY HeldNat, UnitsCount, Zenon
<1>5. IsFiniteSet(UNION T)
  <2> HIDE DEF T
  <2> QED BY <1>3, <1>4, FS_UNION, Zenon
<1> QED BY <1>5, Zenon DEF HeldUnits

\* The units of two disjoint sets of pods add up.
LEMMA HeldAdds ==
    \A S, T \in SUBSET Uids : S \cap T = {} =>
        /\ Cardinality(HeldUnits(S)) \in Nat /\ Cardinality(HeldUnits(T)) \in Nat
        /\ Cardinality(HeldUnits(S \cup T)) =
             Cardinality(HeldUnits(S)) + Cardinality(HeldUnits(T))
<1> SUFFICES ASSUME NEW S \in SUBSET Uids, NEW T \in SUBSET Uids, S \cap T = {}
             PROVE  /\ Cardinality(HeldUnits(S)) \in Nat /\ Cardinality(HeldUnits(T)) \in Nat
                    /\ Cardinality(HeldUnits(S \cup T)) =
                         Cardinality(HeldUnits(S)) + Cardinality(HeldUnits(T))
  BY Zenon
<1> DEFINE A == HeldUnits(S)
           B == HeldUnits(T)
<1>1. IsFiniteSet(A) /\ IsFiniteSet(B)
  BY HeldFinite, Zenon
<1>2. Cardinality(A) \in Nat /\ Cardinality(B) \in Nat
  BY <1>1, FS_CardinalityType, Zenon
<1>3. HeldUnits(S \cup T) = A \cup B
  <2>1. \A e : e \in HeldUnits(S \cup T) <=> \E u \in S \cup T : e \in Units(u, Held(u))
    BY Zenon DEF HeldUnits
  <2>2. \A e : e \in A <=> \E u \in S : e \in Units(u, Held(u))
    BY Zenon DEF HeldUnits
  <2>3. \A e : e \in B <=> \E u \in T : e \in Units(u, Held(u))
    BY Zenon DEF HeldUnits
  <2> HIDE DEF A, B
  <2> QED BY <2>1, <2>2, <2>3, Zenon
<1>4. A \cap B = {}
  <2> SUFFICES ASSUME NEW e, e \in A, e \in B PROVE FALSE
    OBVIOUS
  <2>1. PICK u \in S : e \in {u} \X (1 .. Held(u))
    BY Zenon DEF HeldUnits, Units
  <2>2. PICK v \in T : e \in {v} \X (1 .. Held(v))
    BY Zenon DEF HeldUnits, Units
  <2>3. e[1] = u /\ e[1] = v
    BY <2>1, <2>2
  <2> QED BY <2>3, Zenon
<1>5. Cardinality(A \cup B) = Cardinality(A) + Cardinality(B) - Cardinality(A \cap B)
  BY <1>1, FS_Union, Zenon
<1>6. Cardinality(A \cap B) = 0
  BY <1>4, FS_EmptySet, Zenon
<1> HIDE DEF A, B
<1>7. Cardinality(A \cup B) = Cardinality(A) + Cardinality(B)
  BY <1>2, <1>5, <1>6
<1> QED BY <1>2, <1>3, <1>7, Zenon DEF A, B

\* The units of one pod are its request.
LEMMA HeldOne == \A v \in Uids : Cardinality(HeldUnits({v})) = Held(v)
<1> SUFFICES ASSUME NEW u \in Uids PROVE Cardinality(HeldUnits({u})) = Held(u)
  OBVIOUS
<1>1. HeldUnits({u}) = Units(u, Held(u))
  BY Zenon DEF HeldUnits
<1> QED BY <1>1, HeldNat, UnitsCount, Zenon

\* What the lemmas above say of the units held in a state.
HeldSums ==
    /\ HeldUnits(Registered) = HeldUnits(Uids)
    /\ \A v \in Uids : Held(v) \in Nat /\ Cardinality(HeldUnits({v})) = Held(v)
    /\ \A S, T \in SUBSET Uids : S \cap T = {} =>
         /\ Cardinality(HeldUnits(S)) \in Nat /\ Cardinality(HeldUnits(T)) \in Nat
         /\ Cardinality(HeldUnits(S \cup T)) =
              Cardinality(HeldUnits(S)) + Cardinality(HeldUnits(T))

\* They hold in every state, whatever the store is, hence also in the next one.
LEMMA HeldSumsHold == HeldSums /\ HeldSums'
<1>1. HeldSums
  BY HeldOutside, HeldNat, HeldOne, HeldAdds, Zenon DEF HeldSums
<1> QED BY <1>1, PTL

\* A step that changes what one pod holds and `used' by the difference keeps
\* the counters the requests of the pods in the store.
LEMMA UsedChange ==
    ASSUME UsedMatchesPods, NEW u \in Uids,
           \A v \in Uids \ {u} : Held(v)' = Held(v),
           used' = used + Held(u)' - Held(u)
    PROVE  UsedMatchesPods'
<1> DEFINE R == Uids \ {u}
<1>1. /\ R \in SUBSET Uids /\ {u} \in SUBSET Uids /\ R \cap {u} = {} /\ R \cup {u} = Uids
  OBVIOUS
<1>2. /\ used = Cardinality(HeldUnits(Uids))
      /\ UsedMatchesPods' <=> used' = Cardinality(HeldUnits(Uids)')
  BY HeldSumsHold, Zenon DEF HeldSums, UsedMatchesPods
<1>3. /\ Cardinality(HeldUnits(R)) \in Nat
      /\ Cardinality(HeldUnits(Uids)) = Cardinality(HeldUnits(R)) + Cardinality(HeldUnits({u}))
      /\ Cardinality(HeldUnits(Uids)') = Cardinality(HeldUnits(R)') + Cardinality(HeldUnits({u})')
  BY <1>1, HeldSumsHold, ZenonT(60) DEF HeldSums
<1>4. HeldUnits(R)' = HeldUnits(R)
  BY Zenon DEF HeldUnits
<1>5. /\ Cardinality(HeldUnits({u})) = Held(u) /\ Held(u) \in Nat
      /\ Cardinality(HeldUnits({u})') = Held(u)' /\ Held(u)' \in Nat
  BY HeldSumsHold, Zenon DEF HeldSums
<1> QED BY <1>2, <1>3, <1>4, <1>5

\* Every method of the store changes `used' by what it changes of the requests of
\* the pods it holds: a registration, a stub that becomes a pod, a removal, a purge,
\* and hydration, which counts anew.
LEMMA StoreUsed == ASSUME TypeOK, UsedMatchesPods, StoreStep PROVE UsedMatchesPods'
<1> USE StoreAssumption
<1>0. /\ pods \in [Uids -> Entry \cup {NoEntry}] /\ used \in Nat
      /\ \A u \in Uids : Cost[u] \in Nat /\ Held(u) \in Nat
  <2>1. Registered \in SUBSET Uids /\ {} \in SUBSET Uids /\ Registered \cap {} = {}
    BY Zenon DEF Registered
  <2> QED BY <2>1, HeldSumsHold, Zenon DEF TypeOK, HeldSums, UsedMatchesPods
<1>1. CASE UNCHANGED storeVars
  BY <1>1, Zenon DEF UsedMatchesPods, HeldUnits, Registered, Held, HasPod
<1>2. ASSUME NEW u \in Uids, NEW e \in Entry, pods' = [pods EXCEPT ![u] = e],
             HasPod(u), e.stub = pods[u].stub, used' = used
      PROVE  UsedMatchesPods'
  <2>1. \A v \in Uids : Held(v)' = Held(v)
    BY <1>0, <1>2, Zenon DEF Held, HasPod
  <2>2. used' = used + Held(u)' - Held(u)
    BY <1>0, <1>2, <2>1
  <2> QED BY <2>1, <2>2, UsedChange, Zenon
<1>3. ASSUME NEW u \in Uids, ~HasPod(u), RegisterPending(u) PROVE UsedMatchesPods'
  <2> DEFINE e == [phase |-> "Pending", inFlight |-> TRUE, deleting |-> FALSE,
                   hydrated |-> FALSE, stub |-> FALSE]
  <2>1. e \in Entry /\ ~e.stub
    BY Zenon DEF Entry, Phases
  <2>2. pods' = [pods EXCEPT ![u] = e] /\ used' = used + Cost[u]
    BY <1>3, Zenon DEF RegisterPending
  <2> HIDE DEF e
  <2>3. /\ \A v \in Uids \ {u} : Held(v)' = Held(v)
        /\ Held(u)' = Cost[u] /\ Held(u) = 0
    BY <1>0, <1>3, <2>1, <2>2, Zenon DEF Held, HasPod
  <2>4. used' = used + Held(u)' - Held(u)
    BY <1>0, <2>2, <2>3
  <2> QED BY <2>3, <2>4, UsedChange, Zenon
<1>4. ASSUME NEW u \in Uids, AlreadyRunning(u) PROVE UsedMatchesPods'
  <2> DEFINE e == [pods[u] EXCEPT !.stub = FALSE, !.hydrated = FALSE]
  <2>1. pods[u] \in Entry
    BY <1>0, <1>4, Zenon DEF AlreadyRunning, HasPod
  <2>2. e \in Entry /\ ~e.stub
    BY <2>1, Zenon DEF Entry
  <2>3. pods' = [pods EXCEPT ![u] = e] /\ used' = used + Cost[u] - Held(u)
    BY <1>4, Zenon DEF AlreadyRunning
  <2> HIDE DEF e
  <2>4. (\A v \in Uids \ {u} : Held(v)' = Held(v)) /\ Held(u)' = Cost[u]
    BY <1>0, <2>2, <2>3, Zenon DEF Held, HasPod
  <2> QED BY <2>3, <2>4, UsedChange, Zenon
<1>5. ASSUME NEW u \in Uids, PromoteRunning(u) \/ SetTerminal(u) \/ MarkDeleting(u)
      PROVE  UsedMatchesPods'
  <2>1. CASE pods' = pods
    BY <2>1, <1>5, Zenon DEF PromoteRunning, SetTerminal, MarkDeleting,
       UsedMatchesPods, HeldUnits, Registered, Held, HasPod
  <2>2. CASE pods' # pods
    <3>1. HasPod(u) /\ pods[u] \in Entry
      BY <1>0, <2>2, <1>5, Zenon DEF PromoteRunning, SetTerminal, MarkDeleting, HasPod
    <3>2. ASSUME NEW e \in {[pods[u] EXCEPT !.phase = "Running", !.inFlight = FALSE],
                            [pods[u] EXCEPT !.phase = "Terminal"],
                            [pods[u] EXCEPT !.deleting = TRUE]}
          PROVE  e \in Entry /\ e.stub = pods[u].stub
      BY <3>1, <3>2, Zenon DEF Entry, Phases
    <3>3. \E e \in {[pods[u] EXCEPT !.phase = "Running", !.inFlight = FALSE],
                    [pods[u] EXCEPT !.phase = "Terminal"],
                    [pods[u] EXCEPT !.deleting = TRUE]} : pods' = [pods EXCEPT ![u] = e]
      BY <1>5, <2>2, Zenon DEF PromoteRunning, SetTerminal, MarkDeleting
    <3>4. used' = used
      BY <1>5, Zenon DEF PromoteRunning, SetTerminal, MarkDeleting
    <3> QED BY <1>2, <3>1, <3>2, <3>3, <3>4, Zenon
  <2> QED BY <2>1, <2>2, Zenon
<1>6. ASSUME NEW u \in Uids, Drop(u) PROVE UsedMatchesPods'
  <2>1. (\A v \in Uids \ {u} : Held(v)' = Held(v)) /\ Held(u)' = 0 /\ used' = used - Held(u)
    BY <1>0, <1>6, Zenon DEF Drop, Held, HasPod
  <2>2. used' = used + Held(u)' - Held(u)
    BY <1>0, <2>1
  <2> QED BY <2>1, <2>2, UsedChange, Zenon
<1>7. ASSUME PurgeHydrated(stale) PROVE UsedMatchesPods'
  <2> DEFINE G == stale \cap Registered
             K == Registered \ G
  <2>1. /\ G \in SUBSET Uids /\ K \in SUBSET Uids /\ G \cap K = {} /\ G \cup K = Registered
    BY Zenon DEF Registered
  <2>2. /\ Registered' = K /\ \A v \in K : Held(v)' = Held(v)
        /\ used' = used - Cardinality(HeldUnits(G))
    BY <1>0, <1>7, Zenon DEF PurgeHydrated, Registered, Held, HasPod
  <2> HIDE DEF G, K
  <2>3. HeldUnits(Registered)' = HeldUnits(K)
    BY <2>2, Zenon DEF HeldUnits
  <2>4. /\ Cardinality(HeldUnits(G)) \in Nat /\ Cardinality(HeldUnits(K)) \in Nat
        /\ Cardinality(HeldUnits(Registered)) =
             Cardinality(HeldUnits(G)) + Cardinality(HeldUnits(K))
    BY <2>1, HeldSumsHold, Zenon DEF HeldSums
  <2>5. used = Cardinality(HeldUnits(Registered))
    BY Zenon DEF UsedMatchesPods
  <2>6. used' = Cardinality(HeldUnits(K))
    BY <2>2, <2>4, <2>5
  <2> QED BY <2>3, <2>6, Zenon DEF UsedMatchesPods
<1>8. ASSUME NEW disk \in SUBSET Uids, NEW stubs \in SUBSET Uids, Hydrate(disk, stubs)
      PROVE  UsedMatchesPods'
  <2>1. \A v \in Uids : Held(v)' = IF v \in disk THEN Cost[v] ELSE 0
    <3>1. ASSUME NEW v \in disk \cup stubs
          PROVE  pods'[v] # NoEntry /\ (pods'[v].stub <=> v \notin disk)
      <4> DEFINE e == [phase |-> "Running", inFlight |-> FALSE, deleting |-> FALSE,
                       hydrated |-> TRUE, stub |-> v \notin disk]
      <4>1. e \in Entry /\ (e.stub <=> v \notin disk)
        BY Zenon DEF Entry, Phases
      <4>2. pods'[v] = e
        BY <1>8, Zenon DEF Hydrate
      <4> QED BY <4>1, <4>2, Zenon
    <3>2. \A v \in Uids \ (disk \cup stubs) : pods'[v] = NoEntry
      BY <1>8, Zenon DEF Hydrate
    <3> QED BY <3>1, <3>2, Zenon DEF Held, HasPod
  <2>2. HeldUnits(Uids)' = UNION {Units(u, Cost[u]) : u \in disk}
    <3>1. \A u : {u} \X (1 .. 0) = {}
      OBVIOUS
    <3>2. \A e : e \in HeldUnits(Uids)' <=> \E u \in Uids : e \in Units(u, Held(u)')
      BY Zenon DEF HeldUnits
    <3>3. \A u \in Uids \ disk : Units(u, Held(u)') = {}
      BY <2>1, <3>1, Zenon DEF Units
    <3>4. \A u \in disk : Held(u)' = Cost[u]
      BY <2>1, Zenon
    <3>5. \A e : e \in HeldUnits(Uids)' <=> \E u \in disk : e \in Units(u, Cost[u])
      BY <3>2, <3>3, <3>4, Zenon
    <3> QED BY <3>5, Zenon
  <2>3. used' = Cardinality(UNION {Units(u, Cost[u]) : u \in disk})
    BY <1>8, Zenon DEF Hydrate, HydratedUsed
  <2>4. HeldUnits(Registered)' = HeldUnits(Uids)'
    BY HeldSumsHold, Zenon DEF HeldSums
  <2> QED BY <2>2, <2>3, <2>4, Zenon DEF UsedMatchesPods
<1> QED
  BY <1>1, <1>3, <1>4, <1>5, <1>6, <1>7, <1>8, Zenon DEF StoreStep, Unregister, EvictGhost

-------------------------------------------------------------------------------
(***************************************************************************)
(* Second part: the types of all but the store, what the Reconciler's and  *)
(* the workers' steps rely on, and that a worker calls CreatePod only for  *)
(* a name that is free.                                                    *)
(***************************************************************************)

\* The types of everything outside the store.
CallTypes ==
    /\ saga \in [Uids -> {"none", "sem", "launch", "promote", "backoff"}]
    /\ cancelled \subseteq Uids /\ restarting \subseteq Uids
    /\ calls \in [Callers -> [pc : CallPCs, uid : Uids \cup {NoUid}]]
    /\ push \in PushType
HostTypes == machines \subseteq Uids /\ files \in [Uids -> {"none", "live", "terminal"}]
K8sTypes ==
    /\ lister \in [Names -> Uids \cup {NoUid}] /\ unborn \subseteq Uids
    /\ terminating \subseteq Uids
SyncTypes ==
    /\ dirty \subseteq Names /\ running \subseteq Names
    /\ lastUsed \subseteq Names /\ handled \subseteq Names
    /\ boot \in {"booting", "dangling", "started"}
RecTypes ==
    /\ rec \in [pc : {"idle", "orphans", "teardown", "list", "ghosts", "evict", "dirs"},
                todo : SUBSET Uids, uid : Uids \cup {NoUid}]
    /\ purge \in {"armed", "scanned", "done"} /\ stale \subseteq Uids
    /\ crashes \in 0..MaxCrashes
OtherTypes == CallTypes /\ HostTypes /\ K8sTypes /\ SyncTypes /\ RecTypes

\* A SagaEnd releases the DeletePod calls that wait for it.
LEMMA SagaEndTypes ==
    ASSUME CallTypes, NEW u \in Uids, SagaEnd(u)
    PROVE  /\ saga' \in [Uids -> {"none", "sem", "launch", "promote", "backoff"}]
           /\ cancelled' \subseteq Uids
           /\ calls' \in [Callers -> [pc : CallPCs, uid : Uids \cup {NoUid}]]
  BY Zenon DEF CallTypes, SagaEnd, CallPCs

\* A caller's next step, or its return.
LEMMA GoTypes ==
    ASSUME CallTypes, NEW c, NEW pc \in CallPCs, NEW u \in Uids,
           Go(c, pc, u) \/ calls' = [calls EXCEPT ![c] = Idle]
    PROVE  calls' \in [Callers -> [pc : CallPCs, uid : Uids \cup {NoUid}]]
<1>1. [pc |-> pc, uid |-> u] \in [pc : CallPCs, uid : Uids \cup {NoUid}]
  OBVIOUS
<1>2. Idle \in [pc : CallPCs, uid : Uids \cup {NoUid}]
  BY Zenon DEF Idle, CallPCs
<1> QED BY <1>1, <1>2, ZenonT(60) DEF CallTypes, Go

\* Every step keeps the types of everything outside the store.
LEMMA OtherTypesStep ==
    ASSUME TypeOK, [Next]_vars PROVE OtherTypes'
<1> OtherTypes
  BY Zenon DEF TypeOK, OtherTypes, CallTypes, HostTypes, K8sTypes, SyncTypes, RecTypes
<1> USE StoreAssumption, PawnAssumption DEF OtherTypes
<1>1. ASSUME NEW n \in Names, Informer(n) PROVE OtherTypes'
  <2>1. UNCHANGED <<gambitVars, hostVars, recVars, boot>> /\ lastUsed' \subseteq lastUsed /\ handled' \subseteq handled
    BY <1>1, Zenon DEF Informer, PodUpdated, PodRemoved, PodAdded, PodReplaced, Changed
  <2>2. dirty' \subseteq Names /\ running' \subseteq Names
    BY <1>1, Zenon DEF Informer, PodUpdated, PodRemoved, PodAdded, PodReplaced, Queue!Add, SyncTypes
  <2>3. K8sTypes'
    BY <1>1, Zenon DEF Informer, PodUpdated, PodRemoved, PodAdded, PodReplaced, K8sTypes
  <2> QED BY <2>1, <2>2, <2>3, Zenon DEF CallTypes, HostTypes, SyncTypes, RecTypes
<1>2. ASSUME NEW n \in Names, SyncStart(n) PROVE OtherTypes'
  <2>1. GetPod(n) # NoUid => GetPod(n) \in Uids
    BY Zenon DEF GetPod, Registered
  <2>2. handled' \subseteq Names /\ \E pc \in CallPCs, u \in Uids : Go(n, pc, u)
    <3>1. CASE SyncGone(n)
      BY <3>1, <2>1, Zenon DEF SyncGone, CallPCs, SyncTypes
    <3>2. CASE SyncPod(n)
      <4>1. lister[n] \in Uids
        BY <3>2, Zenon DEF SyncPod, K8sTypes
      <4> QED BY <3>2, <4>1, Zenon DEF SyncPod, CallPCs, SyncTypes
    <3> QED BY <1>2, <3>1, <3>2, Zenon DEF SyncStart
  <2>3. UNCHANGED <<saga, cancelled, restarting, push, hostVars, lastUsed, boot, k8sVars, recVars>>
    BY <1>2, Zenon DEF SyncStart
  <2>4. dirty' \subseteq Names /\ running' \subseteq Names
    BY <1>2, Zenon DEF SyncStart, Queue!Start, SyncTypes
  <2>5. calls' \in [Callers -> [pc : CallPCs, uid : Uids \cup {NoUid}]]
    BY <2>2, GoTypes, Zenon
  <2> QED BY <2>2, <2>3, <2>4, <2>5, Zenon DEF CallTypes, HostTypes, K8sTypes, SyncTypes, RecTypes
<1>3. ASSUME NEW n \in Names, SyncSkip(n) PROVE OtherTypes'
  BY <1>3, Zenon DEF SyncSkip, Queue!Drop, CallTypes, HostTypes, K8sTypes, SyncTypes, RecTypes
<1>4. ASSUME NEW n \in Names, NEW ok \in BOOLEAN, Return(n, ok) PROVE SyncTypes' /\ K8sTypes' /\ RecTypes'
  BY <1>4, ZenonT(60) DEF Return, Queue!Done, SyncTypes, K8sTypes, RecTypes
<1>5. ASSUME UNCHANGED <<syncVars, k8sVars, recVars>> PROVE SyncTypes' /\ K8sTypes' /\ RecTypes'
  BY <1>5, Zenon DEF SyncTypes, K8sTypes, RecTypes
<1>6. ASSUME NEW n \in Names, NEW u \in Uids, SyncAdmit(n, u) PROVE OtherTypes'
  <2>1. calls' \in [Callers -> [pc : CallPCs, uid : Uids \cup {NoUid}]]
    <3>1. Go(n, "create", u) \/ calls' = [calls EXCEPT ![n] = Idle]
      BY Zenon, <1>6 DEF SyncAdmit
    <3> QED BY Zenon, <3>1, GoTypes DEF CallPCs
  <2>2. SyncTypes' /\ K8sTypes' /\ RecTypes'
    BY Zenon, <1>4, <1>5, <1>6 DEF SyncAdmit
  <2>3. UNCHANGED <<saga, cancelled, restarting, push, hostVars>>
    BY <1>6, Zenon DEF SyncAdmit
  <2> QED BY <2>1, <2>2, <2>3, Zenon DEF CallTypes, HostTypes
<1>7. ASSUME NEW n \in Names, NEW u \in Uids, SyncCreate(n, u) PROVE OtherTypes'
  <2>1. calls' \in [Callers -> [pc : CallPCs, uid : Uids \cup {NoUid}]]
    <3>1. calls' = [calls EXCEPT ![n] = Idle]
      BY <1>7, Zenon DEF SyncCreate
    <3> QED BY Zenon, <3>1, GoTypes DEF CallPCs
  <2>2. SyncTypes' /\ K8sTypes' /\ RecTypes'
    BY Zenon, <1>4, <1>7 DEF SyncCreate
  <2>3. saga' \in [Uids -> {"none", "sem", "launch", "promote", "backoff"}]
        /\ UNCHANGED <<cancelled, restarting, push, hostVars>>
    BY <1>7, Zenon DEF SyncCreate, CreateOrSkip, CallTypes
  <2> QED BY <2>1, <2>2, <2>3, Zenon DEF CallTypes, HostTypes
<1>8. ASSUME NEW c \in Callers, NEW u \in Uids, Deleting(c, u) PROVE OtherTypes'
  <2>1. CallTypes' /\ HostTypes'
    <3>1. \/ \E pc \in CallPCs : Go(c, pc, u)
          \/ calls' = [calls EXCEPT ![c] = Idle]
      BY Zenon, <1>8 DEF Deleting, DeleteMark, DeleteFile, DeleteTeardown, DeleteReturn, CallPCs
    <3>2. calls' \in [Callers -> [pc : CallPCs, uid : Uids \cup {NoUid}]]
      <4>1. "idle" \in CallPCs
        BY Zenon DEF CallPCs
      <4> QED BY Zenon, <3>1, <4>1, GoTypes
    <3>3. UNCHANGED <<saga, restarting, push>> /\ cancelled' \subseteq Uids
      BY Zenon, <1>8 DEF Deleting, DeleteMark, DeleteFile, DeleteTeardown, DeleteReturn, CallTypes
    <3>4. HostTypes'
      BY Zenon, <1>8 DEF Deleting, DeleteMark, DeleteFile, DeleteTeardown, DeleteReturn, HostTypes
    <3> QED BY <3>2, <3>3, <3>4, Zenon DEF CallTypes
  <2>2. SyncTypes' /\ K8sTypes' /\ RecTypes'
    BY Zenon, <1>4, <1>5, <1>8 DEF Deleting
  <2> QED BY <2>1, <2>2, Zenon
<1>9. ASSUME NEW u \in Uids, Saga(u) PROVE OtherTypes'
  <2>1. UNCHANGED <<syncVars, k8sVars, recVars, restarting, push>>
    BY <1>9, Zenon DEF Saga, SagaStep, SagaAcquire, SagaGiveUp, SagaLaunch, SagaPromote, SagaFail, SagaRetry
  <2>2. HostTypes'
    BY <1>9, Zenon DEF Saga, SagaStep, SagaAcquire, SagaGiveUp, SagaLaunch, SagaPromote, SagaFail, SagaRetry,
       HostTypes
  <2>3. \/ SagaEnd(u)
        \/ /\ saga' \in [Uids -> {"none", "sem", "launch", "promote", "backoff"}]
           /\ UNCHANGED <<cancelled, calls>>
    BY <1>9, ZenonT(60) DEF Saga, SagaStep, SagaAcquire, SagaGiveUp, SagaLaunch, SagaPromote, SagaFail, SagaRetry,
       CallTypes
  <2>4. CallTypes'
    BY <2>1, <2>3, SagaEndTypes, Zenon DEF CallTypes
  <2> QED BY <1>5, <2>1, <2>2, <2>4, Zenon
<1>10. ASSUME NEW u \in Uids, Watcher(u) PROVE OtherTypes'
  <2>1. UNCHANGED <<syncVars, k8sVars, recVars, saga, cancelled, calls>>
    BY <1>10, Zenon DEF Watcher, WatcherStep, PushCheck, RestartContainer
  <2>2. HostTypes'
    BY <1>10, Zenon DEF Watcher, WatcherStep, PushCheck, RestartContainer, HostTypes
  <2>3. restarting' \subseteq Uids
        /\ push' \in PushType
    BY <1>10 DEF Watcher, WatcherStep, PushCheck, RestartContainer, CallTypes, PushType
  <2> QED BY <1>5, <2>1, <2>2, <2>3, Zenon DEF CallTypes
<1>11. ASSUME NEW c \in Callers, NEW u \in Uids, PickPod(c, u) \/ EvictPod(c, u) PROVE OtherTypes'
  <2>1. UNCHANGED <<syncVars, k8sVars, recVars, saga, cancelled, restarting, push>> /\ HostTypes'
    BY <1>11, Zenon DEF PickPod, EvictPod, HostTypes
  <2>2. \E pc \in CallPCs : Go(c, pc, u)
    BY <1>11, Zenon DEF PickPod, EvictPod, CallPCs
  <2>3. calls' \in [Callers -> [pc : CallPCs, uid : Uids \cup {NoUid}]]
    BY Zenon, <2>2, GoTypes
  <2> QED BY <1>5, <2>1, <2>3, Zenon DEF CallTypes
<1>12. ASSUME Pushing PROVE OtherTypes'
  <2>1. UNCHANGED <<syncVars, k8sVars, recVars, saga, cancelled, calls>>
    BY <1>12, Zenon DEF Pushing, PollStep, PushLive, PushTerminal, PushWrite, PushReset, MaybeRestart
  <2>2. push = NoPush \/ push \in [pc : {"check", "restart", "live", "terminal", "reset"}, uid : Uids]
    BY Zenon DEF CallTypes, PushType
  <2>3. HostTypes'
    BY <1>12 DEF Pushing, PollStep, PushLive, PushTerminal, PushWrite, PushReset, MaybeRestart, HostTypes
  <2>4. restarting' \subseteq Uids
    BY <1>12, <2>2 DEF Pushing, PollStep, PushLive, PushTerminal, PushWrite, PushReset, MaybeRestart,
       NoPush, CallTypes
  <2>5. push' \in PushType
    BY <1>12, <2>2 DEF Pushing, PollStep, PushLive, PushTerminal, PushWrite, PushReset, MaybeRestart,
       NoPush, PushType
  <2> QED BY <1>5, <2>1, <2>3, <2>4, <2>5, Zenon DEF CallTypes
<1>13. ASSUME Boot PROVE OtherTypes'
  <2>1. UNCHANGED <<saga, cancelled, restarting, push, hostVars, dirty, running, lastUsed, handled, k8sVars, recVars>>
        /\ boot' \in {"booting", "dangling", "started"}
    BY <1>13, Zenon DEF Boot, DanglingStart, WorkersStart
  <2>2. calls' \in [Callers -> [pc : CallPCs, uid : Uids \cup {NoUid}]]
    BY <1>13 DEF Boot, DanglingStart, WorkersStart, CallPCs, CallTypes, Registered
  <2> QED BY <2>1, <2>2, Zenon DEF CallTypes, HostTypes, K8sTypes, SyncTypes, RecTypes
<1>14. ASSUME Reconciler PROVE OtherTypes'
  <2>1. UNCHANGED <<gambitVars, k8sVars, lastUsed, handled, boot, purge, stale, crashes>>
    BY Zenon, <1>14 DEF Reconciler, OrphansList, OrphanCheck, OrphanTeardown, GhostsSnapshot, GhostsList,
       GhostCheck, GhostEvict, DirsList, DirRemove, ReconcileDone, RecUnchanged
  <2>2. HostTypes'
    BY Zenon, <1>14 DEF Reconciler, OrphansList, OrphanCheck, OrphanTeardown, GhostsSnapshot, GhostsList,
       GhostCheck, GhostEvict, DirsList, DirRemove, ReconcileDone, HostTypes
  <2>3. dirty' \subseteq Names /\ running' \subseteq Names
    BY Zenon, <1>14 DEF Reconciler, OrphansList, OrphanCheck, OrphanTeardown, GhostsSnapshot, GhostsList,
       GhostCheck, GhostEvict, DirsList, DirRemove, ReconcileDone, Queue!Add, SyncTypes
  <2>4. rec' \in [pc : {"idle", "orphans", "teardown", "list", "ghosts", "evict", "dirs"},
                  todo : SUBSET Uids, uid : Uids \cup {NoUid}]
    <3> DEFINE T == rec' \in [pc : {"idle", "orphans", "teardown", "list", "ghosts", "evict", "dirs"},
                              todo : SUBSET Uids, uid : Uids \cup {NoUid}]
    <3>1. ASSUME OrphansList \/ GhostsSnapshot \/ GhostsList PROVE T
      BY <3>1 DEF OrphansList, GhostsSnapshot, GhostsList, Rec, RecTypes, HostTypes, Registered
    <3>2. ASSUME GhostEvict \/ DirsList \/ ReconcileDone PROVE T
      BY <3>2 DEF GhostEvict, DirsList, ReconcileDone, Rec, RecTypes
    <3>3. ASSUME NEW ok \in BOOLEAN, OrphanTeardown(ok) PROVE T
      BY <3>3, Zenon DEF OrphanTeardown, Rec, RecTypes
    <3>4. ASSUME NEW u \in Uids, OrphanCheck(u) PROVE T
      BY <3>4 DEF OrphanCheck, Rec, RecTypes
    <3>5. ASSUME NEW u \in Uids, GhostCheck(u) \/ DirRemove(u) PROVE T
      BY <3>5 DEF GhostCheck, DirRemove, Rec, RecTypes
    <3> HIDE DEF T
    <3>6. T
      BY Zenon, <1>14, <3>1, <3>2, <3>3, <3>4, <3>5 DEF Reconciler
    <3> QED BY <3>6, Zenon DEF T
  <2> QED BY <2>1, <2>2, <2>3, <2>4, Zenon DEF CallTypes, K8sTypes, SyncTypes, RecTypes
<1>15. ASSUME Purge PROVE OtherTypes'
  <2>1. UNCHANGED <<gambitVars, machines, k8sVars, syncVars, rec, crashes>>
    BY <1>15, Zenon DEF Purge, PurgeScan, PurgeStale
  <2>2. HostTypes' /\ purge' \in {"armed", "scanned", "done"} /\ stale' \subseteq Uids
    BY <1>15, Zenon DEF Purge, PurgeScan, PurgeStale, HostTypes, Registered
  <2> QED BY <2>1, <2>2, Zenon DEF CallTypes, K8sTypes, SyncTypes, RecTypes
<1>16. ASSUME Crash PROVE OtherTypes'
  <2>1. HostTypes' /\ K8sTypes'
    BY <1>16 DEF Crash, Hydrate, HostTypes, K8sTypes
  <2>2. CallTypes'
    BY <1>16, ZenonT(60) DEF Crash, CallTypes, Idle, CallPCs, PushType
  <2>3. SyncTypes' /\ RecTypes'
    BY <1>16 DEF Crash, SyncTypes, RecTypes, Rec
  <2> QED BY <2>1, <2>2, <2>3, ZenonT(60)
<1>17. ASSUME UNCHANGED vars PROVE OtherTypes'
  BY <1>17, Zenon DEF vars, CallTypes, HostTypes, K8sTypes, SyncTypes, RecTypes
<1> QED
  BY <1>1, <1>2, <1>3, <1>6, <1>7, <1>8, <1>9, <1>10, <1>11, <1>12, <1>13, <1>14, <1>15, <1>16, <1>17, Zenon
     DEF Next, Worker, Dangling, Evictor

---------------------------------------------------------------------------
\* Every uid the pawn holds has been in Kubernetes; the cache and the calls of
\* the workers keep names and pods together.
Known == Uids \ unborn
BornHost  == machines \subseteq Known /\ \A u \in Uids : files[u] # "none" => u \in Known
BornCalls ==
    /\ restarting \subseteq Known /\ push.uid \in Known \cup {NoUid}
    /\ \A u \in Uids : saga[u] # "none" => u \in Known
    /\ \A c \in Callers : calls[c].uid \in Known \cup {NoUid}
Born == /\ Registered \subseteq Known /\ BornHost /\ BornCalls
        /\ rec.todo \subseteq Known /\ \A n \in Names : lister[n] \in Known \cup {NoUid}

\* What the Reconciler is about to evict or tear down, and what cleanGhosts has
\* left on its list, is gone from Kubernetes for good.
RecGone ==
    /\ rec.pc \in {"teardown", "evict"} => rec.uid \in Uids /\ Gone(rec.uid)
    /\ rec.pc \in {"ghosts", "evict"} => \A u \in rec.todo : Gone(u)

\* A pod gone from Kubernetes never comes back: only unborn pods are added.
LEMMA GoneStays ==
    ASSUME TypeOK, K8sStep, NEW u \in Uids, Gone(u) PROVE Gone(u)'
<1>1. u \notin unborn'
  BY Zenon DEF K8sStep, Gone, TypeOK
<1>2. lister'[NameOf[u]] # u
  BY StoreAssumption DEF K8sStep, Gone, Listed, TypeOK
<1> QED BY <1>1, <1>2, Zenon DEF Gone, Listed

\* Only the Reconciler and a crash change the Reconciler's state, and a crash
\* is counted.
LEMMA RecSteps ==
    [Next]_vars => /\ rec' = rec \/ Reconciler \/ Crash
                   /\ crashes' = crashes \/ crashes' = crashes + 1
<1> DEFINE G == /\ rec' = rec \/ Reconciler \/ Crash
                /\ crashes' = crashes \/ crashes' = crashes + 1
<1> SUFFICES ASSUME [Next]_vars PROVE G
  OBVIOUS
<1>1. ASSUME NEW n \in Names, Informer(n) PROVE G
  BY <1>1, Zenon DEF Informer, PodUpdated, PodRemoved, PodAdded, PodReplaced, Changed
<1>2. ASSUME NEW n \in Names, SyncStart(n) \/ SyncSkip(n) PROVE G
  BY <1>2, Zenon DEF SyncStart, SyncSkip
<1>3. ASSUME NEW n \in Names, NEW u \in Uids, SyncAdmit(n, u) \/ SyncCreate(n, u) PROVE G
  BY <1>3, Zenon DEF SyncAdmit, SyncCreate, Return
<1>4. ASSUME NEW c, NEW u \in Uids, Deleting(c, u) PROVE G
  BY <1>4, Zenon DEF Deleting, Return
<1>5. ASSUME NEW u \in Uids, Saga(u) \/ Watcher(u) PROVE G
  BY <1>5, Zenon DEF Saga, Watcher
<1>6. ASSUME NEW c, NEW u \in Uids, PickPod(c, u) \/ EvictPod(c, u) PROVE G
  BY <1>6, ZenonT(60) DEF PickPod, EvictPod
<1>7. ASSUME Pushing \/ Boot \/ Purge \/ Crash PROVE G
  <2>1. CASE Pushing \/ Boot
    BY <2>1, Zenon DEF Pushing, Boot, DanglingStart, WorkersStart, recVars
  <2>2. CASE Purge
    BY <2>2, Zenon DEF Purge, PurgeScan, PurgeStale
  <2>3. CASE Crash
    BY <2>3, Zenon DEF Crash
  <2> QED BY <1>7, <2>1, <2>2, <2>3, Zenon
<1>8. ASSUME Reconciler PROVE G
  BY Zenon, <1>8 DEF Reconciler, OrphansList, OrphanCheck, OrphanTeardown, GhostsSnapshot, GhostsList,
     GhostCheck, GhostEvict, DirsList, DirRemove, ReconcileDone, RecUnchanged
<1>9. ASSUME UNCHANGED vars PROVE G
  BY <1>9, Zenon DEF vars
<1> HIDE DEF G
<1> QED
  BY <1>1, <1>2, <1>3, <1>4, <1>5, <1>6, <1>7, <1>8, <1>9, Zenon DEF Next, Worker, Dangling, Evictor

\* The Reconciler's checks, made at different times, end in a pod that is gone.
LEMMA RecGoneStep ==
    ASSUME TypeOK, Born, RecGone, K8sStep, [Next]_vars PROVE RecGone'
<1>1. CASE rec' = rec
  BY <1>1, GoneStays, Zenon DEF RecGone, TypeOK
<1>2. CASE Reconciler
  <2>0. \A u \in Uids : Gone(u) => Gone(u)'
    BY GoneStays, Zenon
  <2>1. CASE rec'.pc \notin {"teardown", "evict", "ghosts"}
    BY <2>1, Zenon DEF RecGone
  <2>2. ASSUME NEW u \in Uids, OrphanCheck(u), rec'.pc = "teardown" PROVE RecGone'
    <3>1. u \in rec.todo /\ u \notin Listed /\ rec'.uid = u
      <4>1. \/ rec' = [pc |-> "orphans", todo |-> rec.todo \ {u}, uid |-> NoUid]
            \/ /\ u \in rec.todo /\ u \notin Listed
               /\ rec' = [pc |-> "teardown", todo |-> rec.todo \ {u}, uid |-> u]
        BY Zenon, <2>2 DEF OrphanCheck, Rec
      <4> QED BY <4>1, <2>2
    <3>2. Gone(u)
      BY <3>1, Zenon DEF Born, Known, Gone
    <3> QED BY <3>1, <3>2, <2>0, <2>2, ZenonT(60) DEF RecGone
  <2>3. CASE GhostsList
    <3>1. rec'.pc = "ghosts" /\ rec'.todo = rec.todo \ Listed
      BY <2>3, Zenon DEF GhostsList, Rec
    <3>2. \A u \in rec'.todo : u \in Uids /\ Gone(u)
      BY <3>1, Zenon DEF Born, Known, Gone, TypeOK
    <3> QED BY <3>1, <3>2, <2>0, Zenon DEF RecGone
  <2>4. ASSUME NEW u \in Uids, GhostCheck(u) PROVE RecGone'
    <3>1. /\ rec.pc = "ghosts" /\ u \in rec.todo /\ rec'.todo = rec.todo \ {u}
          /\ \/ rec'.pc = "ghosts"
             \/ rec'.pc = "evict" /\ rec'.uid = u
      BY <2>4 DEF GhostCheck, Rec
    <3>2. \A v \in rec.todo : v \in Uids /\ Gone(v)
      BY <3>1, Zenon DEF RecGone, TypeOK
    <3> QED BY <3>1, <3>2, <2>0, ZenonT(60) DEF RecGone
  <2>5. CASE GhostEvict
    BY <2>5, <2>0, Zenon DEF GhostEvict, Rec, RecGone, TypeOK
  <2>6. ASSUME NEW u \in Uids, OrphanCheck(u) PROVE RecGone'
    <3>1. rec'.pc = "orphans" \/ rec'.pc = "teardown"
      <4>1. \/ rec' = [pc |-> "orphans", todo |-> rec.todo \ {u}, uid |-> NoUid]
            \/ rec' = [pc |-> "teardown", todo |-> rec.todo \ {u}, uid |-> u]
        BY Zenon, <2>6 DEF OrphanCheck, Rec
      <4> QED BY <4>1
    <3>2. CASE rec'.pc = "orphans"
      BY <3>2, <2>1, Zenon
    <3> QED BY ZenonT(60), <3>1, <3>2, <2>2, <2>6
  <2>7. CASE OrphansList \/ GhostsSnapshot
    <3>1. rec'.pc = "orphans" \/ rec'.pc = "list"
      BY <2>7 DEF OrphansList, GhostsSnapshot, Rec
    <3> QED BY <3>1, <2>1, Zenon
  <2>8. CASE DirsList \/ ReconcileDone
    <3>1. rec'.pc = "dirs" \/ rec'.pc = "idle"
      BY <2>8 DEF DirsList, ReconcileDone, Rec
    <3> QED BY <3>1, <2>1, Zenon
  <2>9. ASSUME NEW ok \in BOOLEAN, OrphanTeardown(ok) PROVE RecGone'
    <3>1. rec'.pc = "orphans"
      BY <2>9, Zenon DEF OrphanTeardown, Rec
    <3> QED BY <3>1, <2>1, Zenon
  <2>10. ASSUME NEW u \in Uids, DirRemove(u) PROVE RecGone'
    <3>1. rec'.pc = "dirs"
      BY <2>10, Zenon DEF DirRemove, Rec
    <3> QED BY <3>1, <2>1, Zenon
  <2> QED
    BY Zenon, <1>2, <2>3, <2>4, <2>5, <2>6, <2>7, <2>8, <2>9, <2>10 DEF Reconciler
<1>3. CASE Crash
  BY <1>3, Zenon DEF Crash, Rec, RecGone
<1>4. rec' = rec \/ Reconciler \/ Crash
  BY RecSteps, Zenon
<1> QED BY <1>1, <1>2, <1>3, <1>4, Zenon

\* A worker between admission and CreatePod: the steps of the others neither
\* register a pod of its name nor change its call.
AdmitNamed == \A n \in Names, u \in Uids : At(n, "admit", u) => NameOf[u] = n

ListerNamed == \A n \in Names : lister[n] # NoUid => NameOf[lister[n]] = n

\* The informer files a pod under its own name.
LEMMA ListerNamedStep ==
    ASSUME TypeOK, ListerNamed, K8sStep PROVE ListerNamed'
  BY StoreAssumption DEF K8sStep, ListerNamed, TypeOK

\* How a worker comes to call CreatePod: with the pod of the cache, and past a
\* GetPod that found no pod of its name.
CallStep ==
    \A n \in Names, u \in Uids :
        /\ At(n, "admit", u)' => At(n, "admit", u) \/ lister[n] = u
        /\ At(n, "create", u)' =>
             \/ At(n, "create", u)
             \/ At(n, "admit", u) /\ GetPod(n) = NoUid /\ UNCHANGED storeVars

\* Every step of the pawn moves the workers' calls that way.
LEMMA CallSteps == ASSUME TypeOK, [Next]_vars PROVE CallStep
<1> SUFFICES ASSUME NEW n \in Names, NEW u \in Uids
             PROVE  /\ At(n, "admit", u)' => At(n, "admit", u) \/ lister[n] = u
                    /\ At(n, "create", u)' =>
                         \/ At(n, "create", u)
                         \/ At(n, "admit", u) /\ GetPod(n) = NoUid /\ UNCHANGED storeVars
  BY Zenon DEF CallStep
<1> DEFINE G == \/ calls'[n] = calls[n]
                \/ calls'[n].pc \notin {"admit", "create"}
                \/ calls'[n] = [pc |-> "admit", uid |-> lister[n]]
                \/ \E v \in Uids : /\ calls'[n] = [pc |-> "create", uid |-> v] /\ At(n, "admit", v)
                                   /\ GetPod(n) = NoUid /\ UNCHANGED storeVars
<1> USE PawnAssumption
<1>0. calls \in [Callers -> [pc : CallPCs, uid : Uids \cup {NoUid}]] /\ n \in Callers
  BY Zenon DEF TypeOK
<1>g. ASSUME NEW c \in Callers, NEW pc, NEW v, Go(c, pc, v)
      PROVE  calls'[n] = calls[n] \/ (c = n /\ calls'[n] = [pc |-> pc, uid |-> v])
  BY ZenonT(60), <1>0, <1>g DEF Go
<1>m. ASSUME NEW pc \in {"idle", "mark", "evict", "wait", "file", "teardown", "unregister"}, NEW v,
             calls'[n] = [pc |-> pc, uid |-> v]
      PROVE  calls'[n].pc \notin {"admit", "create"}
  <2>1. calls'[n].pc = pc
    BY <1>m
  <2> QED BY <2>1, Zenon
<1>n. Names \subseteq Callers
  OBVIOUS
<1>i. ASSUME NEW c \in Callers, calls' = [calls EXCEPT ![c] = Idle]
      PROVE  calls'[n] = calls[n] \/ calls'[n].pc \notin {"admit", "create"}
  <2>1. calls'[n] = calls[n] \/ calls'[n] = [pc |-> "idle", uid |-> NoUid]
    BY ZenonT(60), <1>0, <1>i DEF Idle
  <2> QED BY Zenon, <2>1, <1>m
<1>1. ASSUME NEW m \in Names, Informer(m) PROVE G
  BY <1>1, Zenon DEF Informer, PodUpdated, PodRemoved, PodAdded, PodReplaced, Changed
<1>2. ASSUME NEW m \in Names, SyncStart(m) \/ SyncSkip(m) PROVE G
  <2>1. UNCHANGED calls \/ Go(m, "mark", GetPod(m)) \/ Go(m, "mark", lister[m]) \/ Go(m, "admit", lister[m])
    BY <1>2, Zenon DEF SyncStart, SyncSkip, SyncGone, SyncPod
  <2>2. \/ calls'[n] = calls[n] \/ calls'[n] = [pc |-> "mark", uid |-> GetPod(m)]
        \/ calls'[n] = [pc |-> "mark", uid |-> lister[m]]
        \/ calls'[n] = [pc |-> "admit", uid |-> lister[n]]
    <3>1. m \in Callers
      BY <1>n, Zenon
    <3>2. CASE Go(m, "mark", GetPod(m))
      BY ZenonT(60), <1>g, <3>1, <3>2
    <3>3. CASE Go(m, "mark", lister[m])
      BY ZenonT(60), <1>g, <3>1, <3>3
    <3>4. CASE Go(m, "admit", lister[m])
      <4>1. calls'[n] = calls[n] \/ (m = n /\ calls'[n] = [pc |-> "admit", uid |-> lister[m]])
        BY Zenon, <1>g, <3>1, <3>4
      <4> QED BY <4>1, Zenon
    <3> QED BY Zenon, <2>1, <3>2, <3>3, <3>4
  <2> QED BY ZenonT(60), <1>m, <2>2
<1>3. ASSUME NEW m \in Names, NEW v \in Uids, SyncAdmit(m, v) PROVE G
  <2>1. \/ calls' = [calls EXCEPT ![m] = Idle]
        \/ At(m, "admit", v) /\ GetPod(m) = NoUid /\ Go(m, "create", v) /\ UNCHANGED storeVars
    BY Zenon, <1>3 DEF SyncAdmit
  <2>2. m \in Callers
    BY <1>n, Zenon
  <2>3. CASE calls' = [calls EXCEPT ![m] = Idle]
    BY Zenon, <1>i, <2>2, <2>3
  <2>4. CASE At(m, "admit", v) /\ GetPod(m) = NoUid /\ Go(m, "create", v) /\ UNCHANGED storeVars
    <3>1. calls'[n] = calls[n] \/ (m = n /\ calls'[n] = [pc |-> "create", uid |-> v])
      BY ZenonT(60), <1>g, <2>2, <2>4
    <3> QED BY Zenon, <3>1, <2>4
  <2> QED BY Zenon, <2>1, <2>3, <2>4
<1>4. ASSUME NEW m \in Names, NEW v \in Uids, SyncCreate(m, v) PROVE G
  BY <1>0, <1>4, Zenon DEF SyncCreate, At, Idle
<1>5. ASSUME NEW c \in Callers, NEW v \in Uids, Deleting(c, v) PROVE G
  <2>1. \/ calls' = [calls EXCEPT ![c] = Idle]
        \/ \E pc \in {"wait", "file", "teardown", "unregister"} : Go(c, pc, v)
    BY Zenon, <1>5 DEF Deleting, DeleteMark, DeleteFile, DeleteTeardown, DeleteReturn
  <2>2. ASSUME NEW pc \in {"wait", "file", "teardown", "unregister"}, Go(c, pc, v) PROVE G
    <3>1. calls'[n] = calls[n] \/ calls'[n] = [pc |-> pc, uid |-> v]
      BY Zenon, <1>g, <2>2
    <3> QED BY Zenon, <3>1, <1>m
  <2> QED BY Zenon, <1>i, <2>1, <2>2
<1>6. ASSUME NEW v \in Uids, Saga(v) PROVE G
  <2>1. UNCHANGED calls \/ SagaEnd(v)
    BY <1>6, Zenon DEF Saga, SagaStep, SagaAcquire, SagaGiveUp, SagaLaunch, SagaPromote, SagaFail, SagaRetry
  <2>2. calls'[n] = calls[n] \/ calls'[n] = [pc |-> "file", uid |-> v]
    BY ZenonT(60), <1>0, <2>1 DEF SagaEnd
  <2> QED BY ZenonT(60), <2>2, <1>m
<1>7. ASSUME NEW v \in Uids, Watcher(v) PROVE G
  BY <1>7, Zenon DEF Watcher, WatcherStep, PushCheck, RestartContainer
<1>8. ASSUME NEW c \in Callers, NEW v \in Uids, PickPod(c, v) \/ EvictPod(c, v) PROVE G
  <2>1. \E pc \in {"mark", "evict"} : Go(c, pc, v)
    BY Zenon, <1>8 DEF PickPod, EvictPod
  <2>2. ASSUME NEW pc \in {"mark", "evict"}, Go(c, pc, v) PROVE G
    <3>1. calls'[n] = calls[n] \/ calls'[n] = [pc |-> pc, uid |-> v]
      BY ZenonT(60), <1>g, <2>2
    <3> QED BY Zenon, <3>1, <1>m
  <2> QED BY Zenon, <2>1, <2>2
<1>9. ASSUME Pushing \/ Boot \/ Purge PROVE G
  <2>1. CASE Pushing
    <3>1. UNCHANGED calls
      BY <2>1, Zenon DEF Pushing, PollStep, PushLive, PushTerminal, PushWrite, PushReset, MaybeRestart
    <3> QED BY <3>1, Zenon
  <2>2. CASE Purge
    <3>1. UNCHANGED calls
      BY <2>2, Zenon DEF Purge, PurgeScan, PurgeStale, gambitVars
    <3> QED BY <3>1, Zenon
  <2>3. CASE WorkersStart
    <3>1. UNCHANGED calls
      BY <2>3, Zenon DEF WorkersStart, gambitVars
    <3> QED BY <3>1, Zenon
  <2>4. CASE DanglingStart
    <3>1. calls'[n] = calls[n] \/ calls'[n] = [pc |-> "mark", uid |-> n]
      BY <2>4, <1>0, Zenon DEF DanglingStart
    <3> QED BY <3>1, <1>m, Zenon
  <2> QED BY <1>9, <2>1, <2>2, <2>3, <2>4, Zenon DEF Boot
<1>10. ASSUME Reconciler PROVE G
  BY ZenonT(60), <1>10 DEF Reconciler, OrphansList, OrphanCheck, OrphanTeardown, GhostsSnapshot, GhostsList,
     GhostCheck, GhostEvict, DirsList, DirRemove, ReconcileDone, RecUnchanged
<1>11. ASSUME Crash PROVE G
  <2>1. calls'[n] = [pc |-> "idle", uid |-> NoUid]
    BY <1>0, <1>11, Zenon DEF Crash, Idle
  <2> QED BY <2>1, <1>m, Zenon
<1>12. ASSUME UNCHANGED vars PROVE G
  BY <1>12, Zenon DEF vars
<1> HIDE DEF G
<1>13. G
  BY <1>1, <1>2, <1>3, <1>4, <1>5, <1>6, <1>7, <1>8, <1>9, <1>10, <1>11, <1>12, Zenon
     DEF Next, Worker, Dangling, Evictor
<1>14. ASSUME calls'[n] = [pc |-> "admit", uid |-> u]
       PROVE  calls[n] = [pc |-> "admit", uid |-> u] \/ lister[n] = u
  <2>1. calls'[n].pc = "admit" /\ \A v : calls'[n] # [pc |-> "create", uid |-> v]
    BY <1>14
  <2>2. calls'[n] = calls[n] \/ calls'[n] = [pc |-> "admit", uid |-> lister[n]]
    BY Zenon, <1>13, <2>1 DEF G
  <2>3. CASE calls'[n] = [pc |-> "admit", uid |-> lister[n]]
    <3>1. [pc |-> "admit", uid |-> u].uid = [pc |-> "admit", uid |-> lister[n]].uid
      BY Zenon, <1>14, <2>3
    <3> QED BY Zenon, <3>1
  <2> QED BY ZenonT(60), <1>14, <2>2, <2>3
<1>15. ASSUME calls'[n] = [pc |-> "create", uid |-> u]
       PROVE  \/ calls[n] = [pc |-> "create", uid |-> u]
              \/ At(n, "admit", u) /\ GetPod(n) = NoUid /\ UNCHANGED storeVars
  <2>1. CASE calls'[n] = calls[n]
    BY <1>15, <2>1, Zenon
  <2>2. CASE \E v \in Uids : /\ calls'[n] = [pc |-> "create", uid |-> v] /\ At(n, "admit", v)
                            /\ GetPod(n) = NoUid /\ UNCHANGED storeVars
    <3>1. PICK v \in Uids : /\ calls'[n] = [pc |-> "create", uid |-> v] /\ At(n, "admit", v)
                           /\ GetPod(n) = NoUid /\ UNCHANGED storeVars
      BY <2>2, Zenon
    <3>2. v = u
      BY <3>1, <1>15
    <3> QED BY <3>1, <3>2, Zenon
  <2>3. calls'[n].pc = "create" /\ calls'[n] # [pc |-> "admit", uid |-> lister[n]]
    BY <1>15
  <2> QED BY Zenon, <1>13, <2>1, <2>2, <2>3 DEF G
<1> QED BY <1>14, <1>15, Zenon DEF At

\* The name a worker creates under stays free until its own CreatePod.
LEMMA CreateFreeStep ==
    ASSUME TypeOK, IndexSound, EveryPodIndexed, AdmitNamed, CreateFree, ListerNamed,
           StoreStep, CallStep, crashes' = crashes \/ crashes' = crashes + 1
    PROVE  AdmitNamed' /\ CreateFree'
<1>1. AdmitNamed'
  <2> SUFFICES ASSUME NEW n \in Names, NEW u \in Uids, At(n, "admit", u)' PROVE NameOf[u] = n
    BY Zenon DEF AdmitNamed
  <2> QED BY StoreAssumption, Zenon DEF CallStep, AdmitNamed, ListerNamed
<1>2. ASSUME NEW n \in Names, NEW u \in Uids, At(n, "create", u)'
      PROVE  NameOf[u] = n
  BY <1>2, Zenon DEF CallStep, AdmitNamed, CreateFree
<1>3. ASSUME NEW n \in Names, NEW u \in Uids, At(n, "create", u)', crashes' = 0,
             NEW v \in Registered', NameOf[v] = n
      PROVE  FALSE
  <2>1. crashes = 0 /\ crashes' # crashes + 1 /\ v \in Uids
    BY <1>3, SMTT(30) DEF TypeOK, Registered
  <2>2. v \notin Registered
    <3>1. CASE At(n, "create", u)
      BY <3>1, <1>3, <2>1, Zenon DEF CreateFree
    <3>2. CASE At(n, "admit", u) /\ GetPod(n) = NoUid
      <4>1. ASSUME v \in Registered PROVE nameIndex[n] = v
        BY <4>1, <1>3, <2>1, Zenon DEF EveryPodIndexed
      <4> QED BY <4>1, <3>2, <2>1, StoreAssumption, Zenon DEF GetPod
    <3> QED BY <1>3, <3>1, <3>2, Zenon DEF CallStep
  <2>3. PICK m \in Names, w \in Uids : /\ At(m, "create", w) /\ RegisterPending(w)
                                       /\ calls' = [calls EXCEPT ![m] = Idle]
    <3>1. UNCHANGED storeVars => v \in Registered
      BY Zenon DEF Registered, HasPod
    <3>2. ASSUME NEW w \in Uids, AlreadyRunning(w) \/ PromoteRunning(w) \/ SetTerminal(w) \/ MarkDeleting(w)
          PROVE  v \in Registered
      BY <3>2, EntriesStay, Zenon
    <3>3. ASSUME NEW w \in Uids, Drop(w) PROVE v \in Registered
      BY <3>3, <2>1, Zenon DEF Drop, Registered, HasPod, TypeOK
    <3>4. ASSUME PurgeHydrated(stale) PROVE v \in Registered
      BY <3>4, <2>1, Zenon DEF PurgeHydrated, Registered, HasPod, TypeOK
    <3> QED BY <2>1, <2>2, <3>1, <3>2, <3>3, <3>4, Zenon DEF StoreStep, Unregister, EvictGhost
  <2>4. v = w
    BY <2>1, <2>2, <2>3, Zenon DEF RegisterPending, Registered, HasPod, TypeOK
  <2>5. m = n
    BY <1>3, <2>3, <2>4, Zenon DEF CreateFree
  <2>6. calls'[n].pc = "idle"
    BY <2>3, <2>5, PawnAssumption, Zenon DEF Idle, TypeOK
  <2> QED BY <1>3, <2>6 DEF At
<1> QED BY <1>1, <1>2, <1>3, Zenon DEF CreateFree

-------------------------------------------------------------------------------
(***************************************************************************)
(* Third part: every pod anywhere in the pawn was once in Kubernetes       *)
(* (Born), the inductive invariant IInv, and the theorems it gives.        *)
(***************************************************************************)

\* The informer only makes pods known, and the pods it lists are known.
LEMMA K8sBorn ==
    ASSUME TypeOK, Born, K8sStep
    PROVE  Known \subseteq Known' /\ \A n \in Names : lister'[n] \in Known' \cup {NoUid}
<1>1. Known \subseteq Known'
  BY Zenon DEF K8sStep, Known
<1>2. CASE UNCHANGED lister
  BY <1>1, <1>2, Zenon DEF Born
<1>3. ASSUME NEW m \in Names, NEW u \in Uids, u \in unborn,
             lister' = [lister EXCEPT ![m] = u], unborn' = unborn \ {u}
      PROVE  \A n \in Names : lister'[n] \in Known' \cup {NoUid}
  BY <1>1, <1>3, Zenon DEF Born, Known, TypeOK
<1>4. ASSUME NEW m \in Names, lister' = [lister EXCEPT ![m] = NoUid]
      PROVE  \A n \in Names : lister'[n] \in Known' \cup {NoUid}
  BY <1>1, <1>4, Zenon DEF Born, TypeOK
<1> QED BY <1>1, <1>2, <1>3, <1>4, Zenon DEF K8sStep

\* A pod enters the store from a worker's call or, at a restart, from the host.
LEMMA StoreBorn ==
    ASSUME TypeOK, Born, StoreStep, Known \subseteq Known' PROVE Registered' \subseteq Known'
<1>1. ASSUME NEW n \in Names, NEW u \in Uids, At(n, "create", u), RegisterPending(u)
      PROVE  Registered' \subseteq Known'
  <2>1. u \in Known
    BY <1>1, PawnAssumption, StoreAssumption DEF At, Born, BornCalls
  <2>2. Registered' \subseteq Registered \cup {u}
    BY <1>1, Zenon DEF RegisterPending, Registered, HasPod, TypeOK
  <2> QED BY <2>1, <2>2, ZenonT(60) DEF Born
<1>2. ASSUME NEW u \in Uids, AlreadyRunning(u) \/ PromoteRunning(u) \/ SetTerminal(u) \/ MarkDeleting(u)
      PROVE  Registered' \subseteq Registered
  BY <1>2, EntriesStay, Zenon
<1>3. ASSUME NEW u \in Uids, Drop(u) PROVE Registered' \subseteq Registered
  BY <1>3, Zenon DEF Drop, Registered, HasPod, TypeOK
<1>4. ASSUME PurgeHydrated(stale) PROVE Registered' \subseteq Registered
  BY <1>4, Zenon DEF PurgeHydrated, Registered, HasPod, TypeOK
<1>5. ASSUME NEW disk \in SUBSET Uids, NEW stubs \in SUBSET Uids, Hydrate(disk, stubs),
             \A u \in disk \cup stubs : u \in machines \/ files[u] # "none"
      PROVE  Registered' \subseteq Known'
  <2>1. Registered' \subseteq disk \cup stubs
    BY <1>5, Zenon DEF Hydrate, Registered, HasPod
  <2>2. disk \cup stubs \subseteq Known
    BY <1>5, Zenon DEF Born, BornHost
  <2> QED BY <2>1, <2>2, Zenon
<1>6. UNCHANGED storeVars => Registered' = Registered
  BY Zenon DEF Registered, HasPod
<1> QED
  BY <1>1, <1>2, <1>3, <1>4, <1>5, <1>6, Zenon DEF StoreStep, Unregister, EvictGhost, Born

\* Where a caller gets a pod from: its own call, the store or the cache.
LEMMA GoBorn ==
    ASSUME TypeOK, BornCalls, Known \subseteq Known', NEW c, NEW pc, NEW u \in Known,
           Go(c, pc, u) \/ calls' = [calls EXCEPT ![c] = Idle] \/ calls' = calls
    PROVE  \A d \in Callers : calls'[d].uid \in Known' \cup {NoUid}
<1>1. CASE Go(c, pc, u)
  BY <1>1, Zenon DEF Go, BornCalls, TypeOK
<1>2. CASE calls' = [calls EXCEPT ![c] = Idle]
  BY <1>2, Zenon DEF Idle, BornCalls, TypeOK
<1>3. CASE calls' = calls
  BY <1>3, Zenon DEF BornCalls
<1> QED BY <1>1, <1>2, <1>3, Zenon

\* Every step takes the pods it touches from those the pawn already holds.
LEMMA OthersBorn ==
    ASSUME TypeOK, Born, [Next]_vars, Known \subseteq Known'
    PROVE  BornHost' /\ BornCalls' /\ rec'.todo \subseteq Known'
<1> DEFINE G == BornHost' /\ BornCalls' /\ rec'.todo \subseteq Known'
<1>0. /\ Registered \subseteq Known /\ BornHost /\ BornCalls /\ rec.todo \subseteq Known
      /\ \A n \in Names : lister[n] \in Known \cup {NoUid}
  BY Zenon DEF Born
<1> USE <1>0, PawnAssumption, StoreAssumption
<1>h. UNCHANGED hostVars => BornHost'
  BY Zenon DEF BornHost
<1>c. UNCHANGED gambitVars => BornCalls'
  BY Zenon DEF BornCalls
<1>r. UNCHANGED rec => rec'.todo \subseteq Known'
  OBVIOUS
<1>u. \A c \in Callers, u \in Uids, pc \in CallPCs : At(c, pc, u) => u \in Known
  BY DEF At, BornCalls
<1>1. ASSUME NEW n \in Names, Informer(n) PROVE G
  <2>1. UNCHANGED <<gambitVars, hostVars, rec>>
    BY <1>1, Zenon DEF Informer, PodUpdated, PodRemoved, PodAdded, PodReplaced, Changed
  <2> QED BY <2>1, <1>h, <1>c, <1>r, Zenon
<1>2. ASSUME NEW n \in Names, SyncStart(n) \/ SyncSkip(n) PROVE G
  <2>1. UNCHANGED <<saga, cancelled, restarting, push, hostVars, rec>>
    BY <1>2, Zenon DEF SyncStart, SyncSkip
  <2>2. \/ UNCHANGED calls
        \/ \E u \in Known, pc \in CallPCs : Go(n, pc, u)
    <3>1. GetPod(n) # NoUid => GetPod(n) \in Known
      BY Zenon DEF GetPod
    <3> QED BY <3>1, <1>2, Zenon DEF SyncStart, SyncSkip, SyncGone, SyncPod, CallPCs
  <2>3. \A d \in Callers : calls'[d].uid \in Known' \cup {NoUid}
    BY <2>2, GoBorn, Zenon DEF BornCalls
  <2> QED BY <2>1, <2>3, <1>h, <1>r, Zenon DEF BornCalls
<1>3. ASSUME NEW n \in Names, NEW u \in Uids, SyncAdmit(n, u) \/ SyncCreate(n, u) PROVE G
  <2>1. UNCHANGED <<cancelled, restarting, push, hostVars, rec>>
        /\ \A v \in Uids : saga'[v] # "none" => v = u \/ saga[v] # "none"
    <3>1. UNCHANGED <<cancelled, restarting, push, hostVars, rec>>
      BY Zenon, <1>3 DEF SyncAdmit, SyncCreate, Return
    <3>2. UNCHANGED saga \/ saga' = [saga EXCEPT ![u] = "sem"]
      BY ZenonT(60), <1>3 DEF SyncAdmit, SyncCreate, CreateOrSkip
    <3>3. \A v \in Uids : saga'[v] # "none" => v = u \/ saga[v] # "none"
      BY <3>2 DEF TypeOK
    <3> QED BY <3>1, <3>3, Zenon
  <2>2. u \in Known
    BY Zenon, <1>3, <1>u DEF SyncAdmit, SyncCreate, CallPCs
  <2>3. Go(n, "create", u) \/ calls' = [calls EXCEPT ![n] = Idle]
    BY Zenon, <1>3 DEF SyncAdmit, SyncCreate
  <2>4. \A d \in Callers : calls'[d].uid \in Known' \cup {NoUid}
    BY Zenon, <2>2, <2>3, GoBorn
  <2> QED BY <2>1, <2>2, <2>4, <1>h, <1>r, Zenon DEF BornCalls
<1>4. ASSUME NEW c \in Callers, NEW u \in Uids, Deleting(c, u) PROVE G
  <2>f. UNCHANGED files \/ files' = [files EXCEPT ![u] = "none"]
    BY <1>4, Zenon DEF Deleting, DeleteMark, DeleteFile, DeleteTeardown, DeleteReturn
  <2>m. UNCHANGED <<saga, restarting, push, rec>> /\ machines' \subseteq machines
    BY <1>4, Zenon DEF Deleting, DeleteMark, DeleteFile, DeleteTeardown, DeleteReturn, Return
  <2>1. UNCHANGED <<saga, restarting, push, rec>> /\ machines' \subseteq machines
        /\ \A v \in Uids : files'[v] # "none" => files[v] # "none"
    BY <2>f, <2>m, ZenonT(60) DEF TypeOK
  <2>2. u \in Known
    BY Zenon, <1>4, <1>u DEF Deleting, DeleteMark, DeleteFile, DeleteTeardown, DeleteReturn, CallPCs
  <2>3. \/ \E pc \in CallPCs : Go(c, pc, u)
        \/ calls' = [calls EXCEPT ![c] = Idle]
    BY Zenon, <1>4 DEF Deleting, DeleteMark, DeleteFile, DeleteTeardown, DeleteReturn, CallPCs
  <2>4. \A d \in Callers : calls'[d].uid \in Known' \cup {NoUid}
    BY Zenon, <2>2, <2>3, GoBorn
  <2> QED BY <2>1, <2>4, <1>r, Zenon DEF BornCalls, BornHost
<1>5. ASSUME NEW u \in Uids, Saga(u) PROVE G
  <2>a. saga \in [Uids -> {"none", "sem", "launch", "promote", "backoff"}]
    BY Zenon DEF TypeOK
  <2>b. UNCHANGED <<restarting, push, rec>> /\ saga[u] # "none"
    BY <1>5, Zenon DEF Saga, SagaStep, SagaAcquire, SagaGiveUp, SagaLaunch, SagaPromote, SagaFail, SagaRetry
  <2>c. \E pc : saga' = [saga EXCEPT ![u] = pc]
    BY <1>5, Zenon DEF Saga, SagaStep, SagaAcquire, SagaGiveUp, SagaLaunch, SagaPromote, SagaFail, SagaRetry,
       SagaEnd
  <2>1. UNCHANGED <<restarting, push, rec>> /\ saga[u] # "none"
        /\ \A v \in Uids : saga'[v] # "none" => saga[v] # "none"
    BY <2>a, <2>b, <2>c, Zenon
  <2>2. /\ machines' \subseteq machines \cup {u}
        /\ \A v \in Uids : files'[v] # "none" => v = u \/ files[v] # "none"
    <3>1. /\ machines' \in {machines, machines \cup {u}, machines \ {u}}
          /\ UNCHANGED files \/ files' = [files EXCEPT ![u] = "terminal"]
      BY <1>5, Zenon DEF Saga, SagaStep, SagaAcquire, SagaGiveUp, SagaLaunch, SagaPromote, SagaFail, SagaRetry
    <3> QED BY <3>1, ZenonT(60) DEF TypeOK
  <2>3. UNCHANGED calls \/ SagaEnd(u)
    BY <1>5, Zenon DEF Saga, SagaStep, SagaAcquire, SagaGiveUp, SagaLaunch, SagaPromote, SagaFail, SagaRetry
  <2>4. \A d \in Callers : calls'[d].uid = calls[d].uid
    <3> SUFFICES ASSUME NEW d \in Callers PROVE calls'[d].uid = calls[d].uid
      OBVIOUS
    <3>1. CASE UNCHANGED calls
      BY <3>1, Zenon
    <3>2. CASE SagaEnd(u) /\ At(d, "wait", u)
      <4>1. calls'[d] = [pc |-> "file", uid |-> u] /\ calls[d] = [pc |-> "wait", uid |-> u]
        BY <3>2, Zenon DEF SagaEnd, At
      <4> QED BY <4>1
    <3>3. CASE SagaEnd(u) /\ ~At(d, "wait", u)
      BY <3>3, Zenon DEF SagaEnd
    <3> QED BY <2>3, <3>1, <3>2, <3>3, ZenonT(60)
  <2> QED BY <2>1, <2>2, <2>4, <1>r, Zenon DEF BornCalls, BornHost
<1>6. ASSUME NEW u \in Uids, Watcher(u) PROVE G
  <2>1. UNCHANGED <<saga, calls, rec>> /\ (HasPod(u) \/ u \in restarting)
        /\ restarting' \subseteq restarting \cup {u}
    BY <1>6, Zenon DEF Watcher, WatcherStep, PushCheck, RestartContainer, Watched
  <2>2. /\ machines' \subseteq machines \cup {u}
        /\ \A v \in Uids : files'[v] # "none" => v = u \/ files[v] # "none"
    <3>1. /\ machines' \in {machines, machines \cup {u}, machines \ {u}}
          /\ UNCHANGED files \/ files' = [files EXCEPT ![u] = "live"]
      BY <1>6, Zenon DEF Watcher, WatcherStep, PushCheck, RestartContainer, hostVars
    <3> QED BY <3>1, Zenon DEF TypeOK
  <2>3. push'.uid \in {push.uid, u}
    <3>1. UNCHANGED push \/ push' = [pc |-> "check", uid |-> u]
      BY <1>6, Zenon DEF Watcher, WatcherStep, PushCheck, RestartContainer
    <3>2. push' = [pc |-> "check", uid |-> u] => push'.uid = u
      BY CallFields, ZenonT(60)
    <3> QED BY <3>1, <3>2, Zenon
  <2>4. u \in Known
    BY <2>1, Zenon DEF Registered, BornCalls
  <2> QED BY <2>1, <2>2, <2>3, <2>4, <1>r, ZenonT(60) DEF BornCalls, BornHost
<1>7. ASSUME NEW c \in Callers, NEW u \in Uids, PickPod(c, u) \/ EvictPod(c, u) PROVE G
  <2>1. UNCHANGED <<saga, restarting, push, machines, rec>>
        /\ \A v \in Uids : files'[v] # "none" => v = u \/ files[v] # "none"
    BY <1>7, ZenonT(60) DEF PickPod, EvictPod, TypeOK
  <2>2. u \in Known
    BY <1>7, <1>u, Zenon DEF PickPod, EvictPod, Registered, CallPCs
  <2>3. \E pc \in CallPCs : Go(c, pc, u)
    BY <1>7, Zenon DEF PickPod, EvictPod, CallPCs
  <2>4. \A d \in Callers : calls'[d].uid \in Known' \cup {NoUid}
    BY <2>2, <2>3, GoBorn, Zenon
  <2> QED BY <2>1, <2>2, <2>4, <1>r, Zenon DEF BornCalls, BornHost
<1>8. ASSUME Pushing PROVE G
  <2>1. push = NoPush \/ push \in [pc : {"check", "restart", "live", "terminal", "reset"}, uid : Uids]
    BY Zenon DEF TypeOK, PushType
  <2>2. UNCHANGED <<saga, cancelled, calls, rec>> /\ machines' \subseteq machines
        /\ \A v \in Uids : files'[v] # "none" => v = push.uid \/ files[v] # "none"
    BY <1>8, ZenonT(60) DEF Pushing, PollStep, PushLive, PushTerminal, PushWrite, PushReset, MaybeRestart, TypeOK
  <2>3. push'.uid \in {push.uid, NoUid} /\ restarting' \subseteq restarting \cup {push.uid}
        /\ (push = NoPush => restarting' = restarting)
    <3>1. \/ push' = NoPush \/ push' = [push EXCEPT !.pc = "live"] \/ push' = [push EXCEPT !.pc = "reset"]
          \/ push' = [push EXCEPT !.pc = "terminal"] \/ push' = [push EXCEPT !.pc = "restart"]
      <4>1. CASE PushLive \/ PushWrite \/ PushReset \/ MaybeRestart
        BY <4>1, Zenon DEF PushLive, PushWrite, PushReset, MaybeRestart
      <4>2. CASE PushTerminal
        <5>1. CASE HasPod(push.uid)
          BY <4>2, <5>1, Zenon DEF PushTerminal
        <5>2. CASE ~HasPod(push.uid)
          BY <4>2, <5>2, Zenon DEF PushTerminal
        <5> QED BY <5>1, <5>2, Zenon
      <4> QED BY <1>8, <4>1, <4>2, Zenon DEF Pushing, PollStep
    <3>2. NoPush.uid = NoUid /\ NoPush.pc = "none"
      BY CallFields, Zenon DEF NoPush
    <3>3. push'.uid \in {push.uid, NoUid}
      <4>1. ASSUME NEW pc, push' = [push EXCEPT !.pc = pc] PROVE push'.uid = push.uid
        <5>1. CASE push = NoPush
          BY <4>1, <5>1, Zenon DEF NoPush
        <5>2. CASE push \in [pc : {"check", "restart", "live", "terminal", "reset"}, uid : Uids]
          BY <4>1, <5>2, Zenon
        <5> QED BY <2>1, <5>1, <5>2, Zenon
      <4> QED BY <3>1, <3>2, <4>1, Zenon
    <3>4. UNCHANGED restarting \/ (push.pc = "check" /\ restarting' = restarting \cup {push.uid})
      BY <1>8, Zenon DEF Pushing, PollStep, PushLive, PushTerminal, PushWrite, PushReset, MaybeRestart
    <3> QED BY <3>2, <3>3, <3>4, Zenon
  <2> QED BY <2>1, <2>2, <2>3, <1>r, ZenonT(60) DEF BornCalls, BornHost, NoPush
<1>9. ASSUME Boot PROVE G
  <2>1. UNCHANGED <<saga, cancelled, restarting, push, hostVars, rec>>
    BY <1>9, ZenonT(60) DEF Boot, DanglingStart, WorkersStart
  <2>2. \A d \in Callers : calls'[d].uid = calls[d].uid \/ calls'[d].uid \in Registered
    <3> SUFFICES ASSUME NEW d \in Callers
                 PROVE  calls'[d].uid = calls[d].uid \/ calls'[d].uid \in Registered
      BY Zenon
    <3>1. CASE WorkersStart
      BY <3>1, Zenon DEF WorkersStart, gambitVars
    <3>2. CASE DanglingStart
      <4>1. calls'[d] = calls[d] \/ (d \in Registered /\ calls'[d] = [pc |-> "mark", uid |-> d])
        BY <3>2, Zenon DEF DanglingStart
      <4> QED BY <4>1, CallFields, ZenonT(60)
    <3> QED BY <1>9, <3>1, <3>2, Zenon DEF Boot
  <2> QED BY <2>1, <2>2, <1>h, <1>r, Zenon DEF BornCalls
<1>10. ASSUME Reconciler PROVE G
  <2>1. UNCHANGED gambitVars /\ machines' \subseteq machines
    BY Zenon, <1>10 DEF Reconciler, OrphansList, OrphanCheck, OrphanTeardown, GhostsSnapshot, GhostsList,
       GhostCheck, GhostEvict, DirsList, DirRemove, ReconcileDone, RecUnchanged
  <2>2. \A v \in Uids : files'[v] # "none" => files[v] # "none"
    <3>1. UNCHANGED files \/ \E u : files' = [files EXCEPT ![u] = "none"]
      BY Zenon, <1>10 DEF Reconciler, OrphansList, OrphanCheck, OrphanTeardown, GhostsSnapshot, GhostsList,
         GhostCheck, GhostEvict, DirsList, DirRemove, ReconcileDone
    <3> QED BY <3>1, ZenonT(60) DEF TypeOK
  <2> DEFINE T == rec.todo \cup machines \cup Registered \cup {v \in Uids : files[v] # "none"}
  <2>a. \A pc, S, u : Rec(pc, S, u) => rec'.todo = S
    BY DEF Rec
  <2>3. rec'.todo \subseteq T
    <3>1. ASSUME OrphansList \/ GhostsSnapshot \/ DirsList \/ ReconcileDone PROVE rec'.todo \subseteq T
      BY <3>1, <2>a, Zenon DEF OrphansList, GhostsSnapshot, DirsList, ReconcileDone
    <3>2. ASSUME GhostsList \/ GhostEvict \/ \E ok \in BOOLEAN : OrphanTeardown(ok)
          PROVE rec'.todo \subseteq T
      BY <3>2, <2>a, Zenon DEF GhostsList, GhostEvict, OrphanTeardown
    <3>3. ASSUME \E u \in Uids : OrphanCheck(u) \/ GhostCheck(u) \/ DirRemove(u)
          PROVE rec'.todo \subseteq T
      BY <3>3, <2>a, ZenonT(60) DEF OrphanCheck, GhostCheck, DirRemove
    <3> QED BY ZenonT(60), <1>10, <3>1, <3>2, <3>3 DEF Reconciler
  <2> QED BY <2>1, <2>2, <2>3, <1>c, Zenon DEF BornHost
<1>11. ASSUME Purge PROVE G
  <2>1. UNCHANGED <<gambitVars, machines, rec>>
        /\ \A v \in Uids : files'[v] # "none" => files[v] # "none"
    <3>1. UNCHANGED <<gambitVars, machines, rec>>
      BY <1>11, Zenon DEF Purge, PurgeScan, PurgeStale, hostVars
    <3>2. UNCHANGED files \/ files' = [v \in Uids |-> IF v \in stale THEN "none" ELSE files[v]]
      BY <1>11, Zenon DEF Purge, PurgeScan, PurgeStale, hostVars
    <3> QED BY <3>1, <3>2, Zenon
  <2> QED BY <2>1, <1>c, <1>r, Zenon DEF BornHost
<1>12. ASSUME Crash PROVE G
  <2>1. BornHost'
    <3>1. UNCHANGED machines
          /\ \E S : files' = [v \in Uids |-> IF v \in S THEN files[v] ELSE "none"]
      BY <1>12, Zenon DEF Crash, Hydrate
    <3> QED BY <3>1, Zenon DEF BornHost
  <2>2. BornCalls' /\ rec'.todo \subseteq Known'
    BY <1>12, Zenon DEF Crash, BornCalls, Idle, NoPush, Rec
  <2> QED BY <2>1, <2>2, ZenonT(60)
<1>13. ASSUME UNCHANGED vars PROVE G
  BY <1>13, <1>h, <1>c, <1>r, Zenon DEF vars
<1> HIDE DEF G
<1>14. G
  BY <1>1, <1>2, <1>3, <1>4, <1>5, <1>6, <1>7, <1>8, <1>9, <1>10, <1>11, <1>12, <1>13, Zenon
     DEF Next, Worker, Dangling, Evictor
<1> QED BY <1>14, Zenon DEF G

---------------------------------------------------------------------------
\* The inductive invariant.
IInv ==
    /\ TypeOK /\ DeletionsCounted /\ UsedMatchesPods /\ IndexSound /\ EveryPodIndexed
    /\ ListerNamed /\ AdmitNamed /\ CreateFree /\ Born /\ RecGone

\* A fresh host satisfies it.
LEMMA InitIInv == Init => IInv
<1> SUFFICES ASSUME Init PROVE IInv
  BY Zenon
<1>0. 0 \in Nat /\ 0 \in 0 .. MaxCrashes
  BY PawnAssumption
<1> USE StoreAssumption, PawnAssumption DEF Init
<1>1. TypeOK
  <2>1. pods \in [Uids -> Entry \cup {NoEntry}] /\ nameIndex \in [Names -> Uids \cup {NoUid}]
    BY Zenon
  <2>2. saga \in [Uids -> {"none", "sem", "launch", "promote", "backoff"}]
        /\ files \in [Uids -> {"none", "live", "terminal"}] /\ lister \in [Names -> Uids \cup {NoUid}]
    BY Zenon
  <2>3. Idle \in [pc : CallPCs, uid : Uids \cup {NoUid}]
    BY Zenon DEF Idle, CallPCs
  <2>4. calls \in [Callers -> [pc : CallPCs, uid : Uids \cup {NoUid}]] /\ push \in PushType
    BY <2>3, Zenon DEF PushType
  <2>5. rec \in [pc : {"idle", "orphans", "teardown", "list", "ghosts", "evict", "dirs"},
                 todo : SUBSET Uids, uid : Uids \cup {NoUid}]
    BY Zenon
  <2>6. dirty \subseteq Names /\ running \subseteq Names /\ deletingCount \in Nat /\ crashes \in 0 .. MaxCrashes
    BY <1>0, Zenon DEF Queue!DInit
  <2> QED BY <2>1, <2>2, <2>4, <2>5, <2>6, Zenon DEF TypeOK
<1>2. Registered = {}
  BY Zenon DEF Registered, HasPod
<1>3. DeletionsCounted
  <2>1. DeletingPods = {} /\ deletingCount = 0
    BY <1>2, Zenon DEF DeletingPods
  <2>2. Cardinality(DeletingPods) = 0
    BY <2>1, FS_EmptySet, Zenon
  <2> QED BY <2>1, <2>2, ZeroCounts, Zenon DEF DeletionsCounted
<1>4. IndexSound /\ EveryPodIndexed /\ ListerNamed
  BY <1>2, Zenon DEF IndexSound, EveryPodIndexed, ListerNamed
<1>5. AdmitNamed /\ CreateFree
  BY Zenon DEF AdmitNamed, CreateFree, At, Idle
<1>6. Born /\ RecGone
  BY <1>2, Zenon DEF Born, BornHost, BornCalls, Known, RecGone, Idle, NoPush
<1>7. UsedMatchesPods
  <2>1. HeldUnits(Registered) = {}
    BY <1>2, Zenon DEF HeldUnits
  <2> QED BY <2>1, FS_EmptySet, Zenon DEF UsedMatchesPods
<1> QED BY <1>1, <1>3, <1>4, <1>5, <1>6, <1>7, Zenon DEF IInv

\* Every step of the pawn keeps it.
LEMMA NextIInv == IInv /\ [Next]_vars => IInv'
<1> SUFFICES ASSUME IInv, [Next]_vars PROVE IInv'
  OBVIOUS
<1>0. /\ TypeOK /\ DeletionsCounted /\ UsedMatchesPods /\ IndexSound /\ EveryPodIndexed
      /\ ListerNamed /\ AdmitNamed /\ CreateFree /\ Born /\ RecGone
  BY Zenon DEF IInv
<1>1. StoreStep
  BY <1>0, StoreSteps, Zenon DEF RecUid, RecGone
<1>2. K8sStep
  BY K8sSteps, Zenon
<1>3. CallStep
  BY <1>0, CallSteps, Zenon
<1>4. TypeOK'
  <2>1. OtherTypes'
    BY <1>0, OtherTypesStep, Zenon
  <2>2. deletingCount' \in Nat
    BY <1>0, <1>1, StoreCounts, Zenon
  <2>3. pods' \in [Uids -> Entry \cup {NoEntry}] /\ nameIndex' \in [Names -> Uids \cup {NoUid}]
    BY <1>0, <1>1, StoreTypes, Zenon
  <2> QED BY <2>1, <2>2, <2>3, Zenon DEF TypeOK, OtherTypes, CallTypes, HostTypes, K8sTypes, SyncTypes, RecTypes
<1>5. crashes' = crashes \/ crashes' = crashes + 1
  BY RecSteps, Zenon
<1>6. DeletionsCounted' /\ UsedMatchesPods' /\ IndexSound' /\ EveryPodIndexed'
  BY <1>0, <1>1, <1>5, StoreCounts, StoreUsed, StoreIndexSound, StoreEveryPodIndexed, Zenon
<1>7. ListerNamed' /\ AdmitNamed' /\ CreateFree'
  BY <1>0, <1>1, <1>2, <1>3, <1>5, ListerNamedStep, CreateFreeStep, Zenon
<1>8. Born'
  <2>1. Known \subseteq Known' /\ \A n \in Names : lister'[n] \in Known' \cup {NoUid}
    BY <1>0, <1>2, K8sBorn, Zenon
  <2>2. Registered' \subseteq Known'
    BY <1>0, <1>1, <2>1, StoreBorn, Zenon
  <2>3. BornHost' /\ BornCalls' /\ rec'.todo \subseteq Known'
    BY <1>0, <2>1, OthersBorn, Zenon
  <2> QED BY <2>1, <2>2, <2>3, Zenon DEF Born
<1>9. RecGone'
  BY <1>0, <1>2, RecGoneStep, Zenon
<1> QED BY <1>4, <1>6, <1>7, <1>8, <1>9, Zenon DEF IInv

\* The invariant holds of every behaviour of the pawn.
THEOREM PawnInvariant == Spec => []IInv
  BY InitIInv, NextIInv, PTL DEF Spec

\* Type correctness of the whole pawn; in particular deletingCount, which
\* Unregister decrements, never goes below zero.
THEOREM PawnTypeOK == Spec => []TypeOK
<1>1. IInv => TypeOK
  BY Zenon DEF IInv
<1> QED BY <1>1, PawnInvariant, PTL

\* DeletionsInProgress never misses a pod marked deleting, however many deleters
\* and reconcilers meet on it.
THEOREM PawnDeletionsCounted == Spec => []DeletionsCounted
<1>1. IInv => DeletionsCounted
  BY Zenon DEF IInv
<1> QED BY <1>1, PawnInvariant, PTL

\* The counters AdmitPod compares with the capacity are always what the pods in the
\* store ask for, whichever worker, saga, deleter, reconciler, purge or restart
\* added, completed or removed them; so they never go below zero.
THEOREM PawnUsedMatchesPods == Spec => []UsedMatchesPods
<1>1. IInv => UsedMatchesPods
  BY Zenon DEF IInv
<1> QED BY <1>1, PawnInvariant, PTL

\* nameIndex always points at a pod of that name in the store, restarts included.
THEOREM PawnIndexSound == Spec => []IndexSound
<1>1. IInv => IndexSound
  BY Zenon DEF IInv
<1> QED BY <1>1, PawnInvariant, PTL

\* Until the daemon restarts, every pod in the store is reachable by its name.
THEOREM PawnEveryPodIndexed == Spec => []EveryPodIndexed
<1>1. IInv => EveryPodIndexed
  BY Zenon DEF IInv
<1> QED BY <1>1, PawnInvariant, PTL

\* The Reconciler tears down and evicts only pods Kubernetes has dropped for good.
THEOREM PawnOnlyGoneReconciled == Spec => []OnlyGoneReconciled
<1>1. IInv => OnlyGoneReconciled
  BY Zenon DEF IInv, RecGone, OnlyGoneReconciled
<1> QED BY <1>1, PawnInvariant, PTL
-------------------------------------------------------------------------------
(***************************************************************************)
(* Fourth part: a creation under way is alone, for a pawn whose            *)
(* PodController is the only one to delete, until the daemon restarts.     *)
(***************************************************************************)

\* A pod the PodController is right to delete: terminating, or gone from Kubernetes.
Over(u) == u \in terminating \/ Gone(u)

\* The pods cleanGhosts still means to look at or to evict.
Doomed == {u \in Uids : \/ rec.pc \in {"list", "ghosts", "evict"} /\ u \in rec.todo
                        \/ rec.pc = "evict" /\ u = rec.uid}

\* Until a restart there is nothing to purge and nothing dangling, and before
\* the workers start the pawn is empty.
Fresh ==
    /\ purge = "done" /\ \A u \in Uids : calls[u] = Idle
    /\ boot # "started" => Registered = {} /\ \A n \in Names : calls[n] = Idle

\* A worker handles pods of its own name and deletes only those that are over.
OwnCalls ==
    \A n \in Names, u \in Uids : calls[n].uid = u =>
        NameOf[u] = n /\ (calls[n].pc \in {"admit", "create"} \/ Over(u))

\* A saga's pod is in flight, and no worker has gone past waiting for it.
SagasHeld ==
    \A u \in Uids : saga[u] # "none" =>
        /\ IsInFlight(u)
        /\ \A n \in Names :
             calls[n].uid = u => calls[n].pc \notin {"file", "teardown", "unregister"}

\* A pod cleanGhosts is after is in the store or over, and in that case not
\* about to be created again.
GhostsOver ==
    /\ rec.pc = "evict" => rec.uid \notin rec.todo /\ saga[rec.uid] = "none"
    /\ \A u \in Doomed : ~HasPod(u) =>
         Over(u) /\ \A n \in Names : calls[n].uid = u => calls[n].pc \notin {"admit", "create"}

\* What keeps a creation alone, together.
Alone == Fresh /\ OwnCalls /\ SagasHeld /\ GhostsOver

\* The entry of u stays, and stays in flight.
Kept(u) == (HasPod(u)' <=> HasPod(u)) /\ (IsInFlight(u) => IsInFlight(u)')

\* A call a worker may come to be in: see OwnCalls, SagasHeld and GhostsOver.
Fit(n, r) ==
    r.uid \in Uids =>
        /\ NameOf[r.uid] = n
        /\ r.pc \in {"admit", "create"} \/ Over(r.uid)
        /\ r.pc \in {"file", "teardown", "unregister"} => saga[r.uid] = "none"
        /\ r.pc \in {"admit", "create"} /\ r.uid \in Doomed => HasPod(r.uid)

\* An idle caller has no pod.
LEMMA IdleFields == Idle.pc = "idle" /\ Idle.uid = NoUid /\ Idle.uid \notin Uids
  BY StoreAssumption DEF Idle

\* A caller's place and pod, from its call.
LEMMA AtFields ==
    ASSUME NEW c, NEW pc, NEW u, At(c, pc, u) PROVE calls[c].pc = pc /\ calls[c].uid = u
  BY CallFields, Zenon DEF At

\* Where a step leaves the Reconciler.
LEMMA RecFields ==
    ASSUME NEW pc, NEW todo, NEW u, Rec(pc, todo, u)
    PROVE  rec'.pc = pc /\ rec'.todo = todo /\ rec'.uid = u
<1>1. /\ [pc |-> pc, todo |-> todo, uid |-> u].pc = pc
      /\ [pc |-> pc, todo |-> todo, uid |-> u].todo = todo
      /\ [pc |-> pc, todo |-> todo, uid |-> u].uid = u
  BY Zenon
<1> QED BY <1>1, Zenon DEF Rec

\* A pod that is over stays over: neither the DeletionTimestamp nor the removal
\* is taken back.
LEMMA OverStays == ASSUME TypeOK, K8sStep PROVE \A u \in Uids : Over(u) => Over(u)'
<1> SUFFICES ASSUME NEW u \in Uids, Over(u) PROVE Over(u)'
  OBVIOUS
<1>1. terminating \subseteq terminating'
  BY Zenon DEF K8sStep
<1>2. Gone(u) => Gone(u)'
  BY GoneStays, Zenon
<1> QED BY <1>1, <1>2, Zenon DEF Over

\* The methods that change an entry in place keep it; PromoteRunning ends the
\* flight of its pod only.
LEMMA MethodsKeep ==
    ASSUME TypeOK, NEW u \in Uids,
           AlreadyRunning(u) \/ PromoteRunning(u) \/ SetTerminal(u) \/ MarkDeleting(u)
    PROVE  /\ \A v \in Uids : HasPod(v)' <=> HasPod(v)
           /\ \A v \in Uids \ {u} : Kept(v)
           /\ AlreadyRunning(u) \/ SetTerminal(u) \/ MarkDeleting(u) => Kept(u)
<1>1. \A v \in Uids : HasPod(v)' <=> HasPod(v)
  BY EntriesStay, Zenon DEF Registered
<1>2. \A v \in Uids \ {u} : pods'[v] = pods[v]
  BY Zenon DEF AlreadyRunning, PromoteRunning, SetTerminal, MarkDeleting, TypeOK
<1>3. \A v \in Uids \ {u} : Kept(v)
  BY <1>1, <1>2, Zenon DEF Kept, IsInFlight, HasPod
<1>4. ASSUME AlreadyRunning(u) \/ SetTerminal(u) \/ MarkDeleting(u) PROVE Kept(u)
  <2>1. CASE pods' = pods
    BY <2>1, <1>1, Zenon DEF Kept, IsInFlight, HasPod
  <2>2. CASE pods' # pods
    <3>1. pods[u] \in Entry
      BY <2>2, <1>4, Zenon DEF AlreadyRunning, SetTerminal, MarkDeleting, HasPod, TypeOK
    <3>2. \/ pods'[u] = [pods[u] EXCEPT !.stub = FALSE, !.hydrated = FALSE]
          \/ pods'[u] = [pods[u] EXCEPT !.phase = "Terminal"]
          \/ pods'[u] = [pods[u] EXCEPT !.deleting = TRUE]
      BY <2>2, <1>4, Zenon DEF AlreadyRunning, SetTerminal, MarkDeleting, TypeOK
    <3>3. pods'[u].inFlight = pods[u].inFlight
      BY <3>1, <3>2, Zenon DEF Entry
    <3> QED BY <3>3, <1>1, Zenon DEF Kept, IsInFlight
  <2> QED BY <2>1, <2>2, Zenon
<1> QED BY <1>1, <1>3, <1>4, Zenon

\* A step that moves neither the calls, the sagas nor the Reconciler.
LEMMA QuietAlone ==
    ASSUME TypeOK, K8sStep, Alone, purge' = purge, boot' # "started" => boot # "started",
           calls' = calls, saga' = saga, rec' = rec, \A u \in Uids : Kept(u)
    PROVE  Alone'
<1>1. Registered' = Registered /\ Doomed' = Doomed
  BY Zenon DEF Registered, Kept, Doomed
<1>2. Fresh'
  BY <1>1, Zenon DEF Alone, Fresh
<1>3. OwnCalls'
  BY OverStays, Zenon DEF Alone, OwnCalls
<1>4. SagasHeld'
  BY Zenon DEF Alone, SagasHeld, Kept
<1>5. GhostsOver'
  <2>1. Doomed \subseteq Uids
    BY Zenon DEF Doomed
  <2> QED BY <1>1, <2>1, OverStays, Zenon DEF Alone, GhostsOver, Kept
<1> QED BY <1>2, <1>3, <1>4, <1>5, Zenon DEF Alone

\* A worker's call that begins, goes on or returns.
LEMMA CallAlone ==
    ASSUME TypeOK, K8sStep, Alone, NEW n \in Names, NEW r, Fit(n, r),
           purge' = purge, boot = "started", boot' = boot,
           calls' = [calls EXCEPT ![n] = r], saga' = saga, rec' = rec, \A u \in Uids : Kept(u)
    PROVE  Alone'
<1>0. /\ calls'[n] = r /\ n \in Callers /\ n \notin Uids
      /\ \A c \in Callers \ {n} : calls'[c] = calls[c]
      /\ Names \subseteq Callers /\ Uids \subseteq Callers
  BY PawnAssumption, Zenon DEF TypeOK
<1>1. Doomed' = Doomed /\ Doomed \subseteq Uids
  BY Zenon DEF Doomed
<1>2. Fresh'
  <2>1. \A u \in Uids : calls'[u] = calls[u]
    BY <1>0, Zenon
  <2> QED BY <2>1, Zenon DEF Alone, Fresh
<1>3. OwnCalls'
  <2> SUFFICES ASSUME NEW m \in Names, NEW u \in Uids, calls'[m].uid = u
               PROVE  NameOf[u] = m /\ (calls'[m].pc \in {"admit", "create"} \/ Over(u)')
    BY Zenon DEF OwnCalls
  <2>1. CASE m = n
    <3>1. NameOf[u] = n /\ (r.pc \in {"admit", "create"} \/ Over(u))
      BY <2>1, <1>0, Zenon DEF Fit
    <3> QED BY <2>1, <3>1, <1>0, OverStays, Zenon
  <2>2. CASE m # n
    <3>1. calls'[m] = calls[m]
      BY <2>2, <1>0, Zenon
    <3>2. NameOf[u] = m /\ (calls[m].pc \in {"admit", "create"} \/ Over(u))
      BY <3>1, Zenon DEF Alone, OwnCalls
    <3> QED BY <3>1, <3>2, OverStays, Zenon
  <2> QED BY <2>1, <2>2, Zenon
<1>4. SagasHeld'
  <2> SUFFICES ASSUME NEW u \in Uids, saga[u] # "none"
               PROVE  /\ IsInFlight(u)'
                      /\ \A m \in Names :
                           calls'[m].uid = u => calls'[m].pc \notin {"file", "teardown", "unregister"}
    BY Zenon DEF SagasHeld
  <2>1. /\ IsInFlight(u)
        /\ \A m \in Names : calls[m].uid = u => calls[m].pc \notin {"file", "teardown", "unregister"}
    BY Zenon DEF Alone, SagasHeld
  <2>2. r.uid = u => r.pc \notin {"file", "teardown", "unregister"}
    BY Zenon DEF Fit
  <2>3. \A m \in Names : calls'[m] = calls[m] \/ calls'[m] = r
    BY <1>0, Zenon
  <2> QED BY <2>1, <2>2, <2>3, Zenon DEF Kept
<1>5. GhostsOver'
  <2>1. rec'.pc = "evict" => rec'.uid \notin rec'.todo /\ saga'[rec'.uid] = "none"
    BY Zenon DEF Alone, GhostsOver
  <2>2. ASSUME NEW u \in Doomed, ~HasPod(u)'
        PROVE  /\ Over(u)'
               /\ \A m \in Names : calls'[m].uid = u => calls'[m].pc \notin {"admit", "create"}
    <3>1. ~HasPod(u) /\ u \in Uids
      BY <2>2, <1>1, Zenon DEF Kept
    <3>2. Over(u) /\ \A m \in Names : calls[m].uid = u => calls[m].pc \notin {"admit", "create"}
      BY <3>1, Zenon DEF Alone, GhostsOver
    <3>3. r.uid = u => r.pc \notin {"admit", "create"}
      BY <3>1, <2>2, Zenon DEF Fit
    <3>4. \A m \in Names : calls'[m] = calls[m] \/ calls'[m] = r
      BY <1>0, Zenon
    <3> QED BY <3>1, <3>2, <3>3, <3>4, OverStays, Zenon
  <2> QED BY <2>1, <2>2, <1>1, Zenon DEF GhostsOver
<1> QED BY <1>2, <1>3, <1>4, <1>5, Zenon DEF Alone

\* CreatePod's registration: no caller is past its wait for a pod a worker is
\* about to create, and cleanGhosts is not after it.
LEMMA RegisterAlone ==
    ASSUME TypeOK, RecGone, K8sStep, Alone, NEW n \in Names, NEW u \in Uids, At(n, "create", u), ~HasPod(u),
           purge' = purge, boot' = boot, IsInFlight(u)', \A v \in Uids \ {u} : Kept(v),
           calls' = [calls EXCEPT ![n] = Idle], saga' = [saga EXCEPT ![u] = "sem"], rec' = rec
    PROVE  Alone'
<1>0. /\ calls'[n] = Idle /\ n \in Callers /\ n \notin Uids /\ NoUid \notin Uids
      /\ \A c \in Callers \ {n} : calls'[c] = calls[c]
      /\ Names \subseteq Callers /\ Uids \subseteq Callers
      /\ saga'[u] = "sem" /\ \A v \in Uids \ {u} : saga'[v] = saga[v]
  <2>1. /\ calls \in [Callers -> [pc : CallPCs, uid : Uids \cup {NoUid}]]
        /\ saga \in [Uids -> {"none", "sem", "launch", "promote", "backoff"}]
    BY Zenon DEF TypeOK
  <2>2. saga'[u] = "sem" /\ \A v \in Uids \ {u} : saga'[v] = saga[v]
    BY <2>1, Zenon
  <2>3. n \in Callers /\ n \notin Uids /\ Names \subseteq Callers /\ Uids \subseteq Callers
    BY PawnAssumption, Zenon
  <2> QED BY <2>1, <2>2, <2>3, StoreAssumption, Zenon
<1>1. calls[n].uid = u /\ calls[n].pc = "create" /\ Idle.uid \notin Uids
  BY AtFields, IdleFields, Zenon
<1>2. Doomed' = Doomed /\ Doomed \subseteq Uids /\ u \notin Doomed
  <2>1. Doomed' = Doomed /\ Doomed \subseteq Uids
    BY Zenon DEF Doomed
  <2> QED BY <2>1, <1>1, Zenon DEF Alone, GhostsOver
<1>3. \A m \in Names \ {n} : calls[m].uid # u
  <2>1. \A m \in Names : calls[m].uid = u => NameOf[u] = m
    BY Zenon DEF Alone, OwnCalls
  <2>2. NameOf[u] = n
    BY <2>1, <1>1, Zenon
  <2> QED BY <2>1, <2>2, Zenon
<1>4. \A m \in Names : calls'[m] = calls[m] \/ (m = n /\ calls'[m] = Idle)
  BY <1>0, Zenon
<1>5. Fresh'
  <2>1. \A v \in Uids : calls'[v] = calls[v]
    BY <1>0, Zenon
  <2>2. boot = "started"
    <3>1. calls[n] # Idle
      BY <1>1, Zenon
    <3> QED BY <3>1, Zenon DEF Alone, Fresh
  <2> QED BY <2>1, <2>2, Zenon DEF Alone, Fresh
<1>6. OwnCalls'
  <2> SUFFICES ASSUME NEW m \in Names, NEW v \in Uids, calls'[m].uid = v
               PROVE  NameOf[v] = m /\ (calls'[m].pc \in {"admit", "create"} \/ Over(v)')
    BY Zenon DEF OwnCalls
  <2>1. calls'[m] = calls[m]
    BY <1>1, <1>4, Zenon
  <2>2. NameOf[v] = m /\ (calls[m].pc \in {"admit", "create"} \/ Over(v))
    BY <2>1, Zenon DEF Alone, OwnCalls
  <2> QED BY <2>1, <2>2, OverStays, Zenon
<1>7. SagasHeld'
  <2> SUFFICES ASSUME NEW v \in Uids, saga'[v] # "none"
               PROVE  /\ IsInFlight(v)'
                      /\ \A m \in Names :
                           calls'[m].uid = v => calls'[m].pc \notin {"file", "teardown", "unregister"}
    BY Zenon DEF SagasHeld
  <2>1. CASE v = u
    BY <2>1, <1>0, <1>1, <1>3, <1>4, Zenon
  <2>2. CASE v # u
    <3>1. /\ IsInFlight(v)
          /\ \A m \in Names : calls[m].uid = v => calls[m].pc \notin {"file", "teardown", "unregister"}
      BY <2>2, <1>0, Zenon DEF Alone, SagasHeld
    <3> QED BY <2>2, <3>1, <1>0, <1>1, <1>4, Zenon DEF Kept
  <2> QED BY <2>1, <2>2, Zenon
<1>8. GhostsOver'
  <2>1. rec.pc = "evict" => rec.uid \notin rec.todo /\ saga'[rec.uid] = "none"
    <3> SUFFICES ASSUME rec.pc = "evict" PROVE rec.uid \notin rec.todo /\ saga'[rec.uid] = "none"
      BY Zenon
    <3>1. rec.uid # u
      BY <1>2, Zenon DEF Doomed
    <3>2. saga'[rec.uid] = saga[rec.uid]
      BY <3>1, <1>0, Zenon DEF RecGone
    <3> QED BY <3>2, Zenon DEF Alone, GhostsOver
  <2>2. ASSUME NEW v \in Doomed, ~HasPod(v)'
        PROVE  /\ Over(v)'
               /\ \A m \in Names : calls'[m].uid = v => calls'[m].pc \notin {"admit", "create"}
    <3>1. ~HasPod(v) /\ v \in Uids
      BY <2>2, <1>2, Zenon DEF Kept
    <3>2. Over(v) /\ \A m \in Names : calls[m].uid = v => calls[m].pc \notin {"admit", "create"}
      BY <3>1, Zenon DEF Alone, GhostsOver
    <3> QED BY <3>1, <3>2, <1>0, <1>1, <1>4, OverStays, Zenon
  <2> QED BY <2>1, <2>2, <1>2, Zenon DEF GhostsOver
<1> QED BY <1>5, <1>6, <1>7, <1>8, Zenon DEF Alone

\* DeletePod's last step: the pod it removes is over and has no saga.
LEMMA UnregisterAlone ==
    ASSUME TypeOK, K8sStep, Alone, NEW n \in Names, NEW u \in Uids, At(n, "unregister", u),
           purge' = purge, boot' = boot, \A v \in Uids \ {u} : Kept(v),
           calls' = [calls EXCEPT ![n] = Idle], saga' = saga, rec' = rec
    PROVE  Alone'
<1>0. /\ calls'[n] = Idle /\ n \in Callers /\ n \notin Uids /\ NoUid \notin Uids
      /\ \A c \in Callers \ {n} : calls'[c] = calls[c]
      /\ Names \subseteq Callers /\ Uids \subseteq Callers
  BY PawnAssumption, StoreAssumption, Zenon DEF TypeOK
<1>1. calls[n].uid = u /\ calls[n].pc = "unregister" /\ Idle.uid \notin Uids
  BY AtFields, IdleFields, Zenon
<1>2. Doomed' = Doomed /\ Doomed \subseteq Uids
  BY Zenon DEF Doomed
<1>3. \A m \in Names \ {n} : calls[m].uid # u
  <2>1. \A m \in Names : calls[m].uid = u => NameOf[u] = m
    BY Zenon DEF Alone, OwnCalls
  <2>2. NameOf[u] = n
    BY <2>1, <1>1, Zenon
  <2> QED BY <2>1, <2>2, Zenon
<1>4. \A m \in Names : calls'[m] = calls[m] \/ (m = n /\ calls'[m] = Idle)
  BY <1>0, Zenon
<1>5. Fresh'
  <2>1. \A v \in Uids : calls'[v] = calls[v]
    BY <1>0, Zenon
  <2>2. boot = "started"
    <3>1. calls[n] # Idle
      BY <1>1, Zenon
    <3> QED BY <3>1, Zenon DEF Alone, Fresh
  <2> QED BY <2>1, <2>2, Zenon DEF Alone, Fresh
<1>6. OwnCalls'
  <2> SUFFICES ASSUME NEW m \in Names, NEW v \in Uids, calls'[m].uid = v
               PROVE  NameOf[v] = m /\ (calls'[m].pc \in {"admit", "create"} \/ Over(v)')
    BY Zenon DEF OwnCalls
  <2>1. calls'[m] = calls[m]
    BY <1>1, <1>4, Zenon
  <2>2. NameOf[v] = m /\ (calls[m].pc \in {"admit", "create"} \/ Over(v))
    BY <2>1, Zenon DEF Alone, OwnCalls
  <2> QED BY <2>1, <2>2, OverStays, Zenon
<1>7. SagasHeld'
  <2>1. saga[u] = "none"
    BY <1>1, Zenon DEF Alone, SagasHeld
  <2> SUFFICES ASSUME NEW v \in Uids \ {u}, saga[v] # "none"
               PROVE  /\ IsInFlight(v)'
                      /\ \A m \in Names :
                           calls'[m].uid = v => calls'[m].pc \notin {"file", "teardown", "unregister"}
    BY <2>1, Zenon DEF SagasHeld
  <2>2. /\ IsInFlight(v)
        /\ \A m \in Names : calls[m].uid = v => calls[m].pc \notin {"file", "teardown", "unregister"}
    BY Zenon DEF Alone, SagasHeld
  <2> QED BY <2>2, <1>0, <1>1, <1>4, Zenon DEF Kept
<1>8. GhostsOver'
  <2>1. rec.pc = "evict" => rec.uid \notin rec.todo /\ saga'[rec.uid] = "none"
    BY Zenon DEF Alone, GhostsOver
  <2>2. ASSUME NEW v \in Doomed, ~HasPod(v)'
        PROVE  /\ Over(v)'
               /\ \A m \in Names : calls'[m].uid = v => calls'[m].pc \notin {"admit", "create"}
    <3>1. CASE v = u
      <4>1. Over(u)
        BY <1>1, Zenon DEF Alone, OwnCalls
      <4> QED BY <3>1, <4>1, <1>0, <1>1, <1>3, <1>4, OverStays, Zenon
    <3>2. CASE v # u
      <4>1. ~HasPod(v) /\ v \in Uids
        BY <2>2, <3>2, <1>2, Zenon DEF Kept
      <4>2. Over(v) /\ \A m \in Names : calls[m].uid = v => calls[m].pc \notin {"admit", "create"}
        BY <4>1, Zenon DEF Alone, GhostsOver
      <4> QED BY <4>1, <4>2, <1>0, <1>1, <1>4, OverStays, Zenon
    <3> QED BY <3>1, <3>2, Zenon
  <2> QED BY <2>1, <2>2, <1>2, Zenon DEF GhostsOver
<1> QED BY <1>5, <1>6, <1>7, <1>8, Zenon DEF Alone

\* A saga that goes on, or ends and lets the callers that wait for it go on.
LEMMA SagaAlone ==
    ASSUME TypeOK, RecGone, K8sStep, Alone, NEW u \in Uids, saga[u] # "none",
           purge' = purge, boot' = boot, rec' = rec,
           \A v \in Uids : HasPod(v)' <=> HasPod(v), \A v \in Uids \ {u} : Kept(v),
           \A v \in Uids \ {u} : saga'[v] = saga[v],
           \/ Kept(u) /\ calls' = calls
           \/ SagaEnd(u)
    PROVE  Alone'
<1>0. /\ calls \in [Callers -> [pc : CallPCs, uid : Uids \cup {NoUid}]]
      /\ saga \in [Uids -> {"none", "sem", "launch", "promote", "backoff"}]
      /\ Names \subseteq Callers /\ Uids \subseteq Callers
  BY PawnAssumption, Zenon DEF TypeOK
<1>1. \A c \in Callers : \/ calls'[c] = calls[c]
                         \/ /\ At(c, "wait", u) /\ calls'[c] = [pc |-> "file", uid |-> u]
                            /\ saga'[u] = "none"
  BY <1>0, Zenon DEF SagaEnd
<1>2. \A c \in Callers : /\ calls'[c].uid = calls[c].uid
                         /\ \/ calls'[c].pc = calls[c].pc
                            \/ /\ calls[c].pc = "wait" /\ calls[c].uid = u
                               /\ calls'[c].pc = "file" /\ saga'[u] = "none"
  <2> SUFFICES ASSUME NEW c \in Callers
               PROVE  /\ calls'[c].uid = calls[c].uid
                      /\ \/ calls'[c].pc = calls[c].pc
                         \/ /\ calls[c].pc = "wait" /\ calls[c].uid = u
                            /\ calls'[c].pc = "file" /\ saga'[u] = "none"
    BY Zenon
  <2>1. CASE calls'[c] = calls[c]
    BY <2>1, Zenon
  <2>2. CASE At(c, "wait", u) /\ calls'[c] = [pc |-> "file", uid |-> u] /\ saga'[u] = "none"
    <3>1. calls[c].pc = "wait" /\ calls[c].uid = u
      BY <2>2, AtFields, Zenon
    <3>2. calls'[c].pc = "file" /\ calls'[c].uid = u
      <4>1. [pc |-> "file", uid |-> u].pc = "file" /\ [pc |-> "file", uid |-> u].uid = u
        BY Zenon
      <4> QED BY <2>2, <4>1, Zenon
    <3> QED BY <2>2, <3>1, <3>2, Zenon
  <2> QED BY <2>1, <2>2, <1>1, Zenon
<1>3. Doomed' = Doomed /\ Doomed \subseteq Uids /\ Registered' = Registered
  BY Zenon DEF Doomed, Registered
<1>4. Fresh'
  <2>1. \A c \in Callers : calls[c] = Idle => calls'[c] = Idle
    <3>1. \A c \in Callers : At(c, "wait", u) => calls[c] # Idle
      BY AtFields, IdleFields, Zenon
    <3> QED BY <3>1, <1>1, Zenon
  <2> QED BY <2>1, <1>0, <1>3, Zenon DEF Alone, Fresh
<1>5. OwnCalls'
  <2> SUFFICES ASSUME NEW m \in Names, NEW v \in Uids, calls'[m].uid = v
               PROVE  NameOf[v] = m /\ (calls'[m].pc \in {"admit", "create"} \/ Over(v)')
    BY Zenon DEF OwnCalls
  <2>1. /\ calls[m].uid = v
        /\ calls'[m].pc = calls[m].pc \/ calls[m].pc = "wait"
    BY <1>0, <1>2, Zenon
  <2>2. NameOf[v] = m /\ (calls[m].pc \in {"admit", "create"} \/ Over(v))
    BY <2>1, Zenon DEF Alone, OwnCalls
  <2> QED BY <2>1, <2>2, OverStays, Zenon
<1>6. SagasHeld'
  <2> SUFFICES ASSUME NEW v \in Uids, saga'[v] # "none"
               PROVE  /\ IsInFlight(v)'
                      /\ \A m \in Names :
                           calls'[m].uid = v => calls'[m].pc \notin {"file", "teardown", "unregister"}
    BY Zenon DEF SagasHeld
  <2>1. saga[v] # "none" /\ Kept(v)
    <3>1. SagaEnd(u) => saga'[u] = "none"
      BY <1>0, Zenon DEF SagaEnd
    <3> QED BY <3>1, Zenon
  <2>2. /\ IsInFlight(v)
        /\ \A m \in Names : calls[m].uid = v => calls[m].pc \notin {"file", "teardown", "unregister"}
    BY <2>1, Zenon DEF Alone, SagasHeld
  <2>3. ASSUME NEW m \in Names, calls'[m].uid = v
        PROVE  calls[m].uid = v /\ calls'[m].pc = calls[m].pc
    <3>1. calls'[m].uid = calls[m].uid
      BY <1>0, <1>2, Zenon
    <3>2. calls'[m].pc = calls[m].pc \/ (calls[m].uid = u /\ saga'[u] = "none")
      BY <1>0, <1>2, Zenon
    <3> QED BY <2>3, <3>1, <3>2, Zenon
  <2> QED BY <2>1, <2>2, <2>3, Zenon DEF Kept
<1>7. GhostsOver'
  <2>1. rec.pc = "evict" => rec.uid \notin rec.todo /\ saga'[rec.uid] = "none"
    BY Zenon DEF Alone, GhostsOver, RecGone
  <2>2. ASSUME NEW v \in Doomed, ~HasPod(v)'
        PROVE  /\ Over(v)'
               /\ \A m \in Names : calls'[m].uid = v => calls'[m].pc \notin {"admit", "create"}
    <3>1. ~HasPod(v) /\ v \in Uids
      BY <2>2, <1>3, Zenon
    <3>2. Over(v) /\ \A m \in Names : calls[m].uid = v => calls[m].pc \notin {"admit", "create"}
      BY <3>1, Zenon DEF Alone, GhostsOver
    <3>3. \A m \in Names : calls'[m].uid = calls[m].uid /\ calls'[m].pc \in {calls[m].pc, "file"}
      BY <1>0, <1>2, Zenon
    <3> QED BY <3>1, <3>2, <3>3, OverStays, Zenon
  <2> QED BY <2>1, <2>2, <1>3, Zenon DEF GhostsOver
<1> QED BY <1>4, <1>5, <1>6, <1>7, Zenon DEF Alone

\* A step of the Reconciler: a new list, a pod less on it, the pod it evicts
\* next, which is not in flight, or the eviction.
LEMMA ReconcilerAlone ==
    ASSUME TypeOK, RecGone, K8sStep, Alone, purge' = purge, boot' = boot,
           calls' = calls, saga' = saga,
           \/ UNCHANGED pods /\ rec'.pc \notin {"list", "ghosts", "evict"}
           \/ UNCHANGED pods /\ rec'.pc = "list" /\ rec'.todo = Registered
           \/ /\ UNCHANGED pods /\ rec.pc \in {"list", "ghosts"}
              /\ rec'.pc = "ghosts" /\ rec'.todo \subseteq rec.todo
           \/ /\ UNCHANGED pods /\ rec.pc = "ghosts" /\ rec'.pc = "evict" /\ rec'.uid \in rec.todo
              /\ rec'.todo = rec.todo \ {rec'.uid} /\ ~IsInFlight(rec'.uid)
           \/ /\ rec.pc = "evict" /\ \A v \in Uids \ {rec.uid} : Kept(v)
              /\ pods'[rec.uid] = NoEntry /\ rec'.pc = "ghosts" /\ rec'.todo = rec.todo
    PROVE  Alone'
<1>1. \/ UNCHANGED pods
      \/ /\ rec.pc = "evict" /\ \A v \in Uids \ {rec.uid} : Kept(v)
         /\ pods'[rec.uid] = NoEntry /\ rec'.pc = "ghosts" /\ rec'.todo = rec.todo
  OBVIOUS
<1>2. UNCHANGED pods => \A v \in Uids : Kept(v)
  BY Zenon DEF Kept, HasPod, IsInFlight
<1>3. rec.pc = "evict" => rec.uid \in Uids /\ saga[rec.uid] = "none" /\ rec.uid \notin rec.todo
  BY Zenon DEF RecGone, Alone, GhostsOver
<1>4. Fresh'
  <2>1. \A v \in Uids : HasPod(v)' => HasPod(v)
    <3>1. ASSUME NEW v \in Uids PROVE Kept(v) \/ ~HasPod(v)'
      <4>1. CASE UNCHANGED pods
        BY <4>1, <1>2, Zenon
      <4>2. CASE (\A w \in Uids \ {rec.uid} : Kept(w)) /\ pods'[rec.uid] = NoEntry
        <5>1. CASE v = rec.uid
          <6>1. pods'[v] = pods'[rec.uid]
            BY <5>1, Zenon
          <6> QED BY <6>1, <4>2, Zenon DEF HasPod
        <5> QED BY <5>1, <4>2, Zenon
      <4> QED BY <4>1, <4>2, <1>1, Zenon
    <3> QED BY <3>1, Zenon DEF Kept
  <2>2. Registered' \subseteq Registered
    BY <2>1, Zenon DEF Registered
  <2> QED BY <2>2, Zenon DEF Alone, Fresh
<1>5. OwnCalls'
  BY OverStays, Zenon DEF Alone, OwnCalls
<1>6. SagasHeld'
  <2>1. \A v \in Uids : saga[v] # "none" => Kept(v)
    BY <1>1, <1>2, <1>3, Zenon
  <2> QED BY <2>1, Zenon DEF Alone, SagasHeld, Kept
<1>7. ASSUME rec'.pc = "evict"
      PROVE  rec'.uid \notin rec'.todo /\ saga[rec'.uid] = "none"
  <2>1. rec'.uid \in rec.todo /\ rec'.todo = rec.todo \ {rec'.uid} /\ ~IsInFlight(rec'.uid)
    BY <1>7, Zenon
  <2>2. rec'.uid \in Uids
    BY <2>1, Zenon DEF TypeOK
  <2> QED BY <2>1, <2>2, Zenon DEF Alone, SagasHeld
<1>8. ASSUME NEW v \in Doomed', ~HasPod(v)'
      PROVE  Over(v)' /\ \A m \in Names : calls[m].uid = v => calls[m].pc \notin {"admit", "create"}
  <2>1. v \in Uids /\ rec'.pc \in {"list", "ghosts", "evict"}
        /\ (v \in rec'.todo \/ (rec'.pc = "evict" /\ v = rec'.uid))
    BY <1>8, Zenon DEF Doomed
  <2>2. v \in Doomed /\ ~HasPod(v)
    <3>1. CASE UNCHANGED pods /\ rec'.pc = "list" /\ rec'.todo = Registered
      BY <3>1, <2>1, <1>2, <1>8, Zenon DEF Registered, Kept
    <3>2. CASE /\ UNCHANGED pods /\ rec.pc \in {"list", "ghosts"}
               /\ rec'.pc = "ghosts" /\ rec'.todo \subseteq rec.todo
      BY <3>2, <2>1, <1>2, <1>8, Zenon DEF Doomed, Kept
    <3>3. CASE /\ UNCHANGED pods /\ rec.pc = "ghosts" /\ rec'.pc = "evict" /\ rec'.uid \in rec.todo
               /\ rec'.todo = rec.todo \ {rec'.uid}
      BY <3>3, <2>1, <1>2, <1>8, Zenon DEF Doomed, Kept
    <3>4. CASE /\ rec.pc = "evict" /\ \A w \in Uids \ {rec.uid} : Kept(w)
               /\ rec'.pc = "ghosts" /\ rec'.todo = rec.todo
      <4>1. v \in rec.todo /\ v # rec.uid
        BY <3>4, <2>1, <1>3, Zenon
      <4> QED BY <3>4, <4>1, <2>1, <1>8, Zenon DEF Doomed, Kept
    <3> QED BY <2>1, <3>1, <3>2, <3>3, <3>4, Zenon
  <2>3. Over(v) /\ \A m \in Names : calls[m].uid = v => calls[m].pc \notin {"admit", "create"}
    BY <2>2, Zenon DEF Alone, GhostsOver
  <2> QED BY <2>1, <2>3, OverStays, Zenon
<1>9. GhostsOver'
  BY <1>7, <1>8, Zenon DEF GhostsOver
<1> QED BY <1>4, <1>5, <1>6, <1>9, Zenon DEF Alone

\* Every step of a pawn without other deleters keeps it until a restart.
LEMMA NextAlone ==
    ASSUME Evictors = {}, IInv, crashes = 0, Alone, [Next]_vars, crashes' = 0
    PROVE  Alone'
<1>0. TypeOK /\ IndexSound /\ ListerNamed /\ Born /\ RecGone
  BY Zenon DEF IInv
<1>k. K8sStep
  BY K8sSteps, Zenon
<1>c. /\ calls \in [Callers -> [pc : CallPCs, uid : Uids \cup {NoUid}]]
      /\ Names \subseteq Callers /\ Uids \subseteq Callers
  BY <1>0, PawnAssumption, Zenon DEF TypeOK
<1>p. UNCHANGED pods => \A u \in Uids : Kept(u)
  BY Zenon DEF Kept, HasPod, IsInFlight
<1>a. ASSUME NEW n \in Names, NEW pc, NEW u \in Uids, At(n, pc, u)
      PROVE  /\ calls[n].pc = pc /\ calls[n].uid = u /\ boot = "started" /\ NameOf[u] = n
             /\ pc \in {"admit", "create"} \/ Over(u)
             /\ pc \in {"file", "teardown", "unregister"} => saga[u] = "none"
             /\ pc \in {"admit", "create"} /\ u \in Doomed => HasPod(u)
  <2>1. calls[n].pc = pc /\ calls[n].uid = u
    BY <1>a, AtFields, Zenon
  <2>2. calls[n] # Idle
    BY <2>1, IdleFields, Zenon
  <2>3. boot = "started"
    BY <2>2, Zenon DEF Alone, Fresh
  <2>4. NameOf[u] = n /\ (pc \in {"admit", "create"} \/ Over(u))
    BY <2>1, Zenon DEF Alone, OwnCalls
  <2>5. pc \in {"file", "teardown", "unregister"} => saga[u] = "none"
    BY <2>1, Zenon DEF Alone, SagasHeld
  <2>6. pc \in {"admit", "create"} /\ u \in Doomed => HasPod(u)
    BY <2>1, Zenon DEF Alone, GhostsOver
  <2> QED BY <2>1, <2>3, <2>4, <2>5, <2>6, Zenon
<1>i. ASSUME NEW n \in Names PROVE Fit(n, Idle)
  BY IdleFields, Zenon DEF Fit
<1>f. ASSUME NEW n \in Names, NEW pc, NEW u \in Uids, NameOf[u] = n,
             pc \in {"admit", "create"} \/ Over(u),
             pc \in {"file", "teardown", "unregister"} => saga[u] = "none",
             pc \in {"admit", "create"} /\ u \in Doomed => HasPod(u)
      PROVE  Fit(n, [pc |-> pc, uid |-> u])
  <2>1. [pc |-> pc, uid |-> u].pc = pc /\ [pc |-> pc, uid |-> u].uid = u
    BY Zenon
  <2> QED BY <1>f, <2>1, Zenon DEF Fit
<1>1. ASSUME NEW n \in Names, Informer(n) PROVE Alone'
  <2>1. UNCHANGED <<pods, calls, saga, rec, purge, boot>>
    BY <1>1, Zenon DEF Informer, PodUpdated, PodRemoved, PodAdded, PodReplaced, Changed
  <2> QED BY <2>1, <1>0, <1>k, <1>p, QuietAlone, Zenon
<1>2. ASSUME NEW n \in Names, SyncSkip(n) PROVE Alone'
  <2>1. UNCHANGED <<pods, calls, saga, rec, purge, boot>>
    BY <1>2, Zenon DEF SyncSkip
  <2> QED BY <2>1, <1>0, <1>k, <1>p, QuietAlone, Zenon
<1>3. ASSUME NEW n \in Names, SyncStart(n) PROVE Alone'
  <2>1. boot = "started" /\ UNCHANGED <<pods, saga, rec, purge, boot>>
    BY <1>3, Zenon DEF SyncStart
  <2>2. CASE SyncGone(n)
    <3> DEFINE u == GetPod(n)
    <3>1. lister[n] = NoUid /\ u # NoUid /\ Go(n, "mark", u)
      BY <2>2, Zenon DEF SyncGone
    <3>2. u \in Registered /\ u = nameIndex[n] /\ u \in Uids
      BY <3>1, Zenon DEF GetPod, Registered
    <3> HIDE DEF u
    <3>3. NameOf[u] = n
      BY <3>2, <1>0, StoreAssumption, Zenon DEF IndexSound
    <3>4. Over(u)
      BY <3>1, <3>2, <3>3, <1>0, Zenon DEF Over, Gone, Listed, Born, Known
    <3>5. Fit(n, [pc |-> "mark", uid |-> u])
      BY <3>2, <3>3, <3>4, <1>f, Zenon
    <3> QED BY <2>1, <3>1, <3>5, <1>0, <1>k, <1>p, CallAlone, Zenon DEF Go
  <2>3. CASE SyncPod(n)
    <3> DEFINE u == lister[n]
    <3>1. u # NoUid /\ Go(n, IF u \in terminating THEN "mark" ELSE "admit", u)
      BY <2>3, Zenon DEF SyncPod
    <3>2. u \in Uids /\ NameOf[u] = n
      BY <3>1, <1>0, Zenon DEF TypeOK, ListerNamed
    <3>3. u \notin terminating => ~Over(u)
      BY <3>2, Zenon DEF Over, Gone, Listed
    <3> HIDE DEF u
    <3>4. CASE u \in terminating
      <4>1. Fit(n, [pc |-> "mark", uid |-> u])
        BY <3>2, <3>4, <1>f, Zenon DEF Over
      <4>2. calls' = [calls EXCEPT ![n] = [pc |-> "mark", uid |-> u]]
        BY <3>1, <3>4, Zenon DEF Go
      <4> QED BY <2>1, <4>1, <4>2, <1>0, <1>k, <1>p, CallAlone, Zenon
    <3>5. CASE u \notin terminating
      <4>1. u \in Doomed => HasPod(u)
        BY <3>3, <3>5, Zenon DEF Alone, GhostsOver
      <4>2. Fit(n, [pc |-> "admit", uid |-> u])
        BY <3>2, <4>1, <1>f, Zenon
      <4>3. calls' = [calls EXCEPT ![n] = [pc |-> "admit", uid |-> u]]
        BY <3>1, <3>5, Zenon DEF Go
      <4> QED BY <2>1, <4>2, <4>3, <1>0, <1>k, <1>p, CallAlone, Zenon
    <3> QED BY <3>4, <3>5, Zenon
  <2> QED BY <2>2, <2>3, <1>3, Zenon DEF SyncStart
<1>4. ASSUME NEW n \in Names, NEW u \in Uids, SyncAdmit(n, u) PROVE Alone'
  <2>1. At(n, "admit", u) /\ UNCHANGED <<pods, saga, rec, purge, boot>>
    BY <1>4, Zenon DEF SyncAdmit, Return
  <2>2. calls' = [calls EXCEPT ![n] = Idle] \/ Go(n, "create", u)
    BY <1>4, Zenon DEF SyncAdmit
  <2>3. boot = "started" /\ Fit(n, [pc |-> "create", uid |-> u])
    <3>1. boot = "started" /\ NameOf[u] = n /\ (u \in Doomed => HasPod(u))
      BY <2>1, <1>a, Zenon
    <3> QED BY <3>1, <1>f, Zenon
  <2>4. CASE calls' = [calls EXCEPT ![n] = Idle]
    BY <2>1, <2>3, <2>4, <1>0, <1>k, <1>p, <1>i, CallAlone, Zenon
  <2>5. CASE Go(n, "create", u)
    BY <2>1, <2>3, <2>5, <1>0, <1>k, <1>p, CallAlone, Zenon DEF Go
  <2> QED BY <2>2, <2>4, <2>5, Zenon
<1>5. ASSUME NEW n \in Names, NEW u \in Uids, SyncCreate(n, u) PROVE Alone'
  <2>1. /\ At(n, "create", u) /\ calls' = [calls EXCEPT ![n] = Idle]
        /\ UNCHANGED <<rec, purge, boot>> /\ CreateOrSkip(u)
    BY <1>5, Zenon DEF SyncCreate, Return
  <2>2. boot = "started"
    BY <2>1, <1>a, Zenon
  <2>3. CASE HasPod(u)
    <3>1. (UNCHANGED pods \/ AlreadyRunning(u)) /\ saga' = saga
      BY <2>1, <2>3, Zenon DEF CreateOrSkip
    <3>2. \A v \in Uids : Kept(v)
      BY <3>1, <1>0, <1>p, MethodsKeep, Zenon
    <3> QED BY <2>1, <2>2, <3>1, <3>2, <1>0, <1>k, <1>i, CallAlone, Zenon
  <2>4. CASE ~HasPod(u)
    <3>1. RegisterPending(u) /\ saga' = [saga EXCEPT ![u] = "sem"]
      BY <2>1, <2>4, Zenon DEF CreateOrSkip, IsInFlight
    <3>2. (\A v \in Uids \ {u} : pods'[v] = pods[v]) /\ pods'[u] =
            [phase |-> "Pending", inFlight |-> TRUE, deleting |-> FALSE, hydrated |-> FALSE, stub |-> FALSE]
      BY <3>1, <1>0, Zenon DEF RegisterPending, TypeOK
    <3>3. \A v \in Uids \ {u} : Kept(v)
      BY <3>2, Zenon DEF Kept, HasPod, IsInFlight
    <3>4. pods'[u] \in Entry /\ pods'[u].inFlight
      <4> DEFINE e == [phase |-> "Pending", inFlight |-> TRUE, deleting |-> FALSE,
                       hydrated |-> FALSE, stub |-> FALSE]
      <4>1. e \in Entry /\ e.inFlight
        BY Zenon DEF Entry, Phases
      <4>2. pods'[u] = e
        BY <3>2, Zenon
      <4> HIDE DEF e
      <4> QED BY <4>1, <4>2, Zenon
    <3>5. IsInFlight(u)'
      BY <3>4, StoreAssumption, Zenon DEF IsInFlight, HasPod
    <3> QED BY <2>1, <2>4, <3>1, <3>3, <3>5, <1>0, <1>k, RegisterAlone, Zenon
  <2> QED BY <2>3, <2>4, Zenon
<1>6. ASSUME NEW n \in Names, NEW u \in Uids, Deleting(n, u) PROVE Alone'
  <2>1. UNCHANGED <<saga, rec, purge, boot>>
    BY <1>6, Zenon DEF Deleting, Return, DeleteMark, DeleteFile, DeleteTeardown, DeleteReturn
  <2>2. CASE DeleteMark(n, u)
    <3>1. At(n, "mark", u) /\ MarkDeleting(u)
      BY <2>2, Zenon DEF DeleteMark
    <3>2. \A v \in Uids : Kept(v)
      BY <3>1, <1>0, MethodsKeep, Zenon
    <3>3. boot = "started" /\ NameOf[u] = n /\ Over(u)
      <4>1. boot = "started" /\ NameOf[u] = n /\ ("mark" \in {"admit", "create"} \/ Over(u))
        BY <3>1, <1>a, Zenon
      <4> QED BY <4>1, Zenon
    <3>4. CASE IsInFlight(u) /\ saga[u] # "none"
      <4>1. calls' = [calls EXCEPT ![n] = [pc |-> "wait", uid |-> u]]
        BY <2>2, <3>4, Zenon DEF DeleteMark, Go
      <4>2. Fit(n, [pc |-> "wait", uid |-> u])
        BY <3>3, <1>f, Zenon
      <4> QED BY <2>1, <3>2, <3>3, <4>1, <4>2, <1>0, <1>k, CallAlone, Zenon
    <3>5. CASE ~(IsInFlight(u) /\ saga[u] # "none")
      <4>1. calls' = [calls EXCEPT ![n] = [pc |-> "file", uid |-> u]]
        BY <2>2, <3>5, Zenon DEF DeleteMark, Go
      <4>2. saga[u] = "none"
        BY <3>5, Zenon DEF Alone, SagasHeld
      <4>3. Fit(n, [pc |-> "file", uid |-> u])
        BY <3>3, <4>2, <1>f, Zenon
      <4> QED BY <2>1, <3>2, <3>3, <4>1, <4>3, <1>0, <1>k, CallAlone, Zenon
    <3> QED BY <3>4, <3>5, Zenon
  <2>3. ASSUME NEW next \in {"teardown", "unregister"}, Go(n, next, u), UNCHANGED pods,
               boot = "started", NameOf[u] = n, Over(u), saga[u] = "none"
        PROVE  Alone'
    <3>1. Fit(n, [pc |-> next, uid |-> u])
      BY <2>3, <1>f, Zenon
    <3> QED BY <2>1, <2>3, <3>1, <1>0, <1>k, <1>p, CallAlone, Zenon DEF Go
  <2>4. CASE DeleteReturn(n, u)
    <3>1. At(n, "unregister", u) /\ Drop(u) /\ calls' = [calls EXCEPT ![n] = Idle]
      BY <2>4, Zenon DEF DeleteReturn, Unregister
    <3>2. \A v \in Uids \ {u} : pods'[v] = pods[v]
      BY <3>1, <1>0, Zenon DEF Drop, TypeOK
    <3>3. \A v \in Uids \ {u} : Kept(v)
      BY <3>2, Zenon DEF Kept, HasPod, IsInFlight
    <3> QED BY <2>1, <3>1, <3>3, <1>0, <1>k, UnregisterAlone, Zenon
  <2>5. CASE DeleteFile(n, u)
    <3>1. At(n, "file", u) /\ Go(n, "teardown", u) /\ UNCHANGED pods
      BY <2>5, Zenon DEF DeleteFile
    <3>2. /\ boot = "started" /\ NameOf[u] = n /\ ("file" \in {"admit", "create"} \/ Over(u))
          /\ "file" \in {"file", "teardown", "unregister"} => saga[u] = "none"
      BY <3>1, <1>a, ZenonT(60)
    <3> QED BY <2>3, <3>1, <3>2, Zenon
  <2>6. CASE DeleteTeardown(n, u)
    <3>1. At(n, "teardown", u) /\ Go(n, "unregister", u) /\ UNCHANGED pods
      BY <2>6, Zenon DEF DeleteTeardown
    <3>2. /\ boot = "started" /\ NameOf[u] = n /\ ("teardown" \in {"admit", "create"} \/ Over(u))
          /\ "teardown" \in {"file", "teardown", "unregister"} => saga[u] = "none"
      BY <3>1, <1>a, ZenonT(60)
    <3> QED BY <2>3, <3>1, <3>2, Zenon
  <2> QED BY <2>2, <2>4, <2>5, <2>6, <1>6, Zenon DEF Deleting
<1>7. ASSUME NEW u \in Uids, Deleting(u, u) PROVE Alone'
  <2>1. \E pc \in {"mark", "file", "teardown", "unregister"} : At(u, pc, u)
    BY <1>7, Zenon DEF Deleting, DeleteMark, DeleteFile, DeleteTeardown, DeleteReturn
  <2>2. calls[u] # Idle
    BY <2>1, AtFields, IdleFields, Zenon
  <2> QED BY <2>2, Zenon DEF Alone, Fresh
<1>8. ASSUME NEW u \in Uids, Saga(u) PROVE Alone'
  <2>1. UNCHANGED <<rec, purge, boot>> /\ SagaStep(u)
    BY <1>8, Zenon DEF Saga
  <2>2. saga[u] # "none"
    BY <2>1, Zenon DEF SagaStep, SagaAcquire, SagaGiveUp, SagaLaunch, SagaPromote, SagaFail, SagaRetry
  <2>3. \A v \in Uids \ {u} : saga'[v] = saga[v]
    BY <2>1, <1>0, Zenon DEF SagaStep, SagaAcquire, SagaGiveUp, SagaLaunch, SagaPromote, SagaFail, SagaRetry,
       SagaEnd, TypeOK
  <2>4. \/ UNCHANGED pods /\ (calls' = calls \/ SagaEnd(u))
        \/ SetTerminal(u) /\ SagaEnd(u)
        \/ PromoteRunning(u) /\ SagaEnd(u)
    BY <2>1, Zenon DEF SagaStep, SagaAcquire, SagaGiveUp, SagaLaunch, SagaPromote, SagaFail, SagaRetry
  <2>5. /\ \A v \in Uids : HasPod(v)' <=> HasPod(v)
        /\ \A v \in Uids \ {u} : Kept(v)
        /\ (Kept(u) /\ calls' = calls) \/ SagaEnd(u)
    <3>1. CASE UNCHANGED pods
      <4>1. \A v \in Uids : Kept(v)
        BY <3>1, <1>p, Zenon
      <4> QED BY <4>1, <2>4, Zenon DEF Kept
    <3>2. CASE SetTerminal(u) \/ PromoteRunning(u)
      BY <3>2, <2>4, <1>0, <1>p, MethodsKeep, Zenon
    <3> QED BY <3>1, <3>2, <2>4, Zenon
  <2> QED BY <2>1, <2>2, <2>3, <2>5, <1>0, <1>k, SagaAlone, Zenon
<1>9. ASSUME NEW u \in Uids, Watcher(u) PROVE Alone'
  <2>1. UNCHANGED <<pods, calls, saga, rec, purge, boot>>
    BY <1>9, Zenon DEF Watcher, WatcherStep, PushCheck, RestartContainer
  <2> QED BY <2>1, <1>0, <1>k, <1>p, QuietAlone, Zenon
<1>10. ASSUME Pushing PROVE Alone'
  <2>1. UNCHANGED <<calls, saga, rec, purge, boot>>
    BY <1>10, Zenon DEF Pushing, PollStep, PushLive, PushTerminal, PushWrite, PushReset, MaybeRestart
  <2>2. UNCHANGED pods \/ (push.pc = "check" /\ SetTerminal(push.uid))
    BY <1>10, Zenon DEF Pushing, PollStep, PushLive, PushTerminal, PushWrite, PushReset, MaybeRestart
  <2>3. push.pc = "check" => push.uid \in Uids
    BY <1>0 DEF TypeOK, PushType, NoPush
  <2>4. \A v \in Uids : Kept(v)
    BY <2>2, <2>3, <1>0, <1>p, MethodsKeep, Zenon
  <2> QED BY <2>1, <2>4, <1>0, <1>k, QuietAlone, Zenon
<1>11. ASSUME Boot PROVE Alone'
  <2>1. UNCHANGED <<pods, saga, rec, purge>> /\ boot # "started"
    BY <1>11, Zenon DEF Boot, DanglingStart, WorkersStart
  <2>2. calls' = calls
    <3>1. Registered = {}
      BY <2>1, Zenon DEF Alone, Fresh
    <3> QED BY <3>1, <1>11, <1>c, Zenon DEF Boot, DanglingStart, WorkersStart
  <2> QED BY <2>1, <2>2, <1>0, <1>k, <1>p, QuietAlone, Zenon
<1>12. ASSUME Reconciler PROVE Alone'
  <2>1. UNCHANGED <<calls, saga, purge, boot>>
    BY <1>12, Zenon DEF Reconciler, OrphansList, OrphanCheck, OrphanTeardown, GhostsSnapshot, GhostsList,
       GhostCheck, GhostEvict, DirsList, DirRemove, ReconcileDone, RecUnchanged
  <2>2. CASE \/ OrphansList \/ DirsList \/ ReconcileDone \/ \E ok \in BOOLEAN : OrphanTeardown(ok)
             \/ \E u \in Uids : OrphanCheck(u) \/ DirRemove(u)
    <3>1. UNCHANGED pods
      BY <2>2, Zenon DEF OrphansList, OrphanCheck, OrphanTeardown, DirsList, DirRemove, ReconcileDone
    <3>2. \E pc \in {"orphans", "teardown", "dirs", "idle"} : \E todo, v : Rec(pc, todo, v)
      BY <2>2, Zenon DEF OrphansList, OrphanCheck, OrphanTeardown, DirsList, DirRemove, ReconcileDone
    <3>3. rec'.pc \in {"orphans", "teardown", "dirs", "idle"}
      BY <3>2, RecFields, Zenon
    <3>4. rec'.pc \notin {"list", "ghosts", "evict"}
      BY <3>3, Zenon
    <3> QED BY <2>1, <3>1, <3>4, <1>0, <1>k, ReconcilerAlone, Zenon
  <2>3. CASE GhostsSnapshot
    <3>1. UNCHANGED pods /\ rec'.pc = "list" /\ rec'.todo = Registered
      BY <2>3, Zenon DEF GhostsSnapshot, Rec
    <3> QED BY <2>1, <3>1, <1>0, <1>k, ReconcilerAlone, Zenon
  <2>4. CASE GhostsList
    <3>1. UNCHANGED pods /\ rec.pc = "list" /\ rec'.pc = "ghosts" /\ rec'.todo \subseteq rec.todo
      BY <2>4, Zenon DEF GhostsList, Rec
    <3> QED BY <2>1, <3>1, <1>0, <1>k, ReconcilerAlone, Zenon
  <2>5. ASSUME NEW u \in Uids, GhostCheck(u) PROVE Alone'
    <3>1. UNCHANGED pods /\ rec.pc = "ghosts" /\ u \in rec.todo
      BY <2>5, Zenon DEF GhostCheck
    <3>2. CASE IsInFlight(u)
      <4>1. rec'.pc = "ghosts" /\ rec'.todo \subseteq rec.todo
        <5>1. Rec("ghosts", rec.todo \ {u}, NoUid)
          BY <2>5, <3>2, Zenon DEF GhostCheck
        <5>2. rec'.pc = "ghosts" /\ rec'.todo = rec.todo \ {u}
          BY <5>1, RecFields, Zenon
        <5> QED BY <5>2, Zenon
      <4> QED BY <2>1, <3>1, <4>1, <1>0, <1>k, ReconcilerAlone, Zenon
    <3>3. CASE ~IsInFlight(u)
      <4>1. rec'.pc = "evict" /\ rec'.uid = u /\ rec'.todo = rec.todo \ {u}
        <5>1. Rec("evict", rec.todo \ {u}, u)
          BY <2>5, <3>3, Zenon DEF GhostCheck
        <5> QED BY <5>1, RecFields, Zenon
      <4>2. /\ rec'.uid \in rec.todo /\ rec'.todo = rec.todo \ {rec'.uid} /\ ~IsInFlight(rec'.uid)
        BY <3>1, <3>3, <4>1, Zenon
      <4> QED BY <2>1, <3>1, <4>1, <4>2, <1>0, <1>k, ReconcilerAlone, Zenon
    <3> QED BY <3>2, <3>3, Zenon
  <2>6. CASE GhostEvict
    <3>1. rec.pc = "evict" /\ rec'.pc = "ghosts" /\ rec'.todo = rec.todo
      BY <2>6, Zenon DEF GhostEvict, Rec
    <3>2. rec.uid \in Uids
      BY <3>1, <1>0, Zenon DEF RecGone
    <3>3. pods'[rec.uid] = NoEntry /\ \A v \in Uids \ {rec.uid} : pods'[v] = pods[v]
      BY <2>6, <3>2, <1>0, Zenon DEF GhostEvict, EvictGhost, Drop, TypeOK
    <3>4. \A v \in Uids \ {rec.uid} : Kept(v)
      BY <3>3, Zenon DEF Kept, HasPod, IsInFlight
    <3> QED BY <2>1, <3>1, <3>3, <3>4, <1>0, <1>k, ReconcilerAlone, Zenon
  <2> QED BY <2>2, <2>3, <2>4, <2>5, <2>6, <1>12, Zenon DEF Reconciler
<1>13. ASSUME Purge PROVE Alone'
  <2>1. purge # "done"
    BY <1>13, Zenon DEF Purge, PurgeScan, PurgeStale
  <2> QED BY <2>1, Zenon DEF Alone, Fresh
<1>14. ASSUME Crash PROVE Alone'
  <2>1. 0 = 0 + 1
    BY <1>14, Zenon DEF Crash
  <2> QED BY <2>1
<1>15. ASSUME UNCHANGED vars PROVE Alone'
  <2>1. UNCHANGED <<pods, calls, saga, rec, purge, boot>>
    BY <1>15, Zenon DEF vars
  <2> QED BY <2>1, <1>0, <1>k, <1>p, QuietAlone, Zenon
<1> QED
  BY <1>1, <1>2, <1>3, <1>4, <1>5, <1>6, <1>7, <1>8, <1>9, <1>10, <1>11, <1>12, <1>13, <1>14, <1>15, Zenon
     DEF Next, Worker, Dangling

\* On a fresh host nothing is under way.
LEMMA InitAlone == Init => Alone
<1> SUFFICES ASSUME Init PROVE Alone
  BY Zenon
<1> USE DEF Init
<1>1. /\ Names \subseteq Callers /\ Uids \subseteq Callers
  BY PawnAssumption, Zenon
<1>2. (\A c \in Callers : calls[c] = Idle) /\ \A u \in Uids : saga[u] = "none"
  BY Zenon
<1>3. Fresh
  BY <1>1, <1>2, Zenon DEF Fresh, Registered, HasPod
<1>4. OwnCalls /\ SagasHeld
  BY <1>1, <1>2, IdleFields, Zenon DEF OwnCalls, SagasHeld
<1>5. rec.pc = "idle"
  BY Zenon
<1>6. GhostsOver
  BY <1>5, Zenon DEF GhostsOver, Doomed
<1> QED BY <1>3, <1>4, <1>6, Zenon DEF Alone

\* Where the PodController alone deletes and the daemon has not restarted, a
\* creation under way is alone: its pod is in the store and in flight, no other
\* pod of its name is being created, and no DeletePod of it is past its wait,
\* however workers, the informer, the watcher and the Reconciler interleave.
THEOREM PawnCreationsAlone ==
    ASSUME Evictors = {} PROVE Spec => [](crashes = 0 => CreationsAlone)
<1> DEFINE J == IInv /\ (crashes = 0 => Alone)
<1>1. Init => J
  BY InitIInv, InitAlone, Zenon
<1>2. J /\ [Next]_vars => J'
  <2> SUFFICES ASSUME J, [Next]_vars PROVE J'
    OBVIOUS
  <2>1. IInv'
    BY NextIInv, Zenon
  <2>2. ASSUME crashes' = 0 PROVE crashes = 0
    <3>1. crashes' = crashes \/ crashes' = crashes + 1
      BY RecSteps, Zenon
    <3>2. crashes \in Nat
      BY PawnAssumption DEF IInv, TypeOK
    <3> QED BY <2>2, <3>1, <3>2
  <2>3. ASSUME crashes' = 0 PROVE Alone'
    BY <2>2, <2>3, NextAlone, Zenon
  <2> QED BY <2>1, <2>3, Zenon
<1>3. J => (crashes = 0 => CreationsAlone)
  <2> SUFFICES ASSUME IInv, Alone, crashes = 0, NEW u \in Uids, saga[u] # "none"
               PROVE  /\ IsInFlight(u)
                      /\ \A v \in Uids \ {u} : NameOf[v] = NameOf[u] => saga[v] = "none"
                      /\ \A c \in Callers :
                           calls[c].uid = u => calls[c].pc \notin {"file", "teardown", "unregister"}
    BY Zenon DEF CreationsAlone
  <2>1. \A v \in Uids : saga[v] # "none" => IsInFlight(v)
    BY Zenon DEF Alone, SagasHeld
  <2>2. \A v \in Uids : saga[v] # "none" => nameIndex[NameOf[v]] = v
    BY <2>1, Zenon DEF IInv, EveryPodIndexed, Registered, IsInFlight
  <2>3. \A v \in Uids \ {u} : NameOf[v] = NameOf[u] => saga[v] = "none"
    BY <2>2, Zenon
  <2>4. ASSUME NEW c \in Callers, calls[c].uid = u
        PROVE  calls[c].pc \notin {"file", "teardown", "unregister"}
    <3>1. CASE c \in Names
      BY <2>4, <3>1, Zenon DEF Alone, SagasHeld
    <3>2. CASE c \in Uids
      <4>1. calls[c] = Idle
        BY <3>2, Zenon DEF Alone, Fresh
      <4> QED BY <2>4, <4>1, IdleFields, Zenon
    <3> QED BY <3>1, <3>2, PawnAssumption, Zenon
  <2> QED BY <2>1, <2>3, <2>4, Zenon
<1> HIDE DEF J
<1> QED BY <1>1, <1>2, <1>3, PTL DEF Spec
===============================================================================
