------------------------------ MODULE PodStore ------------------------------
(***************************************************************************)
(* node/podstore.go: the pawn's in-memory record of its pods.  A pod is    *)
(* its UID; its namespace/name is NameOf[uid] and its resource request is  *)
(* Cost[uid] (CPU and memory are counted the same way, one stands for      *)
(* both).  Every method below is one step: the code runs it under          *)
(* registryMu or the pod's own mutex.  Restart and probe bookkeeping, the  *)
(* log fallback `completed' and the read-only snapshot are left out.       *)
(***************************************************************************)
EXTENDS Integers, FiniteSets

CONSTANTS Uids, Names, NameOf, Cost,
          Capacity,  \* of the pawn; 0 is "no limit"
          NoUid, NoEntry

Phases == {"Pending", "Running", "Terminal"}  \* Succeeded, Failed: Terminal

\* podState.  A stub is a hydrated pod without containers in its spec.
Entry == [phase : Phases, inFlight : BOOLEAN, deleting : BOOLEAN,
          hydrated : BOOLEAN, stub : BOOLEAN]

ASSUME StoreAssumption ==
    /\ NameOf \in [Uids -> Names] /\ Cost \in [Uids -> Nat] /\ Capacity \in Nat
    /\ NoUid \notin Uids /\ NoEntry \notin Entry /\ IsFiniteSet(Uids)

VARIABLES
    pods,          \* PodStore.pods: uid -> Entry or NoEntry
    nameIndex,     \* PodStore.nameIndex: name -> uid or NoUid
    used,          \* usedCPU / usedMem
    deletingCount

storeVars == <<pods, nameIndex, used, deletingCount>>

HasPod(u)     == pods[u] # NoEntry
Registered    == {u \in Uids : HasPod(u)}
IsInFlight(u) == HasPod(u) /\ pods[u].inFlight
IsDeleting(u) == HasPod(u) /\ pods[u].deleting

\* GetPod by name answers with a uid; NoUid is "not found".
GetPod(n) == IF nameIndex[n] \in Registered THEN nameIndex[n] ELSE NoUid

\* podResources of the pod an entry holds: a stub asks for nothing.
Held(u) == IF HasPod(u) /\ ~pods[u].stub THEN Cost[u] ELSE 0

\* Sums of requests as cardinalities: unit k of what pod u asks for is <<u, k>>.
Units(u, n) == {u} \X (1 .. n)
HeldUnits(S) == UNION {Units(u, Held(u)) : u \in S}

AdmitPod(u) == Cost[u] = 0 \/ Capacity = 0 \/ used + Cost[u] <= Capacity

RegisterPending(u) ==
    /\ pods' = [pods EXCEPT ![u] = [phase |-> "Pending", inFlight |-> TRUE,
                  deleting |-> FALSE, hydrated |-> FALSE, stub |-> FALSE]]
    /\ nameIndex' = [nameIndex EXCEPT ![NameOf[u]] = u]
    /\ used' = used + Cost[u]
    /\ UNCHANGED deletingCount

\* The pod exists: a stub becomes the real pod and starts to count.
AlreadyRunning(u) ==
    /\ HasPod(u)
    /\ pods' = [pods EXCEPT ![u].stub = FALSE, ![u].hydrated = FALSE]
    /\ used' = used + Cost[u] - Held(u)
    /\ UNCHANGED <<nameIndex, deletingCount>>

PromoteRunning(u) ==
    /\ pods' = IF HasPod(u)
               THEN [pods EXCEPT ![u].phase = "Running", ![u].inFlight = FALSE]
               ELSE pods
    /\ UNCHANGED <<nameIndex, used, deletingCount>>

\* SetPhase to Succeeded or Failed, and MarkFailed: neither clears inFlight.
SetTerminal(u) ==
    /\ pods' = IF HasPod(u) THEN [pods EXCEPT ![u].phase = "Terminal"] ELSE pods
    /\ UNCHANGED <<nameIndex, used, deletingCount>>

MarkDeleting(u) ==
    /\ IF HasPod(u) /\ ~pods[u].deleting
       THEN /\ pods' = [pods EXCEPT ![u].deleting = TRUE]
            /\ deletingCount' = deletingCount + 1
       ELSE UNCHANGED <<pods, deletingCount>>
    /\ UNCHANGED <<nameIndex, used>>

\* The entry goes, and with it whatever the index holds under its name.
Drop(u) ==
    /\ pods' = [pods EXCEPT ![u] = NoEntry]
    /\ nameIndex' = IF HasPod(u) THEN [nameIndex EXCEPT ![NameOf[u]] = NoUid]
                                 ELSE nameIndex
    /\ used' = used - Held(u)

\* Mutant of Unregister: it does not look whether the entry was deleting.
UnregisterAlwaysCounts(u) == Drop(u) /\ deletingCount' = deletingCount - 1

Unregister(u) ==
    /\ Drop(u)
    /\ deletingCount' = IF IsDeleting(u) THEN deletingCount - 1 ELSE deletingCount

\* Mutants of EvictGhost: resources not released; only the name removed.
EvictGhostKeepsResources(u) ==
    /\ pods' = [pods EXCEPT ![u] = NoEntry]
    /\ nameIndex' = IF HasPod(u) THEN [nameIndex EXCEPT ![NameOf[u]] = NoUid]
                                 ELSE nameIndex
    /\ UNCHANGED <<used, deletingCount>>

EvictGhostKeepsEntry(u) ==
    /\ nameIndex' = [nameIndex EXCEPT ![NameOf[u]] = NoUid]
    /\ UNCHANGED <<pods, used, deletingCount>>

EvictGhost(u) == Drop(u) /\ UNCHANGED deletingCount

PurgeHydrated(stale) ==
    LET gone == stale \cap Registered
    IN /\ pods' = [u \in Uids |-> IF u \in gone THEN NoEntry ELSE pods[u]]
       /\ nameIndex' = [n \in Names |-> IF \E u \in gone : NameOf[u] = n
                                        THEN NoUid ELSE nameIndex[n]]
       /\ used' = used - Cardinality(HeldUnits(gone))
       /\ UNCHANGED deletingCount
=============================================================================
