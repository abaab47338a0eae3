----------------------------- MODULE PodStatus ------------------------------
(***************************************************************************)
(* The PodController between the API server and the provider, for one pod  *)
(* name that several pods bear in turn: the informer with its lister and   *)
(* event handlers (node/podcontroller.go), the status queue, the deletion  *)
(* queue and the sync handler (node/pod.go).                               *)
(*                                                                         *)
(* A queue is its set of dirty keys and a handler run at a time per key    *)
(* (module WorkQueue implements that); a failed handler makes its key      *)
(* dirty again.  Calls to the API server fail at most MaxEvents times, less*)
(* than the 20 tries of the queue.  Specs never change, so only uid, status*)
(* and deletion tell two pods apart.                                       *)
(***************************************************************************)
EXTENDS Naturals, Sequences

CONSTANTS Uids,      \* the pods of the name, in the order they are created
          MaxEvents,  \* status pushes and failed calls, together
          MaxNotes    \* handler calls the informer has yet to make

UidSet == {Uids[i] : i \in DOMAIN Uids}

ASSUME PodStatusAssumption ==
    /\ Uids \in Seq(UidSet) /\ \A i, j \in 1 .. Len(Uids) : Uids[i] = Uids[j] => i = j
    /\ UidSet \cap {"none", "sync", "status"} = {}
    /\ MaxEvents \in Nat /\ MaxNotes \in Nat \ {0}

VARIABLES
    api, created,            \* the API server's object; pods created so far
    watch, lister, notes,    \* informer: changes to come, cache, handler calls to come
    known,                   \* knownPods' entry for the name
    dirty,                   \* keys in the sync, status and deletion queues
    sync, status, del,       \* the handler runs
    prov,                    \* the provider's pod of the name
    push,                    \* calls of enqueuePodStatusUpdate
    events, panicked,
    ran, rejected            \* pods reported running; failed for good at creation

infVars  == <<watch, lister, notes>>
vars == <<api, created, infVars, known, dirty, sync, status, del, prov, push, 
          events, panicked, ran, rejected>>

NoPod    == [uid |-> "none", status |-> "none", deleting |-> FALSE]
Statuses == {"Pending", "Running", "Ended"}   \* Pending: or every container waits
Pods     == {NoPod} \cup [uid : UidSet, status : Statuses, deleting : BOOLEAN]

\* running: some container is neither waiting nor terminated.
Running(pod) == pod.status = "Running"
\* shouldSkipPodStatusUpdate
Finished(pod) == pod.status = "Ended"
\* podsEffectivelyEqual
Same(p, q) == p.uid = q.uid /\ p.deleting = q.deleting

Callers == {"watcher", "sync"}
NoPush  == [pc |-> "idle", pod |-> NoPod, gen |-> 0]
NoJob   == [pc |-> "idle", pod |-> NoPod, last |-> NoPod, gen |-> 0]

\* A *knownPod; gen tells one from the next for those who hold a pointer.
Entry   == [here : BOOLEAN, gen : Nat, last : Pods, skipped : BOOLEAN,
            lastUsed : Pods]
Unknown == [here |-> FALSE, gen |-> 0, last |-> NoPod, skipped |-> FALSE,
            lastUsed |-> NoPod]

(************************* The API server (external) ***********************)

\* Every change is sent to the watchers.
Write(pod) == api' = pod /\ watch' = Append(watch, pod)

UserVars == <<lister, notes, known, dirty, sync, status, del, prov, push, 
              events, panicked, ran, rejected>>

UserCreates ==
    /\ api = NoPod /\ created < Len(Uids)
    /\ Write([uid |-> Uids[created + 1], status |-> "Pending", deleting |-> FALSE])
    /\ created' = created + 1
    /\ UNCHANGED UserVars

\* A graceful deletion, or one with --force.
UserDeletes ==
    /\ api # NoPod
    /\ \/ ~api.deleting /\ Write([api EXCEPT !.deleting = TRUE])
       \/ Write(NoPod)
    /\ UNCHANGED <<created, UserVars>>

Event == events < MaxEvents /\ events' = events + 1

(******************************** Informer *********************************)

Note(new, lost) ==
    /\ lister' = new
    /\ notes' = IF lister = NoPod /\ new = NoPod THEN notes
                ELSE Append(notes, [old |-> lister, new |-> new, lost |-> lost])

\* The cache changes before the handlers are called.
Deliver ==
    /\ watch # <<>> /\ Len(notes) < MaxNotes
    /\ Note(Head(watch), FALSE) /\ watch' = Tail(watch)
    /\ UNCHANGED <<api, created, known, dirty, sync, status, del, prov, push, 
                   events, panicked, ran, rejected>>

\* The watch broke: a new list, and a tombstone for a pod that is gone.
Relist ==
    /\ Len(watch) > 1 /\ Len(notes) < MaxNotes
    /\ Note(watch[Len(watch)], TRUE) /\ watch' = <<>>
    /\ UNCHANGED <<api, created, known, dirty, sync, status, del, prov, push, 
                   events, panicked, ran, rejected>>

HandlerVars == <<api, created, watch, lister, sync, status, del, prov, push, 
                 events, ran, rejected>>

\* Mutant of AddFunc: the entry is left to the sync handler.
AddFuncLazy ==
    /\ notes # <<>> /\ Head(notes).old = NoPod
    /\ dirty' = dirty \cup {"sync"}
    /\ notes' = Tail(notes)
    /\ UNCHANGED <<known, panicked, HandlerVars>>

AddFunc ==
    /\ notes # <<>> /\ Head(notes).old = NoPod
    /\ known' = [Unknown EXCEPT !.here = TRUE, !.gen = known.gen + 1]
    /\ dirty' = dirty \cup {"sync"}
    /\ notes' = Tail(notes)
    /\ UNCHANGED <<panicked, HandlerVars>>

UpdateFunc ==
    /\ notes # <<>>
    /\ LET old == Head(notes).old
           new == Head(notes).new
           repair == known.skipped /\ new.status # known.last.status
           \* podShouldEnqueue: deletion timestamps of two pods differ.
           resync == (old.deleting # new.deleting)
                     \/ (old.deleting /\ old.uid # new.uid)
       IN /\ NoPod \notin {old, new}
          /\ panicked' = (panicked \/ ~known.here)
          /\ known' = IF repair THEN [known EXCEPT !.skipped = FALSE] ELSE known
          /\ dirty' = dirty \cup (IF repair THEN {"status"} ELSE {})
                           \cup (IF resync THEN {"sync"} ELSE {})
    /\ notes' = Tail(notes)
    /\ UNCHANGED HandlerVars

\* A tombstone is not a *corev1.Pod: DeleteFunc returns.
DeleteFunc ==
    /\ notes # <<>> /\ Head(notes).old # NoPod /\ Head(notes).new = NoPod
    /\ IF Head(notes).lost THEN UNCHANGED <<known, dirty>>
       ELSE /\ known' = [Unknown EXCEPT !.gen = known.gen]
            /\ dirty' = (dirty \cup {"sync"}) \ {Head(notes).old.uid}
    /\ notes' = Tail(notes)
    /\ UNCHANGED <<panicked, HandlerVars>>

Informer == Deliver \/ Relist \/ AddFunc \/ UpdateFunc \/ DeleteFunc

(************************ enqueuePodStatusUpdate ***************************)

Calls(who, pod) ==
    /\ push' = [push EXCEPT ![who] = [pc |-> "load", pod |-> pod, gen |-> 0]]
    /\ ran' = IF Running(pod) THEN ran \cup {pod.uid} ELSE ran

\* The batch watcher's notifyPodStatus, as long as the provider has the pod.
WatcherPushes(s) ==
    /\ prov # NoPod /\ ~Finished(prov) /\ push["watcher"] = NoPush
    /\ Event
    /\ prov' = [prov EXCEPT !.status = s]
    /\ Calls("watcher", prov')
    /\ UNCHANGED <<api, created, infVars, known, dirty, sync, status, del, panicked,
                   rejected>>

\* It waits for the pod to be known, and gives up on one the lister lacks.
PushLoads(who) ==
    /\ push[who].pc = "load"
    /\ \/ known.here /\ push' = [push EXCEPT ![who].pc = "store", ![who].gen = known.gen]
       \/ ~known.here /\ lister = NoPod /\ push' = [push EXCEPT ![who] = NoPush]
    /\ UNCHANGED <<api, created, infVars, known, dirty, sync, status, del, prov, 
                   events, panicked, ran, rejected>>

\* Mutant of Store: the queue is told of a pod's first status only.
StoreFirst(pod, gen) ==
    /\ known' = [known EXCEPT !.last = pod, !.skipped = FALSE]
    /\ dirty' = IF known.last = NoPod THEN dirty \cup {"status"} ELSE dirty

\* Under the lock of the entry it loaded, which may have been replaced.
Store(pod, gen) ==
    IF gen = known.gen /\ known.here
    THEN IF known.last = pod
         THEN known' = [known EXCEPT !.skipped = TRUE] /\ UNCHANGED dirty
         ELSE /\ known' = [known EXCEPT !.last = pod, !.skipped = FALSE]
              /\ dirty' = dirty \cup {"status"}
    ELSE dirty' \in {dirty, dirty \cup {"status"}} /\ UNCHANGED known

PushStores(who) ==
    /\ push[who].pc = "store"
    /\ Store(push[who].pod, push[who].gen)
    /\ push' = [push EXCEPT ![who] = NoPush]
    /\ UNCHANGED <<api, created, infVars, sync, status, del, prov, events,
                   panicked, ran, rejected>>

Pushing == \E who \in Callers : PushLoads(who) \/ PushStores(who)

(******************************* Sync handler ******************************)

SyncVars == <<api, created, infVars, status, del, push, events, panicked, ran,
              rejected>>
SyncReady == "sync" \in dirty /\ sync = NoJob

\* The pod is gone: so is the provider's.
SyncGone ==
    /\ SyncReady /\ lister = NoPod
    /\ dirty' = dirty \ {"sync"}
    /\ prov' = NoPod
    /\ UNCHANGED <<known, sync, SyncVars>>

\* Mutant of SyncForceDeletes: the pod is left to deletePod.
SyncForceDeletesNot ==
    /\ SyncReady /\ lister.deleting /\ ~Running(lister)
    /\ dirty' = dirty \ {"sync"}
    /\ UNCHANGED <<known, sync, prov, SyncVars>>

\* Marked for deletion and not running as far as the API server knows.
SyncForceDeletes ==
    /\ SyncReady /\ lister.deleting /\ ~Running(lister)
    /\ dirty' = (dirty \ {"sync"}) \cup {lister.uid}
    /\ UNCHANGED <<known, sync, prov, SyncVars>>

SyncStarts ==
    /\ SyncReady /\ lister # NoPod /\ ~(lister.deleting /\ ~Running(lister))
    /\ dirty' = dirty \ {"sync"}
    /\ sync' = IF ~known.here \/ Same(known.lastUsed, lister) THEN NoJob
               ELSE [NoJob EXCEPT !.pc = IF lister.deleting THEN "delete" ELSE "create",
                                  !.pod = lister, !.gen = known.gen]
    /\ UNCHANGED <<known, prov, SyncVars>>

\* The deferred lastPodUsed, on the entry the handler holds.
SyncSucceeds ==
    /\ known' = IF known.here /\ known.gen = sync.gen
                THEN [known EXCEPT !.lastUsed = sync.pod] ELSE known
    /\ sync' = NoJob

\* deletePod: the provider's deletion, then the terminal status ...
SyncDeletes ==
    /\ sync.pc = "delete"
    /\ prov' = IF prov.uid = sync.pod.uid THEN NoPod ELSE prov
    /\ Calls("sync", [sync.pod EXCEPT !.status = "Ended"])
    /\ sync' = [sync EXCEPT !.pc = "enqueue"]
    /\ UNCHANGED <<api, created, infVars, known, dirty, status, del, events,
                   panicked, rejected>>

\* ... and the deletion from the API server, after the grace period.
SyncEnqueuesDeletion ==
    /\ sync.pc = "enqueue" /\ push["sync"] = NoPush
    /\ dirty' = dirty \cup {sync.pod.uid}
    /\ SyncSucceeds
    /\ UNCHANGED <<prov, SyncVars>>

\* createOrUpdatePod; UpdatePod does nothing.
SyncCreates ==
    /\ sync.pc = "create"
    /\ prov' = IF prov = NoPod THEN [sync.pod EXCEPT !.status = "Pending"] ELSE prov
    /\ SyncSucceeds
    /\ UNCHANGED <<dirty, SyncVars>>

\* handleProviderError: Pending, or Failed under restartPolicy Never.
SyncCreateFails ==
    /\ sync.pc = "create" /\ prov = NoPod
    /\ Event
    /\ IF api.uid = sync.pod.uid
       THEN \E s \in {"Pending", "Ended"} :
                /\ rejected' = IF s = "Ended" THEN rejected \cup {api.uid} ELSE rejected
                /\ IF s = api.status THEN UNCHANGED <<api, watch>>
                   ELSE Write([api EXCEPT !.status = s])
       ELSE UNCHANGED <<api, watch, rejected>>
    /\ dirty' = dirty \cup {"sync"}
    /\ sync' = NoJob
    /\ UNCHANGED <<created, lister, notes, known, status, del, prov, push, 
                   panicked, ran>>

Syncing == SyncGone \/ SyncForceDeletes \/ SyncStarts \/ SyncDeletes
           \/ SyncEnqueuesDeletion \/ SyncCreates \/ SyncCreateFails

(****************************** Status handler *****************************)

StatusVars == <<created, lister, notes, known, sync, del, prov, push, panicked,
                ran, rejected>>

StatusReads ==
    /\ "status" \in dirty /\ status = NoJob
    /\ dirty' = dirty \ {"status"}
    /\ status' = IF lister = NoPod \/ Finished(lister) THEN NoJob
                 ELSE [NoJob EXCEPT !.pc = "copy", !.pod = lister]
    /\ UNCHANGED <<api, watch, events, StatusVars>>

\* Mutant of StatusCopies: the status is put on the pod of the lister.
StatusCopiesByName ==
    /\ status.pc = "copy"
    /\ status' = IF ~known.here \/ known.last = NoPod THEN NoJob
                 ELSE [status EXCEPT !.pc = "write",
                          !.last = [known.last EXCEPT !.uid = status.pod.uid]]
    /\ UNCHANGED <<api, watch, events, dirty, StatusVars>>

\* The last status received, unless it is another pod's.
StatusCopies ==
    /\ status.pc = "copy"
    /\ status' = IF ~known.here \/ known.last.uid # status.pod.uid THEN NoJob
                 ELSE [status EXCEPT !.pc = "write", !.last = known.last]
    /\ UNCHANGED <<api, watch, events, dirty, StatusVars>>

\* UpdateStatus: NotFound is ignored, another uid a conflict.
StatusWrites ==
    /\ status.pc = "write"
    /\ status' = NoJob
    /\ IF api.uid = status.last.uid /\ api.status # status.last.status
       THEN Write([api EXCEPT !.status = status.last.status]) ELSE UNCHANGED <<api, watch>>
    /\ dirty' = IF api.uid \in {"none", status.last.uid} THEN dirty
                ELSE dirty \cup {"status"}
    /\ UNCHANGED <<events, StatusVars>>

\* The call fails, before or after the API server took the status.
StatusWriteFails ==
    /\ status.pc = "write" /\ Event
    /\ status' = NoJob
    /\ \/ UNCHANGED <<api, watch>>
       \/ /\ api.uid = status.last.uid /\ api.status # status.last.status
          /\ Write([api EXCEPT !.status = status.last.status])
    /\ dirty' = dirty \cup {"status"}
    /\ UNCHANGED StatusVars

Reporting == StatusReads \/ StatusCopies \/ StatusWrites \/ StatusWriteFails

(***************************** Deletion handler ****************************)

DelVars == <<created, lister, notes, known, sync, status, prov, push, panicked,
             ran, rejected>>

DelReads(u) ==
    /\ u \in dirty /\ u \notin del
    /\ dirty' = dirty \ {u}
    /\ del' = IF lister.uid = u THEN del \cup {u} ELSE del
    /\ UNCHANGED <<api, watch, events, DelVars>>

\* Mutant of DelCalls: no precondition.
DelCallsByName(u) ==
    /\ u \in del
    /\ del' = del \ {u}
    /\ IF api # NoPod THEN Write(NoPod) ELSE UNCHANGED <<api, watch>>
    /\ UNCHANGED <<dirty, events, DelVars>>

\* Delete with the uid as a precondition; conflicts and NotFound are ignored.
DelCalls(u) ==
    /\ u \in del
    /\ del' = del \ {u}
    /\ IF api.uid = u THEN Write(NoPod) ELSE UNCHANGED <<api, watch>>
    /\ UNCHANGED <<dirty, events, DelVars>>

DelFails(u) ==
    /\ u \in del /\ Event
    /\ del' = del \ {u}
    /\ dirty' = dirty \cup {u}
    /\ UNCHANGED <<api, watch, DelVars>>

Removing(u) == DelReads(u) \/ DelCalls(u) \/ DelFails(u)

Init ==
    /\ api = NoPod /\ created = 0 /\ watch = <<>> /\ lister = NoPod /\ notes = <<>>
    /\ known = Unknown /\ dirty = {} /\ sync = NoJob /\ status = NoJob /\ del = {}
    /\ prov = NoPod /\ push = [who \in Callers |-> NoPush] 
    /\ events = 0 /\ panicked = FALSE
    /\ ran = {} /\ rejected = {}

Next == \/ UserCreates \/ UserDeletes \/ Informer
        \/ \E s \in Statuses : WatcherPushes(s)
        \/ Pushing \/ Syncing \/ Reporting
        \/ \E u \in UidSet : Removing(u)

Spec == Init /\ [][Next]_vars

\* The informer delivers, callers and queue workers run on.
FairSpec ==
    /\ Spec /\ WF_vars(Informer) /\ WF_vars(Syncing) /\ WF_vars(Reporting)
    /\ \A who \in Callers : WF_vars(PushLoads(who) \/ PushStores(who))
    /\ \A u \in UidSet : WF_vars(Removing(u))

(******************************* Properties ********************************)

\* The types of the controller's maps, queues and handler state.
TypeOK ==
    /\ {api, lister, prov} \subseteq Pods /\ created \in 0 .. Len(Uids)
    /\ watch \in Seq(Pods) /\ notes \in Seq([old : Pods, new : Pods, lost : BOOLEAN])
    /\ known \in Entry
    /\ dirty \subseteq {"sync", "status"} \cup UidSet /\ del \subseteq UidSet
    /\ sync \in [pc : {"idle", "delete", "enqueue", "create"}, pod : Pods, last : {NoPod}, gen : Nat]
    /\ status \in [pc : {"idle", "copy", "write"}, pod : Pods, last : Pods, gen : {0}]
    /\ push \in [Callers -> [pc : {"idle", "load", "store"}, pod : Pods, gen : Nat]]
    /\ events \in 0 .. MaxEvents /\ panicked \in BOOLEAN
    /\ ran \subseteq UidSet /\ rejected \subseteq UidSet

\* "Pod not found in known pods. This should never happen.": UpdateFunc's panic is
\* not reached, whatever the informer skips.
UpdatesAreKnown == ~panicked

\* A pod's status is one its own provider pod had: the status of a pod never
\* lands on its successor of the same name.
StatusOfOwnPod ==
    Running(api) => api.uid \in ran

\* The deletion queue force-deletes only pods marked for deletion, never the
\* successor a stale lister does not know of yet.
OnlyDeletedForced ==
    [][\A u \in UidSet : u \in del /\ u \notin del' /\ api # NoPod /\ api' = NoPod
                          => api.deleting]_vars

\* The API server lacks the status its pod's entry in knownPods holds.  Left out
\* are pods whose creation handleProviderError wrote down as Failed: it writes
\* behind the back of the status handler, which skips them for good when the
\* lister shows the Failed that it has overwritten.
Outdated == /\ api # NoPod /\ api.uid = known.last.uid /\ api.uid \notin rejected
            /\ api.status \notin {known.last.status, "Ended"}

\* The status stored last for a pod is in the end the API server's, whatever
\* was skipped as unchanged, overtaken, or lost with a failed call; a terminal
\* status there is final.
LatestStatusReported == []<>~Outdated

\* Every pod marked for deletion is in the end gone from the API server.
DeletedPodsGo == []<>~api.deleting

=============================================================================
