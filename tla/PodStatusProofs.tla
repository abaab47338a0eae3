--------------------------- MODULE PodStatusProofs ---------------------------
(***************************************************************************)
(* Proofs about PodStatus, for any number of pods that bear one name in    *)
(* turn, any number of statuses and failed calls and any backlog of the    *)
(* informer's handlers.                                                    *)
(***************************************************************************)
EXTENDS PodStatus, TLAPS

\* The handler calls to come follow one another: each begins with what the one before ended with
\* and the last one ends with the lister's pod.  A pod the handlers know of has an entry.
Oldest == IF notes = <<>> THEN lister ELSE notes[1].old

NotesInv ==
    /\ \A i \in 1 .. Len(notes) : i < Len(notes) => notes[i].new = notes[i + 1].old
    /\ notes # <<>> => notes[Len(notes)].new = lister
    /\ Oldest # NoPod => known.here
    /\ ~panicked

\* A status "Running" on its way to the API server is that of a pod reported running
RanInv ==
    /\ Running(api) => api.uid \in ran
    /\ Running(known.last) => known.last.uid \in ran
    /\ Running(status.last) => status.last.uid \in ran
    /\ \A who \in Callers : Running(push[who].pod) => push[who].pod.uid \in ran

\* Pods come one after another and are never unmarked, so a copy that is marked for deletion is of
\* a marked pod or of one that is no longer the API server's
Past == {Uids[i] : i \in 1 .. created}

Marked(u) == u \in Past /\ (api.uid = u => api.deleting)

Copied(pod) == pod = NoPod \/ (pod.uid \in Past /\ (pod.deleting => Marked(pod.uid)))

MarksInv ==
    /\ Copied(api) /\ Copied(lister) /\ Copied(sync.pod)
    /\ \A i \in 1 .. Len(watch) : Copied(watch[i])
    /\ sync.pc \in {"delete", "enqueue"} => sync.pod.deleting
    /\ \A u \in UidSet : u \in del \/ u \in dirty => Marked(u)

-----------------------------------------------------------------------------
\* A pod's copy says which pod it is of
LEMMA PodFacts ==
    ASSUME NEW pod \in Pods
    PROVE  /\ pod.uid \in UidSet \cup {"none"} /\ pod.deleting \in BOOLEAN
           /\ pod = NoPod <=> pod.uid = "none"
           /\ pod # NoPod => pod.uid \in UidSet /\ pod.status \in Statuses
           /\ pod = NoPod => pod.status = "none" /\ ~pod.deleting /\ pod.uid \notin UidSet
<1>1. NoPod.uid = "none" /\ NoPod.status = "none" /\ NoPod.deleting = FALSE
  BY Zenon DEF NoPod
<1>2. "none" \notin UidSet
  BY PodStatusAssumption, Zenon DEF UidSet
<1>3. pod = NoPod \/ pod \in [uid : UidSet, status : Statuses, deleting : BOOLEAN]
  BY Zenon DEF Pods
<1> QED
  BY <1>1, <1>2, <1>3, Zenon

\* The copies the controller makes of a pod
LEMMA PodWith ==
    ASSUME NEW pod \in Pods, pod # NoPod
    PROVE  /\ \A s \in Statuses : /\ [pod EXCEPT !.status = s] \in Pods
                                  /\ [pod EXCEPT !.status = s].uid = pod.uid
                                  /\ [pod EXCEPT !.status = s].status = s
                                  /\ [pod EXCEPT !.status = s].deleting = pod.deleting
           /\ /\ [pod EXCEPT !.deleting = TRUE] \in Pods
              /\ [pod EXCEPT !.deleting = TRUE].uid = pod.uid
              /\ [pod EXCEPT !.deleting = TRUE].status = pod.status
              /\ [pod EXCEPT !.deleting = TRUE].deleting = TRUE
<1>1. pod \in [uid : UidSet, status : Statuses, deleting : BOOLEAN]
  BY Zenon DEF Pods
<1> QED
  BY <1>1, Zenon DEF Pods

\* The records of a job, a call or an entry that does not exist
LEMMA NoneFacts ==
    /\ NoPod \in Pods /\ NoPod.uid = "none" /\ NoPod.status = "none" /\ NoPod.deleting = FALSE
    /\ NoJob.pc = "idle" /\ NoJob.pod = NoPod /\ NoJob.last = NoPod
    /\ NoPush.pod = NoPod
    /\ Unknown \in Entry /\ Unknown.here = FALSE /\ Unknown.last = NoPod
BY Zenon DEF NoPod, Pods, NoJob, NoPush, Unknown, Entry

SyncJob == [pc : {"idle", "delete", "enqueue", "create"}, pod : Pods, last : {NoPod}, gen : Nat]
StatusJob == [pc : {"idle", "copy", "write"}, pod : Pods, last : Pods, gen : {0}]
PushCall == [pc : {"idle", "load", "store"}, pod : Pods, gen : Nat]
NoteCall == [old : Pods, new : Pods, lost : BOOLEAN]

\* Type correctness, with the pod of a run of the sync handler
TypeInv == TypeOK /\ (sync.pc # "idle" => sync.pod # NoPod)

\* The types one by one
LEMMA TypesAre ==
    TypeOK <=>
      /\ api \in Pods /\ lister \in Pods /\ prov \in Pods /\ created \in 0 .. Len(Uids)
      /\ watch \in Seq(Pods) /\ notes \in Seq(NoteCall)
      /\ known \in Entry
      /\ dirty \subseteq {"sync", "status"} \cup UidSet /\ del \subseteq UidSet
      /\ sync \in SyncJob /\ status \in StatusJob /\ push \in [Callers -> PushCall]
      /\ events \in 0 .. MaxEvents /\ panicked \in BOOLEAN
      /\ ran \subseteq UidSet /\ rejected \subseteq UidSet
BY Zenon DEF TypeOK, NoteCall, SyncJob, StatusJob, PushCall

\* Every pod written to the API server comes to the watchers
LEMMA WriteTypes ==
    ASSUME TypeOK, NEW pod \in Pods, Write(pod)
    PROVE  api' \in Pods /\ watch' \in Seq(Pods)
BY TypesAre DEF Write

\* What a status write makes of the API server's pod
LEMMA StatusWritten ==
    ASSUME TypeOK, api.uid = status.last.uid, api.status # status.last.status
    PROVE  /\ api # NoPod /\ status.last # NoPod /\ status.last.status \in Statuses
           /\ [api EXCEPT !.status = status.last.status] \in Pods
<1>1. api \in Pods /\ status.last \in Pods
  BY TypesAre, Zenon DEF StatusJob
<1>2. api # NoPod /\ status.last # NoPod /\ status.last.status \in Statuses
  BY <1>1, PodFacts, Zenon
<1> QED
  BY <1>1, <1>2, PodWith, Zenon

\* One more of at most MaxEvents pushes and failures
LEMMA EventTypes ==
    ASSUME TypeOK, Event
    PROVE  events' \in 0 .. MaxEvents
BY PodStatusAssumption, TypesAre DEF Event

\* Type correctness is kept by every step
LEMMA TypeStep == TypeInv /\ [Next]_vars => TypeInv'
<1> SUFFICES ASSUME TypeInv, [Next]_vars PROVE TypeInv'
  OBVIOUS
<1> DEFINE Synced == sync.pc # "idle" => sync.pod # NoPod
<1>0. /\ TypeOK /\ Synced
      /\ api \in Pods /\ lister \in Pods /\ prov \in Pods /\ created \in 0 .. Len(Uids)
      /\ watch \in Seq(Pods) /\ notes \in Seq(NoteCall)
      /\ known \in Entry
      /\ dirty \subseteq {"sync", "status"} \cup UidSet /\ del \subseteq UidSet
      /\ sync \in SyncJob /\ status \in StatusJob /\ push \in [Callers -> PushCall]
      /\ events \in 0 .. MaxEvents /\ panicked \in BOOLEAN
      /\ ran \subseteq UidSet /\ rejected \subseteq UidSet
  BY TypesAre, Zenon DEF TypeInv
<1>g. ASSUME Synced', 
             api' \in Pods, lister' \in Pods, prov' \in Pods, created' \in 0 .. Len(Uids),
             watch' \in Seq(Pods), notes' \in Seq(NoteCall),
             known' \in Entry,
             dirty' \subseteq {"sync", "status"} \cup UidSet, del' \subseteq UidSet,
             sync' \in SyncJob, status' \in StatusJob, push' \in [Callers -> PushCall],
             events' \in 0 .. MaxEvents, panicked' \in BOOLEAN,
             ran' \subseteq UidSet, rejected' \subseteq UidSet
      PROVE  TypeInv'
  BY <1>g, TypesAre, Zenon DEF TypeInv, TypeOK, NoteCall, SyncJob, StatusJob, PushCall
<1>n. NoPod \in Pods /\ NoJob \in SyncJob /\ NoJob \in StatusJob /\ NoPush \in PushCall /\ NoJob.pc = "idle"
  BY NoneFacts, Zenon DEF NoJob, NoPush, SyncJob, StatusJob, PushCall
<1> HIDE DEF Synced
<1> USE <1>0
<1>1. CASE UserCreates
  <2> DEFINE pod == [uid |-> Uids[created + 1], status |-> "Pending", deleting |-> FALSE]
  <2>1. created + 1 \in 1 .. Len(Uids) /\ Uids[created + 1] \in UidSet /\ created' = created + 1
    BY <1>1, PodStatusAssumption DEF UserCreates, UidSet
  <2>2. pod \in Pods
    BY <2>1, Zenon DEF Pods, Statuses
  <2>3. api' \in Pods /\ watch' \in Seq(Pods)
    BY <1>1, <2>2, WriteTypes, Zenon DEF UserCreates
  <2>4. created' \in 0 .. Len(Uids)
    BY <2>1
  <2>5. UNCHANGED UserVars
    BY <1>1, Zenon DEF UserCreates
  <2> QED
    BY <1>g, <2>3, <2>4, <2>5, Zenon DEF UserVars, Synced
<1>2. CASE UserDeletes
  <2>1. api' \in Pods /\ watch' \in Seq(Pods)
    BY <1>2, <1>n, WriteTypes, PodWith, Zenon DEF UserDeletes
  <2>2. UNCHANGED <<created, UserVars>>
    BY <1>2, Zenon DEF UserDeletes
  <2> QED
    BY <1>g, <2>1, <2>2, Zenon DEF UserVars, Synced
<1>3. ASSUME NEW new \in Pods, NEW lost \in BOOLEAN, Note(new, lost)
      PROVE  lister' \in Pods /\ notes' \in Seq(NoteCall)
  <2>1. [old |-> lister, new |-> new, lost |-> lost] \in NoteCall
    BY <1>3, Zenon DEF NoteCall
  <2> QED
    BY <1>3, <2>1 DEF Note
<1>4. CASE Deliver
  <2>1. Head(watch) \in Pods /\ Tail(watch) \in Seq(Pods)
    BY <1>4 DEF Deliver
  <2>2. lister' \in Pods /\ notes' \in Seq(NoteCall) /\ watch' \in Seq(Pods)
    BY <1>3, <1>4, <2>1, Zenon DEF Deliver
  <2> QED
    BY <1>4, <1>g, <2>2, Zenon DEF Deliver, Synced
<1>5. CASE Relist
  <2>1. watch[Len(watch)] \in Pods
    BY <1>5 DEF Relist
  <2>2. lister' \in Pods /\ notes' \in Seq(NoteCall) /\ watch' \in Seq(Pods)
    <3>1. Note(watch[Len(watch)], TRUE) /\ watch' = <<>>
      BY <1>5, Zenon DEF Relist
    <3>2. lister' \in Pods /\ notes' \in Seq(NoteCall)
      BY <1>3, <2>1, <3>1, Zenon
    <3> QED
      BY <3>1, <3>2
  <2> QED
    BY <1>5, <1>g, <2>2, Zenon DEF Relist, Synced
<1>6. ASSUME notes # <<>>, notes' = Tail(notes), known' \in Entry, panicked' \in BOOLEAN,
             dirty' \subseteq {"sync", "status"} \cup UidSet, UNCHANGED HandlerVars
      PROVE  TypeInv'
  <2>1. notes' \in Seq(NoteCall)
    BY <1>6
  <2> QED
    BY <1>6, <1>g, <2>1, Zenon DEF HandlerVars, Synced
<1>7. CASE AddFunc
  <2>1. known.gen + 1 \in Nat
    BY DEF Entry
  <2>2. [Unknown EXCEPT !.here = TRUE, !.gen = known.gen + 1] \in Entry
    BY <2>1, NoneFacts, Zenon DEF Entry
  <2> QED
    BY <1>6, <1>7, <2>2, Zenon DEF AddFunc
<1>8. CASE UpdateFunc
  <2>1. [known EXCEPT !.skipped = FALSE] \in Entry
    BY Zenon DEF Entry
  <2>2. known.here \in BOOLEAN
    BY Zenon DEF Entry
  <2>3. known' \in Entry /\ panicked' \in BOOLEAN /\ dirty' \subseteq {"sync", "status"} \cup UidSet
    BY <1>8, <2>1, <2>2, Zenon DEF UpdateFunc
  <2> QED
    BY <1>6, <1>8, <2>3, Zenon DEF UpdateFunc
<1>9. CASE DeleteFunc
  <2>1. [Unknown EXCEPT !.gen = known.gen] \in Entry
    BY NoneFacts, Zenon DEF Entry
  <2>2. known' \in Entry /\ dirty' \subseteq {"sync", "status"} \cup UidSet
    BY <1>9, <2>1, Zenon DEF DeleteFunc
  <2> QED
    BY <1>6, <1>9, <2>2, Zenon DEF DeleteFunc
<1>10. ASSUME NEW who \in Callers, NEW pod \in Pods, Calls(who, pod)
       PROVE  push' \in [Callers -> PushCall] /\ ran' \subseteq UidSet
  <2>1. [pc |-> "load", pod |-> pod, gen |-> 0] \in PushCall
    BY <1>10, Zenon DEF PushCall
  <2>2. Running(pod) => pod.uid \in UidSet
    BY <1>10, PodFacts, Zenon DEF Running
  <2> QED
    BY <1>10, <2>1, <2>2, Zenon DEF Calls
<1>11. ASSUME NEW s \in Statuses, WatcherPushes(s)
       PROVE  TypeInv'
  <2>1. prov' \in Pods /\ events' \in 0 .. MaxEvents
    BY <1>11, PodWith, EventTypes, Zenon DEF WatcherPushes
  <2>2. push' \in [Callers -> PushCall] /\ ran' \subseteq UidSet
    BY <1>10, <1>11, <2>1, Zenon DEF WatcherPushes, Callers
  <2> QED
    BY <1>11, <1>g, <2>1, <2>2, Zenon DEF WatcherPushes, infVars, Synced
<1>12. ASSUME NEW who \in Callers, PushLoads(who)
       PROVE  TypeInv'
  <2>1. push[who] \in PushCall /\ known.gen \in Nat
    BY Zenon DEF Entry
  <2>2. [push[who] EXCEPT !.pc = "store", !.gen = known.gen] \in PushCall
    BY <2>1, Zenon DEF PushCall
  <2>3. \/ push' = [push EXCEPT ![who] = [push[who] EXCEPT !.pc = "store", !.gen = known.gen]]
        \/ push' = [push EXCEPT ![who] = NoPush]
    BY <1>12, <2>1, Zenon DEF PushLoads, PushCall
  <2>4. push' \in [Callers -> PushCall]
    BY <1>n, <2>2, <2>3, Zenon
  <2> QED
    BY <1>12, <1>g, <2>4, Zenon DEF PushLoads, infVars, Synced
<1>13. ASSUME NEW who \in Callers, PushStores(who)
       PROVE  TypeInv'
  <2>1. push[who].pod \in Pods
    BY Zenon DEF PushCall
  <2>2. /\ [known EXCEPT !.skipped = TRUE] \in Entry
        /\ [known EXCEPT !.last = push[who].pod, !.skipped = FALSE] \in Entry
    BY <2>1, Zenon DEF Entry
  <2>3. known' \in Entry /\ dirty' \subseteq {"sync", "status"} \cup UidSet
    BY <1>13, <2>2, Zenon DEF PushStores, Store
  <2>4. push' \in [Callers -> PushCall]
    BY <1>n, <1>13, Zenon DEF PushStores
  <2> QED
    BY <1>13, <1>g, <2>3, <2>4, Zenon DEF PushStores, infVars, Synced
<1>14. ASSUME sync' \in SyncJob, Synced', known' \in Entry, prov' \in Pods,
              dirty' \subseteq {"sync", "status"} \cup UidSet, UNCHANGED SyncVars
       PROVE  TypeInv'
  BY <1>14, <1>g, Zenon DEF SyncVars, infVars
<1>15. /\ lister # NoPod => lister.uid \in UidSet
       /\ sync.pc \in {"delete", "enqueue", "create"} => sync.pod \in Pods /\ sync.pod # NoPod /\ sync.pod.uid \in UidSet
       /\ sync.pod \in Pods
  BY PodFacts, Zenon DEF SyncJob, Synced
<1>16. CASE SyncGone
  BY <1>14, <1>16, <1>n, Zenon DEF SyncGone, Synced
<1>17. CASE SyncForceDeletes
  <2>1. lister.deleting => lister.uid \in UidSet
    BY PodFacts, Zenon
  <2> QED
    BY <1>14, <1>17, <2>1, Zenon DEF SyncForceDeletes, Synced
<1>18. CASE SyncStarts
  <2> DEFINE pc == IF lister.deleting THEN "delete" ELSE "create"
             new == [NoJob EXCEPT !.pc = pc, !.pod = lister, !.gen = known.gen]
  <2>1. known.gen \in Nat /\ pc \in {"delete", "create"}
    BY Zenon DEF Entry
  <2> HIDE DEF pc
  <2>2. new \in SyncJob /\ new.pod = lister
    BY <1>n, <2>1, Zenon DEF SyncJob
  <2>3. sync' = NoJob \/ sync' = new
    BY <1>18, Zenon DEF SyncStarts, pc
  <2>4. lister # NoPod /\ dirty' \subseteq dirty /\ UNCHANGED <<known, prov, SyncVars>>
    BY <1>18, Zenon DEF SyncStarts
  <2> HIDE DEF new
  <2>5. sync' \in SyncJob /\ Synced'
    BY <1>n, <2>2, <2>3, <2>4, Zenon DEF Synced
  <2> QED
    BY <1>14, <2>4, <2>5, Zenon
<1>19. ASSUME SyncSucceeds
       PROVE  known' \in Entry /\ sync' \in SyncJob /\ Synced'
  <2>1. [known EXCEPT !.lastUsed = sync.pod] \in Entry
    BY <1>15, Zenon DEF Entry
  <2> QED
    BY <1>19, <1>n, <2>1, Zenon DEF SyncSucceeds, Synced
<1>20. CASE SyncDeletes
  <2>1. sync.pc = "delete" /\ sync.pod \in Pods /\ sync.pod # NoPod
    BY <1>15, <1>20, Zenon DEF SyncDeletes
  <2>2. [sync.pod EXCEPT !.status = "Ended"] \in Pods
    BY <2>1, PodWith, Zenon DEF Statuses
  <2>3. push' \in [Callers -> PushCall] /\ ran' \subseteq UidSet
    BY <1>10, <1>20, <2>2, Zenon DEF SyncDeletes, Callers
  <2>4. sync' \in SyncJob /\ Synced'
    BY <1>20, <2>1, Zenon DEF SyncDeletes, SyncJob, Synced
  <2>5. prov' \in Pods
    BY <1>20, <1>n, Zenon DEF SyncDeletes
  <2> QED
    BY <1>20, <1>g, <2>3, <2>4, <2>5, Zenon DEF SyncDeletes, infVars
<1>21. CASE SyncEnqueuesDeletion
  <2>1. dirty' \subseteq {"sync", "status"} \cup UidSet
    BY <1>15, <1>21, Zenon DEF SyncEnqueuesDeletion
  <2> QED
    BY <1>14, <1>19, <1>21, <2>1, Zenon DEF SyncEnqueuesDeletion
<1>22. CASE SyncCreates
  <2>1. prov' \in Pods
    BY <1>15, <1>22, PodWith, Zenon DEF SyncCreates, Statuses
  <2> QED
    BY <1>14, <1>19, <1>22, <2>1, Zenon DEF SyncCreates
<1>23. CASE SyncCreateFails
  <2>1. /\ sync.pod # NoPod /\ events' \in 0 .. MaxEvents /\ dirty' = dirty \cup {"sync"} /\ sync' = NoJob
        /\ UNCHANGED <<created, lister, notes, known, status, del, prov, push, panicked, ran>>
    BY <1>15, <1>23, EventTypes, Zenon DEF SyncCreateFails
  <2>2. api' \in Pods /\ watch' \in Seq(Pods) /\ rejected' \subseteq UidSet
    <3>1. CASE api.uid = sync.pod.uid
      <4>1. api # NoPod /\ api.uid \in UidSet
        BY <1>15, <2>1, <3>1, PodFacts, Zenon
      <4>2. PICK s \in {"Pending", "Ended"} :
                /\ rejected' = IF s = "Ended" THEN rejected \cup {api.uid} ELSE rejected
                /\ IF s = api.status THEN UNCHANGED <<api, watch>>
                   ELSE Write([api EXCEPT !.status = s])
        BY <1>23, <3>1, Zenon DEF SyncCreateFails
      <4>3. [api EXCEPT !.status = s] \in Pods
        BY <4>1, PodWith, Zenon DEF Statuses
      <4> QED
        BY <4>1, <4>2, <4>3, WriteTypes, Zenon
    <3>2. CASE api.uid # sync.pod.uid
      BY <1>23, <3>2, Zenon DEF SyncCreateFails
    <3> QED
      BY <3>1, <3>2, Zenon
  <2>3. sync' \in SyncJob /\ Synced'
    BY <1>n, <2>1, Zenon DEF Synced
  <2> QED
    BY <1>g, <2>1, <2>2, <2>3, Zenon
<1>24. ASSUME api' \in Pods, watch' \in Seq(Pods), events' \in 0 .. MaxEvents, status' \in StatusJob,
              dirty' \subseteq {"sync", "status"} \cup UidSet, UNCHANGED StatusVars
       PROVE  TypeInv'
  BY <1>24, <1>g, Zenon DEF StatusVars, Synced
<1>25. CASE StatusReads
  <2>1. [NoJob EXCEPT !.pc = "copy", !.pod = lister] \in StatusJob
    BY <1>n, Zenon DEF StatusJob
  <2>2. status' \in StatusJob
    BY <1>25, <1>n, <2>1, Zenon DEF StatusReads
  <2> QED
    BY <1>24, <1>25, <2>2, Zenon DEF StatusReads
<1>26. CASE StatusCopies
  <2>1. known.last \in Pods
    BY Zenon DEF Entry
  <2>2. [status EXCEPT !.pc = "write", !.last = known.last] \in StatusJob
    BY <2>1, Zenon DEF StatusJob
  <2>3. status' \in StatusJob
    BY <1>26, <1>n, <2>2, Zenon DEF StatusCopies
  <2> QED
    BY <1>24, <1>26, <2>3, Zenon DEF StatusCopies
<1>27. CASE StatusWrites
  <2>1. api' \in Pods /\ watch' \in Seq(Pods)
    BY <1>27, StatusWritten, WriteTypes, Zenon DEF StatusWrites
  <2>2. status' \in StatusJob /\ dirty' \subseteq {"sync", "status"} \cup UidSet
    BY <1>27, <1>n, Zenon DEF StatusWrites
  <2> QED
    BY <1>24, <1>27, <2>1, <2>2, Zenon DEF StatusWrites
<1>28. CASE StatusWriteFails
  <2>1. api' \in Pods /\ watch' \in Seq(Pods)
    BY <1>28, StatusWritten, WriteTypes, Zenon DEF StatusWriteFails
  <2>2. status' \in StatusJob /\ dirty' \subseteq {"sync", "status"} \cup UidSet
    BY <1>28, <1>n, Zenon DEF StatusWriteFails
  <2>3. events' \in 0 .. MaxEvents
    BY <1>28, EventTypes, Zenon DEF StatusWriteFails
  <2> QED
    BY <1>24, <1>28, <2>1, <2>2, <2>3, Zenon DEF StatusWriteFails
<1>29. ASSUME NEW u \in UidSet, Removing(u)
       PROVE  TypeInv'
  <2>1. dirty' \subseteq {"sync", "status"} \cup UidSet /\ del' \subseteq UidSet /\ UNCHANGED DelVars
    BY <1>29, Zenon DEF Removing, DelReads, DelCalls, DelFails
  <2>2. api' \in Pods /\ watch' \in Seq(Pods)
    BY <1>29, <1>n, WriteTypes, Zenon DEF Removing, DelReads, DelCalls, DelFails
  <2>3. events' \in 0 .. MaxEvents
    BY <1>29, EventTypes, Zenon DEF Removing, DelReads, DelCalls, DelFails
  <2> QED
    BY <1>g, <2>1, <2>2, <2>3, Zenon DEF DelVars, Synced
<1>30. CASE UNCHANGED vars
  BY <1>30, <1>g, Zenon DEF vars, infVars, Synced
<1> QED
  BY Zenon, <1>1, <1>2, <1>4, <1>5, <1>7, <1>8, <1>9, <1>11, <1>12, <1>13, <1>16, <1>17, <1>18, <1>20, <1>21, <1>22,
     <1>23, <1>25, <1>26, <1>27, <1>28, <1>29, <1>30, Zenon
     DEF Next, Informer, Pushing, Syncing, Reporting

\* Type correctness of the controller, for any pods, statuses and failures
THEOREM StatusTypeOK == Spec => []TypeInv
<1>1. Init => TypeInv
  <2> SUFFICES ASSUME Init PROVE TypeInv
    OBVIOUS
  <2>1. NoPod \in Pods /\ NoJob \in SyncJob /\ NoJob \in StatusJob /\ NoPush \in PushCall /\ NoJob.pc = "idle"
    BY NoneFacts, Zenon DEF NoJob, NoPush, SyncJob, StatusJob, PushCall
  <2>2. /\ api \in Pods /\ lister \in Pods /\ prov \in Pods
        /\ known \in Entry /\ sync \in SyncJob /\ status \in StatusJob /\ sync.pc = "idle"
    BY <2>1, NoneFacts, Zenon DEF Init
  <2>3. /\ created \in 0 .. Len(Uids) /\ events \in 0 .. MaxEvents
        /\ watch \in Seq(Pods) /\ notes \in Seq(NoteCall)
    BY PodStatusAssumption DEF Init
  <2>4. /\ dirty \subseteq {"sync", "status"} \cup UidSet /\ del \subseteq UidSet
        /\ panicked \in BOOLEAN /\ ran \subseteq UidSet /\ rejected \subseteq UidSet
        /\ push \in [Callers -> PushCall]
    BY <2>1, Zenon DEF Init
  <2> QED
    BY <2>2, <2>3, <2>4, TypesAre, Zenon DEF TypeInv
<1> QED
  BY <1>1, TypeStep, PTL DEF Spec

-----------------------------------------------------------------------------
\* The informer's calls and the entries of knownPods, for any backlog and any pods
THEOREM StatusNotesInv == Spec => []NotesInv
<1>1. Init => NotesInv
  BY NoneFacts DEF Init, NotesInv, Oldest
<1>2. TypeInv /\ NotesInv /\ [Next]_vars => NotesInv'
  <2> SUFFICES ASSUME TypeInv, NotesInv, [Next]_vars PROVE NotesInv'
    OBVIOUS
  <2>0. notes \in Seq(NoteCall) /\ known \in Entry /\ lister \in Pods /\ watch \in Seq(Pods) /\ panicked \in BOOLEAN
    BY TypesAre, Zenon DEF TypeInv
  <2>1. ASSUME UNCHANGED <<notes, lister, panicked>>, known'.here = known.here
        PROVE  NotesInv'
    BY <2>1, Zenon DEF NotesInv, Oldest
  <2>2. ASSUME NEW new \in Pods, NEW lost \in BOOLEAN, Note(new, lost), UNCHANGED <<known, panicked>>
        PROVE  NotesInv'
    <3> DEFINE note == [old |-> lister, new |-> new, lost |-> lost]
    <3>1. CASE lister = NoPod /\ new = NoPod
      BY <2>1, <2>2, <3>1, Zenon DEF Note
    <3>2. CASE ~(lister = NoPod /\ new = NoPod)
      <4>1. lister' = new /\ notes' = Append(notes, note) /\ note.old = lister /\ note.new = new
        BY <2>2, <3>2, Zenon DEF Note
      <4>2. note \in NoteCall
        BY <2>0, Zenon DEF NoteCall
      <4> HIDE DEF note
      <4>3. /\ Len(notes') = Len(notes) + 1 /\ notes'[Len(notes) + 1] = note /\ Len(notes) \in Nat
            /\ \A i \in 1 .. Len(notes) : notes'[i] = notes[i]
        BY <2>0, <4>1, <4>2
      <4>4. \A i \in 1 .. Len(notes') : i < Len(notes') => notes'[i].new = notes'[i + 1].old
        <5> SUFFICES ASSUME NEW i \in 1 .. Len(notes'), i < Len(notes')
                     PROVE  notes'[i].new = notes'[i + 1].old
          OBVIOUS
        <5>1. i \in 1 .. Len(notes) /\ notes'[i] = notes[i]
          BY <4>3
        <5>2. CASE i < Len(notes)
          <6>1. notes'[i + 1] = notes[i + 1] /\ notes[i].new = notes[i + 1].old
            BY <4>3, <5>1, <5>2 DEF NotesInv
          <6> QED
            BY <5>1, <6>1, Zenon
        <5>3. CASE i = Len(notes)
          <6>1. notes # <<>> /\ notes[i].new = lister
            BY <2>0, <5>1, <5>3 DEF NotesInv
          <6> QED
            BY <4>1, <4>3, <5>1, <5>3, <6>1, Zenon
        <5> QED
          BY <4>3, <5>1, <5>2, <5>3
      <4>5. notes' # <<>> /\ notes'[Len(notes')].new = lister'
        BY <4>1, <4>3
      <4>6. Oldest' = Oldest
        <5>1. CASE notes = <<>>
          BY <4>1, <4>3, <4>5, <5>1 DEF Oldest
        <5>2. CASE notes # <<>>
          <6>1. notes'[1] = notes[1]
            BY <2>0, <4>3, <5>2
          <6> QED
            BY <4>5, <5>2, <6>1, Zenon DEF Oldest
        <5> QED
          BY <5>1, <5>2, Zenon
      <4> QED
        BY <2>2, <4>4, <4>5, <4>6, Zenon DEF NotesInv
    <3> QED
      BY <3>1, <3>2, Zenon
  <2>3. ASSUME notes # <<>>, notes' = Tail(notes), UNCHANGED <<lister, panicked>>,
               Head(notes).new # NoPod => known'.here
        PROVE  NotesInv'
    <3>1. /\ Len(notes') = Len(notes) - 1 /\ Len(notes) \in Nat \ {0} /\ Head(notes) = notes[1]
          /\ \A i \in 1 .. Len(notes') : notes'[i] = notes[i + 1]
      BY <2>0, <2>3
    <3>2. \A i \in 1 .. Len(notes') : i < Len(notes') => notes'[i].new = notes'[i + 1].old
      <4> SUFFICES ASSUME NEW i \in 1 .. Len(notes'), i < Len(notes')
                   PROVE  notes'[i].new = notes'[i + 1].old
        OBVIOUS
      <4>1. notes'[i] = notes[i + 1] /\ notes'[i + 1] = notes[i + 2]
        BY <3>1
      <4>2. notes[i + 1].new = notes[(i + 1) + 1].old
        BY <3>1 DEF NotesInv
      <4> QED
        BY <4>1, <4>2
    <3>3. CASE notes' = <<>>
      <4>1. Len(notes) = 1 /\ lister = Head(notes).new
        BY <3>1, <3>3, <2>3 DEF NotesInv
      <4> QED
        BY <2>3, <3>2, <3>3, <4>1, Zenon DEF NotesInv, Oldest
    <3>4. CASE notes' # <<>>
      <4>1. Len(notes') \in Nat \ {0} /\ Len(notes) > 1
        BY <2>0, <2>3, <3>1, <3>4
      <4>2. notes'[Len(notes')] = notes[Len(notes)] /\ notes'[1] = notes[2]
        BY <3>1, <4>1
      <4>3. Head(notes).new = notes'[1].old
        BY <3>1, <4>1, <4>2 DEF NotesInv
      <4>4. notes'[Len(notes')].new = lister'
        BY <2>3, <4>2, Zenon DEF NotesInv
      <4> QED
        BY <2>3, <3>2, <3>4, <4>3, <4>4, Zenon DEF NotesInv, Oldest
    <3> QED
      BY <3>3, <3>4, Zenon
  <2>4. CASE Deliver
    <3>1. Head(watch) \in Pods
      BY <2>0, <2>4 DEF Deliver
    <3>2. Note(Head(watch), FALSE) /\ UNCHANGED <<known, panicked>>
      BY <2>4, Zenon DEF Deliver
    <3> QED
      BY <2>2, <3>1, <3>2, Zenon
  <2>5. CASE Relist
    <3>1. watch[Len(watch)] \in Pods
      BY <2>0, <2>5 DEF Relist
    <3>2. Note(watch[Len(watch)], TRUE) /\ UNCHANGED <<known, panicked>>
      BY <2>5, Zenon DEF Relist
    <3> QED
      BY <2>2, <3>1, <3>2, Zenon
  <2>6. CASE AddFunc
    <3>1. known'.here
      BY <2>6, NoneFacts, Zenon DEF AddFunc, Entry
    <3> QED
      BY <2>3, <2>6, <3>1, Zenon DEF AddFunc, HandlerVars
  <2>7. CASE UpdateFunc
    <3>1. notes # <<>> /\ Head(notes) = notes[1] /\ Head(notes).old # NoPod /\ UNCHANGED HandlerVars /\ notes' = Tail(notes)
      BY <2>0, <2>7 DEF UpdateFunc
    <3>2. known.here
      BY <3>1, Zenon DEF NotesInv, Oldest
    <3>3. panicked' = panicked
      BY <2>0, <2>7, <3>2, Zenon DEF UpdateFunc
    <3>4. known'.here = known.here
      BY <2>0, <2>7, Zenon DEF UpdateFunc, Entry
    <3> QED
      BY <2>3, <3>1, <3>2, <3>3, <3>4, Zenon DEF HandlerVars
  <2>8. CASE DeleteFunc
    BY <2>3, <2>8, Zenon DEF DeleteFunc, HandlerVars
  <2>9. ASSUME NEW who \in Callers, PushStores(who)
        PROVE  NotesInv'
    <3>1. known'.here = known.here
      BY <2>0, <2>9, Zenon DEF PushStores, Store, Entry
    <3> QED
      BY <2>1, <2>9, <3>1, Zenon DEF PushStores, infVars
  <2>10. CASE SyncEnqueuesDeletion \/ SyncCreates
    <3>1. known'.here = known.here
      BY <2>0, <2>10, Zenon DEF SyncEnqueuesDeletion, SyncCreates, SyncSucceeds, Entry
    <3> QED
      BY <2>1, <2>10, <3>1, Zenon DEF SyncEnqueuesDeletion, SyncCreates, SyncVars, infVars
  <2>11. CASE UserCreates \/ UserDeletes
    BY <2>1, <2>11, Zenon DEF UserCreates, UserDeletes, UserVars
  <2>12. ASSUME NEW s, WatcherPushes(s)
         PROVE  NotesInv'
    BY <2>1, <2>12, Zenon DEF WatcherPushes, infVars
  <2>13. ASSUME NEW who, PushLoads(who)
         PROVE  NotesInv'
    BY <2>1, <2>13, Zenon DEF PushLoads, infVars
  <2>14. CASE SyncGone \/ SyncForceDeletes \/ SyncStarts \/ SyncDeletes \/ SyncCreateFails
    BY <2>1, <2>14, Zenon DEF SyncGone, SyncForceDeletes, SyncStarts, SyncDeletes, SyncCreateFails, SyncVars, infVars
  <2>15. CASE Reporting
    BY <2>1, <2>15, Zenon DEF Reporting, StatusReads, StatusCopies, StatusWrites, StatusWriteFails, StatusVars
  <2>16. ASSUME NEW u, Removing(u)
         PROVE  NotesInv'
    BY <2>1, <2>16, Zenon DEF Removing, DelReads, DelCalls, DelFails, DelVars
  <2>17. CASE UNCHANGED vars
    BY <2>1, <2>17, Zenon DEF vars, infVars
  <2> QED
    BY <2>4, <2>5, <2>6, <2>7, <2>8, <2>9, <2>10, <2>11, <2>12, <2>13, <2>14, <2>15, <2>16, <2>17, Zenon
       DEF Next, Informer, Pushing, Syncing
<1> QED
  BY <1>1, <1>2, StatusTypeOK, PTL DEF Spec

\* UpdatesAreKnown, for any pods and any backlog: UpdateFunc finds an entry for the pod, tombstones and
\* relists included, and its panic is not reached.
THEOREM StatusUpdatesAreKnown == Spec => []UpdatesAreKnown
<1>1. NotesInv => UpdatesAreKnown
  BY Zenon DEF NotesInv, UpdatesAreKnown
<1> QED
  BY <1>1, StatusNotesInv, PTL

-----------------------------------------------------------------------------
\* A "Running" on its way to the API server, for any pods of the name
THEOREM StatusRanInv == Spec => []RanInv
<1>1. Init => RanInv
  BY NoneFacts, Zenon DEF Init, RanInv, Running, Callers
<1>2. TypeInv /\ RanInv /\ [Next]_vars => RanInv'
  <2> SUFFICES ASSUME TypeInv, RanInv, [Next]_vars PROVE RanInv'
    OBVIOUS
  <2>0. /\ TypeOK /\ api \in Pods /\ prov \in Pods /\ known \in Entry /\ sync \in SyncJob /\ status \in StatusJob
        /\ push \in [Callers -> PushCall] /\ (sync.pc # "idle" => sync.pod # NoPod)
    BY TypesAre, Zenon DEF TypeInv
  <2>n. ~Running(NoPod) /\ NoPush.pod = NoPod /\ NoJob.last = NoPod
    BY NoneFacts, Zenon DEF Running
  <2>1. ASSUME ran \subseteq ran',
               Running(api') => api'.uid \in ran' \/ (Running(api) /\ api'.uid = api.uid)
                                \/ (Running(status.last) /\ api'.uid = status.last.uid),
               known'.last = known.last \/ ~Running(known'.last) \/ \E who \in Callers : known'.last = push[who].pod,
               status'.last \in {status.last, NoPod, known.last},
               \A who \in Callers : push'[who].pod = push[who].pod \/ ~Running(push'[who].pod)
                                    \/ push'[who].pod.uid \in ran'
        PROVE  RanInv'
    BY <2>1, <2>n DEF RanInv, Running
  <2>2. ASSUME UNCHANGED <<api, known, status, push, ran>>
        PROVE  RanInv'
    BY <2>2, Zenon DEF RanInv
  <2>3. CASE UserCreates
    <3>1. api'.status = "Pending" /\ UNCHANGED <<known, status, push, ran>>
      BY <2>3, Zenon DEF UserCreates, Write, UserVars
    <3> QED
      BY <2>1, <3>1, Zenon DEF Running
  <2>4. CASE UserDeletes
    <3>1. UNCHANGED <<known, status, push, ran>>
      BY <2>4, Zenon DEF UserDeletes, UserVars
    <3>2. api # NoPod /\ (api' = NoPod \/ api' = [api EXCEPT !.deleting = TRUE])
      BY <2>4, Zenon DEF UserDeletes, Write
    <3>3. api' = NoPod \/ (api'.uid = api.uid /\ api'.status = api.status)
      BY <2>0, <3>2, PodWith, Zenon
    <3> QED
      BY <2>1, <2>n, <3>1, <3>3, Zenon DEF Running
  <2>5. CASE Informer
    <3>1. UNCHANGED <<api, status, push, ran>>
      BY <2>5, Zenon DEF Informer, Deliver, Relist, AddFunc, UpdateFunc, DeleteFunc, HandlerVars
    <3>2. known'.last = known.last \/ known'.last = NoPod
      BY <2>0, <2>5, NoneFacts, Zenon DEF Informer, Deliver, Relist, AddFunc, UpdateFunc, DeleteFunc, Entry
    <3> QED
      BY <2>1, <2>n, <3>1, <3>2, Zenon
  <2>6. ASSUME NEW who \in Callers, NEW pod, Calls(who, pod), UNCHANGED <<api, known, status>>
        PROVE  RanInv'
    <3>1. \A w \in Callers : push'[w] = IF w = who THEN [pc |-> "load", pod |-> pod, gen |-> 0] ELSE push[w]
      BY <2>0, <2>6, Zenon DEF Calls
    <3>2. ran \subseteq ran' /\ (Running(pod) => pod.uid \in ran')
      BY <2>6, Zenon DEF Calls
    <3> QED
      BY <2>1, <2>6, <3>1, <3>2
  <2>7. ASSUME NEW s, WatcherPushes(s)
        PROVE  RanInv'
    BY <2>6, <2>7, Zenon DEF WatcherPushes, Callers
  <2>8. ASSUME NEW who \in Callers, PushLoads(who)
        PROVE  RanInv'
    <3>1. \A w \in Callers : push'[w].pod = push[w].pod \/ push'[w].pod = NoPod
      BY <2>0, <2>8, <2>n DEF PushLoads, PushCall
    <3> QED
      BY <2>1, <2>8, <2>n, <3>1, Zenon DEF PushLoads
  <2>9. ASSUME NEW who \in Callers, PushStores(who)
        PROVE  RanInv'
    <3>1. \A w \in Callers : push'[w].pod = push[w].pod \/ push'[w].pod = NoPod
      BY <2>0, <2>9, <2>n, Zenon DEF PushStores, PushCall
    <3>2. known'.last = known.last \/ known'.last = push[who].pod
      BY <2>0, <2>9, Zenon DEF PushStores, Store, Entry
    <3> QED
      BY <2>1, <2>9, <2>n, <3>1, <3>2, Zenon DEF PushStores
  <2>10. CASE SyncGone \/ SyncForceDeletes \/ SyncStarts
    BY <2>2, <2>10, Zenon DEF SyncGone, SyncForceDeletes, SyncStarts, SyncVars
  <2>11. CASE SyncDeletes
    BY <2>6, <2>11, Zenon DEF SyncDeletes, Callers
  <2>12. CASE SyncEnqueuesDeletion \/ SyncCreates
    <3>1. known'.last = known.last
      BY <2>0, <2>12, Zenon DEF SyncEnqueuesDeletion, SyncCreates, SyncSucceeds, Entry
    <3> QED
      BY <2>1, <2>12, <3>1, Zenon DEF SyncEnqueuesDeletion, SyncCreates, SyncVars
  <2>13. CASE SyncCreateFails
    <3>1. UNCHANGED <<known, status, push, ran>> /\ sync.pod # NoPod
      BY <2>0, <2>13, Zenon DEF SyncCreateFails
    <3>2. UNCHANGED api \/ \E s \in {"Pending", "Ended"} : api.uid = sync.pod.uid /\ api' = [api EXCEPT !.status = s]
      BY <2>13, Zenon DEF SyncCreateFails, Write
    <3>3. UNCHANGED api \/ api'.status \in {"Pending", "Ended"}
      <4>1. sync.pod \in Pods
        BY <2>0, Zenon DEF SyncJob
      <4>2. api.uid = sync.pod.uid => api # NoPod
        BY <2>0, <3>1, <4>1, PodFacts, Zenon
      <4>3. \A s \in Statuses : api # NoPod => [api EXCEPT !.status = s].status = s
        BY <2>0, PodWith, Zenon
      <4>4. {"Pending", "Ended"} \subseteq Statuses
        BY Zenon DEF Statuses
      <4> QED
        BY <3>2, <4>2, <4>3, <4>4, Zenon
    <3> QED
      BY <2>1, <3>1, <3>3, Zenon DEF Running
  <2>14. CASE StatusReads \/ StatusCopies
    <3>1. status'.last \in {status.last, NoPod, known.last}
      BY <2>0, <2>14, NoneFacts, Zenon DEF StatusReads, StatusCopies, StatusJob, NoJob
    <3> QED
      BY <2>1, <2>14, <3>1, Zenon DEF StatusReads, StatusCopies, StatusVars
  <2>15. CASE StatusWrites \/ StatusWriteFails
    <3>1. status'.last = NoPod /\ UNCHANGED <<known, push, ran>>
      BY <2>15, <2>n, Zenon DEF StatusWrites, StatusWriteFails, StatusVars
    <3>2. \/ UNCHANGED api
          \/ /\ api.uid = status.last.uid /\ api.status # status.last.status
             /\ api' = [api EXCEPT !.status = status.last.status]
      BY <2>15, Zenon DEF StatusWrites, StatusWriteFails, Write
    <3>3. UNCHANGED api \/ (api'.uid = status.last.uid /\ api'.status = status.last.status)
      <4>1. CASE UNCHANGED api
        BY <4>1, Zenon
      <4>2. CASE ~UNCHANGED api
        <5>1. api # NoPod /\ status.last.status \in Statuses
          BY <2>0, <3>2, <4>2, StatusWritten, Zenon
        <5>2. /\ [api EXCEPT !.status = status.last.status].uid = api.uid
              /\ [api EXCEPT !.status = status.last.status].status = status.last.status
          BY <2>0, <5>1, PodWith, Zenon
        <5> QED
          BY <3>2, <4>2, <5>2, Zenon
      <4> QED
        BY <4>1, <4>2, Zenon
    <3> QED
      BY <2>1, <3>1, <3>3, Zenon DEF Running
  <2>16. ASSUME NEW u, Removing(u)
         PROVE  RanInv'
    <3>1. UNCHANGED <<known, status, push, ran>> /\ (UNCHANGED api \/ api' = NoPod)
      BY <2>16, Zenon DEF Removing, DelReads, DelCalls, DelFails, DelVars, Write
    <3> QED
      BY <2>1, <2>n, <3>1, Zenon
  <2>17. CASE UNCHANGED vars
    BY <2>2, <2>17, Zenon DEF vars
  <2> QED
    BY <2>3, <2>4, <2>5, <2>7, <2>8, <2>9, <2>10, <2>11, <2>12, <2>13, <2>14, <2>15, <2>16, <2>17, Zenon
       DEF Next, Pushing, Syncing, Reporting
<1> QED
  BY <1>1, <1>2, StatusTypeOK, PTL DEF Spec

\* StatusOfOwnPod, for any pods of the name: however the status queue, the watcher and a successor of
\* the same name meet, the status written for a pod is one its own provider pod had.
THEOREM StatusStatusOfOwnPod == Spec => []StatusOfOwnPod
<1>1. RanInv => StatusOfOwnPod
  BY Zenon DEF RanInv, StatusOfOwnPod
<1> QED
  BY <1>1, StatusRanInv, PTL

-----------------------------------------------------------------------------
\* Deletion marks are never taken back, and what the queues hold is marked, for any pods of the name
THEOREM StatusMarksInv == Spec => []MarksInv
<1>1. Init => MarksInv
  BY NoneFacts DEF Init, MarksInv, Copied
<1>2. TypeInv /\ MarksInv /\ [Next]_vars => MarksInv'
  <2> SUFFICES ASSUME TypeInv, MarksInv, [Next]_vars PROVE MarksInv'
    OBVIOUS
  <2>0. /\ TypeOK /\ api \in Pods /\ lister \in Pods /\ created \in 0 .. Len(Uids) /\ watch \in Seq(Pods)
        /\ sync \in SyncJob /\ sync.pod \in Pods /\ status \in StatusJob /\ (sync.pc # "idle" => sync.pod # NoPod)
    BY TypesAre, Zenon DEF TypeInv, SyncJob
  <2>n. /\ "sync" \notin UidSet /\ "status" \notin UidSet /\ "none" \notin UidSet
        /\ NoJob.pc = "idle" /\ NoJob.pod = NoPod /\ ~NoPod.deleting /\ NoPod.uid = "none"
    BY PodStatusAssumption, NoneFacts, Zenon DEF UidSet
  <2>p. Past \subseteq UidSet
    BY <2>0, PodStatusAssumption DEF Past, UidSet
  <2> DEFINE Kept(u) == u \in Past' /\ (api'.uid = u => api'.deleting)
             Copy(pod) == pod = NoPod \/ (pod.uid \in Past' /\ (pod.deleting => Kept(pod.uid)))
             Held(u) == u \in del \/ u \in dirty
  <2>g. ASSUME Copy(api'), Copy(lister'), Copy(sync'.pod), \A i \in 1 .. Len(watch') : Copy(watch'[i]),
               sync'.pc \in {"delete", "enqueue"} => sync'.pod.deleting,
               \A u \in UidSet : u \in del' \/ u \in dirty' => Kept(u)
        PROVE  MarksInv'
    BY <2>g, Zenon DEF MarksInv, Copied, Marked
  <2>m. /\ \A u \in UidSet : Held(u) => Marked(u)
        /\ Copied(api) /\ Copied(lister) /\ Copied(sync.pod)
        /\ \A i \in 1 .. Len(watch) : Copied(watch[i])
        /\ sync.pc \in {"delete", "enqueue"} => sync.pod.deleting /\ Marked(sync.pod.uid)
        /\ lister.deleting => Marked(lister.uid)
    BY <2>0, <2>n, Zenon DEF MarksInv, Copied
  \* Steps that leave the API server alone
  <2>1. ASSUME UNCHANGED <<api, created>>,
               Copied(lister'), Copied(sync'.pod), \A i \in 1 .. Len(watch') : Copied(watch'[i]),
               sync'.pc \in {"delete", "enqueue"} => sync'.pod.deleting,
               \A u \in UidSet : u \in del' \/ u \in dirty' => Held(u) \/ Marked(u)
        PROVE  MarksInv'
    <3>1. Past' = Past
      BY <2>1, Zenon DEF Past
    <3>2. \A u : Marked(u) <=> Kept(u)
      BY <2>1, <3>1, Zenon DEF Marked
    <3>3. \A pod : Copied(pod) <=> Copy(pod)
      BY <3>1, <3>2, Zenon DEF Copied
    <3> HIDE DEF Kept, Copy, Held
    <3>4. Copy(api') /\ Copy(lister') /\ Copy(sync'.pod) /\ \A i \in 1 .. Len(watch') : Copy(watch'[i])
      BY <2>1, <2>m, <3>3, Zenon
    <3>5. \A u \in UidSet : u \in del' \/ u \in dirty' => Kept(u)
      BY <2>1, <2>m, <3>2, Zenon
    <3> QED
      BY <2>1, <2>g, <3>4, <3>5, Zenon
  \* Steps that write a pod to the API server
  <2>2. ASSUME Past \subseteq Past',
               \/ api' = NoPod
               \/ api'.uid = api.uid /\ api # NoPod /\ (api.deleting => api'.deleting)
               \/ api'.uid \in Past' \ Past /\ ~api'.deleting,
               watch' = watch \/ watch' = Append(watch, api'),
               UNCHANGED lister, sync' = sync \/ sync' = NoJob,
               \A u \in UidSet : u \in del' \/ u \in dirty' => Held(u)
        PROVE  MarksInv'
    <3>1. \A u : Marked(u) => Kept(u)
      BY <2>2, <2>n, <2>p, Zenon DEF Marked
    <3>2. \A pod : Copied(pod) => Copy(pod)
      BY <2>2, <3>1, Zenon DEF Copied
    <3>3. Copy(api')
      BY <2>2, <2>m, <2>n, Zenon DEF Copied
    <3> HIDE DEF Kept, Copy, Held
    <3>4. Copy(lister') /\ Copy(sync'.pod)
      BY <2>2, <2>m, <2>n, <3>2, NoneFacts, Zenon DEF Copied
    <3>5. \A i \in 1 .. Len(watch') : Copy(watch'[i])
      <4>1. \A i \in 1 .. Len(watch) : Copy(watch[i])
        BY <2>m, <3>2, Zenon
      <4>2. CASE watch' = Append(watch, api')
        <5>1. /\ Len(watch') = Len(watch) + 1 /\ watch'[Len(watch) + 1] = api'
              /\ \A i \in 1 .. Len(watch) : watch'[i] = watch[i]
          BY <2>0, <4>2
        <5>2. \A i \in 1 .. Len(watch') : i \in 1 .. Len(watch) \/ i = Len(watch) + 1
          BY <2>0, <5>1
        <5> QED
          BY <3>3, <4>1, <5>1, <5>2, Zenon
      <4> QED
        BY <2>2, <4>1, <4>2, Zenon
    <3>6. sync'.pc \in {"delete", "enqueue"} => sync'.pod.deleting
      BY <2>2, <2>m, <2>n, Zenon
    <3>7. \A u \in UidSet : u \in del' \/ u \in dirty' => Kept(u)
      BY <2>2, <2>m, <3>1, Zenon
    <3> QED
      BY <2>g, <3>3, <3>4, <3>5, <3>6, <3>7, Zenon
  <2> HIDE DEF Kept, Copy
  <2>3. CASE UserCreates
    <3>1. /\ created + 1 \in 1 .. Len(Uids) /\ created' = created + 1
          /\ api' = [uid |-> Uids[created + 1], status |-> "Pending", deleting |-> FALSE]
          /\ watch' = Append(watch, api') /\ UNCHANGED <<lister, sync, del, dirty>>
      BY <2>0, <2>3, PodStatusAssumption DEF UserCreates, Write, UserVars
    <3>2. api'.uid = Uids[created + 1] /\ api'.deleting = FALSE
      BY <3>1, Zenon
    <3>3. Past \subseteq Past' /\ Uids[created + 1] \in Past'
      BY <2>0, <3>1 DEF Past
    <3>4. Uids[created + 1] \notin Past
      BY <2>0, <3>1, PodStatusAssumption DEF Past
    <3> QED
      BY <2>2, <3>1, <3>2, <3>3, <3>4, Zenon
  <2>4. ASSUME UNCHANGED created PROVE Past' = Past
    BY <2>4, Zenon DEF Past
  <2>5. CASE UserDeletes
    <3>1. /\ UNCHANGED <<created, lister, sync, del, dirty>>
          /\ api # NoPod /\ (api' = NoPod \/ api' = [api EXCEPT !.deleting = TRUE]) /\ watch' = Append(watch, api')
      BY <2>5, Zenon DEF UserDeletes, UserVars, Write
    <3>2. api' = NoPod \/ (api'.uid = api.uid /\ api'.deleting)
      BY <2>0, <3>1, PodWith, Zenon
    <3> QED
      BY <2>2, <2>4, <3>1, <3>2, Zenon
  <2>6. CASE Deliver
    <3>1. /\ UNCHANGED <<api, created, sync, del, dirty>>
          /\ watch # <<>> /\ lister' = Head(watch) /\ watch' = Tail(watch)
      BY <2>6, Zenon DEF Deliver, Note
    <3>2. /\ lister' = watch[1] /\ 1 \in 1 .. Len(watch)
          /\ \A i \in 1 .. Len(watch') : i + 1 \in 1 .. Len(watch) /\ watch'[i] = watch[i + 1]
      BY <2>0, <3>1
    <3>3. Copied(lister') /\ \A i \in 1 .. Len(watch') : Copied(watch'[i])
      BY <2>m, <3>2, Zenon
    <3> QED
      BY <2>1, <2>m, <3>1, <3>3, Zenon
  <2>7. CASE Relist
    <3>1. /\ UNCHANGED <<api, created, sync, del, dirty>>
          /\ Len(watch) > 1 /\ lister' = watch[Len(watch)] /\ watch' = <<>>
      BY <2>7, Zenon DEF Relist, Note
    <3>2. lister' = watch[Len(watch)] /\ Len(watch) \in 1 .. Len(watch) /\ Len(watch') = 0
      BY <2>0, <3>1
    <3>3. Copied(lister') /\ \A i \in 1 .. Len(watch') : Copied(watch'[i])
      BY <2>m, <3>2
    <3> QED
      BY <2>1, <2>m, <3>1, <3>3, Zenon
  \* Steps that change no copy of a pod
  <2>8. ASSUME UNCHANGED <<api, created, watch, lister>>, sync' = sync \/ sync' = NoJob,
               \A u \in UidSet : u \in del' \/ u \in dirty' => Held(u) \/ Marked(u)
        PROVE  MarksInv'
    <3>1. Copied(NoPod)
      BY Zenon DEF Copied
    <3> QED
      BY <2>1, <2>8, <2>m, <2>n, <3>1, Zenon
  <2>9. CASE AddFunc \/ UpdateFunc \/ DeleteFunc
    <3>1. UNCHANGED HandlerVars
      BY <2>9, Zenon DEF AddFunc, UpdateFunc, DeleteFunc
    <3>2. dirty' \subseteq dirty \cup {"sync", "status"}
      BY <2>9, Zenon DEF AddFunc, UpdateFunc, DeleteFunc
    <3> QED
      BY <2>8, <2>n, <3>1, <3>2, Zenon DEF HandlerVars
  <2>10. ASSUME NEW s, WatcherPushes(s)
         PROVE  MarksInv'
    BY <2>8, <2>10, Zenon DEF WatcherPushes, infVars
  <2>11. ASSUME NEW who, PushLoads(who)
         PROVE  MarksInv'
    BY <2>8, <2>11, Zenon DEF PushLoads, infVars
  <2>12. ASSUME NEW who, PushStores(who)
         PROVE  MarksInv'
    <3>1. dirty' \subseteq dirty \cup {"status"}
      BY <2>12, Zenon DEF PushStores, Store
    <3> QED
      BY <2>8, <2>12, <2>n, <3>1, Zenon DEF PushStores, infVars
  <2>13. CASE SyncGone
    BY <2>8, <2>13, Zenon DEF SyncGone, SyncVars, infVars
  <2>14. CASE SyncForceDeletes
    <3>1. dirty' \subseteq dirty \cup {lister.uid} /\ lister.deleting
      BY <2>14, Zenon DEF SyncForceDeletes
    <3> QED
      BY <2>8, <2>14, <2>m, <3>1, Zenon DEF SyncForceDeletes, SyncVars, infVars
  <2>15. CASE SyncStarts
    <3> DEFINE pc == IF lister.deleting THEN "delete" ELSE "create"
               new == [NoJob EXCEPT !.pc = pc, !.pod = lister, !.gen = known.gen]
    <3>1. UNCHANGED <<api, created, watch, lister, del>> /\ dirty' \subseteq dirty
      BY <2>15, Zenon DEF SyncStarts, SyncVars, infVars
    <3>2. sync' = NoJob \/ sync' = new
      BY <2>15, Zenon DEF SyncStarts
    <3>3. new.pod = lister /\ new.pc = pc
      BY Zenon DEF NoJob
    <3>4. pc \in {"delete", "enqueue"} => lister.deleting
      OBVIOUS
    <3> HIDE DEF new, pc
    <3>5. Copied(NoPod)
      BY Zenon DEF Copied
    <3>6. Copied(sync'.pod) /\ (sync'.pc \in {"delete", "enqueue"} => sync'.pod.deleting)
      BY <2>m, <2>n, <3>2, <3>3, <3>4, <3>5, Zenon
    <3> QED
      BY <2>1, <2>m, <3>1, <3>6, Zenon
  <2>16. CASE SyncDeletes
    <3>1. /\ UNCHANGED <<api, created, watch, lister, del, dirty>> /\ sync.pc = "delete"
          /\ sync' = [sync EXCEPT !.pc = "enqueue"]
      BY <2>16, Zenon DEF SyncDeletes, infVars
    <3>2. sync'.pod = sync.pod
      BY <2>0, <3>1, Zenon DEF SyncJob
    <3> QED
      BY <2>1, <2>m, <3>1, <3>2, Zenon
  <2>17. CASE SyncEnqueuesDeletion
    <3>1. /\ UNCHANGED <<api, created, watch, lister, del>> /\ sync.pc = "enqueue"
          /\ sync' = NoJob /\ dirty' = dirty \cup {sync.pod.uid}
      BY <2>17, Zenon DEF SyncEnqueuesDeletion, SyncSucceeds, SyncVars, infVars
    <3> QED
      BY <2>8, <2>m, <3>1, Zenon
  <2>18. CASE SyncCreates
    BY <2>8, <2>18, Zenon DEF SyncCreates, SyncSucceeds, SyncVars, infVars
  <2>19. ASSUME UNCHANGED <<created, lister, del>>, dirty' \subseteq dirty \cup {"sync", "status"},
                sync' = sync \/ sync' = NoJob,
                \/ UNCHANGED <<api, watch>>
                \/ \E s \in Statuses : api # NoPod /\ Write([api EXCEPT !.status = s])
         PROVE  MarksInv'
    <3>1. \A u \in UidSet : u \in del' \/ u \in dirty' => Held(u)
      BY <2>19, <2>n, Zenon
    <3>2. CASE UNCHANGED <<api, watch>>
      BY <2>8, <2>19, <3>1, <3>2, Zenon
    <3>3. ASSUME NEW s \in Statuses, api # NoPod, Write([api EXCEPT !.status = s])
          PROVE  MarksInv'
      <4>1. api' = [api EXCEPT !.status = s] /\ watch' = Append(watch, api')
        BY <3>3, Zenon DEF Write
      <4>2. api'.uid = api.uid /\ api'.deleting = api.deleting
        BY <2>0, <3>3, <4>1, PodWith, Zenon
      <4> QED
        BY <2>2, <2>4, <2>19, <3>1, <3>3, <4>1, <4>2, Zenon
    <3> QED
      BY <2>19, <3>2, <3>3, Zenon
  <2>20. CASE SyncCreateFails
    <3>1. /\ UNCHANGED <<created, lister, del>> /\ dirty' = dirty \cup {"sync"} /\ sync' = NoJob
          /\ sync.pod # NoPod
      BY <2>0, <2>20, Zenon DEF SyncCreateFails
    <3>2. \/ UNCHANGED <<api, watch>>
          \/ \E s \in {"Pending", "Ended"} : api.uid = sync.pod.uid /\ Write([api EXCEPT !.status = s])
      BY <2>20, Zenon DEF SyncCreateFails
    <3>3. api.uid = sync.pod.uid => api # NoPod
      BY <2>0, <3>1, PodFacts, Zenon
    <3>4. {"Pending", "Ended"} \subseteq Statuses
      BY Zenon DEF Statuses
    <3> QED
      BY <2>19, <3>1, <3>2, <3>3, <3>4, Zenon
  <2>21. CASE StatusReads \/ StatusCopies
    BY <2>8, <2>21, Zenon DEF StatusReads, StatusCopies, StatusVars
  <2>22. CASE StatusWrites \/ StatusWriteFails
    <3>1. UNCHANGED <<created, lister, del, sync>> /\ dirty' \subseteq dirty \cup {"status"}
      BY <2>22, Zenon DEF StatusWrites, StatusWriteFails, StatusVars
    <3>2. \/ UNCHANGED <<api, watch>>
          \/ /\ api.uid = status.last.uid /\ api.status # status.last.status
             /\ Write([api EXCEPT !.status = status.last.status])
      BY <2>22, Zenon DEF StatusWrites, StatusWriteFails
    <3>3. api.uid = status.last.uid /\ api.status # status.last.status => api # NoPod /\ status.last.status \in Statuses
      BY <2>0, StatusWritten, Zenon
    <3> QED
      BY <2>19, <3>1, <3>2, <3>3, Zenon
  <2>23. ASSUME NEW u, DelReads(u) \/ DelFails(u)
         PROVE  MarksInv'
    BY <2>8, <2>23 DEF DelReads, DelFails, DelVars
  <2>24. ASSUME NEW u, DelCalls(u)
         PROVE  MarksInv'
    <3>1. /\ UNCHANGED <<created, lister, sync, dirty>> /\ del' \subseteq del
          /\ (UNCHANGED <<api, watch>> \/ (api' = NoPod /\ watch' = Append(watch, api')))
      BY <2>24, Zenon DEF DelCalls, DelVars, Write
    <3>2. CASE UNCHANGED <<api, watch>>
      BY <2>8, <3>1, <3>2, Zenon
    <3>3. CASE api' = NoPod /\ watch' = Append(watch, api')
      BY <2>2, <2>4, <3>1, <3>3, Zenon
    <3> QED
      BY <3>1, <3>2, <3>3, Zenon
  <2>25. CASE UNCHANGED vars
    BY <2>8, <2>25, Zenon DEF vars, infVars
  <2> QED
    BY Zenon, <2>3, <2>5, <2>6, <2>7, <2>9, <2>10, <2>11, <2>12, <2>13, <2>14, <2>15, <2>16, <2>17, <2>18, <2>20,
       <2>21, <2>22, <2>23, <2>24, <2>25, Zenon
       DEF Next, Informer, Pushing, Syncing, Reporting, Removing
<1> QED
  BY <1>1, <1>2, StatusTypeOK, PTL DEF Spec

\* OnlyDeletedForced, for any pods of the name: the deletion queue's uid as a precondition and the marks
\* of the pods it was given keep a forced deletion from a pod nobody deleted.
THEOREM StatusOnlyDeletedForced == Spec => OnlyDeletedForced
<1> DEFINE Forced == \A u \in UidSet : u \in del /\ u \notin del' /\ api # NoPod /\ api' = NoPod => api.deleting
<1>1. MarksInv /\ [Next]_vars => [Forced]_vars
  <2> SUFFICES ASSUME MarksInv, Next, NEW u \in UidSet, u \in del, u \notin del', api # NoPod, api' = NoPod
               PROVE  api.deleting
    BY Zenon
  <2>1. Marked(u)
    BY Zenon DEF MarksInv
  <2>2. \E v \in UidSet : Removing(v)
    <3>1. UserCreates \/ UserDeletes \/ Informer => del' = del
      BY Zenon DEF UserCreates, UserDeletes, UserVars, Informer, Deliver, Relist, AddFunc, UpdateFunc, DeleteFunc, HandlerVars
    <3>2. Pushing \/ (\E s \in Statuses : WatcherPushes(s)) \/ Reporting => del' = del
      BY Zenon DEF Pushing, PushLoads, PushStores, WatcherPushes, Reporting, StatusReads, StatusCopies, StatusWrites,
             StatusWriteFails, StatusVars
    <3>3. Syncing => del' = del
      BY Zenon DEF Syncing, SyncGone, SyncForceDeletes, SyncStarts, SyncDeletes, SyncEnqueuesDeletion, SyncCreates,
             SyncCreateFails, SyncVars
    <3> QED
      BY <3>1, <3>2, <3>3, Zenon DEF Next
  <2>3. api.uid = u
    BY <2>2, Zenon DEF Removing, DelReads, DelCalls, DelFails
  <2> QED
    BY <2>1, <2>3, Zenon DEF Marked
<1> QED
  BY <1>1, StatusMarksInv, PTL DEF Spec, OnlyDeletedForced
=============================================================================
