----------------------------- MODULE WorkQueue -----------------------------
(***************************************************************************)
(* The retrying work queue of internal/queue/queue.go.  The PodController  *)
(* runs three of them: pods to sync from Kubernetes, pods to delete from   *)
(* Kubernetes, pod statuses to sync from the provider.                     *)
(*                                                                         *)
(* A key is enqueued with a planned start time.  Workers take turns (a     *)
(* one-slot semaphore) at waiting for the front of a list that is kept     *)
(* sorted by planned time; the one whose turn it is parks on a timer or on *)
(* a one-slot wake-up channel.  Every critical section of q.lock is one    *)
(* action; the handler runs between Take and Finish, without the lock.     *)
(*                                                                         *)
(* Abstracted: the rate limiter is any choice from LimiterDelays (the      *)
(* limiter wired in main.go is the maximum of a token bucket and an        *)
(* exponential per-key limiter, so its delay is positive and depends on    *)
(* traffic the queue does not see); tracing and debugging fields.          *)
(***************************************************************************)
EXTENDS Integers, Sequences

CONSTANTS Keys,           \* "namespace/name" keys (or key/uid, in the delete queue)
          Workers,        \* the goroutines Run starts
          CallerDelays,   \* delays callers pass to EnqueueWithoutRateLimitWithDelay
          LimiterDelays,  \* delays of the rate limiter and of the retry function
          MaxTries,       \* tries before retryFunc gives up (20 by default, 60 for pod syncs)
          NoKey, NoWorker, NoItem,
          MaxEnqueues,    \* bound: calls made by the queue's users
          MaxTime         \* bound: the clock moves past it only for a planned item

VARIABLES now,                  \* q.clock
          items,                \* q.items, the list
          itemsInQueue,         \* the keys of q.itemsInQueue
          itemsBeingProcessed,  \* q.itemsBeingProcessed: key -> item or NoItem
          busy,                 \* the key a worker's handler runs on
          waiter,               \* the worker that holds waitForNextItemSemaphore
          parked,               \* how the waiter blocks: "no", "empty", "timer"
          timer,                \* the time the waiter's timer fires
          wakeup,               \* whether wakeupCh holds its token
          cancelled,            \* the context given to Run is done
          exited,               \* workers that returned
          enqueues              \* calls made so far, for MaxEnqueues

queueVars == <<items, itemsInQueue, itemsBeingProcessed, wakeup>>
waitVars  == <<waiter, parked, timer>>
vars == <<now, queueVars, busy, waitVars, cancelled, exited, enqueues>>

\* queueItem.  redirtiedAt = 0 is the zero time.Time; the clock starts at 1.
Item == [key : Keys, at : Nat, requeues : Nat, redirtiedAt : Nat, forget : BOOLEAN]

ASSUME QueueAssumption ==
    /\ CallerDelays \subseteq Nat /\ LimiterDelays \subseteq Nat \ {0}
    /\ MaxTries \in Nat \ {0}
    /\ NoKey \notin Keys /\ NoWorker \notin Workers /\ NoItem \notin Item
    /\ MaxEnqueues \in Nat /\ MaxTime \in Nat

----------------------------------------------------------------------------
NewItem(k, t) == [key |-> k, at |-> t, requeues |-> 0, redirtiedAt |-> 0, forget |-> FALSE]

\* container/list: InsertAfter (PushFront when i = 0) and Remove.
InsertAfter(s, i, item) == SubSeq(s, 1, i) \o <<item>> \o SubSeq(s, i+1, Len(s))
Remove(s, i) == SubSeq(s, 1, i-1) \o SubSeq(s, i+1, Len(s))

\* Walking back from position p: the first item that starts before t, 0 if none.
LastBefore(s, p, t) ==
    CHOOSE i \in 0..p : /\ i > 0 => s[i].at < t
                        /\ \A j \in (i+1)..p : ~(s[j].at < t)

PositionOf(s, k) == CHOOSE i \in DOMAIN s : s[i].key = k

\* The tail of insert: a new element goes after the last one that starts before it.
Place(s, item) == InsertAfter(s, LastBefore(s, Len(s), item.at), item)

\* adjustPosition: only ever earlier, and only past items that do not start before it.
AdjustPosition(s, k, when) ==
    LET p == PositionOf(s, k)
    IN  IF when > s[p].at
          THEN s
          ELSE InsertAfter(Remove(s, p), LastBefore(s, p - 1, when), [s[p] EXCEPT !.at = when])

\* insert on an item its worker is still handling: remember the earliest request.
Redirty(item, when) ==
    [item EXCEPT !.redirtiedAt = IF @ = 0 \/ when < @ THEN when ELSE @,
                 !.forget = FALSE]

\* Mutant of Insert: no wake-up is sent.
InsertSilently(k, when, planned) ==
    /\ IF itemsBeingProcessed[k] # NoItem
         THEN /\ itemsBeingProcessed' = [itemsBeingProcessed EXCEPT ![k] = Redirty(@, when)]
              /\ UNCHANGED <<items, itemsInQueue>>
         ELSE /\ IF k \in itemsInQueue
                   THEN items' = AdjustPosition(items, k, when)
                   ELSE items' = Place(items, NewItem(k, planned))
              /\ itemsInQueue' = itemsInQueue \cup {k}
              /\ UNCHANGED itemsBeingProcessed
    /\ UNCHANGED wakeup

\* insert: `when' applies to a key the queue knows, `planned' to a new item.
Insert(k, when, planned) ==
    /\ IF itemsBeingProcessed[k] # NoItem
         THEN /\ itemsBeingProcessed' = [itemsBeingProcessed EXCEPT ![k] = Redirty(@, when)]
              /\ UNCHANGED <<items, itemsInQueue>>
         ELSE /\ IF k \in itemsInQueue
                   THEN items' = AdjustPosition(items, k, when)
                   ELSE items' = Place(items, NewItem(k, planned))
              /\ itemsInQueue' = itemsInQueue \cup {k}
              /\ UNCHANGED itemsBeingProcessed
    /\ wakeup' = TRUE

CallMade ==
    /\ enqueues < MaxEnqueues
    /\ enqueues' = enqueues + 1
    /\ UNCHANGED <<now, busy, waitVars, cancelled, exited>>

Enqueue(k) == CallMade /\ \E d \in LimiterDelays : Insert(k, now, now + d)

EnqueueWithoutRateLimit(k) == CallMade /\ Insert(k, now, now)

EnqueueWithoutRateLimitWithDelay(k) ==
    CallMade /\ \E d \in CallerDelays : Insert(k, now + d, now + d)

Forget(k) ==
    /\ CallMade
    /\ \/ /\ k \in itemsInQueue
          /\ items' = Remove(items, PositionOf(items, k))
          /\ itemsInQueue' = itemsInQueue \ {k}
          /\ UNCHANGED itemsBeingProcessed
       \/ /\ k \notin itemsInQueue /\ itemsBeingProcessed[k] # NoItem
          /\ itemsBeingProcessed' = [itemsBeingProcessed EXCEPT ![k].forget = TRUE]
          /\ UNCHANGED <<items, itemsInQueue>>
    /\ UNCHANGED wakeup

----------------------------------------------------------------------------
Idle(w) == w \notin exited /\ busy[w] = NoKey

AcquireSemaphore(w) ==
    /\ Idle(w) /\ waiter = NoWorker
    /\ waiter' = w
    /\ UNCHANGED <<now, queueVars, busy, parked, timer, cancelled, exited, enqueues>>

\* getNextItem finds nothing to do yet and blocks.
Park(w) ==
    /\ waiter = w /\ parked = "no"
    /\ \/ items = <<>> /\ parked' = "empty" /\ timer' = timer
       \/ items # <<>> /\ items[1].at > now /\ parked' = "timer" /\ timer' = items[1].at
    /\ UNCHANGED <<now, queueVars, busy, waiter, cancelled, exited, enqueues>>

WakeUp(w) ==
    /\ waiter = w /\ parked # "no" /\ wakeup
    /\ wakeup' = FALSE /\ parked' = "no"
    /\ UNCHANGED <<now, items, itemsInQueue, itemsBeingProcessed, busy, waiter, timer,
                   cancelled, exited, enqueues>>

TimerFires(w) ==
    /\ waiter = w /\ parked = "timer" /\ timer <= now
    /\ parked' = "no"
    /\ UNCHANGED <<now, queueVars, busy, waiter, timer, cancelled, exited, enqueues>>

\* getNextItem returns the front item, which is due.
Take(w) ==
    /\ waiter = w /\ parked = "no"
    /\ items # <<>> /\ items[1].at <= now
    /\ LET item == items[1]
       IN  /\ itemsBeingProcessed' = [itemsBeingProcessed EXCEPT ![item.key] = item]
           /\ itemsInQueue' = itemsInQueue \ {item.key}
           /\ busy' = [busy EXCEPT ![w] = item.key]
    /\ items' = Tail(items)
    /\ waiter' = NoWorker
    /\ UNCHANGED <<now, wakeup, parked, timer, cancelled, exited, enqueues>>

\* Mutant of Exit: the selects of getNextItem do not watch the context.
ExitBeforeWaiting(w) ==
    /\ cancelled /\ Idle(w) /\ waiter # w
    /\ exited' = exited \cup {w}
    /\ UNCHANGED <<now, queueVars, busy, waitVars, cancelled, enqueues>>

\* Acquire, or either select of getNextItem, sees the context done.
Exit(w) ==
    /\ cancelled /\ Idle(w)
    /\ waiter = w => parked # "no"
    /\ exited' = exited \cup {w}
    /\ waiter' = IF waiter = w THEN NoWorker ELSE waiter
    /\ parked' = IF waiter = w THEN "no" ELSE parked
    /\ UNCHANGED <<now, queueVars, busy, timer, cancelled, enqueues>>

----------------------------------------------------------------------------

\* retryFunc for an item that failed: another try, unless the error is permanent.
Retries(item, outcome) == outcome = "transient" /\ item.requeues + 1 < MaxTries

\* Mutant of Requeued: a re-dirtied item is not put back.
RequeuedRetryOnly(item, outcome, d) ==
    IF ~item.forget /\ Retries(item, outcome)
    THEN [NewItem(item.key, now + d) EXCEPT !.requeues = item.requeues + 1]
    ELSE NoItem

\* The element handleQueueItemObject puts back, NoItem if it puts none: the retry
\* first, and only without one the time it was re-dirtied for.
Requeued(item, outcome, d) ==
    IF item.forget THEN NoItem
    ELSE IF Retries(item, outcome)
      THEN [NewItem(item.key, now + d) EXCEPT !.requeues = item.requeues + 1]
    ELSE IF item.redirtiedAt # 0 THEN NewItem(item.key, item.redirtiedAt)
    ELSE NoItem

\* handleQueueItemObject after the handler returns.
Finish(w) ==
    /\ busy[w] # NoKey
    /\ \E outcome \in {"ok", "transient", "permanent"}, d \in LimiterDelays :
         LET k    == busy[w]
             back == Requeued(itemsBeingProcessed[k], outcome, d)
         IN  /\ itemsBeingProcessed' = [itemsBeingProcessed EXCEPT ![k] = NoItem]
             /\ IF back = NoItem
                  THEN UNCHANGED <<items, itemsInQueue, wakeup>>
                  ELSE /\ items' = Place(items, back)
                       /\ itemsInQueue' = itemsInQueue \cup {k}
                       /\ wakeup' = TRUE
    /\ busy' = [busy EXCEPT ![w] = NoKey]
    /\ UNCHANGED <<now, waitVars, cancelled, exited, enqueues>>

Cancel ==
    /\ ~cancelled /\ cancelled' = TRUE
    /\ UNCHANGED <<now, queueVars, busy, waitVars, exited, enqueues>>

Tick ==
    /\ now < MaxTime \/ \E i \in DOMAIN items : items[i].at > now
    /\ now' = now + 1
    /\ UNCHANGED <<queueVars, busy, waitVars, cancelled, exited, enqueues>>

----------------------------------------------------------------------------
Init ==
    /\ now = 1
    /\ items = <<>> /\ itemsInQueue = {}
    /\ itemsBeingProcessed = [k \in Keys |-> NoItem]
    /\ busy = [w \in Workers |-> NoKey]
    /\ waiter = NoWorker /\ parked = "no" /\ timer = 0
    /\ wakeup = FALSE /\ cancelled = FALSE /\ exited = {} /\ enqueues = 0

Caller(k) == \/ Enqueue(k) \/ EnqueueWithoutRateLimit(k)
             \/ EnqueueWithoutRateLimitWithDelay(k) \/ Forget(k)

WorkerStep(w) == \/ AcquireSemaphore(w) \/ Park(w) \/ WakeUp(w) \/ TimerFires(w)
                 \/ Take(w) \/ Finish(w) \/ Exit(w)

Next == \/ \E k \in Keys : Caller(k)
        \/ \E w \in Workers : WorkerStep(w)
        \/ Cancel \/ Tick

Spec == Init /\ [][Next]_vars

\* Goroutines run, handlers return and time passes; callers may stop calling.
FairSpec == Spec /\ WF_vars(Tick) /\ \A w \in Workers : WF_vars(WorkerStep(w))

----------------------------------------------------------------------------
(* Properties *)

\* Types: requeue counts and times stay natural numbers, and a worker is parked
\* in a way the two selects of getNextItem know.
TypeOK ==
    /\ now \in Nat /\ timer \in Nat /\ enqueues \in Nat
    /\ items \in Seq(Item) /\ itemsInQueue \in SUBSET Keys
    /\ itemsBeingProcessed \in [Keys -> Item \cup {NoItem}]
    /\ busy \in [Workers -> Keys \cup {NoKey}]
    /\ waiter \in Workers \cup {NoWorker}
    /\ parked \in {"no", "empty", "timer"}
    /\ wakeup \in BOOLEAN /\ cancelled \in BOOLEAN
    /\ exited \in SUBSET Workers

\* The list and its index agree: Len and UnprocessedLen never panic with
\* "Internally inconsistent state", and no key is in the list twice.
IndexAgrees ==
    /\ itemsInQueue = {items[i].key : i \in DOMAIN items}
    /\ \A i, j \in DOMAIN items : items[i].key = items[j].key => i = j

\* A key is in the list, or being processed by exactly one worker, or neither: two
\* handlers never run on one key at once, and the re-insertion at the end of
\* handleQueueItemObject never meets an item of the same key.
OneWorkerPerKey ==
    /\ \A v, w \in Workers : busy[v] = busy[w] /\ busy[v] # NoKey => v = w
    /\ \A k \in Keys : itemsBeingProcessed[k] # NoItem <=> \E w \in Workers : busy[w] = k
    /\ \A k \in itemsInQueue : itemsBeingProcessed[k] = NoItem

\* getNextItem looks at the front only, so the list must stay sorted by planned
\* start through every insert, adjustPosition and removal.
SortedByStart == \A i, j \in DOMAIN items : i < j => items[i].at <= items[j].at

\* No lost wake-up: a parked waiter with no token in wakeupCh is not missing work.
\* On the empty list there is none, and its timer fires by the time the front is due.
NoLostWakeup ==
    waiter # NoWorker /\ ~wakeup =>
        /\ parked = "empty" => items = <<>>
        /\ parked = "timer" /\ items # <<>> => timer <= items[1].at

\* An item is never put back after MaxTries tries, so a chain of failures ends; and
\* it is put back clean: a Forget or a re-dirtying of one run never leaks into the next.
CleanItems ==
    \A i \in DOMAIN items :
        items[i].requeues < MaxTries /\ items[i].redirtiedAt = 0 /\ ~items[i].forget

\* The keys that still need a run: listed, or re-dirtied and not forgotten since.
DirtyKeys == itemsInQueue \cup
    {k \in Keys : /\ itemsBeingProcessed[k] # NoItem
                  /\ itemsBeingProcessed[k].redirtiedAt # 0
                  /\ ~itemsBeingProcessed[k].forget}

RunningKeys == {k \in Keys : itemsBeingProcessed[k] # NoItem}

Abstract == INSTANCE DirtySet WITH dirty <- DirtyKeys, running <- RunningKeys

\* The queue implements the dirty set: an Enqueue is never lost, whether it meets an
\* idle key, a queued one or one being handled, and whatever the handler returns.
ImplementsDirtySet == Abstract!DSpec

\* Every key that needs a run gets one (or is forgotten) while the queue is running.
DirtyKeysRun == \A k \in Keys : k \in DirtyKeys ~> (k \notin DirtyKeys \/ cancelled)

\* Run returns after its context is done: every worker leaves getNextItem.
RunReturns == cancelled ~> exited = Workers

============================================================================
