------------------------------- MODULE Gambit -------------------------------
(***************************************************************************)
(* node/lifecycle.go and node/gambit.go: CreatePod and its background saga,*)
(* DeletePod, the restart of a crashed container and the status pushes of  *)
(* the batch watcher that write the pod's state file.                      *)
(*                                                                         *)
(* A pod has one container.  `machines' holds the pods with a systemd unit *)
(* on the host (running, or exited and not reset), `files' the state file  *)
(* of each pod: "live" and "terminal" are what hydration tells apart.      *)
(* Networking, images and volumes fail or succeed with the launch.         *)
(***************************************************************************)
EXTENDS PodStore

CONSTANTS CreateConcurrency, \* createSem's capacity
          NeverRestart,      \* the pods with restartPolicy Never
          Callers            \* the goroutines that call into the provider

VARIABLES
    saga,       \* uid -> where its creation goroutine is ("none": no goroutine)
    cancelled,  \* uids whose creationHandle has been cancelled
    calls,      \* caller -> [pc, uid] of its CreatePod or DeletePod
    restarting, \* BatchWatcher.restarting: uids with a restart goroutine
    push,       \* the watcher's status push under way: [uid, pc]
    machines, files

gambitVars == <<saga, cancelled, calls, restarting, push>>
hostVars   == <<machines, files>>

Idle   == [pc |-> "idle", uid |-> NoUid]
NoPush == [pc |-> "none", uid |-> NoUid]
At(c, pc, u) == calls[c] = [pc |-> pc, uid |-> u]
Go(c, pc, u) == calls' = [calls EXCEPT ![c] = [pc |-> pc, uid |-> u]]

(***************************** CreatePod's saga ****************************)

HoldsSlot == {u \in Uids : saga[u] \in {"launch", "promote", "backoff"}}

\* CreatePod past admission: skipped for a pod in flight or running,
\* otherwise registered and its saga started.
CreateOrSkip(u) ==
    IF IsInFlight(u) THEN UNCHANGED <<storeVars, saga>>
    ELSE IF HasPod(u) THEN AlreadyRunning(u) /\ UNCHANGED saga
    ELSE RegisterPending(u) /\ saga' = [saga EXCEPT ![u] = "sem"]

\* close(handle.done): every DeletePod waiting for this saga goes on.
SagaEnd(u) ==
    /\ saga' = [saga EXCEPT ![u] = "none"]
    /\ cancelled' = cancelled \ {u}
    /\ calls' = [c \in Callers |-> IF At(c, "wait", u)
                                   THEN [pc |-> "file", uid |-> u] ELSE calls[c]]

\* Both selects see a cancellation that came first; a tie is a cancellation
\* that comes just after.
SagaAcquire(u) ==
    /\ saga[u] = "sem" /\ u \notin cancelled
    /\ Cardinality(HoldsSlot) < CreateConcurrency
    /\ saga' = [saga EXCEPT ![u] = "launch"]
    /\ UNCHANGED <<storeVars, cancelled, calls, restarting, push, hostVars>>

\* Mutant of SagaGiveUp: waiting for createSem ignores the context.
SagaGiveUpInBackoff(u) ==
    /\ saga[u] = "backoff" /\ u \in cancelled
    /\ SagaEnd(u)
    /\ UNCHANGED <<storeVars, restarting, push, hostVars>>

SagaGiveUp(u) ==
    /\ saga[u] \in {"sem", "backoff"} /\ u \in cancelled
    /\ SagaEnd(u)
    /\ UNCHANGED <<storeVars, restarting, push, hostVars>>

SagaLaunch(u) ==
    /\ saga[u] = "launch"
    /\ saga' = [saga EXCEPT ![u] = "promote"]
    /\ machines' = machines \cup {u}
    /\ UNCHANGED <<storeVars, cancelled, calls, restarting, push, files>>

SagaPromote(u) ==
    /\ saga[u] = "promote"
    /\ PromoteRunning(u) /\ SagaEnd(u)
    /\ UNCHANGED <<restarting, push, hostVars>>

\* A failed attempt mostly stops its machine; a failed PostStart hook, or one
\* container of several, leaves machines behind.
SagaFail(u) ==
    /\ saga[u] \in {"launch", "promote"}
    /\ machines' \in {machines, machines \ {u}}
    /\ IF u \in NeverRestart
       THEN /\ SetTerminal(u) /\ SagaEnd(u)
            /\ files' = [files EXCEPT ![u] = "terminal"]
       ELSE /\ saga' = [saga EXCEPT ![u] = "backoff"]
            /\ UNCHANGED <<storeVars, cancelled, calls, files>>
    /\ UNCHANGED <<restarting, push>>

SagaRetry(u) ==
    /\ saga[u] = "backoff" /\ u \notin cancelled
    /\ saga' = [saga EXCEPT ![u] = "launch"]
    /\ UNCHANGED <<storeVars, cancelled, calls, restarting, push, hostVars>>

SagaStep(u) ==
    \/ SagaAcquire(u) \/ SagaGiveUp(u) \/ SagaLaunch(u)
    \/ SagaPromote(u) \/ SagaFail(u) \/ SagaRetry(u)

(******************************** DeletePod ********************************)

\* Mutant of DeleteMark: the saga is cancelled but not waited for.
DeleteMarkNoWait(c, u) ==
    /\ At(c, "mark", u)
    /\ MarkDeleting(u)
    /\ cancelled' = IF IsInFlight(u) /\ saga[u] # "none" THEN cancelled \cup {u}
                                                       ELSE cancelled
    /\ Go(c, "file", u)
    /\ UNCHANGED <<saga, restarting, push, hostVars>>

\* MarkDeleting, then CancelInFlight: wait only for a saga that still runs
\* (the handle of a finished one is closed).
DeleteMark(c, u) ==
    /\ At(c, "mark", u)
    /\ MarkDeleting(u)
    /\ IF IsInFlight(u) /\ saga[u] # "none"
       THEN cancelled' = cancelled \cup {u} /\ Go(c, "wait", u)
       ELSE Go(c, "file", u) /\ UNCHANGED cancelled
    /\ UNCHANGED <<saga, restarting, push, hostVars>>

DeleteFile(c, u) ==
    /\ At(c, "file", u)
    /\ files' = [files EXCEPT ![u] = "none"]
    /\ Go(c, "teardown", u)
    /\ UNCHANGED <<storeVars, saga, cancelled, restarting, push, machines>>

\* teardownPodIdempotent ignores every error, a failed StopMachine included;
\* it removes the pod's directory, and with it the state file.
DeleteTeardown(c, u) ==
    /\ At(c, "teardown", u)
    /\ machines' \in {machines, machines \ {u}}
    /\ files' = [files EXCEPT ![u] = "none"]
    /\ Go(c, "unregister", u)
    /\ UNCHANGED <<storeVars, saga, cancelled, restarting, push>>

DeleteReturn(c, u) ==
    /\ At(c, "unregister", u)
    /\ Unregister(u)
    /\ calls' = [calls EXCEPT ![c] = Idle]
    /\ UNCHANGED <<saga, cancelled, restarting, push, hostVars>>

(***************** The batch watcher's hold on the pod *********************)

Watched(u) == /\ HasPod(u) /\ pods[u].phase = "Running"
              /\ ~pods[u].stub /\ ~pods[u].deleting

\* poll has let the pod through its filters; what follows acts on that.
PushCheck(u) ==
    /\ push = NoPush /\ Watched(u)
    /\ push' = [pc |-> "check", uid |-> u]
    /\ UNCHANGED <<storeVars, saga, cancelled, calls, restarting, hostVars>>

\* The coalescer, or checkPod once all containers have exited, reads the pod
\* again; notifyPodStatus writes the file later, whatever happened meanwhile.
PushLive ==
    /\ push.pc \in {"check", "restart"}
    /\ push' = IF HasPod(push.uid) /\ pods[push.uid].phase = "Running"
               THEN [push EXCEPT !.pc = "live"] ELSE NoPush
    /\ UNCHANGED <<storeVars, saga, cancelled, calls, restarting, hostVars>>

PushTerminal ==
    /\ push.pc = "check" /\ push.uid \notin restarting
    /\ SetTerminal(push.uid)
    /\ push' = [push EXCEPT !.pc = IF HasPod(push.uid) THEN "terminal" ELSE "reset"]
    /\ UNCHANGED <<saga, cancelled, calls, restarting, hostVars>>

PushWrite ==
    /\ push.pc \in {"live", "terminal"}
    /\ files' = [files EXCEPT ![push.uid] = push.pc]
    /\ push' = IF push.pc = "live" THEN NoPush ELSE [push EXCEPT !.pc = "reset"]
    /\ UNCHANGED <<storeVars, saga, cancelled, calls, restarting, machines>>

\* checkPod ends with ResetUnit of the exited units.
PushReset ==
    /\ push.pc = "reset"
    /\ machines' = machines \ {push.uid}
    /\ push' = NoPush
    /\ UNCHANGED <<storeVars, saga, cancelled, calls, restarting, files>>

MaybeRestart ==
    /\ push.pc = "check" /\ HasPod(push.uid) /\ ~IsDeleting(push.uid)
    /\ push.uid \notin restarting \cup NeverRestart
    /\ restarting' = restarting \cup {push.uid}
    /\ push' = [push EXCEPT !.pc = "restart"]
    /\ UNCHANGED <<storeVars, saga, cancelled, calls, hostVars>>

\* restartContainer after its backoff: the old machine is stopped and, unless
\* an error ends the attempt, a new one launched, deleted pod or not; the
\* status push, and so the file, only follows for a pod the store has.
RestartContainer(u) ==
    /\ u \in restarting
    /\ restarting' = restarting \ {u}
    /\ \/ machines' = machines \ {u} /\ UNCHANGED files
       \/ /\ machines' = machines \cup {u}
          /\ files' = IF HasPod(u) THEN [files EXCEPT ![u] = "live"] ELSE files
    /\ UNCHANGED <<storeVars, saga, cancelled, calls, push>>

PollStep == PushLive \/ PushTerminal \/ PushWrite \/ PushReset \/ MaybeRestart

WatcherStep(u) == PushCheck(u) \/ RestartContainer(u)
=============================================================================
