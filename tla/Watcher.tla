------------------------------ MODULE Watcher -------------------------------
(***************************************************************************)
(* node/batchwatcher.go and what it drives, for one pod of several         *)
(* containers: the poll of the host's units, the probes, restartContainer  *)
(* and launchContainer (node/lifecycle.go), the status of node/status.go.  *)
(*                                                                         *)
(* `unit' is systemd's view of each container: a clean exit shows as       *)
(* exited until systemd collects the unit, a failure stays, and may first  *)
(* show as a clean exit (settling), which the code warns of.  Times are    *)
(* left out: backoffs end, tickers tick and probes fall due at any moment. *)
(* So are restart counts, events for the user, and the state cache, whose  *)
(* misses only make the next poll come sooner.  Deletion of the pod is the *)
(* subject of modules Gambit and Pawn and is left out here.                *)
(***************************************************************************)
EXTENDS Probes, Sequences

CONSTANTS Containers, \* the pod's containers, in spec order
          Policies,   \* the restart policies it may have
          MaxExits    \* how often its containers exit; 0: no bound

C == {Containers[i] : i \in DOMAIN Containers}

ASSUME WatcherAssumption ==
    /\ Containers \in Seq(C) /\ Containers # <<>>
    /\ Policies \subseteq {"Always", "OnFailure", "Never"} /\ MaxExits \in Nat

VARIABLES
    policy, unit,
    lastExit, exits,          \* how each container's last run ended; exits so far
    phase, probes,            \* the pod's entry in the store
    saga,                     \* CreatePod's goroutine: container and step
    seenRunning, restarting, prevStateMap, prevReady, \* of BatchWatcher
    signals,                  \* containers with an undelivered "running" event
    poll,                     \* the poll under way
    worker, built,            \* restart goroutines, the status each will push
    pushed,                   \* the last status given to notifyPodStatus
    misread, broken           \* containers with an exit read while settling, or
                              \* whose last launch failed

podVars   == <<policy, phase, probes>>
hostVars  == <<unit, lastExit, exits>>
watchVars == <<seenRunning, prevStateMap, prevReady, poll>>
goVars    == <<restarting, worker, built>>
ghostVars == <<misread, broken>>
vars == <<podVars, hostVars, saga, watchVars, signals, goVars, pushed, ghostVars>>

Terminal   == {"Succeeded", "Failed"}
NoPoll     == [pc |-> "idle", state |-> [c \in C |-> "absent"], phase |-> "none",
               changed |-> FALSE]
Launching  == [i |-> 1, pc |-> "launch"]
SagaDone   == [i |-> 1, pc |-> "done"]

(***************************** systemd (external) **************************)

\* ListManagedMachines: state by ActiveState, corrected by ExecMainStatus.
ListState == [none |-> "absent", starting |-> "Creating", running |-> "Running",
              settling |-> "Exited", exited |-> "Exited", failed |-> "Failed"]

\* MachineStatus: a unit that does not exist is inactive.
MachineStatus(c) == IF unit[c] = "none" THEN "Exited" ELSE ListState[unit[c]]

UnitVars == <<podVars, saga, watchVars, goVars, pushed, ghostVars>>

\* SubscribeEvents drops the event when the channel is full.
UnitRuns(c) ==
    /\ unit[c] = "starting"
    /\ unit' = [unit EXCEPT ![c] = "running"]
    /\ signals' \in {signals, signals \cup {c}}
    /\ UNCHANGED <<lastExit, exits, UnitVars>>

UnitExits(c, code) ==
    /\ unit[c] \in {"starting", "running"}
    /\ MaxExits = 0 \/ exits < MaxExits
    /\ exits' = IF MaxExits = 0 THEN 0 ELSE exits + 1
    /\ unit' \in IF code = "zero" THEN {[unit EXCEPT ![c] = "exited"]}
                 ELSE {[unit EXCEPT ![c] = "failed"], [unit EXCEPT ![c] = "settling"]}
    /\ lastExit' = [lastExit EXCEPT ![c] = code]
    /\ UNCHANGED <<signals, UnitVars>>

UnitSettles(c) ==
    /\ unit[c] \in {"settling", "exited"}
    /\ unit' = [unit EXCEPT ![c] = IF @ = "settling" THEN "failed" ELSE "none"]
    /\ UNCHANGED <<lastExit, exits, signals, UnitVars>>

UnitStep(c) == UnitRuns(c) \/ UnitExits(c, "zero") \/ UnitExits(c, "nonzero")
               \/ UnitSettles(c)

(******************************** Pod status *******************************)

CrashLoops(s) == \/ s = "Failed" /\ policy # "Never"
                 \/ s = "Exited" /\ policy = "Always"

\* buildPodStatus: the phase is what the last container to set it sets.
BuildPodStatus(stateLookup) ==
    LET S(i) == stateLookup[Containers[i]]
        setters == {i \in DOMAIN Containers : S(i) = "Creating" \/ CrashLoops(S(i))}
    IN [phase |-> IF \E i \in setters : S(i) = "Creating" /\ \A j \in setters : j <= i
                  THEN "Pending" ELSE "Running",
        state |-> [c \in C |->
                     CASE stateLookup[c] = "Running" -> "Running"
                       [] stateLookup[c] \in {"Creating", "Unknown"} -> "ContainerCreating"
                       [] CrashLoops(stateLookup[c]) -> "CrashLoopBackOff"
                       [] OTHER -> IF stateLookup[c] = "Failed" THEN "Error"
                                                                ELSE "Completed"],
        ready |-> {c \in C : stateLookup[c] = "Running" /\ probes[c].ready}]

\* makeStateLookup, for containers the poll did not find.
StateLookup(found, restart, seen) ==
    [c \in C |-> CASE found[c] # "absent" -> found[c]
                   [] c \in restart -> "Failed"
                   [] c \in seen -> "Exited"
                   [] OTHER -> "Unknown"]

NoStatus == [phase |-> "none", state |-> [c \in C |-> "none"], ready |-> {}]

(**************************** Launching containers *************************)

Stop(c) == [unit EXCEPT ![c] = "none"]

\* Mutant of MarkRunning: the call left out.
MarkNothing(c) == poll.pc = "idle" /\ UNCHANGED seenRunning

\* BatchWatcher.MarkRunning waits for pollMu, which a poll holds throughout.
MarkRunning(c) == poll.pc = "idle" /\ seenRunning' = seenRunning \cup {c}

\* launchContainer gives up: before the machine ran, or after MarkRunning, when
\* MakeSharedMounts fails (the unit is stopped) or PostStart does (it is not).
LaunchFails(c) ==
    \/ unit' = Stop(c) /\ UNCHANGED seenRunning
    \/ unit[c] = "running" /\ MarkRunning(c) /\ unit' \in {unit, Stop(c)}

\* The next container of syncPodSandboxAndContainers, with InitRestartState
\* before the first.
SagaLaunch ==
    /\ saga.pc = "launch"
    /\ LET c == Containers[saga.i]
       IN /\ unit' = [unit EXCEPT ![c] = "starting"]
          /\ probes' = IF saga.i = 1 THEN [d \in C |-> InitProbeState(d)] ELSE probes
    /\ saga' = [saga EXCEPT !.pc = "wait"]
    /\ UNCHANGED <<policy, phase, lastExit, exits, watchVars, signals, goVars,
                   pushed, ghostVars>>

\* waitForContainer saw the machine run; the last one promotes the pod.
SagaRuns ==
    /\ saga.pc = "wait" /\ unit[Containers[saga.i]] = "running"
    /\ MarkRunning(Containers[saga.i])
    /\ IF saga.i < Len(Containers)
       THEN saga' = [i |-> saga.i + 1, pc |-> "launch"] /\ UNCHANGED phase
       ELSE saga' = SagaDone /\ phase' = "Running"
    /\ UNCHANGED <<policy, probes, hostVars, prevStateMap, prevReady, poll,
                   signals, goVars, pushed, ghostVars>>

\* A failed attempt, also one before RunMachine: markPodFailed, or from the
\* first container again.
SagaFails ==
    /\ \/ saga.pc = "wait" /\ LaunchFails(Containers[saga.i])
       \/ saga.pc = "launch" /\ UNCHANGED <<unit, seenRunning>>
    /\ IF policy = "Never"
       THEN /\ saga' = SagaDone /\ phase' = "Failed"
            /\ pushed' = [NoStatus EXCEPT !.phase = "Failed"]
            /\ broken' = broken \cup {Containers[saga.i]}
       ELSE /\ saga' = Launching
            /\ UNCHANGED <<phase, pushed, broken>>
    /\ UNCHANGED <<policy, probes, lastExit, exits, prevStateMap, prevReady, poll,
                   signals, goVars, misread>>

SagaStep == SagaLaunch \/ SagaRuns \/ SagaFails

(*************************** restartContainer ******************************)

\* maybeRestart called for the containers in R: those a goroutine starts for.
MaybeRestart(R) == R \ restarting

\* The goroutine's deferred delete.
WorkerEnds(c) ==
    /\ worker' = [worker EXCEPT ![c] = "none"]
    /\ restarting' = restarting \ {c}
    /\ UNCHANGED built

WorkerFails(c) == WorkerEnds(c) /\ broken' = broken \cup {c}

\* After the backoff the old unit goes; machined may be unhealthy.
WorkerStops(c) ==
    /\ worker[c] = "backoff"
    /\ unit' = Stop(c)
    /\ \/ /\ worker' = [worker EXCEPT ![c] = "launch"]
          /\ UNCHANGED <<restarting, built, broken>>
       \/ WorkerFails(c)
    /\ UNCHANGED <<podVars, lastExit, exits, saga, watchVars, signals, pushed, misread>>

WorkerLaunches(c) ==
    /\ worker[c] = "launch"
    /\ \/ /\ unit' = [unit EXCEPT ![c] = "starting"]
          /\ worker' = [worker EXCEPT ![c] = "wait"]
          /\ UNCHANGED <<restarting, built, broken>>
       \/ unit' = Stop(c) /\ WorkerFails(c)
    /\ UNCHANGED <<podVars, lastExit, exits, saga, watchVars, signals, pushed, misread>>

WorkerRuns(c) ==
    /\ worker[c] = "wait" /\ unit[c] = "running"
    /\ MarkRunning(c)
    /\ worker' = [worker EXCEPT ![c] = "publish"]
    /\ broken' = broken \ {c}
    /\ UNCHANGED <<podVars, hostVars, saga, prevStateMap, prevReady, poll, signals,
                   restarting, built, pushed, misread>>

WorkerGivesUp(c) ==
    /\ worker[c] = "wait"
    /\ LaunchFails(c)
    /\ WorkerFails(c)
    /\ UNCHANGED <<podVars, lastExit, exits, saga, prevStateMap, prevReady, poll,
                   signals, pushed, misread>>

\* The status is built from the units as they are ...
WorkerBuilds(c) ==
    /\ worker[c] = "publish"
    /\ built' = [built EXCEPT ![c] = BuildPodStatus([d \in C |-> MachineStatus(d)])]
    /\ worker' = [worker EXCEPT ![c] = "push"]
    /\ UNCHANGED <<podVars, hostVars, saga, watchVars, signals, restarting, pushed,
                   ghostVars>>

\* ... and pushed later.
WorkerPushes(c) ==
    /\ worker[c] = "push"
    /\ pushed' = built[c]
    /\ built' = [built EXCEPT ![c] = NoStatus]
    /\ worker' = [worker EXCEPT ![c] = "none"]
    /\ restarting' = restarting \ {c}
    /\ UNCHANGED <<podVars, hostVars, saga, watchVars, signals, ghostVars>>

WorkerStep(c) == WorkerStops(c) \/ WorkerLaunches(c) \/ WorkerRuns(c)
                 \/ WorkerGivesUp(c) \/ WorkerBuilds(c) \/ WorkerPushes(c)

(********************************** poll ***********************************)

\* handleUnitEvent of "running": the others leave no trace modelled here.
HandleUnitEvent(c) ==
    /\ poll.pc = "idle" /\ c \in signals
    /\ signals' = signals \ {c}
    /\ seenRunning' = seenRunning \cup {c}
    /\ UNCHANGED <<podVars, hostVars, saga, prevStateMap, prevReady, poll, goVars,
                   pushed, ghostVars>>

\* ListManagedMachines and the store's Snapshot.
PollList ==
    /\ poll.pc = "idle"
    /\ poll' = [pc |-> "probe", state |-> [c \in C |-> ListState[unit[c]]],
                phase |-> phase, changed |-> FALSE]
    /\ misread' = misread \cup {c \in C : unit[c] = "settling"}
    /\ UNCHANGED <<podVars, hostVars, saga, seenRunning, prevStateMap, prevReady,
                   signals, goVars, pushed, broken>>

Probed == IF poll.phase = "Running" THEN {c \in C : poll.state[c] = "Running"} ELSE {}

\* The probe fan-out.  The second runProbes, in checkPod, finds due only what
\* the next poll would.
PollProbe ==
    /\ poll.pc = "probe"
    /\ \E out \in [Probed -> UNION {ProbeOutcomes(c, probes[c]) : c \in Probed}] :
          /\ \A c \in Probed : out[c] \in ProbeOutcomes(c, probes[c])
          /\ probes' = [c \in C |-> IF c \in Probed THEN out[c].probe ELSE probes[c]]
          /\ LET go == MaybeRestart({c \in Probed : out[c].restart})
             IN /\ restarting' = restarting \cup go
                /\ worker' = [c \in C |-> IF c \in go THEN "backoff" ELSE worker[c]]
    /\ poll' = [poll EXCEPT !.pc = "check"]
    /\ UNCHANGED <<policy, phase, hostVars, saga, seenRunning, prevStateMap,
                   prevReady, signals, built, pushed, ghostVars>>

\* A terminal pod is looked at again when a unit went from one known state to
\* another.
NeedsReeval == \E c \in C : /\ "absent" \notin {prevStateMap[c], poll.state[c]}
                            /\ prevStateMap[c] # poll.state[c]

Skipped == \/ poll.phase = "Pending"
           \/ poll.phase \in Terminal /\ ~NeedsReeval

\* The readiness last seen: {} before the first.
Readiness(c) == IF poll.state[c] = "Running" THEN {probes[c].ready}
                ELSE prevReady[c]

Changed == \E c \in C : \/ "absent" = prevStateMap[c]
                        \/ prevStateMap[c] # poll.state[c]
                        \/ prevReady[c] # Readiness(c)

\* Mutant of Undecided: without the look at bw.restarting.
UndecidedUnseen(c) == poll.state[c] = "absent" /\ c \notin seenRunning

\* checkPod.  A container a restart is under way for, or that was never seen
\* running and is not listed, decides nothing.
Exit(c)      == poll.state[c] \in {"absent", "Exited"}
Undecided(c) == c \in restarting \/ (poll.state[c] = "absent" /\ c \notin seenRunning)
Wanted       == {c \in C : ~Undecided(c) /\ CrashLoops(IF Exit(c) THEN "Exited"
                                                       ELSE poll.state[c])}
Over(c)      == ~Undecided(c) /\ c \notin Wanted /\ (Exit(c) \/ poll.state[c] = "Failed")
Ended        == \A c \in C : Over(c)
Final        == IF \A c \in C : Exit(c) THEN "Succeeded" ELSE "Failed"
Seen         == seenRunning \cup {c \in C : /\ c \notin restarting
                                            /\ poll.state[c] \in {"Running", "Exited"}}

PollCheck ==
    /\ poll.pc = "check"
    /\ IF Skipped
       THEN /\ poll' = [poll EXCEPT !.pc = "push"]
            /\ UNCHANGED <<phase, seenRunning, prevReady, restarting, worker, pushed, unit>>
       ELSE LET go   == MaybeRestart(Wanted)
                eager == BuildPodStatus(StateLookup(poll.state, restarting \cup go, Seen))
            IN /\ poll' = [poll EXCEPT !.pc = "push", !.changed = Changed]
               /\ prevReady' = [c \in C |-> Readiness(c)]
               /\ seenRunning' = Seen
               /\ restarting' = restarting \cup go
               /\ worker' = [c \in C |-> IF c \in go THEN "backoff" ELSE worker[c]]
               /\ IF Ended
                  THEN /\ phase' = Final
                       /\ pushed' = [BuildPodStatus([c \in C |->
                                        IF poll.state[c] = "absent" THEN "Exited"
                                        ELSE poll.state[c]]) EXCEPT !.phase = Final]
                  ELSE /\ pushed' = IF Wanted # {} /\ eager.phase = "Running"
                                    THEN eager ELSE pushed
                       /\ UNCHANGED phase
               /\ unit' = IF Ended THEN [c \in C |-> IF unit[c] \in {"failed", "exited"}
                                                     THEN "none" ELSE unit[c]]
                          ELSE unit
    /\ UNCHANGED <<policy, probes, lastExit, exits, saga, prevStateMap, signals,
                   built, ghostVars>>

\* Mutant of PollPush: the phase as it was in the snapshot.
PollPushSnapshot ==
    /\ poll.pc = "push"
    /\ pushed' = IF poll.changed /\ poll.phase = "Running"
                 THEN BuildPodStatus(StateLookup(poll.state, restarting, seenRunning))
                 ELSE pushed
    /\ prevStateMap' = poll.state
    /\ poll' = NoPoll
    /\ UNCHANGED <<podVars, hostVars, saga, seenRunning, prevReady, signals, goVars,
                   ghostVars>>

\* The coalescer's push, for what the pod is by now; then the maps rotate.
PollPush ==
    /\ poll.pc = "push"
    /\ pushed' = IF poll.changed /\ phase = "Running"
                 THEN BuildPodStatus(StateLookup(poll.state, restarting, seenRunning))
                 ELSE pushed
    /\ prevStateMap' = poll.state
    /\ poll' = NoPoll
    /\ UNCHANGED <<podVars, hostVars, saga, seenRunning, prevReady, signals, goVars,
                   ghostVars>>

PollStep == PollList \/ PollProbe \/ PollCheck \/ PollPush

Init ==
    /\ policy \in Policies
    /\ unit = [c \in C |-> "none"] /\ lastExit = [c \in C |-> "none"] /\ exits = 0
    /\ phase = "Pending"
    /\ probes = [c \in C |-> InitProbeState(c)]
    /\ saga = Launching
    /\ seenRunning = {} /\ restarting = {} /\ signals = {}
    /\ prevStateMap = [c \in C |-> "absent"] /\ prevReady = [c \in C |-> {}]
    /\ poll = NoPoll
    /\ worker = [c \in C |-> "none"] /\ built = [c \in C |-> NoStatus]
    /\ pushed = NoStatus /\ misread = {} /\ broken = {}

Next == \/ SagaStep \/ PollStep
        \/ \E c \in C : UnitStep(c) \/ HandleUnitEvent(c) \/ WorkerStep(c)

Spec == Init /\ [][Next]_vars

\* The poll loop, CreatePod's and the restart goroutines run on, and systemd
\* ends every start and reports every exit; programs may run for ever.
FairSpec ==
    /\ Spec /\ WF_vars(PollStep) /\ WF_vars(SagaStep)
    /\ \A c \in C : /\ WF_vars(WorkerStep(c)) /\ WF_vars(HandleUnitEvent(c))
                    /\ WF_vars(UnitSettles(c)) /\ WF_vars(UnitRuns(c))

(******************************* Properties ********************************)

UnitStates == {"none", "starting", "running", "settling", "exited", "failed"}
WorkerStates == {"none", "backoff", "launch", "wait", "publish", "push"}
MachineStates == {"absent", "Creating", "Running", "Exited", "Failed"}
Statuses == [phase : {"none", "Pending", "Running"} \cup Terminal,
             state : [C -> {"none", "Running", "ContainerCreating",
                            "CrashLoopBackOff", "Error", "Completed"}],
             ready : SUBSET C]

\* The types of the watcher's maps and of the store's entry.
TypeOK ==
    /\ policy \in Policies /\ unit \in [C -> UnitStates]
    /\ lastExit \in [C -> {"none", "zero", "nonzero"}] /\ exits \in 0 .. MaxExits
    /\ phase \in {"Pending", "Running"} \cup Terminal
    /\ probes \in [C -> ProbeState]
    /\ saga \in [i : DOMAIN Containers, pc : {"launch", "wait", "done"}]
    /\ seenRunning \subseteq C /\ restarting \subseteq C /\ signals \subseteq C
    /\ misread \subseteq C /\ broken \subseteq C
    /\ prevStateMap \in [C -> MachineStates] /\ prevReady \in [C -> SUBSET BOOLEAN]
    /\ poll \in [pc : {"idle", "probe", "check", "push"}, state : [C -> MachineStates],
                 phase : {"none", "Pending", "Running"} \cup Terminal,
                 changed : BOOLEAN]
    /\ worker \in [C -> WorkerStates]
    /\ built \in [C -> Statuses] /\ pushed \in Statuses

\* checkPod: every container of a Succeeded pod has ended with 0 in its last
\* run (unless the launch after a failed run failed as well), and is left
\* alone: whatever probes, events and late goroutines do, it neither runs again
\* nor has a restart under way.  A failure that was listed before systemd had
\* settled it is read as a success.
SucceededPodsDone ==
    phase = "Succeeded" =>
        \A c \in C \ misread : /\ lastExit[c] = "zero" \/ c \in broken
                              /\ unit[c] \notin {"starting", "running"}
                              /\ worker[c] = "none"

\* A terminal status is the last word: no stale restart or coalesced status
\* follows it.
TerminalStatusStays ==
    [][pushed.phase \in Terminal /\ misread = {} => pushed'.phase \in Terminal]_vars

\* The only container of a pod that stops gets a restart or gives its pod a
\* terminal phase, also when no poll and no event ever saw it running
\* (MarkRunning).
StoppedContainersHandled ==
    \A c \in C : phase = "Running" /\ unit[c] \in {"none", "exited", "failed"}
                 ~> c \in restarting \/ phase \in Terminal \/ unit[c] = "running"

=============================================================================
