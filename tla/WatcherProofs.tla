---------------------------- MODULE WatcherProofs ----------------------------
(***************************************************************************)
(* Proofs about Watcher for a pod of any number of containers, every       *)
(* restart policy, any probes and thresholds.                              *)
(***************************************************************************)
EXTENDS Watcher, TLAPS

---------------------------------------------------------------------------
\* First the types, and what the operators of the model return.

\* How ListManagedMachines reports each state of a unit.
LEMMA ListStates ==
    \A u \in UnitStates :
        /\ ListState[u] \in MachineStates
        /\ ListState[u] = "absent" <=> u = "none"
        /\ ListState[u] = "Exited" <=> u \in {"settling", "exited"}
        /\ ListState[u] = "Failed" <=> u = "failed"
        /\ ListState[u] = "Running" <=> u = "running"
BY DEF ListState, UnitStates, MachineStates

\* A count that is cut off stays within its threshold.
LEMMA CutTypes ==
    ASSUME NEW t \in Nat \ {0}, NEW n \in 0 .. t PROVE Cut(n + 1, t) \in 0 .. t
BY DEF Cut

\* The three evaluations of a probe result keep a probe state one.
LEMMA EvalTypes ==
    ASSUME NEW p \in ProbeState, NEW passed \in BOOLEAN
    PROVE  /\ EvalStartup(p, passed) \in ProbeState
           /\ EvalLiveness(p, passed) \in ProbeState
           /\ EvalReadiness(p, passed) \in ProbeState
<1>1. /\ Cut(p.startupFails + 1, FailureThreshold) \in 0 .. FailureThreshold
      /\ Cut(p.liveFails + 1, FailureThreshold) \in 0 .. FailureThreshold
      /\ Cut(p.readyFails + 1, FailureThreshold) \in 0 .. FailureThreshold
      /\ Cut(p.readySuccesses + 1, SuccessThreshold) \in 0 .. SuccessThreshold
  BY CutTypes, ProbeAssumption, Zenon DEF ProbeState
<1>2. 0 \in 0 .. FailureThreshold /\ 0 \in 0 .. SuccessThreshold
  BY ProbeAssumption
<1>3. EvalStartup(p, passed) \in ProbeState
  BY <1>1, <1>2, Zenon DEF EvalStartup, ProbeState
<1>4. EvalLiveness(p, passed) \in ProbeState
  BY <1>1, <1>2, Zenon DEF EvalLiveness, ProbeState
<1>5. EvalReadiness(p, passed) \in ProbeState
  BY <1>1, <1>2, Zenon DEF EvalReadiness, ProbeState
<1> QED BY <1>3, <1>4, <1>5, Zenon

\* A fresh probe state.
LEMMA FreshTypes == \A ready \in BOOLEAN : Fresh(ready) \in ProbeState
<1>1. 0 \in 0 .. FailureThreshold /\ 0 \in 0 .. SuccessThreshold
  BY ProbeAssumption
<1> QED BY <1>1, Zenon DEF Fresh, ProbeState

\* runProbes: whatever the results, a probe state comes out.
LEMMA ProbeTypes ==
    ASSUME NEW c, NEW p \in ProbeState, NEW out \in ProbeOutcomes(c, p)
    PROVE  out.probe \in ProbeState /\ out.restart \in BOOLEAN
<1> DEFINE Outcomes == [probe : ProbeState, restart : BOOLEAN]
<1>a. ASSUME NEW q \in ProbeState, NEW b \in BOOLEAN
      PROVE  [probe |-> q, restart |-> b] \in Outcomes
  BY Zenon
<1>b. \A r \in BOOLEAN : \A n, m : (~r /\ n = m) \in BOOLEAN
  BY Zenon
<1>c. \A o \in Outcomes : o.probe \in ProbeState /\ o.restart \in BOOLEAN
  BY Zenon
<1> HIDE DEF Outcomes
<1>1. ASSUME NEW q \in ProbeState PROVE ReadinessOutcomes(c, q) \subseteq Outcomes
  BY <1>a, EvalTypes, Zenon DEF ReadinessOutcomes
<1>2. StartupOutcomes(c, p) \subseteq Outcomes
  BY <1>a, <1>b, EvalTypes, Zenon DEF StartupOutcomes
<1>3. LivenessOutcomes(c, p) \subseteq Outcomes
  <2>1. [probe |-> ResetProbeState(c), restart |-> TRUE] \in Outcomes
    BY <1>a, FreshTypes, Zenon DEF ResetProbeState
  <2>2. \A r \in BOOLEAN : ReadinessOutcomes(c, EvalLiveness(p, r)) \subseteq Outcomes
    BY <1>1, EvalTypes, Zenon
  <2> QED BY <1>1, <2>1, <2>2, Zenon DEF LivenessOutcomes
<1> QED BY <1>2, <1>3, <1>c, Zenon DEF ProbeOutcomes

\* buildPodStatus: a status that is not terminal.
LEMMA StatusTypes ==
    ASSUME NEW lookup
    PROVE  /\ BuildPodStatus(lookup) \in Statuses
           /\ BuildPodStatus(lookup).phase \in {"Pending", "Running"}
BY Zenon DEF BuildPodStatus, Statuses, Terminal

\* No status yet.
LEMMA NoStatusTypes == NoStatus \in Statuses /\ NoStatus.phase = "none"
BY Zenon DEF NoStatus, Statuses, Terminal

\* A status whose phase is replaced, as markPodFailed and checkPod do.
LEMMA FinalStatus ==
    ASSUME NEW s \in Statuses, NEW p \in Terminal
    PROVE  [s EXCEPT !.phase = p] \in Statuses /\ [s EXCEPT !.phase = p].phase = p
BY Zenon DEF Statuses, Terminal

---------------------------------------------------------------------------
USE DEF podVars, hostVars, watchVars, goVars, ghostVars, UnitVars

\* A unit or a worker put into another state, and a container of the saga.
LEMMA SetTypes ==
    ASSUME TypeOK
    PROVE  /\ \A c \in C, s \in UnitStates : [unit EXCEPT ![c] = s] \in [C -> UnitStates]
           /\ \A c \in C : Stop(c) \in [C -> UnitStates]
           /\ \A c \in C, s \in WorkerStates : [worker EXCEPT ![c] = s] \in [C -> WorkerStates]
           /\ \A c \in C : WorkerEnds(c) => worker' \in [C -> WorkerStates] /\ restarting' \subseteq C
           /\ Containers[saga.i] \in C
<1>1. \A c \in C, s \in UnitStates : [unit EXCEPT ![c] = s] \in [C -> UnitStates]
  BY Zenon DEF TypeOK
<1>2. "none" \in UnitStates /\ "none" \in WorkerStates
  BY Zenon DEF UnitStates, WorkerStates
<1>3. \A c \in C, s \in WorkerStates : [worker EXCEPT ![c] = s] \in [C -> WorkerStates]
  BY Zenon DEF TypeOK
<1>4. Containers[saga.i] \in C
  BY Zenon DEF C, TypeOK
<1>5. restarting \subseteq C
  BY Zenon DEF TypeOK
<1>6. ASSUME NEW c \in C, WorkerEnds(c) PROVE worker' \in [C -> WorkerStates] /\ restarting' \subseteq C
  BY <1>2, <1>3, <1>5, <1>6, Zenon DEF WorkerEnds
<1> QED BY <1>1, <1>2, <1>3, <1>4, <1>6, Zenon DEF Stop

\* launchContainer giving up.
LEMMA LaunchFailsTypes ==
    ASSUME TypeOK, NEW c \in C, LaunchFails(c)
    PROVE  unit' \in [C -> UnitStates] /\ seenRunning' \subseteq C
<1>1. Stop(c) \in [C -> UnitStates]
  BY SetTypes, Zenon
<1> QED BY <1>1, ZenonT(60) DEF LaunchFails, MarkRunning, TypeOK

\* Every step keeps the types.
LEMMA TypeStep == TypeOK /\ [Next]_vars => TypeOK'
<1> SUFFICES ASSUME TypeOK, [Next]_vars PROVE TypeOK'
  OBVIOUS
<1> DEFINE Polls == [pc : {"idle", "probe", "check", "push"}, state : [C -> MachineStates],
                     phase : {"none", "Pending", "Running"} \cup Terminal, changed : BOOLEAN]
<1>unit. unit \in [C -> UnitStates]
  BY Zenon DEF TypeOK
<1>last. lastExit \in [C -> {"none", "zero", "nonzero"}]
  BY Zenon DEF TypeOK
<1>phase. phase \in {"Pending", "Running"} \cup Terminal
  BY Zenon DEF TypeOK
<1>probes. probes \in [C -> ProbeState]
  BY Zenon DEF TypeOK
<1>saga. saga \in [i : DOMAIN Containers, pc : {"launch", "wait", "done"}]
  BY Zenon DEF TypeOK
<1>sets. seenRunning \subseteq C /\ restarting \subseteq C
  BY Zenon DEF TypeOK
<1>ghosts. broken \subseteq C
  BY Zenon DEF TypeOK
<1>prev. prevReady \in [C -> SUBSET BOOLEAN]
  BY Zenon DEF TypeOK
<1>poll. poll \in Polls
  BY Zenon DEF TypeOK
<1>worker. worker \in [C -> WorkerStates]
  BY Zenon DEF TypeOK
<1>built. built \in [C -> Statuses]
  BY Zenon DEF TypeOK
<1>pushed. pushed \in Statuses
  BY Zenon DEF TypeOK
<1>a. Containers[saga.i] \in C /\ Containers # <<>> /\ Containers \in Seq(C) /\ 1 \in DOMAIN Containers
      /\ MaxExits \in Nat
  <2>1. Containers[saga.i] \in C /\ Containers # <<>> /\ Containers \in Seq(C) /\ MaxExits \in Nat
    BY SetTypes, WatcherAssumption, Zenon
  <2> QED BY <2>1, SMT
<1>set. \A c \in C, s \in UnitStates : [unit EXCEPT ![c] = s] \in [C -> UnitStates]
  BY <1>unit, Zenon
<1>stop. \A c \in C : Stop(c) \in [C -> UnitStates]
  BY SetTypes, Zenon
<1>go. \A c \in C, s \in WorkerStates : [worker EXCEPT ![c] = s] \in [C -> WorkerStates]
  BY <1>worker, Zenon
<1>ends. \A c \in C : WorkerEnds(c) => worker' \in [C -> WorkerStates] /\ restarting' \subseteq C
  BY SetTypes, Zenon
<1>at. \A n \in DOMAIN Containers, p \in {"launch", "wait", "done"} :
         [i |-> n, pc |-> p] \in [i : DOMAIN Containers, pc : {"launch", "wait", "done"}]
  BY Zenon
<1>1. ASSUME NEW c \in C, UnitRuns(c) PROVE TypeOK'
  BY <1>1, ZenonT(60) DEF TypeOK, UnitRuns, UnitStates
<1>2. ASSUME NEW c \in C, NEW code \in {"zero", "nonzero"}, UnitExits(c, code) PROVE TypeOK'
  <2>1. exits' \in 0 .. MaxExits
    <3>1. exits \in 0 .. MaxExits
      BY Zenon DEF TypeOK
    <3> QED BY <1>2, <1>a, <3>1, SMT DEF UnitExits
  <2>2. unit' \in [C -> UnitStates]
    <3>1. \E s \in {"exited", "failed", "settling"} : unit' = [unit EXCEPT ![c] = s]
      BY <1>2, Zenon DEF UnitExits
    <3>2. \A s \in {"exited", "failed", "settling"} : s \in UnitStates
      BY Zenon DEF UnitStates
    <3> QED BY <3>1, <3>2, <1>set, <1>stop, <1>go, ZenonT(60)
  <2>3. lastExit' \in [C -> {"none", "zero", "nonzero"}]
    BY <1>last, <1>2, Zenon DEF UnitExits
  <2> QED BY <1>2, <2>1, <2>2, <2>3, Zenon DEF TypeOK, UnitExits
<1>3. ASSUME NEW c \in C, UnitSettles(c) PROVE TypeOK'
  <2>1. unit' \in [C -> UnitStates]
    BY <1>unit, <1>3, Zenon DEF UnitSettles, UnitStates
  <2> QED BY <1>3, <2>1, Zenon DEF TypeOK, UnitSettles
<1>4. ASSUME SagaLaunch PROVE TypeOK'
  <2>1. unit' \in [C -> UnitStates]
    BY <1>unit, <1>4, <1>a, <1>set, <1>stop, <1>go, Zenon DEF SagaLaunch, UnitStates
  <2>2. probes' \in [C -> ProbeState]
    BY <1>probes, <1>4, FreshTypes, Zenon DEF SagaLaunch, InitProbeState
  <2>3. saga' \in [i : DOMAIN Containers, pc : {"launch", "wait", "done"}]
    BY <1>saga, <1>4, Zenon DEF SagaLaunch
  <2> QED BY <1>4, <2>1, <2>2, <2>3, Zenon DEF TypeOK, SagaLaunch
<1>5. ASSUME SagaRuns PROVE TypeOK'
  <2>1. saga' \in [i : DOMAIN Containers, pc : {"launch", "wait", "done"}]
    <3>1. saga.i < Len(Containers) => saga.i + 1 \in DOMAIN Containers
      BY <1>saga, <1>a, SMT
    <3>2. \/ saga.i < Len(Containers) /\ saga' = [i |-> saga.i + 1, pc |-> "launch"]
          \/ saga' = [i |-> 1, pc |-> "done"]
      BY <1>5, Zenon DEF SagaRuns, SagaDone
    <3> QED BY <1>a, <1>at, <3>1, <3>2, Zenon
  <2>2. seenRunning' \subseteq C
    BY <1>sets, <1>5, <1>a, Zenon DEF SagaRuns, MarkRunning
  <2> QED BY <1>5, <2>1, <2>2, Zenon DEF TypeOK, SagaRuns
<1>6. ASSUME SagaFails PROVE TypeOK'
  <2>1. unit' \in [C -> UnitStates] /\ seenRunning' \subseteq C
    BY <1>unit, <1>sets, <1>6, <1>a, LaunchFailsTypes, Zenon DEF SagaFails
  <2>2. saga' \in [i : DOMAIN Containers, pc : {"launch", "wait", "done"}]
    <3>1. saga' \in {[i |-> 1, pc |-> "done"], [i |-> 1, pc |-> "launch"]}
      BY <1>6, Zenon DEF SagaFails, SagaDone, Launching
    <3> QED BY <1>a, <1>at, <3>1, Zenon
  <2>3. /\ phase' \in {"Pending", "Running"} \cup Terminal /\ broken' \subseteq C
        /\ pushed' \in Statuses
    BY <1>phase, <1>ghosts, <1>pushed, <1>6, <1>a, NoStatusTypes, FinalStatus, Zenon DEF SagaFails, Terminal
  <2> QED BY <1>6, <2>1, <2>2, <2>3, Zenon DEF TypeOK, SagaFails
<1>7. ASSUME NEW c \in C, WorkerStops(c) \/ WorkerLaunches(c) PROVE TypeOK'
  <2>1. unit' \in [C -> UnitStates]
    <3>1. unit' = Stop(c) \/ unit' = [unit EXCEPT ![c] = "starting"]
      BY <1>7, Zenon DEF WorkerStops, WorkerLaunches
    <3>2. "starting" \in UnitStates
      BY Zenon DEF UnitStates
    <3> QED BY <3>1, <3>2, <1>set, <1>stop, <1>go, Zenon
  <2>2. worker' \in [C -> WorkerStates] /\ restarting' \subseteq C /\ broken' \subseteq C
        /\ UNCHANGED built
    <3>1. "launch" \in WorkerStates /\ "wait" \in WorkerStates
      BY Zenon DEF WorkerStates
    <3>2. \/ WorkerEnds(c) /\ broken' = broken \cup {c}
          \/ /\ worker' \in {[worker EXCEPT ![c] = "launch"], [worker EXCEPT ![c] = "wait"]}
             /\ UNCHANGED <<restarting, built, broken>>
      BY <1>7, Zenon DEF WorkerStops, WorkerLaunches, WorkerFails
    <3>3. WorkerEnds(c) => UNCHANGED built
      BY Zenon DEF WorkerEnds
    <3> QED BY <3>1, <3>2, <3>3, <1>sets, <1>ghosts, <1>go, <1>ends, Zenon
  <2> QED BY <1>7, <2>1, <2>2, Zenon DEF TypeOK, WorkerStops, WorkerLaunches
<1>8. ASSUME NEW c \in C, WorkerRuns(c) \/ WorkerGivesUp(c) PROVE TypeOK'
  <2>1. unit' \in [C -> UnitStates] /\ seenRunning' \subseteq C
    BY <1>unit, <1>sets, <1>8, LaunchFailsTypes, Zenon DEF WorkerRuns, WorkerGivesUp, MarkRunning
  <2>2. worker' \in [C -> WorkerStates] /\ restarting' \subseteq C /\ broken' \subseteq C
        /\ UNCHANGED built
    <3>1. "publish" \in WorkerStates
      BY Zenon DEF WorkerStates
    <3>2. \/ WorkerEnds(c) /\ broken' = broken \cup {c}
          \/ /\ worker' = [worker EXCEPT ![c] = "publish"] /\ broken' = broken \ {c}
             /\ UNCHANGED <<restarting, built>>
      BY <1>8, Zenon DEF WorkerRuns, WorkerGivesUp, WorkerFails
    <3>3. WorkerEnds(c) => UNCHANGED built
      BY Zenon DEF WorkerEnds
    <3> QED BY <3>1, <3>2, <3>3, <1>sets, <1>ghosts, <1>go, <1>ends, Zenon
  <2> QED BY <1>8, <2>1, <2>2, Zenon DEF TypeOK, WorkerRuns, WorkerGivesUp
<1>9. ASSUME NEW c \in C, WorkerBuilds(c) \/ WorkerPushes(c) PROVE TypeOK'
  <2>1. worker' \in [C -> WorkerStates]
    <3>1. "push" \in WorkerStates /\ "none" \in WorkerStates
      BY Zenon DEF WorkerStates
    <3> QED BY <1>9, <3>1, <1>worker, <1>set, <1>stop, <1>go, Zenon DEF WorkerBuilds, WorkerPushes
  <2>2. built' \in [C -> Statuses] /\ pushed' \in Statuses
    BY <1>built, <1>pushed, <1>9, StatusTypes, NoStatusTypes, Zenon DEF WorkerBuilds, WorkerPushes
  <2> QED BY <1>9, <2>1, <2>2, ZenonT(60) DEF TypeOK, WorkerBuilds, WorkerPushes
<1>10. ASSUME NEW c \in C, HandleUnitEvent(c) PROVE TypeOK'
  BY <1>10, Zenon DEF TypeOK, HandleUnitEvent
<1>11. ASSUME PollList PROVE TypeOK'
  <2>1. [c \in C |-> ListState[unit[c]]] \in [C -> MachineStates]
    BY <1>unit, ListStates, Zenon
  <2> QED BY <1>11, <2>1, Zenon DEF TypeOK, PollList
<1>12. ASSUME PollProbe PROVE TypeOK'
  <2>1. probes' \in [C -> ProbeState]
    <3>1. PICK out : /\ \A c \in Probed : out[c] \in ProbeOutcomes(c, probes[c])
                     /\ probes' = [c \in C |-> IF c \in Probed THEN out[c].probe ELSE probes[c]]
      BY <1>12, Zenon DEF PollProbe
    <3>2. \A c \in C : c \in Probed => out[c].probe \in ProbeState
      BY <1>probes, <3>1, ProbeTypes, Zenon
    <3> QED BY <1>probes, <3>1, <3>2, Zenon
  <2>2. worker' \in [C -> WorkerStates] /\ restarting' \subseteq C
    <3>1. Probed \subseteq C
      BY Zenon DEF Probed
    <3> QED BY <1>12, <3>1, <1>worker, <1>sets, Zenon DEF PollProbe, MaybeRestart, WorkerStates
  <2> QED BY <1>12, <2>1, <2>2, Zenon DEF TypeOK, PollProbe
<1>13. ASSUME PollCheck PROVE TypeOK'
  <2>1. Wanted \subseteq C /\ Seen \subseteq C
    BY <1>sets, Zenon DEF Wanted, Seen
  <2>2. Final \in Terminal /\ Changed \in BOOLEAN
    BY Zenon DEF Final, Terminal, Changed
  <2>3. \A c \in C : Readiness(c) \in SUBSET BOOLEAN
    BY <1>probes, <1>prev, Zenon DEF ProbeState, Readiness
  <2>4. poll' \in Polls
    <3>1. poll' \in {[poll EXCEPT !.pc = "push"], [poll EXCEPT !.pc = "push", !.changed = Changed]}
      BY <1>13, Zenon DEF PollCheck
    <3> QED BY <1>poll, <2>2, <3>1, Zenon
  <2>5. worker' \in [C -> WorkerStates] /\ restarting' \subseteq C
    <3>1. \/ UNCHANGED <<worker, restarting>>
          \/ /\ restarting' = restarting \cup MaybeRestart(Wanted)
             /\ worker' = [c \in C |-> IF c \in MaybeRestart(Wanted) THEN "backoff" ELSE worker[c]]
      BY <1>13, Zenon DEF PollCheck
    <3> QED BY <1>worker, <1>sets, <2>1, <3>1, Zenon DEF MaybeRestart, WorkerStates
  <2>6. seenRunning' \subseteq C
    BY <1>13, <1>sets, <2>1, Zenon DEF PollCheck
  <2>7. unit' \in [C -> UnitStates]
    <3>1. unit' \in {unit, [c \in C |-> IF unit[c] \in {"failed", "exited"} THEN "none" ELSE unit[c]]}
      BY <1>13, Zenon DEF PollCheck
    <3> QED BY <1>unit, <3>1, Zenon DEF UnitStates
  <2>8. phase' \in {"Pending", "Running"} \cup Terminal
    <3>1. phase' \in {phase, Final}
      BY <1>13, Zenon DEF PollCheck
    <3> QED BY <1>phase, <2>2, <3>1, Zenon
  <2>9. prevReady' \in [C -> SUBSET BOOLEAN]
    <3>1. prevReady' \in {prevReady, [c \in C |-> Readiness(c)]}
      BY <1>13, Zenon DEF PollCheck
    <3> QED BY <1>prev, <2>3, <3>1, Zenon
  <2>10. pushed' \in Statuses
    <3>1. \/ UNCHANGED pushed
          \/ \E lookup : \/ pushed' = BuildPodStatus(lookup)
                         \/ pushed' = [BuildPodStatus(lookup) EXCEPT !.phase = Final]
      BY <1>13, Zenon DEF PollCheck
    <3> QED BY <1>pushed, <2>2, <3>1, StatusTypes, FinalStatus, ZenonT(60)
  <2> QED BY <1>13, <2>4, <2>5, <2>6, <2>7, <2>8, <2>9, <2>10, Zenon DEF PollCheck, TypeOK
<1>14. ASSUME PollPush PROVE TypeOK'
  <2>1. NoPoll \in Polls
    BY Zenon DEF NoPoll, MachineStates
  <2>2. pushed' \in Statuses
    BY <1>pushed, <1>14, StatusTypes, Zenon DEF PollPush
  <2> QED BY <1>14, <2>1, <2>2, Zenon DEF TypeOK, PollPush
<1>15. CASE UNCHANGED vars
  BY <1>15, Zenon DEF TypeOK, vars
<1> QED
  BY <1>1, <1>2, <1>3, <1>4, <1>5, <1>6, <1>7, <1>8, <1>9, <1>10, <1>11, <1>12, <1>13, <1>14, <1>15, ZenonT(60)
     DEF Next, UnitStep, SagaStep, WorkerStep, PollStep

---------------------------------------------------------------------------
\* The invariant, in parts.

Reading == poll.pc \in {"probe", "check"}
Out     == {"absent", "Exited", "Failed"}

\* The pod leaves Pending when its saga ends; a poll that looks at it after that
\* decides on the phase the pod still has.
Phases ==
    /\ saga.pc # "done" <=> phase = "Pending"
    /\ poll.pc # "idle" => poll.phase # "none"
    /\ poll.phase \notin {"none", "Pending"} => phase # "Pending"
    /\ Reading /\ poll.phase # "Pending" => poll.phase = phase

\* Restarts are for running pods, and for Succeeded ones whose exit was misread.
Restarts ==
    /\ restarting = {c \in C : worker[c] # "none"}
    /\ phase \in {"Pending", "Failed"} => restarting = {}
    /\ phase = "Failed" => policy = "Never"
    /\ phase = "Succeeded" => policy # "Always"

\* A terminal status is pushed for a pod in a terminal phase only.
Pushes ==
    /\ pushed.phase \in Terminal => phase \in Terminal
    /\ \A c \in C : built[c].phase \notin Terminal

\* A unit seen as exited ended well; a worker launches where no unit is.
Runs == \A c \in C : /\ unit[c] = "exited" => lastExit[c] = "zero"
                     /\ worker[c] = "launch" => unit[c] = "none"

\* What checkPod does, apart from the bookkeeping of readiness.
Swept == [c \in C |-> IF unit[c] \in {"failed", "exited"} THEN "none" ELSE unit[c]]

RestartsWanted ==
    /\ seenRunning' = Seen /\ restarting' = restarting \cup Wanted
    /\ worker' = [c \in C |-> IF c \in Wanted \ restarting THEN "backoff" ELSE worker[c]]

CheckEffect ==
    /\ poll.pc = "check" /\ poll'.pc = "push"
    /\ poll'.phase = poll.phase /\ poll'.state = poll.state
    /\ UNCHANGED <<policy, lastExit, saga, prevStateMap, signals, built, misread, broken>>
    /\ \/ Skipped /\ UNCHANGED <<phase, seenRunning, restarting, worker, pushed, unit>>
       \/ /\ ~Skipped /\ Ended /\ phase' = Final /\ pushed'.phase = Final /\ unit' = Swept
          /\ RestartsWanted
       \/ /\ ~Skipped /\ ~Ended /\ UNCHANGED <<phase, unit>>
          /\ UNCHANGED pushed \/ (Wanted # {} /\ pushed'.phase \notin Terminal)
          /\ RestartsWanted

\* PollCheck does that.
LEMMA CheckEffects == ASSUME TypeOK, PollCheck PROVE CheckEffect
<1>1. poll' \in {[poll EXCEPT !.pc = "push"], [poll EXCEPT !.pc = "push", !.changed = Changed]}
  BY Zenon DEF PollCheck
<1>2. poll'.pc = "push" /\ poll'.phase = poll.phase /\ poll'.state = poll.state
  BY <1>1, Zenon DEF TypeOK
<1>3. ASSUME ~Skipped PROVE RestartsWanted
  BY <1>3, Zenon DEF PollCheck, MaybeRestart, RestartsWanted
<1>4. Final \in Terminal
  BY Zenon DEF Final, Terminal
<1>5. ASSUME ~Skipped, Ended PROVE phase' = Final /\ unit' = Swept
  BY <1>5, Zenon DEF PollCheck, Swept
<1>6. ASSUME ~Skipped, Ended PROVE pushed'.phase = Final
  <2>1. PICK lookup : pushed' = [BuildPodStatus(lookup) EXCEPT !.phase = Final]
    BY <1>6, Zenon DEF PollCheck
  <2> QED BY <1>4, <2>1, StatusTypes, FinalStatus, Zenon
<1>7. ASSUME ~Skipped, ~Ended
      PROVE  UNCHANGED <<phase, unit>> /\ (UNCHANGED pushed \/ (Wanted # {} /\ pushed'.phase \notin Terminal))
  <2>1. UNCHANGED <<phase, unit>>
    BY <1>7, Zenon DEF PollCheck
  <2>2. UNCHANGED pushed \/ (Wanted # {} /\ \E lookup : pushed' = BuildPodStatus(lookup))
    BY <1>7, Zenon DEF PollCheck
  <2> QED BY <2>1, <2>2, StatusTypes, Zenon DEF Terminal
<1>8. ASSUME Skipped PROVE UNCHANGED <<phase, seenRunning, restarting, worker, pushed, unit>>
  BY <1>8, Zenon DEF PollCheck
<1>9. poll.pc = "check" /\ UNCHANGED <<policy, lastExit, saga, prevStateMap, signals, built, misread, broken>>
  BY Zenon DEF PollCheck
<1> QED BY <1>2, <1>3, <1>5, <1>6, <1>7, <1>8, <1>9, Zenon DEF CheckEffect

\* What the probe fan-out does: it starts restarts of containers it probed.
ProbeEffect ==
    /\ poll.pc = "probe" /\ poll'.pc = "check"
    /\ poll'.phase = poll.phase /\ poll'.state = poll.state
    /\ UNCHANGED <<policy, phase, unit, lastExit, saga, seenRunning, prevStateMap, signals, built,
                   pushed, misread, broken>>
    /\ \E R \in SUBSET Probed :
         /\ restarting' = restarting \cup R
         /\ worker' = [c \in C |-> IF c \in R \ restarting THEN "backoff" ELSE worker[c]]

\* PollProbe does that.
LEMMA ProbeEffects == ASSUME TypeOK, PollProbe PROVE ProbeEffect
<1>1. poll' = [poll EXCEPT !.pc = "check"]
  BY Zenon DEF PollProbe
<1>2. poll'.pc = "check" /\ poll'.phase = poll.phase /\ poll'.state = poll.state
  BY <1>1, Zenon DEF TypeOK
<1>3. PICK out :
        LET go == MaybeRestart({c \in Probed : out[c].restart})
        IN /\ restarting' = restarting \cup go
           /\ worker' = [c \in C |-> IF c \in go THEN "backoff" ELSE worker[c]]
  BY Zenon DEF PollProbe
<1> DEFINE R == {c \in Probed : out[c].restart}
<1>4. restarting' = restarting \cup R
  BY <1>3, Zenon DEF MaybeRestart
<1>5. worker' = [c \in C |-> IF c \in R \ restarting THEN "backoff" ELSE worker[c]]
  BY <1>3, Zenon DEF MaybeRestart
<1>6. R \in SUBSET Probed
  BY Zenon
<1>7. poll.pc = "probe"
      /\ UNCHANGED <<policy, phase, unit, lastExit, saga, seenRunning, prevStateMap, signals, built,
                     pushed, misread, broken>>
  BY Zenon DEF PollProbe
<1> HIDE DEF R
<1> QED BY <1>2, <1>4, <1>5, <1>6, <1>7, Zenon DEF ProbeEffect

\* Only the end of the saga and checkPod change the phase.
LEMMA PhasesStep == ASSUME TypeOK, Phases, [Next]_vars PROVE Phases'
<1>1. ASSUME NEW c \in C, UnitRuns(c) PROVE Phases'
  BY <1>1, Zenon DEF UnitRuns, Phases, Reading, TypeOK, Terminal
<1>2. ASSUME NEW c \in C, NEW code \in {"zero", "nonzero"}, UnitExits(c, code) PROVE Phases'
  BY <1>2, Zenon DEF UnitExits, Phases, Reading, TypeOK, Terminal
<1>3. ASSUME NEW c \in C, UnitSettles(c) PROVE Phases'
  BY <1>3, Zenon DEF UnitSettles, Phases, Reading, TypeOK, Terminal
<1>4. ASSUME SagaLaunch PROVE Phases'
  BY <1>4, Zenon DEF SagaLaunch, Phases, Reading, TypeOK, Terminal
<1>5. ASSUME SagaRuns PROVE Phases'
  BY <1>5 DEF SagaRuns, MarkRunning, SagaDone, Phases, Reading, TypeOK, Terminal
<1>6. ASSUME SagaFails PROVE Phases'
  BY <1>6 DEF SagaFails, LaunchFails, MarkRunning, SagaDone, Launching, Stop, NoStatus, Phases, Reading, TypeOK, Terminal
<1>7. ASSUME NEW c \in C, WorkerStops(c) PROVE Phases'
  BY <1>7, Zenon DEF WorkerStops, Stop, WorkerFails, WorkerEnds, Phases, Reading, TypeOK, Terminal
<1>8. ASSUME NEW c \in C, WorkerLaunches(c) PROVE Phases'
  BY <1>8, Zenon DEF WorkerLaunches, Stop, WorkerFails, WorkerEnds, Phases, Reading, TypeOK, Terminal
<1>9. ASSUME NEW c \in C, WorkerRuns(c) PROVE Phases'
  BY <1>9, Zenon DEF WorkerRuns, MarkRunning, Phases, Reading, TypeOK, Terminal
<1>10. ASSUME NEW c \in C, WorkerGivesUp(c) PROVE Phases'
  BY <1>10, Zenon DEF WorkerGivesUp, LaunchFails, MarkRunning, Stop, WorkerFails, WorkerEnds, Phases, Reading, TypeOK, Terminal
<1>11. ASSUME NEW c \in C, WorkerBuilds(c) PROVE Phases'
  BY <1>11, Zenon DEF WorkerBuilds, Phases, Reading, TypeOK, Terminal
<1>12. ASSUME NEW c \in C, WorkerPushes(c) PROVE Phases'
  BY <1>12, Zenon DEF WorkerPushes, Phases, Reading, TypeOK, Terminal
<1>13. ASSUME NEW c \in C, HandleUnitEvent(c) PROVE Phases'
  BY <1>13, Zenon DEF HandleUnitEvent, Phases, Reading, TypeOK, Terminal
<1>14. ASSUME PollList PROVE Phases'
  BY <1>14, Zenon DEF PollList, Phases, Reading, TypeOK, Terminal
<1>15. ASSUME PollProbe PROVE Phases'
  BY <1>15, Zenon DEF PollProbe, MaybeRestart, Phases, Reading, TypeOK, Terminal
<1>16. ASSUME PollCheck PROVE Phases'
  <2>1. CheckEffect
    BY <1>16, CheckEffects, Zenon
  <2>2. Final \in {"Succeeded", "Failed"}
    BY Zenon DEF Final
  <2>3. ~Skipped => poll.phase # "Pending"
    BY Zenon DEF Skipped
  <2> QED BY <2>1, <2>2, <2>3, Zenon DEF CheckEffect, Phases, Reading
<1>17. ASSUME PollPush PROVE Phases'
  BY <1>17, Zenon DEF PollPush, NoPoll, Phases, Reading, TypeOK, Terminal
<1>18. CASE UNCHANGED vars
  BY <1>18, Zenon DEF vars, Phases, Reading, TypeOK, Terminal
<1> QED
  BY <1>1, <1>2, <1>3, <1>4, <1>5, <1>6, <1>7, <1>8, <1>9, <1>10, <1>11, <1>12, <1>13, <1>14, <1>15, <1>16, <1>17, <1>18, ZenonT(60)
     DEF Next, UnitStep, SagaStep, WorkerStep, PollStep

\* Only the probes of a running pod and checkPod start a restart.
LEMMA RestartsStep == ASSUME TypeOK, Phases, Restarts, [Next]_vars PROVE Restarts'
<1>1. ASSUME NEW c \in C, UnitRuns(c) PROVE Restarts'
  BY <1>1, Zenon DEF UnitRuns, Restarts, Phases, Reading, TypeOK, Terminal
<1>2. ASSUME NEW c \in C, NEW code \in {"zero", "nonzero"}, UnitExits(c, code) PROVE Restarts'
  BY <1>2, Zenon DEF UnitExits, Restarts, Phases, Reading, TypeOK, Terminal
<1>3. ASSUME NEW c \in C, UnitSettles(c) PROVE Restarts'
  BY <1>3, Zenon DEF UnitSettles, Restarts, Phases, Reading, TypeOK, Terminal
<1>4. ASSUME SagaLaunch PROVE Restarts'
  BY <1>4, Zenon DEF SagaLaunch, Restarts, Phases, Reading, TypeOK, Terminal
<1>5. ASSUME SagaRuns PROVE Restarts'
  BY <1>5, Zenon DEF SagaRuns, MarkRunning, SagaDone, Restarts, Phases, Reading, TypeOK, Terminal
<1>6. ASSUME SagaFails PROVE Restarts'
  BY <1>6, Zenon DEF SagaFails, LaunchFails, MarkRunning, SagaDone, Launching, Stop, NoStatus, Restarts, Phases, Reading, TypeOK, Terminal
<1>7. ASSUME NEW c \in C, WorkerStops(c) PROVE Restarts'
  BY <1>7 DEF WorkerStops, Stop, WorkerFails, WorkerEnds, Restarts, Phases, Reading, TypeOK, Terminal
<1>8. ASSUME NEW c \in C, WorkerLaunches(c) PROVE Restarts'
  BY <1>8 DEF WorkerLaunches, Stop, WorkerFails, WorkerEnds, Restarts, Phases, Reading, TypeOK, Terminal
<1>9. ASSUME NEW c \in C, WorkerRuns(c) PROVE Restarts'
  BY <1>9, Zenon DEF WorkerRuns, MarkRunning, Restarts, Phases, Reading, TypeOK, Terminal
<1>10. ASSUME NEW c \in C, WorkerGivesUp(c) PROVE Restarts'
  BY <1>10, Zenon DEF WorkerGivesUp, LaunchFails, MarkRunning, Stop, WorkerFails, WorkerEnds, Restarts, Phases, Reading, TypeOK, Terminal
<1>11. ASSUME NEW c \in C, WorkerBuilds(c) PROVE Restarts'
  BY <1>11, Zenon DEF WorkerBuilds, Restarts, Phases, Reading, TypeOK, Terminal
<1>12. ASSUME NEW c \in C, WorkerPushes(c) PROVE Restarts'
  BY <1>12, Zenon DEF WorkerPushes, Restarts, Phases, Reading, TypeOK, Terminal
<1>13. ASSUME NEW c \in C, HandleUnitEvent(c) PROVE Restarts'
  BY <1>13, Zenon DEF HandleUnitEvent, Restarts, Phases, Reading, TypeOK, Terminal
<1>14. ASSUME PollList PROVE Restarts'
  BY <1>14, Zenon DEF PollList, Restarts, Phases, Reading, TypeOK, Terminal
<1>15. ASSUME PollProbe PROVE Restarts'
  <2>1. ProbeEffect
    BY <1>15, ProbeEffects, Zenon
  <2>2. Probed # {} => phase = "Running"
    BY <2>1, Zenon DEF Probed, ProbeEffect, Phases, Reading
  <2>3. PICK R \in SUBSET Probed :
          /\ restarting' = restarting \cup R
          /\ worker' = [c \in C |-> IF c \in R \ restarting THEN "backoff" ELSE worker[c]]
    BY <2>1, Zenon DEF ProbeEffect
  <2>4. restarting' = {c \in C : worker'[c] # "none"}
    BY <2>3, Zenon DEF Restarts, Probed
  <2> QED BY <2>1, <2>2, <2>3, <2>4, Zenon DEF ProbeEffect, Restarts
<1>16. ASSUME PollCheck PROVE Restarts'
  <2>1. CheckEffect
    BY <1>16, CheckEffects, Zenon
  <2>2. RestartsWanted => restarting' = {c \in C : worker'[c] # "none"}
    BY Zenon DEF Restarts, RestartsWanted, Wanted
  <2>3. policy = "Never" => Wanted = {}
    BY Zenon DEF Wanted, CrashLoops
  <2>4. Ended => restarting = {} /\ Wanted = {}
    BY Zenon DEF Ended, Over, Undecided, Wanted, Restarts
  <2>5. Ended /\ policy # "Never" => Final = "Succeeded"
    BY Zenon DEF Ended, Over, Wanted, Final, CrashLoops, Exit
  <2>6. \E c \in C : TRUE
    BY SetTypes, Zenon
  <2>7. Ended => policy # "Always"
    BY <2>6, Zenon DEF Ended, Over, Wanted, CrashLoops, Exit
  <2>8. Skipped \/ (poll.phase # "Pending" /\ poll.phase = phase)
    BY <2>1, Zenon DEF CheckEffect, Skipped, Phases, Reading
  <2>9. CASE Skipped
    BY <2>1, <2>9, Zenon DEF CheckEffect, Restarts
  <2>10. CASE ~Skipped /\ Ended
    <3>1. restarting' = {}
      BY <2>1, <2>4, <2>10, Zenon DEF CheckEffect, RestartsWanted
    <3> QED BY <2>1, <2>2, <2>5, <2>7, <2>10, <3>1, Zenon DEF CheckEffect, Restarts
  <2>11. CASE ~Skipped /\ ~Ended
    <3>1. phase = "Failed" => restarting' = {}
      BY <2>1, <2>3, <2>11, Zenon DEF CheckEffect, RestartsWanted, Restarts
    <3> QED BY <2>1, <2>2, <2>8, <2>11, <3>1, Zenon DEF CheckEffect, Restarts
  <2> QED BY <2>9, <2>10, <2>11, Zenon
<1>17. ASSUME PollPush PROVE Restarts'
  BY <1>17, Zenon DEF PollPush, NoPoll, Restarts, Phases, Reading, TypeOK, Terminal
<1>18. CASE UNCHANGED vars
  BY <1>18, Zenon DEF vars, Restarts, Phases, Reading, TypeOK, Terminal
<1> QED
  BY <1>1, <1>2, <1>3, <1>4, <1>5, <1>6, <1>7, <1>8, <1>9, <1>10, <1>11, <1>12, <1>13, <1>14, <1>15, <1>16, <1>17, <1>18, ZenonT(60)
     DEF Next, UnitStep, SagaStep, WorkerStep, PollStep

\* Only markPodFailed and checkPod push a terminal status, with the phase.
LEMMA PushesStep == ASSUME TypeOK, Phases, Pushes, [Next]_vars PROVE Pushes'
<1>1. ASSUME NEW c \in C, UnitRuns(c) PROVE Pushes'
  BY <1>1, StatusTypes, NoStatusTypes, FinalStatus, Zenon DEF UnitRuns, Pushes, Phases, TypeOK, Terminal
<1>2. ASSUME NEW c \in C, NEW code \in {"zero", "nonzero"}, UnitExits(c, code) PROVE Pushes'
  BY <1>2, StatusTypes, NoStatusTypes, FinalStatus, Zenon DEF UnitExits, Pushes, Phases, TypeOK, Terminal
<1>3. ASSUME NEW c \in C, UnitSettles(c) PROVE Pushes'
  BY <1>3, StatusTypes, NoStatusTypes, FinalStatus, Zenon DEF UnitSettles, Pushes, Phases, TypeOK, Terminal
<1>4. ASSUME SagaLaunch PROVE Pushes'
  BY <1>4, StatusTypes, NoStatusTypes, FinalStatus, Zenon DEF SagaLaunch, Pushes, Phases, TypeOK, Terminal
<1>5. ASSUME SagaRuns PROVE Pushes'
  BY <1>5, StatusTypes, NoStatusTypes, FinalStatus, Zenon DEF SagaRuns, MarkRunning, SagaDone, Pushes, Phases, TypeOK, Terminal
<1>6. ASSUME SagaFails PROVE Pushes'
  BY <1>6, StatusTypes, NoStatusTypes, FinalStatus, Zenon DEF SagaFails, LaunchFails, MarkRunning, SagaDone, Launching, Stop, NoStatus, Pushes, Phases, TypeOK, Terminal
<1>7. ASSUME NEW c \in C, WorkerStops(c) PROVE Pushes'
  BY <1>7, StatusTypes, NoStatusTypes, FinalStatus, Zenon DEF WorkerStops, Stop, WorkerFails, WorkerEnds, Pushes, Phases, TypeOK, Terminal
<1>8. ASSUME NEW c \in C, WorkerLaunches(c) PROVE Pushes'
  BY <1>8, StatusTypes, NoStatusTypes, FinalStatus, Zenon DEF WorkerLaunches, Stop, WorkerFails, WorkerEnds, Pushes, Phases, TypeOK, Terminal
<1>9. ASSUME NEW c \in C, WorkerRuns(c) PROVE Pushes'
  BY <1>9, StatusTypes, NoStatusTypes, FinalStatus, Zenon DEF WorkerRuns, MarkRunning, Pushes, Phases, TypeOK, Terminal
<1>10. ASSUME NEW c \in C, WorkerGivesUp(c) PROVE Pushes'
  BY <1>10, StatusTypes, NoStatusTypes, FinalStatus, Zenon DEF WorkerGivesUp, LaunchFails, MarkRunning, Stop, WorkerFails, WorkerEnds, Pushes, Phases, TypeOK, Terminal
<1>11. ASSUME NEW c \in C, WorkerBuilds(c) PROVE Pushes'
  BY <1>11, StatusTypes, NoStatusTypes, FinalStatus DEF WorkerBuilds, Pushes, Phases, TypeOK, Terminal
<1>12. ASSUME NEW c \in C, WorkerPushes(c) PROVE Pushes'
  BY <1>12, StatusTypes, NoStatusTypes, FinalStatus DEF WorkerPushes, Pushes, Phases, TypeOK, Terminal
<1>13. ASSUME NEW c \in C, HandleUnitEvent(c) PROVE Pushes'
  BY <1>13, StatusTypes, NoStatusTypes, FinalStatus, Zenon DEF HandleUnitEvent, Pushes, Phases, TypeOK, Terminal
<1>14. ASSUME PollList PROVE Pushes'
  BY <1>14, StatusTypes, NoStatusTypes, FinalStatus, Zenon DEF PollList, Pushes, Phases, TypeOK, Terminal
<1>15. ASSUME PollProbe PROVE Pushes'
  BY <1>15, StatusTypes, NoStatusTypes, FinalStatus, Zenon DEF PollProbe, MaybeRestart, Pushes, Phases, TypeOK, Terminal
<1>16. ASSUME PollCheck PROVE Pushes'
  <2>1. CheckEffect
    BY <1>16, CheckEffects, Zenon
  <2>2. Final \in Terminal
    BY Zenon DEF Final, Terminal
  <2> QED BY <2>1, <2>2, Zenon DEF CheckEffect, Pushes
<1>17. ASSUME PollPush PROVE Pushes'
  BY <1>17, StatusTypes, NoStatusTypes, FinalStatus, Zenon DEF PollPush, NoPoll, Pushes, Phases, TypeOK, Terminal
<1>18. CASE UNCHANGED vars
  BY <1>18, Zenon DEF vars, Pushes, Phases, TypeOK, Terminal
<1> QED
  BY <1>1, <1>2, <1>3, <1>4, <1>5, <1>6, <1>7, <1>8, <1>9, <1>10, <1>11, <1>12, <1>13, <1>14, <1>15, <1>16, <1>17, <1>18, ZenonT(60)
     DEF Next, UnitStep, SagaStep, WorkerStep, PollStep

\* A unit exits well or not, and goes before its container is launched again.
LEMMA RunsStep == ASSUME TypeOK, Phases, Restarts, Runs, [Next]_vars PROVE Runs'
<1>1. ASSUME NEW c \in C, UnitRuns(c) PROVE Runs'
  BY <1>1, Zenon DEF UnitRuns, Runs, TypeOK
<1>2. ASSUME NEW c \in C, NEW code \in {"zero", "nonzero"}, UnitExits(c, code) PROVE Runs'
  BY <1>2 DEF UnitExits, Runs, TypeOK
<1>3. ASSUME NEW c \in C, UnitSettles(c) PROVE Runs'
  BY <1>3, Zenon DEF UnitSettles, Runs, TypeOK
<1>4. ASSUME SagaLaunch PROVE Runs'
  BY <1>4, Zenon DEF SagaLaunch, Runs, Phases, Restarts, TypeOK
<1>5. ASSUME SagaRuns PROVE Runs'
  BY <1>5, Zenon DEF SagaRuns, MarkRunning, SagaDone, Runs, TypeOK
<1>6. ASSUME SagaFails PROVE Runs'
  BY <1>6 DEF SagaFails, LaunchFails, MarkRunning, SagaDone, Launching, Stop, NoStatus, Runs, TypeOK
<1>7. ASSUME NEW c \in C, WorkerStops(c) PROVE Runs'
  BY <1>7, Zenon DEF WorkerStops, Stop, WorkerFails, WorkerEnds, Runs, TypeOK
<1>8. ASSUME NEW c \in C, WorkerLaunches(c) PROVE Runs'
  BY <1>8 DEF WorkerLaunches, Stop, WorkerFails, WorkerEnds, Runs, TypeOK
<1>9. ASSUME NEW c \in C, WorkerRuns(c) PROVE Runs'
  BY <1>9, Zenon DEF WorkerRuns, MarkRunning, Runs, TypeOK
<1>10. ASSUME NEW c \in C, WorkerGivesUp(c) PROVE Runs'
  BY <1>10, ZenonT(60) DEF WorkerGivesUp, LaunchFails, MarkRunning, Stop, WorkerFails, WorkerEnds, Runs, TypeOK
<1>11. ASSUME NEW c \in C, WorkerBuilds(c) PROVE Runs'
  BY <1>11, Zenon DEF WorkerBuilds, Runs, TypeOK
<1>12. ASSUME NEW c \in C, WorkerPushes(c) PROVE Runs'
  BY <1>12, Zenon DEF WorkerPushes, Runs, TypeOK
<1>13. ASSUME NEW c \in C, HandleUnitEvent(c) PROVE Runs'
  BY <1>13, Zenon DEF HandleUnitEvent, Runs, TypeOK
<1>14. ASSUME PollList PROVE Runs'
  BY <1>14, Zenon DEF PollList, Runs, TypeOK
<1>15. ASSUME PollProbe PROVE Runs'
  BY <1>15, Zenon DEF PollProbe, MaybeRestart, Runs, TypeOK
<1>16. ASSUME PollCheck PROVE Runs'
  BY <1>16 DEF PollCheck, MaybeRestart, Runs, TypeOK
<1>17. ASSUME PollPush PROVE Runs'
  BY <1>17, Zenon DEF PollPush, NoPoll, Runs, TypeOK
<1>18. CASE UNCHANGED vars
  BY <1>18, Zenon DEF vars, Runs, TypeOK
<1> QED
  BY <1>1, <1>2, <1>3, <1>4, <1>5, <1>6, <1>7, <1>8, <1>9, <1>10, <1>11, <1>12, <1>13, <1>14, <1>15, <1>16, <1>17, <1>18, ZenonT(60)
     DEF Next, UnitStep, SagaStep, WorkerStep, PollStep

---------------------------------------------------------------------------
\* What a poll read is still so when checkPod decides on it, but for units a
\* worker launches meanwhile.

Quiet(c) == unit[c] \notin {"starting", "running"}

Read == Reading /\ poll.phase # "Pending" =>
    \A c \in C : worker[c] # "wait" =>
        /\ poll.state[c] \in Out => Quiet(c)
        /\ poll.state[c] = "Failed" => unit[c] \in {"failed", "none"}
        /\ poll.state[c] \in {"absent", "Exited"} /\ c \notin misread
              => unit[c] \in {"none", "exited"}

\* While a poll holds pollMu no launch completes, so its reading stays good.
LEMMA ReadStep == ASSUME TypeOK, Phases, Restarts, Read, [Next]_vars PROVE Read'
<1>1. ASSUME NEW c \in C, UnitRuns(c) PROVE Read'
  BY <1>1, ZenonT(60) DEF UnitRuns, Read, Phases, Restarts, Reading, Out, Quiet, TypeOK
<1>2. ASSUME NEW c \in C, NEW code \in {"zero", "nonzero"}, UnitExits(c, code) PROVE Read'
  BY <1>2 DEF UnitExits, Read, Phases, Restarts, Reading, Out, Quiet, TypeOK
<1>3. ASSUME NEW c \in C, UnitSettles(c) PROVE Read'
  BY <1>3, ZenonT(60) DEF UnitSettles, Read, Phases, Restarts, Reading, Out, Quiet, TypeOK
<1>4. ASSUME SagaLaunch PROVE Read'
  BY <1>4, Zenon DEF SagaLaunch, Read, Phases, Restarts, Reading, Out, Quiet, TypeOK
<1>5. ASSUME SagaRuns PROVE Read'
  BY <1>5, Zenon DEF SagaRuns, MarkRunning, SagaDone, Read, Phases, Restarts, Reading, Out, Quiet, TypeOK
<1>6. ASSUME SagaFails PROVE Read'
  BY <1>6, Zenon DEF SagaFails, LaunchFails, MarkRunning, SagaDone, Launching, Stop, NoStatus, Read, Phases, Restarts, Reading, Out, Quiet, TypeOK
<1>7. ASSUME NEW c \in C, WorkerStops(c) PROVE Read'
  BY <1>7 DEF WorkerStops, Stop, WorkerFails, WorkerEnds, Read, Phases, Restarts, Reading, Out, Quiet, TypeOK
<1>8. ASSUME NEW c \in C, WorkerLaunches(c) PROVE Read'
  BY <1>8 DEF WorkerLaunches, Stop, WorkerFails, WorkerEnds, Read, Phases, Restarts, Reading, Out, Quiet, TypeOK
<1>9. ASSUME NEW c \in C, WorkerRuns(c) PROVE Read'
  BY <1>9, Zenon DEF WorkerRuns, MarkRunning, Read, Phases, Restarts, Reading, Out, Quiet, TypeOK
<1>10. ASSUME NEW c \in C, WorkerGivesUp(c) PROVE Read'
  BY <1>10 DEF WorkerGivesUp, LaunchFails, MarkRunning, Stop, WorkerFails, WorkerEnds, Read, Phases, Restarts, Reading, Out, Quiet, TypeOK
<1>11. ASSUME NEW c \in C, WorkerBuilds(c) PROVE Read'
  BY <1>11, Zenon DEF WorkerBuilds, Read, Phases, Restarts, Reading, Out, Quiet, TypeOK
<1>12. ASSUME NEW c \in C, WorkerPushes(c) PROVE Read'
  BY <1>12, Zenon DEF WorkerPushes, Read, Phases, Restarts, Reading, Out, Quiet, TypeOK
<1>13. ASSUME NEW c \in C, HandleUnitEvent(c) PROVE Read'
  BY <1>13, Zenon DEF HandleUnitEvent, Read, Phases, Restarts, Reading, Out, Quiet, TypeOK
<1>14. ASSUME PollList PROVE Read'
  <2>1. \A c \in C : unit[c] \in UnitStates /\ poll'.state[c] = ListState[unit[c]]
    BY <1>14, Zenon DEF PollList, TypeOK
  <2>2. UNCHANGED unit /\ \A c \in C : c \notin misread' => unit[c] # "settling"
    BY <1>14, Zenon DEF PollList
  <2> QED BY <2>1, <2>2, ListStates, ZenonT(60) DEF Read, Quiet, Out
<1>15. ASSUME PollProbe PROVE Read'
  BY <1>15 DEF PollProbe, MaybeRestart, Read, Phases, Restarts, Reading, Out, Quiet, TypeOK
<1>16. ASSUME PollCheck PROVE Read'
  BY <1>16, CheckEffects, Zenon DEF CheckEffect, Read, Reading
<1>17. ASSUME PollPush PROVE Read'
  BY <1>17, Zenon DEF PollPush, NoPoll, Read, Phases, Restarts, Reading, Out, Quiet, TypeOK
<1>18. CASE UNCHANGED vars
  BY <1>18, Zenon DEF vars, Read, Phases, Restarts, Reading, Out, Quiet, TypeOK
<1> QED
  BY <1>1, <1>2, <1>3, <1>4, <1>5, <1>6, <1>7, <1>8, <1>9, <1>10, <1>11, <1>12, <1>13, <1>14, <1>15, <1>16, <1>17, <1>18, ZenonT(60)
     DEF Next, UnitStep, SagaStep, WorkerStep, PollStep

---------------------------------------------------------------------------
\* While the saga runs: a container it launched that has no unit ended well, and
\* with policy Never, under which there is one attempt, the others were not
\* touched.

Virgin(c) == /\ unit[c] = "none" /\ c \notin seenRunning /\ c \notin signals
             /\ worker[c] = "none" /\ poll.state[c] = "absent"

Launched == {Containers[j] : j \in 1 .. (saga.i - 1)}
            \cup (IF saga.pc = "wait" THEN {Containers[saga.i]} ELSE {})

\* The containers the saga launched are containers of the pod.
LEMMA LaunchedIn == ASSUME TypeOK PROVE Launched \subseteq C
<1>1. Containers[saga.i] \in C
  BY SetTypes, Zenon
<1>2. \A j \in 1 .. (saga.i - 1) : j \in DOMAIN Containers
  BY WatcherAssumption DEF TypeOK
<1> QED BY <1>1, <1>2, Zenon DEF Launched, C

Attempt == saga.pc # "done" =>
    /\ \A c \in Launched : unit[c] = "none" => lastExit[c] = "zero"
    /\ policy = "Never" => \A c \in C \ Launched : Virgin(c)

\* One attempt of the saga, container by container.
LEMMA AttemptStep == ASSUME TypeOK, Phases, Restarts, Runs, Attempt, [Next]_vars PROVE Attempt'
<1>1. ASSUME NEW c \in C, UnitRuns(c) PROVE Attempt'
  BY <1>1 DEF UnitRuns, Attempt, Launched, Virgin, Phases, Restarts, Runs, TypeOK
<1>2. ASSUME NEW c \in C, NEW code \in {"zero", "nonzero"}, UnitExits(c, code) PROVE Attempt'
  <2>1. Launched' = Launched /\ UNCHANGED <<saga, policy, seenRunning, signals, worker, poll>>
    BY <1>2, Zenon DEF UnitExits, Launched
  <2>2. unit'[c] # "none" /\ \A d \in C : d # c => unit'[d] = unit[d] /\ lastExit'[d] = lastExit[d]
    <3>1. \E s \in {"exited", "failed", "settling"} : unit' = [unit EXCEPT ![c] = s]
      BY <1>2, Zenon DEF UnitExits
    <3>2. unit'[c] # "none" /\ \A d \in C : d # c => unit'[d] = unit[d]
      BY <3>1, Zenon DEF TypeOK
    <3>3. \A d \in C : d # c => lastExit'[d] = lastExit[d]
      BY <1>2, Zenon DEF UnitExits, TypeOK
    <3> QED BY <3>2, <3>3, Zenon
  <2>3. unit[c] # "none"
    BY <1>2, Zenon DEF UnitExits
  <2>4. Launched \subseteq C
    BY LaunchedIn, Zenon
  <2> QED BY <2>1, <2>2, <2>3, <2>4, Zenon DEF Attempt, Virgin
<1>3. ASSUME NEW c \in C, UnitSettles(c) PROVE Attempt'
  BY <1>3 DEF UnitSettles, Attempt, Launched, Virgin, Phases, Restarts, Runs, TypeOK
<1>4. ASSUME SagaLaunch PROVE Attempt'
  <2>1. Launched' = Launched \cup {Containers[saga.i]}
    <3>1. saga.pc = "launch" /\ saga'.pc = "wait" /\ saga'.i = saga.i
      BY <1>4, Zenon DEF SagaLaunch, TypeOK
    <3> QED BY <3>1, Zenon DEF Launched
  <2>2. /\ unit'[Containers[saga.i]] # "none"
        /\ \A d \in C : d # Containers[saga.i] => unit'[d] = unit[d]
    <3>1. Containers[saga.i] \in C
      BY SetTypes, Zenon
    <3>2. unit' = [unit EXCEPT ![Containers[saga.i]] = "starting"]
      BY <1>4, Zenon DEF SagaLaunch
    <3> QED BY <3>1, <3>2, Zenon DEF TypeOK
  <2>3. saga.pc # "done" /\ UNCHANGED <<policy, lastExit, seenRunning, signals, worker, poll>>
    BY <1>4, Zenon DEF SagaLaunch
  <2>4. Launched \subseteq C
    BY LaunchedIn, Zenon
  <2> QED BY <2>1, <2>2, <2>3, <2>4, Zenon DEF Attempt, Virgin
<1>5. ASSUME SagaRuns PROVE Attempt'
  BY <1>5 DEF SagaRuns, MarkRunning, SagaDone, Attempt, Launched, Virgin, Phases, Restarts, Runs, TypeOK
<1>6. ASSUME SagaFails PROVE Attempt'
  BY <1>6 DEF SagaFails, LaunchFails, MarkRunning, SagaDone, Launching, Stop, NoStatus, Attempt, Launched, Virgin, Phases, Restarts, Runs, TypeOK
<1>7. ASSUME NEW c \in C, WorkerStops(c) PROVE Attempt'
  BY <1>7, Zenon DEF WorkerStops, Stop, WorkerFails, WorkerEnds, Attempt, Launched, Virgin, Phases, Restarts, Runs, TypeOK
<1>8. ASSUME NEW c \in C, WorkerLaunches(c) PROVE Attempt'
  BY <1>8, Zenon DEF WorkerLaunches, Stop, WorkerFails, WorkerEnds, Attempt, Launched, Virgin, Phases, Restarts, Runs, TypeOK
<1>9. ASSUME NEW c \in C, WorkerRuns(c) PROVE Attempt'
  BY <1>9, Zenon DEF WorkerRuns, MarkRunning, Attempt, Launched, Virgin, Phases, Restarts, Runs, TypeOK
<1>10. ASSUME NEW c \in C, WorkerGivesUp(c) PROVE Attempt'
  BY <1>10, Zenon DEF WorkerGivesUp, LaunchFails, MarkRunning, Stop, WorkerFails, WorkerEnds, Attempt, Launched, Virgin, Phases, Restarts, Runs, TypeOK
<1>11. ASSUME NEW c \in C, WorkerBuilds(c) PROVE Attempt'
  BY <1>11, Zenon DEF WorkerBuilds, Attempt, Launched, Virgin, Phases, Restarts, Runs, TypeOK
<1>12. ASSUME NEW c \in C, WorkerPushes(c) PROVE Attempt'
  BY <1>12, Zenon DEF WorkerPushes, Attempt, Launched, Virgin, Phases, Restarts, Runs, TypeOK
<1>13. ASSUME NEW c \in C, HandleUnitEvent(c) PROVE Attempt'
  BY <1>13 DEF HandleUnitEvent, Attempt, Launched, Virgin, Phases, Restarts, Runs, TypeOK
<1>14. ASSUME PollList PROVE Attempt'
  <2>1. Launched' = Launched
        /\ UNCHANGED <<saga, policy, unit, lastExit, seenRunning, signals, worker>>
    BY <1>14, Zenon DEF PollList, Launched
  <2>2. \A c \in C : unit[c] = "none" => poll'.state[c] = "absent"
    BY <1>14, ListStates, Zenon DEF PollList, TypeOK
  <2> QED BY <2>1, <2>2, Zenon DEF Attempt, Virgin
<1>15. ASSUME PollProbe PROVE Attempt'
  <2>1. ProbeEffect
    BY <1>15, ProbeEffects, Zenon
  <2>2. Launched' = Launched
    BY <2>1, Zenon DEF ProbeEffect, Launched
  <2>3. saga.pc # "done" => Probed = {}
    BY Zenon DEF Probed, Phases
  <2>4. saga.pc # "done" => \A c \in C : worker'[c] = worker[c]
    BY <2>1, <2>3, Zenon DEF ProbeEffect
  <2> QED BY <2>1, <2>2, <2>4, Zenon DEF Attempt, Virgin, ProbeEffect
<1>16. ASSUME PollCheck PROVE Attempt'
  <2>1. CheckEffect
    BY <1>16, CheckEffects, Zenon
  <2>2. Launched' = Launched
    BY <2>1, Zenon DEF CheckEffect, Launched
  <2>3. saga.pc # "done" => Skipped
    BY <2>1, Zenon DEF Skipped, Phases, CheckEffect, Reading
  <2> QED BY <2>1, <2>2, <2>3, Zenon DEF Attempt, Virgin, CheckEffect
<1>17. ASSUME PollPush PROVE Attempt'
  BY <1>17, ZenonT(60) DEF PollPush, NoPoll, Attempt, Launched, Virgin, Phases, Restarts, Runs, TypeOK
<1>18. CASE UNCHANGED vars
  BY <1>18, ZenonT(60) DEF vars, Attempt, Launched, Virgin, Phases, Restarts, Runs, TypeOK
<1> QED
  BY <1>1, <1>2, <1>3, <1>4, <1>5, <1>6, <1>7, <1>8, <1>9, <1>10, <1>11, <1>12, <1>13, <1>14, <1>15, <1>16, <1>17, <1>18, ZenonT(60)
     DEF Next, UnitStep, SagaStep, WorkerStep, PollStep

---------------------------------------------------------------------------
\* Once the saga is over, a container without a unit was never touched, ended
\* well, failed to launch, or is about to be launched; or the pod has failed and
\* nothing of it runs or is read as running or, after a failure, as a success.

Held(c) == \/ Virgin(c)
           \/ unit[c] = "none" /\ worker[c] # "launch" => lastExit[c] = "zero" \/ c \in broken

Last(c) == IF poll.pc = "push" THEN poll.state[c] ELSE prevStateMap[c]

Settled(c) ==
    /\ Quiet(c)
    /\ Last(c) \in Out /\ (Last(c) = "Failed" => unit[c] \in {"failed", "none"})
    /\ Reading => /\ poll.state[c] \in Out
                  /\ poll.state[c] = "Failed" => unit[c] \in {"failed", "none"}
                  /\ prevStateMap[c] = "Failed" => poll.state[c] \in {"Failed", "absent"}

Past == saga.pc = "done" =>
    \/ \A c \in C \ misread : Held(c)
    \/ phase = "Failed" /\ \A c \in C : Settled(c)

\* checkPod is right when it makes the pod Succeeded: a pod that has Failed does
\* not come to that, and in one that has not, a container that it takes for
\* exited, and that was not misread, ended well.
LEMMA SucceedsRightly ==
    ASSUME TypeOK, Phases, Restarts, Runs, Read, Past, poll.pc = "check",
           ~Skipped, Ended, Final = "Succeeded"
    PROVE  \A c \in C \ misread : /\ lastExit[c] = "zero" \/ c \in broken
                                  /\ unit[c] \in {"none", "exited"} /\ worker[c] = "none"
<1>1. \A c \in C : Exit(c) /\ c \notin restarting /\ ~Undecided(c)
  BY Zenon DEF Final, Ended, Over, Undecided
<1>2. poll.phase # "Pending" /\ phase = poll.phase /\ saga.pc = "done"
  BY Zenon DEF Phases, Reading, Skipped
<1>3. ~ \A c \in C : Settled(c) /\ phase = "Failed"
  <2> SUFFICES ASSUME \A c \in C : Settled(c) /\ phase = "Failed" PROVE FALSE
    BY Zenon
  <2>1. PICK c \in C : "absent" \notin {prevStateMap[c], poll.state[c]} /\ prevStateMap[c] # poll.state[c]
    <3>1. \E c \in C : TRUE
      BY SetTypes, Zenon
    <3> QED BY <1>2, <3>1, Zenon DEF Skipped, NeedsReeval, Terminal
  <2>2. poll.state[c] = "Exited"
    BY <1>1, <2>1, Zenon DEF Exit
  <2>3. prevStateMap[c] \in Out /\ prevStateMap[c] # "Failed"
    BY <2>2, Zenon DEF Settled, Reading, Last
  <2> QED BY <2>1, <2>2, <2>3, Zenon DEF Out
<1>4. ASSUME NEW c \in C \ misread
      PROVE  /\ lastExit[c] = "zero" \/ c \in broken
             /\ unit[c] \in {"none", "exited"} /\ worker[c] = "none"
  <2>1. worker[c] = "none" /\ poll.state[c] \in {"absent", "Exited"}
    BY <1>1, Zenon DEF Restarts, Exit
  <2>2. unit[c] \in {"none", "exited"}
    BY <1>2, <2>1, Zenon DEF Read, Reading
  <2>3. Held(c)
    <3>1. \E d \in C : TRUE
      BY Zenon
    <3> QED BY <1>2, <1>3, <3>1, Zenon DEF Past
  <2>4. ~Virgin(c)
    BY <1>1, Zenon DEF Virgin, Undecided
  <2> QED BY <2>1, <2>2, <2>3, <2>4, Zenon DEF Held, Runs
<1> QED BY <1>4, Zenon

\* The saga ends, units come and go, checkPod sweeps ended ones.
LEMMA PastStep == ASSUME TypeOK, Phases, Restarts, Runs, Read, Attempt, Past, [Next]_vars PROVE Past'
<1>1. ASSUME NEW c \in C, UnitRuns(c) PROVE Past'
  BY <1>1 DEF UnitRuns, Past, Held, Virgin, Last, Settled, Quiet, Reading, Out, Phases, Restarts, Runs, TypeOK
<1>2. ASSUME NEW c \in C, NEW code \in {"zero", "nonzero"}, UnitExits(c, code) PROVE Past'
  BY <1>2 DEF UnitExits, Past, Held, Virgin, Last, Settled, Quiet, Reading, Out, Phases, Restarts, Runs, TypeOK
<1>3. ASSUME NEW c \in C, UnitSettles(c) PROVE Past'
  BY <1>3 DEF UnitSettles, Past, Held, Virgin, Last, Settled, Quiet, Reading, Out, Phases, Restarts, Runs, TypeOK
<1>4. ASSUME SagaLaunch PROVE Past'
  BY <1>4, Zenon DEF SagaLaunch, Past, Held, Virgin, Last, Settled, Quiet, Reading, Out, Phases, Restarts, Runs, TypeOK
<1>5. ASSUME SagaRuns PROVE Past'
  <2>1. saga.pc = "wait" /\ UNCHANGED <<unit, lastExit>>
    BY <1>5, Zenon DEF SagaRuns
  <2>2. ASSUME saga'.pc = "done" PROVE Launched = C
    <3>1. saga.i \in DOMAIN Containers /\ ~(saga.i < Len(Containers))
      <4>1. saga' \in {[i |-> saga.i + 1, pc |-> "launch"], SagaDone}
            /\ (saga.i < Len(Containers) => saga' = [i |-> saga.i + 1, pc |-> "launch"])
        BY <1>5, Zenon DEF SagaRuns
      <4>2. saga' # [i |-> saga.i + 1, pc |-> "launch"]
        BY <2>2
      <4> QED BY <4>1, <4>2, Zenon DEF TypeOK
    <3>2. \A j \in DOMAIN Containers : j \in 1 .. (saga.i - 1) \/ j = saga.i
      BY <3>1, WatcherAssumption, SMT
    <3> QED BY <2>1, <3>2, LaunchedIn, Zenon DEF Launched, C
  <2> QED BY <2>1, <2>2, Zenon DEF Attempt, Past, Held
<1>6. ASSUME SagaFails PROVE Past'
  <2> SUFFICES ASSUME saga'.pc = "done", NEW c \in C \ misread' PROVE Held(c)'
    BY Zenon DEF Past
  <2>1. saga.pc # "done" /\ policy = "Never" /\ broken' = broken \cup {Containers[saga.i]}
        /\ UNCHANGED <<lastExit, worker, poll, signals>>
    <3>1. saga' # Launching
      BY DEF Launching
    <3> QED BY <1>6, <3>1, Zenon DEF SagaFails
  <2>2. CASE c = Containers[saga.i]
    BY <2>1, <2>2, Zenon DEF Held
  <2>3. CASE c # Containers[saga.i]
    <3>1. unit'[c] = unit[c]
      <4>1. unit' = unit \/ unit' = Stop(Containers[saga.i])
        BY <1>6, Zenon DEF SagaFails, LaunchFails
      <4>2. unit \in [C -> UnitStates]
        BY Zenon DEF TypeOK
      <4>3. Stop(Containers[saga.i])[c] = unit[c]
        BY <2>3, <4>2, Zenon DEF Stop
      <4> QED BY <4>1, <4>3, Zenon
    <3>2. c \in seenRunning' => c \in seenRunning
      BY <1>6, <2>3, Zenon DEF SagaFails, LaunchFails, MarkRunning
    <3>3. (unit[c] = "none" => lastExit[c] = "zero") \/ Virgin(c)
      BY <2>1, Zenon DEF Attempt
    <3> QED BY <2>1, <3>1, <3>2, <3>3, Zenon DEF Held, Virgin
  <2> QED BY <2>2, <2>3, Zenon
<1>7. ASSUME NEW c \in C, WorkerStops(c) PROVE Past'
  BY <1>7 DEF WorkerStops, Stop, WorkerFails, WorkerEnds, Past, Held, Virgin, Last, Settled, Quiet, Reading, Out, Phases, Restarts, Runs, TypeOK
<1>8. ASSUME NEW c \in C, WorkerLaunches(c) PROVE Past'
  BY <1>8 DEF WorkerLaunches, Stop, WorkerFails, WorkerEnds, Past, Held, Virgin, Last, Settled, Quiet, Reading, Out, Phases, Restarts, Runs, TypeOK
<1>9. ASSUME NEW c \in C, WorkerRuns(c) PROVE Past'
  BY <1>9 DEF WorkerRuns, MarkRunning, Past, Held, Virgin, Last, Settled, Quiet, Reading, Out, Phases, Restarts, Runs, TypeOK
<1>10. ASSUME NEW c \in C, WorkerGivesUp(c) PROVE Past'
  BY <1>10 DEF WorkerGivesUp, LaunchFails, MarkRunning, Stop, WorkerFails, WorkerEnds, Past, Held, Virgin, Last, Settled, Quiet, Reading, Out, Phases, Restarts, Runs, TypeOK
<1>11. ASSUME NEW c \in C, WorkerBuilds(c) PROVE Past'
  BY <1>11 DEF WorkerBuilds, Past, Held, Virgin, Last, Settled, Quiet, Reading, Out, Phases, Restarts, Runs, TypeOK
<1>12. ASSUME NEW c \in C, WorkerPushes(c) PROVE Past'
  BY <1>12 DEF WorkerPushes, Past, Held, Virgin, Last, Settled, Quiet, Reading, Out, Phases, Restarts, Runs, TypeOK
<1>13. ASSUME NEW c \in C, HandleUnitEvent(c) PROVE Past'
  BY <1>13 DEF HandleUnitEvent, Past, Held, Virgin, Last, Settled, Quiet, Reading, Out, Phases, Restarts, Runs, TypeOK
<1>14. ASSUME PollList PROVE Past'
  <2>1. poll.pc = "idle" /\ poll'.pc = "probe" /\ misread \subseteq misread'
        /\ UNCHANGED <<unit, lastExit, phase, saga, seenRunning, signals, worker, broken, prevStateMap>>
    BY <1>14, Zenon DEF PollList
  <2>2. \A c \in C : unit[c] \in UnitStates /\ poll'.state[c] = ListState[unit[c]]
    BY <1>14, Zenon DEF PollList, TypeOK
  <2>3. ASSUME NEW c \in C, Held(c) PROVE Held(c)'
    BY <2>1, <2>2, <2>3, ListStates, ZenonT(60) DEF Held, Virgin
  <2>4. ASSUME NEW c \in C, Settled(c) PROVE Settled(c)'
    <3>1. unit[c] \in {"none", "settling", "exited", "failed"}
      BY <2>2, <2>4, Zenon DEF Settled, Quiet, UnitStates
    <3>2. /\ poll'.state[c] \in Out
          /\ poll'.state[c] = "Failed" => unit[c] = "failed"
          /\ unit[c] \in {"failed", "none"} => poll'.state[c] \in {"Failed", "absent"}
      BY <2>2, <3>1, ListStates, ZenonT(60) DEF Out
    <3>3. Last(c) = prevStateMap[c] /\ Last(c)' = prevStateMap[c]
      BY <2>1, Zenon DEF Last
    <3> QED BY <2>1, <2>4, <3>2, <3>3, Zenon DEF Settled, Quiet
  <2> QED BY <2>1, <2>3, <2>4, Zenon DEF Past
<1>15. ASSUME PollProbe PROVE Past'
  <2>1. ProbeEffect
    BY <1>15, ProbeEffects, Zenon
  <2>2. PICK R \in SUBSET Probed :
          worker' = [c \in C |-> IF c \in R \ restarting THEN "backoff" ELSE worker[c]]
    BY <2>1, Zenon DEF ProbeEffect
  <2>3. \A c \in C : worker'[c] = worker[c]
                     \/ (worker[c] = "none" /\ worker'[c] = "backoff" /\ poll.state[c] = "Running")
    BY <2>2, Zenon DEF Restarts, Probed
  <2>4. ASSUME NEW c \in C, Held(c) PROVE Held(c)'
    BY <2>1, <2>3, <2>4, Zenon DEF ProbeEffect, Held, Virgin
  <2>5. ASSUME NEW c \in C, Settled(c) PROVE Settled(c)'
    BY <2>1, <2>5, Zenon DEF ProbeEffect, Settled, Quiet, Last, Reading
  <2> QED BY <2>1, <2>4, <2>5, Zenon DEF Past, ProbeEffect
<1>16. ASSUME PollCheck PROVE Past'
  <2>1. CheckEffect
    BY <1>16, CheckEffects, Zenon
  <2>2. CASE Skipped
    <3>1. ASSUME NEW c \in C, Held(c) PROVE Held(c)'
      BY <2>1, <2>2, <3>1, Zenon DEF CheckEffect, Held, Virgin
    <3>2. ASSUME NEW c \in C, Settled(c) PROVE Settled(c)'
      BY <2>1, <2>2, <3>2, Zenon DEF CheckEffect, Settled, Quiet, Last, Reading
    <3> QED BY <2>1, <2>2, <3>1, <3>2, Zenon DEF Past, CheckEffect
  <2>3. CASE ~Skipped /\ ~Ended
    <3>1. ASSUME NEW c \in C, Held(c) PROVE Held(c)'
      <4>1. Virgin(c) => c \notin Wanted /\ c \notin Seen
        BY Zenon DEF Virgin, Wanted, Undecided, Seen
      <4>2. worker'[c] = worker[c] \/ (c \in Wanted /\ worker[c] = "none" /\ worker'[c] = "backoff")
        BY <2>1, <2>3, Zenon DEF CheckEffect, RestartsWanted, Restarts
      <4> QED BY <2>1, <2>3, <3>1, <4>1, <4>2, Zenon DEF CheckEffect, RestartsWanted, Held, Virgin
    <3>2. ASSUME NEW c \in C, Settled(c) PROVE Settled(c)'
      BY <2>1, <2>3, <3>2, Zenon DEF CheckEffect, Settled, Quiet, Last, Reading
    <3> QED BY <2>1, <2>3, <3>1, <3>2, Zenon DEF Past, CheckEffect
  <2>4. CASE ~Skipped /\ Ended /\ Final = "Succeeded"
    BY <2>1, <2>4, SucceedsRightly, Zenon DEF CheckEffect, Past, Held
  <2>5. CASE ~Skipped /\ Ended /\ Final = "Failed"
    <3>1. ASSUME NEW c \in C PROVE Settled(c)'
      <4>1. poll.state[c] \in Out /\ worker[c] # "wait"
        BY <2>5, Zenon DEF Ended, Over, Exit, Undecided, Restarts, Out
      <4>2. Quiet(c) /\ (poll.state[c] = "Failed" => unit[c] \in {"failed", "none"})
        BY <2>1, <2>5, <4>1, Zenon DEF Read, Reading, CheckEffect, Skipped
      <4>3. unit'[c] \in {unit[c], "none"}
        BY <2>1, <2>5, Zenon DEF CheckEffect, Swept
      <4>4. Last(c)' = poll.state[c] /\ ~Reading'
        BY <2>1, Zenon DEF CheckEffect, Last, Reading
      <4> QED BY <4>1, <4>2, <4>3, <4>4, Zenon DEF Settled, Quiet
    <3> QED BY <2>1, <2>5, <3>1, Zenon DEF Past, CheckEffect
  <2> QED BY <2>2, <2>3, <2>4, <2>5, Zenon DEF Final
<1>17. ASSUME PollPush PROVE Past'
  BY <1>17, Zenon DEF PollPush, NoPoll, Past, Held, Virgin, Last, Settled, Quiet, Reading, Out, Phases, Restarts, Runs, TypeOK
<1>18. CASE UNCHANGED vars
  BY <1>18, ZenonT(60) DEF vars, Past, Held, Virgin, Last, Settled, Quiet, Reading, Out, Phases, Restarts, Runs, TypeOK
<1> QED
  BY <1>1, <1>2, <1>3, <1>4, <1>5, <1>6, <1>7, <1>8, <1>9, <1>10, <1>11, <1>12, <1>13, <1>14, <1>15, <1>16, <1>17, <1>18, ZenonT(60)
     DEF Next, UnitStep, SagaStep, WorkerStep, PollStep

---------------------------------------------------------------------------
\* The containers of a Succeeded pod, but for those whose exit was misread.

Done == phase = "Succeeded" => \A c \in C \ misread :
    /\ lastExit[c] = "zero" \/ c \in broken
    /\ unit[c] \in {"none", "exited"} /\ worker[c] = "none"
    /\ Reading => poll.state[c] \in {"absent", "Exited"}

\* checkPod asks for no restart of such a container.
LEMMA SucceededUnwanted ==
    ASSUME Restarts, Done, poll.pc = "check", phase = "Succeeded", NEW c \in C \ misread
    PROVE  c \notin Wanted
BY Zenon DEF Restarts, Done, Reading, Wanted, CrashLoops, Exit

\* A Succeeded pod stays as checkPod found it.
LEMMA DoneStep == ASSUME TypeOK, Phases, Restarts, Runs, Read, Past, Done, [Next]_vars PROVE Done'
<1>1. ASSUME NEW c \in C, UnitRuns(c) PROVE Done'
  BY <1>1 DEF UnitRuns, Done, Reading, Phases, Restarts, TypeOK
<1>2. ASSUME NEW c \in C, NEW code \in {"zero", "nonzero"}, UnitExits(c, code) PROVE Done'
  BY <1>2 DEF UnitExits, Done, Reading, Phases, Restarts, TypeOK
<1>3. ASSUME NEW c \in C, UnitSettles(c) PROVE Done'
  BY <1>3 DEF UnitSettles, Done, Reading, Phases, Restarts, TypeOK
<1>4. ASSUME SagaLaunch PROVE Done'
  BY <1>4, Zenon DEF SagaLaunch, Done, Reading, Phases, Restarts, TypeOK
<1>5. ASSUME SagaRuns PROVE Done'
  BY <1>5, Zenon DEF SagaRuns, MarkRunning, SagaDone, Done, Reading, Phases, Restarts, TypeOK
<1>6. ASSUME SagaFails PROVE Done'
  BY <1>6, Zenon DEF SagaFails, LaunchFails, MarkRunning, SagaDone, Launching, Stop, NoStatus, Done, Reading, Phases, Restarts, TypeOK
<1>7. ASSUME NEW c \in C, WorkerStops(c) PROVE Done'
  BY <1>7 DEF WorkerStops, Stop, WorkerFails, WorkerEnds, Done, Reading, Phases, Restarts, TypeOK
<1>8. ASSUME NEW c \in C, WorkerLaunches(c) PROVE Done'
  BY <1>8 DEF WorkerLaunches, Stop, WorkerFails, WorkerEnds, Done, Reading, Phases, Restarts, TypeOK
<1>9. ASSUME NEW c \in C, WorkerRuns(c) PROVE Done'
  BY <1>9 DEF WorkerRuns, MarkRunning, Done, Reading, Phases, Restarts, TypeOK
<1>10. ASSUME NEW c \in C, WorkerGivesUp(c) PROVE Done'
  BY <1>10 DEF WorkerGivesUp, LaunchFails, MarkRunning, Stop, WorkerFails, WorkerEnds, Done, Reading, Phases, Restarts, TypeOK
<1>11. ASSUME NEW c \in C, WorkerBuilds(c) PROVE Done'
  BY <1>11, ZenonT(60) DEF WorkerBuilds, Done, Reading, Phases, Restarts, TypeOK
<1>12. ASSUME NEW c \in C, WorkerPushes(c) PROVE Done'
  BY <1>12 DEF WorkerPushes, Done, Reading, Phases, Restarts, TypeOK
<1>13. ASSUME NEW c \in C, HandleUnitEvent(c) PROVE Done'
  BY <1>13, Zenon DEF HandleUnitEvent, Done, Reading, Phases, Restarts, TypeOK
<1>14. ASSUME PollList PROVE Done'
  <2>1. UNCHANGED <<unit, lastExit, phase, worker, broken>> /\ misread \subseteq misread'
    BY <1>14, Zenon DEF PollList
  <2>2. \A c \in C : unit[c] \in {"none", "exited"} => poll'.state[c] \in {"absent", "Exited"}
    BY <1>14, ListStates, Zenon DEF PollList, UnitStates
  <2> QED BY <2>1, <2>2, Zenon DEF Done
<1>15. ASSUME PollProbe PROVE Done'
  <2>1. ProbeEffect
    BY <1>15, ProbeEffects, Zenon
  <2>2. phase = "Succeeded" => Probed = {}
    BY <2>1, Zenon DEF Probed, ProbeEffect, Phases, Reading
  <2>3. phase = "Succeeded" => \A c \in C : worker'[c] = worker[c]
    BY <2>1, <2>2, Zenon DEF ProbeEffect
  <2> QED BY <2>1, <2>3, Zenon DEF Done, ProbeEffect, Reading
<1>16. ASSUME PollCheck PROVE Done'
  <2>1. CheckEffect
    BY <1>16, CheckEffects, Zenon
  <2>2. ~Reading'
    BY <2>1, Zenon DEF CheckEffect, Reading
  <2>3. CASE Skipped
    BY <2>1, <2>2, <2>3, Zenon DEF CheckEffect, Done
  <2>4. CASE ~Skipped /\ ~Ended
    <3>1. ASSUME phase = "Succeeded", NEW c \in C \ misread PROVE worker'[c] = worker[c]
      <4>1. c \notin Wanted
        BY <2>1, <3>1, SucceededUnwanted, Zenon DEF CheckEffect
      <4> QED BY <2>1, <2>4, <4>1, Zenon DEF CheckEffect, RestartsWanted
    <3> QED BY <2>1, <2>2, <2>4, <3>1, Zenon DEF CheckEffect, Done
  <2>5. CASE ~Skipped /\ Ended
    <3>1. CASE Final = "Failed"
      BY <2>1, <2>5, <3>1, Zenon DEF CheckEffect, Done
    <3>2. CASE Final = "Succeeded"
      <4>1. \A c \in C \ misread : /\ lastExit[c] = "zero" \/ c \in broken
                                   /\ unit[c] \in {"none", "exited"} /\ worker[c] = "none"
        BY <2>1, <2>5, <3>2, SucceedsRightly, Zenon DEF CheckEffect
      <4>2. Wanted = {}
        BY <2>5, Zenon DEF Ended, Over, Wanted
      <4>3. \A c \in C : worker'[c] = worker[c] /\ unit'[c] \in {unit[c], "none"}
        BY <2>1, <2>5, <4>2, Zenon DEF CheckEffect, RestartsWanted, Swept
      <4> QED BY <2>1, <2>2, <4>1, <4>3, ZenonT(60) DEF CheckEffect, Done
    <3> QED BY <3>1, <3>2, Zenon DEF Final
  <2> QED BY <2>3, <2>4, <2>5, Zenon
<1>17. ASSUME PollPush PROVE Done'
  BY <1>17, Zenon DEF PollPush, NoPoll, Done, Reading, Phases, Restarts, TypeOK
<1>18. CASE UNCHANGED vars
  BY <1>18, Zenon DEF vars, Done, Reading, Phases, Restarts, TypeOK
<1> QED
  BY <1>1, <1>2, <1>3, <1>4, <1>5, <1>6, <1>7, <1>8, <1>9, <1>10, <1>11, <1>12, <1>13, <1>14, <1>15, <1>16, <1>17, <1>18, ZenonT(60)
     DEF Next, UnitStep, SagaStep, WorkerStep, PollStep

---------------------------------------------------------------------------
\* The inductive invariant.
IInv ==
    TypeOK /\ Phases /\ Restarts /\ Pushes /\ Runs /\ Read /\ Attempt /\ Past /\ Done

\* A pod that was just accepted satisfies it.
LEMMA InitIInv == Init => IInv
<1> SUFFICES ASSUME Init PROVE IInv
  BY Zenon
<1>1. \A c \in C : /\ unit[c] = "none" /\ worker[c] = "none" /\ built[c].phase = "none"
                   /\ prevStateMap[c] = "absent" /\ poll.state[c] = "absent"
  BY NoStatusTypes, Zenon DEF Init, NoPoll
<1>2. /\ phase = "Pending" /\ saga.pc = "launch" /\ saga.i = 1 /\ poll.pc = "idle" /\ poll.phase = "none"
      /\ seenRunning = {} /\ restarting = {} /\ signals = {} /\ pushed.phase = "none"
  BY NoStatusTypes, Zenon DEF Init, NoPoll, Launching
<1>3. TypeOK
  <2>1. 1 \in DOMAIN Containers /\ 0 \in 0 .. MaxExits
    BY WatcherAssumption
  <2>2. NoPoll \in [pc : {"idle", "probe", "check", "push"}, state : [C -> MachineStates],
                     phase : {"none", "Pending", "Running"} \cup Terminal, changed : BOOLEAN]
    BY Zenon DEF NoPoll, MachineStates
  <2>3. Launching \in [i : DOMAIN Containers, pc : {"launch", "wait", "done"}]
    BY <2>1, Zenon DEF Launching
  <2>4. probes \in [C -> ProbeState]
    BY FreshTypes, Zenon DEF Init, InitProbeState
  <2>5. "none" \in UnitStates /\ "none" \in WorkerStates /\ "absent" \in MachineStates
    BY Zenon DEF UnitStates, WorkerStates, MachineStates
  <2> QED BY <2>1, <2>2, <2>3, <2>4, <2>5, NoStatusTypes, Zenon DEF Init, TypeOK
<1>4. Phases /\ Restarts /\ Pushes /\ Runs /\ Read
  BY <1>1, <1>2, Zenon DEF Phases, Restarts, Pushes, Runs, Read, Reading, Terminal
<1>5. Launched = {}
  <2>1. 1 .. (saga.i - 1) = {}
    BY <1>2
  <2> QED BY <1>2, <2>1, Zenon DEF Launched
<1>6. Attempt /\ Past /\ Done
  BY <1>1, <1>2, <1>5, Zenon DEF Attempt, Virgin, Past, Done
<1> QED BY <1>3, <1>4, <1>6, Zenon DEF IInv

\* Every step keeps it.
LEMMA NextIInv == IInv /\ [Next]_vars => IInv'
<1> SUFFICES ASSUME IInv, [Next]_vars PROVE IInv'
  BY Zenon
<1>1. TypeOK'
  BY TypeStep, Zenon DEF IInv
<1>2. Phases' /\ Restarts'
  BY PhasesStep, RestartsStep, Zenon DEF IInv
<1>3. Pushes' /\ Runs'
  BY PushesStep, RunsStep, Zenon DEF IInv
<1>4. Read' /\ Attempt'
  BY ReadStep, AttemptStep, Zenon DEF IInv
<1>5. Past' /\ Done'
  BY PastStep, DoneStep, Zenon DEF IInv
<1> QED BY <1>1, <1>2, <1>3, <1>4, <1>5, Zenon DEF IInv

\* The watcher, the saga, the restart goroutines and systemd keep it together.
THEOREM WatcherInvariant == Spec => []IInv
BY InitIInv, NextIInv, PTL DEF Spec

\* The watcher's maps, the store's entry and every status pushed have their types.
THEOREM WatcherTypeOK == Spec => []TypeOK
<1>1. IInv => TypeOK
  BY Zenon DEF IInv
<1> QED BY <1>1, WatcherInvariant, PTL

\* Every container of a pod that checkPod made Succeeded has ended with 0, does
\* not run and is not restarted, unless its exit was read while settling.
THEOREM WatcherSucceededPodsDone == Spec => []SucceededPodsDone
<1>1. IInv => SucceededPodsDone
  BY Zenon DEF IInv, Done, SucceededPodsDone
<1> QED BY <1>1, WatcherInvariant, PTL

\* No restart goroutine, eager push or coalesced push replaces a terminal status.
THEOREM WatcherTerminalStatusStays == Spec => TerminalStatusStays
<1> DEFINE A == pushed.phase \in Terminal /\ misread = {} => pushed'.phase \in Terminal
<1>1. ASSUME IInv, Next PROVE A
  <2> SUFFICES ASSUME pushed.phase \in Terminal, misread = {} PROVE pushed'.phase \in Terminal
    BY Zenon
  <2>1. phase \in Terminal /\ phase # "Pending" /\ phase # "Running"
    BY <1>1, Zenon DEF IInv, Pushes, Terminal
  <2>2. \A c \in C : worker[c] = "none"
    BY <1>1, <2>1, Zenon DEF IInv, Done, Restarts, Terminal
  <2>3. ASSUME PollCheck PROVE pushed'.phase \in Terminal
    <3>1. CheckEffect
      BY <1>1, <2>3, CheckEffects, Zenon DEF IInv
    <3>2. Final \in Terminal
      BY Zenon DEF Final, Terminal
    <3>3. CASE phase = "Failed"
      <4>1. Wanted = {}
        BY <1>1, <3>3, Zenon DEF IInv, Restarts, Wanted, CrashLoops
      <4> QED BY <3>1, <3>2, <4>1, Zenon DEF CheckEffect
    <3>4. CASE phase = "Succeeded"
      <4>1. \A c \in C : c \notin Wanted
        BY <1>1, <3>1, <3>4, SucceededUnwanted, Zenon DEF IInv, CheckEffect
      <4>2. Wanted = {}
        BY <4>1, Zenon DEF Wanted
      <4> QED BY <3>1, <3>2, <4>2, Zenon DEF CheckEffect
    <3> QED BY <2>1, <3>3, <3>4, Zenon DEF Terminal
  <2>4. ASSUME SagaStep PROVE pushed'.phase \in Terminal
    <3>1. saga.pc = "done"
      BY <1>1, <2>1, Zenon DEF IInv, Phases
    <3> QED BY <2>4, <3>1, Zenon DEF SagaStep, SagaLaunch, SagaRuns, SagaFails
  <2>5. ASSUME NEW c \in C, WorkerStep(c) PROVE pushed'.phase \in Terminal
    BY <2>2, <2>5, Zenon DEF WorkerStep, WorkerStops, WorkerLaunches, WorkerRuns, WorkerGivesUp,
       WorkerBuilds, WorkerPushes
  <2>6. ASSUME NEW c \in C, UnitStep(c) \/ HandleUnitEvent(c) PROVE pushed'.phase \in Terminal
    BY <2>6, Zenon DEF UnitStep, UnitRuns, UnitExits, UnitSettles, HandleUnitEvent
  <2>7. ASSUME PollList \/ PollProbe \/ PollPush PROVE pushed'.phase \in Terminal
    BY <2>1, <2>7, Zenon DEF PollList, PollProbe, PollPush
  <2> QED BY <1>1, <2>3, <2>4, <2>5, <2>6, <2>7, Zenon DEF Next, PollStep
<1>2. IInv /\ [Next]_vars => [A]_vars
  BY <1>1, Zenon
<1>3. TerminalStatusStays <=> [][A]_vars
  BY Zenon DEF TerminalStatusStays
<1> HIDE DEF A
<1> QED BY <1>2, <1>3, WatcherInvariant, PTL DEF Spec
=============================================================================
