------------------------------- MODULE Sandbox -------------------------------
(***************************************************************************)
(* What pods leave on the host: units, overlay mounts, network namespaces, *)
(* addresses, volume directories and staged CSI volumes, as they are made  *)
(* by the creation saga and by restarts (node/lifecycle.go), rewritten by  *)
(* ConfigMap updates (node/voltracker.go), removed by DeletePod and the    *)
(* reconciler, and found again by a process that is started anew.          *)
(*                                                                         *)
(* Containers of a pod are launched in order; the first ones may be init   *)
(* containers.  Every volume type that is a directory of the pod is one    *)
(* ConfigMap, whose version is the contents; a PVC is one CSI volume.      *)
(***************************************************************************)
EXTENDS Network, Sequences

CONSTANTS Containers,  \* the names of each pod's containers, in the order of their launch
          Inits,       \* the names that are init containers
          PVCPods,     \* the pods with a claim on the CSI volume
          ProjectedPods, \* the pods whose directory is a projected volume
          HostPIDPods, \* the pods that share the host's processes
          PawnOf,      \* the pawn of each pod
          MaxEvents    \* bound: failures, exits, updates of the ConfigMap, process deaths

VARIABLES
  cm,       \* the version of the ConfigMap
  wanted,   \* the pods whose object has no deletion timestamp
  phase,    \* the pod in the store: "none", "creating", "running", "deleting" and "gone"
  unit,     \* the units that run, as <<pod, container>>
  exited,   \* the units of init containers that exited and were not reset
  mount,    \* the overlays that are mounted, as <<pod, container>>
  netns, addr, \* the namespace of a pod and the address of its eth0
  podIP,    \* the address the pod was given
  pool,     \* the address pool of each pawn
  volume,   \* the version in a pod's volume directory, 0: no directory
  staged,   \* the CSI volume is mounted at its globalmount
  data,     \* the files of the CSI volume are there
  tracked,  \* the pods in the VolumeTracker
  job,      \* the goroutines that launch containers: a saga and a restart per pod
  deletion, \* DeletePod: "none", "units", "volumes", "untrack"
  refresh,  \* RefreshConfigMap: the pods still to write and the version
  events,
  crashed,  \* history: the process died
  raced     \* history: the pods whose deletion began while a container was being restarted

hostVars == <<unit, exited, mount, netns, addr, volume, staged, data>>
vars == <<cm, wanted, phase, hostVars, podIP, pool, tracked, job, deletion, refresh, events, crashed, raced>>

Jobs == {"saga", "restart"}
NoJob == [pc |-> "none", i |-> 1]
NoRefresh == [todo |-> {}, ver |-> 0]
App(p) == Containers[p][Len(Containers[p])]
Names(p) == {Containers[p][i] : i \in DOMAIN Containers[p]}
Of(p) == {<<p, c>> : c \in Names(p)}

ASSUME SandboxAssumption ==
  /\ \A p \in Pods : Containers[p] \in Seq(Names(p)) /\ Containers[p] # <<>>
  /\ PVCPods \subseteq Pods /\ MaxEvents \in Nat

Event == events < MaxEvents /\ events' = events + 1

\* A step of p's job fails: for a reason of its own, or because DeletePod cancelled the context of
\* the saga
Fails(j, p) == \/ j = "saga" /\ phase[p] = "deleting" /\ UNCHANGED events
               \/ Event

-----------------------------------------------------------------------------
(***************************************************************************)
(* The operations of the runtime, the image manager and the volume         *)
(* resolver that jobs, DeletePod and the reconciler are made of.           *)
(***************************************************************************)
\* ImageManager.Mount and Unmount; mounting over a mounted overlay starts from an empty upper layer
Mount(c) == mount' = mount \cup {c}
Unmount(cs) == mount' = mount \ cs

\* StopMachine waits for the stop job and resets the unit
StopMachine(cs) == unit' = unit \ cs
ResetUnit(cs) == exited' = exited \ cs

\* runProgram: a plain service with a root directory; it stays in the host's network namespace
RunProgram(c) == c \in mount

\* nspawn needs the root directory and the namespace it is told to join
UnitStarts(p, c) == IF p \in HostPIDPods THEN RunProgram(c) ELSE c \in mount /\ netns[p] # "none"

\* StartTransientUnit, tried again after a reset when the last unit of that name is still loaded.
\* It returns before the unit has started: a unit that fails to start is not an error here
RunMachine(p, c) ==
  /\ unit' = IF UnitStarts(p, c) THEN unit \cup {c} ELSE unit \ {c}
  /\ ResetUnit({c})

\* writeConfigMap writes the version the lister has
WriteConfigMap(p) == volume' = [volume EXCEPT ![p] = cm]

\* writeProjected reads the ConfigMap from the lister, or from the API server
WriteProjected(p) == volume' = [volume EXCEPT ![p] = cm]

\* The calls of a CSI driver
NodeStageVolume == staged' = TRUE
NodeUnstageVolume == staged' = FALSE

\* resolveCSI attaches the volume and stages it at the globalmount, which all pods share
ResolveCSI == NodeStageVolume
ResolvePVC(p) == IF p \in PVCPods THEN ResolveCSI ELSE UNCHANGED staged

WriteDir(p) == IF p \in ProjectedPods THEN WriteProjected(p) ELSE WriteConfigMap(p)

Resolve(p) == WriteDir(p) /\ ResolvePVC(p)

\* Resolver.Cleanup removes the pod's directory
Cleanup(p) == volume' = [volume EXCEPT ![p] = 0]

\* cleanupCSIVolume: when the driver does not unstage the volume, or cannot be reached, the
\* directory is removed with all that is in it
CleanupCSIVolume ==
  \/ NodeUnstageVolume /\ UNCHANGED <<data, events>>
  \/ staged /\ Event /\ data' = FALSE /\ UNCHANGED staged

\* A claim that cannot be read is skipped
CleanupCSI(p) ==
  IF p \in PVCPods
  THEN CleanupCSIVolume \/ (Event /\ UNCHANGED <<staged, data>>)
  ELSE UNCHANGED <<staged, data, events>>

\* The VolumeTracker's reverse index, of volumes that are a ConfigMap or a Secret
Track(p) == tracked' = IF p \in ProjectedPods THEN tracked ELSE tracked \cup {p}
Untrack(p) == tracked' = tracked \ {p}

\* RefreshConfigMap copies the pods before it writes any file
RefreshConfigMap(v) == tracked # {} /\ refresh' = [todo |-> tracked, ver |-> v]

\* LinuxNetworkManager.Teardown
TeardownNetwork(p) ==
  /\ netns' = [netns EXCEPT ![p] = "none"]
  /\ addr' = [addr EXCEPT ![p] = NoAddr]
  /\ \E released \in Releases(pool[PawnOf[p]], p) : pool' = [pool EXCEPT ![PawnOf[p]] = released]

-----------------------------------------------------------------------------
(***************************************************************************)
(* CreatePod and the network part of syncPodSandboxAndContainers.          *)
(***************************************************************************)
At(j, p, pc) == job[j][p].pc = pc
Goes(j, p, pc) == job' = [job EXCEPT ![j][p].pc = pc]
Ends(j, p) == job' = [job EXCEPT ![j][p] = NoJob]

\* An attempt is over: the saga sleeps and tries again from the start, a restart has ended
GivesUp(j, p) == job' = [job EXCEPT ![j][p] = IF j = "saga" THEN [pc |-> "backoff", i |-> 1] ELSE NoJob]

CreatePod(p) ==
  /\ p \in wanted /\ phase[p] = "none"
  /\ phase' = [phase EXCEPT ![p] = "creating"]
  /\ Goes("saga", p, "net")
  /\ UNCHANGED <<cm, wanted, hostVars, podIP, pool, tracked, deletion, refresh, events, crashed, raced>>

SagaFrame == UNCHANGED <<cm, wanted, phase, unit, exited, mount, volume, staged, data, tracked, deletion, refresh,
                         crashed, raced>>

\* Setup of a namespace that exists: the address of eth0, or a fresh one that is configured
\* nowhere
SetupRecovers(p) ==
  /\ At("saga", p, "net") /\ netns[p] # "none"
  /\ IF netns[p] = "ready"
     THEN podIP' = [podIP EXCEPT ![p] = addr[p]] /\ UNCHANGED pool /\ Goes("saga", p, "mount")
     ELSE IF Exhausted(pool[PawnOf[p]])
     THEN GivesUp("saga", p) /\ UNCHANGED <<podIP, pool>>
     ELSE /\ podIP' = [podIP EXCEPT ![p] = Offset(pool[PawnOf[p]])]
          /\ pool' = [pool EXCEPT ![PawnOf[p]] = Allocate(@, p)]
          /\ Goes("saga", p, "mount")
  /\ SagaFrame /\ UNCHANGED <<netns, addr, events>>

SetupCreates(p) ==
  /\ At("saga", p, "net") /\ netns[p] = "none"
  /\ netns' = [netns EXCEPT ![p] = "bare"]
  /\ Goes("saga", p, "addr")
  /\ SagaFrame /\ UNCHANGED <<addr, podIP, pool, events>>

\* No address is left: deleteNetns is given a name that does not exist
SetupExhausted(p) ==
  /\ At("saga", p, "addr") /\ Exhausted(pool[PawnOf[p]])
  /\ GivesUp("saga", p)
  /\ SagaFrame /\ UNCHANGED <<netns, addr, podIP, pool, events>>

SetupConfigures(p) ==
  /\ At("saga", p, "addr") /\ ~Exhausted(pool[PawnOf[p]])
  /\ pool' = [pool EXCEPT ![PawnOf[p]] = Allocate(@, p)]
  /\ netns' = [netns EXCEPT ![p] = "ready"]
  /\ addr' = [addr EXCEPT ![p] = Offset(pool[PawnOf[p]])]
  /\ podIP' = [podIP EXCEPT ![p] = Offset(pool[PawnOf[p]])]
  /\ Goes("saga", p, "mount")
  /\ SagaFrame /\ UNCHANGED events

\* One of the ip commands fails: with the context cancelled the clean-up commands fail as well
SetupFails(p) ==
  /\ At("saga", p, "addr") /\ ~Exhausted(pool[PawnOf[p]])
  /\ Fails("saga", p)
  /\ pool' = [pool EXCEPT ![PawnOf[p]].next = After(Offset(pool[PawnOf[p]]), 1)]
  /\ netns' = IF phase[p] = "deleting" THEN netns ELSE [netns EXCEPT ![p] = "none"]
  /\ GivesUp("saga", p)
  /\ SagaFrame /\ UNCHANGED <<addr, podIP>>

\* The backoff of the retry loop, which a cancelled context ends
Retry(p) ==
  /\ At("saga", p, "backoff")
  /\ IF phase[p] = "deleting" THEN Ends("saga", p) ELSE Goes("saga", p, "net")
  /\ SagaFrame /\ UNCHANGED <<netns, addr, podIP, pool, events>>

-----------------------------------------------------------------------------
(***************************************************************************)
(* launchContainer, for a job of p: the i-th container is mounted and its  *)
(* volumes resolved, its unit is run, and the job waits for it.            *)
(***************************************************************************)
Container(j, p) == <<p, Containers[p][job[j][p].i]>>
IsInit(j, p) == Container(j, p)[2] \in Inits

LaunchFrame == UNCHANGED <<cm, wanted, netns, addr, podIP, pool, data, deletion, refresh, crashed, raced>>

\* Mutant: a promoted pod is not tracked
LaunchedUntracked(j, p) ==
  IF j = "saga" /\ job[j][p].i < Len(Containers[p])
  THEN job' = [job EXCEPT ![j][p] = [pc |-> "mount", i |-> @.i + 1]] /\ UNCHANGED <<phase, tracked>>
  ELSE /\ Ends(j, p)
       /\ phase' = IF j = "saga" /\ phase[p] = "creating" THEN [phase EXCEPT ![p] = "running"] ELSE phase
       /\ UNCHANGED tracked

\* The saga goes on with the next container.  After the last one the pod is promoted and tracked.
Launched(j, p) ==
  IF j = "saga" /\ job[j][p].i < Len(Containers[p])
  THEN job' = [job EXCEPT ![j][p] = [pc |-> "mount", i |-> @.i + 1]] /\ UNCHANGED <<phase, tracked>>
  ELSE /\ Ends(j, p)
       /\ phase' = IF j = "saga" /\ phase[p] = "creating" THEN [phase EXCEPT ![p] = "running"] ELSE phase
       /\ IF j = "saga" THEN Track(p) ELSE UNCHANGED tracked

\* The watcher's last poll may have seen the init container's unit exit in an earlier attempt
LaunchSkips(p) ==
  /\ At("saga", p, "mount") /\ IsInit("saga", p)
  /\ Container("saga", p) \in exited
  /\ Launched("saga", p)
  /\ LaunchFrame /\ UNCHANGED <<unit, exited, mount, volume, staged, events>>

LaunchMounts(j, p) ==
  /\ At(j, p, "mount")
  /\ Mount(Container(j, p))
  /\ Resolve(p)
  /\ Goes(j, p, "run")
  /\ LaunchFrame /\ UNCHANGED <<phase, unit, exited, tracked, events>>

\* The pull, the mount or a volume fails; the volumes before that one are resolved
LaunchMountFails(j, p) ==
  /\ At(j, p, "mount")
  /\ Fails(j, p)
  /\ Unmount({Container(j, p)})
  /\ WriteDir(p) \/ UNCHANGED volume
  /\ GivesUp(j, p)
  /\ LaunchFrame /\ UNCHANGED <<phase, unit, exited, staged, tracked>>

\* StopMachine, ResetUnit and RunMachine
LaunchRuns(j, p) ==
  /\ At(j, p, "run")
  /\ RunMachine(p, Container(j, p))
  /\ Goes(j, p, "wait")
  /\ LaunchFrame /\ UNCHANGED <<phase, mount, volume, staged, tracked, events>>

LaunchRunFails(j, p) ==
  /\ At(j, p, "run")
  /\ Fails(j, p)
  /\ LET c == Container(j, p)
     IN  Unmount({c}) /\ StopMachine({c}) /\ ResetUnit({c})
  /\ GivesUp(j, p)
  /\ LaunchFrame /\ UNCHANGED <<phase, volume, staged, tracked>>

\* WaitForMachineExit of an init container
InitExits(p) ==
  /\ At("saga", p, "wait") /\ IsInit("saga", p)
  /\ LET c == Container("saga", p)
     IN  c \in unit /\ unit' = unit \ {c} /\ exited' = exited \cup {c} /\ Unmount({c})
  /\ Launched("saga", p)
  /\ LaunchFrame /\ UNCHANGED <<volume, staged, events>>

InitFails(p) ==
  /\ At("saga", p, "wait") /\ IsInit("saga", p)
  /\ Container("saga", p) \in unit => Fails("saga", p)
  /\ Container("saga", p) \notin unit => UNCHANGED events
  /\ Unmount({Container("saga", p)})
  /\ StopMachine({Container("saga", p)})
  /\ GivesUp("saga", p)
  /\ LaunchFrame /\ UNCHANGED <<phase, exited, volume, staged, tracked>>

\* MakeSharedMounts: no leader process, or the host's or the container's mount cannot be shared
SharedMountsFail(c) == StopMachine({c}) /\ Unmount({c})

\* runLifecycleHook: the container goes on running, and so does its overlay
PostStartFails == UNCHANGED <<unit, mount>>

\* waitForContainer, MakeSharedMounts and the PostStart hook
AppRuns(j, p) ==
  /\ At(j, p, "wait") /\ ~IsInit(j, p)
  /\ Container(j, p) \in unit
  /\ Launched(j, p)
  /\ LaunchFrame /\ UNCHANGED <<unit, exited, mount, volume, staged, events>>

AppFails(j, p) ==
  /\ At(j, p, "wait") /\ ~IsInit(j, p)
  /\ LET c == Container(j, p)
     IN  \/ \* it did not become running
            /\ c \in unit => Fails(j, p)
            /\ c \notin unit => UNCHANGED events
            /\ StopMachine({c})
            /\ UNCHANGED mount
         \/ c \in unit /\ Fails(j, p) /\ SharedMountsFail(c)
         \/ c \in unit /\ Fails(j, p) /\ PostStartFails
  /\ GivesUp(j, p)
  /\ LaunchFrame /\ UNCHANGED <<phase, exited, volume, staged, tracked>>

-----------------------------------------------------------------------------
(***************************************************************************)
(* A container exits, and restartContainer launches it again from the      *)
(* watcher's goroutine: it looks at nothing of the store on its way.       *)
(***************************************************************************)
ContainerExits(p) ==
  /\ phase[p] = "running" /\ <<p, App(p)>> \in unit /\ \A j \in Jobs : At(j, p, "none")
  /\ Event
  /\ unit' = unit \ {<<p, App(p)>>}
  /\ UNCHANGED <<cm, wanted, phase, exited, mount, netns, addr, volume, staged, data, podIP, pool, tracked, job,
                 deletion, refresh, crashed, raced>>

RestartBegins(p) ==
  /\ phase[p] = "running" /\ <<p, App(p)>> \notin unit /\ \A j \in Jobs : At(j, p, "none")
  /\ job' = [job EXCEPT !["restart"][p] = [pc |-> "backoff", i |-> Len(Containers[p])]]
  /\ UNCHANGED <<cm, wanted, phase, hostVars, podIP, pool, tracked, deletion, refresh, events, crashed, raced>>

\* After the backoff: StopMachine, ResetUnit, Unmount; then the launch, unless machined is unhealthy
RestartScrubs(p) ==
  /\ At("restart", p, "backoff")
  /\ StopMachine({<<p, App(p)>>})
  /\ Unmount({<<p, App(p)>>})
  /\ \/ Goes("restart", p, "mount") /\ UNCHANGED events
     \/ Ends("restart", p) /\ Event
  /\ UNCHANGED <<cm, wanted, phase, exited, netns, addr, volume, staged, data, podIP, pool, tracked, deletion,
                 refresh, crashed, raced>>

-----------------------------------------------------------------------------
(***************************************************************************)
(* DeletePod.                                                              *)
(***************************************************************************)
DeletePod(p) ==
  /\ phase[p] \in {"none", "creating", "running"}
  /\ wanted' = wanted \ {p}
  /\ phase' = [phase EXCEPT ![p] = "deleting"]
  /\ deletion' = [deletion EXCEPT ![p] = "units"]
  /\ raced' = IF At("restart", p, "none") THEN raced ELSE raced \cup {p}
  /\ UNCHANGED <<cm, hostVars, podIP, pool, tracked, job, refresh, events, crashed>>

DeletionFrame == UNCHANGED <<cm, wanted, job, refresh, crashed, raced>>

\* Mutant: cancelInFlight cancels the saga and does not wait for it
DeleteSandboxAtOnce(p) ==
  /\ deletion[p] = "units"
  /\ StopMachine(Of(p)) /\ ResetUnit(Of(p)) /\ Unmount(Of(p))
  /\ TeardownNetwork(p)
  /\ deletion' = [deletion EXCEPT ![p] = "volumes"]
  /\ DeletionFrame /\ UNCHANGED <<phase, volume, staged, data, podIP, tracked, events>>

\* Once cancelInFlight has seen the saga end: the units and the overlays of all containers, and the
\* network
DeleteSandbox(p) ==
  /\ deletion[p] = "units" /\ At("saga", p, "none")
  /\ StopMachine(Of(p)) /\ ResetUnit(Of(p)) /\ Unmount(Of(p))
  /\ TeardownNetwork(p)
  /\ deletion' = [deletion EXCEPT ![p] = "volumes"]
  /\ DeletionFrame /\ UNCHANGED <<phase, volume, staged, data, podIP, tracked, events>>

\* CleanupCSI and Cleanup
DeleteVolumes(p) ==
  /\ deletion[p] = "volumes"
  /\ CleanupCSI(p)
  /\ Cleanup(p)
  /\ deletion' = [deletion EXCEPT ![p] = "untrack"]
  /\ DeletionFrame /\ UNCHANGED <<phase, unit, exited, mount, netns, addr, podIP, pool, tracked>>

\* Untrack and Unregister
DeleteEnds(p) ==
  /\ deletion[p] = "untrack"
  /\ Untrack(p)
  /\ phase' = [phase EXCEPT ![p] = "gone"]
  /\ deletion' = [deletion EXCEPT ![p] = "none"]
  /\ podIP' = [podIP EXCEPT ![p] = NoAddr]
  /\ DeletionFrame /\ UNCHANGED <<hostVars, pool, events>>

-----------------------------------------------------------------------------
(***************************************************************************)
(* The ConfigMap informer's handler, the reconciler and a restart of the   *)
(* process.                                                                *)
(***************************************************************************)
ConfigMapChanges ==
  /\ Event
  /\ cm' = cm + 1
  /\ UNCHANGED <<wanted, phase, hostVars, podIP, pool, tracked, job, deletion, refresh, crashed, raced>>

\* UpdateFunc, for an update or a resync
Notify ==
  /\ refresh = NoRefresh
  /\ RefreshConfigMap(cm)
  /\ UNCHANGED <<cm, wanted, phase, hostVars, podIP, pool, tracked, job, deletion, events, crashed, raced>>

\* RefreshConfigMapDirect, which creates a directory that is not there
RefreshWrites(p) ==
  /\ p \in refresh.todo
  /\ refresh' = IF refresh.todo = {p} THEN NoRefresh ELSE [refresh EXCEPT !.todo = @ \ {p}]
  /\ volume' = [volume EXCEPT ![p] = refresh.ver]
  /\ UNCHANGED <<cm, wanted, phase, unit, exited, mount, netns, addr, staged, data, podIP, pool, tracked, job,
                 deletion, events, crashed, raced>>

\* cleanOrphans and teardown, for a unit of a pod that neither the store nor Kubernetes has
TearDownOrphan(p, c) ==
  /\ phase[p] = "gone" /\ <<p, c>> \in unit
  /\ StopMachine({<<p, c>>})
  /\ TeardownNetwork(p)
  /\ Unmount({<<p, c>>})
  /\ Cleanup(p)
  /\ UNCHANGED <<cm, wanted, phase, exited, staged, data, podIP, tracked, job, deletion, refresh, events, crashed,
                 raced>>

\* Mutant: a directory is taken for stale although the store has the pod
CleanAllDirs(p) ==
  /\ volume[p] # 0
  /\ volume' = [volume EXCEPT ![p] = 0]
  /\ UNCHANGED <<cm, wanted, phase, unit, exited, mount, netns, addr, staged, data, podIP, pool, tracked, job,
                 deletion, refresh, events, crashed, raced>>

\* Mutant: the sweep removes the directories of units it has just torn down, and no others
CleanNoDirs(p) == FALSE /\ UNCHANGED vars

CleanStaleDirs(p) ==
  /\ phase[p] \in {"none", "gone"} /\ volume[p] # 0
  /\ volume' = [volume EXCEPT ![p] = 0]
  /\ UNCHANGED <<cm, wanted, phase, unit, exited, mount, netns, addr, staged, data, podIP, pool, tracked, job,
                 deletion, refresh, events, crashed, raced>>

CleanupStaleUnits(active) == ResetUnit(UNION {Of(p) : p \in Pods \ active})

\* The process dies and its successor hydrates: pods with a running unit, and those whose state
\* file was written, are taken for running; the pool starts empty and nothing is tracked.  The
\* watcher resets the dead units of the pods that were not found
Crash ==
  /\ Event
  /\ crashed' = TRUE
  /\ \E files \in SUBSET {p \in Pods : phase[p] = "running"} :
       LET found == {p \in Pods : phase[p] # "gone" /\ (p \in files \/ Of(p) \cap unit # {})}
       IN  /\ phase' = [p \in Pods |-> IF p \in found THEN "running"
                                       ELSE IF phase[p] = "gone" THEN "gone" ELSE "none"]
           /\ podIP' = [p \in Pods |-> IF p \in found THEN podIP[p] ELSE NoAddr]
           /\ CleanupStaleUnits(found)
  /\ pool' = [n \in DOMAIN pool |-> NewPool]
  /\ job' = [j \in Jobs |-> [p \in Pods |-> NoJob]]
  /\ deletion' = [p \in Pods |-> "none"]
  /\ refresh' = NoRefresh
  /\ tracked' = {}
  /\ UNCHANGED <<cm, wanted, unit, mount, netns, addr, volume, staged, data, raced>>

-----------------------------------------------------------------------------
Init ==
  /\ cm = 1 /\ wanted = Pods
  /\ phase = [p \in Pods |-> "none"]
  /\ unit = {} /\ exited = {} /\ mount = {}
  /\ netns = [p \in Pods |-> "none"]
  /\ addr = [p \in Pods |-> NoAddr] /\ podIP = addr
  /\ pool = [n \in {PawnOf[p] : p \in Pods} |-> NewPool]
  /\ volume = [p \in Pods |-> 0]
  /\ staged = FALSE /\ data = TRUE
  /\ tracked = {}
  /\ job = [j \in Jobs |-> [p \in Pods |-> NoJob]]
  /\ deletion = [p \in Pods |-> "none"]
  /\ refresh = NoRefresh
  /\ events = 0 /\ crashed = FALSE /\ raced = {}

Setup(p) == SetupRecovers(p) \/ SetupCreates(p) \/ SetupExhausted(p) \/ SetupConfigures(p) \/ SetupFails(p)

Launch(j, p) ==
  \/ LaunchMounts(j, p) \/ LaunchMountFails(j, p) \/ LaunchRuns(j, p) \/ LaunchRunFails(j, p)
  \/ AppRuns(j, p) \/ AppFails(j, p)

Saga(p) == CreatePod(p) \/ Setup(p) \/ Retry(p) \/ LaunchSkips(p) \/ InitExits(p) \/ InitFails(p) \/ Launch("saga", p)
Restart(p) == RestartBegins(p) \/ RestartScrubs(p) \/ Launch("restart", p)
Delete(p) == DeleteSandbox(p) \/ DeleteVolumes(p) \/ DeleteEnds(p)
Reconcile(p) == CleanStaleDirs(p) \/ \E c \in Names(p) : TearDownOrphan(p, c)

Next ==
  \/ \E p \in Pods :
       \/ Saga(p) \/ Restart(p) \/ ContainerExits(p) \/ DeletePod(p) \/ Delete(p)
       \/ RefreshWrites(p) \/ Reconcile(p)
  \/ ConfigMapChanges
  \/ Notify
  \/ Crash

Spec == Init /\ [][Next]_vars

\* Goroutines run on, the informer resyncs every 40 seconds, the reconciler ticks
Fairness ==
  /\ \A p \in Pods : /\ WF_vars(Saga(p)) /\ WF_vars(Restart(p)) /\ WF_vars(Delete(p) \/ (p \notin wanted /\ DeletePod(p)))
                     /\ WF_vars(RefreshWrites(p)) /\ WF_vars(Reconcile(p))
  /\ WF_vars(Notify)

FairSpec == Spec /\ Fairness

-----------------------------------------------------------------------------
TypeOK ==
  /\ cm \in 1..(MaxEvents + 1) /\ wanted \subseteq Pods /\ tracked \subseteq Pods /\ raced \subseteq Pods
  /\ phase \in [Pods -> {"none", "creating", "running", "deleting", "gone"}]
  /\ (unit \cup exited \cup mount) \subseteq UNION {Of(p) : p \in Pods}
  /\ netns \in [Pods -> Namespaces]
  /\ addr \in [Pods -> Offsets \cup {NoAddr}] /\ podIP \in [Pods -> Offsets \cup {NoAddr}]
  /\ \A n \in DOMAIN pool : pool[n].next \in Offsets /\ pool[n].inUse \in [Offsets -> Pods \cup {NoPod}]
  /\ volume \in [Pods -> 0..cm] /\ staged \in BOOLEAN /\ data \in BOOLEAN /\ crashed \in BOOLEAN
  /\ \A j \in Jobs, p \in Pods : job[j][p].pc \in {"none", "net", "addr", "mount", "run", "wait", "backoff"}
  /\ deletion \in [Pods -> {"none", "units", "volumes", "untrack"}]
  /\ refresh.todo \subseteq Pods /\ refresh.ver \in 0..cm
  /\ events \in 0..MaxEvents

\* While no goroutine is at work on a pod that syncPodSandboxAndContainers promoted, each of its
\* units has what it runs in: its overlay, a network namespace, its volumes and its claim
RunningHasSandbox ==
  \A p \in Pods :
    (phase[p] = "running" /\ (p \in tracked \/ ~crashed) /\ \A j \in Jobs : At(j, p, "none")) =>
      \A c \in Of(p) \cap unit :
        c \in mount /\ netns[p] # "none" /\ volume[p] # 0 /\ (p \in PVCPods => staged)

\* teardownPodIdempotent "scrubs any trace of the pod": after DeletePod no namespace, address or
\* tracking entry is left, and no unit and no overlay either unless a container was being restarted
\* when the deletion began
NothingLeft ==
  \A p \in Pods :
    phase[p] = "gone" =>
      /\ netns[p] = "none" /\ p \notin tracked
      /\ p \notin raced => Of(p) \cap (unit \cup exited \cup mount) = {}

\* A pod has its address until DeletePod has torn its network down
Addressed(p) == podIP[p] # NoAddr /\ deletion[p] \in {"none", "units"}

\* Two pods of a pawn that have an address have different ones (as long as the process that gave
\* them out lives), however often Setup is tried again and whatever is released meanwhile
AddressesDistinct ==
  ~crashed => \A p, q \in Pods : (p # q /\ Addressed(p) /\ Addressed(q) /\ PawnOf[p] = PawnOf[q]) =>
                                  podIP[p] # podIP[q]

\* "IPs are re-discovered from running netns interfaces rather than persisted state": no restart of
\* the process lets two running pods have one address
DistinctIPs ==
  \A p, q \in Pods : (p # q /\ netns[p] = "ready" /\ netns[q] = "ready") => addr[p] # addr[q]

\* A change of the ConfigMap reaches every pod that runs, also one that was being created while
\* the update was handed out (until a restart of the process, after which nothing is tracked, and
\* for volumes that are no projected ones)
VolumesFresh == \A p \in Pods \ ProjectedPods : <>[](phase[p] = "running" /\ ~crashed => volume[p] = cm)

\* A pod with a deletion timestamp ends, DeletePod never waiting for ever for the saga, and what a
\* restart or a refresh brings back behind the deletion is removed by the reconciler
DeletedPodsVanish ==
  \A p \in Pods : <>[](p \in wanted \/ (phase[p] = "gone" /\ Of(p) \cap unit = {} /\ volume[p] = 0))
=============================================================================
