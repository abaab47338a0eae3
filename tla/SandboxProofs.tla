---------------------------- MODULE SandboxProofs ----------------------------
(***************************************************************************)
(* Proofs about Sandbox, for any pods and pawns, any containers of a pod,  *)
(* any address range and any number of failures and crashes.               *)
(***************************************************************************)
EXTENDS Sandbox, WellFoundedInduction, TLAPS

Pawns == {PawnOf[p] : p \in Pods}
Phases == {"none", "creating", "running", "deleting", "gone"}
JobPCs == {"none", "net", "addr", "mount", "run", "wait", "backoff"}
JobOf(p) == [pc : JobPCs, i : 1 .. Len(Containers[p])]
PoolState == [next : Offsets, inUse : [Offsets -> Pods \cup {NoPod}]]

\* The types of what decides over a pod's sandbox; a restart launches the last container
Typed ==
  /\ phase \in [Pods -> Phases] /\ deletion \in [Pods -> {"none", "units", "volumes", "untrack"}]
  /\ netns \in [Pods -> Namespaces] /\ addr \in [Pods -> Offsets \cup {NoAddr}] /\ podIP \in [Pods -> Offsets \cup {NoAddr}]
  /\ pool \in [Pawns -> PoolState]
  /\ DOMAIN job = Jobs /\ \A j \in Jobs : DOMAIN job[j] = Pods /\ \A p \in Pods : job[j][p] \in JobOf(p)
  /\ \A p \in Pods : At("restart", p, "none") \/ job["restart"][p].i = Len(Containers[p])
  /\ cm \in Nat \ {0} /\ volume \in [Pods -> Nat] /\ tracked \subseteq Pods
  /\ refresh \in [todo : SUBSET Pods, ver : Nat] /\ (refresh.todo # {} => refresh.ver # 0)

\* Which goroutines a pod may have in which phase
Lifecycle(p) ==
  /\ deletion[p] # "none" <=> phase[p] = "deleting"
  /\ ~At("saga", p, "none") => phase[p] = "creating" \/ deletion[p] = "units"
  /\ ~At("restart", p, "none") => phase[p] \in {"running", "deleting", "gone"}
  /\ p \notin raced /\ phase[p] \in {"deleting", "gone"} => At("restart", p, "none")

\* DeletePod has torn the network down
Down(p) == phase[p] = "gone" \/ deletion[p] \in {"volumes", "untrack"}

Torn(p) ==
  /\ Down(p) => netns[p] = "none" /\ (p \notin raced => Of(p) \cap (unit \cup exited \cup mount) = {})
  /\ phase[p] = "gone" => p \notin tracked /\ podIP[p] = NoAddr

TornInv == \A p \in Pods : Lifecycle(p) /\ Torn(p)

\* The pool has the addresses of the pods, and those their namespaces were given
Held(p) ==
  /\ Addressed(p) => pool[PawnOf[p]].inUse[podIP[p]] = p
  /\ netns[p] = "ready" => addr[p] \in Offsets /\ pool[PawnOf[p]].inUse[addr[p]] = p

HeldInv == ~crashed => \A p \in Pods : Held(p)

\* A pod this process has created or is about to
Kept(p) == phase[p] = "creating" \/ (phase[p] = "running" /\ (p \in tracked \/ ~crashed))

SagaIn(p, pcs) == job["saga"][p].pc \in pcs
Nth(p, k) == <<p, Containers[p][k]>>
Resolved(p) == volume[p] # 0 /\ (p \in PVCPods => staged)

\* The volumes have been resolved once
Begun(p) ==
  \/ phase[p] = "running" \/ Of(p) \cap exited # {} \/ SagaIn(p, {"run", "wait"})
  \/ SagaIn(p, {"mount"}) /\ job["saga"][p].i > 1

\* How far the creation of a pod's sandbox has come
Made(p) ==
  /\ SagaIn(p, {"none", "net", "addr", "backoff"}) => job["saga"][p].i = 1
  /\ phase[p] = "none" => Of(p) \cap (unit \cup exited) = {}
  /\ Of(p) \cap unit \cap exited = {}
  /\ Kept(p) =>
       /\ Begun(p) => Resolved(p)
       /\ phase[p] = "running" \/ SagaIn(p, {"mount", "run", "wait"}) => netns[p] # "none"
       /\ SagaIn(p, {"mount", "run", "wait"}) =>
            \A k \in 1 .. (job["saga"][p].i - 1) : Nth(p, k) \in unit => Nth(p, k) \in mount
       /\ SagaIn(p, {"run", "wait"}) => Nth(p, job["saga"][p].i) \in mount
       /\ phase[p] = "running" => Of(p) \cap unit \subseteq mount
       /\ job["restart"][p].pc \in {"backoff", "mount", "run"} => <<p, App(p)>> \notin unit

MadeInv == \A p \in Pods : Made(p)

-----------------------------------------------------------------------------
(***************************************************************************)
(* The address pool.                                                       *)
(***************************************************************************)
\* The offsets from any one on wrap around within the range
LEMMA AfterIn ==
  ASSUME NEW o \in Offsets, NEW k \in Nat
  PROVE  After(o, k) \in Offsets
<1> DEFINE x == o - 2 + k  m == MaxOffset - 1
<1>1. x \in Nat /\ m \in Nat \ {0}
  BY NetworkAssumption DEF Offsets
<1>2. \A a \in Nat, b \in Nat \ {0} : a % b \in 0 .. (b - 1)
  OBVIOUS
<1>3. After(o, k) = 2 + (x % m)
  BY Zenon DEF After
<1>4. x % m \in 0 .. (m - 1)
  BY <1>1, <1>2, Zenon
<1> HIDE DEF x
<1> QED
  BY <1>3, <1>4, NetworkAssumption DEF Offsets

\* A set of numbers has a smallest one
LEMMA SmallestIn ==
  ASSUME NEW S \in SUBSET Nat, S # {}
  PROVE  \E k \in S : \A m \in S : k <= m
<1>1. PICK k \in S : \A m \in S : ~(<<m, k>> \in OpToRel(<, Nat))
  BY NatLessThanWellFounded, WFMin, Zenon
<1>2. \A m \in S : ~(m < k)
  BY <1>1, Zenon DEF OpToRel
<1>3. k \in Nat /\ \A m \in S : m \in Nat
  OBVIOUS
<1> QED
  BY <1>2, <1>3

\* ipPool.Allocate gives an address that nobody has
LEMMA OffsetFree ==
  ASSUME NEW po \in PoolState, ~Exhausted(po)
  PROVE  Offset(po) \in Offsets /\ po.inUse[Offset(po)] = NoPod
<1>1. Distances(po) \in SUBSET Nat /\ Distances(po) # {}
  BY NetworkAssumption DEF Distances, Exhausted
<1>2. Nearest(po) \in Distances(po)
  BY <1>1, SmallestIn, Zenon DEF Nearest
<1>3. Nearest(po) \in Nat /\ po.inUse[After(po.next, Nearest(po))] = NoPod
  BY <1>1, <1>2, Zenon DEF Distances
<1>4. po.next \in Offsets
  BY Zenon DEF PoolState
<1> QED
  BY <1>3, <1>4, AfterIn, Zenon DEF Offset

\* What each pod has in a pool stays its own while another pod takes or gives back an address
OthersKeep(po, new, p) ==
  /\ new \in PoolState
  /\ \A q \in Pods \ {p}, o \in Offsets : po.inUse[o] = q => new.inUse[o] = q

\* ipPool.Allocate
LEMMA AllocateIs ==
  ASSUME NEW po \in PoolState, ~Exhausted(po), NEW p \in Pods
  PROVE  /\ OthersKeep(po, Allocate(po, p), p)
         /\ \A o \in Offsets : po.inUse[o] = p => Allocate(po, p).inUse[o] = p
         /\ Allocate(po, p).inUse[Offset(po)] = p
<1>1. Offset(po) \in Offsets /\ po.inUse[Offset(po)] = NoPod
  BY OffsetFree, Zenon
<1>2. After(Offset(po), 1) \in Offsets
  BY <1>1, AfterIn, Zenon
<1> DEFINE new == [po.inUse EXCEPT ![Offset(po)] = p]
<1>3. po.inUse \in [Offsets -> Pods \cup {NoPod}]
  BY Zenon DEF PoolState
<1>4. new \in [Offsets -> Pods \cup {NoPod}] /\ new[Offset(po)] = p
  BY <1>1, <1>3, Zenon
<1>5. \A o \in Offsets : po.inUse[o] # NoPod => new[o] = po.inUse[o]
  BY <1>1, <1>3, Zenon
<1>6. Allocate(po, p) = [next |-> After(Offset(po), 1), inUse |-> new]
  BY Zenon DEF Allocate
<1> HIDE DEF new
<1>7. Allocate(po, p).inUse = new /\ Allocate(po, p) \in PoolState
  BY <1>2, <1>4, <1>6 DEF PoolState
<1> QED
  BY <1>4, <1>5, <1>7, NetworkAssumption, Zenon DEF OthersKeep

\* ipPool.Release
LEMMA ReleaseIs ==
  ASSUME NEW po \in PoolState, NEW p \in Pods, NEW new \in Releases(po, p)
  PROVE  OthersKeep(po, new, p)
<1>1. CASE new = po
  BY <1>1, Zenon DEF OthersKeep
<1>2. CASE \E o \in Offsets : po.inUse[o] = p /\ new = [po EXCEPT !.inUse[o] = NoPod]
  <2>1. PICK o \in Offsets : po.inUse[o] = p /\ new = [po EXCEPT !.inUse[o] = NoPod]
    BY <1>2, Zenon
  <2>2. new.next = po.next /\ new.inUse = [po.inUse EXCEPT ![o] = NoPod] /\ new \in PoolState
    BY <2>1, Zenon DEF PoolState
  <2> QED
    BY <2>1, <2>2, Zenon DEF OthersKeep, PoolState
<1> QED
  BY <1>1, <1>2, Zenon DEF Releases

-----------------------------------------------------------------------------
(***************************************************************************)
(* The goroutine that a step advances.                                     *)
(***************************************************************************)
JobBecomes(j, p, new) ==
  /\ DOMAIN job' = Jobs /\ \A k \in Jobs : DOMAIN job'[k] = Pods
  /\ job'[j][p] = new
  /\ \A k \in Jobs, q \in Pods : k # j \/ q # p => job'[k][q] = job[k][q]

\* Goroutines are apart from each other
LEMMA JobSet ==
  ASSUME Typed, NEW j \in Jobs, NEW p \in Pods, NEW new, job' = [job EXCEPT ![j][p] = new]
  PROVE  JobBecomes(j, p, new)
<1>1. DOMAIN job = Jobs /\ \A k \in Jobs : DOMAIN job[k] = Pods
  BY Zenon DEF Typed
<1>2. job' = [job EXCEPT ![j] = [job[j] EXCEPT ![p] = new]]
  BY Zenon
<1>3. DOMAIN job' = Jobs /\ job'[j] = [job[j] EXCEPT ![p] = new] /\ \A k \in Jobs : k # j => job'[k] = job[k]
  BY <1>1, <1>2, Zenon
<1>4. DOMAIN job'[j] = Pods /\ job'[j][p] = new /\ \A q \in Pods : q # p => job'[j][q] = job[j][q]
  BY <1>1, <1>3, Zenon
<1> QED
  BY <1>1, <1>3, <1>4, Zenon DEF JobBecomes

\* The step of a goroutine within its container
LEMMA JobGoes ==
  ASSUME Typed, NEW j \in Jobs, NEW p \in Pods, NEW pc, Goes(j, p, pc)
  PROVE  JobBecomes(j, p, [pc |-> pc, i |-> job[j][p].i])
<1>1. job[j][p] \in JobOf(p) /\ DOMAIN job = Jobs /\ DOMAIN job[j] = Pods
  BY Zenon DEF Typed
<1>2. [job[j][p] EXCEPT !.pc = pc] = [pc |-> pc, i |-> job[j][p].i]
  BY <1>1 DEF JobOf
<1>3. job' = [job EXCEPT ![j][p] = [job[j][p] EXCEPT !.pc = pc]]
  BY <1>1, Zenon DEF Goes
<1> QED
  BY <1>2, <1>3, JobSet, Zenon

\* Where a goroutine is after such a step
LEMMA GoesTo ==
  ASSUME Typed, NEW j \in Jobs, NEW p \in Pods, NEW pc, Goes(j, p, pc)
  PROVE  job'[j][p].pc = pc /\ job'[j][p].i = job[j][p].i
<1>1. JobBecomes(j, p, [pc |-> pc, i |-> job[j][p].i])
  BY JobGoes, Zenon
<1> QED
  BY <1>1 DEF JobBecomes

\* A goroutine that ends, and a saga that backs off
LEMMA JobEnds ==
  ASSUME Typed, NEW j \in Jobs, NEW p \in Pods
  PROVE  /\ Ends(j, p) => JobBecomes(j, p, NoJob)
         /\ GivesUp(j, p) => \E new \in {NoJob, [pc |-> "backoff", i |-> 1]} :
                               JobBecomes(j, p, new) /\ (j # "saga" => new = NoJob)
BY JobSet, Zenon DEF Ends, GivesUp

\* A container is launched: the saga's next one, or the last
LEMMA LaunchedIs ==
  ASSUME Typed, NEW j \in Jobs, NEW p \in Pods, Launched(j, p), ~At(j, p, "none")
  PROVE  \/ /\ j = "saga" /\ job[j][p].i < Len(Containers[p])
            /\ JobBecomes(j, p, [pc |-> "mount", i |-> job[j][p].i + 1]) /\ UNCHANGED <<phase, tracked>>
         \/ /\ job[j][p].i = Len(Containers[p])
            /\ JobBecomes(j, p, NoJob)
            /\ phase' = IF j = "saga" /\ phase[p] = "creating" THEN [phase EXCEPT ![p] = "running"] ELSE phase
            /\ IF j = "saga" THEN Track(p) ELSE UNCHANGED tracked
<1>1. job[j][p] \in JobOf(p) /\ (j = "restart" => job[j][p].i = Len(Containers[p]))
  BY Zenon DEF Typed, Jobs
<1>2. Len(Containers[p]) \in Nat /\ job[j][p].i \in 1 .. Len(Containers[p])
  BY <1>1, SandboxAssumption DEF JobOf
<1>3. CASE j = "saga" /\ job[j][p].i < Len(Containers[p])
  <2>1. job' = [job EXCEPT ![j][p] = [pc |-> "mount", i |-> job[j][p].i + 1]] /\ UNCHANGED <<phase, tracked>>
    BY <1>3, Zenon DEF Launched
  <2> QED
    BY <1>3, <2>1, JobSet, Zenon
<1>4. CASE ~(j = "saga" /\ job[j][p].i < Len(Containers[p]))
  <2>1. /\ Ends(j, p)
        /\ phase' = IF j = "saga" /\ phase[p] = "creating" THEN [phase EXCEPT ![p] = "running"] ELSE phase
        /\ IF j = "saga" THEN Track(p) ELSE UNCHANGED tracked
    BY <1>4, Zenon DEF Launched
  <2>2. job[j][p].i = Len(Containers[p])
    BY <1>1, <1>2, <1>4 DEF Jobs
  <2> QED
    BY <2>1, <2>2, JobEnds, Zenon
<1> QED
  BY <1>3, <1>4, Zenon

-----------------------------------------------------------------------------
(***************************************************************************)
(* The steps of one pod leave the others alone, but for the address pool   *)
(* and the CSI volume that they share.                                     *)
(***************************************************************************)
PodStep(p) == \/ Saga(p) \/ Restart(p) \/ ContainerExits(p) \/ DeletePod(p) \/ Delete(p) \/ RefreshWrites(p)
              \/ Reconcile(p)

HostFrame(q) ==
  /\ netns'[q] = netns[q] /\ addr'[q] = addr[q] /\ volume'[q] = volume[q]
  /\ \A c \in Of(q) : (c \in unit' <=> c \in unit) /\ (c \in exited' <=> c \in exited) /\ (c \in mount' <=> c \in mount)

Frame(q) ==
  /\ HostFrame(q)
  /\ phase'[q] = phase[q] /\ deletion'[q] = deletion[q] /\ podIP'[q] = podIP[q]
  /\ \A j \in Jobs : job'[j][q] = job[j][q]
  /\ (q \in tracked' <=> q \in tracked) /\ (q \in raced' <=> q \in raced)

\* A unit's name holds the pod's uid
LEMMA Apart ==
  ASSUME NEW p, NEW q, p # q
  PROVE  /\ \A c \in Of(q) : c \notin Of(p)
         /\ \A x : <<p, x>> \notin Of(q)
         /\ \A j \in Jobs : Container(j, p) \notin Of(q)
BY DEF Of, Container

\* A step of one pod changes nothing of another
LEMMA FrameStep ==
  ASSUME Typed, NEW p \in Pods, PodStep(p), NEW q \in Pods, q # p
  PROVE  Frame(q)
<1>a. /\ \A c \in Of(q) : c \notin Of(p)
      /\ \A x : <<p, x>> \notin Of(q)
      /\ \A j \in Jobs : Container(j, p) \notin Of(q)
  BY Apart, Zenon
<1>b. "saga" \in Jobs /\ "restart" \in Jobs
  BY Zenon DEF Jobs
<1>j. ASSUME NEW j \in Jobs, NEW new, JobBecomes(j, p, new)
      PROVE  \A k \in Jobs : job'[k][q] = job[k][q]
  BY <1>j, Zenon DEF JobBecomes
<1>g. ASSUME NEW j \in Jobs, Ends(j, p) \/ GivesUp(j, p) \/ \E pc : Goes(j, p, pc)
      PROVE  \A k \in Jobs : job'[k][q] = job[k][q]
  BY <1>g, <1>j, JobEnds, JobGoes, Zenon
<1>l. ASSUME NEW j \in Jobs, Launched(j, p), ~At(j, p, "none")
      PROVE  (\A k \in Jobs : job'[k][q] = job[k][q]) /\ phase'[q] = phase[q] /\ (q \in tracked' <=> q \in tracked)
  <2>1. \E new : JobBecomes(j, p, new)
    BY <1>l, LaunchedIs, Zenon
  <2>2. phase' = phase \/ phase' = [phase EXCEPT ![p] = "running"]
    BY <1>l, Zenon DEF Launched
  <2>3. tracked' = tracked \/ tracked' = tracked \cup {p}
    BY <1>l, Zenon DEF Launched, Track
  <2> QED
    BY <1>j, <2>1, <2>2, <2>3, Zenon DEF Typed
<1>1. CASE CreatePod(p)
  BY <1>1, <1>b, <1>g, Zenon DEF CreatePod, Frame, HostFrame, hostVars, Typed
<1>2. CASE Setup(p) \/ Retry(p)
  <2>1. \A k \in Jobs : job'[k][q] = job[k][q]
    BY <1>2, <1>b, <1>g, Zenon
       DEF Setup, SetupRecovers, SetupCreates, SetupExhausted, SetupConfigures, SetupFails, Retry
  <2>2. netns'[q] = netns[q] /\ addr'[q] = addr[q] /\ podIP'[q] = podIP[q]
    BY <1>2, Zenon DEF Setup, SetupRecovers, SetupCreates, SetupExhausted, SetupConfigures, SetupFails, Retry, Typed
  <2>3. UNCHANGED <<phase, unit, exited, mount, volume, tracked, deletion, raced>>
    BY <1>2, Zenon DEF Setup, SetupRecovers, SetupCreates, SetupExhausted, SetupConfigures, SetupFails, Retry, SagaFrame
  <2> QED
    BY <2>1, <2>2, <2>3, Zenon DEF Frame, HostFrame
<1>3. ASSUME LaunchFrame,
             \A k \in Jobs : job'[k][q] = job[k][q], phase'[q] = phase[q], q \in tracked' <=> q \in tracked,
             volume'[q] = volume[q],
             \A c \in Of(q) : (c \in unit' <=> c \in unit) /\ (c \in exited' <=> c \in exited) /\ (c \in mount' <=> c \in mount)
      PROVE  Frame(q)
  BY <1>3, Zenon DEF LaunchFrame, Frame, HostFrame
<1>4. CASE LaunchSkips(p) \/ InitExits(p) \/ InitFails(p)
  <2>1. \A k \in Jobs : job'[k][q] = job[k][q]
    BY <1>4, <1>b, <1>g, <1>l, Zenon DEF LaunchSkips, InitExits, InitFails, At
  <2>2. phase'[q] = phase[q] /\ (q \in tracked' <=> q \in tracked)
    BY <1>4, <1>b, <1>l, Zenon DEF LaunchSkips, InitExits, InitFails, At
  <2>3. \A c \in Of(q) : (c \in unit' <=> c \in unit) /\ (c \in exited' <=> c \in exited) /\ (c \in mount' <=> c \in mount)
    BY <1>4, <1>a, <1>b DEF LaunchSkips, InitExits, InitFails, Unmount, StopMachine
  <2>4. LaunchFrame /\ UNCHANGED volume
    BY <1>4, Zenon DEF LaunchSkips, InitExits, InitFails
  <2> QED
    BY <1>3, <2>1, <2>2, <2>3, <2>4, Zenon
<1>5. ASSUME NEW j \in Jobs, Launch(j, p)
      PROVE  Frame(q)
  <2>1. CASE LaunchMounts(j, p) \/ LaunchMountFails(j, p)
    <3>1. \A k \in Jobs : job'[k][q] = job[k][q]
      BY <2>1, <1>g, Zenon DEF LaunchMounts, LaunchMountFails
    <3>2. \A c \in Of(q) : (c \in unit' <=> c \in unit) /\ (c \in exited' <=> c \in exited) /\ (c \in mount' <=> c \in mount)
      BY <2>1, <1>a DEF LaunchMounts, LaunchMountFails, Mount, Unmount
    <3>3. LaunchFrame /\ UNCHANGED <<phase, tracked>>
      BY <2>1, Zenon DEF LaunchMounts, LaunchMountFails
    <3>4. volume'[q] = volume[q]
      BY <2>1, Zenon DEF LaunchMounts, LaunchMountFails, Resolve, WriteDir, WriteProjected, WriteConfigMap, Typed
    <3> QED
      BY <1>3, <3>1, <3>2, <3>3, <3>4, Zenon
  <2>2. CASE LaunchRuns(j, p) \/ LaunchRunFails(j, p) \/ AppFails(j, p)
    <3>1. \A k \in Jobs : job'[k][q] = job[k][q]
      BY <2>2, <1>g, Zenon DEF LaunchRuns, LaunchRunFails, AppFails
    <3>2. \A c \in Of(q) : (c \in unit' <=> c \in unit) /\ (c \in exited' <=> c \in exited) /\ (c \in mount' <=> c \in mount)
      BY <2>2, <1>a DEF LaunchRuns, LaunchRunFails, AppFails, RunMachine, Unmount, StopMachine, ResetUnit,
                        SharedMountsFail, PostStartFails
    <3>3. LaunchFrame /\ UNCHANGED <<phase, tracked, volume>>
      BY <2>2, Zenon DEF LaunchRuns, LaunchRunFails, AppFails
    <3> QED
      BY <1>3, <3>1, <3>2, <3>3, Zenon
  <2>3. CASE AppRuns(j, p)
    <3>1. ~At(j, p, "none") /\ Launched(j, p) /\ LaunchFrame /\ UNCHANGED <<unit, exited, mount, volume>>
      BY <2>3, Zenon DEF AppRuns, At
    <3> QED
      BY <1>3, <1>l, <3>1, Zenon
  <2> QED
    BY <1>5, <2>1, <2>2, <2>3, Zenon DEF Launch
<1>6. CASE ContainerExits(p)
  BY <1>6, <1>a, Zenon DEF ContainerExits, Frame, HostFrame
<1>7. CASE RestartBegins(p)
  <2>1. \A k \in Jobs : job'[k][q] = job[k][q]
    BY <1>7, <1>b, <1>j, JobSet, Zenon DEF RestartBegins
  <2> QED
    BY <1>7, <2>1, Zenon DEF RestartBegins, hostVars, Frame, HostFrame
<1>8. CASE RestartScrubs(p)
  <2>1. \A k \in Jobs : job'[k][q] = job[k][q]
    BY <1>8, <1>b, <1>g, Zenon DEF RestartScrubs
  <2> QED
    BY <1>8, <1>a, <2>1, Zenon DEF RestartScrubs, StopMachine, Unmount, Frame, HostFrame
<1>9. CASE DeletePod(p)
  BY <1>9, Zenon DEF DeletePod, hostVars, Frame, HostFrame, Typed
<1>10. CASE DeleteSandbox(p)
  BY <1>10, <1>a, Zenon DEF DeleteSandbox, DeletionFrame, StopMachine, ResetUnit, Unmount, TeardownNetwork, Frame, HostFrame, Typed
<1>11. CASE DeleteVolumes(p) \/ DeleteEnds(p)
  BY <1>11, Zenon DEF DeleteVolumes, DeleteEnds, DeletionFrame, Cleanup, Untrack, hostVars, Frame, HostFrame, Typed
<1>12. CASE RefreshWrites(p) \/ CleanStaleDirs(p)
  BY <1>12, Zenon DEF RefreshWrites, CleanStaleDirs, Frame, HostFrame, Typed
<1>13. ASSUME NEW x, TearDownOrphan(p, x)
       PROVE  Frame(q)
  BY <1>13, <1>a DEF TearDownOrphan, StopMachine, Unmount, TeardownNetwork, Cleanup, Frame, HostFrame, Typed
<1> QED
  BY <1>b, <1>1, <1>2, <1>4, <1>5, <1>6, <1>7, <1>8, <1>9, <1>10, <1>11, <1>12, <1>13, Zenon
     DEF PodStep, Saga, Restart, Delete, Reconcile

-----------------------------------------------------------------------------
(***************************************************************************)
(* Types.                                                                  *)
(***************************************************************************)
PhaseTypes == phase \in [Pods -> Phases] /\ deletion \in [Pods -> {"none", "units", "volumes", "untrack"}]
NetTypes ==
  /\ netns \in [Pods -> Namespaces] /\ addr \in [Pods -> Offsets \cup {NoAddr}]
  /\ podIP \in [Pods -> Offsets \cup {NoAddr}] /\ pool \in [Pawns -> PoolState]
JobTypes ==
  /\ DOMAIN job = Jobs /\ \A j \in Jobs : DOMAIN job[j] = Pods /\ \A p \in Pods : job[j][p] \in JobOf(p)
  /\ \A p \in Pods : At("restart", p, "none") \/ job["restart"][p].i = Len(Containers[p])
VolumeTypes ==
  /\ cm \in Nat \ {0} /\ volume \in [Pods -> Nat] /\ tracked \subseteq Pods
  /\ refresh \in [todo : SUBSET Pods, ver : Nat] /\ (refresh.todo # {} => refresh.ver # 0)

\* The parts of Typed
LEMMA TypedParts == Typed <=> PhaseTypes /\ NetTypes /\ JobTypes /\ VolumeTypes
BY Zenon DEF Typed, PhaseTypes, NetTypes, JobTypes, VolumeTypes

\* The goroutines stay in their types, one of them having moved
LEMMA JobKeeps ==
  ASSUME Typed, NEW j \in Jobs, NEW p \in Pods, NEW new \in JobOf(p), JobBecomes(j, p, new),
         j = "restart" => new.pc = "none" \/ new.i = Len(Containers[p])
  PROVE  JobTypes'
<1>1. \A k \in Jobs, q \in Pods : job'[k][q] \in JobOf(q)
  BY Zenon DEF Typed, JobBecomes
<1>2. \A q \in Pods : job'["restart"][q].pc = "none" \/ job'["restart"][q].i = Len(Containers[q])
  BY Zenon DEF Typed, JobBecomes, At, Jobs
<1> QED
  BY <1>1, <1>2, Zenon DEF JobTypes, JobBecomes, At

\* The places a goroutine can be sent to
LEMMA JobPlaces ==
  ASSUME Typed, NEW j \in Jobs, NEW p \in Pods
  PROVE  /\ NoJob \in JobOf(p) /\ NoJob.pc = "none" /\ [pc |-> "backoff", i |-> 1] \in JobOf(p)
         /\ \A pc \in JobPCs : [pc |-> pc, i |-> job[j][p].i] \in JobOf(p)
         /\ \A pc \in JobPCs : [pc |-> pc, i |-> Len(Containers[p])] \in JobOf(p)
<1>1. Len(Containers[p]) \in Nat \ {0} /\ job[j][p] \in JobOf(p)
  BY SandboxAssumption DEF Typed
<1> QED
  BY <1>1 DEF JobOf, NoJob, JobPCs

\* Ends, GivesUp and Goes keep the goroutines in their types
LEMMA JobMoves ==
  ASSUME Typed, NEW j \in Jobs, NEW p \in Pods, ~At(j, p, "none") \/ j = "saga",
         Ends(j, p) \/ GivesUp(j, p) \/ \E pc \in JobPCs : Goes(j, p, pc)
  PROVE  JobTypes'
<1>1. CASE Ends(j, p)
  BY <1>1, JobEnds, JobKeeps, JobPlaces, Zenon
<1>2. CASE GivesUp(j, p)
  <2>1. PICK new \in {NoJob, [pc |-> "backoff", i |-> 1]} : JobBecomes(j, p, new) /\ (j # "saga" => new = NoJob)
    BY <1>2, JobEnds, Zenon
  <2>2. new \in JobOf(p) /\ (j = "restart" => new.pc = "none")
    BY <2>1, JobPlaces, Zenon DEF Jobs
  <2> QED
    BY <2>1, <2>2, JobKeeps, Zenon
<1>3. ASSUME NEW pc \in JobPCs, Goes(j, p, pc)
      PROVE  JobTypes'
  <2> DEFINE new == [pc |-> pc, i |-> job[j][p].i]
  <2>1. JobBecomes(j, p, new) /\ new \in JobOf(p)
    BY <1>3, JobGoes, JobPlaces, Zenon
  <2>2. j = "restart" => new.i = Len(Containers[p])
    BY Zenon DEF Typed
  <2> HIDE DEF new
  <2> QED
    BY <2>1, <2>2, JobKeeps, Zenon
<1> QED
  BY <1>1, <1>2, <1>3, Zenon

\* Launched keeps the goroutines in their types
LEMMA LaunchedTypes ==
  ASSUME Typed, NEW j \in Jobs, NEW p \in Pods, Launched(j, p), ~At(j, p, "none")
  PROVE  JobTypes' /\ phase' \in [Pods -> Phases] /\ tracked' \subseteq Pods
<1>1. job[j][p] \in JobOf(p) /\ Len(Containers[p]) \in Nat \ {0}
  BY SandboxAssumption DEF Typed
<1>2. JobTypes'
  <2>1. CASE JobBecomes(j, p, NoJob)
    BY <2>1, JobKeeps, JobPlaces, Zenon
  <2>2. CASE /\ j = "saga" /\ job[j][p].i < Len(Containers[p])
             /\ JobBecomes(j, p, [pc |-> "mount", i |-> job[j][p].i + 1])
    <3>1. [pc |-> "mount", i |-> job[j][p].i + 1] \in JobOf(p) /\ j # "restart"
      BY <1>1, <2>2 DEF JobOf, JobPCs
    <3> QED
      BY <2>2, <3>1, JobKeeps, Zenon
  <2> QED
    BY <2>1, <2>2, LaunchedIs, Zenon
<1>3. phase' = phase \/ phase' = [phase EXCEPT ![p] = "running"]
  BY Zenon DEF Launched
<1>4. tracked' = tracked \/ tracked' = tracked \cup {p}
  BY Zenon DEF Launched, Track
<1> QED
  BY <1>2, <1>3, <1>4, Zenon DEF Typed, Phases

\* The goroutines of a step of p
LEMMA PodStepJobs ==
  ASSUME Typed, NEW p \in Pods, PodStep(p)
  PROVE  JobTypes'
<1>b. "saga" \in Jobs /\ "restart" \in Jobs
  BY Zenon DEF Jobs
<1>p. /\ "net" \in JobPCs /\ "addr" \in JobPCs /\ "mount" \in JobPCs /\ "run" \in JobPCs
      /\ "wait" \in JobPCs /\ "backoff" \in JobPCs
  BY Zenon DEF JobPCs
<1>u. ASSUME UNCHANGED job
      PROVE  JobTypes'
  BY <1>u, TypedParts, Zenon DEF JobTypes, At
<1>1. CASE CreatePod(p) \/ Setup(p) \/ Retry(p)
  BY <1>1, <1>b, <1>p, JobMoves, Zenon
     DEF CreatePod, Setup, SetupRecovers, SetupCreates, SetupExhausted, SetupConfigures, SetupFails, Retry
<1>2. CASE LaunchSkips(p) \/ InitExits(p) \/ InitFails(p)
  BY <1>2, <1>b, JobMoves, LaunchedTypes, Zenon DEF LaunchSkips, InitExits, InitFails, At
<1>3. ASSUME NEW j \in Jobs, Launch(j, p)
      PROVE  JobTypes'
  <2>1. ~At(j, p, "none")
    BY <1>3, Zenon DEF Launch, LaunchMounts, LaunchMountFails, LaunchRuns, LaunchRunFails, AppRuns, AppFails, At
  <2> QED
    BY <1>3, <1>p, <2>1, JobMoves, LaunchedTypes, Zenon
       DEF Launch, LaunchMounts, LaunchMountFails, LaunchRuns, LaunchRunFails, AppRuns, AppFails
<1>4. CASE RestartBegins(p)
  <2> DEFINE new == [pc |-> "backoff", i |-> Len(Containers[p])]
  <2>1. JobBecomes("restart", p, new) /\ new \in JobOf(p) /\ new.i = Len(Containers[p])
    BY <1>4, <1>b, <1>p, JobSet, JobPlaces, Zenon DEF RestartBegins
  <2> HIDE DEF new
  <2> QED
    BY <1>b, <2>1, JobKeeps, Zenon
<1>5. CASE RestartScrubs(p)
  <2>1. ~At("restart", p, "none")
    BY <1>5, Zenon DEF RestartScrubs, At
  <2> QED
    BY <1>5, <1>b, <1>p, <2>1, JobMoves, Zenon DEF RestartScrubs
<1>6. CASE ContainerExits(p) \/ DeletePod(p) \/ Delete(p) \/ RefreshWrites(p) \/ Reconcile(p)
  <2>1. UNCHANGED job
    BY <1>6, Zenon DEF ContainerExits, DeletePod, Delete, DeleteSandbox, DeleteVolumes, DeleteEnds, DeletionFrame,
                RefreshWrites, Reconcile, CleanStaleDirs, TearDownOrphan
  <2> QED
    BY <1>u, <2>1, Zenon
<1> QED
  BY <1>b, <1>1, <1>2, <1>3, <1>4, <1>5, <1>6, Zenon DEF PodStep, Saga, Restart

\* The address pool of p's pawn after a step of p: nobody else's address is taken
PoolStep(p) ==
  /\ pool' \in [Pawns -> PoolState]
  /\ \A n \in Pawns : OthersKeep(pool[n], pool'[n], p)

\* Allocate and Release keep the pool in its type and every other pod's addresses in it
LEMMA PodStepPool ==
  ASSUME Typed, NEW p \in Pods, PodStep(p)
  PROVE  PoolStep(p)
<1>1. PawnOf[p] \in Pawns /\ pool \in [Pawns -> PoolState] /\ pool[PawnOf[p]] \in PoolState
  BY Zenon DEF Typed, Pawns
<1>2. \A n \in Pawns : OthersKeep(pool[n], pool[n], p)
  BY <1>1, Zenon DEF OthersKeep
<1>u. ASSUME UNCHANGED pool
      PROVE  PoolStep(p)
  BY <1>1, <1>2, <1>u, Zenon DEF PoolStep
<1>n. ASSUME NEW new, OthersKeep(pool[PawnOf[p]], new, p), pool' = [pool EXCEPT ![PawnOf[p]] = new]
      PROVE  PoolStep(p)
  BY <1>1, <1>2, <1>n, Zenon DEF PoolStep, OthersKeep
<1>a. ASSUME ~Exhausted(pool[PawnOf[p]]), pool' = [pool EXCEPT ![PawnOf[p]] = Allocate(@, p)]
      PROVE  PoolStep(p)
  BY <1>1, <1>n, <1>a, AllocateIs, Zenon
<1>t. ASSUME TeardownNetwork(p)
      PROVE  PoolStep(p)
  BY <1>1, <1>n, <1>t, ReleaseIs, Zenon DEF TeardownNetwork
<1>3. CASE SetupRecovers(p) \/ SetupConfigures(p)
  BY <1>3, <1>u, <1>a, Zenon DEF SetupRecovers, SetupConfigures
<1>4. CASE SetupFails(p)
  <2> DEFINE po == pool[PawnOf[p]]  o == After(Offset(po), 1)
  <2>1. ~Exhausted(po) /\ pool' = [pool EXCEPT ![PawnOf[p]].next = o]
    BY <1>4, Zenon DEF SetupFails
  <2>2. o \in Offsets
    BY <1>1, <2>1, OffsetFree, AfterIn, Zenon
  <2>3. pool' = [pool EXCEPT ![PawnOf[p]] = [po EXCEPT !.next = o]]
    BY <2>1, Zenon
  <2> HIDE DEF o
  <2>4. [po EXCEPT !.next = o] \in PoolState /\ [po EXCEPT !.next = o].inUse = po.inUse
    BY <1>1, <2>2, Zenon DEF PoolState
  <2>5. OthersKeep(po, [po EXCEPT !.next = o], p)
    BY <2>4, Zenon DEF OthersKeep
  <2> QED
    BY <1>n, <2>3, <2>5, Zenon
<1>5. CASE CreatePod(p) \/ SetupCreates(p) \/ SetupExhausted(p) \/ Retry(p) \/ LaunchSkips(p) \/ InitExits(p)
           \/ InitFails(p) \/ Launch("saga", p) \/ Restart(p) \/ ContainerExits(p) \/ DeletePod(p)
           \/ DeleteVolumes(p) \/ DeleteEnds(p) \/ RefreshWrites(p) \/ CleanStaleDirs(p)
  <2>1. UNCHANGED pool
    BY <1>5, Zenon DEF CreatePod, SetupCreates, SetupExhausted, Retry, LaunchSkips, InitExits, InitFails, Launch, LaunchFrame,
                LaunchMounts, LaunchMountFails, LaunchRuns, LaunchRunFails, AppRuns, AppFails, Restart, RestartBegins,
                RestartScrubs, ContainerExits, DeletePod, DeleteVolumes, DeleteEnds, RefreshWrites, CleanStaleDirs
  <2> QED
    BY <1>u, <2>1, Zenon
<1>6. CASE DeleteSandbox(p) \/ \E c \in Names(p) : TearDownOrphan(p, c)
  BY <1>6, <1>t, Zenon DEF DeleteSandbox, TearDownOrphan
<1> QED
  BY <1>3, <1>4, <1>5, <1>6, Zenon DEF PodStep, Saga, Setup, Delete, Reconcile

\* The phases, the namespaces and the addresses of a step of p
LEMMA PodStepTypes ==
  ASSUME Typed, NEW p \in Pods, PodStep(p)
  PROVE  PhaseTypes' /\ NetTypes' /\ tracked' \subseteq Pods
<1>t. PhaseTypes /\ NetTypes /\ tracked \subseteq Pods
  BY TypedParts, Zenon DEF VolumeTypes
<1> USE <1>t DEF PhaseTypes, NetTypes, Phases
<1>b. "saga" \in Jobs /\ "restart" \in Jobs
  BY Zenon DEF Jobs
<1>p. pool' \in [Pawns -> PoolState]
  BY PodStepPool, Zenon DEF PoolStep
<1>u. ASSUME UNCHANGED <<netns, addr, podIP>>
      PROVE  NetTypes'
  BY <1>p, <1>u, Zenon DEF NetTypes
<1>v. ASSUME UNCHANGED <<phase, deletion>>
      PROVE  PhaseTypes'
  BY <1>v, Zenon DEF PhaseTypes
<1>1. CASE CreatePod(p) \/ DeletePod(p)
  <2>1. UNCHANGED <<netns, addr, podIP, tracked>>
    BY <1>1, Zenon DEF CreatePod, DeletePod, hostVars
  <2> QED
    BY <1>1, <1>u, <2>1, Zenon DEF CreatePod, DeletePod, PhaseTypes
<1>2. CASE Setup(p) \/ Retry(p)
  <2>1. UNCHANGED <<phase, deletion, tracked>>
    BY <1>2, Zenon DEF Setup, SetupRecovers, SetupCreates, SetupExhausted, SetupConfigures, SetupFails, Retry, SagaFrame
  <2>2. UNCHANGED netns \/ (\E x \in {"none", "bare", "ready"} : netns' = [netns EXCEPT ![p] = x])
    BY <1>2, Zenon DEF Setup, SetupRecovers, SetupCreates, SetupExhausted, SetupConfigures, SetupFails, Retry
  <2>3. netns' \in [Pods -> Namespaces]
    BY <2>2, Zenon DEF Namespaces
  <2>4. ~Exhausted(pool[PawnOf[p]]) => Offset(pool[PawnOf[p]]) \in Offsets
    BY OffsetFree, Zenon DEF Pawns
  <2>5. UNCHANGED addr \/ (~Exhausted(pool[PawnOf[p]]) /\ addr' = [addr EXCEPT ![p] = Offset(pool[PawnOf[p]])])
    BY <1>2, Zenon DEF Setup, SetupRecovers, SetupCreates, SetupExhausted, SetupConfigures, SetupFails, Retry
  <2>6. \/ UNCHANGED podIP \/ podIP' = [podIP EXCEPT ![p] = addr[p]]
        \/ ~Exhausted(pool[PawnOf[p]]) /\ podIP' = [podIP EXCEPT ![p] = Offset(pool[PawnOf[p]])]
    BY <1>2, Zenon DEF Setup, SetupRecovers, SetupCreates, SetupExhausted, SetupConfigures, SetupFails, Retry
  <2>7. addr' \in [Pods -> Offsets \cup {NoAddr}] /\ podIP' \in [Pods -> Offsets \cup {NoAddr}]
    BY <2>4, <2>5, <2>6, ZenonT(60)
  <2> QED
    BY <1>p, <1>v, <2>1, <2>3, <2>7, Zenon DEF NetTypes
<1>3. CASE LaunchSkips(p) \/ InitExits(p) \/ InitFails(p)
  <2>1. UNCHANGED <<netns, addr, podIP, deletion>>
    BY <1>3, Zenon DEF LaunchSkips, InitExits, InitFails, LaunchFrame
  <2>2. phase' \in [Pods -> Phases] /\ tracked' \subseteq Pods
    BY <1>3, <1>b, LaunchedTypes, Zenon DEF LaunchSkips, InitExits, InitFails, At
  <2> QED
    BY <1>u, <2>1, <2>2, Zenon DEF PhaseTypes
<1>4. ASSUME NEW j \in Jobs, Launch(j, p)
      PROVE  PhaseTypes' /\ NetTypes' /\ tracked' \subseteq Pods
  <2>1. UNCHANGED <<netns, addr, podIP, deletion>>
    BY <1>4, Zenon DEF Launch, LaunchMounts, LaunchMountFails, LaunchRuns, LaunchRunFails, AppRuns, AppFails, LaunchFrame
  <2>2. CASE AppRuns(j, p)
    <3>1. Launched(j, p) /\ ~At(j, p, "none")
      BY <2>2, Zenon DEF AppRuns, At
    <3>2. phase' \in [Pods -> Phases] /\ tracked' \subseteq Pods
      BY <3>1, LaunchedTypes, Zenon
    <3> QED
      BY <1>u, <2>1, <3>2, Zenon DEF PhaseTypes
  <2>3. CASE ~AppRuns(j, p)
    <3>1. UNCHANGED <<phase, tracked>>
      BY <1>4, <2>3, Zenon DEF Launch, LaunchMounts, LaunchMountFails, LaunchRuns, LaunchRunFails, AppFails
    <3> QED
      BY <1>u, <1>v, <2>1, <3>1, Zenon
  <2> QED
    BY <2>2, <2>3, Zenon
<1>5. CASE RestartBegins(p) \/ RestartScrubs(p) \/ ContainerExits(p) \/ RefreshWrites(p) \/ CleanStaleDirs(p)
  <2>1. UNCHANGED <<netns, addr, podIP, phase, deletion, tracked>>
    BY <1>5, Zenon DEF RestartBegins, RestartScrubs, ContainerExits, RefreshWrites, CleanStaleDirs, hostVars
  <2> QED
    BY <1>u, <1>v, <2>1, Zenon
<1>6. CASE DeleteSandbox(p) \/ \E c \in Names(p) : TearDownOrphan(p, c)
  <2>1. UNCHANGED <<phase, podIP, tracked>> /\ TeardownNetwork(p)
    BY <1>6, Zenon DEF DeleteSandbox, TearDownOrphan
  <2>2. UNCHANGED deletion \/ deletion' = [deletion EXCEPT ![p] = "volumes"]
    BY <1>6, Zenon DEF DeleteSandbox, TearDownOrphan
  <2>3. NetTypes'
    BY <1>p, <2>1, Zenon DEF NetTypes, TeardownNetwork, Namespaces
  <2> QED
    BY <2>1, <2>2, <2>3, Zenon DEF PhaseTypes
<1>7. CASE DeleteVolumes(p)
  BY <1>7, <1>u, Zenon DEF DeleteVolumes, PhaseTypes
<1>8. CASE DeleteEnds(p)
  <2>1. phase' = [phase EXCEPT ![p] = "gone"] /\ deletion' = [deletion EXCEPT ![p] = "none"]
    BY <1>8, Zenon DEF DeleteEnds
  <2>2. podIP' = [podIP EXCEPT ![p] = NoAddr] /\ UNCHANGED <<netns, addr>> /\ tracked' = tracked \ {p}
    BY <1>8, Zenon DEF DeleteEnds, hostVars, Untrack
  <2>3. NetTypes'
    BY <1>p, <2>2, Zenon DEF NetTypes
  <2> QED
    BY <2>1, <2>2, <2>3, Zenon DEF PhaseTypes
<1> QED
  BY <1>b, <1>1, <1>2, <1>3, <1>4, <1>5, <1>6, <1>7, <1>8, Zenon DEF PodStep, Saga, Restart, Delete, Reconcile

\* The volume directories of a step of p
LEMMA PodStepVolumes ==
  ASSUME Typed, NEW p \in Pods, PodStep(p), tracked' \subseteq Pods
  PROVE  VolumeTypes'
<1>t. VolumeTypes
  BY TypedParts, Zenon
<1> USE <1>t DEF VolumeTypes
<1>1. cm' = cm
  BY Zenon DEF PodStep, Saga, Setup, SetupRecovers, SetupCreates, SetupExhausted, SetupConfigures, SetupFails, SagaFrame,
         CreatePod, Retry, LaunchSkips, InitExits, InitFails, Restart, Launch, LaunchMounts, LaunchMountFails,
         LaunchRuns, LaunchRunFails, AppRuns, AppFails, LaunchFrame, RestartBegins, RestartScrubs, ContainerExits,
         DeletePod, Delete, DeleteSandbox, DeleteVolumes, DeleteEnds, DeletionFrame, RefreshWrites, Reconcile,
         CleanStaleDirs, TearDownOrphan
<1>r. CASE RefreshWrites(p)
  <2>1. refresh.ver \in Nat \ {0} /\ refresh.todo \in SUBSET Pods /\ p \in refresh.todo
    BY <1>r, Zenon DEF RefreshWrites
  <2>2. volume' = [volume EXCEPT ![p] = refresh.ver] /\ volume' \in [Pods -> Nat]
    BY <1>r, <2>1, Zenon DEF RefreshWrites
  <2>3. refresh' = NoRefresh \/ refresh' = [refresh EXCEPT !.todo = refresh.todo \ {p}]
    BY <1>r, Zenon DEF RefreshWrites
  <2>4. refresh' \in [todo : SUBSET Pods, ver : Nat] /\ (refresh'.todo # {} => refresh'.ver # 0)
    BY <2>1, <2>3 DEF NoRefresh
  <2> QED
    BY <1>1, <2>2, <2>4, Zenon DEF VolumeTypes
<1>2. CASE ~RefreshWrites(p)
  <2>1. refresh' = refresh
    BY <1>2, Zenon DEF PodStep, Saga, Setup, SetupRecovers, SetupCreates, SetupExhausted, SetupConfigures, SetupFails,
         SagaFrame, CreatePod, Retry, LaunchSkips, InitExits, InitFails, Restart, Launch, LaunchMounts,
         LaunchMountFails, LaunchRuns, LaunchRunFails, AppRuns, AppFails, LaunchFrame, RestartBegins, RestartScrubs,
         ContainerExits, DeletePod, Delete, DeleteSandbox, DeleteVolumes, DeleteEnds, DeletionFrame, Reconcile,
         CleanStaleDirs, TearDownOrphan
  <2>2. \E v \in {volume[p], cm, 0} : volume' = [volume EXCEPT ![p] = v]
    <3>1. volume = [volume EXCEPT ![p] = volume[p]]
      BY Zenon
    <3>2. UNCHANGED volume \/ (\E v \in {cm, 0} : volume' = [volume EXCEPT ![p] = v])
      BY <1>2, Zenon DEF PodStep, Saga, Setup, SetupRecovers, SetupCreates, SetupExhausted, SetupConfigures, SetupFails,
         SagaFrame, CreatePod, Retry, LaunchSkips, InitExits, InitFails, Restart, Launch, LaunchMounts,
         LaunchMountFails, LaunchRuns, LaunchRunFails, AppRuns, AppFails, RestartBegins, RestartScrubs,
         ContainerExits, DeletePod, Delete, DeleteSandbox, DeleteVolumes, DeleteEnds, Reconcile,
         CleanStaleDirs, TearDownOrphan, Resolve, WriteDir, WriteProjected, WriteConfigMap, Cleanup, hostVars
    <3> QED
      BY <3>1, <3>2, Zenon
  <2> QED
    BY <1>1, <2>1, <2>2 DEF VolumeTypes
<1> QED
  BY <1>r, <1>2, Zenon

\* newIPPool
LEMMA NewPoolType == NewPool \in PoolState
<1>1. 2 \in Offsets
  BY NetworkAssumption DEF Offsets
<1>2. [o \in Offsets |-> NoPod] \in [Offsets -> Pods \cup {NoPod}]
  OBVIOUS
<1> QED
  BY <1>1, <1>2, Zenon DEF NewPool, PoolState

\* A goroutine that does not run
LEMMA NoJobType == \A p \in Pods : NoJob \in JobOf(p) /\ NoJob.pc = "none"
<1> TAKE p \in Pods
<1>1. Len(Containers[p]) \in Nat \ {0}
  BY SandboxAssumption
<1> QED
  BY <1>1 DEF NoJob, JobOf, JobPCs

\* A process that is started anew has no goroutines and an empty pool
LEMMA CrashTypes ==
  ASSUME Typed, Crash
  PROVE  Typed'
<1>t. PhaseTypes /\ NetTypes /\ VolumeTypes /\ JobTypes
  BY TypedParts, Zenon
<1>1. /\ job' = [j \in Jobs |-> [p \in Pods |-> NoJob]] /\ deletion' = [p \in Pods |-> "none"]
      /\ refresh' = NoRefresh /\ tracked' = {} /\ pool' = [n \in DOMAIN pool |-> NewPool]
      /\ UNCHANGED <<cm, netns, addr, volume>>
  BY Zenon DEF Crash
<1>2. PICK found \in SUBSET Pods :
        /\ phase' = [p \in Pods |-> IF p \in found THEN "running" ELSE IF phase[p] = "gone" THEN "gone" ELSE "none"]
        /\ podIP' = [p \in Pods |-> IF p \in found THEN podIP[p] ELSE NoAddr]
  BY Zenon DEF Crash
<1>3. PhaseTypes'
  BY <1>1, <1>2, Zenon DEF PhaseTypes, Phases
<1>4. NewPool \in PoolState
  BY NewPoolType, Zenon
<1>5. NetTypes'
  BY <1>t, <1>1, <1>2, <1>4, Zenon DEF NetTypes
<1>6. \A p \in Pods : NoJob \in JobOf(p) /\ NoJob.pc = "none"
  BY NoJobType, Zenon
<1>7. "restart" \in Jobs
  BY Zenon DEF Jobs
<1>8. JobTypes'
  BY <1>1, <1>6, <1>7, Zenon DEF JobTypes, At
<1>9. VolumeTypes'
  BY <1>t, <1>1, Zenon DEF VolumeTypes, NoRefresh
<1> QED
  BY <1>3, <1>5, <1>8, <1>9, TypedParts, PTL

\* Every step keeps the types
LEMMA TypedStep ==
  ASSUME Typed, [Next]_vars
  PROVE  Typed'
<1>t. PhaseTypes /\ NetTypes /\ VolumeTypes /\ JobTypes
  BY TypedParts, Zenon
<1>1. ASSUME NEW p \in Pods, PodStep(p)
      PROVE  Typed'
  <2>1. PhaseTypes' /\ NetTypes' /\ JobTypes' /\ VolumeTypes'
    BY <1>1, PodStepTypes, PodStepJobs, PodStepVolumes, Zenon
  <2> QED
    BY <2>1, TypedParts, PTL
<1>2. ASSUME UNCHANGED <<phase, deletion, netns, addr, podIP, pool, job, tracked, volume>>, VolumeTypes'
      PROVE  Typed'
  <2>1. PhaseTypes' /\ NetTypes' /\ JobTypes'
    BY <1>t, <1>2, Zenon DEF PhaseTypes, NetTypes, JobTypes, At
  <2> QED
    BY <1>2, <2>1, TypedParts, PTL
<1>3. CASE ConfigMapChanges
  <2>1. UNCHANGED <<phase, deletion, netns, addr, podIP, pool, job, tracked, volume, refresh>> /\ cm' = cm + 1
    BY <1>3, Zenon DEF ConfigMapChanges, hostVars
  <2>2. VolumeTypes'
    BY <1>t, <2>1 DEF VolumeTypes
  <2> QED
    BY <1>2, <2>1, <2>2, Zenon
<1>4. CASE Notify
  <2>1. UNCHANGED <<phase, deletion, netns, addr, podIP, pool, job, tracked, volume, cm>>
    BY <1>4, Zenon DEF Notify, hostVars
  <2>2. refresh' = [todo |-> tracked, ver |-> cm]
    BY <1>4, Zenon DEF Notify, RefreshConfigMap
  <2>3. VolumeTypes'
    BY <1>t, <2>1, <2>2, Zenon DEF VolumeTypes
  <2> QED
    BY <1>2, <2>1, <2>3, Zenon
<1>5. CASE UNCHANGED vars
  <2>1. UNCHANGED <<phase, deletion, netns, addr, podIP, pool, job, tracked, volume, cm, refresh>>
    BY <1>5, Zenon DEF vars, hostVars
  <2>2. VolumeTypes'
    BY <1>t, <2>1, Zenon DEF VolumeTypes
  <2> QED
    BY <1>2, <2>1, <2>2, Zenon
<1> QED
  BY <1>1, <1>3, <1>4, <1>5, CrashTypes, Zenon DEF Next, PodStep

\* The initial state has the types
LEMMA TypedInit ==
  ASSUME Init
  PROVE  Typed
<1>1. PhaseTypes
  BY Zenon DEF Init, PhaseTypes, Phases
<1>2. NewPool \in PoolState
  BY NewPoolType, Zenon
<1>3. NetTypes
  BY <1>2, Zenon DEF Init, NetTypes, Namespaces, Pawns
<1>4. \A p \in Pods : NoJob \in JobOf(p) /\ NoJob.pc = "none"
  BY NoJobType, Zenon
<1>5. "restart" \in Jobs
  BY Zenon DEF Jobs
<1>6. JobTypes
  BY <1>4, <1>5, Zenon DEF Init, JobTypes, At
<1>7. VolumeTypes
  BY DEF Init, VolumeTypes, NoRefresh
<1> QED
  BY <1>1, <1>3, <1>6, <1>7, TypedParts, Zenon

\* The sandboxes, the address pools and the goroutines of all pods keep their types: an address that
\* is given out is of the range, and a restart launches the pod's last container
THEOREM SandboxTyped == Spec => []Typed
<1>1. Init => Typed
  BY TypedInit, Zenon
<1>2. Typed /\ [Next]_vars => Typed'
  BY TypedStep, Zenon
<1> QED
  BY <1>1, <1>2, PTL DEF Spec

-----------------------------------------------------------------------------
(***************************************************************************)
(* What DeletePod leaves.                                                  *)
(***************************************************************************)
SagaStep(p) == Setup(p) \/ Retry(p) \/ LaunchSkips(p) \/ InitExits(p) \/ InitFails(p) \/ Launch("saga", p)

\* A saga touches neither the deletion of its pod nor the restart, and promotes the pod at most
LEMMA SagaActs ==
  ASSUME Typed, NEW p \in Pods, SagaStep(p)
  PROVE  /\ ~At("saga", p, "none") /\ job'["restart"][p] = job["restart"][p]
         /\ UNCHANGED <<deletion, raced, crashed>>
         /\ \/ phase'[p] = phase[p]
            \/ phase[p] = "creating" /\ phase'[p] = "running" /\ job'["saga"][p].pc = "none"
<1>b. "saga" \in Jobs /\ "restart" \in Jobs /\ "saga" # "restart"
  BY Zenon DEF Jobs
<1>1. ~At("saga", p, "none")
  BY Zenon DEF SagaStep, Setup, SetupRecovers, SetupCreates, SetupExhausted, SetupConfigures, SetupFails, Retry, LaunchSkips,
         InitExits, InitFails, Launch, LaunchMounts, LaunchMountFails, LaunchRuns, LaunchRunFails, AppRuns, AppFails, At
<1>2. UNCHANGED <<deletion, raced, crashed>>
  BY Zenon DEF SagaStep, Setup, SetupRecovers, SetupCreates, SetupExhausted, SetupConfigures, SetupFails, Retry, LaunchSkips,
         InitExits, InitFails, Launch, LaunchMounts, LaunchMountFails, LaunchRuns, LaunchRunFails, AppRuns, AppFails,
         SagaFrame, LaunchFrame
<1>j. ASSUME NEW new, JobBecomes("saga", p, new)
      PROVE  job'["restart"][p] = job["restart"][p]
  BY <1>b, <1>j, Zenon DEF JobBecomes
<1>3. CASE Launched("saga", p)
  <2>1. \E new : JobBecomes("saga", p, new)
    BY <1>b, <1>1, <1>3, LaunchedIs, Zenon
  <2>2. \/ UNCHANGED phase
        \/ phase[p] = "creating" /\ phase' = [phase EXCEPT ![p] = "running"] /\ JobBecomes("saga", p, NoJob)
    BY <1>b, <1>1, <1>3, LaunchedIs, Zenon
  <2>3. \/ phase'[p] = phase[p]
        \/ phase[p] = "creating" /\ phase'[p] = "running" /\ job'["saga"][p].pc = "none"
    BY <2>2 DEF JobBecomes, Typed, NoJob
  <2> QED
    BY <1>1, <1>2, <1>j, <2>1, <2>3, Zenon
<1>4. CASE ~Launched("saga", p)
  <2>1. UNCHANGED phase
    BY <1>4, Zenon DEF SagaStep, Setup, SetupRecovers, SetupCreates, SetupExhausted, SetupConfigures, SetupFails, Retry,
         LaunchSkips, InitExits, InitFails, Launch, LaunchMounts, LaunchMountFails, LaunchRuns, LaunchRunFails, AppRuns,
         AppFails, SagaFrame
  <2>2. Ends("saga", p) \/ GivesUp("saga", p) \/ \E pc : Goes("saga", p, pc)
    BY <1>4, Zenon DEF SagaStep, Setup, SetupRecovers, SetupCreates, SetupExhausted, SetupConfigures, SetupFails, Retry,
         LaunchSkips, InitExits, InitFails, Launch, LaunchMounts, LaunchMountFails, LaunchRuns, LaunchRunFails, AppRuns,
         AppFails
  <2>3. job'["restart"][p] = job["restart"][p]
    BY <1>b, <1>j, <2>2, JobEnds, JobGoes, Zenon
  <2> QED
    BY <1>1, <1>2, <2>1, <2>3, Zenon
<1> QED
  BY <1>3, <1>4, Zenon

\* A restart looks at nothing of the store, and changes nothing there
LEMMA RestartActs ==
  ASSUME Typed, NEW p \in Pods, RestartScrubs(p) \/ Launch("restart", p)
  PROVE  /\ ~At("restart", p, "none") /\ job'["saga"][p] = job["saga"][p]
         /\ UNCHANGED <<phase, deletion, raced, crashed, netns, addr, podIP, tracked>>
<1>b. "saga" \in Jobs /\ "restart" \in Jobs /\ "saga" # "restart"
  BY Zenon DEF Jobs
<1>1. ~At("restart", p, "none")
  BY Zenon DEF RestartScrubs, Launch, LaunchMounts, LaunchMountFails, LaunchRuns, LaunchRunFails, AppRuns, AppFails, At
<1>2. UNCHANGED <<deletion, raced, crashed, netns, addr, podIP>>
  BY Zenon DEF RestartScrubs, Launch, LaunchMounts, LaunchMountFails, LaunchRuns, LaunchRunFails, AppRuns, AppFails, LaunchFrame
<1>3. \/ Launched("restart", p)
      \/ UNCHANGED <<phase, tracked>> /\ (Ends("restart", p) \/ GivesUp("restart", p) \/ \E pc : Goes("restart", p, pc))
  BY Zenon DEF RestartScrubs, Launch, LaunchMounts, LaunchMountFails, LaunchRuns, LaunchRunFails, AppRuns, AppFails
<1>4. UNCHANGED <<phase, tracked>>
  BY <1>b, <1>3, Zenon DEF Launched
<1>5. \E new : JobBecomes("restart", p, new)
  BY <1>b, <1>1, <1>3, LaunchedIs, JobEnds, JobGoes, Zenon
<1>6. job'["saga"][p] = job["saga"][p]
  BY <1>b, <1>5, Zenon DEF JobBecomes
<1> QED
  BY <1>1, <1>2, <1>4, <1>6, Zenon

\* What a pod's deletion and goroutines are stays true while another pod takes a step
LEMMA FrameTorn ==
  ASSUME NEW q \in Pods, Lifecycle(q), Torn(q), Frame(q)
  PROVE  Lifecycle(q)' /\ Torn(q)'
<1>1. \A j \in Jobs : job'[j][q] = job[j][q]
  BY Zenon DEF Frame
<1>2. /\ phase'[q] = phase[q] /\ deletion'[q] = deletion[q] /\ podIP'[q] = podIP[q] /\ netns'[q] = netns[q]
      /\ (q \in tracked' <=> q \in tracked) /\ (q \in raced' <=> q \in raced)
  BY Zenon DEF Frame, HostFrame
<1>3. Of(q) \cap (unit \cup exited \cup mount) = {} => Of(q) \cap (unit' \cup exited' \cup mount') = {}
  BY Zenon DEF Frame, HostFrame
<1> QED
  BY <1>1, <1>2, <1>3, Zenon DEF Lifecycle, Torn, Down, At, Jobs

\* DeletePod, step by step
LEMMA DeleteTorn ==
  ASSUME Typed, NEW p \in Pods, Lifecycle(p), Torn(p), DeletePod(p) \/ Delete(p)
  PROVE  Lifecycle(p)' /\ Torn(p)'
<1>t. phase \in [Pods -> Phases] /\ deletion \in [Pods -> {"none", "units", "volumes", "untrack"}]
      /\ netns \in [Pods -> Namespaces] /\ podIP \in [Pods -> Offsets \cup {NoAddr}]
  BY Zenon DEF Typed
<1>j. job' = job
  BY Zenon DEF DeletePod, Delete, DeleteSandbox, DeleteVolumes, DeleteEnds, DeletionFrame
<1>1. CASE DeletePod(p)
  <2>1. /\ phase[p] \in {"none", "creating", "running"} /\ phase'[p] = "deleting" /\ deletion'[p] = "units"
        /\ p \notin raced' => At("restart", p, "none")
    BY <1>t, <1>1, Zenon DEF DeletePod
  <2> QED
    BY <1>j, <2>1, Zenon DEF Lifecycle, Torn, Down, At
<1>2. CASE DeleteSandbox(p)
  <2>1. /\ deletion[p] = "units" /\ At("saga", p, "none") /\ deletion'[p] = "volumes" /\ netns'[p] = "none"
        /\ UNCHANGED <<phase, raced>>
    BY <1>t, <1>2, Zenon DEF DeleteSandbox, DeletionFrame, TeardownNetwork
  <2>2. Of(p) \cap (unit' \cup exited' \cup mount') = {}
    BY <1>2, Zenon DEF DeleteSandbox, StopMachine, ResetUnit, Unmount
  <2> QED
    BY <1>j, <2>1, <2>2, Zenon DEF Lifecycle, Torn, Down, At
<1>3. CASE DeleteVolumes(p)
  <2>1. /\ deletion[p] = "volumes" /\ deletion'[p] = "untrack" /\ UNCHANGED <<phase, raced, unit, exited, mount, netns>>
    BY <1>t, <1>3, Zenon DEF DeleteVolumes, DeletionFrame
  <2> QED
    BY <1>j, <2>1, Zenon DEF Lifecycle, Torn, Down, At
<1>4. CASE DeleteEnds(p)
  <2>1. /\ deletion[p] = "untrack" /\ deletion'[p] = "none" /\ phase'[p] = "gone" /\ podIP'[p] = NoAddr
        /\ p \notin tracked' /\ UNCHANGED <<raced, unit, exited, mount, netns>>
    BY <1>t, <1>4, Zenon DEF DeleteEnds, DeletionFrame, hostVars, Untrack
  <2>2. phase[p] = "deleting" /\ At("saga", p, "none")
    BY <2>1, Zenon DEF Lifecycle
  <2> QED
    BY <1>j, <2>1, <2>2, Zenon DEF Lifecycle, Torn, Down, At
<1> QED
  BY <1>1, <1>2, <1>3, <1>4, Zenon DEF Delete

\* The other steps of a pod
LEMMA StepTorn ==
  ASSUME Typed, NEW p \in Pods, Lifecycle(p), Torn(p), PodStep(p)
  PROVE  Lifecycle(p)' /\ Torn(p)'
<1>t. phase \in [Pods -> Phases]
  BY Zenon DEF Typed
<1>1. CASE CreatePod(p)
  <2>1. phase[p] = "none" /\ phase'[p] = "creating" /\ UNCHANGED <<deletion, raced>>
    BY <1>t, <1>1, Zenon DEF CreatePod
  <2>2. JobBecomes("saga", p, [pc |-> "net", i |-> job["saga"][p].i])
    BY <1>1, JobGoes, Zenon DEF CreatePod, Jobs
  <2>3. job'["restart"][p] = job["restart"][p]
    BY <2>2, Zenon DEF JobBecomes, Jobs
  <2> QED
    BY <2>1, <2>3, Zenon DEF Lifecycle, Torn, Down, At
<1>2. CASE SagaStep(p)
  BY <1>2, SagaActs, Zenon DEF Lifecycle, Torn, Down, At
<1>3. CASE RestartScrubs(p) \/ Launch("restart", p)
  BY <1>3, RestartActs, Zenon DEF Lifecycle, Torn, Down, At
<1>4. CASE RestartBegins(p)
  <2>1. phase[p] = "running" /\ UNCHANGED <<phase, deletion, raced>>
    BY <1>4, Zenon DEF RestartBegins
  <2>2. JobBecomes("restart", p, [pc |-> "backoff", i |-> Len(Containers[p])])
    BY <1>4, JobSet, Zenon DEF RestartBegins, Jobs
  <2>3. job'["saga"][p] = job["saga"][p]
    BY <2>2, Zenon DEF JobBecomes, Jobs
  <2> QED
    BY <2>1, <2>3, Zenon DEF Lifecycle, Torn, Down, At
<1>5. CASE ContainerExits(p)
  BY <1>5, Zenon DEF ContainerExits, Lifecycle, Torn, Down, At
<1>6. CASE RefreshWrites(p) \/ CleanStaleDirs(p)
  BY <1>6, Zenon DEF RefreshWrites, CleanStaleDirs, Lifecycle, Torn, Down, At
<1>7. ASSUME NEW c, TearDownOrphan(p, c)
      PROVE  Lifecycle(p)' /\ Torn(p)'
  <2>1. netns'[p] = "none" /\ UNCHANGED <<phase, deletion, raced, job, tracked, podIP, exited>>
    BY <1>7, Zenon DEF TearDownOrphan, TeardownNetwork, Typed
  <2>2. unit' \subseteq unit /\ mount' \subseteq mount
    BY <1>7, Zenon DEF TearDownOrphan, StopMachine, Unmount
  <2> QED
    BY <2>1, <2>2, Zenon DEF Lifecycle, Torn, Down, At
<1> QED
  BY <1>1, <1>2, <1>3, <1>4, <1>5, <1>6, <1>7, DeleteTorn, Zenon
     DEF PodStep, Saga, SagaStep, Restart, Reconcile

\* Every step keeps TornInv
LEMMA TornStep ==
  ASSUME Typed, TornInv, [Next]_vars
  PROVE  TornInv'
<1>1. SUFFICES ASSUME NEW q \in Pods
               PROVE  Lifecycle(q)' /\ Torn(q)'
  BY Zenon DEF TornInv
<1>2. Lifecycle(q) /\ Torn(q)
  BY Zenon DEF TornInv
<1>3. ASSUME NEW p \in Pods, PodStep(p)
      PROVE  Lifecycle(q)' /\ Torn(q)'
  BY <1>2, <1>3, StepTorn, FrameStep, FrameTorn, Zenon
<1>4. CASE ConfigMapChanges \/ Notify \/ UNCHANGED vars
  <2>1. UNCHANGED <<phase, deletion, netns, podIP, job, tracked, raced, unit, exited, mount>>
    BY <1>4, Zenon DEF ConfigMapChanges, Notify, vars, hostVars
  <2> QED
    BY <1>2, <2>1, Zenon DEF Lifecycle, Torn, Down, At
<1>5. CASE Crash
  <2>1. /\ job' = [j \in Jobs |-> [p \in Pods |-> NoJob]] /\ deletion' = [p \in Pods |-> "none"]
        /\ tracked' = {} /\ UNCHANGED <<netns, raced, unit, mount>> /\ exited' \subseteq exited
    BY <1>5, Zenon DEF Crash, CleanupStaleUnits, ResetUnit
  <2>2. \A j \in Jobs : job'[j][q].pc = "none"
    BY <2>1, NoJobType, Zenon
  <2>3. deletion'[q] = "none" /\ phase'[q] # "deleting" /\ (phase'[q] = "gone" => phase[q] = "gone" /\ podIP'[q] = NoAddr)
    BY <1>5, <2>1, Zenon DEF Crash
  <2> QED
    BY <1>2, <2>1, <2>2, <2>3, Zenon DEF Lifecycle, Torn, Down, At, Jobs
<1> QED
  BY <1>3, <1>4, <1>5, Zenon DEF Next, PodStep

\* Before anything is created
LEMMA TornInit ==
  ASSUME Init
  PROVE  TornInv
<1>1. SUFFICES ASSUME NEW q \in Pods
               PROVE  Lifecycle(q) /\ Torn(q)
  BY Zenon DEF TornInv
<1>2. \A j \in Jobs : job[j][q].pc = "none"
  BY NoJobType, Zenon DEF Init
<1>3. phase[q] = "none" /\ deletion[q] = "none"
  BY Zenon DEF Init
<1> QED
  BY <1>2, <1>3, Zenon DEF Lifecycle, Torn, Down, At, Jobs

\* No goroutine of a deleted pod but a restart that its deletion has met outlives the teardown of its
\* network, and what was torn down is not made again
THEOREM SandboxTornInv == Spec => [](Typed /\ TornInv)
<1>1. Init => Typed /\ TornInv
  BY TypedInit, TornInit, Zenon
<1>2. Typed /\ TornInv /\ [Next]_vars => (Typed /\ TornInv)'
  BY TypedStep, TornStep, Zenon
<1> QED
  BY <1>1, <1>2, PTL DEF Spec

\* After DeletePod no namespace and no tracking entry is left, and neither a unit nor an overlay
\* unless a container was being restarted when the deletion began
THEOREM SandboxNothingLeft == Spec => []NothingLeft
<1>1. Typed /\ TornInv => NothingLeft
  BY Zenon DEF TornInv, Torn, Down, NothingLeft
<1> QED
  BY <1>1, SandboxTornInv, PTL

-----------------------------------------------------------------------------
(***************************************************************************)
(* Addresses.                                                              *)
(***************************************************************************)
\* The address of a pod and of its namespace is the pod's in the pool, also after a step of another
\* pod of the pawn
LEMMA FrameHeld ==
  ASSUME Typed, NEW p \in Pods, PodStep(p), NEW q \in Pods, q # p, Held(q)
  PROVE  Held(q)'
<1>1. /\ netns'[q] = netns[q] /\ addr'[q] = addr[q] /\ podIP'[q] = podIP[q] /\ deletion'[q] = deletion[q]
  BY FrameStep, Zenon DEF Frame, HostFrame
<1>2. \A o \in Offsets : pool[PawnOf[q]].inUse[o] = q => pool'[PawnOf[q]].inUse[o] = q
  <2>1. PawnOf[q] \in Pawns
    BY Zenon DEF Pawns
  <2>2. OthersKeep(pool[PawnOf[q]], pool'[PawnOf[q]], p)
    BY <2>1, PodStepPool, Zenon DEF PoolStep
  <2> QED
    BY <2>2, Zenon DEF OthersKeep
<1>3. podIP[q] = NoAddr \/ podIP[q] \in Offsets
  BY Zenon DEF Typed
<1> QED
  BY <1>1, <1>2, <1>3, Zenon DEF Held, Addressed

\* Setup gives the pod an address that the pool has for it, or the one its eth0 has
LEMMA SetupHeld ==
  ASSUME Typed, NEW p \in Pods, Setup(p), Held(p)
  PROVE  Held(p)'
<1> DEFINE po == pool[PawnOf[p]]
<1>t. /\ netns \in [Pods -> Namespaces] /\ addr \in [Pods -> Offsets \cup {NoAddr}]
      /\ podIP \in [Pods -> Offsets \cup {NoAddr}] /\ pool \in [Pawns -> PoolState] /\ PawnOf[p] \in Pawns
  BY Zenon DEF Typed, Pawns
<1>d. UNCHANGED deletion
  BY Zenon DEF Setup, SetupRecovers, SetupCreates, SetupExhausted, SetupConfigures, SetupFails, SagaFrame
<1>p. po \in PoolState
  BY <1>t, Zenon
<1>o. podIP[p] = NoAddr \/ podIP[p] \in Offsets
  BY <1>t, Zenon
<1>a. ASSUME ~Exhausted(po), pool' = [pool EXCEPT ![PawnOf[p]] = Allocate(po, p)]
      PROVE  /\ pool'[PawnOf[p]].inUse[Offset(po)] = p /\ Offset(po) \in Offsets
             /\ \A o \in Offsets : po.inUse[o] = p => pool'[PawnOf[p]].inUse[o] = p
  <2>1. pool'[PawnOf[p]] = Allocate(po, p)
    BY <1>t, <1>a, Zenon
  <2>2. Offset(po) \in Offsets
    BY <1>a, <1>p, OffsetFree, Zenon
  <2>3. /\ \A o \in Offsets : po.inUse[o] = p => Allocate(po, p).inUse[o] = p
        /\ Allocate(po, p).inUse[Offset(po)] = p
    BY <1>a, <1>p, AllocateIs, Zenon
  <2> QED
    BY <2>1, <2>2, <2>3, Zenon
<1>1. CASE SetupRecovers(p) /\ netns[p] = "ready"
  <2>1. UNCHANGED <<netns, addr, pool>> /\ podIP'[p] = addr[p]
    BY <1>t, <1>1, Zenon DEF SetupRecovers
  <2> QED
    BY <1>1, <1>d, <2>1, Zenon DEF Held, Addressed
<1>2. CASE SetupRecovers(p) /\ netns[p] # "ready" /\ ~Exhausted(po)
  <2>1. UNCHANGED <<netns, addr>> /\ podIP' = [podIP EXCEPT ![p] = Offset(po)] /\ pool' = [pool EXCEPT ![PawnOf[p]] = Allocate(po, p)]
    BY <1>2, Zenon DEF SetupRecovers
  <2>2. podIP'[p] = Offset(po)
    BY <1>t, <2>1, Zenon
  <2> QED
    BY <1>2, <1>a, <1>d, <2>1, <2>2, Zenon DEF Held, Addressed
<1>3. CASE SetupConfigures(p)
  <2>1. /\ addr' = [addr EXCEPT ![p] = Offset(po)] /\ podIP' = [podIP EXCEPT ![p] = Offset(po)]
        /\ pool' = [pool EXCEPT ![PawnOf[p]] = Allocate(po, p)] /\ ~Exhausted(po)
    BY <1>3, Zenon DEF SetupConfigures
  <2>2. podIP'[p] = Offset(po) /\ addr'[p] = Offset(po)
    BY <1>t, <2>1, Zenon
  <2> QED
    BY <1>a, <1>d, <2>1, <2>2, Zenon DEF Held, Addressed
<1>4. CASE SetupFails(p)
  <2>1. UNCHANGED <<addr, podIP>> /\ (netns'[p] = netns[p] \/ netns'[p] = "none")
    BY <1>t, <1>4, Zenon DEF SetupFails
  <2>2. pool' = [pool EXCEPT ![PawnOf[p]].next = After(Offset(po), 1)]
    BY <1>4, Zenon DEF SetupFails
  <2>3. pool'[PawnOf[p]].inUse = po.inUse
    <3>1. pool' = [pool EXCEPT ![PawnOf[p]] = [po EXCEPT !.next = After(Offset(po), 1)]]
      BY <2>2, Zenon
    <3> QED
      BY <1>t, <1>p, <3>1, Zenon DEF PoolState
  <2> QED
    BY <1>d, <2>1, <2>3, Zenon DEF Held, Addressed
<1>5. CASE SetupCreates(p) \/ SetupExhausted(p) \/ (SetupRecovers(p) /\ netns[p] # "ready" /\ Exhausted(po))
  <2>1. UNCHANGED <<addr, podIP, pool>> /\ (netns'[p] = netns[p] \/ netns'[p] = "bare")
    BY <1>t, <1>5, Zenon DEF SetupCreates, SetupExhausted, SetupRecovers
  <2> QED
    BY <1>d, <2>1, Zenon DEF Held, Addressed
<1> QED
  BY <1>1, <1>2, <1>3, <1>4, <1>5, Zenon DEF Setup

\* The other steps of a pod: only once the deletion has begun its network is torn down, and then its
\* address counts no longer
LEMMA StepHeld ==
  ASSUME Typed, NEW p \in Pods, Lifecycle(p), Torn(p), PodStep(p), Held(p)
  PROVE  Held(p)'
<1>1. CASE CreatePod(p) \/ Retry(p) \/ LaunchSkips(p) \/ InitExits(p) \/ InitFails(p) \/ Launch("saga", p) \/ Restart(p)
           \/ ContainerExits(p) \/ RefreshWrites(p) \/ CleanStaleDirs(p)
  <2>1. UNCHANGED <<netns, addr, podIP, pool, deletion>>
    BY <1>1, Zenon DEF CreatePod, Retry, SagaFrame, LaunchSkips, InitExits, InitFails, Launch, LaunchFrame, LaunchMounts,
                LaunchMountFails, LaunchRuns, LaunchRunFails, AppRuns, AppFails, Restart, RestartBegins, RestartScrubs,
                ContainerExits, RefreshWrites, CleanStaleDirs, hostVars
  <2> QED
    BY <2>1, Zenon DEF Held, Addressed
<1>2. CASE DeletePod(p)
  <2>1. phase[p] # "deleting" /\ UNCHANGED <<netns, addr, podIP, pool>>
    BY <1>2, Zenon DEF DeletePod, hostVars
  <2>2. deletion[p] = "none"
    BY <2>1, Zenon DEF Lifecycle
  <2> QED
    BY <2>1, <2>2, Zenon DEF Held, Addressed
<1>3. CASE DeleteSandbox(p)
  BY <1>3, Zenon DEF DeleteSandbox, TeardownNetwork, Held, Addressed, Typed
<1>4. CASE DeleteVolumes(p)
  BY <1>4, Zenon DEF DeleteVolumes, Held, Addressed, Typed
<1>5. CASE DeleteEnds(p)
  <2>1. podIP'[p] = NoAddr /\ UNCHANGED <<netns, addr, pool>>
    BY <1>5, Zenon DEF DeleteEnds, hostVars, Typed
  <2> QED
    BY <2>1, Zenon DEF Held, Addressed
<1>6. ASSUME NEW c, TearDownOrphan(p, c)
      PROVE  Held(p)'
  <2>1. podIP[p] = NoAddr /\ podIP' = podIP /\ netns'[p] = "none"
    BY <1>6, Zenon DEF TearDownOrphan, TeardownNetwork, Torn, Typed
  <2> QED
    BY <2>1, Zenon DEF Held, Addressed
<1> QED
  BY <1>1, <1>2, <1>3, <1>4, <1>5, <1>6, SetupHeld, Zenon DEF PodStep, Saga, Delete, Reconcile

\* Every step keeps HeldInv, the death of the process making it void
LEMMA HeldStep ==
  ASSUME Typed, TornInv, HeldInv, [Next]_vars
  PROVE  HeldInv'
<1>1. SUFFICES ASSUME ~crashed', NEW q \in Pods
               PROVE  Held(q)'
  BY Zenon DEF HeldInv
<1>2. ~Crash
  BY <1>1, Zenon DEF Crash
<1>3. ASSUME NEW p \in Pods, PodStep(p)
      PROVE  Held(q)'
  <2>1. crashed' = crashed
    BY <1>3, Zenon DEF PodStep, Saga, Setup, SetupRecovers, SetupCreates, SetupExhausted, SetupConfigures, SetupFails, SagaFrame,
         CreatePod, Retry, LaunchSkips, InitExits, InitFails, Restart, Launch, LaunchMounts, LaunchMountFails,
         LaunchRuns, LaunchRunFails, AppRuns, AppFails, LaunchFrame, RestartBegins, RestartScrubs, ContainerExits,
         DeletePod, Delete, DeleteSandbox, DeleteVolumes, DeleteEnds, DeletionFrame, RefreshWrites, Reconcile,
         CleanStaleDirs, TearDownOrphan
  <2>2. Held(q) /\ Lifecycle(q) /\ Torn(q)
    BY <1>1, <2>1, Zenon DEF HeldInv, TornInv
  <2> QED
    BY <1>3, <2>2, StepHeld, FrameHeld, Zenon
<1>4. CASE ConfigMapChanges \/ Notify \/ UNCHANGED vars
  <2>1. UNCHANGED <<netns, addr, podIP, pool, deletion, crashed>>
    BY <1>4, Zenon DEF ConfigMapChanges, Notify, vars, hostVars
  <2> QED
    BY <1>1, <2>1, Zenon DEF HeldInv, Held, Addressed
<1> QED
  BY <1>2, <1>3, <1>4, Zenon DEF Next, PodStep

\* While the process lives its pool has every address that a pod or a namespace was given, under the
\* name of that pod
THEOREM SandboxHeldInv == Spec => [](Typed /\ TornInv /\ HeldInv)
<1>1. Init => HeldInv
  <2>1. ASSUME Init, NEW p \in Pods
        PROVE  podIP[p] = NoAddr /\ netns[p] # "ready"
    BY <2>1, Zenon DEF Init
  <2> QED
    BY <2>1, Zenon DEF HeldInv, Held, Addressed
<1>2. Init => Typed /\ TornInv
  BY TypedInit, TornInit, Zenon
<1>3. Typed /\ TornInv /\ HeldInv /\ [Next]_vars => (Typed /\ TornInv /\ HeldInv)'
  BY TypedStep, TornStep, HeldStep, Zenon
<1> QED
  BY <1>1, <1>2, <1>3, PTL DEF Spec

\* Two pods of a pawn that have an address have different ones, as long as the process that gave them
\* out lives
THEOREM SandboxAddressesDistinct == Spec => []AddressesDistinct
<1>1. Typed /\ TornInv /\ HeldInv => AddressesDistinct
  BY Zenon DEF HeldInv, Held, AddressesDistinct
<1> QED
  BY <1>1, SandboxHeldInv, PTL

-----------------------------------------------------------------------------
(***************************************************************************)
(* What a running pod's units run in.                                      *)
(***************************************************************************)
\* The claim that a volume has is of one pod
SingleClaim == \A p, q \in PVCPods : p = q

\* A pod's unit is the one of its k-th container for some k
LEMMA NthOf ==
  ASSUME NEW p \in Pods
  PROVE  /\ \A c \in Of(p) : \E k \in 1 .. Len(Containers[p]) : c = Nth(p, k)
         /\ \A k \in 1 .. Len(Containers[p]) : Nth(p, k) \in Of(p)
         /\ Nth(p, Len(Containers[p])) = <<p, App(p)>>
<1>1. DOMAIN Containers[p] = 1 .. Len(Containers[p])
  BY SandboxAssumption
<1> QED
  BY <1>1, Zenon DEF Of, Names, Nth, App

\* The container a goroutine is at
LEMMA ContainerIs ==
  ASSUME Typed, NEW p \in Pods, NEW j \in Jobs
  PROVE  /\ Container(j, p) = Nth(p, job[j][p].i) /\ Container(j, p) \in Of(p)
         /\ job[j][p].i \in 1 .. Len(Containers[p]) /\ Len(Containers[p]) \in Nat \ {0}
         /\ ~At("restart", p, "none") => Container("restart", p) = <<p, App(p)>>
<1>1. job[j][p].i \in 1 .. Len(Containers[p]) /\ Len(Containers[p]) \in Nat \ {0}
  BY SandboxAssumption DEF Typed, JobOf
<1>2. Container(j, p) = Nth(p, job[j][p].i)
  BY Zenon DEF Container, Nth
<1>3. ~At("restart", p, "none") => Container("restart", p) = Nth(p, Len(Containers[p]))
  BY Zenon DEF Container, Nth, Typed
<1> QED
  BY <1>1, <1>2, <1>3, NthOf, Zenon

\* The saga is before the first container's launch, or has given up: nothing is promised but that what
\* was resolved is so still
LEMMA MadeBack ==
  ASSUME NEW p \in Pods, Made(p),
         SagaIn(p, {"none", "net", "addr", "backoff"})', job'["saga"][p].i = 1,
         job'["restart"][p] = job["restart"][p], phase'[p] = phase[p], phase[p] \in {"creating", "deleting"},
         p \in tracked' <=> p \in tracked, crashed' = crashed, staged' = staged,
         unit' \subseteq unit, exited' \subseteq exited, volume'[p] = volume[p] \/ volume'[p] # 0
  PROVE  Made(p)'
<1>1. Kept(p)' => Kept(p)
  BY Zenon DEF Kept
<1>2. Begun(p)' => Begun(p)
  BY Zenon DEF Begun, SagaIn
<1>3. Resolved(p) => Resolved(p)'
  BY Zenon DEF Resolved
<1>4. (Of(p) \cap unit \cap exited = {})'
  BY Zenon DEF Made
<1>5. ~SagaIn(p, {"mount", "run", "wait"})' /\ ~SagaIn(p, {"run", "wait"})'
  BY Zenon DEF SagaIn
<1>6. (job["restart"][p].pc \in {"backoff", "mount", "run"} => <<p, App(p)>> \notin unit) =>
         (job'["restart"][p].pc \in {"backoff", "mount", "run"} => <<p, App(p)>> \notin unit')
  BY Zenon
<1> QED
  BY <1>1, <1>2, <1>3, <1>4, <1>5, <1>6, Zenon DEF Made

\* The saga has launched a container
LEMMA MadeNext ==
  ASSUME Typed, NEW p \in Pods, Lifecycle(p), Made(p), SagaIn(p, {"mount", "wait"}), Launched("saga", p), Begun(p),
         crashed' = crashed, UNCHANGED <<netns, volume, staged>>,
         unit' \subseteq unit, mount \subseteq mount' \cup {Container("saga", p)},
         Container("saga", p) \in unit' => (Kept(p) => Container("saga", p) \in mount'),
         Of(p) \cap unit' \cap exited' = {}
  PROVE  Made(p)'
<1> DEFINE i == job["saga"][p].i  n == Len(Containers[p])
<1>b. "saga" \in Jobs /\ "restart" \in Jobs /\ "saga" # "restart" /\ ~At("saga", p, "none")
  BY Zenon DEF Jobs, At, SagaIn
<1>c. /\ Container("saga", p) = Nth(p, i) /\ i \in 1 .. n /\ n \in Nat \ {0}
  BY <1>b, ContainerIs, Zenon
<1>l. \/ /\ i < n /\ JobBecomes("saga", p, [pc |-> "mount", i |-> i + 1]) /\ UNCHANGED <<phase, tracked>>
      \/ /\ i = n /\ JobBecomes("saga", p, NoJob)
         /\ phase' = IF phase[p] = "creating" THEN [phase EXCEPT ![p] = "running"] ELSE phase
  BY <1>b, LaunchedIs, Zenon
<1>r. job'["restart"][p] = job["restart"][p]
  BY <1>b, <1>l, Zenon DEF JobBecomes
<1>p. phase[p] = "creating" \/ phase[p] = "deleting"
  BY <1>b, Zenon DEF Lifecycle
<1>k. Kept(p)' => phase[p] = "creating" /\ Kept(p)
  BY <1>l, <1>p, Zenon DEF Kept, Typed
<1>m. ASSUME Kept(p)
      PROVE  /\ Resolved(p)' /\ netns'[p] # "none" /\ At("restart", p, "none")'
             /\ \A k \in 1 .. i : Nth(p, k) \in unit' => Nth(p, k) \in mount'
  <2>1. Resolved(p) /\ netns[p] # "none"
    BY <1>m, Zenon DEF Made, SagaIn
  <2>2. \A k \in 1 .. (i - 1) : Nth(p, k) \in unit => Nth(p, k) \in mount
    BY <1>m, Zenon DEF Made, SagaIn
  <2>3. \A k \in 1 .. i : k \in 1 .. (i - 1) \/ k = i
    BY <1>c
  <2>4. \A k \in 1 .. i : Nth(p, k) \in unit' => Nth(p, k) \in mount'
    BY <1>m, <1>c, <2>2, <2>3, Zenon
  <2>5. At("restart", p, "none")
    BY <1>m, <1>p, Zenon DEF Kept, Lifecycle
  <2> QED
    BY <1>r, <2>1, <2>4, <2>5, Zenon DEF Resolved, At
<1>1. CASE i < n /\ JobBecomes("saga", p, [pc |-> "mount", i |-> i + 1]) /\ UNCHANGED <<phase, tracked>>
  <2>1. job'["saga"][p].pc = "mount" /\ job'["saga"][p].i = i + 1 /\ phase'[p] = phase[p]
    BY <1>1 DEF JobBecomes
  <2>2. (i + 1) - 1 = i
    BY <1>c
  <2>3. phase'[p] # "none" /\ (Kept(p)' => phase'[p] # "running")
    BY <1>p, <1>k, <2>1, Zenon
  <2>4. ~SagaIn(p, {"none", "net", "addr", "backoff"})' /\ ~SagaIn(p, {"run", "wait"})'
    BY <2>1, Zenon DEF SagaIn
  <2>5. Kept(p) => At("restart", p, "none")'
    BY <1>m, Zenon
  <2>6. Kept(p) => job'["restart"][p].pc \notin {"backoff", "mount", "run"}
    BY <2>5, Zenon DEF At
  <2>7. Kept(p) => \A k \in 1 .. (job'["saga"][p].i - 1) : Nth(p, k) \in unit' => Nth(p, k) \in mount'
    BY <1>m, <2>1, <2>2, Zenon
  <2>8. Kept(p) => Resolved(p)' /\ netns'[p] # "none"
    BY <1>m, Zenon
  <2>9. ASSUME Kept(p)'
        PROVE  /\ Resolved(p)' /\ netns'[p] # "none" /\ phase'[p] # "running"
               /\ \A k \in 1 .. (job'["saga"][p].i - 1) : Nth(p, k) \in unit' => Nth(p, k) \in mount'
               /\ job'["restart"][p].pc \notin {"backoff", "mount", "run"}
    BY <1>k, <2>3, <2>6, <2>7, <2>8, <2>9, Zenon
  <2> QED
    BY <2>3, <2>4, <2>9, Zenon DEF Made
<1>2. CASE /\ i = n /\ JobBecomes("saga", p, NoJob)
           /\ phase' = IF phase[p] = "creating" THEN [phase EXCEPT ![p] = "running"] ELSE phase
  <2>1. job'["saga"][p].pc = "none" /\ job'["saga"][p].i = 1 /\ phase'[p] # "none"
    <3>1. job'["saga"][p] = NoJob
      BY <1>2, Zenon DEF JobBecomes
    <3>2. job'["saga"][p].pc = "none" /\ job'["saga"][p].i = 1
      BY <3>1 DEF NoJob
    <3>3. phase'[p] = "running" \/ phase'[p] = phase[p]
      <4>1. phase \in [Pods -> Phases]
        BY Zenon DEF Typed
      <4> QED BY <1>2, <4>1, Zenon
    <3> QED BY <1>p, <3>2, <3>3, Zenon
  <2>2. ~SagaIn(p, {"mount", "run", "wait"})' /\ ~SagaIn(p, {"run", "wait"})'
    BY <2>1, Zenon DEF SagaIn
  <2>3. Kept(p) => (Of(p) \cap unit \subseteq mount)'
    <3>1. Kept(p) => \A k \in 1 .. n : Nth(p, k) \in unit' => Nth(p, k) \in mount'
      BY <1>2, <1>m, Zenon
    <3>2. \A c \in Of(p) : \E k \in 1 .. n : c = Nth(p, k)
      BY NthOf, Zenon
    <3> QED
      BY <3>1, <3>2, Zenon
  <2>5. Kept(p) => At("restart", p, "none")'
    BY <1>m, Zenon
  <2>6. Kept(p) => job'["restart"][p].pc \notin {"backoff", "mount", "run"}
    BY <2>5, Zenon DEF At
  <2> QED
    BY <1>k, <1>m, <2>1, <2>2, <2>3, <2>6, ZenonT(60) DEF Made
<1> QED
  BY <1>l, <1>1, <1>2, Zenon

\* A restart of the pod's last container, whose overlay is there before its unit
LEMMA MadeAgain ==
  ASSUME NEW p \in Pods, Lifecycle(p), Made(p), ~At("restart", p, "none"), job'["saga"][p] = job["saga"][p],
         UNCHANGED <<phase, crashed, netns, tracked>>,
         unit' \subseteq unit \cup {<<p, App(p)>>}, exited' \subseteq exited, Of(p) \cap unit' \cap exited' = {},
         mount \subseteq mount' \cup {<<p, App(p)>>},
         Kept(p) /\ <<p, App(p)>> \in unit' => <<p, App(p)>> \in mount',
         job'["restart"][p].pc \in {"backoff", "mount", "run"} => (Kept(p) => <<p, App(p)>> \notin unit'),
         volume'[p] = volume[p] \/ volume'[p] # 0, staged' = staged \/ staged'
  PROVE  Made(p)'
<1>p. phase[p] \in {"running", "deleting", "gone"}
  BY Zenon DEF Lifecycle
<1>k. Kept(p)' => Kept(p) /\ phase[p] = "running" /\ At("saga", p, "none")
  BY <1>p, Zenon DEF Kept, Lifecycle
<1>1. phase'[p] # "none" /\ (SagaIn(p, {"none", "net", "addr", "backoff"})' => job'["saga"][p].i = 1)
  BY <1>p, Zenon DEF Made, SagaIn
<1>2. ASSUME Kept(p), phase[p] = "running", At("saga", p, "none")
      PROVE  /\ Resolved(p)' /\ netns'[p] # "none" /\ ~SagaIn(p, {"mount", "run", "wait"})' /\ ~SagaIn(p, {"run", "wait"})'
             /\ (Of(p) \cap unit \subseteq mount)'
  <2>1. Resolved(p) /\ netns[p] # "none" /\ Of(p) \cap unit \subseteq mount
    BY <1>2, Zenon DEF Made, Begun
  <2>2. ~SagaIn(p, {"mount", "run", "wait"})' /\ ~SagaIn(p, {"run", "wait"})'
    BY <1>2, Zenon DEF SagaIn, At
  <2>3. Resolved(p)'
    BY <2>1, Zenon DEF Resolved
  <2>4. (Of(p) \cap unit \subseteq mount)'
    BY <1>2, <2>1, Zenon
  <2> QED
    BY <2>1, <2>2, <2>3, <2>4, Zenon
<1> QED
  BY <1>1, <1>2, <1>k, Zenon DEF Made

\* Restarts
LEMMA RestartMade ==
  ASSUME Typed, NEW p \in Pods, Lifecycle(p), Made(p), RestartScrubs(p) \/ Launch("restart", p)
  PROVE  Made(p)'
<1> DEFINE c == <<p, App(p)>>
<1>b. "restart" \in Jobs
  BY Zenon DEF Jobs
<1>a. /\ ~At("restart", p, "none") /\ job'["saga"][p] = job["saga"][p]
      /\ UNCHANGED <<phase, crashed, netns, tracked>>
  BY RestartActs, Zenon
<1>c. Container("restart", p) = c /\ c \in Of(p)
  BY <1>a, <1>b, ContainerIs, Zenon
<1>m. Of(p) \cap unit \cap exited = {}
  BY Zenon DEF Made
<1>v. cm # 0 /\ volume \in [Pods -> Nat]
  BY Zenon DEF Typed
<1>e. ASSUME Ends("restart", p) \/ GivesUp("restart", p) \/ Launched("restart", p)
      PROVE  job'["restart"][p].pc \notin {"backoff", "mount", "run"}
  <2>1. JobBecomes("restart", p, NoJob)
    BY <1>e, <1>a, <1>b, JobEnds, LaunchedIs, Zenon
  <2> QED
    BY <2>1 DEF JobBecomes, NoJob
<1>g. ASSUME NEW pc, Goes("restart", p, pc)
      PROVE  job'["restart"][p].pc = pc
  <2>1. JobBecomes("restart", p, [pc |-> pc, i |-> job["restart"][p].i])
    BY <1>g, <1>b, JobGoes, Zenon
  <2> QED
    BY <2>1 DEF JobBecomes
<1>k. job["restart"][p].pc \in {"backoff", "mount", "run"} => (Kept(p) => c \notin unit)
  BY Zenon DEF Made
<1>w. WriteDir(p) => volume'[p] # 0
  BY <1>v, Zenon DEF WriteDir, WriteProjected, WriteConfigMap
<1> HIDE DEF c
<1>1. CASE RestartScrubs(p)
  <2>1. unit' = unit \ {c} /\ mount' = mount \ {c} /\ UNCHANGED <<exited, volume, staged>>
    BY <1>1, Zenon DEF RestartScrubs, StopMachine, Unmount, c
  <2> QED
    BY <1>a, <1>m, <2>1, MadeAgain, Zenon DEF c
<1>2. CASE LaunchMounts("restart", p)
  <2>1. mount' = mount \cup {c} /\ UNCHANGED <<unit, exited>> /\ At("restart", p, "mount")
    BY <1>2, <1>c, Zenon DEF LaunchMounts, Mount
  <2>2. volume'[p] # 0 /\ (staged' = staged \/ staged')
    BY <1>2, <1>w, Zenon DEF LaunchMounts, Resolve, ResolvePVC, ResolveCSI, NodeStageVolume
  <2>3. Kept(p) => c \notin unit'
    BY <1>k, <2>1, Zenon DEF At
  <2> QED
    BY <1>a, <1>m, <2>1, <2>2, <2>3, MadeAgain, Zenon DEF c
<1>3. CASE LaunchMountFails("restart", p)
  <2>1. mount' = mount \ {c} /\ UNCHANGED <<unit, exited, staged>> /\ At("restart", p, "mount") /\ GivesUp("restart", p)
    BY <1>3, <1>c, Zenon DEF LaunchMountFails, Unmount
  <2>2. volume'[p] = volume[p] \/ volume'[p] # 0
    BY <1>3, <1>w, Zenon DEF LaunchMountFails
  <2>3. Kept(p) => c \notin unit'
    BY <1>k, <2>1, Zenon DEF At
  <2> QED
    BY <1>a, <1>m, <2>1, <2>2, <2>3, MadeAgain, Zenon DEF c
<1>4. CASE LaunchRuns("restart", p)
  <2>1. /\ unit' = (IF UnitStarts(p, c) THEN unit \cup {c} ELSE unit \ {c}) /\ exited' = exited \ {c}
        /\ UNCHANGED <<mount, volume, staged>> /\ Goes("restart", p, "wait")
    BY <1>4, <1>c, Zenon DEF LaunchRuns, RunMachine, ResetUnit
  <2>2. c \in unit' => c \in mount'
    BY <2>1, Zenon DEF UnitStarts, RunProgram
  <2>3. job'["restart"][p].pc \notin {"backoff", "mount", "run"}
    BY <1>g, <2>1, Zenon
  <2>4. Of(p) \cap unit' \cap exited' = {} /\ unit' \subseteq unit \cup {c}
    BY <1>m, <2>1, Zenon
  <2> QED
    BY <1>a, <2>1, <2>2, <2>3, <2>4, MadeAgain, Zenon DEF c
<1>5. CASE LaunchRunFails("restart", p)
  <2>1. unit' = unit \ {c} /\ mount' = mount \ {c} /\ exited' = exited \ {c} /\ UNCHANGED <<volume, staged>>
    BY <1>5, <1>c, Zenon DEF LaunchRunFails, StopMachine, Unmount, ResetUnit
  <2> QED
    BY <1>a, <1>m, <2>1, MadeAgain, Zenon DEF c
<1>6. CASE AppRuns("restart", p)
  <2>1. UNCHANGED <<unit, exited, mount, volume, staged>> /\ Launched("restart", p) /\ c \in unit
    BY <1>6, <1>c, Zenon DEF AppRuns
  <2>2. job'["restart"][p].pc \notin {"backoff", "mount", "run"}
    BY <1>e, <2>1, Zenon
  <2>3. Kept(p) => c \in mount'
    BY <1>a, <1>c, <2>1, Zenon DEF Made, Kept, Lifecycle
  <2> QED
    BY <1>a, <1>m, <2>1, <2>2, <2>3, MadeAgain, Zenon DEF c
<1>7. CASE AppFails("restart", p)
  <2>1. UNCHANGED <<exited, volume, staged>> /\ GivesUp("restart", p)
    BY <1>7, Zenon DEF AppFails
  <2>2. \/ unit' = unit \ {c} /\ UNCHANGED mount
        \/ unit' = unit \ {c} /\ mount' = mount \ {c}
        \/ UNCHANGED <<unit, mount>>
    BY <1>7, <1>c, Zenon DEF AppFails, StopMachine, Unmount, SharedMountsFail, PostStartFails
  <2>3. job'["restart"][p].pc \notin {"backoff", "mount", "run"}
    BY <1>e, <2>1, Zenon
  <2>4. Kept(p) => (c \in unit => c \in mount)
    <3>1. Kept(p) => phase[p] = "running"
      BY <1>a, Zenon DEF Kept, Lifecycle
    <3> QED
      BY <1>c, <3>1, Zenon DEF Made
  <2> QED
    BY <1>a, <1>m, <2>1, <2>2, <2>3, <2>4, MadeAgain, Zenon DEF c
<1> QED
  BY <1>1, <1>2, <1>3, <1>4, <1>5, <1>6, <1>7, Zenon DEF Launch

\* The saga's container goes on to be launched, its overlay there from its mount on
LEMMA MadeOn ==
  ASSUME NEW p \in Pods, Lifecycle(p), Made(p), ~At("saga", p, "none"), Kept(p) => Resolved(p)',
         SagaIn(p, {"mount", "run", "wait"})', job'["saga"][p].i = job["saga"][p].i,
         job'["restart"][p] = job["restart"][p], UNCHANGED <<phase, tracked, crashed>>,
         Kept(p) => netns'[p] # "none",
         Kept(p) => \A k \in 1 .. (job["saga"][p].i - 1) : Nth(p, k) \in unit' => Nth(p, k) \in mount',
         SagaIn(p, {"run", "wait"})' => (Kept(p) => Nth(p, job["saga"][p].i) \in mount'),
         Of(p) \cap unit' \cap exited' = {}
  PROVE  Made(p)'
<1>p. phase[p] = "creating" \/ phase[p] = "deleting"
  BY Zenon DEF Lifecycle
<1>k. Kept(p)' => phase[p] = "creating" /\ Kept(p)
  BY <1>p, Zenon DEF Kept
<1>1. phase'[p] # "none" /\ phase'[p] # "running" /\ ~SagaIn(p, {"none", "net", "addr", "backoff"})'
  BY <1>p, Zenon DEF SagaIn
<1>2. phase[p] = "creating" => job'["restart"][p].pc \notin {"backoff", "mount", "run"}
  BY Zenon DEF Lifecycle, At
<1> QED
  BY <1>k, <1>1, <1>2, Zenon DEF Made

\* CreatePod and Setup
LEMMA SetupMade ==
  ASSUME Typed, NEW p \in Pods, Lifecycle(p), Made(p), Setup(p) \/ Retry(p)
  PROVE  Made(p)'
<1>b. "saga" \in Jobs /\ SagaStep(p)
  BY Zenon DEF Jobs, SagaStep
<1>a. /\ ~At("saga", p, "none") /\ job'["restart"][p] = job["restart"][p] /\ UNCHANGED crashed
  BY <1>b, SagaActs, Zenon
<1>f. UNCHANGED <<phase, unit, exited, mount, volume, staged, tracked>>
  BY Zenon DEF Setup, SetupRecovers, SetupCreates, SetupExhausted, SetupConfigures, SetupFails, Retry, SagaFrame
<1>p. phase[p] \in {"creating", "deleting"}
  BY <1>a, Zenon DEF Lifecycle
<1>m. Of(p) \cap unit \cap exited = {}
  BY Zenon DEF Made
<1>i. SagaIn(p, {"net", "addr", "backoff"}) /\ job["saga"][p].i = 1
  <2>1. SagaIn(p, {"net", "addr", "backoff"})
    BY Zenon DEF Setup, SetupRecovers, SetupCreates, SetupExhausted, SetupConfigures, SetupFails, Retry, At, SagaIn
  <2> QED
    BY <2>1, Zenon DEF Made, SagaIn
<1>1. CASE Goes("saga", p, "mount")
  <2>1. JobBecomes("saga", p, [pc |-> "mount", i |-> 1])
    BY <1>1, <1>b, <1>i, JobGoes, Zenon
  <2>2. job'["saga"][p].pc = "mount" /\ job'["saga"][p].i = 1
    BY <2>1 DEF JobBecomes
  <2>3. netns'[p] # "none"
    <3>1. SetupRecovers(p) \/ SetupConfigures(p)
      <4>1. ~(SetupCreates(p) \/ SetupExhausted(p) \/ SetupFails(p) \/ Retry(p))
        <5>1. ASSUME Goes("saga", p, "addr") PROVE job'["saga"][p].pc = "addr"
          <6>1. "saga" \in Jobs
            BY <1>b, Zenon
          <6> QED BY <5>1, <6>1, GoesTo, ZenonT(60)
        <5>2. ASSUME Goes("saga", p, "net") PROVE job'["saga"][p].pc = "net"
          <6>1. "saga" \in Jobs
            BY <1>b, Zenon
          <6> QED BY <5>2, <6>1, GoesTo, ZenonT(60)
        <5>3. Ends("saga", p) \/ GivesUp("saga", p) => job'["saga"][p].pc \in {"none", "backoff"}
          BY <1>b, JobEnds DEF JobBecomes, NoJob
        <5> QED
          BY <2>2, <5>1, <5>2, <5>3, Zenon DEF SetupCreates, SetupExhausted, SetupFails, Retry
      <4> QED
        BY <4>1, Zenon DEF Setup
    <3> QED
      BY <3>1, Zenon DEF SetupRecovers, SetupConfigures, Typed
  <2>4. \A k \in 1 .. (1 - 1) : FALSE
    OBVIOUS
  <2>5. /\ phase'[p] # "none" /\ phase'[p] # "running" /\ ~SagaIn(p, {"none", "net", "addr", "backoff"})'
        /\ ~SagaIn(p, {"run", "wait"})'
    BY <1>f, <1>p, <2>2, Zenon DEF SagaIn
  <2>6. Kept(p)' => Kept(p) /\ phase[p] = "creating"
    BY <1>a, <1>f, <1>p, Zenon DEF Kept
  <2>7. phase[p] = "creating" => job'["restart"][p].pc \notin {"backoff", "mount", "run"}
    BY <1>a, Zenon DEF Lifecycle, At
  <2>8. Begun(p)' => Begun(p)
    BY <1>f, <2>2 DEF Begun, SagaIn
  <2>9. Resolved(p) => Resolved(p)'
    BY <1>f, Zenon DEF Resolved
  <2>10. Kept(p) /\ Begun(p) => Resolved(p)
    BY Zenon DEF Made
  <2> QED
    BY <1>f, <1>m, <2>2, <2>3, <2>4, <2>5, <2>6, <2>7, <2>8, <2>9, <2>10, Zenon DEF Made
<1>2. CASE ~Goes("saga", p, "mount")
  <2>1. \E new : JobBecomes("saga", p, new) /\ new.pc \in {"none", "net", "addr", "backoff"} /\ new.i = 1
    <3>1. Ends("saga", p) \/ GivesUp("saga", p) \/ Goes("saga", p, "net") \/ Goes("saga", p, "addr")
      BY <1>2, Zenon DEF Setup, SetupRecovers, SetupCreates, SetupExhausted, SetupConfigures, SetupFails, Retry
    <3>2. \E new \in {NoJob, [pc |-> "backoff", i |-> 1], [pc |-> "net", i |-> 1], [pc |-> "addr", i |-> 1]} :
            JobBecomes("saga", p, new)
      BY <1>b, <1>i, <3>1, JobEnds, JobGoes, Zenon
    <3> QED
      BY <3>2 DEF NoJob
  <2>2. SagaIn(p, {"none", "net", "addr", "backoff"})' /\ job'["saga"][p].i = 1
    BY <2>1, Zenon DEF JobBecomes, SagaIn
  <2> QED
    BY <1>a, <1>f, <1>p, <2>2, MadeBack, Zenon
<1> QED
  BY <1>1, <1>2, Zenon

\* The launch of a container by the saga
LEMMA SagaMade ==
  ASSUME Typed, NEW p \in Pods, Lifecycle(p), Made(p), Launch("saga", p) \/ LaunchSkips(p) \/ InitExits(p) \/ InitFails(p)
  PROVE  Made(p)'
<1> DEFINE c == Container("saga", p)
<1>b. "saga" \in Jobs /\ SagaStep(p)
  BY Zenon DEF Jobs, SagaStep
<1>a. /\ ~At("saga", p, "none") /\ job'["restart"][p] = job["restart"][p] /\ UNCHANGED crashed
  BY <1>b, SagaActs, Zenon
<1>c. c = Nth(p, job["saga"][p].i) /\ c \in Of(p)
  BY <1>b, ContainerIs, Zenon
<1>p. phase[p] \in {"creating", "deleting"}
  BY <1>a, Zenon DEF Lifecycle
<1>m. Of(p) \cap unit \cap exited = {}
  BY Zenon DEF Made
<1>n. UNCHANGED netns
  BY Zenon DEF Launch, LaunchMounts, LaunchMountFails, LaunchRuns, LaunchRunFails, AppRuns, AppFails, LaunchSkips,
               InitExits, InitFails, LaunchFrame
<1>v. cm # 0 /\ volume \in [Pods -> Nat]
  BY Zenon DEF Typed
<1>w. WriteDir(p) => volume'[p] # 0
  BY <1>v, Zenon DEF WriteDir, WriteProjected, WriteConfigMap
<1>k. /\ SagaIn(p, {"mount", "run", "wait"}) /\ Kept(p) =>
            netns[p] # "none" /\ \A k \in 1 .. (job["saga"][p].i - 1) : Nth(p, k) \in unit => Nth(p, k) \in mount
      /\ SagaIn(p, {"run", "wait"}) /\ Kept(p) => c \in mount /\ Resolved(p)
  BY <1>c, Zenon DEF Made, Begun
<1>g. ASSUME GivesUp("saga", p), UNCHANGED <<phase, tracked, staged>>, unit' \subseteq unit, exited' \subseteq exited,
             volume'[p] = volume[p] \/ volume'[p] # 0
      PROVE  Made(p)'
  <2>1. \E new \in {NoJob, [pc |-> "backoff", i |-> 1]} : JobBecomes("saga", p, new)
    BY <1>b, <1>g, JobEnds, Zenon
  <2>2. job'["saga"][p].pc \in {"none", "backoff"} /\ job'["saga"][p].i = 1
    BY <2>1 DEF JobBecomes, NoJob
  <2>3. SagaIn(p, {"none", "net", "addr", "backoff"})'
    BY <2>2, Zenon DEF SagaIn
  <2> QED
    BY <1>a, <1>g, <1>p, <2>2, <2>3, MadeBack, Zenon
<1> HIDE DEF c
<1>1. CASE LaunchMounts("saga", p)
  <2>1. mount' = mount \cup {c} /\ UNCHANGED <<unit, exited, phase, tracked>> /\ At("saga", p, "mount") /\ Goes("saga", p, "run")
    BY <1>1, Zenon DEF LaunchMounts, Mount, c
  <2>2. Resolved(p)'
    BY <1>1, <1>w, Zenon DEF LaunchMounts, Resolve, ResolvePVC, ResolveCSI, NodeStageVolume, Resolved
  <2>3. SagaIn(p, {"mount", "run", "wait"}) /\ SagaIn(p, {"mount", "run", "wait"})' /\ job'["saga"][p].i = job["saga"][p].i
    BY <1>b, <2>1, GoesTo DEF SagaIn, At
  <2>4. Kept(p) => \A k \in 1 .. (job["saga"][p].i - 1) : Nth(p, k) \in unit' => Nth(p, k) \in mount'
    BY <1>k, <2>1, <2>3, Zenon
  <2>5. (Kept(p) => netns'[p] # "none") /\ Nth(p, job["saga"][p].i) \in mount' /\ Of(p) \cap unit' \cap exited' = {}
    BY <1>c, <1>k, <1>m, <1>n, <2>1, <2>3, Zenon
  <2> QED
    BY <1>a, <2>1, <2>2, <2>3, <2>4, <2>5, MadeOn, Zenon
<1>2. CASE LaunchMountFails("saga", p)
  BY <1>2, <1>g, <1>w, Zenon DEF LaunchMountFails
<1>3. CASE LaunchRuns("saga", p)
  <2>1. /\ unit' = (IF UnitStarts(p, c) THEN unit \cup {c} ELSE unit \ {c}) /\ exited' = exited \ {c}
        /\ UNCHANGED <<mount, volume, staged, phase, tracked>> /\ Goes("saga", p, "wait") /\ At("saga", p, "run")
    BY <1>3, Zenon DEF LaunchRuns, RunMachine, ResetUnit, c
  <2>2. /\ SagaIn(p, {"mount", "run", "wait"}) /\ SagaIn(p, {"run", "wait"}) /\ SagaIn(p, {"mount", "run", "wait"})'
        /\ job'["saga"][p].i = job["saga"][p].i
    BY <1>b, <2>1, GoesTo, ZenonT(60) DEF SagaIn, At
  <2>3. unit' \subseteq unit \cup {c} /\ Of(p) \cap unit' \cap exited' = {}
    BY <1>m, <2>1, Zenon
  <2>4. Kept(p) => \A k \in 1 .. (job["saga"][p].i - 1) : Nth(p, k) \in unit' => Nth(p, k) \in mount'
    BY <1>k, <2>1, <2>2, <2>3, Zenon
  <2>5. (Kept(p) => Resolved(p)') /\ (Kept(p) => netns'[p] # "none") /\ (Kept(p) => Nth(p, job["saga"][p].i) \in mount')
    BY <1>c, <1>k, <1>n, <2>1, <2>2, Zenon DEF Resolved
  <2> QED
    BY <1>a, <2>1, <2>2, <2>3, <2>4, <2>5, MadeOn, Zenon
<1>4. CASE LaunchRunFails("saga", p)
  <2>1. unit' \subseteq unit /\ exited' \subseteq exited /\ GivesUp("saga", p) /\ UNCHANGED <<phase, volume, staged, tracked>>
    BY <1>4, Zenon DEF LaunchRunFails, StopMachine, ResetUnit
  <2> QED
    BY <1>g, <2>1, Zenon
<1>5. CASE InitFails(p)
  <2>1. unit' \subseteq unit /\ UNCHANGED exited /\ GivesUp("saga", p) /\ UNCHANGED <<phase, volume, staged, tracked>>
    BY <1>5, Zenon DEF InitFails, StopMachine
  <2> QED
    BY <1>g, <2>1, Zenon
<1>6. CASE AppFails("saga", p)
  <2>1. unit' \subseteq unit /\ UNCHANGED exited /\ GivesUp("saga", p) /\ UNCHANGED <<phase, volume, staged, tracked>>
    BY <1>6, Zenon DEF AppFails, StopMachine, SharedMountsFail, PostStartFails
  <2> QED
    BY <1>g, <2>1, Zenon
<1>7. CASE LaunchSkips(p)
  <2>1. /\ At("saga", p, "mount") /\ c \in exited /\ Launched("saga", p)
        /\ UNCHANGED <<netns, unit, exited, mount, volume, staged>>
    BY <1>7, <1>n, Zenon DEF LaunchSkips, c
  <2>2. SagaIn(p, {"mount", "wait"}) /\ Begun(p) /\ c \notin unit
    BY <1>c, <1>m, <2>1, Zenon DEF SagaIn, At, Begun
  <2> QED
    BY <1>a, <1>m, <2>1, <2>2, MadeNext, Zenon DEF c
<1>8. CASE InitExits(p)
  <2>1. /\ At("saga", p, "wait") /\ Launched("saga", p) /\ UNCHANGED <<netns, volume, staged>>
        /\ unit' = unit \ {c} /\ exited' = exited \cup {c} /\ mount' = mount \ {c}
    BY <1>8, <1>n, Zenon DEF InitExits, Unmount, c
  <2>2. SagaIn(p, {"mount", "wait"}) /\ Begun(p)
    BY <2>1, Zenon DEF SagaIn, At, Begun
  <2>3. Of(p) \cap unit' \cap exited' = {} /\ unit' \subseteq unit /\ c \notin unit' /\ mount \subseteq mount' \cup {c}
    BY <1>m, <2>1, Zenon
  <2> QED
    BY <1>a, <2>1, <2>2, <2>3, MadeNext, Zenon DEF c
<1>9. CASE AppRuns("saga", p)
  <2>1. At("saga", p, "wait") /\ Launched("saga", p) /\ UNCHANGED <<netns, unit, exited, mount, volume, staged>>
    BY <1>9, <1>n, Zenon DEF AppRuns
  <2>2. SagaIn(p, {"mount", "wait"}) /\ SagaIn(p, {"run", "wait"}) /\ Begun(p)
    BY <2>1, Zenon DEF SagaIn, At, Begun
  <2> QED
    BY <1>a, <1>k, <1>m, <2>1, <2>2, MadeNext, Zenon DEF c
<1> QED
  BY <1>1, <1>2, <1>3, <1>4, <1>5, <1>6, <1>7, <1>8, <1>9, Zenon DEF Launch

\* The other steps of a pod: those of its deletion, and of the sweeps, are of a pod that does not run
LEMMA StepMade ==
  ASSUME Typed, NEW p \in Pods, Lifecycle(p), Made(p), PodStep(p)
  PROVE  Made(p)'
<1>t. phase \in [Pods -> Phases] /\ volume \in [Pods -> Nat]
  BY Zenon DEF Typed
<1>m. Of(p) \cap unit \cap exited = {}
  BY Zenon DEF Made
<1>d. ASSUME job' = job, phase'[p] \in {"none", "deleting", "gone"}, phase'[p] = "none" => phase[p] = "none",
             unit' \subseteq unit, exited' \subseteq exited
      PROVE  Made(p)'
  <2>1. ~Kept(p)'
    BY <1>d, Zenon DEF Kept
  <2>2. Of(p) \cap unit' \cap exited' = {}
    BY <1>d, <1>m, Zenon
  <2>3. phase'[p] = "none" => Of(p) \cap (unit' \cup exited') = {}
    BY <1>d, Zenon DEF Made
  <2>4. SagaIn(p, {"none", "net", "addr", "backoff"})' => job'["saga"][p].i = 1
    BY <1>d, Zenon DEF Made, SagaIn
  <2> QED
    BY <2>1, <2>2, <2>3, <2>4, Zenon DEF Made
<1>1. CASE CreatePod(p)
  <2>1. phase[p] = "none" /\ phase'[p] = "creating" /\ UNCHANGED <<unit, exited>> /\ Goes("saga", p, "net")
    BY <1>t, <1>1, Zenon DEF CreatePod, hostVars
  <2>2. At("saga", p, "none") /\ At("restart", p, "none")
    <3>1. deletion[p] = "none"
      BY <2>1, Zenon DEF Lifecycle
    <3> QED
      BY <2>1, <3>1, Zenon DEF Lifecycle
  <2>3. "saga" \in Jobs /\ "restart" \in Jobs /\ "saga" # "restart"
    BY Zenon DEF Jobs
  <2>4. job'["saga"][p].pc = "net" /\ job'["saga"][p].i = job["saga"][p].i
    BY <2>1, <2>3, GoesTo, Zenon
  <2>5. job'["restart"][p] = job["restart"][p]
    <3>1. JobBecomes("saga", p, [pc |-> "net", i |-> job["saga"][p].i])
      BY <2>1, <2>3, JobGoes, Zenon
    <3> QED
      BY <2>3, <3>1, Zenon DEF JobBecomes
  <2>6. job["saga"][p].i = 1
    BY <2>2, Zenon DEF Made, SagaIn, At
  <2>7. Of(p) \cap exited' = {}
    BY <2>1, Zenon DEF Made
  <2>8. ~Begun(p)' /\ ~SagaIn(p, {"mount", "run", "wait"})' /\ ~SagaIn(p, {"run", "wait"})'
    BY <2>1, <2>4, <2>7, Zenon DEF Begun, SagaIn
  <2>9. job'["restart"][p].pc \notin {"backoff", "mount", "run"}
    BY <2>2, <2>5, Zenon DEF At
  <2>10. phase'[p] # "none" /\ phase'[p] # "running" /\ Of(p) \cap unit' \cap exited' = {}
    BY <1>m, <2>1, Zenon
  <2> QED
    BY <2>4, <2>6, <2>8, <2>9, <2>10, Zenon DEF Made
<1>2. CASE ContainerExits(p)
  <2>1. /\ phase[p] = "running" /\ At("saga", p, "none") /\ At("restart", p, "none")
        /\ UNCHANGED <<phase, exited, mount, netns, volume, staged, tracked, job, crashed>> /\ unit' \subseteq unit
    BY <1>2, Zenon DEF ContainerExits, Jobs
  <2>2. Kept(p)' => Kept(p)
    BY <2>1, Zenon DEF Kept
  <2>3. Kept(p) => Resolved(p) /\ netns[p] # "none" /\ Of(p) \cap unit \subseteq mount
    BY <2>1, Zenon DEF Made, Begun
  <2>4. Kept(p) => Resolved(p)' /\ netns'[p] # "none" /\ Of(p) \cap unit' \subseteq mount'
    BY <2>1, <2>3, Zenon DEF Resolved
  <2>5. /\ ~SagaIn(p, {"mount", "run", "wait"})' /\ ~SagaIn(p, {"run", "wait"})' /\ phase'[p] # "none"
        /\ job'["restart"][p].pc \notin {"backoff", "mount", "run"} /\ Of(p) \cap unit' \cap exited' = {}
    BY <1>m, <2>1, Zenon DEF SagaIn, At
  <2>6. SagaIn(p, {"none", "net", "addr", "backoff"})' => job'["saga"][p].i = 1
    BY <2>1, Zenon DEF Made, SagaIn
  <2> QED
    BY <2>2, <2>4, <2>5, <2>6, Zenon DEF Made
<1>3. CASE RestartBegins(p)
  <2>1. /\ phase[p] = "running" /\ <<p, App(p)>> \notin unit
        /\ UNCHANGED <<phase, unit, exited, mount, netns, volume, staged, tracked, crashed>>
    BY <1>3, Zenon DEF RestartBegins, hostVars
  <2>2. job'["saga"][p] = job["saga"][p]
    BY <1>3, JobSet, Zenon DEF RestartBegins, Jobs, JobBecomes
  <2>3. (Kept(p)' => Kept(p)) /\ (Begun(p)' => Begun(p)) /\ (Resolved(p) => Resolved(p)')
    BY <2>1, <2>2, Zenon DEF Kept, Begun, Resolved, SagaIn
  <2> QED
    BY <2>1, <2>2, <2>3, Zenon DEF Made, SagaIn
<1>4. CASE DeletePod(p)
  BY <1>4, <1>d, <1>t, Zenon DEF DeletePod, hostVars
<1>5. CASE DeleteSandbox(p) \/ DeleteVolumes(p)
  <2>1. deletion[p] # "none" /\ UNCHANGED <<phase, job>> /\ unit' \subseteq unit /\ exited' \subseteq exited
    BY <1>5, Zenon DEF DeleteSandbox, DeleteVolumes, DeletionFrame, StopMachine, ResetUnit
  <2>2. phase[p] = "deleting"
    BY <2>1, Zenon DEF Lifecycle
  <2> QED
    BY <1>d, <2>1, <2>2, Zenon
<1>6. CASE DeleteEnds(p)
  <2>1. phase'[p] = "gone" /\ UNCHANGED <<job, unit, exited>>
    BY <1>6, <1>t, Zenon DEF DeleteEnds, DeletionFrame, hostVars
  <2> QED
    BY <1>d, <2>1, Zenon
<1>7. CASE RefreshWrites(p)
  <2>1. volume'[p] # 0 /\ UNCHANGED <<phase, unit, exited, mount, netns, staged, tracked, job, crashed>>
    BY <1>7, <1>t, Zenon DEF RefreshWrites, Typed
  <2>2. (Kept(p)' => Kept(p)) /\ (Begun(p)' => Begun(p)) /\ (Resolved(p) => Resolved(p)')
    BY <2>1, Zenon DEF Kept, Begun, Resolved, SagaIn
  <2> QED
    BY <2>1, <2>2, Zenon DEF Made, SagaIn
<1>8. CASE CleanStaleDirs(p) \/ \E c \in Names(p) : TearDownOrphan(p, c)
  <2>1. phase[p] \in {"none", "gone"} /\ UNCHANGED <<phase, job, exited>> /\ unit' \subseteq unit
    BY <1>8, Zenon DEF CleanStaleDirs, TearDownOrphan, StopMachine
  <2> QED
    BY <1>d, <2>1, Zenon
<1> QED
  BY <1>1, <1>2, <1>3, <1>4, <1>5, <1>6, <1>7, <1>8, SetupMade, SagaMade, RestartMade, Zenon
     DEF PodStep, Saga, Restart, Delete, Reconcile

\* The CSI volume is unstaged only by the deletion of a pod that claims it
LEMMA StagedStep ==
  ASSUME NEW p \in Pods, PodStep(p)
  PROVE  UNCHANGED crashed /\ (staged' = staged \/ staged' = TRUE \/ p \in PVCPods)
<1>1. crashed' = crashed
  BY Zenon DEF PodStep, Saga, Setup, SetupRecovers, SetupCreates, SetupExhausted, SetupConfigures, SetupFails, SagaFrame,
         CreatePod, Retry, LaunchSkips, InitExits, InitFails, Restart, Launch, LaunchMounts, LaunchMountFails,
         LaunchRuns, LaunchRunFails, AppRuns, AppFails, LaunchFrame, RestartBegins, RestartScrubs, ContainerExits,
         DeletePod, Delete, DeleteSandbox, DeleteVolumes, DeleteEnds, DeletionFrame, RefreshWrites, Reconcile,
         CleanStaleDirs, TearDownOrphan
<1>2. staged' = staged \/ staged' = TRUE \/ p \in PVCPods
  BY Zenon DEF PodStep, Saga, Setup, SetupRecovers, SetupCreates, SetupExhausted, SetupConfigures, SetupFails, SagaFrame,
         CreatePod, Retry, LaunchSkips, InitExits, InitFails, Restart, Launch, LaunchMounts, LaunchMountFails,
         LaunchRuns, LaunchRunFails, AppRuns, AppFails, RestartBegins, RestartScrubs, ContainerExits,
         DeletePod, Delete, DeleteSandbox, DeleteVolumes, DeleteEnds, RefreshWrites, Reconcile,
         CleanStaleDirs, TearDownOrphan, hostVars, Resolve, ResolvePVC, ResolveCSI, NodeStageVolume, CleanupCSI
<1> QED
  BY <1>1, <1>2, Zenon

\* A pod's sandbox stays as it is while another pod takes a step
LEMMA FrameMade ==
  ASSUME Typed, SingleClaim, NEW p \in Pods, PodStep(p), NEW q \in Pods, q # p, Made(q)
  PROVE  Made(q)'
<1>1. Frame(q)
  BY FrameStep, Zenon
<1>2. /\ phase'[q] = phase[q] /\ netns'[q] = netns[q] /\ volume'[q] = volume[q] /\ (q \in tracked' <=> q \in tracked)
      /\ crashed' = crashed /\ job'["saga"][q] = job["saga"][q] /\ job'["restart"][q] = job["restart"][q]
  BY <1>1, StagedStep, Zenon DEF Frame, HostFrame, Jobs
<1>3. \A c \in Of(q) : (c \in unit' <=> c \in unit) /\ (c \in exited' <=> c \in exited) /\ (c \in mount' <=> c \in mount)
  BY <1>1, Zenon DEF Frame, HostFrame
<1>4. q \in PVCPods /\ staged => staged'
  BY StagedStep, Zenon DEF SingleClaim
<1>5. (Kept(q)' => Kept(q)) /\ (Resolved(q) => Resolved(q)')
  BY <1>2, <1>4, Zenon DEF Kept, Resolved
<1>6. Begun(q)' => Begun(q)
  BY <1>2, <1>3, Zenon DEF Begun, SagaIn
<1>7. /\ Of(q) \cap (unit \cup exited) = {} => Of(q) \cap (unit' \cup exited') = {}
      /\ Of(q) \cap unit \cap exited = {} => Of(q) \cap unit' \cap exited' = {}
      /\ Of(q) \cap unit \subseteq mount => Of(q) \cap unit' \subseteq mount'
  BY <1>3, Zenon
<1>8. <<q, App(q)>> \in Of(q) /\ \A k \in 1 .. job["saga"][q].i : Nth(q, k) \in Of(q)
  <2>1. job["saga"][q].i \in 1 .. Len(Containers[q]) /\ Len(Containers[q]) \in Nat \ {0}
    BY ContainerIs, Zenon DEF Jobs
  <2>2. Len(Containers[q]) \in 1 .. Len(Containers[q]) /\ \A k \in 1 .. job["saga"][q].i : k \in 1 .. Len(Containers[q])
    BY <2>1
  <2> QED
    BY <2>2, NthOf, Zenon
<1>9. job["saga"][q].i \in 1 .. job["saga"][q].i /\ \A k \in 1 .. (job["saga"][q].i - 1) : k \in 1 .. job["saga"][q].i
  <2>1. job["saga"][q].i \in 1 .. Len(Containers[q]) /\ Len(Containers[q]) \in Nat \ {0}
    BY ContainerIs, Zenon DEF Jobs
  <2> QED
    BY <2>1
<1>10. /\ Nth(q, job["saga"][q].i) \in mount => Nth(q, job["saga"][q].i) \in mount'
       /\ \A k \in 1 .. (job["saga"][q].i - 1) : (Nth(q, k) \in unit' <=> Nth(q, k) \in unit) /\ (Nth(q, k) \in mount' <=> Nth(q, k) \in mount)
       /\ <<q, App(q)>> \in unit' => <<q, App(q)>> \in unit
  BY <1>3, <1>8, <1>9, Zenon
<1> QED
  BY <1>2, <1>5, <1>6, <1>7, <1>10, Zenon DEF Made, SagaIn

\* Every step keeps MadeInv; after the death of the process nothing is said of the pods it had created
LEMMA MadeStep ==
  ASSUME Typed, TornInv, SingleClaim, MadeInv, [Next]_vars
  PROVE  MadeInv'
<1>1. SUFFICES ASSUME NEW q \in Pods
               PROVE  Made(q)'
  BY Zenon DEF MadeInv
<1>2. Made(q) /\ Lifecycle(q)
  BY Zenon DEF MadeInv, TornInv
<1>3. ASSUME NEW p \in Pods, PodStep(p)
      PROVE  Made(q)'
  BY <1>2, <1>3, StepMade, FrameMade, Zenon
<1>4. CASE ConfigMapChanges \/ Notify \/ UNCHANGED vars
  <2>1. UNCHANGED <<phase, netns, job, tracked, crashed, unit, exited, mount, volume, staged>>
    BY <1>4, Zenon DEF ConfigMapChanges, Notify, vars, hostVars
  <2>2. (Kept(q)' <=> Kept(q)) /\ (Begun(q)' <=> Begun(q)) /\ (Resolved(q)' <=> Resolved(q))
    BY <2>1, Zenon DEF Kept, Begun, Resolved, SagaIn
  <2> QED
    BY <1>2, <2>1, <2>2, Zenon DEF Made, SagaIn
<1>5. CASE Crash
  <2>1. /\ job' = [j \in Jobs |-> [p \in Pods |-> NoJob]] /\ tracked' = {} /\ crashed' = TRUE /\ unit' = unit
    BY <1>5, Zenon DEF Crash
  <2>2. PICK found \in SUBSET Pods :
          /\ \A p \in Pods : phase[p] # "gone" /\ Of(p) \cap unit # {} => p \in found
          /\ phase' = [p \in Pods |-> IF p \in found THEN "running" ELSE IF phase[p] = "gone" THEN "gone" ELSE "none"]
          /\ exited' = exited \ UNION {Of(p) : p \in Pods \ found}
    BY <1>5, Zenon DEF Crash, CleanupStaleUnits, ResetUnit
  <2>3. job'["saga"][q] = NoJob
    BY <2>1, Zenon DEF Jobs
  <2>4. job'["saga"][q].i = 1
    BY <2>3 DEF NoJob
  <2>5. ~Kept(q)'
    BY <2>1, <2>2, Zenon DEF Kept
  <2>6. Of(q) \cap unit' \cap exited' = {}
    BY <1>2, <2>1, <2>2, Zenon DEF Made
  <2>7. phase'[q] = "none" => q \notin found /\ phase[q] # "gone"
    BY <2>2, Zenon
  <2>8. phase'[q] = "none" => Of(q) \cap (unit' \cup exited') = {}
    BY <2>1, <2>2, <2>7, Zenon
  <2> QED
    BY <2>4, <2>5, <2>6, <2>8, Zenon DEF Made
<1> QED
  BY <1>3, <1>4, <1>5, Zenon DEF Next, PodStep

\* How far a pod's sandbox has come is what the goroutine at work on it says, when no two pods claim
\* the CSI volume
THEOREM SandboxMadeInv ==
  ASSUME SingleClaim
  PROVE  Spec => [](Typed /\ TornInv /\ MadeInv)
<1>1. Init => MadeInv
  <2>1. SUFFICES ASSUME Init, NEW p \in Pods
                 PROVE  Made(p)
    BY Zenon DEF MadeInv
  <2>2. job["saga"][p] = NoJob /\ phase[p] = "none" /\ unit = {} /\ exited = {}
    BY <2>1, Zenon DEF Init, Jobs
  <2>3. job["saga"][p].i = 1 /\ ~Kept(p)
    BY <2>2 DEF NoJob, Kept
  <2> QED
    BY <2>2, <2>3, Zenon DEF Made
<1>2. Init => Typed /\ TornInv
  BY TypedInit, TornInit, Zenon
<1>3. Typed /\ TornInv /\ MadeInv /\ [Next]_vars => (Typed /\ TornInv /\ MadeInv)'
  BY TypedStep, TornStep, MadeStep, Zenon
<1> QED
  BY <1>1, <1>2, <1>3, PTL DEF Spec

\* While no goroutine is at work on a pod that syncPodSandboxAndContainers promoted, each of its units
\* has its overlay, a network namespace, its volumes and its claim, when no two pods claim the CSI volume
THEOREM SandboxRunningHasSandbox ==
  ASSUME SingleClaim
  PROVE  Spec => []RunningHasSandbox
<1>1. MadeInv => RunningHasSandbox
  <2>1. SUFFICES ASSUME MadeInv, NEW p \in Pods, phase[p] = "running", p \in tracked \/ ~crashed, NEW c \in Of(p) \cap unit
                 PROVE  c \in mount /\ netns[p] # "none" /\ volume[p] # 0 /\ (p \in PVCPods => staged)
    BY Zenon DEF RunningHasSandbox
  <2>2. Made(p) /\ Kept(p) /\ Begun(p)
    BY <2>1, Zenon DEF MadeInv, Kept, Begun
  <2> QED
    BY <2>1, <2>2, Zenon DEF Made, Resolved
<1> QED
  BY <1>1, SandboxMadeInv, PTL
=============================================================================
