---------------------------- MODULE PluginsProofs ----------------------------
(***************************************************************************)
(* For any number of drivers and of goroutines per socket: the types of    *)
(* Plugins, AnnotationBacked and DriversKept.                              *)
(*                                                                         *)
(* A goroutine of handleSocket works on copies of the CSINode and of the   *)
(* annotation that may be old by the time it writes them back.  The        *)
(* inductive invariant says what a copy is still worth: what it names is   *)
(* in the CSINode, and a copy of the current version is the CSINode.       *)
(***************************************************************************)
EXTENDS Plugins, TLAPS

\* Every driver that ids names is in the CSINode.
Backed(ids) == \A e \in Drivers : ids[e] # 0 => csiNode.ids[e] # 0

\* What goroutine s of driver d has read: its copy of the annotation and of the CSINode, and, once
\* NodeGetInfo has answered, the node id it is about to write.
CopiesOK(d, s) ==
  LET t == task[d][s]
  IN  /\ Backed(t.notes) /\ Backed(t.node.ids)
      /\ t.node.rv <= csiNode.rv
      /\ t.node.rv = csiNode.rv => t.node.ids = csiNode.ids
      /\ t.pc \in {"node", "read", "write", "patch"} => t.id # 0
      /\ t.pc = "patch" => csiNode.ids[d] # 0

\* The inductive invariant; a CSINode that was never written has no driver.
Inv ==
  /\ AnnotationBacked
  /\ csiNode.rv = 0 => csiNode.ids = NoIDs
  /\ \A d \in Drivers, s \in Slots : CopiesOK(d, s)

-----------------------------------------------------------------------------
\* The empty map of node ids and a goroutine that has not begun are of their types.
LEMMA NoTaskType == NoIDs \in IDs /\ NoTask \in Task
BY DEF NoIDs, NoTask, IDs, Task, CSINode

\* The initial state has the types.
LEMMA InitType == Init => TypeOK
BY NoTaskType, PluginsAssumption DEF Init, TypeOK, CSINode

\* The steps of Run and the daemon's restart keep the types.
LEMMA RunType == ASSUME TypeOK, Run \/ Restart PROVE TypeOK'
<1>1. ASSUME NEW ds \in SUBSET Drivers, Spawn(ds) PROVE task' \in [Drivers -> [Slots -> Task]]
  <2>1. [NoTask EXCEPT !.pc = "info"] \in Task
    BY NoTaskType, Zenon DEF Task
  <2>2. QED
    BY <1>1, <2>1, Zenon DEF Spawn, TypeOK
<1>2. CASE Scan
  BY <1>1, <1>2, Zenon DEF Scan, TypeOK, hostVars, clusterVars
<1>3. CASE Watch
  BY <1>3, Zenon DEF Watch, TypeOK, hostVars, clusterVars
<1>4. CASE \E e \in Drivers : Receive(e)
  BY <1>1, <1>4, Zenon DEF Receive, TypeOK, hostVars, clusterVars
<1>5. CASE Restart
  BY <1>5, NoTaskType, PluginsAssumption DEF Restart, Event, TypeOK, hostVars, clusterVars
<1>6. QED
  BY <1>2, <1>3, <1>4, <1>5, Zenon DEF Run

\* The steps of a registrar and of its driver keep the types.
LEMMA HostType == ASSUME TypeOK, NEW d \in Drivers,
                         \/ RegistrarStarts(d) \/ RegistrarServes(d)
                         \/ RegistrarExits(d) \/ DriverStarts(d)
                  PROVE  TypeOK'
<1>1. CASE RegistrarStarts(d)
  BY <1>1, Zenon DEF RegistrarStarts, TypeOK, clusterVars
<1>2. CASE RegistrarServes(d)
  BY <1>2, Zenon DEF RegistrarServes, TypeOK, clusterVars
<1>3. CASE RegistrarExits(d)
  BY <1>3, PluginsAssumption DEF RegistrarExits, Event, TypeOK, clusterVars
<1>4. CASE DriverStarts(d)
  BY <1>4, Zenon DEF DriverStarts, TypeOK, clusterVars
<1>5. QED
  BY <1>1, <1>2, <1>3, <1>4, Zenon

-----------------------------------------------------------------------------
\* What becomes of the goroutines when one of them moves on with t.
LEMMA Moved == ASSUME TypeOK, NEW d \in Drivers, NEW s \in Slots, NEW t \in Task,
                      task' = [task EXCEPT ![d][s] = t]
               PROVE  /\ task' \in [Drivers -> [Slots -> Task]] /\ task'[d][s] = t
                      /\ \A e \in Drivers, r \in Slots :
                           e # d \/ r # s => task'[e][r] = task[e][r]
BY Zenon DEF TypeOK

\* A goroutine that goes on to pc has the copies it had.
LEMMA GoesOn == ASSUME TypeOK, NEW d \in Drivers, NEW s \in Slots,
                       NEW pc \in {"info", "endpoint", "node", "read", "write", "patch", "tell"},
                       Goes(d, s, pc)
                PROVE  /\ task' \in [Drivers -> [Slots -> Task]]
                       /\ task'[d][s].pc = pc /\ task'[d][s].id = task[d][s].id
                       /\ task'[d][s].notes = task[d][s].notes /\ task'[d][s].node = task[d][s].node
                       /\ \A e \in Drivers, r \in Slots :
                            e # d \/ r # s => task'[e][r] = task[e][r]
<1> DEFINE t == [task[d][s] EXCEPT !.pc = pc]
<1>1. task[d][s] \in Task
  BY Zenon DEF TypeOK
<1>2. /\ t \in Task /\ t.pc = pc /\ t.id = task[d][s].id
      /\ t.notes = task[d][s].notes /\ t.node = task[d][s].node
  BY <1>1, Zenon DEF Task
<1>3. task' = [task EXCEPT ![d][s] = t]
  BY Zenon DEF Goes
<1> HIDE DEF t
<1>4. /\ task' \in [Drivers -> [Slots -> Task]] /\ task'[d][s] = t
      /\ \A e \in Drivers, r \in Slots : e # d \/ r # s => task'[e][r] = task[e][r]
  BY <1>2, <1>3, Zenon DEF TypeOK
<1>5. QED
  BY <1>2, <1>4, Zenon

\* The CSINode is left alone, or written by a goroutine that keeps its drivers.
Advance ==
  \/ csiNode' = csiNode
  \/ /\ csiNode' \in CSINode /\ csiNode'.rv = csiNode.rv + 1
     /\ \A e \in Drivers : csiNode.ids[e] # 0 => csiNode'.ids[e] # 0

\* The copies of a goroutine that does not move stay good when the CSINode advances.
LEMMA CopiesKept == ASSUME TypeOK, Advance, NEW e \in Drivers, NEW r \in Slots, CopiesOK(e, r),
                           task'[e][r] = task[e][r]
                    PROVE  CopiesOK(e, r)'
<1>1. task[e][r] \in Task
  BY Zenon DEF TypeOK
<1>2. CASE csiNode' = csiNode
  BY <1>2, Zenon DEF CopiesOK, Backed
<1>3. CASE /\ csiNode' \in CSINode /\ csiNode'.rv = csiNode.rv + 1
           /\ \A x \in Drivers : csiNode.ids[x] # 0 => csiNode'.ids[x] # 0
  BY <1>1, <1>3 DEF CopiesOK, Backed, TypeOK, Task, CSINode
<1>4. QED
  BY <1>2, <1>3, Zenon DEF Advance

\* A goroutine that has read nothing has good copies.
LEMMA FreshCopies == ASSUME TypeOK, Inv, csiNode' = csiNode, NEW e \in Drivers, NEW r \in Slots,
                            task'[e][r] \in {NoTask, [NoTask EXCEPT !.pc = "info"]}
                     PROVE  CopiesOK(e, r)'
<1>1. /\ task'[e][r].notes = NoIDs /\ task'[e][r].node = [rv |-> 0, ids |-> NoIDs]
      /\ task'[e][r].pc \in {"none", "info"}
  BY DEF NoTask
<1>2. \A x \in Drivers : NoIDs[x] = 0
  BY Zenon DEF NoIDs
<1>3. csiNode.rv \in Nat
  BY Zenon DEF TypeOK, CSINode
<1>4. QED
  BY <1>1, <1>2, <1>3 DEF CopiesOK, Backed, Inv

-----------------------------------------------------------------------------
\* The steps of a goroutine keep the types.
LEMMA HandleSocketType ==
  ASSUME TypeOK, NEW d \in Drivers, NEW s \in Slots,
         HandleSocket(d, s) \/ TimesOut(d, s) \/ EnsureFails(d, s)
  PROVE  TypeOK'
<1> USE DEF TaskFrame, hostVars, clusterVars
<1> DEFINE T == [Drivers -> [Slots -> Task]]
<1>1. task[d][s] \in Task /\ task \in T
  BY Zenon DEF TypeOK
<1>2. ASSUME NEW pc \in {"info", "endpoint", "node", "read", "write", "patch", "tell"}, Goes(d, s, pc)
      PROVE  task' \in T
  BY <1>2, GoesOn, Zenon
<1>3. ASSUME Ends(d, s) PROVE task' \in T
  BY <1>1, <1>3, NoTaskType, Zenon DEF Ends
<1>4. ASSUME NEW t \in Task, task' = [task EXCEPT ![d][s] = t] PROVE task' \in T
  BY <1>1, <1>4, Zenon
<1>5. ASSUME Event PROVE events' \in 0..MaxEvents
  BY <1>5, PluginsAssumption DEF Event, TypeOK
<1> HIDE DEF T
<1>6. ASSUME task' \in T, UNCHANGED <<hostVars, boot, created, missed>>,
             csiNode' \in CSINode, annotation' \in IDs, events' \in 0..MaxEvents,
             abandoned' \subseteq Drivers
      PROVE  TypeOK'
  BY <1>6, Zenon DEF TypeOK, T
<1>7. CASE GetInfo(d, s)
  BY <1>2, <1>6, <1>7, Zenon DEF GetInfo, TypeOK
<1>8. CASE TimesOut(d, s)
  BY <1>3, <1>5, <1>6, <1>8, Zenon DEF TimesOut, TypeOK
<1>9. CASE NodeGetInfo(d, s)
  <2>1. nodeID[d] \in 0..2
    BY DEF TypeOK
  <2>2. [task[d][s] EXCEPT !.pc = "node", !.id = nodeID[d]] \in Task
    BY <1>1, <2>1, Zenon DEF Task
  <2>3. task' \in T
    BY <1>2, <1>4, <1>9, <2>2, Zenon DEF NodeGetInfo
  <2>4. QED
    BY <1>5, <1>6, <1>9, <2>3, Zenon DEF NodeGetInfo, TypeOK
<1>10. CASE EnsureFails(d, s)
  BY <1>2, <1>5, <1>6, <1>10, Zenon DEF EnsureFails, TypeOK
<1>11. CASE EnsureGetsNode(d, s)
  <2>1. [task[d][s] EXCEPT !.pc = "read", !.notes = annotation] \in Task
    BY <1>1, Zenon DEF Task, TypeOK
  <2>2. QED
    BY <1>4, <1>6, <1>11, <2>1, Zenon DEF EnsureGetsNode, TypeOK
<1>12. CASE EnsureGetsCSINode(d, s)
  <2>1. [task[d][s] EXCEPT !.pc = "write", !.node = csiNode] \in Task
    BY <1>1, Zenon DEF Task, TypeOK
  <2>2. QED
    BY <1>4, <1>6, <1>12, <2>1, Zenon DEF EnsureGetsCSINode, TypeOK
<1>13. CASE EnsureWrites(d, s)
  <2>1. [rv |-> csiNode.rv + 1, ids |-> [task[d][s].node.ids EXCEPT ![d] = task[d][s].id]] \in CSINode
    BY <1>1 DEF Task, CSINode, IDs, TypeOK
  <2>2. task' \in T
    BY <1>2, <1>13, Zenon DEF EnsureWrites
  <2>3. csiNode' \in CSINode
    BY <1>13, <2>1, Zenon DEF EnsureWrites, TypeOK
  <2>4. QED
    BY <1>6, <1>13, <2>2, <2>3, Zenon DEF EnsureWrites, TypeOK
<1>14. CASE EnsurePatches(d, s)
  <2>1. [task[d][s].notes EXCEPT ![d] = task[d][s].id] \in IDs
    BY <1>1, Zenon DEF Task, IDs
  <2>2. QED
    BY <1>2, <1>6, <1>14, <2>1, Zenon DEF EnsurePatches, TypeOK
<1>15. CASE Tell(d, s)
  BY <1>3, <1>5, <1>15, Zenon DEF Tell, TypeOK, T
<1>16. QED
  BY <1>7, <1>8, <1>9, <1>10, <1>11, <1>12, <1>13, <1>14, <1>15, Zenon DEF HandleSocket

\* Every state of the PluginWatcher, of its goroutines and of the objects they write has its type.
THEOREM PluginsTypeOK == Spec => []TypeOK
<1>1. TypeOK /\ [Next]_vars => TypeOK'
  <2>1. ASSUME TypeOK, Next PROVE TypeOK'
    BY <2>1, RunType, HostType, HandleSocketType, Zenon DEF Next
  <2>2. ASSUME TypeOK, UNCHANGED vars PROVE TypeOK'
    BY <2>2, Zenon DEF TypeOK, vars, hostVars, clusterVars
  <2>3. QED
    BY <2>1, <2>2, Zenon
<1>2. QED
  BY <1>1, InitType, PTL DEF Spec

-----------------------------------------------------------------------------
\* A step that leaves the CSINode and the annotation alone keeps the invariant when every goroutine
\* stays as it is or is at its beginning.
LEMMA QuietStep ==
  ASSUME TypeOK, Inv, UNCHANGED clusterVars,
         \A e \in Drivers, r \in Slots :
           task'[e][r] \in {task[e][r], NoTask, [NoTask EXCEPT !.pc = "info"]}
  PROVE  Inv'
<1>1. csiNode' = csiNode /\ annotation' = annotation
  BY Zenon DEF clusterVars
<1>2. ASSUME NEW e \in Drivers, NEW r \in Slots PROVE CopiesOK(e, r)'
  <2>1. CASE task'[e][r] = task[e][r]
    BY <1>1, <2>1, CopiesKept, Zenon DEF Inv, Advance
  <2>2. CASE task'[e][r] \in {NoTask, [NoTask EXCEPT !.pc = "info"]}
    BY <1>1, <2>2, FreshCopies, Zenon
  <2>3. QED
    BY <2>1, <2>2, Zenon
<1>3. QED
  BY <1>1, <1>2, Zenon DEF Inv, AnnotationBacked

\* The steps of Run, of the daemon's restart, of a registrar and of its driver keep the invariant.
LEMMA RunInv == ASSUME TypeOK, Inv, Run \/ Restart PROVE Inv'
<1>1. ASSUME NEW ds \in SUBSET Drivers, Spawn(ds), NEW e \in Drivers, NEW r \in Slots
      PROVE  task'[e][r] \in {task[e][r], [NoTask EXCEPT !.pc = "info"]}
  BY <1>1, Zenon DEF Spawn, TypeOK
<1>2. CASE Scan
  BY <1>1, <1>2, QuietStep, Zenon DEF Scan
<1>3. CASE Watch
  BY <1>3, QuietStep, Zenon DEF Watch
<1>4. CASE \E e \in Drivers : Receive(e)
  BY <1>1, <1>4, QuietStep, Zenon DEF Receive
<1>5. CASE Restart
  <2>1. \A e \in Drivers, r \in Slots : task'[e][r] = NoTask
    BY <1>5, Zenon DEF Restart
  <2>2. QED
    BY <1>5, <2>1, QuietStep, Zenon DEF Restart
<1>6. QED
  BY <1>2, <1>3, <1>4, <1>5, Zenon DEF Run

\* What a registrar or its driver does is not seen by ensureCSINode.
LEMMA HostInv == ASSUME TypeOK, Inv, NEW d \in Drivers,
                        \/ RegistrarStarts(d) \/ RegistrarServes(d)
                        \/ RegistrarExits(d) \/ DriverStarts(d)
                 PROVE  Inv'
<1>1. UNCHANGED <<task, clusterVars>>
  BY Zenon DEF RegistrarStarts, RegistrarServes, RegistrarExits, DriverStarts
<1>2. QED
  BY <1>1, QuietStep, Zenon

\* A step of goroutine s of driver d that leaves the other goroutines alone keeps the invariant when
\* the CSINode advances, the annotation stays backed and its own copies are good afterwards.
LEMMA OwnStep ==
  ASSUME TypeOK, Inv, NEW d \in Drivers, NEW s \in Slots, Advance, AnnotationBacked',
         csiNode' \in CSINode, CopiesOK(d, s)',
         \A e \in Drivers, r \in Slots : e # d \/ r # s => task'[e][r] = task[e][r]
  PROVE  Inv'
<1>1. ASSUME NEW e \in Drivers, NEW r \in Slots PROVE CopiesOK(e, r)'
  BY CopiesKept, Zenon DEF Inv
<1>2. csiNode'.rv = 0 => csiNode'.ids = NoIDs
  BY DEF Inv, Advance, TypeOK, CSINode
<1>3. QED
  BY <1>1, <1>2, Zenon DEF Inv

\* A goroutine that goes on without a write keeps the invariant when it is not about to patch, and
\* has a node id wherever it needs one.
LEMMA GoesInv ==
  ASSUME TypeOK, Inv, NEW d \in Drivers, NEW s \in Slots, UNCHANGED clusterVars,
         NEW pc \in {"info", "endpoint", "tell"}, Goes(d, s, pc)
  PROVE  Inv'
<1>1. csiNode' = csiNode /\ annotation' = annotation
  BY Zenon DEF clusterVars
<1>2. /\ task'[d][s].pc = pc /\ task'[d][s].id = task[d][s].id
      /\ task'[d][s].notes = task[d][s].notes /\ task'[d][s].node = task[d][s].node
      /\ \A e \in Drivers, r \in Slots : e # d \/ r # s => task'[e][r] = task[e][r]
  BY GoesOn, ZenonT(60)
<1>3. CopiesOK(d, s)'
  <2>1. CopiesOK(d, s) /\ pc \notin {"node", "read", "write", "patch"}
    BY Zenon DEF Inv
  <2> QED BY <1>1, <1>2, <2>1, Zenon DEF CopiesOK, Backed
<1>4. Advance /\ AnnotationBacked' /\ csiNode' \in CSINode
  BY <1>1, Zenon DEF Advance, Inv, AnnotationBacked, TypeOK
<1>5. QED
  BY <1>2, <1>3, <1>4, OwnStep, Zenon

\* A goroutine that ends keeps the invariant.
LEMMA EndsInv ==
  ASSUME TypeOK, Inv, NEW d \in Drivers, NEW s \in Slots, UNCHANGED clusterVars, Ends(d, s)
  PROVE  Inv'
BY QuietStep, Zenon DEF Ends, TypeOK

\* NodeGetInfo brings a node id, and a failed attempt begins again.
LEMMA NodeGetInfoInv ==
  ASSUME TypeOK, Inv, NEW d \in Drivers, NEW s \in Slots, NodeGetInfo(d, s)
  PROVE  Inv'
<1>1. csiNode' = csiNode /\ annotation' = annotation
  BY Zenon DEF NodeGetInfo, clusterVars
<1>2. CASE Goes(d, s, "info")
  BY <1>1, <1>2, GoesInv, Zenon DEF clusterVars
<1>3. CASE task' = [task EXCEPT ![d][s] = [@ EXCEPT !.pc = "node", !.id = nodeID[d]]]
  <2> DEFINE t == [task[d][s] EXCEPT !.pc = "node", !.id = nodeID[d]]
  <2>1. task[d][s] \in Task /\ nodeID[d] \in 0..2 /\ nodeID[d] # 0
    BY DEF TypeOK
  <2>2. t \in Task /\ t.pc = "node" /\ t.id # 0 /\ t.notes = task[d][s].notes /\ t.node = task[d][s].node
    BY <2>1, Zenon DEF Task
  <2>3. task' = [task EXCEPT ![d][s] = t]
    BY <1>3, Zenon
  <2> HIDE DEF t
  <2>4. /\ task'[d][s] = t
        /\ \A e \in Drivers, r \in Slots : e # d \/ r # s => task'[e][r] = task[e][r]
    BY <2>2, <2>3, Zenon DEF TypeOK
  <2>5. CopiesOK(d, s)'
    <3>1. CopiesOK(d, s)
      BY Zenon DEF Inv
    <3> QED BY <1>1, <2>2, <2>4, <3>1, ZenonT(60) DEF CopiesOK, Backed
  <2>6. QED
    BY <1>1, <2>4, <2>5, OwnStep, Zenon DEF Advance, Inv, AnnotationBacked, TypeOK
<1>4. QED
  BY <1>2, <1>3, Zenon DEF NodeGetInfo

\* The annotation that ensureCSINode reads is backed.
LEMMA EnsureGetsNodeInv ==
  ASSUME TypeOK, Inv, NEW d \in Drivers, NEW s \in Slots, EnsureGetsNode(d, s)
  PROVE  Inv'
<1> DEFINE t == [task[d][s] EXCEPT !.pc = "read", !.notes = annotation]
<1>1. csiNode' = csiNode /\ annotation' = annotation
  BY Zenon DEF EnsureGetsNode, clusterVars
<1>2. task[d][s] \in Task /\ annotation \in IDs /\ task[d][s].id # 0
  BY Zenon DEF TypeOK, Inv, CopiesOK, EnsureGetsNode, At
<1>3. /\ t \in Task /\ t.pc = "read" /\ t.id = task[d][s].id
      /\ t.notes = annotation /\ t.node = task[d][s].node
  BY <1>2, Zenon DEF Task
<1>4. task' = [task EXCEPT ![d][s] = t]
  BY Zenon DEF EnsureGetsNode
<1> HIDE DEF t
<1>5. /\ task'[d][s] = t
      /\ \A e \in Drivers, r \in Slots : e # d \/ r # s => task'[e][r] = task[e][r]
  <2>1. t \in Task
    BY <1>3, Zenon
  <2>2. QED
    BY <1>4, <2>1, Zenon DEF TypeOK
<1>6. CopiesOK(d, s)'
  <2>1. CopiesOK(d, s) /\ AnnotationBacked
    BY Zenon DEF Inv
  <2> QED BY <1>1, <1>2, <1>3, <1>5, <2>1, ZenonT(60) DEF CopiesOK, Backed, AnnotationBacked
<1>7. QED
  BY <1>1, <1>5, <1>6, OwnStep, Zenon DEF Advance, Inv, AnnotationBacked, TypeOK

\* The CSINode that ensureCSINode reads is the current one.
LEMMA EnsureGetsCSINodeInv ==
  ASSUME TypeOK, Inv, NEW d \in Drivers, NEW s \in Slots, EnsureGetsCSINode(d, s)
  PROVE  Inv'
<1> DEFINE t == [task[d][s] EXCEPT !.pc = "write", !.node = csiNode]
<1>1. csiNode' = csiNode /\ annotation' = annotation
  BY Zenon DEF EnsureGetsCSINode, clusterVars
<1>2. task[d][s] \in Task /\ csiNode \in CSINode /\ csiNode.rv \in Nat /\ task[d][s].id # 0
  BY DEF TypeOK, Inv, CopiesOK, EnsureGetsCSINode, At, CSINode
<1>3. /\ t \in Task /\ t.pc = "write" /\ t.id = task[d][s].id
      /\ t.notes = task[d][s].notes /\ t.node = csiNode
  BY <1>2, Zenon DEF Task
<1>4. task' = [task EXCEPT ![d][s] = t]
  BY Zenon DEF EnsureGetsCSINode
<1> HIDE DEF t
<1>5. /\ task'[d][s] = t
      /\ \A e \in Drivers, r \in Slots : e # d \/ r # s => task'[e][r] = task[e][r]
  <2>1. t \in Task
    BY <1>3, Zenon
  <2>2. QED
    BY <1>4, <2>1, Zenon DEF TypeOK
<1>6. CopiesOK(d, s)'
  BY <1>1, <1>2, <1>3, <1>5 DEF Inv, CopiesOK, Backed
<1>7. QED
  BY <1>1, <1>5, <1>6, OwnStep, Zenon DEF Advance, Inv, AnnotationBacked, TypeOK

\* The Create or Update of ensureCSINode is refused unless the copy is of the current version; hence
\* it keeps the drivers that are there, and this driver is there afterwards.
LEMMA EnsureWritesAdvance ==
  ASSUME TypeOK, Inv, NEW d \in Drivers, NEW s \in Slots, EnsureWrites(d, s)
  PROVE  /\ Advance /\ csiNode' \in CSINode
         /\ \/ Goes(d, s, "patch") /\ csiNode'.ids[d] # 0
            \/ Goes(d, s, "tell")
<1> DEFINE t == task[d][s]
           new == [rv |-> csiNode.rv + 1, ids |-> [t.node.ids EXCEPT ![d] = t.id]]
<1>1. t \in Task /\ t.id # 0 /\ CopiesOK(d, s) /\ csiNode \in CSINode
  BY Zenon DEF TypeOK, Inv, CopiesOK, EnsureWrites, At
<1>2. CASE t.node.ids[d] = t.id /\ csiNode' = csiNode /\ Goes(d, s, "patch")
  BY <1>1, <1>2, Zenon DEF Advance, CopiesOK, Backed
<1>3. CASE csiNode.rv = t.node.rv /\ csiNode' = new /\ Goes(d, s, "patch")
  <2>1. t.node.ids = csiNode.ids /\ csiNode.ids \in IDs
    BY <1>1, <1>3, Zenon DEF CopiesOK, CSINode
  <2>2. new \in CSINode /\ new.rv = csiNode.rv + 1 /\ new.ids = [csiNode.ids EXCEPT ![d] = t.id]
    BY <1>1, <2>1 DEF Task, CSINode, IDs
  <2>3. new.ids[d] = t.id /\ \A e \in Drivers : e # d => new.ids[e] = csiNode.ids[e]
    BY <2>1, <2>2, Zenon DEF IDs
  <2> HIDE DEF new
  <2>4. QED
    BY <1>1, <1>3, <2>2, <2>3, Zenon DEF Advance
<1>4. CASE csiNode' = csiNode /\ Goes(d, s, "tell")
  BY <1>1, <1>4, Zenon DEF Advance
<1>5. QED
  BY <1>2, <1>3, <1>4, Zenon DEF EnsureWrites

\* ensureCSINode's write keeps the invariant.
LEMMA EnsureWritesInv ==
  ASSUME TypeOK, Inv, NEW d \in Drivers, NEW s \in Slots, EnsureWrites(d, s)
  PROVE  Inv'
<1>1. /\ Advance /\ csiNode' \in CSINode /\ annotation' = annotation
      /\ \A e \in Drivers : csiNode.ids[e] # 0 => csiNode'.ids[e] # 0
  BY EnsureWritesAdvance, Zenon DEF EnsureWrites, Advance
<1>2. AnnotationBacked'
  BY <1>1, Zenon DEF Inv, AnnotationBacked
<1>3. task[d][s] \in Task /\ task[d][s].id # 0 /\ CopiesOK(d, s) /\ csiNode \in CSINode
  BY Zenon DEF TypeOK, Inv, CopiesOK, EnsureWrites, At
<1>4. ASSUME NEW pc \in {"patch", "tell"}, Goes(d, s, pc), pc = "patch" => csiNode'.ids[d] # 0
      PROVE  Inv'
  <2>1. /\ task'[d][s].pc = pc /\ task'[d][s].id = task[d][s].id
        /\ task'[d][s].notes = task[d][s].notes /\ task'[d][s].node = task[d][s].node
        /\ \A e \in Drivers, r \in Slots : e # d \/ r # s => task'[e][r] = task[e][r]
    <3>1. pc \in {"info", "endpoint", "node", "read", "write", "patch", "tell"} /\ Goes(d, s, pc)
      BY <1>4, Zenon
    <3> QED BY <3>1, GoesOn, ZenonT(60)
  <2>2. Backed(task[d][s].notes)' /\ Backed(task[d][s].node.ids)'
    BY <1>1, <1>3, <2>1, Zenon DEF CopiesOK, Backed
  <2>3. /\ task[d][s].node.rv <= csiNode'.rv
        /\ task[d][s].node.rv = csiNode'.rv => task[d][s].node.ids = csiNode'.ids
    BY <1>1, <1>3 DEF Advance, CopiesOK, Task, CSINode
  <2>4. CopiesOK(d, s)'
    BY <1>3, <1>4, <2>1, <2>2, <2>3, Zenon DEF CopiesOK
  <2>5. QED
    BY <1>1, <1>2, <2>1, <2>4, OwnStep, Zenon
<1>5. QED
  BY <1>4, EnsureWritesAdvance, Zenon

\* The patch brings in this driver, which is in the CSINode, and what the copy named.
LEMMA EnsurePatchesInv ==
  ASSUME TypeOK, Inv, NEW d \in Drivers, NEW s \in Slots, EnsurePatches(d, s)
  PROVE  Inv'
<1>1. csiNode' = csiNode /\ csiNode \in CSINode
  BY Zenon DEF EnsurePatches, TypeOK
<1>2. task[d][s] \in Task /\ CopiesOK(d, s) /\ csiNode.ids[d] # 0
  BY Zenon DEF TypeOK, Inv, CopiesOK, EnsurePatches, At
<1>3. task[d][s].notes \in IDs
  BY <1>2, Zenon DEF Task
<1>4. \A e \in Drivers : e # d => annotation'[e] = task[d][s].notes[e]
  BY <1>3, Zenon DEF EnsurePatches, IDs
<1>5. AnnotationBacked'
  BY <1>1, <1>2, <1>4, Zenon DEF AnnotationBacked, CopiesOK, Backed
<1>6. /\ task'[d][s].pc = "tell" /\ task'[d][s].id = task[d][s].id
      /\ task'[d][s].notes = task[d][s].notes /\ task'[d][s].node = task[d][s].node
      /\ \A e \in Drivers, r \in Slots : e # d \/ r # s => task'[e][r] = task[e][r]
  BY GoesOn, Zenon DEF EnsurePatches
<1>7. CopiesOK(d, s)'
  BY <1>1, <1>2, <1>6, Zenon DEF CopiesOK, Backed
<1>8. QED
  BY <1>1, <1>5, <1>6, <1>7, OwnStep, Zenon DEF Advance

-----------------------------------------------------------------------------
\* Every step of the PluginWatcher keeps the invariant.
LEMMA NextInv == ASSUME TypeOK, Inv, Next PROVE Inv'
<1>1. CASE Run \/ Restart
  BY <1>1, RunInv, Zenon
<1>2. CASE \E d \in Drivers : \/ RegistrarStarts(d) \/ RegistrarServes(d)
                              \/ RegistrarExits(d) \/ DriverStarts(d)
  BY <1>2, HostInv, Zenon
<1>3. ASSUME NEW d \in Drivers, NEW s \in Slots,
             HandleSocket(d, s) \/ TimesOut(d, s) \/ EnsureFails(d, s)
      PROVE  Inv'
  <2>1. CASE GetInfo(d, s)
    BY <2>1, GoesInv, Zenon DEF GetInfo
  <2>2. CASE TimesOut(d, s)
    BY <2>2, EndsInv, Zenon DEF TimesOut
  <2>3. CASE EnsureFails(d, s)
    BY <2>3, GoesInv, Zenon DEF EnsureFails
  <2>4. CASE Tell(d, s)
    BY <2>4, EndsInv, Zenon DEF Tell
  <2>5. QED
    BY Zenon, <1>3, <2>1, <2>2, <2>3, <2>4, NodeGetInfoInv, EnsureGetsNodeInv, EnsureGetsCSINodeInv,
       EnsureWritesInv, EnsurePatchesInv DEF HandleSocket
<1>4. QED
  BY <1>1, <1>2, <1>3, Zenon DEF Next

\* The invariant of ensureCSINode's read-modify-write, on which the two results below rest.
THEOREM PluginsInvariant == Spec => []Inv
<1>1. Init => Inv
  <2>1. \A e \in Drivers : NoIDs[e] = 0
    BY Zenon DEF NoIDs
  <2>2. /\ NoTask.notes = NoIDs /\ NoTask.node = [rv |-> 0, ids |-> NoIDs] /\ NoTask.pc = "none"
    BY Zenon DEF NoTask
  <2>3. QED
    BY <2>1, <2>2 DEF Init, Inv, AnnotationBacked, CopiesOK, Backed
<1>2. TypeOK /\ Inv /\ [Next]_vars => Inv'
  <2>1. ASSUME Inv, UNCHANGED vars PROVE Inv'
    BY <2>1, ZenonT(60) DEF Inv, AnnotationBacked, CopiesOK, Backed, vars, clusterVars
  <2>2. QED
    BY <2>1, NextInv, Zenon
<1>3. QED
  BY <1>1, <1>2, PluginsTypeOK, PTL DEF Spec

\* For any drivers and goroutines, a driver that the Node's annotation names is in the CSINode
\* (ensureCSINode writes the one before the other).
THEOREM PluginsAnnotationBacked == Spec => []AnnotationBacked
<1>1. Inv => AnnotationBacked
  BY Zenon DEF Inv
<1>2. QED
  BY <1>1, PluginsInvariant, PTL

\* For any drivers and goroutines, no write of ensureCSINode removes the entry of a driver: the API
\* server's version check refuses every copy that lacks one.
THEOREM PluginsDriversKept == Spec => DriversKept
<1> DEFINE Kept == \A d \in Drivers : csiNode.ids[d] # 0 => csiNode'.ids[d] # 0
<1>1. ASSUME TypeOK, Inv, [Next]_vars PROVE [Kept]_vars
  <2>1. CASE csiNode' = csiNode
    BY <2>1, Zenon
  <2>2. ASSUME NEW d \in Drivers, NEW s \in Slots, EnsureWrites(d, s) PROVE Kept
    BY <1>1, <2>2, EnsureWritesAdvance, Zenon DEF Advance
  <2>3. CASE UNCHANGED vars
    BY <2>3, Zenon
  <2>4. CASE Next
    <3>1. ASSUME Run \/ Restart PROVE csiNode' = csiNode
      BY <3>1, Zenon DEF Run, Scan, Watch, Receive, Restart, clusterVars
    <3>2. ASSUME NEW d \in Drivers, RegistrarStarts(d) \/ RegistrarServes(d) \/ RegistrarExits(d)
                                    \/ DriverStarts(d)
          PROVE  csiNode' = csiNode
      BY <3>2, Zenon DEF RegistrarStarts, RegistrarServes, RegistrarExits, DriverStarts, clusterVars
    <3>3. ASSUME NEW d \in Drivers, NEW s \in Slots,
                 GetInfo(d, s) \/ NodeGetInfo(d, s) \/ EnsureGetsNode(d, s) \/ EnsureGetsCSINode(d, s)
          PROVE  csiNode' = csiNode
      BY <3>3, Zenon DEF GetInfo, NodeGetInfo, EnsureGetsNode, EnsureGetsCSINode, clusterVars
    <3>4. ASSUME NEW d \in Drivers, NEW s \in Slots,
                 EnsurePatches(d, s) \/ Tell(d, s) \/ TimesOut(d, s) \/ EnsureFails(d, s)
          PROVE  csiNode' = csiNode
      BY <3>4, Zenon DEF EnsurePatches, Tell, TimesOut, EnsureFails, clusterVars
    <3>5. ASSUME NEW d \in Drivers, NEW s \in Slots, HandleSocket(d, s) PROVE Kept
      BY <2>1, <2>2, <3>3, <3>4, <3>5, Zenon DEF HandleSocket
    <3> QED BY <2>1, <2>4, <3>1, <3>2, <3>4, <3>5, Zenon DEF Next
  <2>5. QED
    BY <1>1, <2>3, <2>4, Zenon
<1>2. QED
  BY <1>1, PluginsTypeOK, PluginsInvariant, PTL DEF Spec, DriversKept

=============================================================================
