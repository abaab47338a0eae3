------------------------------- MODULE Plugins -------------------------------
(***************************************************************************)
(* The PluginWatcher (internal/plugin): CSI drivers announce themselves by *)
(* a socket in the plugin registry.  Every socket that the scan at start,  *)
(* or fsnotify afterwards, shows is handled by a goroutine of its own: it  *)
(* asks the registrar and the driver who they are, enters the driver in    *)
(* the pawn's CSINode and in an annotation of its Node by reading and      *)
(* writing back, and tells the registrar.                                  *)
(*                                                                         *)
(* One pawn: handleSocket does the same for each of them in turn.          *)
(***************************************************************************)
EXTENDS Naturals, FiniteSets

CONSTANTS Drivers,
          Slots,      \* bound: the goroutines at work on one socket at a time
          MaxEvents   \* bound: failed calls, timeouts, registrars and processes that die

ASSUME PluginsAssumption == Slots \subseteq Nat /\ Slots # {} /\ MaxEvents \in Nat

VARIABLES
  socket,    \* the registrar's socket: "none", "file" (nothing is bound to it yet), "serving"
  up,        \* the drivers whose CSI socket is answered
  nodeID,    \* what a driver answers to NodeGetInfo
  told,      \* the drivers whose registrar was told that it is registered
  boot,      \* PluginWatcher.Run: "start", "scanned", "watching"
  created,   \* fsnotify events not yet received
  task,      \* handleSocketWithRetry: goroutines per driver
  csiNode,   \* the CSINode object: its version (0: there is none) and the node id of each driver
  annotation, \* the node ids in the annotation of the Node object
  events,
  missed,    \* history: the drivers whose socket appeared after the scan and before the watch
  abandoned  \* history: the drivers a goroutine gave up on

clusterVars == <<csiNode, annotation>>
hostVars == <<socket, up, nodeID, told>>
vars == <<hostVars, boot, created, task, clusterVars, events, missed, abandoned>>

NoIDs == [d \in Drivers |-> 0]
NoTask == [pc |-> "none", id |-> 0, notes |-> NoIDs, node |-> [rv |-> 0, ids |-> NoIDs]]

Event == events < MaxEvents /\ events' = events + 1

-----------------------------------------------------------------------------
(***************************************************************************)
(* The registrar and the driver of d.                                      *)
(***************************************************************************)
RegistrarStarts(d) ==
  /\ socket[d] = "none"
  /\ socket' = [socket EXCEPT ![d] = "file"]
  /\ created' = IF boot = "watching" THEN created \cup {d} ELSE created
  /\ missed' = IF boot = "scanned" THEN missed \cup {d} ELSE missed
  /\ UNCHANGED <<up, nodeID, told, boot, task, clusterVars, events, abandoned>>

\* The inode is there before the server is bound to it
RegistrarServes(d) ==
  /\ socket[d] = "file"
  /\ socket' = [socket EXCEPT ![d] = "serving"]
  /\ UNCHANGED <<up, nodeID, told, boot, created, task, clusterVars, events, missed, abandoned>>

\* The pod of the driver dies, or its registrar waits no longer; the driver may come back with
\* another node id
RegistrarExits(d) ==
  /\ socket[d] # "none" /\ Event
  /\ socket' = [socket EXCEPT ![d] = "none"]
  /\ up' = up \ {d} /\ told' = told \ {d}
  /\ nodeID' \in {nodeID, [nodeID EXCEPT ![d] = 3 - @]}
  /\ missed' = missed \ {d} /\ abandoned' = abandoned \ {d}
  /\ UNCHANGED <<boot, created, task, clusterVars>>

DriverStarts(d) ==
  /\ d \notin up
  /\ up' = up \cup {d}
  /\ UNCHANGED <<socket, nodeID, told, boot, created, task, clusterVars, events, missed, abandoned>>

-----------------------------------------------------------------------------
(***************************************************************************)
(* Run.                                                                    *)
(***************************************************************************)
Free(d) == {s \in Slots : task[d][s].pc = "none"}
Spawn(ds) ==
  task' = [d \in Drivers |->
             IF d \in ds THEN [task[d] EXCEPT ![CHOOSE s \in Free(d) : TRUE] = [NoTask EXCEPT !.pc = "info"]]
             ELSE task[d]]

Scan ==
  /\ boot = "start" /\ boot' = "scanned"
  /\ Spawn({d \in Drivers : socket[d] # "none"})
  /\ UNCHANGED <<hostVars, created, clusterVars, events, missed, abandoned>>

Watch ==
  /\ boot = "scanned" /\ boot' = "watching"
  /\ UNCHANGED <<hostVars, created, task, clusterVars, events, missed, abandoned>>

Receive(d) ==
  /\ d \in created /\ Free(d) # {}
  /\ created' = created \ {d}
  /\ Spawn({d})
  /\ UNCHANGED <<hostVars, boot, clusterVars, events, missed, abandoned>>

\* The process dies and is started again
Restart ==
  /\ boot # "start" /\ Event
  /\ boot' = "start" /\ created' = {}
  /\ task' = [d \in Drivers |-> [s \in Slots |-> NoTask]]
  /\ missed' = {} /\ abandoned' = {}
  /\ UNCHANGED <<hostVars, clusterVars>>

-----------------------------------------------------------------------------
(***************************************************************************)
(* handleSocketWithRetry and handleSocket, of the goroutine in slot s.     *)
(***************************************************************************)
At(d, s, pc) == task[d][s].pc = pc
Goes(d, s, pc) == task' = [task EXCEPT ![d][s].pc = pc]
Ends(d, s) == task' = [task EXCEPT ![d][s] = NoTask]
TaskFrame == UNCHANGED <<hostVars, boot, created, missed>>

\* The registrar is asked until it answers
GetInfo(d, s) ==
  /\ At(d, s, "info") /\ socket[d] = "serving"
  /\ Goes(d, s, "endpoint")
  /\ TaskFrame /\ UNCHANGED <<clusterVars, events, abandoned>>

\* 30 seconds are over
TimesOut(d, s) ==
  /\ At(d, s, "info") /\ Event
  /\ Ends(d, s)
  /\ abandoned' = abandoned \cup {d}
  /\ TaskFrame /\ UNCHANGED clusterVars

\* resolveCSIEndpoint: the socket of the driver, wherever it is visible on the host
Resolves(d) == d \in up

\* An error begins the attempt again
NodeGetInfo(d, s) ==
  /\ At(d, s, "endpoint")
  /\ \/ /\ Resolves(d)
        /\ task' = [task EXCEPT ![d][s] = [@ EXCEPT !.pc = "node", !.id = nodeID[d]]]
        /\ UNCHANGED events
     \/ Goes(d, s, "info") /\ (IF Resolves(d) THEN Event ELSE UNCHANGED events)
  /\ TaskFrame /\ UNCHANGED <<clusterVars, abandoned>>

\* ensureCSINode reads the Node and then the CSINode.  Its errors are logged, and the registrar is
\* told all the same.
EnsureFails(d, s) ==
  /\ task[d][s].pc \in {"node", "read", "write", "patch"} /\ Event
  /\ Goes(d, s, "tell")
  /\ TaskFrame /\ UNCHANGED <<clusterVars, abandoned>>

EnsureGetsNode(d, s) ==
  /\ At(d, s, "node")
  /\ task' = [task EXCEPT ![d][s] = [@ EXCEPT !.pc = "read", !.notes = annotation]]
  /\ TaskFrame /\ UNCHANGED <<clusterVars, events, abandoned>>

EnsureGetsCSINode(d, s) ==
  /\ At(d, s, "read")
  /\ task' = [task EXCEPT ![d][s] = [@ EXCEPT !.pc = "write", !.node = csiNode]]
  /\ TaskFrame /\ UNCHANGED <<clusterVars, events, abandoned>>

\* Mutant: the object is written back whatever its version
EnsureForces(d, s) ==
  LET t == task[d][s]
  IN  /\ At(d, s, "write")
      /\ csiNode' = [rv |-> csiNode.rv + 1, ids |-> [t.node.ids EXCEPT ![d] = t.id]]
      /\ Goes(d, s, "patch")
      /\ TaskFrame /\ UNCHANGED <<annotation, events, abandoned>>

\* Mutant: the annotation is written although the CSINode was not
EnsurePatchesAnyway(d, s) ==
  LET t == task[d][s]
  IN  /\ At(d, s, "write") /\ Goes(d, s, "patch")
      /\ IF t.node.ids[d] # t.id /\ csiNode.rv = t.node.rv
         THEN csiNode' = [rv |-> csiNode.rv + 1, ids |-> [t.node.ids EXCEPT ![d] = t.id]]
         ELSE UNCHANGED csiNode
      /\ TaskFrame /\ UNCHANGED <<annotation, events, abandoned>>

\* Create, or Update of an object that lacks the driver or has another id for it.  The API server
\* refuses the first when the object exists and the second when it was written since it was read.
EnsureWrites(d, s) ==
  LET t == task[d][s]
  IN  /\ At(d, s, "write")
      /\ IF t.node.ids[d] = t.id THEN UNCHANGED csiNode /\ Goes(d, s, "patch")
         ELSE IF csiNode.rv = t.node.rv
         THEN /\ csiNode' = [rv |-> csiNode.rv + 1, ids |-> [t.node.ids EXCEPT ![d] = t.id]]
              /\ Goes(d, s, "patch")
         ELSE UNCHANGED csiNode /\ Goes(d, s, "tell")
      /\ TaskFrame /\ UNCHANGED <<annotation, events, abandoned>>

\* The patch replaces the annotation by the one that was read, with this driver's id
EnsurePatches(d, s) ==
  /\ At(d, s, "patch")
  /\ annotation' = [task[d][s].notes EXCEPT ![d] = task[d][s].id]
  /\ Goes(d, s, "tell")
  /\ TaskFrame /\ UNCHANGED <<csiNode, events, abandoned>>

\* Mutant: a failed ensureCSINode is returned
TellSuccess(d, s) ==
  /\ At(d, s, "tell")
  /\ told' = IF socket[d] = "serving" /\ csiNode.ids[d] = task[d][s].id THEN told \cup {d} ELSE told
  /\ Ends(d, s)
  /\ UNCHANGED <<socket, up, nodeID, boot, created, missed, clusterVars, events, abandoned>>

\* NotifyRegistrationStatus, of the registrar that serves the socket by then; its failure is logged
Tell(d, s) ==
  /\ At(d, s, "tell")
  /\ \/ socket[d] = "serving" /\ told' = told \cup {d} /\ UNCHANGED <<events, abandoned>>
     \/ /\ abandoned' = abandoned \cup {d} /\ UNCHANGED told
        /\ IF socket[d] = "serving" THEN Event ELSE UNCHANGED events
  /\ Ends(d, s)
  /\ UNCHANGED <<socket, up, nodeID, boot, created, missed, clusterVars>>

-----------------------------------------------------------------------------
Init ==
  /\ socket = [d \in Drivers |-> "none"] /\ up = {} /\ told = {}
  /\ nodeID = [d \in Drivers |-> 1]
  /\ boot = "start" /\ created = {}
  /\ task = [d \in Drivers |-> [s \in Slots |-> NoTask]]
  /\ csiNode = [rv |-> 0, ids |-> NoIDs] /\ annotation = NoIDs
  /\ events = 0 /\ missed = {} /\ abandoned = {}

HandleSocket(d, s) ==
  \/ GetInfo(d, s) \/ NodeGetInfo(d, s) \/ EnsureGetsNode(d, s) \/ EnsureGetsCSINode(d, s)
  \/ EnsureWrites(d, s) \/ EnsurePatches(d, s) \/ Tell(d, s)

Run == Scan \/ Watch \/ \E d \in Drivers : Receive(d)

Next ==
  \/ Run \/ Restart
  \/ \E d \in Drivers :
       \/ RegistrarStarts(d) \/ RegistrarServes(d) \/ RegistrarExits(d) \/ DriverStarts(d)
       \/ \E s \in Slots : HandleSocket(d, s) \/ TimesOut(d, s) \/ EnsureFails(d, s)

Spec == Init /\ [][Next]_vars

\* The goroutines run and their calls end
FairSpec ==
  /\ Spec
  /\ WF_vars(Run)
  /\ \A d \in Drivers, s \in Slots : WF_vars(HandleSocket(d, s))

-----------------------------------------------------------------------------
IDs == [Drivers -> 0..2]
CSINode == [rv : Nat, ids : IDs]
Task == [pc : {"none", "info", "endpoint", "node", "read", "write", "patch", "tell"},
         id : 0..2, notes : IDs, node : CSINode]

\* The types of the watcher's state and of the objects it writes; a driver answers with a node id.
TypeOK ==
  /\ socket \in [Drivers -> {"none", "file", "serving"}] /\ boot \in {"start", "scanned", "watching"}
  /\ up \subseteq Drivers /\ told \subseteq Drivers /\ created \subseteq Drivers
  /\ missed \subseteq Drivers /\ abandoned \subseteq Drivers
  /\ nodeID \in [Drivers -> 1..2] /\ task \in [Drivers -> [Slots -> Task]]
  /\ csiNode \in CSINode /\ annotation \in IDs /\ events \in 0..MaxEvents

\* However the goroutines of several drivers interleave their reads and writes of the CSINode in
\* ensureCSINode, none removes the entry of another driver.
DriversKept == [][\A d \in Drivers : csiNode.ids[d] # 0 => csiNode'.ids[d] # 0]_vars

\* A driver that the Node's annotation names is in the CSINode: ensureCSINode writes the one before
\* the other, and a goroutine that writes an old annotation back brings in no more than it read.
AnnotationBacked == \A d \in Drivers : annotation[d] # 0 => csiNode.ids[d] # 0

\* "Without this call the registrar blocks, then times out and exits": a registrar that serves its
\* socket next to its driver is told in the end, whatever became of the CSINode, unless the socket
\* appeared between scan and watch, the 30 seconds ran out, or the call itself failed.
RegistrarsTold ==
  \A d \in Drivers :
    <>[](socket[d] = "serving" /\ d \in up /\ d \notin missed \cup abandoned => d \in told)

=============================================================================
