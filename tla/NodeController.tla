--------------------------- MODULE NodeController ---------------------------
(***************************************************************************)
(* One pawn's node object and lease: PawnNode (node/pawnnode.go) builds the*)
(* node's status and answers pings, nodePingController publishes the last  *)
(* ping's result, NodeController (node/node.go) registers the node and     *)
(* patches its status, leaseController renews the lease, and the control   *)
(* socket's Drain and Stop shut the pawn down (internal/control/server.go).*)
(*                                                                         *)
(* A node's status is the partial function from the items it reports to    *)
(* their values; other agents add an item of their own.  Time is left out: *)
(* a timer may fire whenever its loop waits for it.  perigeos sets no ping *)
(* timeout and PawnNode.Ping does not block, so no two checks share a ping.*)
(***************************************************************************)
EXTENDS Naturals, Sequences, FiniteSets, Functions

CONSTANTS Pods,         \* pods with a claim, which may run on the pawn
          MaxNodes,     \* node objects of the name, one after the other
          MaxEvents,    \* changes of pods, host or cluster and failed calls, together
          MaxRetries    \* maxUpdateRetries

ASSUME NodeControllerAssumption ==
    /\ IsFiniteSet(Pods) /\ {MaxNodes, MaxEvents} \subseteq Nat
    /\ MaxRetries \in Nat \ {0}

VARIABLES
    pods, usage, shutting,        \* PawnNode: pods, host readings, shuttingDown
    notifier, chan,               \* NotifyNodeStatus' goroutine and chStatusUpdate
    check, result,                \* the ping under way, the monitor variable
    ctrl, provider, server,       \* Run, providerNode's status, serverNode's UID
    lease, latest,                \* leaseController's sync; latestLease's version
    api, nodes, leaseObj,         \* the API server's node and lease
    cancelled, changes, faults

pawnVars  == <<pods, usage, shutting>>
pingVars  == <<check, result>>
ctrlVars  == <<ctrl, provider, server>>
leaseVars == <<lease, latest>>
apiVars   == <<api, nodes, leaseObj>>
envVars   == <<cancelled, changes, faults>>
vars == <<pawnVars, notifier, chan, pingVars, ctrlVars, leaseVars, apiVars, envVars>>

Items  == {"Ready", "Pressure", "InUse", "Foreign"}
Values == {"True", "False", "Unknown"}
Status == UNION {[D -> Values] : D \in SUBSET Items}

\* The API server's node: what it reports and the items last applied by us.
NoNode   == [uid |-> 0, status |-> <<>>, applied |-> {}]
NoLease  == [owner |-> 0, rv |-> 0, fresh |-> FALSE]
NodeObj  == [uid : 0 .. MaxNodes, status : Status \cup {<<>>}, applied : SUBSET Items]
LeaseObj == [owner : 0 .. MaxNodes, rv : 0 .. 2, fresh : BOOLEAN]

Change == ~cancelled /\ changes + faults < MaxEvents /\ changes' = changes + 1
Fault  == changes + faults < MaxEvents /\ faults' = faults + 1

(******************************** PawnNode *********************************)

\* getMemoryPressureCondition, getDiskPressureCondition, getPIDPressureCondition:
\* a reading against its threshold.
Pressure == CASE usage = "low" -> "False" [] usage = "high" -> "True"
              [] usage = "unreadable" -> "Unknown"

\* BuildNode with nodeConditions and collectVolumeStatus; without volumes in use
\* the node's JSON has no such field.
BuildNode(ready) ==
    [i \in {"Ready", "Pressure"} \cup (IF pods = {} THEN {} ELSE {"InUse"}) |->
        CASE i = "Ready" -> ready [] i = "Pressure" -> Pressure [] i = "InUse" -> "True"]

PodsChange ==
    /\ Change /\ \E p \in Pods : pods' = IF p \in pods THEN pods \ {p} ELSE pods \cup {p}
    /\ UNCHANGED <<usage, shutting, notifier, chan, pingVars, ctrlVars, leaseVars,
                   apiVars, cancelled, faults>>

UsageChanges ==
    /\ Change /\ usage' \in {"low", "high", "unreadable"} \ {usage}
    /\ UNCHANGED <<pods, shutting, notifier, chan, pingVars, ctrlVars, leaseVars,
                   apiVars, cancelled, faults>>

\* buildDrain; buildStop goes on to delete the pods.
Drain ==
    /\ ~shutting /\ ~cancelled /\ shutting' = TRUE
    /\ UNCHANGED <<pods, usage, notifier, chan, pingVars, ctrlVars, leaseVars, apiVars, envVars>>

(***************************** NotifyNodeStatus ****************************)

NotifyVars == <<pawnVars, pingVars, ctrlVars, leaseVars, apiVars, envVars>>

\* The callback blocks while chStatusUpdate is full: what it holds then is the
\* channel's second element.
Sends(node) == Len(chan) < 2 /\ chan' = Append(chan, node)

\* At the start, and on every tick.
NotifierTicks ==
    /\ notifier \in {"start", "idle"}
    /\ Sends(BuildNode("True"))
    /\ notifier' = "idle"
    /\ UNCHANGED NotifyVars

NotifierShutsDown ==
    /\ notifier = "idle" /\ shutting
    /\ Sends(BuildNode("False"))
    /\ notifier' = "done"
    /\ UNCHANGED NotifyVars

NotifierStops ==
    /\ notifier = "idle" /\ Len(chan) < 2 /\ cancelled
    /\ notifier' = "done"
    /\ UNCHANGED <<chan, NotifyVars>>

Notifier == NotifierTicks \/ NotifierShutsDown \/ NotifierStops

(*************************** nodePingController ****************************)

PingFrame == <<pawnVars, notifier, chan, ctrlVars, leaseVars, apiVars, envVars>>

\* checkFunc: PawnNode.Ping reads shuttingDown.
CheckPings ==
    /\ check = "idle" /\ ~cancelled
    /\ check' = IF shutting THEN "err" ELSE "ok"
    /\ UNCHANGED <<result, PingFrame>>

\* Cancellation and the ping's result may both be ready.
CheckSets ==
    /\ check \in {"ok", "err"}
    /\ result' \in {check} \cup (IF cancelled THEN {"err"} ELSE {})
    /\ check' = "idle"
    /\ UNCHANGED PingFrame

CheckStops ==
    /\ check = "idle" /\ cancelled /\ check' = "done"
    /\ UNCHANGED <<result, PingFrame>>

Pinging == CheckPings \/ CheckSets \/ CheckStops

(***************************** NodeController ******************************)

CtrlFrame == <<pawnVars, notifier, pingVars>>

\* Mutant of Patch: against the server's items, not the ones last applied.
PatchAll(new, got) ==
    [drop |-> DOMAIN got.status \ DOMAIN new,
     set  |-> Restrict(new, {i \in DOMAIN new : i \notin DOMAIN got.status \/ got.status[i] # new[i]})]

\* Mutant of Patch: nothing is dropped.
PatchLatest(new, got) ==
    [drop |-> {}, set |-> new]

\* prepareThreewayPatchBytesForNodeStatus: items we applied once and no longer
\* report are dropped, the ones that differ from the server's are set.
Patch(new, got) ==
    [drop |-> got.applied \ DOMAIN new,
     set  |-> Restrict(new, {i \in DOMAIN new : i \notin DOMAIN got.status \/ got.status[i] # new[i]})]

\* The API server merges a patch into the node it has then.
Merge(patch, new) ==
    [api EXCEPT !.applied = DOMAIN new,
                !.status = [i \in (DOMAIN @ \ patch.drop) \cup DOMAIN patch.set |->
                               IF i \in DOMAIN patch.set THEN patch.set[i] ELSE @[i]]]

At(pc) == ctrl' = [ctrl EXCEPT !.pc = pc, !.got = NoNode]

\* An error ends Run in ensureNode, and the iteration in controlLoop.
UpdateFails == At(IF ctrl.first THEN "done" ELSE "loop")

Registered(uid) ==
    /\ server' = uid
    /\ ctrl' = [pc |-> "loop", first |-> FALSE, got |-> NoNode]
    /\ lease' = IF ctrl.first THEN [lease EXCEPT !.pc = "idle"] ELSE lease

\* updateStatus waits for a first ping result and needs a good one.
StatusChecked ==
    /\ ctrl.pc = "status"
    /\ \/ cancelled /\ UpdateFails
       \/ result = "err" /\ UpdateFails
       \/ result = "ok" /\ At("get")
    /\ UNCHANGED <<provider, server, chan, leaseVars, apiVars, envVars, CtrlFrame>>

\* The handler perigeos installs gives NotFound back: only ensureNode creates.
StatusGets ==
    /\ ctrl.pc = "get"
    /\ IF cancelled THEN UpdateFails
       ELSE IF api = NoNode THEN At(IF ctrl.first THEN "create" ELSE "loop")
       ELSE ctrl' = [ctrl EXCEPT !.pc = "patch", !.got = api]
    /\ UNCHANGED <<provider, server, chan, leaseVars, apiVars, envVars, CtrlFrame>>

StatusPatches ==
    /\ ctrl.pc = "patch" /\ ~cancelled
    /\ IF api = NoNode
       THEN At(IF ctrl.first THEN "create" ELSE "loop") /\ UNCHANGED <<api, server, lease>>
       ELSE api' = Merge(Patch(provider, ctrl.got), provider) /\ Registered(api.uid)
    /\ UNCHANGED <<provider, chan, latest, nodes, leaseObj, envVars, CtrlFrame>>

\* RetryOnConflict gets the node again; other errors are returned, also when the
\* API server took the patch.
StatusFails ==
    /\ \/ ctrl.pc \in {"get", "patch"} /\ Fault /\ UpdateFails /\ UNCHANGED api
       \/ ctrl.pc = "patch" /\ Fault /\ At("get") /\ UNCHANGED api
       \/ /\ ctrl.pc = "patch" /\ api # NoNode /\ Fault /\ UpdateFails
          /\ api' = Merge(Patch(provider, ctrl.got), provider)
       \/ ctrl.pc = "patch" /\ cancelled /\ UpdateFails /\ UNCHANGED <<api, faults>>
    /\ UNCHANGED <<provider, server, chan, leaseVars, nodes, leaseObj, cancelled, changes,
                   CtrlFrame>>

\* ensureNode's Create sends the node NewNodeController was given.
NodeCreates ==
    /\ ctrl.pc = "create"
    /\ IF cancelled \/ api # NoNode
       THEN UpdateFails /\ UNCHANGED <<api, nodes, server, lease>>
       ELSE /\ nodes' = nodes + 1
            /\ api' = [uid |-> nodes + 1, status |-> provider, applied |-> {}]
            /\ Registered(nodes + 1)
    /\ UNCHANGED <<provider, chan, latest, leaseObj, envVars, CtrlFrame>>

NodeCreateFails ==
    /\ ctrl.pc = "create" /\ Fault /\ UpdateFails
    /\ UNCHANGED <<provider, server, chan, leaseVars, apiVars, cancelled, changes, CtrlFrame>>

\* controlLoop's select: a status from the provider, the timer, cancellation.
LoopTakes ==
    /\ ctrl.pc = "loop" /\ chan # <<>>
    /\ provider' = Head(chan) /\ chan' = Tail(chan)
    /\ At("status")
    /\ UNCHANGED <<server, leaseVars, apiVars, envVars, CtrlFrame>>

LoopTicks ==
    /\ ctrl.pc = "loop" /\ At("status")
    /\ UNCHANGED <<provider, server, chan, leaseVars, apiVars, envVars, CtrlFrame>>

LoopStops ==
    /\ ctrl.pc = "loop" /\ cancelled /\ At("stopping")
    /\ UNCHANGED <<provider, server, chan, leaseVars, apiVars, envVars, CtrlFrame>>

\* group.Wait, then chDone.
RunReturns ==
    /\ ctrl.pc = "stopping" /\ check = "done" /\ lease.pc = "done" /\ At("done")
    /\ UNCHANGED <<provider, server, chan, leaseVars, apiVars, envVars, CtrlFrame>>

Controlling == \/ StatusChecked \/ StatusGets \/ StatusPatches \/ StatusFails
               \/ NodeCreates \/ NodeCreateFails
               \/ LoopTakes \/ LoopTicks \/ LoopStops \/ RunReturns

(***************************** leaseController *****************************)

LeaseFrame == <<pawnVars, notifier, chan, pingVars, ctrlVars, api, nodes, cancelled, changes>>
NoSync == [pc |-> "idle", uid |-> 0, base |-> 0, tries |-> 0, renewing |-> FALSE]

\* The lease that newLease makes of base: an owner once set stays.
Renewed == [leaseObj EXCEPT !.rv = 3 - @, !.fresh = TRUE]
NewLease == [owner |-> lease.uid, rv |-> 1, fresh |-> TRUE]

\* retryUpdateLease gives up: sync falls back to backoffEnsureLease once.
Retry(l) == IF l.tries > 1 THEN [l EXCEPT !.tries = @ - 1]
            ELSE IF l.renewing THEN [NoSync EXCEPT !.pc = "get", !.uid = l.uid] ELSE NoSync

Starts == lease' = IF latest = 0 THEN [NoSync EXCEPT !.pc = "get", !.uid = server]
                   ELSE [pc |-> "update", uid |-> server, base |-> latest,
                         tries |-> MaxRetries, renewing |-> TRUE]

\* Mutant of LeaseSyncs: the ping's result is not looked at.
LeaseSyncsBlindly ==
    /\ lease.pc = "idle" /\ ~cancelled
    /\ Starts
    /\ UNCHANGED <<latest, leaseObj, faults, LeaseFrame>>

\* sync reads the ping's result, the server's node and latestLease.
LeaseSyncs ==
    /\ lease.pc = "idle" /\ ~cancelled /\ result = "ok"
    /\ Starts
    /\ UNCHANGED <<latest, leaseObj, faults, LeaseFrame>>

\* Mutant of LeaseUpdates: after a conflict the same lease is sent again.
LeaseUpdatesNoFetch ==
    /\ lease.pc = "update" /\ ~cancelled
    /\ IF leaseObj # NoLease /\ leaseObj.rv = lease.base
       THEN leaseObj' = Renewed /\ latest' = leaseObj'.rv /\ lease' = NoSync
       ELSE lease' = NoSync /\ UNCHANGED <<leaseObj, latest>>
    /\ UNCHANGED <<faults, LeaseFrame>>

\* A conflict makes it fetch the lease, NotFound try again.
LeaseUpdates ==
    /\ lease.pc = "update" /\ ~cancelled
    /\ IF leaseObj # NoLease /\ leaseObj.rv = lease.base
       THEN leaseObj' = Renewed /\ latest' = leaseObj'.rv /\ lease' = NoSync
       ELSE /\ lease' = IF leaseObj = NoLease THEN Retry(lease)
                        ELSE [lease EXCEPT !.pc = "get"]
            /\ UNCHANGED <<leaseObj, latest>>
    /\ UNCHANGED <<faults, LeaseFrame>>

\* Fetched or created, inside retryUpdateLease (tries > 0) or by sync itself.
Ensured(l, created) ==
    /\ latest' = IF lease.tries > 0 THEN latest ELSE l.rv
    /\ lease' = IF lease.tries > 0 THEN Retry([lease EXCEPT !.pc = "update", !.base = l.rv])
                ELSE IF created THEN NoSync
                ELSE [lease EXCEPT !.pc = "update", !.base = l.rv, !.tries = MaxRetries]

LeaseGets ==
    /\ lease.pc = "get" /\ ~cancelled
    /\ IF leaseObj # NoLease THEN Ensured(leaseObj, FALSE)
       ELSE lease' = [lease EXCEPT !.pc = "create"] /\ UNCHANGED latest
    /\ UNCHANGED <<leaseObj, faults, LeaseFrame>>

LeaseCreates ==
    /\ lease.pc = "create" /\ ~cancelled
    /\ leaseObj' = NewLease
    /\ Ensured(NewLease, TRUE)
    /\ UNCHANGED <<faults, LeaseFrame>>

\* backoffEnsureLease starts over; a call that failed may have been taken.
LeaseFails ==
    /\ Fault
    /\ \/ /\ lease.pc \in {"get", "create"} /\ lease' = [lease EXCEPT !.pc = "get"]
          /\ leaseObj' \in {leaseObj} \cup (IF lease.pc = "get" THEN {} ELSE {NewLease})
       \/ /\ lease.pc = "update" /\ lease' = Retry(lease)
          /\ leaseObj' \in {leaseObj} \cup (IF leaseObj.rv = lease.base THEN {Renewed} ELSE {})
    /\ UNCHANGED <<latest, LeaseFrame>>

\* Mutant of LeaseCancelled: the backoff does not look at the context.
LeaseCancelledUpdate ==
    /\ cancelled
    /\ \/ lease.pc = "update" /\ lease' = NoSync
       \/ lease.pc = "idle" /\ lease' = [NoSync EXCEPT !.pc = "done"]
    /\ UNCHANGED <<latest, leaseObj, faults, LeaseFrame>>

\* With the context cancelled every call fails, and so does the backoff.
LeaseCancelled ==
    /\ cancelled
    /\ \/ /\ lease.pc \in {"update", "get", "create"} /\ lease' = NoSync
          /\ latest' = IF lease.tries > 0 /\ ~lease.renewing THEN latest ELSE 0
       \/ lease.pc = "idle" /\ lease' = [NoSync EXCEPT !.pc = "done"] /\ UNCHANGED latest
    /\ UNCHANGED <<leaseObj, faults, LeaseFrame>>

Leasing == LeaseSyncs \/ LeaseUpdates \/ LeaseGets \/ LeaseCreates \/ LeaseFails
           \/ LeaseCancelled

(************************ The cluster and the daemon ***********************)

ClusterFrame == <<pawnVars, notifier, chan, pingVars, ctrlVars, leaseVars, cancelled, faults>>

\* Another agent's condition on our node, or its removal.
ForeignItem ==
    /\ api # NoNode /\ Change
    /\ LET D == IF "Foreign" \in DOMAIN api.status THEN DOMAIN api.status \ {"Foreign"}
                ELSE DOMAIN api.status \cup {"Foreign"}
       IN api' = [api EXCEPT !.status = [i \in D |-> IF i = "Foreign" THEN "True" ELSE @[i]]]
    /\ UNCHANGED <<nodes, leaseObj, ClusterFrame>>

NodeDeleted ==
    /\ api # NoNode /\ nodes < MaxNodes /\ Change
    /\ api' = NoNode
    /\ UNCHANGED <<nodes, leaseObj, ClusterFrame>>

NodeRecreated ==
    /\ api = NoNode /\ nodes \in 1 .. MaxNodes - 1 /\ ~cancelled
    /\ nodes' = nodes + 1 /\ api' = [NoNode EXCEPT !.uid = nodes + 1]
    /\ UNCHANGED <<leaseObj, changes, ClusterFrame>>

\* The garbage collector follows the owner's UID.
LeaseCollected ==
    /\ leaseObj # NoLease /\ leaseObj.owner # api.uid /\ ~cancelled
    /\ leaseObj' = NoLease
    /\ UNCHANGED <<api, nodes, changes, ClusterFrame>>

\* Nobody renewed it for a while.
LeaseAges ==
    /\ leaseObj.fresh /\ ~cancelled /\ leaseObj' = [leaseObj EXCEPT !.fresh = FALSE]
    /\ UNCHANGED <<api, nodes, changes, ClusterFrame>>

Cancel ==
    /\ ~cancelled /\ cancelled' = TRUE
    /\ UNCHANGED <<pawnVars, notifier, chan, pingVars, ctrlVars, leaseVars, apiVars, changes,
                   faults>>

\* A first start, or one that finds the node and the lease of an earlier run.
Init ==
    /\ pods = {} /\ usage = "low" /\ shutting = FALSE
    /\ notifier = "start" /\ chan = <<>>
    /\ check = "idle" /\ result = "unset"
    /\ ctrl = [pc |-> "status", first |-> TRUE, got |-> NoNode]
    /\ provider = BuildNode("True")
    /\ lease = [NoSync EXCEPT !.pc = "off"] /\ latest = 0
    /\ \/ nodes = 0 /\ api = NoNode /\ leaseObj = NoLease
       \/ /\ nodes = 1
          /\ LET D == {"Ready", "Pressure", "InUse"}
             IN api = [uid |-> 1, status |-> [i \in D |-> "True"], applied |-> D]
          /\ leaseObj = [owner |-> 1, rv |-> 1, fresh |-> FALSE]
    /\ server = 0
    /\ cancelled = FALSE /\ changes = 0 /\ faults = 0

Next == \/ PodsChange \/ UsageChanges \/ Drain
        \/ Notifier \/ Pinging \/ Controlling \/ Leasing
        \/ ForeignItem \/ NodeDeleted \/ NodeRecreated \/ LeaseCollected \/ LeaseAges
        \/ Cancel

Spec == Init /\ [][Next]_vars

\* Goroutines run on, and a select does not pass over a ready case for ever.
FairSpec ==
    /\ Spec /\ WF_vars(Notifier) /\ WF_vars(Pinging) /\ WF_vars(Controlling)
    /\ WF_vars(Leasing) /\ WF_vars(LeaseCollected)
    /\ SF_vars(NotifierShutsDown) /\ SF_vars(LoopTakes) /\ SF_vars(LoopStops)

(******************************* Properties ********************************)

\* The types of the goroutines' state and of the API server's objects.
TypeOK ==
    /\ pods \subseteq Pods /\ usage \in {"low", "high", "unreadable"} /\ shutting \in BOOLEAN
    /\ notifier \in {"start", "idle", "done"}
    /\ chan \in Seq(Status) /\ Len(chan) <= 2
    /\ check \in {"idle", "ok", "err", "done"}
    /\ result \in {"unset", "ok", "err"}
    /\ ctrl \in [pc : {"status", "get", "patch", "create", "loop", "stopping", "done"},
                 first : BOOLEAN, got : NodeObj]
    /\ provider \in Status /\ server \in 0 .. MaxNodes
    /\ lease \in [pc : {"off", "idle", "update", "get", "create", "done"}, uid : 0 .. MaxNodes,
                  base : 0 .. 2, tries : 0 .. MaxRetries, renewing : BOOLEAN]
    /\ latest \in 0 .. 2 /\ api \in NodeObj /\ nodes \in 0 .. MaxNodes
    /\ leaseObj \in LeaseObj /\ cancelled \in BOOLEAN
    /\ changes + faults \in 0 .. MaxEvents

\* What "Node condition C from ExternalUpdater" is about: a status update never
\* drops an item another agent put on the node.
ForeignItemsKept ==
    [][("Foreign" \in DOMAIN api.status /\ api'.uid = api.uid
        /\ "Foreign" \notin DOMAIN api'.status) => changes' # changes]_vars

\* Run has returned, is about to, or there is no node to report on.
Idle == cancelled \/ ctrl.pc = "done" \/ api = NoNode

\* The node's items in the API server are in the end those the pawn reports:
\* failed, repeated or overtaken patches, foreign changes and a node recreated
\* by others are made good.
StatusConverges ==
    <>[](Idle \/ shutting
         \/ /\ DOMAIN api.status \ {"Foreign"} = DOMAIN BuildNode("True")
            /\ \A i \in DOMAIN BuildNode("True") : api.status[i] = BuildNode("True")[i])

\* A healthy pawn renews its lease again and again, and owns it: a lease
\* collected with an earlier node object is created anew for the current one.
LeaseHeld == []<>(Idle \/ shutting \/ (leaseObj.fresh /\ leaseObj.owner = api.uid))

\* "Ping will return an error, causing VK to stop renewing the lease": after a
\* drain every renewal comes to an end.
DrainEndsLease == <>[](shutting => lease.pc \in {"off", "idle", "done"})

\* Run returns after cancellation, whatever its goroutines were waiting for.
RunStops == <>[](cancelled => ctrl.pc = "done")

=============================================================================
