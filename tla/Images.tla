------------------------------- MODULE Images -------------------------------
(***************************************************************************)
(* The image manager of several hosts (internal/image): one image whose    *)
(* tag moves in the registry, pulled by pods of each host.  A pull decides *)
(* from the persisted layer list and index digest whether the registry has *)
(* to be asked, resolves the manifest once per host however many pods ask  *)
(* (imageSF), and has every layer extracted once (layerSF) from its blob   *)
(* file, from a peer that has it or is fetching it, or from the registry.  *)
(* A host's process may die at any step; files stay, memory does not.      *)
(*                                                                         *)
(* A version of the image stands for its index digest, its manifest and    *)
(* its layer list; LayersOf gives the layers.  The contents of a directory *)
(* are what the order of extractions made of it.                           *)
(***************************************************************************)
EXTENDS Naturals

CONSTANTS Hosts, Pulls, Layers,
          HostOf,       \* the host a pull runs on
          LayersOf,     \* the layers of each version
          MaxAttempts,  \* maxAttempts of ensureLayer
          MaxEvents     \* bound: failed calls and transfers, process deaths, moves of the tag, and pulls
                        \* begun while the host is at work on another one

ASSUME ImagesAssumption == /\ HostOf \in [Pulls -> Hosts]
                           /\ DOMAIN LayersOf \subseteq Nat \ {0} /\ 1 \in DOMAIN LayersOf
                           /\ \A v \in DOMAIN LayersOf : LayersOf[v] \subseteq Layers
                           /\ MaxAttempts \in Nat /\ MaxEvents \in Nat

VARIABLES
  remote,    \* the version the tag names in the registry
  mem,       \* manifestCache, 0: no entry
  list,      \* the persisted layer list, 0: no file
  index,     \* the persisted index digest, 0: no file
  dest,      \* what layerCache/<hash> holds
  tmp,       \* what the .tmp-<hash> directory holds
  blob,      \* the layers whose compressed blob file is complete
  inflight,  \* inflightLayers
  resolving, \* the call of imageSF in progress
  flight,    \* the calls of layerSF in progress
  pull,      \* the calls of PullWithOptions
  events,
  overlapped \* history: the hosts two pulls were at work on at once

files == <<list, index, dest, blob>>
vars == <<remote, mem, list, index, dest, tmp, blob, inflight, resolving, flight, pull, events, overlapped>>

Versions == DOMAIN LayersOf
Contents == {"none", "empty", "partial", "full", "mixed"}

NewPull == [pc |-> "new", ver |-> 0, idx |-> 0, saves |-> FALSE, todo |-> {}, wait |-> {}, marked |-> {},
            failed |-> FALSE, seen |-> 0]
NoFlight == [pc |-> "none", marked |-> FALSE, peer |-> "none", bad |-> {}, tries |-> 0, ok |-> FALSE]
NoCall == [pc |-> "none", ver |-> 0, idx |-> 0]

Event == events < MaxEvents /\ events' = events + 1
Busy(p) == pull[p].pc \notin {"new", "done"}
Alone(p) == \A q \in Pulls \ {p} : HostOf[q] = HostOf[p] => ~Busy(q)

-----------------------------------------------------------------------------
(***************************************************************************)
(* PullWithOptions as far as the registry.                                 *)
(***************************************************************************)
\* loadLayerCache: the list is there and so is every directory it names
Loads(h) == list[h] # 0 /\ \A l \in LayersOf[list[h]] : dest[h][l] # "none"

PullFrame == UNCHANGED <<remote, mem, files, tmp, flight>>

\* seen stays only when the version returned was confirmed by the registry
Ends(p, v, confirmed, ok) ==
  pull' = [pull EXCEPT ![p] = [NewPull EXCEPT !.pc = "done", !.ver = v, !.failed = ~ok,
                                              !.seen = IF confirmed THEN pull[p].seen ELSE 0]]

\* layersFromImage is entered with version v: layers missing on disk are announced before any
\* of them is fetched
Enters(p, v, idx, saves) ==
  LET missing == {l \in LayersOf[v] : dest[HostOf[p]][l] = "none"}
  IN  /\ inflight' = [inflight EXCEPT ![HostOf[p]] = @ \cup missing]
      /\ pull' = [pull EXCEPT ![p] = [@ EXCEPT !.pc = "layers", !.ver = v, !.idx = idx, !.saves = saves,
                                              !.todo = LayersOf[v], !.marked = missing]]

Begins(p) ==
  /\ pull[p].pc = "new"
  /\ IF Alone(p) THEN UNCHANGED <<overlapped, events>> ELSE Event /\ overlapped' = overlapped \cup {HostOf[p]}

\* IfNotPresent and Never look at memory and at the disk first.  A manifest that is only in
\* memory has its layers fetched again and nothing saved.
PullFinds(p) ==
  LET h == HostOf[p]
  IN  /\ Begins(p) /\ (mem[h] # 0 \/ Loads(h))
      /\ IF Loads(h) THEN Ends(p, list[h], FALSE, TRUE) /\ UNCHANGED inflight
                     ELSE Enters(p, mem[h], 0, FALSE)
      /\ UNCHANGED <<remote, mem, files, tmp, resolving, flight>>

\* Never, and nothing is cached
PullRefuses(p) ==
  /\ Begins(p) /\ mem[HostOf[p]] = 0 /\ ~Loads(HostOf[p])
  /\ Ends(p, 0, FALSE, FALSE)
  /\ PullFrame /\ UNCHANGED <<resolving, inflight>>

\* Always, or IfNotPresent with nothing cached: the persisted list is read
PullStarts(p) ==
  /\ Begins(p)
  /\ pull' = [pull EXCEPT ![p] = IF Loads(HostOf[p])
                                 THEN [@ EXCEPT !.pc = "head", !.ver = list[HostOf[p]], !.seen = remote]
                                 ELSE [@ EXCEPT !.pc = "resolve", !.seen = remote]]
  /\ PullFrame /\ UNCHANGED <<resolving, inflight>>

\* Mutant: any persisted digest will do
PullHeadsAny(p) ==
  /\ pull[p].pc = "head"
  /\ IF index[HostOf[p]] # 0 THEN Ends(p, pull[p].ver, TRUE, TRUE)
                             ELSE pull' = [pull EXCEPT ![p] = [@ EXCEPT !.pc = "resolve", !.ver = 0]]
  /\ PullFrame /\ UNCHANGED <<resolving, inflight, overlapped, events>>

\* The index digest is another file.  When it names what the registry has, the paths read
\* before are returned.
PullHeads(p) ==
  LET cached == index[HostOf[p]]
  IN  /\ pull[p].pc = "head"
      /\ \/ cached = remote /\ Ends(p, pull[p].ver, TRUE, TRUE) /\ UNCHANGED events
         \/ /\ (cached # remote /\ UNCHANGED events) \/ (cached # 0 /\ Event)
            /\ pull' = [pull EXCEPT ![p] = [@ EXCEPT !.pc = "resolve", !.ver = 0]]
      /\ PullFrame /\ UNCHANGED <<resolving, inflight, overlapped>>

\* imageSF.Do: the first caller resolves, beginning with remote.Head, whose failure only leaves
\* the index digest empty; the others wait for its result
PullResolves(p) ==
  LET h == HostOf[p]
  IN  /\ pull[p].pc = "resolve"
      /\ pull' = [pull EXCEPT ![p].pc = "resolving"]
      /\ \/ resolving[h].pc # "none" /\ UNCHANGED <<resolving, events>>
         \/ \E idx \in {remote, 0} :
              /\ resolving[h].pc = "none"
              /\ IF idx = 0 THEN Event ELSE UNCHANGED events
              /\ resolving' = [resolving EXCEPT ![h] = [pc |-> "image", ver |-> 0, idx |-> idx]]
      /\ PullFrame /\ UNCHANGED <<inflight, overlapped>>

\* Mutant: the manifest is read first and the digest afterwards
ResolveReadsFirst(h) ==
  /\ resolving[h].pc = "image"
  /\ resolving' = [resolving EXCEPT ![h] = [pc |-> "back", ver |-> @.idx, idx |-> remote]]
  /\ PullFrame /\ UNCHANGED <<inflight, pull, overlapped, events>>

\* remote.Image, which reads the tag a second time
ResolveReads(h) ==
  /\ resolving[h].pc = "image"
  /\ \E ok \in BOOLEAN :
       /\ IF ok THEN UNCHANGED events ELSE Event
       /\ resolving' = [resolving EXCEPT ![h] = [@ EXCEPT !.pc = "back", !.ver = IF ok THEN remote ELSE 0]]
  /\ PullFrame /\ UNCHANGED <<inflight, pull, overlapped>>

ResolveReturns(h) ==
  /\ resolving[h].pc = "back"
  /\ pull' = [p \in Pulls |->
                IF HostOf[p] = h /\ pull[p].pc = "resolving"
                THEN [pull[p] EXCEPT !.pc = "resolved", !.ver = resolving[h].ver, !.idx = resolving[h].idx]
                ELSE pull[p]]
  /\ resolving' = [resolving EXCEPT ![h] = NoCall]
  /\ PullFrame /\ UNCHANGED <<inflight, events, overlapped>>

PullStores(p) ==
  /\ pull[p].pc = "resolved" /\ pull[p].ver # 0
  /\ mem' = [mem EXCEPT ![HostOf[p]] = pull[p].ver]
  /\ Enters(p, pull[p].ver, pull[p].idx, TRUE)
  /\ UNCHANGED <<remote, files, tmp, resolving, flight, events, overlapped>>

\* The registry failed: the manifest in memory, then the layers on disk
PullFallsBack(p) ==
  LET h == HostOf[p]
  IN  /\ pull[p].pc = "resolved" /\ pull[p].ver = 0
      /\ IF mem[h] # 0 THEN Enters(p, mem[h], 0, FALSE)
                       ELSE /\ Ends(p, IF Loads(h) THEN list[h] ELSE 0, FALSE, Loads(h))
                            /\ UNCHANGED inflight
      /\ UNCHANGED <<remote, mem, files, tmp, resolving, flight, events, overlapped>>

-----------------------------------------------------------------------------
(***************************************************************************)
(* layersFromImage and ensureLayer.                                        *)
(***************************************************************************)
FlightFrame == UNCHANGED <<remote, mem, list, index, resolving, pull, overlapped>>

At(h, l, pc) == flight[h][l].pc = pc
Goes(h, l, pc) == flight' = [flight EXCEPT ![h][l].pc = pc]

\* Mutant: only a layer that was fetched is taken off the announcements
EnsuredFetched(h, l, ok) ==
  /\ flight' = [flight EXCEPT ![h][l] = [NoFlight EXCEPT !.pc = "back", !.ok = ok]]
  /\ inflight' = IF flight[h][l].marked /\ ok THEN [inflight EXCEPT ![h] = @ \ {l}] ELSE inflight

\* ensureLayer is over; markLayerDone, by a leader that announced the layer
Ensured(h, l, ok) ==
  /\ flight' = [flight EXCEPT ![h][l] = [NoFlight EXCEPT !.pc = "back", !.ok = ok]]
  /\ inflight' = IF flight[h][l].marked THEN [inflight EXCEPT ![h] = @ \ {l}] ELSE inflight

\* layerSF.Do: the first caller leads.  It makes a temporary directory unless the layer has been
\* extracted; and it alone takes the announcement back.
PullJoins(p, l) ==
  LET h == HostOf[p]
      marked == l \in pull[p].marked
  IN  /\ l \in pull[p].todo
      /\ pull' = [pull EXCEPT ![p].todo = @ \ {l}, ![p].wait = @ \cup {l}]
      /\ \/ ~At(h, l, "none") /\ UNCHANGED <<flight, tmp, inflight>>
         \/ /\ At(h, l, "none") /\ dest[h][l] = "none"
            /\ flight' = [flight EXCEPT ![h][l] = [@ EXCEPT !.pc = IF l \in blob[h] THEN "blob" ELSE "ask",
                                                           !.marked = marked]]
            /\ tmp' = [tmp EXCEPT ![h][l] = "empty"]
            /\ UNCHANGED inflight
         \/ /\ At(h, l, "none") /\ dest[h][l] # "none"
            /\ flight' = [flight EXCEPT ![h][l] = [@ EXCEPT !.pc = "back", !.ok = TRUE]]
            /\ inflight' = IF marked THEN [inflight EXCEPT ![h] = @ \ {l}] ELSE inflight
            /\ UNCHANGED tmp
      /\ UNCHANGED <<remote, mem, files, resolving, events, overlapped>>

\* Extraction creates and overwrites files: over the rest of another one it leaves a mixture
Extracted(content) == IF content = "empty" THEN "full" ELSE "mixed"

\* saveAndExtract: the blob file appears only once everything was extracted
Saved(h, l) == /\ tmp' = [tmp EXCEPT ![h][l] = Extracted(@)]
               /\ blob' = [blob EXCEPT ![h] = @ \cup {l}]
               /\ Goes(h, l, "commit")

\* Mutant: the directory is not made again
ClearedBlob(h, l) == /\ tmp' = [tmp EXCEPT ![h][l] = "partial"]
                     /\ blob' = [blob EXCEPT ![h] = @ \ {l}]

\* A failed extraction: the blob and the directory are removed, the directory is made again
Cleared(h, l) == /\ tmp' = [tmp EXCEPT ![h][l] = "empty"]
                 /\ blob' = [blob EXCEPT ![h] = @ \ {l}]

LayerFromBlob(h, l) ==
  /\ At(h, l, "blob")
  /\ \/ tmp' = [tmp EXCEPT ![h][l] = Extracted(@)] /\ Goes(h, l, "commit") /\ UNCHANGED <<blob, events>>
     \/ Event /\ Cleared(h, l) /\ Goes(h, l, "ask")
  /\ FlightFrame /\ UNCHANGED <<dest, inflight>>

\* peerEndpoints: one endpoint per host other than this one, which the host label and the self
\* marker of SetPeers recognise
PeerEndpoints(h) == Hosts \ {h}

\* The handlers of a host's HTTPS server: GET /blobs/inflight, and GET or HEAD /blobs/{digest}
InflightHashes(g) == inflight[g]
ServesBlob(g, l) == l \in blob[g]

\* The selector of one layer: the peers not marked bad, of which fetch tries one after another
Healthy(h, l) == PeerEndpoints(h) \ flight[h][l].bad
Fetches(h, l) == {g \in Healthy(h, l) : ServesBlob(g, l)}
MarkBad(h, l, g) == flight' = [flight EXCEPT ![h][l].bad = @ \cup {g}]

\* peersWithInflight: a peer that announces the layer is waited for.  An unreachable peer is
\* passed over.
LayerAsks(h, l) ==
  /\ At(h, l, "ask")
  /\ \/ \E g \in PeerEndpoints(h) : /\ l \in InflightHashes(g)
                                    /\ flight' = [flight EXCEPT ![h][l] = [@ EXCEPT !.pc = "wait", !.peer = g]]
                                    /\ UNCHANGED events
     \/ /\ ((\A g \in PeerEndpoints(h) : l \notin InflightHashes(g)) /\ UNCHANGED events) \/ Event
        /\ Goes(h, l, "peers")
  /\ FlightFrame /\ UNCHANGED <<dest, tmp, blob, inflight>>

\* waitForPeerLayer returned true, and the layer is fetched from that peer
LayerAwaits(h, l) ==
  /\ At(h, l, "wait") /\ ServesBlob(flight[h][l].peer, l)
  /\ \/ Saved(h, l) /\ UNCHANGED events
     \/ Event /\ Cleared(h, l) /\ Goes(h, l, "peers")
  /\ FlightFrame /\ UNCHANGED <<dest, inflight>>

\* Mutant: the wait has no end
LayerWaitsOn(h, l) == FALSE

\* waitForPeerLayer ran into its timeout
LayerTimesOut(h, l) ==
  /\ At(h, l, "wait") /\ ~ServesBlob(flight[h][l].peer, l)
  /\ Goes(h, l, "peers")
  /\ FlightFrame /\ UNCHANGED <<dest, tmp, blob, inflight, events>>

\* selector.fetch: a peer without the blob is as bad as one that fails
LayerFromPeer(h, l) ==
  LET peers == Fetches(h, l)
  IN  /\ At(h, l, "peers")
      /\ \/ peers # {} /\ Saved(h, l) /\ UNCHANGED events
         \/ \E g \in peers : Event /\ Cleared(h, l) /\ MarkBad(h, l, g)
         \/ peers = {} /\ Goes(h, l, "upstream") /\ UNCHANGED <<tmp, blob, events>>
      /\ FlightFrame /\ UNCHANGED <<dest, inflight>>

LayerFromRegistry(h, l) ==
  LET tries == flight[h][l].tries + 1
  IN  /\ At(h, l, "upstream")
      /\ \/ Saved(h, l) /\ UNCHANGED <<inflight, events>>
         \/ /\ Event /\ tries < MaxAttempts /\ Cleared(h, l) /\ UNCHANGED inflight
            /\ flight' = [flight EXCEPT ![h][l].tries = tries]
         \/ /\ Event /\ tries = MaxAttempts
            /\ tmp' = [tmp EXCEPT ![h][l] = "none"] /\ UNCHANGED blob
            /\ Ensured(h, l, FALSE)
      /\ FlightFrame /\ UNCHANGED dest

\* commitLayer: one rename
LayerCommits(h, l) ==
  /\ At(h, l, "commit")
  /\ dest' = [dest EXCEPT ![h][l] = IF @ = "none" THEN tmp[h][l] ELSE @]
  /\ tmp' = [tmp EXCEPT ![h][l] = "none"]
  /\ Ensured(h, l, TRUE)
  /\ FlightFrame /\ UNCHANGED <<blob, events>>

LayerReturns(h, l) ==
  /\ At(h, l, "back")
  /\ flight' = [flight EXCEPT ![h][l] = NoFlight]
  /\ pull' = [p \in Pulls |->
                IF HostOf[p] = h /\ l \in pull[p].wait
                THEN [pull[p] EXCEPT !.wait = @ \ {l}, !.failed = @ \/ ~flight[h][l].ok]
                ELSE pull[p]]
  /\ UNCHANGED <<remote, mem, files, tmp, inflight, resolving, events, overlapped>>

-----------------------------------------------------------------------------
\* g.Wait, and saveLayerCache when the manifest came from the registry
PullWaits(p) ==
  /\ pull[p].pc = "layers" /\ pull[p].todo = {} /\ pull[p].wait = {}
  /\ IF pull[p].saves /\ ~pull[p].failed
     THEN /\ list' = [list EXCEPT ![HostOf[p]] = pull[p].ver]
          /\ pull' = [pull EXCEPT ![p] = [@ EXCEPT !.pc = "save", !.marked = {}]]
     ELSE Ends(p, pull[p].ver, FALSE, ~pull[p].failed) /\ UNCHANGED list
  /\ UNCHANGED <<remote, mem, index, dest, tmp, blob, inflight, resolving, flight, events, overlapped>>

\* saveIndexDigest
PullSavesIndex(p) ==
  /\ pull[p].pc = "save"
  /\ index' = [index EXCEPT ![HostOf[p]] = IF pull[p].idx # 0 THEN pull[p].idx ELSE @]
  /\ Ends(p, pull[p].ver, TRUE, TRUE)
  /\ UNCHANGED <<remote, mem, list, dest, tmp, blob, inflight, resolving, flight, events, overlapped>>

-----------------------------------------------------------------------------
\* Somebody pushes a new version under the tag
TagMoves == /\ remote + 1 \in Versions /\ remote' = remote + 1 /\ Event
            /\ UNCHANGED <<mem, files, tmp, inflight, resolving, flight, pull, overlapped>>

\* The process dies and is started again: SweepStaleTmpDirs, and the pods are created anew
Restarts(h) ==
  /\ Event
  /\ mem' = [mem EXCEPT ![h] = 0]
  /\ inflight' = [inflight EXCEPT ![h] = {}]
  /\ resolving' = [resolving EXCEPT ![h] = NoCall]
  /\ flight' = [flight EXCEPT ![h] = [l \in Layers |-> NoFlight]]
  /\ tmp' = [tmp EXCEPT ![h] = [l \in Layers |-> "none"]]
  /\ pull' = [p \in Pulls |-> IF HostOf[p] = h /\ Busy(p) THEN NewPull ELSE pull[p]]
  /\ UNCHANGED <<remote, files, overlapped>>

Init ==
  /\ remote = 1 /\ events = 0 /\ overlapped = {}
  /\ mem = [h \in Hosts |-> 0] /\ list = mem /\ index = mem
  /\ dest = [h \in Hosts |-> [l \in Layers |-> "none"]] /\ tmp = dest
  /\ blob = [h \in Hosts |-> {}] /\ inflight = blob
  /\ resolving = [h \in Hosts |-> NoCall]
  /\ flight = [h \in Hosts |-> [l \in Layers |-> NoFlight]]
  /\ pull = [p \in Pulls |-> NewPull]

PullStep(p) ==
  \/ PullFinds(p) \/ PullRefuses(p) \/ PullStarts(p) \/ PullHeads(p) \/ PullResolves(p)
  \/ PullStores(p) \/ PullFallsBack(p) \/ \E l \in Layers : PullJoins(p, l)
  \/ PullWaits(p) \/ PullSavesIndex(p)

ResolveStep(h) == ResolveReads(h) \/ ResolveReturns(h)

LayerStep(h, l) ==
  \/ LayerFromBlob(h, l) \/ LayerAsks(h, l) \/ LayerAwaits(h, l) \/ LayerTimesOut(h, l)
  \/ LayerFromPeer(h, l) \/ LayerFromRegistry(h, l) \/ LayerCommits(h, l) \/ LayerReturns(h, l)

Next ==
  \/ TagMoves
  \/ \E p \in Pulls : PullStep(p)
  \/ \E h \in Hosts : \/ ResolveStep(h) \/ Restarts(h)
                      \/ \E l \in Layers : LayerStep(h, l)

Spec == Init /\ [][Next]_vars

\* Goroutines run, and every transfer ends: the HTTP clients have timeouts and the readers stall
\* guards
FairSpec ==
  /\ Spec
  /\ \A p \in Pulls : WF_vars(PullStep(p))
  /\ \A h \in Hosts : /\ WF_vars(ResolveStep(h))
                      /\ \A l \in Layers : WF_vars(LayerStep(h, l))

-----------------------------------------------------------------------------
Version == Versions \cup {0}
Call == [pc : {"none", "image", "back"}, ver : Version, idx : Version]
FlightPC == {"none", "blob", "ask", "wait", "peers", "upstream", "commit", "back"}
Flight == [pc : FlightPC, marked : BOOLEAN, peer : Hosts \cup {"none"}, bad : SUBSET Hosts, tries : 0..MaxAttempts,
           ok : BOOLEAN]
PullPC == {"new", "head", "resolve", "resolving", "resolved", "layers", "save", "done"}
Pull == [pc : PullPC, ver : Version, idx : Version, saves : BOOLEAN, todo : SUBSET Layers, wait : SUBSET Layers,
         marked : SUBSET Layers, failed : BOOLEAN, seen : Version]

\* The types of the image managers' memory and files.
TypeOK ==
  /\ remote \in Versions /\ events \in 0..MaxEvents /\ overlapped \in SUBSET Hosts
  /\ mem \in [Hosts -> Version] /\ list \in [Hosts -> Version] /\ index \in [Hosts -> Version]
  /\ dest \in [Hosts -> [Layers -> Contents]] /\ tmp \in [Hosts -> [Layers -> Contents]]
  /\ blob \in [Hosts -> SUBSET Layers] /\ inflight \in [Hosts -> SUBSET Layers]
  /\ resolving \in [Hosts -> Call]
  /\ flight \in [Hosts -> [Layers -> Flight]]
  /\ pull \in [Pulls -> Pull]

\* Whatever failed, stalled or was killed on the way, a layer directory that overlays are mounted
\* from holds exactly one complete extraction (ensureLayer, commitLayer), and a pull that
\* returned success returned directories that are there.
LayersWhole ==
  /\ \A h \in Hosts, l \in Layers : dest[h][l] \in {"none", "full"}
  /\ \A p \in Pulls : pull[p].pc = "done" /\ ~pull[p].failed =>
       \A l \in LayersOf[pull[p].ver] : dest[HostOf[p]][l] = "full"

\* As long as the pulls of a host came one after another, its persisted index digest is never
\* newer than its persisted layer list, whatever moved, failed or died between the two reads of
\* the tag and the two writes: so a digest that matches the registry vouches for the layers.
IndexNotAhead == \A h \in Hosts \ overlapped : index[h] <= list[h]

\* An Always pull that the registry answered returns a version at least as new as the tag
\* had when the pull began, as long as the host's pulls came one after another.
UpdatesSeen ==
  \A p \in Pulls : pull[p].pc = "done" /\ HostOf[p] \notin overlapped => pull[p].ver >= pull[p].seen

\* A host whose pulls came one after another and are over announces no layer to its peers
\* (markInflight, markLayerDone), failed pulls included.
AnnouncementsEnd ==
  \A h \in Hosts \ overlapped : (\A p \in Pulls : HostOf[p] = h => ~Busy(p)) => inflight[h] = {}

\* Every pull returns: two hosts that wait for each other's layer are freed by the timeout of
\* waitForPeerLayer, and joined calls by the call they joined.
PullsReturn == \A p \in Pulls : <>[](pull[p].pc = "done")

=============================================================================
